----------------------------- MODULE ActionLedger -----------------------------
(***************************************************************************)
(* How the play executes actions and what its event log says of them:      *)
(* executeAction (src/actions/action-executor.ts) between the nodes of the *)
(* graph, writeEvent, and the projection of the events into                *)
(* action_execution_state, which the next execution looks its key up in.   *)
(* Every attempt of a job inserts lead and play rows of its own, but all   *)
(* of them use the job's keys; attempts may overlap, as a job that stalls  *)
(* is started again.  One action is one awaited call with the code after   *)
(* it.  An insert into event_log that fails is thrown, and so is one that  *)
(* was carried out and whose answer was lost.                              *)
(***************************************************************************)
EXTENDS Integers, FiniteSets

CONSTANTS
  Jobs,             \* jobs of the inbound-lead queue
  Attempts,         \* attempts of a job
  EventErrors,      \* whether an insert into event_log may throw
  ProjectionErrors, \* whether action_execution_state may refuse a write or a read
  Backlog           \* bound: projections under way at a time

ASSUME LedgerAssumption ==
  /\ Attempts \in Nat
  /\ Backlog \in Nat
  /\ EventErrors \in BOOLEAN /\ ProjectionErrors \in BOOLEAN

VARIABLES
  pc,       \* where each run is
  act,      \* the action it is at
  match,    \* what account_match found
  written,  \* writes of each action that took effect, of this run
  log,      \* event_log rows of the run
  lost,     \* event_log rows of the run that are missing: inserts not carried out
  pending,  \* projections under way
  table     \* action_execution_state, by key

vars == <<pc, act, match, written, log, lost, pending, table>>

Runs == Jobs \X (1 .. Attempts)

Actions == {"mark_duplicate", "qualify_lead", "mark_nurture", "request_human_review",
            "assign_owner", "start_sequence"}

\* org:workflowRunId:type, and the workflowRunId is the job's id.
Key(r, a) == <<r[1], a>>
Keys      == Jobs \X Actions

\* The writes of an action in their order: lead and play; the platform, the play
\* and the lead; Salesforce, the play and the counter.  The write to a platform
\* that is not configured is skipped, and counts as made.
Writes == [a \in Actions |->
  CASE a \in {"qualify_lead", "request_human_review"} -> 1
    [] a \in {"mark_duplicate", "mark_nurture"}       -> 2
    [] a \in {"assign_owner", "start_sequence"}       -> 3]

Done(r, a) == written[r][a] = Writes[a]

Places == {"idle", "validate", "match", "propose", "choose", "check", "start", "work", "succeed",
           "fail", "report", "mark", "complete", "done", "failed", "dead"}
Ended  == {"done", "failed", "dead"}

Statuses == {"proposed", "started", "succeeded", "failed", "deduplicated"}
NoRow    == "no_row"
None     == "none"

Event(kind, a, keyed) == [kind |-> kind, act |-> a, keyed |-> keyed]

\* account_match_found and the events that end a play belong to no action.
Events == [kind : Statuses \cup {"found", "node_failed", "marked", "completed"},
           act : Actions \cup {None}, keyed : BOOLEAN]

Has(r, kind, a) == \E e \in log[r] : e.kind = kind /\ e.act = a
-----------------------------------------------------------------------------
(* Steps of a run *)

Move(r, place, a) ==
  /\ pc' = [pc EXCEPT ![r] = place]
  /\ act' = [act EXCEPT ![r] = a]

\* writeEvent: the row, and the projection that nobody waits for, which ends at
\* once when the event has no key.
Write(r, e) ==
  /\ log' = [log EXCEPT ![r] = @ \cup {e}]
  /\ Cardinality(pending) < Backlog
  /\ pending' = pending \cup {[run |-> r, event |-> x] : x \in {y \in {e} : y.keyed}}

Unlogged == UNCHANGED <<log, pending>>

\* The row is stored and its writer does not know: nothing is projected.
Store(r, e) ==
  /\ log' = [log EXCEPT ![r] = @ \cup {e}]
  /\ UNCHANGED pending

\* A run of the job starts: the first, one after a failure, or one after a stall.
Begin(r) ==
  /\ pc[r] = "idle"
  /\ r[2] > 1 => pc[<<r[1], r[2] - 1>>] \notin {"idle", "done"}
  /\ Move(r, "validate", None)
  /\ UNCHANGED <<match, written, lost, table>> /\ Unlogged

\* The duplicate check may go either way, also for a repeated attempt, as a
\* failed query counts as "no duplicate".
Validate(r) ==
  /\ pc[r] = "validate"
  /\ \/ Move(r, "check", "mark_duplicate")
     \/ Move(r, "match", None)
  /\ UNCHANGED <<match, written, lost, table>> /\ Unlogged

\* Any error in account_match, its event's included, means no match.  What these
\* branches log has no key and tells of no action, and is left out.
NoMatch(r) ==
  /\ pc[r] = "match"
  /\ Move(r, "propose", "qualify_lead")
  /\ UNCHANGED <<match, written, lost, table>> /\ Unlogged

\* A match of either kind sets _bypassQualification.
Bypass(r) ==
  /\ pc[r] = "match"
  /\ \E kind \in {"deal", "account"} : match' = [match EXCEPT ![r] = kind]
  /\ Write(r, Event("found", None, FALSE))
  /\ Move(r, "check", "start_sequence")
  /\ UNCHANGED <<written, lost, table>>

\* Mutant: the proposal carries the key of its action.
ProposeWithKey(r) ==
  /\ pc[r] = "propose"
  /\ \/ /\ act[r] = "qualify_lead"
        /\ Write(r, Event("proposed", "qualify_lead", TRUE))
        /\ Move(r, "check", "qualify_lead")
     \/ /\ act[r] = None
        /\ \E a \in {"assign_owner", "request_human_review"} :
             Write(r, Event("proposed", a, TRUE)) /\ Move(r, "choose", a)
  /\ UNCHANGED <<match, written, lost, table>>

\* action_proposed of the qualify and the route node has no idempotency key.
Propose(r) ==
  /\ pc[r] = "propose"
  /\ \/ /\ act[r] = "qualify_lead"
        /\ Write(r, Event("proposed", "qualify_lead", FALSE))
        /\ Move(r, "check", "qualify_lead")
     \/ /\ act[r] = None
        /\ \E a \in {"assign_owner", "request_human_review"} :
             Write(r, Event("proposed", a, FALSE)) /\ Move(r, "choose", a)
  /\ UNCHANGED <<match, written, lost, table>>

\* validateAction: the registry may ask for a human.
Choose(r) ==
  /\ pc[r] = "choose"
  /\ \/ Move(r, "check", act[r])
     \/ Move(r, "check", "request_human_review")
  /\ UNCHANGED <<match, written, lost, table>> /\ Unlogged

\* Where the graph goes after an action.
Advance(r) ==
  CASE act[r] \in {"mark_duplicate", "mark_nurture"} -> Move(r, "mark", act[r])
    [] act[r] = "qualify_lead" ->
         Move(r, "check", "mark_nurture") \/ Move(r, "propose", None)
    [] act[r] = "assign_owner"         -> Move(r, "check", "start_sequence")
    [] act[r] = "start_sequence"       -> Move(r, "complete", act[r])
    [] act[r] = "request_human_review" -> Move(r, "done", act[r])

\* A row of any status counts as "executed"; a query that fails as "not yet".
Known(r, a) == table[Key(r, a)] # NoRow

CheckKey(r) ==
  /\ pc[r] = "check"
  /\ \E readable \in {TRUE} \cup {x \in {FALSE} : ProjectionErrors} :
       IF readable /\ Known(r, act[r])
         THEN Write(r, Event("deduplicated", act[r], TRUE)) /\ Advance(r)
         ELSE Move(r, "start", act[r]) /\ Unlogged
  /\ UNCHANGED <<match, written, lost, table>>

LogStarted(r) ==
  /\ pc[r] = "start"
  /\ Write(r, Event("started", act[r], TRUE))
  /\ Move(r, "work", act[r])
  /\ UNCHANGED <<match, written, lost, table>>

Effect(r) ==
  written' = [written EXCEPT ![r][act[r]] = @ + 1]

\* Mutant: the last write is not waited for.
WorkAhead(r) ==
  /\ pc[r] = "work" /\ Effect(r)
  /\ Move(r, IF written[r][act[r]] + 2 >= Writes[act[r]] THEN "succeed" ELSE "work", act[r])
  /\ UNCHANGED <<match, lost, table>> /\ Unlogged

Work(r) ==
  /\ pc[r] = "work" /\ Effect(r)
  /\ Move(r, IF written[r][act[r]] + 1 = Writes[act[r]] THEN "succeed" ELSE "work", act[r])
  /\ UNCHANGED <<match, lost, table>> /\ Unlogged

\* A platform or the database refuses, no platform is configured, or the write
\* was carried out and its answer lost.
WorkFails(r) ==
  /\ pc[r] = "work"
  /\ Effect(r) \/ UNCHANGED written
  /\ Move(r, "fail", act[r])
  /\ UNCHANGED <<match, lost, table>> /\ Unlogged

LogSucceeded(r) ==
  /\ pc[r] = "succeed"
  /\ Write(r, Event("succeeded", act[r], TRUE))
  /\ Advance(r)
  /\ UNCHANGED <<match, written, lost, table>>

LogFailed(r) ==
  /\ pc[r] = "fail"
  /\ Write(r, Event("failed", act[r], TRUE))
  /\ Move(r, "report", act[r])
  /\ UNCHANGED <<match, written, lost, table>>

\* The node's own catch: a second event of the failure, without a key.
Report(r) ==
  /\ pc[r] = "report"
  /\ Write(r, Event("node_failed", act[r], FALSE))
  /\ Move(r, "failed", act[r])
  /\ UNCHANGED <<match, written, lost, table>>

\* play_marked_duplicate, play_marked_nurture and play_completed.
Finish(r) ==
  /\ pc[r] \in {"mark", "complete"}
  /\ Write(r, Event(IF pc[r] = "mark" THEN "marked" ELSE "completed", None, FALSE))
  /\ Move(r, "done", act[r])
  /\ UNCHANGED <<match, written, lost, table>>

\* Where a run writes an event that its node's catch answers for.
Logging(r) ==
  \/ pc[r] \in {"propose", "start", "fail", "mark", "complete"}
  \/ pc[r] = "check" /\ Known(r, act[r])

\* The events a run may be about to write where it is.
Due(r) ==
  CASE pc[r] = "propose" ->
         {Event("proposed", a, FALSE) :
            a \in IF act[r] = None THEN {"assign_owner", "request_human_review"} ELSE {act[r]}}
    [] pc[r] = "check"    -> {Event("deduplicated", act[r], TRUE)}
    [] pc[r] = "start"    -> {Event("started", act[r], TRUE)}
    [] pc[r] = "succeed"  -> {Event("succeeded", act[r], TRUE)}
    [] pc[r] = "fail"     -> {Event("failed", act[r], TRUE)}
    [] pc[r] = "report"   -> {Event("node_failed", act[r], FALSE)}
    [] pc[r] = "mark"     -> {Event("marked", None, FALSE)}
    [] pc[r] = "complete" -> {Event("completed", None, FALSE)}
    [] OTHER -> {}

\* Such an insert throws: it was refused, or only its answer was lost.
Thrown(r) ==
  \/ lost' = [lost EXCEPT ![r] = @ + 1] /\ Unlogged
  \/ (\E e \in Due(r) : Store(r, e)) /\ UNCHANGED lost

\* Mutant: an event that cannot be written is not worth another one.
EventGivenUp(r) ==
  /\ EventErrors
  /\ Logging(r) \/ pc[r] \in {"succeed", "report"}
  /\ Move(r, "failed", act[r])
  /\ Thrown(r)
  /\ UNCHANGED <<match, written, table>>

\* The insert of the event throws: executeAction's catch adds a failure to what
\* may be a success in the log, and the node's catch tries once more.
EventRefused(r) ==
  /\ EventErrors
  /\ \/ Logging(r) /\ Move(r, "report", act[r])
     \/ pc[r] = "succeed" /\ Move(r, "fail", act[r])
     \/ pc[r] = "report" /\ Move(r, "failed", act[r])
  /\ Thrown(r)
  /\ UNCHANGED <<match, written, table>>

\* first_touch looks for the prospect before it executes the action.
PrepareFails(r) ==
  /\ pc[r] = "check" /\ act[r] = "start_sequence"
  /\ Move(r, "report", act[r])
  /\ UNCHANGED <<match, written, lost, table>> /\ Unlogged

\* A node begins with its snapshot, outside its try: without one nothing is logged.
SnapshotFails(r) ==
  /\ \/ pc[r] \in {"validate", "propose", "complete"}
     \/ pc[r] = "check" /\ act[r] \in {"mark_duplicate", "mark_nurture", "start_sequence"}
  /\ Move(r, "failed", act[r])
  /\ UNCHANGED <<match, written, lost, table>> /\ Unlogged

\* The process of a run dies, and its projections with it.
Crash(r) ==
  /\ pc[r] \notin Ended \cup {"idle"}
  /\ Move(r, "dead", act[r])
  /\ pending' = {p \in pending : p.run # r}
  /\ UNCHANGED <<match, written, log, lost, table>>
-----------------------------------------------------------------------------
(* processEvent *)

\* A proposal inserts the row, the other events update it if it is there.
Projected(p) ==
  LET k == Key(p.run, p.event.act)
      e == p.event
  IN  IF e.kind # "proposed" /\ table[k] = NoRow
        THEN table
        ELSE [table EXCEPT ![k] = e.kind]

\* Projections overtake each other.
Project ==
  /\ \E p \in pending :
       /\ pending' = pending \ {p}
       /\ table' = Projected(p)
  /\ UNCHANGED <<pc, act, match, written, log, lost>>

LoseProjection ==
  /\ ProjectionErrors
  /\ \E p \in pending : pending' = pending \ {p}
  /\ UNCHANGED <<pc, act, match, written, log, lost, table>>
-----------------------------------------------------------------------------
Init ==
  /\ pc = [r \in Runs |-> "idle"]
  /\ act = [r \in Runs |-> None]
  /\ match = [r \in Runs |-> None]
  /\ written = [r \in Runs |-> [a \in Actions |-> 0]]
  /\ log = [r \in Runs |-> {}]
  /\ lost = [r \in Runs |-> 0]
  /\ pending = {}
  /\ table = [k \in Keys |-> NoRow]

Step(r) ==
  \/ Begin(r) \/ Validate(r) \/ NoMatch(r) \/ Bypass(r) \/ Propose(r) \/ Choose(r)
  \/ CheckKey(r) \/ LogStarted(r)
  \/ Work(r) \/ WorkFails(r) \/ LogSucceeded(r) \/ LogFailed(r) \/ Report(r) \/ Finish(r)
  \/ EventRefused(r) \/ PrepareFails(r) \/ SnapshotFails(r)

Next ==
  \/ \E r \in Runs : Step(r) \/ Crash(r)
  \/ Project \/ LoseProjection

Spec == Init /\ [][Next]_vars
-----------------------------------------------------------------------------
(* Correctness *)

\* The actions on the way to the one a run is at, and with it.
Before(r) ==
  CASE act[r] \in {"mark_duplicate", "qualify_lead"} -> {}
    [] act[r] = "start_sequence" ->
         IF match[r] = None THEN {"qualify_lead", "assign_owner"} ELSE {}
    [] OTHER -> {"qualify_lead"}

Path(r) == Before(r) \cup {act[r]}

\* A play that finishes has had all its effects on its own rows, whatever other
\* attempts with the same keys did: no lead is left behind as deduplicated.
FinishedHasEffects == \A r \in Runs : pc[r] = "done" => \A a \in Path(r) : Done(r, a)

\* What the trail of an action claims is so: nothing happens unannounced, a
\* success is complete, also one whose writer took it for a failure, and only a
\* run that was told of no success goes on to contradict it: an action that has
\* both succeeded and failed is the last one of a run that got no further.
TrailTruthful ==
  \A r \in Runs, a \in Actions :
    /\ written[r][a] > 0 => Has(r, "started", a)
    /\ Has(r, "succeeded", a) => Done(r, a)
    /\ Has(r, "failed", a) => Has(r, "started", a)
    /\ Has(r, "succeeded", a) /\ Has(r, "failed", a) =>
         act[r] = a /\ pc[r] \in {"report", "failed", "dead"}

\* How an action ended is in the log, if it had an effect.
Told(r, a) ==
  written[r][a] > 0 => Has(r, "succeeded", a) \/ Has(r, "failed", a) \/ Has(r, "node_failed", a)

\* The two catches make up for one event that is missing: when a run fails, each
\* action that had an effect has an event of how it ended.
EffectsAreTold ==
  \A r \in Runs : pc[r] = "failed" /\ lost[r] <= 1 =>
    \A a \in Actions : Told(r, a)

TypeOK ==
  /\ pc \in [Runs -> Places]
  /\ act \in [Runs -> Actions \cup {None}]
  /\ match \in [Runs -> {None, "deal", "account"}]
  /\ written \in [Runs -> [Actions -> Nat]]
  /\ log \in [Runs -> SUBSET Events]
  /\ lost \in [Runs -> Nat]
  /\ pending \in SUBSET [run : Runs, event : Events]
  /\ table \in [Keys -> Statuses \cup {NoRow}]

NeverARow ==
  /\ \A k \in Keys : table[k] = NoRow
  /\ \A p \in pending : p.event.kind # "proposed"

Untouched(r, a) ==
  written[r][a] = 0 /\ ~Has(r, "started", a) /\ ~Has(r, "succeeded", a) /\ ~Has(r, "failed", a)

Open(r, a) ==
  Has(r, "started", a) /\ ~Has(r, "succeeded", a) /\ ~Has(r, "failed", a)

Achieved(r, a) ==
  Done(r, a) /\ Has(r, "started", a) /\ Has(r, "succeeded", a) /\ ~Has(r, "failed", a)

Walking == Places \ (Ended \cup {"idle", "validate", "match"})

PlaceOfRun(r) ==
  /\ match[r] # None => act[r] = "start_sequence"
  /\ pc[r] \in {"idle", "validate", "match"} =>
       match[r] = None /\ act[r] = None /\ \A a \in Actions : Untouched(r, a)
  /\ pc[r] \in Walking =>
       /\ \A a \in Before(r) : Achieved(r, a)
       /\ \A a \in Actions \ Path(r) : Untouched(r, a)
  /\ pc[r] \in Walking \ {"propose", "report"} => act[r] \in Actions
  /\ pc[r] = "propose" => act[r] \in {None, "qualify_lead"}
  /\ pc[r] = "choose" => act[r] \in {"assign_owner", "request_human_review"}
  /\ pc[r] \in {"propose", "choose", "check", "start"} /\ act[r] # None => Untouched(r, act[r])
  /\ pc[r] = "work" => Open(r, act[r]) /\ written[r][act[r]] < Writes[act[r]]
  /\ pc[r] = "succeed" => Open(r, act[r]) /\ Done(r, act[r])
  /\ pc[r] = "fail" => Has(r, "started", act[r]) /\ ~Has(r, "failed", act[r])
  /\ pc[r] \in {"mark", "complete"} => Achieved(r, act[r])
  /\ pc[r] \notin {"fail", "report"} \cup Ended => lost[r] = 0
  /\ pc[r] = "report" /\ lost[r] = 0 => \A a \in Actions : Told(r, a)

\* The strengthening that is inductive: no row is ever there to deduplicate by,
\* and where a run is tells what its actions have done and logged.
LedgerInvariant ==
  /\ TypeOK
  /\ NeverARow
  /\ \A r \in Runs : PlaceOfRun(r)
  /\ FinishedHasEffects
  /\ TrailTruthful
  /\ EffectsAreTold

\* What the documents say, and a run refutes.

\* README.md:80, "action_execution_succeeded|failed", "the event log is the source
\* of truth": an action of a run has ended one way or the other.
OneEnding ==
  \A r \in Runs, a \in Actions : ~(Has(r, "succeeded", a) /\ Has(r, "failed", a))

\* action-executor.ts:7, "Check idempotency - deduplicate if already executed":
\* no action of a job succeeds in two of its runs.
ExecutedOnce ==
  \A r, s \in Runs, a \in Actions :
    r[1] = s[1] /\ Has(r, "succeeded", a) /\ Has(s, "succeeded", a) => r = s

\* README.md:80, "Every action produces three events", the first of them
\* action_proposed: an action that was started has been proposed.
ThreeEvents ==
  \A r \in Runs, a \in Actions : Has(r, "started", a) => Has(r, "proposed", a)

\* ARCHITECTURE.md:540, "action_proposed -> INSERT into action_execution_state":
\* once the projection has caught up, every proposal in the log has its row.
ProposalsProjected ==
  pending = {} => \A r \in Runs, a \in Actions : Has(r, "proposed", a) => Known(r, a)

\* graph.ts:67, "qualify (net-new or account-only match)": a lead whose account
\* has no open deal is qualified.
AccountOnlyQualifies ==
  \A r \in Runs : pc[r] = "done" /\ match[r] = "account" => Done(r, "qualify_lead")

\* account-match.ts:6-7, "route to AE directly", "route to Account Owner": a
\* matched lead is assigned to the owner found.
MatchedOwnerAssigned ==
  \A r \in Runs : pc[r] = "done" /\ match[r] # None => Done(r, "assign_owner")
===============================================================================
