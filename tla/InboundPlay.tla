----------------------------- MODULE InboundPlay -----------------------------
(***************************************************************************)
(* One HubSpot form submission from the webhook to the first touch: the    *)
(* webhook handler, the BullMQ queue, the inbound-lead worker and the      *)
(* LangGraph play it runs (src/routes/webhooks.ts, src/queue/workers,      *)
(* src/workflows/inbound-lead, src/actions/action-executor.ts).            *)
(*                                                                         *)
(* A job is one BullMQ job; a run <<j, n>> is the n-th execution of job j. *)
(* Every run inserts a lead row and a play row of its own, so a run also   *)
(* names its lead and its play.  One action is one awaited database or     *)
(* connector call of the run together with the code up to the next one;    *)
(* a throw at any of them is Fail, a worker that dies is Crash, and a      *)
(* worker that loses its lock but goes on running is Stall.                *)
(*                                                                         *)
(* Time is counted in days (the unit of the re-enrollment window).  A run  *)
(* takes minutes, so a day ends only when no run is in progress.           *)
(***************************************************************************)
EXTENDS Integers, FiniteSets

CONSTANTS
  Jobs,            \* the BullMQ jobs that the webhook may enqueue
  Events,          \* HubSpot event ids (a redelivery repeats one)
  Emails,          \* contact email addresses
  EmailOf,         \* the email of the contact an event is about
  MaxAttempts,     \* attempts of a job: 3 in setup.ts
  MaxStalls,       \* stalls BullMQ tolerates before it fails a job: 1 by default
  Window,          \* allow_after_days of the re-enrollment policy, in days
  MaxDay,          \* bound on the clock
  Sep,             \* the sales engagement platform the environment configures
  ReadErrors,      \* whether the dedup reads of lead.repo.ts may fail
  LongAttribution  \* whether outcome jobs still touch plays older than Window

NoEmail == "no_email"

ASSUME InboundPlayAssumption ==
  /\ EmailOf \in [Events -> Emails]
  /\ NoEmail \notin Emails
  /\ MaxAttempts \in Nat \ {0}
  /\ MaxStalls \in Nat
  /\ Window \in Nat \ {0}
  /\ MaxDay \in Nat
  /\ Sep \in {"outreach", "salesloft", "none"}
  /\ ReadErrors \in BOOLEAN
  /\ LongAttribution \in BOOLEAN

VARIABLES
  jobState,    \* BullMQ state of a job, and "checked": looked up, not yet added
  event,       \* the event a job was enqueued for
  runs,        \* how often a job has been started
  fails,       \* failed attempts of a job
  stalls,      \* stalls of a job
  pc,          \* the next step of a run
  seen,        \* lead ids a run read in getLatestPlayForEmail
  leads,       \* runs whose row is in leads
  isDuplicate, \* leads.is_duplicate
  stage,       \* leads.stage
  play,        \* play_instance.status, or "none" before the insert
  createdAt,   \* play_instance.created_at
  updatedAt,   \* play_instance.updated_at
  firstTouchAt,\* play_instance.first_touch_at
  assigned,    \* plays with an assigned_owner_id
  keys,        \* event ids found in event_log.idempotency_key
  admitted,    \* leads with a dedup_passed or reenrollment_allowed event
  enrolledAt,  \* external: when the platform enrolled the lead
  escalated,   \* plays for which start_sequence enqueued an escalation
  now          \* the day

jobVars  == <<jobState, event, runs, fails, stalls>>
leadVars == <<leads, isDuplicate, stage>>
playVars == <<play, createdAt, updatedAt, firstTouchAt, assigned>>
logVars  == <<keys, admitted>>
extVars  == <<enrolledAt, escalated>>
vars == <<jobVars, pc, seen, leadVars, playVars, logVars, extVars, now>>

MaxRuns == MaxAttempts + MaxStalls
Runs    == Jobs \X (1 .. MaxRuns)
NoEvent == "no_event"
Never   == -1

JobStates  == {"absent", "checked", "waiting", "active", "completed", "failed"}
Resting    == {"idle", "done", "dead"}
DedupSteps == {"check", "rivals", "latest", "mark_lead", "mark_play"}
PlaySteps  == {"match", "qualify", "nurture", "route", "enroll",
               "touch_play", "touch_lead"}
Steps      == Resting \cup {"lead", "play", "received", "complete"}
                \cup DedupSteps \cup PlaySteps
Stages     == {"new", "routing", "nurture", "in_sequence"}
Statuses   == {"none", "running", "completed", "nurture", "paused"}
Terminal   == {"completed", "nurture", "failed"}

Email(r)  == EmailOf[event[r[1]]]
Live(r)   == pc[r] \notin Resting
Current(r) == jobState[r[1]] = "active" /\ runs[r[1]] = r[2]
At(r, step)   == pc[r] = step
GoTo(r, step) == pc' = [pc EXCEPT ![r] = step]
-----------------------------------------------------------------------------
(* Webhook handler *)

\* POST /webhooks/hubspot: the idempotency lookup in event_log.
ReceiveWebhook(e, j) ==
  /\ jobState[j] = "absent"
  /\ e \notin keys
  /\ jobState' = [jobState EXCEPT ![j] = "checked"]
  /\ event' = [event EXCEPT ![j] = e]
  /\ UNCHANGED <<runs, fails, stalls, pc, seen, leadVars, playVars, logVars, extVars, now>>

\* addJob; the handler sends 500 when Redis refuses, and HubSpot delivers again.
Enqueue(j) ==
  /\ jobState[j] = "checked"
  /\ \/ jobState' = [jobState EXCEPT ![j] = "waiting"] /\ UNCHANGED event
     \/ /\ jobState' = [jobState EXCEPT ![j] = "absent"]
        /\ event' = [event EXCEPT ![j] = NoEvent]
  /\ UNCHANGED <<runs, fails, stalls, pc, seen, leadVars, playVars, logVars, extVars, now>>
-----------------------------------------------------------------------------
(* BullMQ *)

\* A worker takes the job and resolves organization, policies and contact.
Start(j) ==
  /\ jobState[j] = "waiting"
  /\ jobState' = [jobState EXCEPT ![j] = "active"]
  /\ runs' = [runs EXCEPT ![j] = @ + 1]
  /\ GoTo(<<j, runs[j] + 1>>, "lead")
  /\ UNCHANGED <<event, fails, stalls, seen, leadVars, playVars, logVars, extVars, now>>

\* Mutant: the worker logs the error and never hands the job back.
SwallowFailure(r) == Live(r) /\ UNCHANGED jobVars

\* A throw that reaches the worker: BullMQ retries the job or fails it.
JobFails(r) ==
  IF Current(r)
  THEN /\ fails' = [fails EXCEPT ![r[1]] = @ + 1]
       /\ jobState' = [jobState EXCEPT ![r[1]] =
                         IF fails[r[1]] + 1 < MaxAttempts THEN "waiting" ELSE "failed"]
       /\ UNCHANGED <<event, runs, stalls>>
  ELSE UNCHANGED jobVars

\* Any awaited call of the run throws.
Fail(r) ==
  /\ Live(r)
  /\ JobFails(r)
  /\ GoTo(r, "dead")
  /\ seen' = [seen EXCEPT ![r] = {}]
  /\ UNCHANGED <<leadVars, playVars, logVars, extVars, now>>

\* BullMQ finds the lock of an active job expired.
JobStalls(j) ==
  /\ jobState[j] = "active"
  /\ IF stalls[j] < MaxStalls
     THEN /\ stalls' = [stalls EXCEPT ![j] = @ + 1]
          /\ jobState' = [jobState EXCEPT ![j] = "waiting"]
     ELSE jobState' = [jobState EXCEPT ![j] = "failed"] /\ UNCHANGED stalls
  /\ UNCHANGED <<event, runs, fails>>

\* The lock expires while the worker is still busy: the run goes on.
Stall(j) ==
  /\ JobStalls(j)
  /\ UNCHANGED <<pc, seen, leadVars, playVars, logVars, extVars, now>>

\* The worker process dies.
Crash(j) ==
  /\ JobStalls(j)
  /\ GoTo(<<j, runs[j]>>, "dead")
  /\ seen' = [seen EXCEPT ![<<j, runs[j]>>] = {}]
  /\ UNCHANGED <<leadVars, playVars, logVars, extVars, now>>

\* The processor returns; a run whose lock is gone cannot complete the job.
Return(r) ==
  /\ GoTo(r, "done")
  /\ IF Current(r)
     THEN /\ jobState' = [jobState EXCEPT ![r[1]] = "completed"]
          /\ UNCHANGED <<event, runs, fails, stalls>>
     ELSE UNCHANGED jobVars
-----------------------------------------------------------------------------
(* inbound-lead.worker.ts *)

\* The contact was deleted or has no email: the job ends without a trace.
SkipContact(r) ==
  /\ At(r, "lead")
  /\ Return(r)
  /\ UNCHANGED <<seen, leadVars, playVars, logVars, extVars, now>>

\* Mutant: the event is recorded together with the lead, before the play.
InsertLeadAndLog(r) ==
  /\ At(r, "lead")
  /\ leads' = leads \cup {r}
  /\ keys' = keys \cup {event[r[1]]}
  /\ stage' = [stage EXCEPT ![r] = "new"]
  /\ GoTo(r, "play")
  /\ UNCHANGED <<isDuplicate, admitted, jobVars, seen, playVars, extVars, now>>

InsertLead(r) ==
  /\ At(r, "lead")
  /\ leads' = leads \cup {r}
  /\ stage' = [stage EXCEPT ![r] = "new"]
  /\ GoTo(r, "play")
  /\ UNCHANGED <<isDuplicate, jobVars, seen, playVars, logVars, extVars, now>>

InsertPlay(r) ==
  /\ At(r, "play")
  /\ play' = [play EXCEPT ![r] = "running"]
  /\ createdAt' = [createdAt EXCEPT ![r] = now]
  /\ updatedAt' = [updatedAt EXCEPT ![r] = now]
  /\ GoTo(r, "received")
  /\ UNCHANGED <<firstTouchAt, assigned, jobVars, seen, leadVars, logVars, extVars, now>>

\* webhook_received: only now does the webhook handler know the event.
LogReceived(r) ==
  /\ At(r, "received")
  /\ keys' = keys \cup {event[r[1]]}
  /\ GoTo(r, "check")
  /\ UNCHANGED <<admitted, jobVars, seen, leadVars, playVars, extVars, now>>
-----------------------------------------------------------------------------
(* validate: deduplication and re-enrollment *)

SameEmail(r) == {q \in leads \ {r} : Email(q) = Email(r)}

Admit(r) ==
  /\ admitted' = admitted \cup {r}
  /\ GoTo(r, "match")

\* Mutant: only leads that are already in a sequence count.
CheckSequenced(r) ==
  /\ At(r, "check")
  /\ \/ /\ {q \in SameEmail(r) : stage[q] = "in_sequence"} \subseteq isDuplicate
        /\ Admit(r)
     \/ /\ ~ {q \in SameEmail(r) : stage[q] = "in_sequence"} \subseteq isDuplicate
        /\ GoTo(r, "rivals")
        /\ UNCHANGED admitted
  /\ UNCHANGED <<keys, jobVars, seen, leadVars, playVars, extVars, now>>

\* leadRepo.isDuplicate; a failed read counts as "no duplicate".
CheckDuplicate(r) ==
  /\ At(r, "check")
  /\ \/ /\ SameEmail(r) \subseteq isDuplicate \/ ReadErrors
        /\ Admit(r)
     \/ /\ ~ SameEmail(r) \subseteq isDuplicate
        /\ GoTo(r, "rivals")
        /\ UNCHANGED admitted
  /\ UNCHANGED <<keys, jobVars, seen, leadVars, playVars, extVars, now>>

\* Mutant: leads that are still being processed are left out.
ReadOlderRivals(r) ==
  /\ At(r, "rivals")
  /\ seen' = [seen EXCEPT ![r] = {q \in SameEmail(r) : ~ Live(q)}]
  /\ GoTo(r, "latest")
  /\ UNCHANGED <<jobVars, leadVars, playVars, logVars, extVars, now>>

\* First query of getLatestPlayForEmail; a failed read counts as "no play".
ReadRivals(r) ==
  /\ At(r, "rivals")
  /\ \/ seen' = [seen EXCEPT ![r] = SameEmail(r)]
     \/ ReadErrors /\ UNCHANGED seen
  /\ GoTo(r, "latest")
  /\ UNCHANGED <<jobVars, leadVars, playVars, logVars, extVars, now>>

PlaysSeen(r) == {q \in seen[r] : play[q] # "none"}
Latest(ps)   == {p \in ps : \A q \in ps : updatedAt[q] <= updatedAt[p]}

ReferenceDate(p) == IF firstTouchAt[p] # Never THEN firstTouchAt[p] ELSE updatedAt[p]

\* Mutant: a day too early.
ReenrollableEarly(p) == play[p] \in Terminal /\ now - ReferenceDate(p) >= Window - 1

Reenrollable(p) ==
  /\ play[p] \in Terminal
  /\ now - ReferenceDate(p) >= Window

\* Second query, and the decision taken on the most recently updated play.
ReadLatestPlay(r) ==
  /\ At(r, "latest")
  /\ \/ /\ \E p \in Latest(PlaysSeen(r)) : Reenrollable(p)
        /\ Admit(r)
     \/ /\ \/ PlaysSeen(r) = {} \/ ReadErrors
           \/ \E p \in Latest(PlaysSeen(r)) : ~ Reenrollable(p)
        /\ GoTo(r, "mark_lead")
        /\ UNCHANGED admitted
  /\ seen' = [seen EXCEPT ![r] = {}]
  /\ UNCHANGED <<keys, jobVars, leadVars, playVars, extVars, now>>
-----------------------------------------------------------------------------
(* The other nodes and the actions they execute *)

MarkLeadDuplicate(r) ==
  /\ At(r, "mark_lead")
  /\ isDuplicate' = isDuplicate \cup {r}
  /\ GoTo(r, "mark_play")
  /\ UNCHANGED <<leads, stage, jobVars, seen, playVars, logVars, extVars, now>>

CloseDuplicatePlay(r) ==
  /\ At(r, "mark_play")
  /\ play' = [play EXCEPT ![r] = "completed"]
  /\ GoTo(r, "complete")
  /\ UNCHANGED <<createdAt, updatedAt, firstTouchAt, assigned,
                 jobVars, seen, leadVars, logVars, extVars, now>>

\* enrich, then account_match: an account in the CRM bypasses qualification.
MatchAccount(r) ==
  /\ At(r, "match")
  /\ GoTo(r, "enroll") \/ GoTo(r, "qualify")
  /\ UNCHANGED <<jobVars, seen, leadVars, playVars, logVars, extVars, now>>

Qualify(r) ==
  /\ At(r, "qualify")
  /\ \/ stage' = [stage EXCEPT ![r] = "routing"] /\ GoTo(r, "route")
     \/ stage' = [stage EXCEPT ![r] = "nurture"] /\ GoTo(r, "nurture")
  /\ UNCHANGED <<leads, isDuplicate, jobVars, seen, playVars, logVars, extVars, now>>

MarkNurture(r) ==
  /\ At(r, "nurture")
  /\ stage' = [stage EXCEPT ![r] = "nurture"]
  /\ play' = [play EXCEPT ![r] = "nurture"]
  /\ GoTo(r, "complete")
  /\ UNCHANGED <<createdAt, updatedAt, firstTouchAt, assigned, leads, isDuplicate,
                 jobVars, seen, logVars, extVars, now>>

\* request_human_review pauses the play and interrupts the graph, for good.
RequestHumanReview(r) ==
  /\ At(r, "route")
  /\ play' = [play EXCEPT ![r] = "paused"]
  /\ GoTo(r, "complete")
  /\ UNCHANGED <<createdAt, updatedAt, firstTouchAt, assigned,
                 jobVars, seen, leadVars, logVars, extVars, now>>

AssignOwner(r) ==
  /\ At(r, "route")
  /\ play' = [play EXCEPT ![r] = "running"]
  /\ assigned' = assigned \cup {r}
  /\ GoTo(r, "enroll")
  /\ UNCHANGED <<createdAt, updatedAt, firstTouchAt,
                 jobVars, seen, leadVars, logVars, extVars, now>>

\* start_sequence: the platform accepts the enrollment.
Enroll(r) ==
  /\ At(r, "enroll")
  /\ Sep # "none"
  /\ enrolledAt' = [enrolledAt EXCEPT ![r] = now]
  /\ GoTo(r, "touch_play")
  /\ UNCHANGED <<escalated, jobVars, seen, leadVars, playVars, logVars, now>>

\* Mutant: the play is closed although nobody was enrolled.
CompleteWithoutSep(r) ==
  /\ At(r, "enroll")
  /\ stage' = [stage EXCEPT ![r] = "in_sequence"]
  /\ play' = [play EXCEPT ![r] = "completed"]
  /\ GoTo(r, "complete")
  /\ UNCHANGED <<leads, isDuplicate, createdAt, updatedAt, firstTouchAt, assigned,
                 extVars, jobVars, seen, logVars, now>>

\* start_sequence without a connected platform: escalate (best effort), throw.
NoSepConnector(r) ==
  /\ At(r, "enroll")
  /\ stage' = [stage EXCEPT ![r] = "routing"]
  /\ escalated' = escalated \cup {r} \/ UNCHANGED escalated
  /\ JobFails(r)
  /\ GoTo(r, "dead")
  /\ UNCHANGED <<leads, isDuplicate, enrolledAt, seen, playVars, logVars, now>>

\* Mutant: the status is left to the complete node.
TouchOnly(r) ==
  /\ At(r, "touch_play")
  /\ Sep = "outreach"
  /\ firstTouchAt' = [firstTouchAt EXCEPT ![r] = now]
  /\ GoTo(r, "touch_lead")
  /\ UNCHANGED <<play, createdAt, updatedAt, assigned, jobVars, seen, leadVars, logVars, extVars, now>>

\* The Salesloft update names a column (cadence_id) no migration creates.
RecordFirstTouch(r) ==
  /\ At(r, "touch_play")
  /\ Sep = "outreach"
  /\ play' = [play EXCEPT ![r] = "completed"]
  /\ firstTouchAt' = [firstTouchAt EXCEPT ![r] = now]
  /\ GoTo(r, "touch_lead")
  /\ UNCHANGED <<createdAt, updatedAt, assigned, jobVars, seen, leadVars, logVars, extVars, now>>

MoveLeadInSequence(r) ==
  /\ At(r, "touch_lead")
  /\ stage' = [stage EXCEPT ![r] = "in_sequence"]
  /\ GoTo(r, "complete")
  /\ UNCHANGED <<leads, isDuplicate, jobVars, seen, playVars, logVars, extVars, now>>

\* The closing event of the path, then the processor returns.
Complete(r) ==
  /\ At(r, "complete")
  /\ Return(r)
  /\ UNCHANGED <<seen, leadVars, playVars, logVars, extVars, now>>
-----------------------------------------------------------------------------
(* Environment *)

\* The outcome poller or closer writes updated_at of a play.
OutcomeUpdate(p) ==
  /\ play[p] # "none"
  /\ updatedAt[p] # now
  /\ LongAttribution \/ now < createdAt[p] + Window
  /\ updatedAt' = [updatedAt EXCEPT ![p] = now]
  /\ UNCHANGED <<play, createdAt, firstTouchAt, assigned,
                 jobVars, pc, seen, leadVars, logVars, extVars, now>>

NextDay ==
  /\ now < MaxDay
  /\ \A r \in Runs : ~ Live(r)
  /\ now' = now + 1
  /\ UNCHANGED <<jobVars, pc, seen, leadVars, playVars, logVars, extVars>>
-----------------------------------------------------------------------------
Init ==
  /\ jobState = [j \in Jobs |-> "absent"]
  /\ event = [j \in Jobs |-> NoEvent]
  /\ runs = [j \in Jobs |-> 0]
  /\ fails = [j \in Jobs |-> 0]
  /\ stalls = [j \in Jobs |-> 0]
  /\ pc = [r \in Runs |-> "idle"]
  /\ seen = [r \in Runs |-> {}]
  /\ leads = {}
  /\ isDuplicate = {}
  /\ stage = [r \in Runs |-> "new"]
  /\ play = [r \in Runs |-> "none"]
  /\ createdAt = [r \in Runs |-> Never]
  /\ updatedAt = [r \in Runs |-> Never]
  /\ firstTouchAt = [r \in Runs |-> Never]
  /\ assigned = {}
  /\ keys = {}
  /\ admitted = {}
  /\ enrolledAt = [r \in Runs |-> Never]
  /\ escalated = {}
  /\ now = 0

Validate(r) == CheckDuplicate(r) \/ ReadRivals(r) \/ ReadLatestPlay(r)

Execute(r) ==
  \/ MarkLeadDuplicate(r) \/ CloseDuplicatePlay(r)
  \/ MatchAccount(r) \/ Qualify(r) \/ MarkNurture(r)
  \/ RequestHumanReview(r) \/ AssignOwner(r)
  \/ Enroll(r) \/ NoSepConnector(r) \/ RecordFirstTouch(r) \/ MoveLeadInSequence(r)

Step(r) ==
  \/ SkipContact(r) \/ InsertLead(r) \/ InsertPlay(r) \/ LogReceived(r)
  \/ Validate(r) \/ Execute(r) \/ Complete(r)

Next ==
  \/ \E e \in Events, j \in Jobs : ReceiveWebhook(e, j)
  \/ \E j \in Jobs : Enqueue(j) \/ Start(j) \/ Stall(j) \/ Crash(j)
  \/ \E r \in Runs : Step(r) \/ Fail(r)
  \/ \E r \in Runs : OutcomeUpdate(r)
  \/ NextDay

Spec == Init /\ [][Next]_vars

\* BullMQ hands out waiting jobs, and every awaited call returns or throws.
Fairness ==
  /\ \A j \in Jobs : WF_vars(Start(j))
  /\ \A r \in Runs : WF_vars(Step(r) \/ Fail(r))

FairSpec == Spec /\ Fairness
-----------------------------------------------------------------------------
(* Correctness *)

TypeOK ==
  /\ jobState \in [Jobs -> JobStates]
  /\ event \in [Jobs -> Events \cup {NoEvent}]
  /\ runs \in [Jobs -> Nat]
  /\ fails \in [Jobs -> Nat]
  /\ stalls \in [Jobs -> Nat]
  /\ pc \in [Runs -> Steps]
  /\ seen \in [Runs -> SUBSET Runs]
  /\ leads \subseteq Runs
  /\ isDuplicate \subseteq Runs
  /\ stage \in [Runs -> Stages]
  /\ play \in [Runs -> Statuses]
  /\ createdAt \in [Runs -> Nat \cup {Never}]
  /\ updatedAt \in [Runs -> Nat \cup {Never}]
  /\ firstTouchAt \in [Runs -> Nat \cup {Never}]
  /\ assigned \subseteq Runs
  /\ keys \subseteq Events
  /\ admitted \subseteq Runs
  /\ enrolledAt \in [Runs -> Nat \cup {Never}]
  /\ escalated \subseteq Runs
  /\ now \in Nat

\* Two contacts of one person are at least the re-enrollment window apart,
\* whatever redeliveries, retries, crashes and overlapping runs happen.
NoRepeatContact ==
  \A p, q \in Runs :
    /\ p # q /\ enrolledAt[p] # Never /\ enrolledAt[q] # Never
    /\ Email(p) = Email(q)
    => enrolledAt[q] - enrolledAt[p] >= Window \/ enrolledAt[p] - enrolledAt[q] >= Window

\* What the SLA timer selects: running and not yet contacted.
Watched(r) == play[r] = "running" /\ firstTouchAt[r] = Never

\* No lead silently leaves the queue (action-executor.ts, "CRITICAL: do NOT
\* set stage='in_sequence' or status='completed' if no enrollment happened"):
\* when a run is over its play is watched, parked, rejected as a duplicate, or
\* the contact really was enrolled; a lead that is parked or rejected has no
\* owner and was not contacted; an escalated play stays watched.
NoSilentDisappearance ==
  /\ \A r \in leads :
       pc[r] \in {"done", "dead"} /\ play[r] # "none" =>
         \/ Watched(r) \/ play[r] \in {"nurture", "paused"}
         \/ r \in isDuplicate \/ enrolledAt[r] # Never
  /\ \A r \in leads :
       stage[r] = "in_sequence" => play[r] = "completed" /\ enrolledAt[r] # Never
  /\ \A r \in leads :
       play[r] \in {"nurture", "paused"} \/ r \in isDuplicate =>
         r \notin assigned /\ enrolledAt[r] = Never
  /\ \A r \in escalated : Watched(r) /\ stage[r] = "routing" /\ enrolledAt[r] = Never

\* A delivery that the webhook answers with "duplicate" has been turned into a
\* play: the event is only recorded once lead and play are stored.
DuplicateDeliveryHasPlay ==
  \A e \in keys : \E r \in leads : event[r[1]] = e /\ play[r] # "none"

\* The play implements the promise of ContactPolicy: a submission is the lead
\* row, an admission the dedup_passed or reenrollment_allowed event (a run takes
\* less than a day, so it carries the day its play was created), a rejection
\* leads.is_duplicate, a contact the enrollment at the platform.
Policy == INSTANCE ContactPolicy WITH
  Leads       <- Runs,
  address     <- [r \in Runs |-> IF r \in leads THEN Email(r) ELSE NoEmail],
  admittedAt  <- [r \in Runs |-> IF r \in admitted THEN createdAt[r] ELSE Never],
  rejected    <- isDuplicate,
  contactedAt <- enrolledAt

\* Whatever the interleaving of runs, every step is one the policy allows.
ImplementsPolicy == Policy!Spec

\* The row of a run's play, as SlaEscalation watches it.
Row(r) == INSTANCE PlayRow WITH
  status   <- play[r],
  touched  <- firstTouchAt[r] # Never,
  inFlight <- play[r] # "none" /\ Live(r)

\* Every play implements the promise of PlayRow, although its updates have no guard
\* on the status: it leaves "running" once, with its first touch if that is why,
\* and by a step of the run that inserted it.
ImplementsRow ==
  /\ \A r \in Runs : Row(r)!RowInit
  /\ [][\A r \in Runs : [Row(r)!RowNext]_(Row(r)!playRow)]_vars

\* The queue never loses a job: once added, it completes or fails for good,
\* although runs throw, workers die and locks expire.
JobsSettle ==
  \A j \in Jobs : jobState[j] = "waiting" ~> jobState[j] \in {"completed", "failed"}
-----------------------------------------------------------------------------
(* What the documentation says and the code does not do *)

\* README.md: "Every lead qualified, routed, and enrolled": of the submissions
\* of one contact, one is kept.
SomeLeadKept ==
  \A r \in isDuplicate : \E q \in SameEmail(r) : q \notin isDuplicate

\* ARCHITECTURE.md: "Idempotent, safe to retry": a job's retry is not rejected
\* for the rows its own earlier attempt left behind.
DuplicateOfAnotherJob ==
  \A r \in isDuplicate : \E q \in SameEmail(r) : q[1] # r[1]
-----------------------------------------------------------------------------
(* The inductive invariant behind NoRepeatContact *)

JobsHaveEvents == \A j \in Jobs : jobState[j] # "absent" => event[j] \in Events

\* The rows of a run are those of the steps it has taken.
RowsFollowSteps ==
  \A r \in Runs :
    /\ r[2] > runs[r[1]] => pc[r] = "idle"
    /\ pc[r] # "idle" => jobState[r[1]] \notin {"absent", "checked"}
    /\ pc[r] \in {"idle", "lead"} => r \notin leads
    /\ pc[r] \notin Resting \cup {"lead"} => r \in leads
    /\ pc[r] \in {"idle", "lead", "play"} => play[r] = "none"
    /\ pc[r] \notin Resting \cup {"lead", "play"} => play[r] # "none"
    /\ play[r] = "none" => r \notin admitted /\ r \notin isDuplicate
    /\ play[r] # "none" => r \in leads
    /\ pc[r] \in {"received"} \cup DedupSteps => r \notin admitted
    /\ pc[r] \in {"received", "check", "rivals", "latest", "mark_lead"} => r \notin isDuplicate
    /\ pc[r] \in PlaySteps => r \in admitted
    /\ r \in admitted => r \notin isDuplicate
    /\ enrolledAt[r] # Never \/ firstTouchAt[r] # Never => r \in admitted

\* A play is created, enrolled and touched on one day; the outcome jobs touch
\* it only while it is younger than the re-enrollment window.
TimesOrdered ==
  \A r \in Runs : play[r] # "none" =>
    /\ createdAt[r] \in Nat /\ updatedAt[r] \in Nat
    /\ createdAt[r] <= updatedAt[r] /\ updatedAt[r] <= now
    /\ updatedAt[r] < createdAt[r] + Window
    /\ Live(r) => createdAt[r] = now
    /\ firstTouchAt[r] \in {Never, createdAt[r]}
    /\ enrolledAt[r] \in {Never, createdAt[r]}

AdmissionsSpaced ==
  \A p, q \in admitted : p # q /\ Email(p) = Email(q) =>
    createdAt[q] - createdAt[p] >= Window \/ createdAt[p] - createdAt[q] >= Window

\* Between its two queries a run knows every admitted lead of its contact, and
\* of two such runs at least one knows the other.  (Both may: then both are
\* rejected.)
RivalsSeen ==
  \A r \in leads : pc[r] = "latest" =>
    /\ seen[r] \subseteq SameEmail(r)
    /\ \A q \in SameEmail(r) :
         /\ q \in admitted => q \in seen[r]
         /\ pc[q] = "latest" => q \in seen[r] \/ r \in seen[q]

ContactInvariant ==
  /\ TypeOK /\ JobsHaveEvents /\ RowsFollowSteps
  /\ TimesOrdered /\ AdmissionsSpaced /\ RivalsSeen
-----------------------------------------------------------------------------
(* The inductive invariant behind NoSilentDisappearance *)

Ended    == {"complete", "done", "dead"}
Unrouted == {"idle", "lead", "play", "received", "match", "qualify", "nurture", "route"}
              \cup DedupSteps

\* A run keeps its play watched until it parks, rejects or contacts the lead; only
\* a routed lead has an owner, only a run past "enroll" has contacted anybody,
\* and what was parked, rejected or escalated is left alone from then on.
PlayInView ==
  \A r \in Runs :
    /\ pc[r] \in Unrouted => r \notin assigned
    /\ pc[r] \in Unrouted \cup {"enroll"} => enrolledAt[r] = Never
    /\ Live(r) /\ pc[r] \notin {"lead", "play", "touch_lead", "complete"} => Watched(r)
    /\ pc[r] \in {"touch_play", "touch_lead"} => enrolledAt[r] # Never
    /\ pc[r] = "mark_play" => r \in isDuplicate
    /\ pc[r] = "touch_lead" => play[r] = "completed"
    /\ play[r] # "none" =>
         \/ Watched(r) \/ play[r] \in {"nurture", "paused"}
         \/ r \in isDuplicate \/ enrolledAt[r] # Never
    /\ stage[r] = "in_sequence" =>
         pc[r] \in Ended /\ play[r] = "completed" /\ enrolledAt[r] # Never
    /\ play[r] \in {"nurture", "paused"} =>
         pc[r] \in Ended /\ r \notin assigned /\ enrolledAt[r] = Never
    /\ r \in isDuplicate =>
         pc[r] \in Ended \cup {"mark_play"} /\ r \notin assigned /\ enrolledAt[r] = Never
    /\ r \in escalated =>
         pc[r] = "dead" /\ Watched(r) /\ stage[r] = "routing" /\ enrolledAt[r] = Never

=============================================================================
