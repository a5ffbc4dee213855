---------------------------- MODULE OwnerRouting ----------------------------
(***************************************************************************)
(* How qualified plays get their owners: the route node, the RoutingAgent, *)
(* assign_owner of the action executor and the Salesforce connector below  *)
(* it (src/workflows/inbound-lead/nodes/route.ts, src/agents/routing,      *)
(* src/actions/action-executor.ts).  Several plays are routed at the same  *)
(* time.  Each decides on what it read of the owners' workloads and of the *)
(* round-robin counter several awaited calls earlier; one action is one    *)
(* such call together with the code up to the next one.  Salesforce knows  *)
(* a lead by its email alone, so the plays of a contact share its lead.    *)
(***************************************************************************)
EXTENDS Integers, FiniteSets

CONSTANTS
  Plays,       \* the plays that reach the route node
  Contacts,    \* the contacts they are about: email addresses
  ContactOf,   \* the contact of a play; several plays may share one
  SfIds,       \* bound: leads there may be in Salesforce
  Owners,      \* Salesforce users in external_identity
  Rank,        \* the position of an owner in the result of that query
  Queues,      \* queue names of territory rules
  CounterRows, \* queues with a row in routing_state
  Rules,       \* territory rules: countries, queue, owners
  CountryOf,   \* the country a play is routed by
  Cap,         \* MAX_OWNER_WORKLOAD: 25
  Workers,     \* plays processed at a time: 5 per worker process
  MaxPosts,    \* POSTs withRetry may make for one call: 3
  ReadErrors   \* whether the workload query may fail

InboundLeads == "inbound-leads"
Nobody  == "nobody"
NoQueue == "no_queue"
NoLead  == "no_lead"
NoContact == "no_contact"

ASSUME RoutingAssumption ==
  /\ IsFiniteSet(Plays)
  /\ Nobody \notin Owners
  /\ ContactOf \in [Plays -> Contacts]
  /\ NoContact \notin Contacts
  /\ NoLead \notin SfIds
  /\ NoQueue \notin Queues
  /\ InboundLeads \in Queues
  /\ CounterRows \subseteq Queues
  /\ Rank \in [Owners -> Nat]
  /\ \A r \in Rules : r.owners \subseteq Owners /\ r.queue \in Queues
  /\ Cap \in Nat \ {0}
  /\ Workers \in Nat \ {0}
  /\ MaxPosts \in Nat \ {0}
  /\ ReadErrors \in BOOLEAN

VARIABLES
  pc,      \* the next step of a play's run
  seen,    \* ownerWorkloads of the run's decision snapshot
  read,    \* the counter value the run read last
  choice,  \* recommended_owner_id of the run
  queue,   \* queue_name of the run
  lead,    \* resolvedSfLeadId of the run
  sf,      \* runs whose Salesforce connector is connected
  status,  \* play_instance.status
  owner,   \* play_instance.assigned_owner_id
  counter, \* routing_state.counter
  sfEmail, \* external: the contact whose email a Salesforce lead bears
  sfOwner, \* external: OwnerId of a Salesforce lead
  tasks,   \* external: call tasks of the play
  assigned \* history: runs whose OwnerId has been written to their lead

runVars == <<pc, seen, read, choice, queue, lead, sf>>
rowVars == <<status, owner>>
extVars == <<sfEmail, sfOwner, tasks, assigned>>
vars == <<runVars, rowVars, counter, extVars>>

Resting    == {"idle", "done", "dead"}
Undecided  == {"counter", "decide"}
Assigning  == {"find", "create", "reassign", "task", "record"}
Afterwards == {"tally", "advance", "touch"}
Steps      == Resting \cup {"snapshot"} \cup Undecided \cup Assigning \cup Afterwards

At(p, step)   == pc[p] = step
GoTo(p, step) == pc' = [pc EXCEPT ![p] = step]
Active        == {p \in Plays : pc[p] \notin Resting}

\* The plays an owner has to work on: running, and assigned to the owner.
LoadOf(o) == {p \in Plays : status[p] = "running" /\ owner[p] = o}
-----------------------------------------------------------------------------
(* route.ts *)

\* A worker is free and its run comes to the route node.
Start(p) ==
  /\ At(p, "idle")
  /\ Cardinality(Active) < Workers
  /\ status' = [status EXCEPT ![p] = "running"]
  /\ GoTo(p, "snapshot")
  /\ UNCHANGED <<seen, read, choice, queue, lead, sf, owner, counter, extVars>>

\* buildDecisionSnapshot; a failed query counts as "no owner has any plays".
TakeSnapshot(p) ==
  /\ At(p, "snapshot")
  /\ \E none \in {FALSE, ReadErrors} :
       seen' = [seen EXCEPT ![p] =
                  [o \in Owners |-> IF none THEN 0 ELSE Cardinality(LoadOf(o))]]
  /\ GoTo(p, "counter")
  /\ UNCHANGED <<read, choice, queue, lead, sf, rowVars, counter, extVars>>

\* The routing_state row, always the one of 'inbound-leads'; 0 if there is none.
ReadCounter(p) ==
  /\ At(p, "counter")
  /\ \E n \in {0, counter[InboundLeads]} : read' = [read EXCEPT ![p] = n]
  /\ GoTo(p, "decide")
  /\ UNCHANGED <<seen, choice, queue, lead, sf, rowVars, counter, extVars>>

\* Rules come in no particular order, so any rule that matches may be the first.
Matching(p) == {r \in Rules : CountryOf[p] \in r.countries}

\* Mutant: an owner at the limit is still eligible.
EligibleAtCap(p, r) == {o \in r.owners : seen[p][o] <= Cap}

Eligible(p, r) == {o \in r.owners : seen[p][o] < Cap}

LeastLoaded(p, r) ==
  {o \in Eligible(p, r) : \A q \in Eligible(p, r) : seen[p][o] <= seen[p][q]}

\* tied[counter % tied.length]
InTurn(p, tied, o) ==
  Cardinality({q \in tied : Rank[q] < Rank[o]}) = read[p] % Cardinality(tied)

\* computeRouting proposes an owner; the connector connects, or the run goes on
\* without Salesforce.
Propose(p) ==
  /\ At(p, "decide")
  /\ \E r \in Matching(p) : \E o \in LeastLoaded(p, r) :
       /\ InTurn(p, LeastLoaded(p, r), o)
       /\ choice' = [choice EXCEPT ![p] = o]
       /\ queue' = [queue EXCEPT ![p] = r.queue]
  /\ \/ GoTo(p, "find") /\ sf' = sf \cup {p}
     \/ GoTo(p, "record") /\ UNCHANGED sf
  /\ UNCHANGED <<seen, read, lead, rowVars, counter, extVars>>

\* No rule matches, every owner is at capacity, the risk registry demands
\* approval, or owners or rules could not be read: a human decides.
RequestHumanReview(p) ==
  /\ At(p, "decide")
  /\ status' = [status EXCEPT ![p] = "paused"]
  /\ GoTo(p, "done")
  /\ UNCHANGED <<seen, read, choice, queue, lead, sf, owner, counter, extVars>>
-----------------------------------------------------------------------------
(* assign_owner *)

\* The Salesforce leads of a contact.
LeadsOf(c) == {l \in SfIds : sfEmail[l] = c}

\* Mutant: a lead that exists is taken for one that is assigned.
FindAndKeep(p) ==
  /\ At(p, "find")
  /\ \/ /\ \E l \in LeadsOf(ContactOf[p]) : lead' = [lead EXCEPT ![p] = l]
        /\ GoTo(p, "record")
     \/ /\ LeadsOf(ContactOf[p]) = {}
        /\ GoTo(p, "create") /\ UNCHANGED lead
  /\ UNCHANGED <<seen, read, choice, queue, sf, rowVars, counter, extVars>>

\* findLeadByEmail, LIMIT 1: any lead of the contact, also one that an earlier
\* play created and assigned.
FindSfLead(p) ==
  /\ At(p, "find")
  /\ \/ /\ \E l \in LeadsOf(ContactOf[p]) : lead' = [lead EXCEPT ![p] = l]
        /\ GoTo(p, "reassign")
     \/ /\ LeadsOf(ContactOf[p]) = {}
        /\ GoTo(p, "create") /\ UNCHANGED lead
  /\ UNCHANGED <<seen, read, choice, queue, sf, rowVars, counter, extVars>>

\* The POST is repeated when its answer, or the lead, cannot be read back; a
\* play of the same contact may have created a lead in the meantime.
CreateSfLead(p) ==
  /\ At(p, "create")
  /\ \E new \in SUBSET LeadsOf(NoContact) \ {{}} :
       /\ Cardinality(new) <= MaxPosts
       /\ sfEmail' = [l \in SfIds |-> IF l \in new THEN ContactOf[p] ELSE sfEmail[l]]
       /\ \E l \in new : lead' = [lead EXCEPT ![p] = l]
  /\ GoTo(p, "reassign")
  /\ UNCHANGED <<seen, read, choice, queue, sf, rowVars, counter, sfOwner, tasks, assigned>>

\* The PATCH of OwnerId, which overwrites whoever had the lead.
WriteSfOwner(p) == sfOwner' = [sfOwner EXCEPT ![lead[p]] = choice[p]]

AssignSfOwner(p) ==
  /\ At(p, "reassign")
  /\ WriteSfOwner(p)
  /\ assigned' = assigned \cup {p}
  /\ GoTo(p, "task")
  /\ UNCHANGED <<seen, read, choice, queue, lead, sf, rowVars, counter, sfEmail, tasks>>

\* An attempt of that PATCH whose connection broke comes through after its retry.
AssignLate(p) ==
  /\ p \in assigned
  /\ WriteSfOwner(p)
  /\ UNCHANGED <<runVars, rowVars, counter, sfEmail, tasks, assigned>>

CreateTask(p) ==
  /\ At(p, "task")
  /\ \E n \in 1 .. MaxPosts : tasks' = [tasks EXCEPT ![p] = @ + n]
  /\ GoTo(p, "record")
  /\ UNCHANGED <<seen, read, choice, queue, lead, sf, rowVars, counter, sfEmail, sfOwner, assigned>>

RecordOwner(p) ==
  /\ At(p, "record")
  /\ owner' = [owner EXCEPT ![p] = choice[p]]
  /\ status' = [status EXCEPT ![p] = "running"]
  /\ GoTo(p, "tally")
  /\ UNCHANGED <<seen, read, choice, queue, lead, sf, counter, extVars>>

\* Mutant: the increment starts from the value the decision was based on.
SkipTally(p) ==
  /\ At(p, "tally")
  /\ GoTo(p, "advance")
  /\ UNCHANGED <<seen, read, choice, queue, lead, sf, rowVars, counter, extVars>>

\* incrementRoutingStateIndex: the read.  Without a row nothing is counted.
ReadTally(p) ==
  /\ At(p, "tally")
  /\ \/ /\ queue[p] \in CounterRows
        /\ read' = [read EXCEPT ![p] = counter[queue[p]]]
        /\ GoTo(p, "advance")
     \/ GoTo(p, "touch") /\ UNCHANGED read
  /\ UNCHANGED <<seen, choice, queue, lead, sf, rowVars, counter, extVars>>

\* The write, whose error is not looked at.
AdvanceCounter(p) ==
  /\ At(p, "advance")
  /\ counter' = [counter EXCEPT ![queue[p]] = read[p] + 1] \/ UNCHANGED counter
  /\ GoTo(p, "touch")
  /\ UNCHANGED <<seen, read, choice, queue, lead, sf, rowVars, extVars>>

\* The lead is enrolled: the play no longer counts as work of its owner.
Touch(p) ==
  /\ At(p, "touch")
  /\ status' = [status EXCEPT ![p] = "completed"]
  /\ GoTo(p, "done")
  /\ UNCHANGED <<seen, read, choice, queue, lead, sf, owner, counter, extVars>>

\* Any of these calls throws, although it may have had its effect, or the worker
\* dies: the play stays as it is.
Fail(p) ==
  /\ p \in Active
  /\ GoTo(p, "dead")
  /\ UNCHANGED <<seen, read, choice, queue, lead, sf, rowVars, counter, extVars>>
-----------------------------------------------------------------------------
Init ==
  /\ pc = [p \in Plays |-> "idle"]
  /\ seen = [p \in Plays |-> [o \in Owners |-> 0]]
  /\ read = [p \in Plays |-> 0]
  /\ choice = [p \in Plays |-> Nobody]
  /\ queue = [p \in Plays |-> NoQueue]
  /\ sf = {}
  /\ status = [p \in Plays |-> "none"]
  /\ owner = [p \in Plays |-> Nobody]
  /\ counter = [q \in Queues |-> 0]
  /\ lead = [p \in Plays |-> NoLead]
  /\ sfEmail \in [SfIds -> Contacts \cup {NoContact}]
  /\ \A c \in Contacts : Cardinality(LeadsOf(c)) <= 1
  /\ sfOwner = [l \in SfIds |-> Nobody]
  /\ tasks = [p \in Plays |-> 0]
  /\ assigned = {}

Run(p) ==
  \/ Start(p) \/ TakeSnapshot(p) \/ ReadCounter(p)
  \/ Propose(p) \/ RequestHumanReview(p)
  \/ FindSfLead(p) \/ CreateSfLead(p) \/ AssignSfOwner(p) \/ CreateTask(p)
  \/ RecordOwner(p) \/ ReadTally(p) \/ AdvanceCounter(p) \/ Touch(p)
  \/ Fail(p)

Next == \E p \in Plays : Run(p) \/ AssignLate(p)

Spec == Init /\ [][Next]_vars
-----------------------------------------------------------------------------
(* Correctness *)

TypeOK ==
  /\ pc \in [Plays -> Steps]
  /\ seen \in [Plays -> [Owners -> Nat]]
  /\ read \in [Plays -> Nat]
  /\ choice \in [Plays -> Owners \cup {Nobody}]
  /\ queue \in [Plays -> Queues \cup {NoQueue}]
  /\ sf \subseteq Plays
  /\ status \in [Plays -> {"none", "running", "paused", "completed"}]
  /\ owner \in [Plays -> Owners \cup {Nobody}]
  /\ counter \in [Queues -> Nat]
  /\ lead \in [Plays -> SfIds \cup {NoLead}]
  /\ sfEmail \in [SfIds -> Contacts \cup {NoContact}]
  /\ sfOwner \in [SfIds -> Owners \cup {Nobody}]
  /\ tasks \in [Plays -> Nat]
  /\ assigned \subseteq Plays

\* The limit on an owner's workload is checked against a snapshot that is stale
\* when the owner is recorded.  It may be exceeded, but only by the plays the
\* workers handle at the same time.
OverloadBounded == \A o \in Owners : Cardinality(LoadOf(o)) <= Cap + Workers - 1

\* An owner the play names has a lead of its contact and a call task in
\* Salesforce, wherever a run failed on the way, unless the run had no Salesforce
\* or another play of the contact has given the lead to the owner it chose.
OwnerSynced ==
  \A p \in sf :
    owner[p] # Nobody =>
      /\ lead[p] \in LeadsOf(ContactOf[p]) /\ tasks[p] > 0
      /\ \/ sfOwner[lead[p]] = owner[p]
         \/ \E q \in assigned \ {p} :
              /\ ContactOf[q] = ContactOf[p] /\ lead[q] = lead[p]
              /\ choice[q] = sfOwner[lead[p]]

\* The round-robin counter of a queue is never ahead of the assignments made
\* from that queue, although increments overwrite each other.
CounterBacked ==
  \A q \in Queues :
    counter[q] <= Cardinality({p \in Plays : owner[p] # Nobody /\ queue[p] = q})
-----------------------------------------------------------------------------
(* What the documentation says and the code does not do *)

\* action-executor.ts:282 keeps the owner on the play for the dashboard; it is
\* not the owner of the lead any more once another play of the contact was routed.
OwnerStays == \A p \in sf : owner[p] # Nobody => sfOwner[lead[p]] = owner[p]
-----------------------------------------------------------------------------
(* The inductive invariant *)

\* What a run has decided and done so far.
RunConsistent(p) ==
  /\ pc[p] \in Assigning => choice[p] \in Owners /\ queue[p] \in Queues /\ seen[p][choice[p]] < Cap
  /\ pc[p] \in {"tally", "advance"} => queue[p] \in Queues /\ owner[p] # Nobody
  /\ owner[p] # Nobody => pc[p] \in Afterwards \cup {"done", "dead"} /\ owner[p] = choice[p]
  /\ pc[p] \in {"idle", "snapshot"} \cup Undecided => p \notin sf
  /\ pc[p] \in {"find", "create", "reassign", "task"} => p \in sf
  /\ pc[p] \in {"reassign", "task"} => lead[p] # NoLead
  /\ pc[p] \in {"idle", "snapshot", "find", "create"} \cup Undecided => lead[p] = NoLead
  /\ lead[p] # NoLead => lead[p] \in LeadsOf(ContactOf[p])
  /\ p \in assigned => lead[p] # NoLead
  /\ p \in sf /\ (pc[p] \in {"task", "record"} \/ owner[p] # Nobody) => p \in assigned
  /\ p \in sf /\ (pc[p] = "record" \/ owner[p] # Nobody) => tasks[p] > 0

\* A lead that was ever assigned belongs to the choice of a run that assigned it.
LeadsAssigned ==
  \A p \in assigned : \E q \in assigned : lead[q] = lead[p] /\ choice[q] = sfOwner[lead[p]]

\* Runs that may still record an owner whom their snapshot shows below the cap.
Hopeful(o) == {p \in Plays : pc[p] \in Undecided \cup Assigning /\ seen[p][o] < Cap}

\* At the last snapshot that showed the owner below the cap there were fewer
\* than Cap plays to work on, and at most Workers runs that could add one.
LoadsBounded ==
  /\ Cardinality(Active) <= Workers
  /\ \A o \in Owners : Cardinality(LoadOf(o) \cup Hopeful(o)) <= Cap + Workers - 1

\* The assignments of a queue whose increment is not under way.
Counted(q) ==
  {p \in Plays : owner[p] # Nobody /\ queue[p] = q /\ pc[p] \notin {"tally", "advance"}}

CountersBacked ==
  /\ \A q \in Queues : counter[q] <= Cardinality(Counted(q))
  /\ \A p \in Plays : pc[p] = "advance" => read[p] <= Cardinality(Counted(queue[p]))

RoutingInvariant ==
  /\ TypeOK
  /\ \A p \in Plays : RunConsistent(p)
  /\ LeadsAssigned
  /\ LoadsBounded
  /\ CountersBacked

=============================================================================
