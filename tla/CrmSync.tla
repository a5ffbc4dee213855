------------------------------ MODULE CrmSync ------------------------------
(***************************************************************************)
(* What assign_owner (src/actions/action-executor.ts) may rely on from the *)
(* Salesforce connector, and what OwnerRouting assumes of it: the lead is  *)
(* looked up, created when there is none, given its owner and a call task, *)
(* in this order; a call ends, writes at most MaxAttempts times, and is    *)
(* followed by the next one only after it has written.  Nothing is said of *)
(* requests, answers and retries.                                          *)
(***************************************************************************)
EXTENDS Naturals

CONSTANTS
  Runs,        \* runs of assign_owner for the same contact
  MaxAttempts  \* RETRY_CONFIG.maxAttempts

VARIABLES
  phase,  \* where a run is
  made,   \* leads a run has created
  tasks,  \* call tasks a run has created
  owner,  \* runs whose owner the lead has been given
  held    \* whether Salesforce had a lead of the contact before

vars == <<phase, made, tasks, owner, held>>

Over == {"recorded", "failed"}

InPhase(r, p) == phase[r] = p
MoveTo(r, p)  == phase' = [phase EXCEPT ![r] = p]
HasLead       == held \/ \E r \in Runs : made[r] > 0

Init ==
  /\ phase = [r \in Runs |-> "find"]
  /\ made = [r \in Runs |-> 0] /\ tasks = [r \in Runs |-> 0]
  /\ owner = {}
  /\ held \in BOOLEAN

Find(r) ==
  /\ InPhase(r, "find")
  /\ MoveTo(r, IF HasLead THEN "assign" ELSE "create")
  /\ UNCHANGED <<made, tasks, owner, held>>

MakeLead(r) ==
  /\ InPhase(r, "create") /\ made[r] < MaxAttempts
  /\ made' = [made EXCEPT ![r] = @ + 1]
  /\ phase' = phase \/ MoveTo(r, "failed")
  /\ UNCHANGED <<tasks, owner, held>>

KnowLead(r) ==
  /\ InPhase(r, "create") /\ made[r] > 0
  /\ MoveTo(r, "assign")
  /\ UNCHANGED <<made, tasks, owner, held>>

GiveOwner(r) ==
  /\ InPhase(r, "assign")
  /\ owner' = owner \cup {r}
  /\ phase' = phase \/ \E p \in {"task", "failed"} : MoveTo(r, p)
  /\ UNCHANGED <<made, tasks, held>>

MakeTask(r) ==
  /\ InPhase(r, "task") /\ tasks[r] < MaxAttempts
  /\ tasks' = [tasks EXCEPT ![r] = @ + 1]
  /\ phase' = phase \/ MoveTo(r, "failed")
  /\ UNCHANGED <<made, owner, held>>

KnowTask(r) ==
  /\ InPhase(r, "task") /\ tasks[r] > 0
  /\ MoveTo(r, "recorded")
  /\ UNCHANGED <<made, tasks, owner, held>>

Fail(r) ==
  /\ phase[r] \notin Over
  /\ MoveTo(r, "failed")
  /\ UNCHANGED <<made, tasks, owner, held>>

Step(r) ==
  \/ Find(r) \/ MakeLead(r) \/ KnowLead(r) \/ GiveOwner(r)
  \/ MakeTask(r) \/ KnowTask(r) \/ Fail(r)

Next == \E r \in Runs : Step(r)

Spec == Init /\ [][Next]_vars

\* Every run of assign_owner ends.
EveryRunEnds == \A r \in Runs : <>(phase[r] \in Over)

=============================================================================
