------------------------------ MODULE CrmCalls ------------------------------
(***************************************************************************)
(* assign_owner of src/actions/action-executor.ts, request by request: the *)
(* calls of the Salesforce connector (src/connectors/salesforce) and the   *)
(* retry loop around them (withRetry of src/connectors/base.ts).  Several  *)
(* runs of the same contact (two plays, or a job and its repetition) meet  *)
(* in Salesforce.  One action is one request together with the code that   *)
(* handles its answer; the pauses between attempts are the time between    *)
(* two actions.  connect() has just fetched the access token, which lasts  *)
(* longer than a run.                                                      *)
(***************************************************************************)
EXTENDS Naturals

CONSTANTS
  Runs,        \* runs of assign_owner for the same contact
  MaxAttempts  \* RETRY_CONFIG.maxAttempts: 3

ASSUME CrmAssumption == MaxAttempts \in Nat \ {0}

VARIABLES
  at,      \* the next request of a run, or how it ended
  tries,   \* attempts of the run's call that have failed
  reads,   \* attempts of the read inside createLead that have failed
  made,    \* external: leads a run has created
  tasks,   \* external: call tasks a run has created
  due,     \* external: ActivityDate of the last of them
  owner,   \* external: runs whose owner the lead has been given
  held,    \* external: whether Salesforce had a lead of the contact before
  blank,   \* runs that looked for the lead when Salesforce had none
  caught,  \* final or disputed failures withRetry has caught in a run
  escaped  \* the kind of error a run ended with

loopVars == <<at, tries, reads>>
crmVars  == <<made, tasks, due, owner, held>>
pastVars == <<blank, caught, escaped>>
vars     == <<loopVars, crmVars, pastVars>>

Over  == {"recorded", "failed"}
Steps == Over \cup {"find", "create", "read_lead", "assign", "task", "read_task"}

\* The status groups withRetry tells apart, a connection that breaks or a body
\* that cannot be parsed, and AbortSignal.timeout().
NoRetryOn == {"400-404"}
Failures  == NoRetryOn \cup {"429/503", "other_status", "broken", "timeout"}
Answers   == Failures \cup {"ok"}

\* The vendor may have acted on a request that failed with one of these.
Unclear   == {"other_status", "broken", "timeout"}

HasLead == held \/ \E r \in Runs : made[r] > 0

At(r, step)   == at[r] = step
GoTo(r, step) == at' = [at EXCEPT ![r] = step]
-----------------------------------------------------------------------------
(* withRetry *)

\* Mutant: the status is not compared with noRetryOn.
AnyAgain(failure) == failure # "timeout"

\* The failures after which the loop goes on.
Again(failure) == failure \notin NoRetryOn \cup {"timeout"}

\* What withRetry throws: a timeout becomes a ConnectorError with status 408.
Thrown(failure) == IF failure = "timeout" THEN "other_status" ELSE failure

\* Mutant: maxAttempts counts the repetitions instead of the attempts.
CatchOnceMore(r, failure, start) ==
  /\ IF Again(failure) /\ tries[r] + 1 <= MaxAttempts
       THEN /\ tries' = [tries EXCEPT ![r] = @ + 1]
            /\ GoTo(r, start)
            /\ UNCHANGED escaped
       ELSE /\ GoTo(r, "failed")
            /\ escaped' = [escaped EXCEPT ![r] = "ConnectorError"]
            /\ UNCHANGED tries
  /\ UNCHANGED reads

\* The catch block of the call's loop: the call starts over, or throws.
Catch(r, failure, start) ==
  /\ IF Again(failure) /\ tries[r] + 1 < MaxAttempts
       THEN /\ tries' = [tries EXCEPT ![r] = @ + 1]
            /\ GoTo(r, start)
            /\ UNCHANGED escaped
       ELSE /\ GoTo(r, "failed")
            /\ escaped' = [escaped EXCEPT ![r] = "ConnectorError"]
            /\ UNCHANGED tries
  /\ UNCHANGED reads

Telling == NoRetryOn \cup {"other_status", "timeout"}

Note(r, failure) == caught' = [caught EXCEPT ![r] = @ \cup ({failure} \cap Telling)]

\* The call returns; the next one has its own loop.
Return(r, step) ==
  /\ GoTo(r, step)
  /\ tries' = [tries EXCEPT ![r] = 0] /\ reads' = [reads EXCEPT ![r] = 0]
  /\ UNCHANGED <<caught, escaped>>
-----------------------------------------------------------------------------
(* The lead *)

\* When a run looked is remembered, whatever it was answered.
Look(r) == blank' = IF HasLead THEN blank ELSE blank \cup {r}

\* Mutant: a query that fails has found nothing.
FindOrNothing(r) ==
  /\ At(r, "find")
  /\ \E answer \in Answers :
       Return(r, IF HasLead /\ answer = "ok" THEN "assign" ELSE "create")
  /\ Look(r)
  /\ UNCHANGED crmVars

\* findLeadByEmail, which is not retried: its errors escape as they are.
FindLeadByEmail(r) ==
  /\ At(r, "find")
  /\ \E answer \in Answers :
       IF answer = "ok"
         THEN Return(r, IF HasLead THEN "assign" ELSE "create")
         ELSE /\ GoTo(r, "failed")
              /\ escaped' = [escaped EXCEPT ![r] = IF answer \in {"broken", "timeout"}
                                                     THEN "raw" ELSE "ConnectorError"]
              /\ UNCHANGED <<tries, reads, caught>>
  /\ Look(r)
  /\ UNCHANGED crmVars

\* createLead: the POST ...
PostLead(r) ==
  /\ At(r, "create")
  /\ \E answer \in Answers :
       /\ \/ /\ answer \in Unclear \cup {"ok"}
             /\ made' = [made EXCEPT ![r] = @ + 1]
          \/ answer # "ok" /\ UNCHANGED made
       /\ IF answer = "ok"
            THEN /\ GoTo(r, "read_lead")
                 /\ reads' = [reads EXCEPT ![r] = 0]
                 /\ UNCHANGED <<tries, caught, escaped>>
            ELSE Catch(r, answer, "create") /\ Note(r, answer)
  /\ UNCHANGED <<tasks, due, owner, held, blank>>

\* Mutant: a read whose attempts are used up starts over.
ReadLeadAgain(r) ==
  /\ At(r, "read_lead")
  /\ \/ Return(r, "assign")
     \/ \E failure \in Failures :
          /\ Note(r, failure)
          /\ reads' = [reads EXCEPT ![r] = (@ + 1) % MaxAttempts]
          /\ UNCHANGED <<at, tries, escaped>>
  /\ UNCHANGED <<crmVars, blank>>

\* ... and getLeadById, with a loop of its own inside the one of createLead.
ReadLead(r) ==
  /\ At(r, "read_lead")
  /\ \/ Return(r, "assign")
     \/ \E failure \in Failures :
          /\ Note(r, failure)
          /\ IF Again(failure) /\ reads[r] + 1 < MaxAttempts
               THEN /\ reads' = [reads EXCEPT ![r] = @ + 1]
                    /\ UNCHANGED <<at, tries, escaped>>
               ELSE Catch(r, Thrown(failure), "create")
  /\ UNCHANGED <<crmVars, blank>>

\* PATCH of OwnerId.
AssignLeadOwner(r) ==
  /\ At(r, "assign")
  /\ \E answer \in Answers :
       /\ \/ answer \in Unclear \cup {"ok"} /\ owner' = owner \cup {r}
          \/ answer # "ok" /\ UNCHANGED owner
       /\ IF answer = "ok" THEN Return(r, "task")
                           ELSE Catch(r, answer, "assign") /\ Note(r, answer)
  /\ UNCHANGED <<made, tasks, due, held, blank>>
-----------------------------------------------------------------------------
(* The task *)

\* The task assign_owner passes to createTask ...
TaskPassed == [subject |-> "call", description |-> "briefing", due_date |-> "deadline"]

\* ... and ActivityDate of the body, which is taken from task.dueDate; a key
\* the object does not have is undefined, and left out of the JSON.
ActivityDate(task) == IF "dueDate" \in DOMAIN task THEN task.dueDate ELSE "none"

\* Mutant: whatever Salesforce answers, the task is taken to be there.
PostTaskBlind(r) ==
  /\ At(r, "task")
  /\ tasks' = [tasks EXCEPT ![r] = @ + 1] \/ UNCHANGED tasks
  /\ due' = [due EXCEPT ![r] = ActivityDate(TaskPassed)]
  /\ GoTo(r, "read_task")
  /\ UNCHANGED <<tries, reads, made, owner, held, pastVars>>

\* createTask: the POST ...
PostTask(r) ==
  /\ At(r, "task")
  /\ \E answer \in Answers :
       /\ \/ /\ answer \in Unclear \cup {"ok"}
             /\ tasks' = [tasks EXCEPT ![r] = @ + 1]
             /\ due' = [due EXCEPT ![r] = ActivityDate(TaskPassed)]
          \/ answer # "ok" /\ UNCHANGED <<tasks, due>>
       /\ IF answer = "ok"
            THEN GoTo(r, "read_task") /\ UNCHANGED <<tries, reads, caught, escaped>>
            ELSE Catch(r, answer, "task") /\ Note(r, answer)
  /\ UNCHANGED <<made, owner, held, blank>>

\* ... and a read in the same loop, whose status is not looked at.
ReadTask(r) ==
  /\ At(r, "read_task")
  /\ \E answer \in Answers :
       IF answer \in {"broken", "timeout"}
         THEN Catch(r, answer, "task") /\ Note(r, answer)
         ELSE Return(r, "recorded")
  /\ UNCHANGED <<crmVars, blank>>
-----------------------------------------------------------------------------
Init ==
  /\ at = [r \in Runs |-> "find"]
  /\ tries = [r \in Runs |-> 0] /\ reads = [r \in Runs |-> 0]
  /\ made = [r \in Runs |-> 0] /\ tasks = [r \in Runs |-> 0]
  /\ due = [r \in Runs |-> "no_task"]
  /\ owner = {}
  /\ held \in BOOLEAN
  /\ blank = {}
  /\ caught = [r \in Runs |-> {}]
  /\ escaped = [r \in Runs |-> "none"]

Step(r) ==
  \/ FindLeadByEmail(r) \/ PostLead(r) \/ ReadLead(r) \/ AssignLeadOwner(r)
  \/ PostTask(r) \/ ReadTask(r)

Next == \E r \in Runs : Step(r)

Spec == Init /\ [][Next]_vars

\* Every request is answered, breaks or times out after 8 seconds.
FairSpec == Spec /\ \A r \in Runs : WF_vars(Step(r))
-----------------------------------------------------------------------------
(* Properties *)

TypeOK ==
  /\ at \in [Runs -> Steps]
  /\ tries \in [Runs -> 0 .. MaxAttempts - 1]
  /\ reads \in [Runs -> 0 .. MaxAttempts - 1]
  /\ made \in [Runs -> 0 .. MaxAttempts]
  /\ tasks \in [Runs -> 0 .. MaxAttempts]
  /\ due \in [Runs -> {"no_task", "none", "deadline"}]
  /\ owner \subseteq Runs
  /\ held \in BOOLEAN
  /\ blank \subseteq Runs
  /\ caught \in [Runs -> SUBSET Telling]
  /\ escaped \in [Runs -> {"none", "ConnectorError", "raw"}]

\* action-executor.ts:221, "Find first": a run makes a lead only if Salesforce had
\* none when the run looked, however the query and the requests after it fail.  So
\* a contact with a lead gets no other, and two runs that each make one have both
\* looked before there was any.
FindFirst ==
  /\ \A r \in Runs : made[r] > 0 => r \in blank
  /\ held => blank = {}

\* An owner is recorded (and the routing counter advanced) only when Salesforce
\* has a lead of the contact, which has been given this owner, and a call task.
RecordedIsSynced ==
  \A r \in Runs : At(r, "recorded") => HasLead /\ r \in owner /\ tasks[r] > 0

\* What a run has done by the time it is where it is: a loop starts its POST
\* again only if it may not have worked or its lead could not be read, and the
\* next call comes after one that has written.
Progress(r) ==
  /\ made[r] > 0 \/ at[r] = "create" => r \in blank
  /\ at[r] = "find" => made[r] = 0 /\ tries[r] = 0
  /\ at[r] = "create" => made[r] <= tries[r]
  /\ at[r] = "read_lead" => made[r] \in 1 .. tries[r] + 1
  /\ at[r] \in {"find", "create", "read_lead", "assign"} => tasks[r] = 0
  /\ at[r] \in {"assign", "task", "read_task", "recorded"} => HasLead
  /\ at[r] \in {"task", "read_task", "recorded"} => r \in owner
  /\ at[r] = "task" => tasks[r] <= tries[r]
  /\ at[r] = "read_task" => tasks[r] \in 1 .. tries[r] + 1
  /\ at[r] = "recorded" => tasks[r] > 0
  /\ due[r] = "no_task" <=> tasks[r] = 0
  /\ at[r] = "failed" <=> escaped[r] # "none"

\* Types and bounds (a run makes at most MaxAttempts leads and tasks), the progress
\* of each run, and what is recorded is in Salesforce.
CrmInvariant ==
  /\ TypeOK
  /\ RecordedIsSynced
  /\ held => blank = {}
  /\ \A r \in Runs : Progress(r)

\* base.ts:61, "Never retries on 400/401/403/404": after such an answer nothing
\* is asked again, in the loop it is caught in nor in the one around it.
RefusalIsFinal ==
  \A r \in Runs : caught[r] \cap NoRetryOn # {} => At(r, "failed")

\* The connector keeps what CrmSync promises.
Promise == INSTANCE CrmSync WITH
  phase <- [r \in Runs |-> CASE at[r] = "read_lead" -> "create"
                             [] at[r] = "read_task" -> "task"
                             [] OTHER -> at[r]]

KeepsPromise == Promise!Spec

\* However requests fail, the loops of a run come to an end.
EveryRunEnds == Promise!EveryRunEnds

\* base.ts:74, of a timeout: "thrown by AbortSignal.timeout(); never retry".
TimeoutIsFinal == \A r \in Runs : "timeout" \in caught[r] => At(r, "failed")

\* base.ts:60, "Retries on 429/503 and network errors": nothing else is retried.
RetriesOnlyListed ==
  \A r \in Runs : "other_status" \in caught[r] => At(r, "failed")

\* base.ts:33, of ConnectorError: "The only error type allowed to escape from
\* any connector."
OnlyConnectorErrors == \A r \in Runs : escaped[r] # "raw"

\* action-executor.ts:261, "Create call task with briefing card, due at the SLA
\* deadline".
TaskDueAtDeadline == \A r \in Runs : tasks[r] > 0 => due[r] = "deadline"

=============================================================================
