---------------------------- MODULE CrmCallsProofs ----------------------------
(* Theorems about CrmCalls. *)
EXTENDS CrmCalls, TLAPS

\* A request of one run changes nothing of the others, and a lead that is there
\* stays there.
LEMMA OthersKept ==
  ASSUME TypeOK, NEW r \in Runs, Step(r)
  PROVE  /\ HasLead => HasLead'
         /\ owner \subseteq owner'
         /\ \A q \in Runs \ {r} :
              /\ at'[q] = at[q] /\ tries'[q] = tries[q] /\ reads'[q] = reads[q]
              /\ made'[q] = made[q] /\ tasks'[q] = tasks[q] /\ due'[q] = due[q]
              /\ q \in blank' <=> q \in blank
              /\ caught'[q] = caught[q] /\ escaped'[q] = escaped[q]
<1>. USE DEF TypeOK, HasLead, loopVars, crmVars, pastVars, GoTo, At, Return, Catch, Note, Look
<1>1. CASE FindLeadByEmail(r)
  BY <1>1 DEF FindLeadByEmail
<1>2. CASE PostLead(r)
  BY <1>2 DEF PostLead
<1>3. CASE ReadLead(r)
  BY <1>3 DEF ReadLead
<1>4. CASE AssignLeadOwner(r)
  BY <1>4 DEF AssignLeadOwner
<1>5. CASE PostTask(r)
  BY <1>5 DEF PostTask
<1>6. CASE ReadTask(r)
  BY <1>6 DEF ReadTask
<1>. QED
  BY <1>1, <1>2, <1>3, <1>4, <1>5, <1>6 DEF Step

\* Every request keeps the types: the counters stay within MaxAttempts because
\* each attempt makes at most one lead or task.
LEMMA TypeStep ==
  ASSUME CrmInvariant, NEW r \in Runs, Step(r) PROVE TypeOK'
<1>. USE CrmAssumption
     DEF CrmInvariant, Progress, TypeOK, loopVars, crmVars, pastVars, GoTo, At, Return, Catch,
         Note, Look, Telling, NoRetryOn, Failures, Answers, Steps, Over
<1>1. CASE FindLeadByEmail(r)
  BY <1>1 DEF FindLeadByEmail
<1>2. CASE PostLead(r)
  BY <1>2 DEF PostLead
<1>3. CASE ReadLead(r)
  BY <1>3 DEF ReadLead, Thrown
<1>4. CASE AssignLeadOwner(r)
  BY <1>4 DEF AssignLeadOwner
<1>5. CASE PostTask(r)
  BY <1>5 DEF PostTask, ActivityDate, TaskPassed
<1>6. CASE ReadTask(r)
  BY <1>6 DEF ReadTask
<1>. QED
  BY <1>1, <1>2, <1>3, <1>4, <1>5, <1>6 DEF Step

\* Every request keeps the progress of its own run consistent.
LEMMA ProgressStep ==
  ASSUME CrmInvariant, NEW r \in Runs, Step(r) PROVE Progress(r)'
<1>. USE CrmAssumption
     DEF CrmInvariant, Progress, TypeOK, loopVars, crmVars, pastVars, GoTo, At, Return, Catch,
         Note, Look, Failures, Answers, Over
<1>1. CASE FindLeadByEmail(r)
  BY <1>1 DEF FindLeadByEmail, HasLead
<1>2. CASE PostLead(r)
  BY <1>2 DEF PostLead, HasLead, Unclear, NoRetryOn
<1>3. CASE ReadLead(r)
  BY <1>3 DEF ReadLead, HasLead
<1>4. CASE AssignLeadOwner(r)
  BY <1>4 DEF AssignLeadOwner, HasLead
<1>5. CASE PostTask(r)
  BY <1>5 DEF PostTask, HasLead, ActivityDate, TaskPassed
<1>6. CASE ReadTask(r)
  BY <1>6 DEF ReadTask, HasLead
<1>. QED
  BY <1>1, <1>2, <1>3, <1>4, <1>5, <1>6 DEF Step

\* The inductive invariant, for any number of runs and attempts.
THEOREM CrmInvariantHolds == Spec => []CrmInvariant
<1>1. Init => CrmInvariant
  BY CrmAssumption DEF Init, CrmInvariant, TypeOK, RecordedIsSynced, Progress, Steps, Over, At,
     Telling
<1>2. CrmInvariant /\ [Next]_vars => CrmInvariant'
  <2>. SUFFICES ASSUME CrmInvariant, [Next]_vars PROVE CrmInvariant'
    OBVIOUS
  <2>1. ASSUME NEW r \in Runs, Step(r) PROVE CrmInvariant'
    <3>1. TypeOK'
      BY <2>1, TypeStep
    <3>2. ASSUME NEW q \in Runs PROVE Progress(q)'
      <4>1. CASE q = r
        BY <2>1, <4>1, ProgressStep
      <4>2. CASE q # r
        BY <2>1, <4>2, OthersKept DEF CrmInvariant, Progress
      <4>. QED
        BY <4>1, <4>2
    <3>3. (held => blank = {})'
      BY <2>1 DEF CrmInvariant, Step, FindLeadByEmail, PostLead, ReadLead, AssignLeadOwner, PostTask,
         ReadTask, Look, HasLead, crmVars
    <3>4. RecordedIsSynced'
      BY <3>1, <3>2 DEF RecordedIsSynced, Progress, At, TypeOK
    <3>. QED
      BY <3>1, <3>2, <3>3, <3>4 DEF CrmInvariant
  <2>2. CASE UNCHANGED vars
    BY <2>2 DEF vars, loopVars, crmVars, pastVars, CrmInvariant, TypeOK, RecordedIsSynced,
       Progress, HasLead, At
  <2>. QED
    BY <2>1, <2>2 DEF Next
<1>. QED
  BY <1>1, <1>2, PTL DEF Spec

\* However requests fail and are repeated, only a run that looked when there was
\* no lead makes one.
THEOREM FindAlwaysFirst == Spec => []FindFirst
<1>1. CrmInvariant => FindFirst
  BY CrmAssumption DEF CrmInvariant, FindFirst, Progress
<1>. QED
  BY <1>1, CrmInvariantHolds, PTL

\* A refusal ends the run: neither the loop that caught it nor the one around it
\* asks again.
THEOREM RefusalAlwaysFinal == Spec => []RefusalIsFinal
<1>. DEFINE Inv == TypeOK /\ RefusalIsFinal
<1>1. Init => RefusalIsFinal
  BY DEF Init, RefusalIsFinal
<1>2. TypeOK /\ RefusalIsFinal /\ [Next]_vars => RefusalIsFinal'
  <2>. SUFFICES ASSUME TypeOK, RefusalIsFinal, [Next]_vars PROVE RefusalIsFinal'
    OBVIOUS
  <2>1. ASSUME NEW r \in Runs, Step(r), caught'[r] \cap NoRetryOn # {} PROVE at'[r] = "failed"
    <3>. USE <2>1 DEF TypeOK, RefusalIsFinal, loopVars, crmVars, pastVars, GoTo, At, Return,
                     Catch, Note, Again, NoRetryOn
    <3>1. CASE FindLeadByEmail(r)
      BY <3>1 DEF FindLeadByEmail
    <3>2. CASE PostLead(r)
      BY <3>2 DEF PostLead
    <3>3. CASE ReadLead(r)
      BY <3>3 DEF ReadLead, Thrown
    <3>4. CASE AssignLeadOwner(r)
      BY <3>4 DEF AssignLeadOwner
    <3>5. CASE PostTask(r)
      BY <3>5 DEF PostTask
    <3>6. CASE ReadTask(r)
      BY <3>6 DEF ReadTask
    <3>. QED
      BY <3>1, <3>2, <3>3, <3>4, <3>5, <3>6 DEF Step
  <2>2. ASSUME NEW r \in Runs, Step(r) PROVE RefusalIsFinal'
    BY <2>1, <2>2, OthersKept DEF RefusalIsFinal, At
  <2>3. CASE UNCHANGED vars
    BY <2>3 DEF vars, loopVars, pastVars, RefusalIsFinal, At
  <2>. QED
    BY <2>2, <2>3 DEF Next
<1>3. CrmInvariant => TypeOK
  BY DEF CrmInvariant
<1>. QED
  BY <1>1, <1>2, <1>3, CrmInvariantHolds, PTL DEF Spec

\* The phase of CrmSync a run is in.
Phase == [r \in Runs |-> CASE at[r] = "read_lead" -> "create"
                           [] at[r] = "read_task" -> "task"
                           [] OTHER -> at[r]]

\* Where a request takes its run, in terms of the phases.
LEMMA PhaseOf ==
  ASSUME TypeOK, NEW r \in Runs
  PROVE  /\ Phase[r] = IF at[r] = "read_lead" THEN "create"
                       ELSE IF at[r] = "read_task" THEN "task" ELSE at[r]
         /\ at' = at => Phase' = Phase
         /\ \A s \in Steps \ {"read_lead", "read_task"} :
              at' = [at EXCEPT ![r] = s] => Phase' = [Phase EXCEPT ![r] = s]
         /\ at[r] = "create" /\ at' = [at EXCEPT ![r] = "read_lead"] => Phase' = Phase
         /\ at[r] = "task" /\ at' = [at EXCEPT ![r] = "read_task"] => Phase' = Phase
<1>. USE DEF Phase, TypeOK
<1>1. ASSUME NEW s \in Steps \ {"read_lead", "read_task"}, at' = [at EXCEPT ![r] = s]
      PROVE  Phase' = [Phase EXCEPT ![r] = s]
  BY <1>1
<1>2. ASSUME at[r] = "create", at' = [at EXCEPT ![r] = "read_lead"] PROVE Phase' = Phase
  BY <1>2
<1>3. ASSUME at[r] = "task", at' = [at EXCEPT ![r] = "read_task"] PROVE Phase' = Phase
  BY <1>3
<1>. QED
  BY <1>1, <1>2, <1>3

\* Every request is a step of the promise, or changes nothing it speaks of.
LEMMA StepKeepsPromise ==
  ASSUME CrmInvariant, NEW r \in Runs, Step(r)
  PROVE  Promise!Step(r) \/ UNCHANGED Promise!vars
<1>. DEFINE To(s) == at' = [at EXCEPT ![r] = s]
<1>1. CASE FindLeadByEmail(r)
  <2>1. at[r] = "find" /\ UNCHANGED <<made, tasks, owner, held>>
        /\ \/ To(IF HasLead THEN "assign" ELSE "create") \/ To("failed")
    BY <1>1 DEF FindLeadByEmail, At, GoTo, Return, crmVars
  <2>2. CASE To("failed")
    BY <2>1, <2>2, PhaseOf DEF CrmInvariant, Phase, Steps, Over, Promise!Step, Promise!Fail,
       Promise!Over, Promise!MoveTo
  <2>3. CASE To(IF HasLead THEN "assign" ELSE "create")
    BY <2>1, <2>3, PhaseOf DEF CrmInvariant, Phase, Steps, Over, HasLead, Promise!Step,
       Promise!Find, Promise!HasLead, Promise!InPhase, Promise!MoveTo
  <2>. QED
    BY <2>1, <2>2, <2>3
<1>2. CASE PostLead(r)
  <2>1. /\ at[r] = "create" /\ UNCHANGED <<tasks, owner, held>>
        /\ \/ made' = [made EXCEPT ![r] = @ + 1] /\ To("read_lead")
           \/ /\ made' \in {made, [made EXCEPT ![r] = @ + 1]}
              /\ To("create") \/ To("failed")
    BY <1>2 DEF PostLead, At, GoTo, Catch, crmVars
  <2>2. made[r] < MaxAttempts
    BY <2>1, CrmAssumption DEF CrmInvariant, Progress, TypeOK
  <2>3. To("read_lead") \/ To("create") => Phase' = Phase
    BY <2>1, PhaseOf DEF CrmInvariant, TypeOK
  <2>4. To("failed") => Phase' = [Phase EXCEPT ![r] = "failed"]
    BY PhaseOf DEF CrmInvariant, Steps, Over
  <2>5. Phase[r] = "create"
    BY <2>1, PhaseOf DEF CrmInvariant
  <2>. QED
    BY <2>1, <2>2, <2>3, <2>4, <2>5 DEF Phase, Promise!Step, Promise!MakeLead, Promise!Fail,
       Promise!InPhase, Promise!MoveTo, Promise!Over, Promise!vars
<1>3. CASE ReadLead(r)
  <2>1. /\ at[r] = "read_lead" /\ UNCHANGED <<made, tasks, owner, held>>
        /\ at' = at \/ To("assign") \/ To("create") \/ To("failed")
    BY <1>3 DEF ReadLead, At, GoTo, Return, Catch, crmVars
  <2>2. made[r] > 0
    BY <2>1 DEF CrmInvariant, Progress
  <2>3. /\ at' = at => Phase' = Phase
        /\ \A s \in {"assign", "create", "failed"} : To(s) => Phase' = [Phase EXCEPT ![r] = s]
    BY PhaseOf DEF CrmInvariant, Steps, Over
  <2>4. Phase[r] = "create"
    BY <2>1, PhaseOf DEF CrmInvariant
  <2>5. To("create") => Phase' = Phase
    BY <2>3, <2>4 DEF Phase
  <2>. QED
    BY <2>1, <2>2, <2>3, <2>4, <2>5 DEF Phase, Promise!Step, Promise!KnowLead, Promise!Fail,
       Promise!InPhase, Promise!MoveTo, Promise!Over, Promise!vars
<1>4. CASE AssignLeadOwner(r)
  <2>1. /\ at[r] = "assign" /\ UNCHANGED <<made, tasks, held>>
        /\ \/ owner' = owner \cup {r} /\ To("task")
           \/ /\ owner' \in {owner, owner \cup {r}}
              /\ To("assign") \/ To("failed")
    BY <1>4 DEF AssignLeadOwner, At, GoTo, Return, Catch
  <2>2. \A s \in {"task", "assign", "failed"} : To(s) => Phase' = [Phase EXCEPT ![r] = s]
    BY PhaseOf DEF CrmInvariant, Steps, Over
  <2>3. Phase[r] = "assign"
    BY <2>1, PhaseOf DEF CrmInvariant
  <2>4. To("assign") => Phase' = Phase
    BY <2>2, <2>3 DEF Phase
  <2>. QED
    BY <2>1, <2>2, <2>3, <2>4 DEF Phase, Promise!Step, Promise!GiveOwner, Promise!Fail,
       Promise!InPhase, Promise!MoveTo, Promise!Over, Promise!vars
<1>5. CASE PostTask(r)
  <2>1. /\ at[r] = "task" /\ UNCHANGED <<made, owner, held>>
        /\ \/ tasks' = [tasks EXCEPT ![r] = @ + 1] /\ To("read_task")
           \/ /\ tasks' \in {tasks, [tasks EXCEPT ![r] = @ + 1]}
              /\ To("task") \/ To("failed")
    BY <1>5 DEF PostTask, At, GoTo, Catch
  <2>2. tasks[r] < MaxAttempts
    BY <2>1, CrmAssumption DEF CrmInvariant, Progress, TypeOK
  <2>3. To("read_task") \/ To("task") => Phase' = Phase
    BY <2>1, PhaseOf DEF CrmInvariant, TypeOK
  <2>4. To("failed") => Phase' = [Phase EXCEPT ![r] = "failed"]
    BY PhaseOf DEF CrmInvariant, Steps, Over
  <2>5. Phase[r] = "task"
    BY <2>1, PhaseOf DEF CrmInvariant
  <2>. QED
    BY <2>1, <2>2, <2>3, <2>4, <2>5 DEF Phase, Promise!Step, Promise!MakeTask, Promise!Fail,
       Promise!InPhase, Promise!MoveTo, Promise!Over, Promise!vars
<1>6. CASE ReadTask(r)
  <2>1. /\ at[r] = "read_task" /\ UNCHANGED <<made, tasks, owner, held>>
        /\ To("recorded") \/ To("task") \/ To("failed")
    BY <1>6 DEF ReadTask, At, GoTo, Return, Catch, crmVars
  <2>2. tasks[r] > 0
    BY <2>1, CrmAssumption DEF CrmInvariant, Progress, TypeOK
  <2>3. \A s \in {"recorded", "task", "failed"} : To(s) => Phase' = [Phase EXCEPT ![r] = s]
    BY PhaseOf DEF CrmInvariant, Steps, Over
  <2>4. Phase[r] = "task"
    BY <2>1, PhaseOf DEF CrmInvariant
  <2>5. To("task") => Phase' = Phase
    BY <2>3, <2>4 DEF Phase
  <2>. QED
    BY <2>1, <2>2, <2>3, <2>4, <2>5 DEF Phase, Promise!Step, Promise!KnowTask, Promise!Fail,
       Promise!InPhase, Promise!MoveTo, Promise!Over, Promise!vars
<1>. QED
  BY <1>1, <1>2, <1>3, <1>4, <1>5, <1>6 DEF Step

\* The connector, with its retries inside retries, is one that assign_owner may
\* rely on as CrmSync says.
THEOREM CallsKeepPromise == Spec => KeepsPromise
<1>1. Init => Promise!Init
  BY DEF Init, Promise!Init
<1>2. CrmInvariant /\ [Next]_vars => [Promise!Next]_(Promise!vars)
  <2>1. ASSUME UNCHANGED vars PROVE UNCHANGED Promise!vars
    BY <2>1 DEF vars, loopVars, crmVars, Promise!vars
  <2>. QED
    BY <2>1, StepKeepsPromise DEF Next, Promise!Next
<1>. QED
  BY <1>1, <1>2, CrmInvariantHolds, PTL DEF Spec, KeepsPromise, Promise!Spec
===============================================================================
