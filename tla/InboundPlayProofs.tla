-------------------------- MODULE InboundPlayProofs --------------------------
(* Theorems about InboundPlay, for every set of jobs, events and addresses. *)
EXTENDS InboundPlay, TLAPS

\* A run names its job and its number.
LEMMA RunJob == \A r \in Runs : r[1] \in Jobs /\ r[2] \in Nat /\ r = <<r[1], r[2]>>
  BY DEF Runs

JobTypes ==
  /\ jobState \in [Jobs -> JobStates]
  /\ event \in [Jobs -> Events \cup {NoEvent}]
  /\ runs \in [Jobs -> Nat]
  /\ fails \in [Jobs -> Nat]
  /\ stalls \in [Jobs -> Nat]

\* A stalled job keeps the types of the BullMQ variables.
LEMMA StallTypes == \A j \in Jobs : JobTypes /\ JobStalls(j) => JobTypes'
<1>. SUFFICES ASSUME NEW j \in Jobs, JobTypes, JobStalls(j) PROVE JobTypes'
  OBVIOUS
<1>1. jobState' \in [Jobs -> JobStates]
  BY DEF JobTypes, JobStalls, JobStates
<1>2. stalls' \in [Jobs -> Nat]
  BY DEF JobTypes, JobStalls
<1>. QED
  BY <1>1, <1>2 DEF JobTypes, JobStalls

\* So does a run that throws.
LEMMA FailTypes == \A r \in Runs : JobTypes /\ JobFails(r) => JobTypes'
<1>. SUFFICES ASSUME NEW r \in Runs, JobTypes, JobFails(r), Current(r) PROVE JobTypes'
  BY DEF JobFails, JobTypes, jobVars
<1>1. jobState' \in [Jobs -> JobStates]
  BY DEF JobTypes, JobFails, JobStates
<1>2. fails' \in [Jobs -> Nat]
  BY DEF JobTypes, JobFails
<1>. QED
  BY <1>1, <1>2 DEF JobTypes, JobFails

\* Every step of webhook, queue and worker preserves the types.
LEMMA TypeStep == TypeOK /\ JobsHaveEvents /\ RowsFollowSteps /\ [Next]_vars => TypeOK'
<1>. SUFFICES ASSUME TypeOK, JobsHaveEvents, RowsFollowSteps, [Next]_vars PROVE TypeOK'
  OBVIOUS
<1>. USE InboundPlayAssumption
     DEF TypeOK, JobTypes, JobStates, Steps, Resting, DedupSteps, PlaySteps, Stages, Statuses,
         Never, jobVars, leadVars, playVars, logVars, extVars, GoTo, At
<1>1. ASSUME NEW e \in Events, NEW j \in Jobs, ReceiveWebhook(e, j) PROVE TypeOK'
  BY <1>1 DEF ReceiveWebhook
<1>2. ASSUME NEW j \in Jobs, Enqueue(j) PROVE TypeOK'
  BY <1>2 DEF Enqueue
<1>3. ASSUME NEW j \in Jobs, Start(j) PROVE TypeOK'
  <2>1. pc' \in [Runs -> Steps]
    BY <1>3 DEF Start
  <2>2. runs' \in [Jobs -> Nat]
    BY <1>3 DEF Start
  <2>. QED
    BY <2>1, <2>2, <1>3 DEF Start
<1>4. ASSUME NEW j \in Jobs, Stall(j) PROVE TypeOK'
  BY <1>4, StallTypes DEF Stall
<1>5. ASSUME NEW j \in Jobs, Crash(j) PROVE TypeOK'
  <2>1. pc' \in [Runs -> Steps] /\ seen' \in [Runs -> SUBSET Runs]
    BY <1>5 DEF Crash
  <2>. QED
    BY <2>1, <1>5, StallTypes DEF Crash
<1>6. ASSUME NEW r \in Runs, Fail(r) PROVE TypeOK'
  BY <1>6, FailTypes DEF Fail
<1>7. ASSUME NEW r \in Runs, SkipContact(r) PROVE TypeOK'
  BY <1>7, RunJob DEF SkipContact, Return
<1>8. ASSUME NEW r \in Runs, InsertLead(r) PROVE TypeOK'
  BY <1>8 DEF InsertLead
<1>9. ASSUME NEW r \in Runs, InsertPlay(r) PROVE TypeOK'
  BY <1>9 DEF InsertPlay
<1>10. ASSUME NEW r \in Runs, LogReceived(r) PROVE TypeOK'
  BY <1>10, RunJob DEF LogReceived, JobsHaveEvents, RowsFollowSteps
<1>11. ASSUME NEW r \in Runs, CheckDuplicate(r) PROVE TypeOK'
  BY <1>11 DEF CheckDuplicate, Admit
<1>12. ASSUME NEW r \in Runs, ReadRivals(r) PROVE TypeOK'
  BY <1>12 DEF ReadRivals, SameEmail
<1>13. ASSUME NEW r \in Runs, ReadLatestPlay(r) PROVE TypeOK'
  BY <1>13 DEF ReadLatestPlay, Admit
<1>14. ASSUME NEW r \in Runs, MarkLeadDuplicate(r) PROVE TypeOK'
  BY <1>14 DEF MarkLeadDuplicate
<1>15. ASSUME NEW r \in Runs, CloseDuplicatePlay(r) PROVE TypeOK'
  BY <1>15 DEF CloseDuplicatePlay
<1>16. ASSUME NEW r \in Runs, MatchAccount(r) PROVE TypeOK'
  BY <1>16 DEF MatchAccount
<1>17. ASSUME NEW r \in Runs, Qualify(r) PROVE TypeOK'
  BY <1>17 DEF Qualify
<1>18. ASSUME NEW r \in Runs, MarkNurture(r) PROVE TypeOK'
  BY <1>18 DEF MarkNurture
<1>19. ASSUME NEW r \in Runs, RequestHumanReview(r) PROVE TypeOK'
  BY <1>19 DEF RequestHumanReview
<1>20. ASSUME NEW r \in Runs, AssignOwner(r) PROVE TypeOK'
  BY <1>20 DEF AssignOwner
<1>21. ASSUME NEW r \in Runs, Enroll(r) PROVE TypeOK'
  BY <1>21 DEF Enroll
<1>22. ASSUME NEW r \in Runs, NoSepConnector(r) PROVE TypeOK'
  BY <1>22, FailTypes DEF NoSepConnector
<1>23. ASSUME NEW r \in Runs, RecordFirstTouch(r) PROVE TypeOK'
  BY <1>23 DEF RecordFirstTouch
<1>24. ASSUME NEW r \in Runs, MoveLeadInSequence(r) PROVE TypeOK'
  BY <1>24 DEF MoveLeadInSequence
<1>25. ASSUME NEW r \in Runs, Complete(r) PROVE TypeOK'
  BY <1>25, RunJob DEF Complete, Return
<1>26. ASSUME NEW p \in Runs, OutcomeUpdate(p) PROVE TypeOK'
  BY <1>26 DEF OutcomeUpdate
<1>27. CASE NextDay
  BY <1>27 DEF NextDay
<1>28. CASE UNCHANGED vars
  BY <1>28 DEF vars
<1>. QED BY <1>1, <1>2, <1>3, <1>4, <1>5, <1>6, <1>7, <1>8, <1>9, <1>10, <1>11, <1>12,
     <1>13, <1>14, <1>15, <1>16, <1>17, <1>18, <1>19, <1>20, <1>21, <1>22, <1>23,
     <1>24, <1>25, <1>26, <1>27, <1>28
     DEF Next, Step, Validate, Execute

\* Every step keeps the rows of a run in line with the steps it has taken.
LEMMA RowsStep == TypeOK /\ RowsFollowSteps /\ [Next]_vars => RowsFollowSteps'
<1>. SUFFICES ASSUME TypeOK, RowsFollowSteps, [Next]_vars PROVE RowsFollowSteps'
  OBVIOUS
<1>. USE DEF TypeOK, RowsFollowSteps, Resting, DedupSteps, PlaySteps, Never,
         jobVars, leadVars, playVars, logVars, extVars, GoTo, At
<1>1. ASSUME NEW e \in Events, NEW j \in Jobs, ReceiveWebhook(e, j) PROVE RowsFollowSteps'
  BY <1>1, RunJob DEF ReceiveWebhook
<1>2. ASSUME NEW j \in Jobs, Enqueue(j) PROVE RowsFollowSteps'
  BY <1>2, RunJob DEF Enqueue
<1>3. ASSUME NEW j \in Jobs, Start(j) PROVE RowsFollowSteps'
  BY <1>3, RunJob DEF Start
<1>4. ASSUME NEW j \in Jobs, Stall(j) PROVE RowsFollowSteps'
  BY <1>4, RunJob DEF Stall, JobStalls
<1>5. ASSUME NEW j \in Jobs, Crash(j) PROVE RowsFollowSteps'
  BY <1>5, RunJob DEF Crash, JobStalls
<1>6. ASSUME NEW r \in Runs, Fail(r) PROVE RowsFollowSteps'
  BY <1>6, RunJob DEF Fail, JobFails, Live
<1>7. ASSUME NEW r \in Runs, SkipContact(r) PROVE RowsFollowSteps'
  BY <1>7, RunJob DEF SkipContact, Return
<1>8. ASSUME NEW r \in Runs, InsertLead(r) PROVE RowsFollowSteps'
  BY <1>8, RunJob DEF InsertLead
<1>9. ASSUME NEW r \in Runs, InsertPlay(r) PROVE RowsFollowSteps'
  BY <1>9, RunJob DEF InsertPlay
<1>10. ASSUME NEW r \in Runs, LogReceived(r) PROVE RowsFollowSteps'
  BY <1>10, RunJob DEF LogReceived
<1>11. ASSUME NEW r \in Runs, CheckDuplicate(r) PROVE RowsFollowSteps'
  BY <1>11, RunJob DEF CheckDuplicate, Admit
<1>12. ASSUME NEW r \in Runs, ReadRivals(r) PROVE RowsFollowSteps'
  BY <1>12, RunJob DEF ReadRivals, SameEmail
<1>13. ASSUME NEW r \in Runs, ReadLatestPlay(r) PROVE RowsFollowSteps'
  BY <1>13, RunJob DEF ReadLatestPlay, Admit
<1>14. ASSUME NEW r \in Runs, MarkLeadDuplicate(r) PROVE RowsFollowSteps'
  BY <1>14, RunJob DEF MarkLeadDuplicate
<1>15. ASSUME NEW r \in Runs, CloseDuplicatePlay(r) PROVE RowsFollowSteps'
  BY <1>15, RunJob DEF CloseDuplicatePlay
<1>16. ASSUME NEW r \in Runs, MatchAccount(r) PROVE RowsFollowSteps'
  BY <1>16, RunJob DEF MatchAccount
<1>17. ASSUME NEW r \in Runs, Qualify(r) PROVE RowsFollowSteps'
  BY <1>17, RunJob DEF Qualify
<1>18. ASSUME NEW r \in Runs, MarkNurture(r) PROVE RowsFollowSteps'
  BY <1>18, RunJob DEF MarkNurture
<1>19. ASSUME NEW r \in Runs, RequestHumanReview(r) PROVE RowsFollowSteps'
  BY <1>19, RunJob DEF RequestHumanReview
<1>20. ASSUME NEW r \in Runs, AssignOwner(r) PROVE RowsFollowSteps'
  BY <1>20, RunJob DEF AssignOwner
<1>21. ASSUME NEW r \in Runs, Enroll(r) PROVE RowsFollowSteps'
  BY <1>21, RunJob DEF Enroll
<1>22. ASSUME NEW r \in Runs, NoSepConnector(r) PROVE RowsFollowSteps'
  BY <1>22, RunJob DEF NoSepConnector, JobFails
<1>23. ASSUME NEW r \in Runs, RecordFirstTouch(r) PROVE RowsFollowSteps'
  BY <1>23, RunJob DEF RecordFirstTouch
<1>24. ASSUME NEW r \in Runs, MoveLeadInSequence(r) PROVE RowsFollowSteps'
  BY <1>24, RunJob DEF MoveLeadInSequence
<1>25. ASSUME NEW r \in Runs, Complete(r) PROVE RowsFollowSteps'
  BY <1>25, RunJob DEF Complete, Return
<1>26. ASSUME NEW p \in Runs, OutcomeUpdate(p) PROVE RowsFollowSteps'
  BY <1>26, RunJob DEF OutcomeUpdate
<1>27. CASE NextDay
  BY <1>27 DEF NextDay
<1>28. CASE UNCHANGED vars
  BY <1>28 DEF vars
<1>. QED BY <1>1, <1>2, <1>3, <1>4, <1>5, <1>6, <1>7, <1>8, <1>9, <1>10, <1>11, <1>12,
     <1>13, <1>14, <1>15, <1>16, <1>17, <1>18, <1>19, <1>20, <1>21, <1>22, <1>23,
     <1>24, <1>25, <1>26, <1>27, <1>28
     DEF Next, Step, Validate, Execute

\* A job that was added keeps an event.
LEMMA JobsStep == TypeOK /\ JobsHaveEvents /\ [Next]_vars => JobsHaveEvents'
<1>. SUFFICES ASSUME TypeOK, JobsHaveEvents, [Next]_vars PROVE JobsHaveEvents'
  OBVIOUS
<1>. USE DEF TypeOK, JobsHaveEvents, jobVars
<1>1. ASSUME NEW e \in Events, NEW j \in Jobs, ReceiveWebhook(e, j) PROVE JobsHaveEvents'
  BY <1>1 DEF ReceiveWebhook
<1>2. ASSUME NEW j \in Jobs, Enqueue(j) \/ Start(j) PROVE JobsHaveEvents'
  BY <1>2 DEF Enqueue, Start
<1>3. ASSUME NEW j \in Jobs, Stall(j) \/ Crash(j) PROVE JobsHaveEvents'
  BY <1>3 DEF Stall, Crash, JobStalls
<1>4. ASSUME NEW r \in Runs, JobFails(r) \/ Return(r) PROVE JobsHaveEvents'
  BY <1>4, RunJob DEF JobFails, Return, Current
<1>5. ASSUME NEW r \in Runs, Step(r) \/ Fail(r)
      PROVE JobFails(r) \/ Return(r) \/ UNCHANGED jobVars
  BY <1>5 DEF Step, Validate, Execute, Fail, SkipContact, InsertLead, InsertPlay, LogReceived,
     CheckDuplicate, ReadRivals, ReadLatestPlay, MarkLeadDuplicate, CloseDuplicatePlay,
     MatchAccount, Qualify, MarkNurture, RequestHumanReview, AssignOwner, Enroll,
     NoSepConnector, RecordFirstTouch, MoveLeadInSequence, Complete
<1>6. ASSUME UNCHANGED jobVars PROVE JobsHaveEvents'
  BY <1>6
<1>7. (\E p \in Runs : OutcomeUpdate(p)) \/ NextDay \/ UNCHANGED vars => UNCHANGED jobVars
  BY DEF OutcomeUpdate, NextDay, vars
<1>. QED
  BY <1>1, <1>2, <1>3, <1>4, <1>5, <1>6, <1>7 DEF Next

\* The address of a stored lead never changes.
LEMMA EmailKept ==
  TypeOK /\ RowsFollowSteps /\ [Next]_vars => \A l \in leads : event'[l[1]] = event[l[1]]
<1>. SUFFICES ASSUME TypeOK, RowsFollowSteps, [Next]_vars, NEW l \in leads
              PROVE event'[l[1]] = event[l[1]]
  OBVIOUS
<1>1. jobState[l[1]] \notin {"absent", "checked"}
  BY RunJob DEF TypeOK, RowsFollowSteps
<1>2. ASSUME NEW e \in Events, NEW j \in Jobs, ReceiveWebhook(e, j)
      PROVE event'[l[1]] = event[l[1]]
  BY <1>1, <1>2 DEF TypeOK, ReceiveWebhook
<1>3. ASSUME NEW j \in Jobs, Start(j) \/ Stall(j) \/ Crash(j) PROVE UNCHANGED event
  BY <1>3 DEF Start, Stall, Crash, JobStalls
<1>4. ASSUME NEW r \in Runs, Step(r) \/ Fail(r) PROVE UNCHANGED event
  BY <1>4 DEF Step, Validate, Execute, Fail, SkipContact, InsertLead, InsertPlay, LogReceived,
     CheckDuplicate, ReadRivals, ReadLatestPlay, MarkLeadDuplicate, CloseDuplicatePlay,
     MatchAccount, Qualify, MarkNurture, RequestHumanReview, AssignOwner, Enroll,
     NoSepConnector, RecordFirstTouch, MoveLeadInSequence, Complete, JobFails, Return, jobVars
<1>5. (\E p \in Runs : OutcomeUpdate(p)) \/ NextDay \/ UNCHANGED vars => UNCHANGED event
  BY DEF OutcomeUpdate, NextDay, vars, jobVars
<1>6. ASSUME NEW j \in Jobs, Enqueue(j) PROVE event'[l[1]] = event[l[1]]
  <2>1. l[1] \in Jobs /\ l[1] # j
    BY <1>1, <1>6, RunJob DEF TypeOK, Enqueue
  <2>. QED
    BY <1>6, <2>1 DEF TypeOK, Enqueue
<1>. QED
  BY <1>2, <1>3, <1>4, <1>5, <1>6 DEF Next

\* Every step keeps the dates of the plays in order.
LEMMA TimesStep ==
  ~ LongAttribution /\ TypeOK /\ RowsFollowSteps /\ TimesOrdered /\ [Next]_vars => TimesOrdered'
<1>. SUFFICES ASSUME ~ LongAttribution, TypeOK, RowsFollowSteps, TimesOrdered, [Next]_vars
              PROVE TimesOrdered'
  OBVIOUS
<1>. USE InboundPlayAssumption
     DEF TypeOK, RowsFollowSteps, TimesOrdered, Resting, DedupSteps, PlaySteps, Never,
         jobVars, leadVars, playVars, logVars, extVars, GoTo, At
<1>1. ASSUME NEW e \in Events, NEW j \in Jobs, ReceiveWebhook(e, j) PROVE TimesOrdered'
  BY <1>1, RunJob DEF ReceiveWebhook, Live
<1>2. ASSUME NEW j \in Jobs, Enqueue(j) PROVE TimesOrdered'
  BY <1>2, RunJob DEF Enqueue, Live
<1>3. ASSUME NEW j \in Jobs, Start(j) PROVE TimesOrdered'
  BY <1>3, RunJob DEF Start, Live
<1>4. ASSUME NEW j \in Jobs, Stall(j) PROVE TimesOrdered'
  BY <1>4, RunJob DEF Stall, JobStalls, Live
<1>5. ASSUME NEW j \in Jobs, Crash(j) PROVE TimesOrdered'
  BY <1>5, RunJob DEF Crash, JobStalls, Live
<1>6. ASSUME NEW r \in Runs, Fail(r) PROVE TimesOrdered'
  BY <1>6, RunJob DEF Fail, JobFails, Live
<1>7. ASSUME NEW r \in Runs, SkipContact(r) PROVE TimesOrdered'
  BY <1>7, RunJob DEF SkipContact, Return, Live
<1>8. ASSUME NEW r \in Runs, InsertLead(r) PROVE TimesOrdered'
  BY <1>8, RunJob DEF InsertLead, Live
<1>9. ASSUME NEW r \in Runs, InsertPlay(r) PROVE TimesOrdered'
  BY <1>9, RunJob DEF InsertPlay, Live
<1>10. ASSUME NEW r \in Runs, LogReceived(r) PROVE TimesOrdered'
  BY <1>10, RunJob DEF LogReceived, Live
<1>11. ASSUME NEW r \in Runs, CheckDuplicate(r) PROVE TimesOrdered'
  BY <1>11, RunJob DEF CheckDuplicate, Admit, Live
<1>12. ASSUME NEW r \in Runs, ReadRivals(r) PROVE TimesOrdered'
  BY <1>12, RunJob DEF ReadRivals, SameEmail, Live
<1>13. ASSUME NEW r \in Runs, ReadLatestPlay(r) PROVE TimesOrdered'
  BY <1>13, RunJob DEF ReadLatestPlay, Admit, Live
<1>14. ASSUME NEW r \in Runs, MarkLeadDuplicate(r) PROVE TimesOrdered'
  BY <1>14, RunJob DEF MarkLeadDuplicate, Live
<1>15. ASSUME NEW r \in Runs, CloseDuplicatePlay(r) PROVE TimesOrdered'
  BY <1>15, RunJob DEF CloseDuplicatePlay, Live
<1>16. ASSUME NEW r \in Runs, MatchAccount(r) PROVE TimesOrdered'
  BY <1>16, RunJob DEF MatchAccount, Live
<1>17. ASSUME NEW r \in Runs, Qualify(r) PROVE TimesOrdered'
  BY <1>17, RunJob DEF Qualify, Live
<1>18. ASSUME NEW r \in Runs, MarkNurture(r) PROVE TimesOrdered'
  BY <1>18, RunJob DEF MarkNurture, Live
<1>19. ASSUME NEW r \in Runs, RequestHumanReview(r) PROVE TimesOrdered'
  BY <1>19, RunJob DEF RequestHumanReview, Live
<1>20. ASSUME NEW r \in Runs, AssignOwner(r) PROVE TimesOrdered'
  BY <1>20, RunJob DEF AssignOwner, Live
<1>21. ASSUME NEW r \in Runs, Enroll(r) PROVE TimesOrdered'
  BY <1>21, RunJob DEF Enroll, Live
<1>22. ASSUME NEW r \in Runs, NoSepConnector(r) PROVE TimesOrdered'
  BY <1>22, RunJob DEF NoSepConnector, JobFails, Live
<1>23. ASSUME NEW r \in Runs, RecordFirstTouch(r) PROVE TimesOrdered'
  BY <1>23, RunJob DEF RecordFirstTouch, Live
<1>24. ASSUME NEW r \in Runs, MoveLeadInSequence(r) PROVE TimesOrdered'
  BY <1>24, RunJob DEF MoveLeadInSequence, Live
<1>25. ASSUME NEW r \in Runs, Complete(r) PROVE TimesOrdered'
  BY <1>25, RunJob DEF Complete, Return, Live
<1>26. ASSUME NEW p \in Runs, OutcomeUpdate(p) PROVE TimesOrdered'
  BY <1>26, RunJob DEF OutcomeUpdate, Live
<1>27. CASE NextDay
  BY <1>27 DEF NextDay, Live
<1>28. CASE UNCHANGED vars
  BY <1>28 DEF vars, Live
<1>. QED BY <1>1, <1>2, <1>3, <1>4, <1>5, <1>6, <1>7, <1>8, <1>9, <1>10, <1>11, <1>12,
     <1>13, <1>14, <1>15, <1>16, <1>17, <1>18, <1>19, <1>20, <1>21, <1>22, <1>23,
     <1>24, <1>25, <1>26, <1>27, <1>28
     DEF Next, Step, Validate, Execute

\* When a run is admitted, every lead of its contact admitted before is at
\* least the re-enrollment window old.
LEMMA AdmissionRule ==
  ASSUME ~ ReadErrors, ContactInvariant,
         NEW r \in Runs, CheckDuplicate(r) \/ ReadLatestPlay(r), r \in admitted',
         NEW q \in admitted, Email(q) = Email(r)
  PROVE  createdAt[q] + Window <= now
<1>. USE InboundPlayAssumption
     DEF ContactInvariant, TypeOK, RowsFollowSteps, DedupSteps, Resting, At
<1>1. r \in leads /\ r \notin admitted /\ q \in leads /\ q # r /\ play[q] # "none"
  BY DEF CheckDuplicate, ReadLatestPlay
<1>2. ~ CheckDuplicate(r)
  BY <1>1 DEF CheckDuplicate, SameEmail, Admit, GoTo
<1>3. PICK p \in Latest(PlaysSeen(r)) : Reenrollable(p)
  BY <1>1, <1>2 DEF ReadLatestPlay
<1>4. /\ p \in leads /\ Email(p) = Email(r) /\ play[p] # "none"
      /\ updatedAt[q] <= updatedAt[p]
  <2>1. pc[r] = "latest" /\ q \in SameEmail(r)
    BY <1>1, <1>2 DEF ReadLatestPlay, SameEmail
  <2>2. q \in PlaysSeen(r) /\ seen[r] \subseteq SameEmail(r)
    BY <1>1, <2>1 DEF RivalsSeen, PlaysSeen
  <2>. QED
    BY <1>3, <2>2 DEF Latest, PlaysSeen, SameEmail
<1>5. /\ createdAt[q] \in Nat /\ createdAt[q] <= updatedAt[q] /\ updatedAt[q] \in Nat
      /\ createdAt[p] \in Nat /\ updatedAt[p] \in Nat
      /\ updatedAt[p] < createdAt[p] + Window /\ firstTouchAt[p] \in {Never, createdAt[p]}
  BY <1>1, <1>4 DEF TimesOrdered
<1>6. CASE firstTouchAt[p] = Never
  BY <1>3, <1>4, <1>5, <1>6 DEF Reenrollable, ReferenceDate
<1>7. CASE firstTouchAt[p] # Never
  <2>1. p \in admitted /\ now - createdAt[p] >= Window
    BY <1>3, <1>4, <1>5, <1>7 DEF Reenrollable, ReferenceDate
  <2>2. CASE p = q
    BY <1>5, <2>1, <2>2
  <2>3. CASE p # q
    BY <1>4, <1>5, <2>1, <2>3 DEF AdmissionsSpaced
  <2>. QED
    BY <2>2, <2>3
<1>. QED
  BY <1>6, <1>7

\* Admission is by CheckDuplicate or ReadLatestPlay only, and a play is stored
\* before its lead is admitted.
LEMMA SpacedStep ==
  ~ ReadErrors /\ ContactInvariant /\ [Next]_vars /\ TimesOrdered' => AdmissionsSpaced'
<1>. SUFFICES ASSUME ~ ReadErrors, ContactInvariant, [Next]_vars, TimesOrdered'
              PROVE AdmissionsSpaced'
  OBVIOUS
<1>. USE DEF ContactInvariant
<1>1. \A l \in leads : event'[l[1]] = event[l[1]]
  BY EmailKept
<1>2. admitted \subseteq leads
  BY DEF TypeOK, RowsFollowSteps
<1>3. ASSUME NEW r \in Runs, CheckDuplicate(r) \/ ReadLatestPlay(r)
      PROVE /\ admitted' \in {admitted, admitted \cup {r}}
            /\ UNCHANGED <<createdAt, event>>
            /\ r \in admitted' => createdAt[r] = now /\ r \in leads /\ createdAt[r] \in Nat
  <2>1. pc[r] \in {"check", "latest"} /\ play[r] # "none" /\ r \in leads
    BY <1>3 DEF CheckDuplicate, ReadLatestPlay, At, RowsFollowSteps, Resting
  <2>2. createdAt[r] = now /\ createdAt[r] \in Nat
    BY <2>1 DEF TimesOrdered, Live, Resting
  <2>. QED
    BY <1>3, <2>1, <2>2 DEF CheckDuplicate, ReadLatestPlay, Admit, playVars, jobVars
<1>4. ASSUME NEW r \in Runs, CheckDuplicate(r) \/ ReadLatestPlay(r) PROVE AdmissionsSpaced'
  <2>. SUFFICES ASSUME NEW p \in admitted', NEW q \in admitted', p # q, Email(p)' = Email(q)'
                PROVE \/ createdAt'[q] - createdAt'[p] >= Window
                      \/ createdAt'[p] - createdAt'[q] >= Window
    BY DEF AdmissionsSpaced
  <2>1. Email(p) = Email(q) /\ p \in admitted \cup {r} /\ q \in admitted \cup {r}
    BY <1>3, <1>4 DEF Email
  <2>2. CASE p \in admitted /\ q \in admitted
    BY <1>3, <1>4, <2>1, <2>2 DEF AdmissionsSpaced
  <2>3. ASSUME NEW k \in admitted, r \in admitted', Email(k) = Email(r)
        PROVE createdAt[k] + Window <= createdAt[r] /\ createdAt[k] \in Nat
    <3>1. createdAt[k] + Window <= now
      BY <1>4, <2>3, AdmissionRule
    <3>. QED
      BY <1>3, <1>4, <2>3, <3>1, <1>2 DEF TimesOrdered, RowsFollowSteps, TypeOK
  <2>4. CASE p = r /\ q \in admitted
    BY <1>3, <1>4, <2>1, <2>3, <2>4, InboundPlayAssumption
  <2>5. CASE q = r /\ p \in admitted
    BY <1>3, <1>4, <2>1, <2>3, <2>5, InboundPlayAssumption
  <2>. QED
    BY <2>1, <2>2, <2>4, <2>5
<1>5. ASSUME UNCHANGED admitted, \A l \in admitted : createdAt'[l] = createdAt[l]
      PROVE AdmissionsSpaced'
  BY <1>1, <1>2, <1>5 DEF AdmissionsSpaced, Email
<1>6. ASSUME NEW r \in Runs, InsertPlay(r) PROVE AdmissionsSpaced'
  BY <1>5, <1>6 DEF InsertPlay, TypeOK, RowsFollowSteps, At, leadVars, logVars
<1>7. ASSUME NEW r \in Runs, Step(r) \/ Fail(r)
      PROVE \/ CheckDuplicate(r) \/ ReadLatestPlay(r) \/ InsertPlay(r)
            \/ UNCHANGED <<admitted, createdAt>>
  BY <1>7 DEF Step, Validate, Execute, Fail, SkipContact, InsertLead, LogReceived,
     ReadRivals, MarkLeadDuplicate, CloseDuplicatePlay,
     MatchAccount, Qualify, MarkNurture, RequestHumanReview, AssignOwner, Enroll,
     NoSepConnector, RecordFirstTouch, MoveLeadInSequence, Complete, logVars, playVars
<1>8. ASSUME NEW e \in Events, NEW j \in Jobs, ReceiveWebhook(e, j)
      PROVE UNCHANGED <<admitted, createdAt>>
  BY <1>8 DEF ReceiveWebhook, logVars, playVars
<1>9. ASSUME NEW j \in Jobs, Enqueue(j) \/ Start(j) \/ Stall(j) \/ Crash(j)
      PROVE UNCHANGED <<admitted, createdAt>>
  BY <1>9 DEF Enqueue, Start, Stall, Crash, logVars, playVars
<1>10. (\E p \in Runs : OutcomeUpdate(p)) \/ NextDay \/ UNCHANGED vars
         => UNCHANGED <<admitted, createdAt>>
  BY DEF OutcomeUpdate, NextDay, vars, logVars, playVars
<1>. QED
  BY <1>4, <1>5, <1>6, <1>7, <1>8, <1>9, <1>10 DEF Next

\* While a run sits between its two queries, no rival it has not seen is admitted:
\* the rival would have to see the run's own, running play.
LEMMA RivalsStep == ~ ReadErrors /\ ContactInvariant /\ [Next]_vars => RivalsSeen'
<1>. SUFFICES ASSUME ~ ReadErrors, ContactInvariant, [Next]_vars PROVE RivalsSeen'
  OBVIOUS
<1>. USE DEF ContactInvariant
<1>1. \A l \in leads : event'[l[1]] = event[l[1]]
  BY EmailKept
<1>2. ASSUME UNCHANGED <<leads, admitted>>,
             \A r \in leads : pc'[r] = "latest" => pc[r] = "latest" /\ seen'[r] = seen[r]
      PROVE RivalsSeen'
  BY <1>1, <1>2 DEF RivalsSeen, SameEmail, Email
<1>3. ASSUME NEW x \in Runs, InsertLead(x) PROVE RivalsSeen'
  <2>1. /\ x \notin leads /\ x \notin admitted /\ pc' = [pc EXCEPT ![x] = "play"]
        /\ leads' = leads \cup {x} /\ UNCHANGED <<admitted, seen>>
    BY <1>3 DEF InsertLead, RowsFollowSteps, At, GoTo, logVars
  <2>. QED
    BY <1>1, <2>1 DEF RivalsSeen, SameEmail, Email, TypeOK
<1>4. ASSUME NEW x \in Runs, ReadRivals(x) PROVE RivalsSeen'
  <2>1. /\ x \in leads /\ x \notin admitted /\ pc' = [pc EXCEPT ![x] = "latest"]
        /\ seen' = [seen EXCEPT ![x] = SameEmail(x)] /\ UNCHANGED <<leads, admitted, event>>
    BY <1>4 DEF ReadRivals, RowsFollowSteps, Resting, DedupSteps, At, GoTo,
       leadVars, logVars, jobVars
  <2>2. \A r \in leads \ {x} : x \in SameEmail(r) => r \in SameEmail(x)
    BY <2>1 DEF SameEmail
  <2>3. \A r \in leads : SameEmail(r)' = SameEmail(r)
    BY <2>1 DEF SameEmail, Email
  <2>4. \A r \in leads : r # x => seen'[r] = seen[r] /\ pc'[r] = pc[r]
    BY <2>1 DEF TypeOK
  <2>5. seen'[x] = SameEmail(x)
    BY <2>1 DEF TypeOK
  <2>. QED
    BY <2>1, <2>2, <2>3, <2>4, <2>5 DEF RivalsSeen
<1>5. ASSUME NEW x \in Runs, CheckDuplicate(x) PROVE RivalsSeen'
  <2>1. /\ x \in leads /\ UNCHANGED <<leads, seen, event>>
        /\ \/ pc' = [pc EXCEPT ![x] = "match"] /\ admitted' = admitted \cup {x}
              /\ SameEmail(x) \subseteq isDuplicate
           \/ pc' = [pc EXCEPT ![x] = "rivals"] /\ admitted' = admitted
    BY <1>5 DEF CheckDuplicate, Admit, RowsFollowSteps, Resting, At, GoTo, leadVars, jobVars
  <2>2. \A r \in leads : pc[r] = "latest" => r \notin isDuplicate
    BY DEF RowsFollowSteps, TypeOK
  <2>3. \A r \in leads : pc'[r] = "latest" => pc[r] = "latest"
    BY <2>1 DEF TypeOK
  <2>4. \A r \in leads : SameEmail(r)' = SameEmail(r)
    BY <2>1 DEF SameEmail, Email
  <2>5. \A r \in leads : pc[r] = "latest" /\ x \in SameEmail(r) => admitted' = admitted
    BY <2>1, <2>2 DEF SameEmail
  <2>. QED
    BY <2>1, <2>3, <2>4, <2>5 DEF RivalsSeen, SameEmail
<1>6. ASSUME NEW x \in Runs, ReadLatestPlay(x) PROVE RivalsSeen'
  <2>1. /\ x \in leads /\ pc[x] = "latest" /\ UNCHANGED <<leads, event>>
        /\ pc'[x] # "latest" /\ admitted' \in {admitted, admitted \cup {x}}
        /\ \A r \in leads : r # x => seen'[r] = seen[r] /\ pc'[r] = pc[r]
    BY <1>6 DEF ReadLatestPlay, Admit, RowsFollowSteps, Resting, At, GoTo, leadVars, jobVars, TypeOK
  <2>2. \A r \in leads : SameEmail(r)' = SameEmail(r)
    BY <2>1 DEF SameEmail, Email
  <2>3. ASSUME NEW r \in leads, pc[r] = "latest", r # x, x \in SameEmail(r), x \in admitted'
        PROVE x \in seen[r]
    <3>1. x \notin admitted /\ r \in Runs
      BY <2>1 DEF RowsFollowSteps, DedupSteps, TypeOK
    <3>2. PICK p \in Latest(PlaysSeen(x)) : Reenrollable(p)
      BY <1>6, <2>3, <3>1 DEF ReadLatestPlay
    <3>3. play[r] # "none" /\ createdAt[r] = now /\ now <= updatedAt[r] /\ updatedAt[r] \in Nat
      BY <2>3, <3>1 DEF RowsFollowSteps, TimesOrdered, Live, Resting
    <3>4. p \in Runs /\ play[p] # "none"
      BY <2>1, <3>2 DEF Latest, PlaysSeen, TypeOK
    <3>5. /\ createdAt[p] \in Nat /\ updatedAt[p] \in Nat
          /\ updatedAt[p] < createdAt[p] + Window /\ firstTouchAt[p] \in {Never, createdAt[p]}
      BY <3>4 DEF TimesOrdered
    <3>6. updatedAt[p] < now
      BY <3>2, <3>5, InboundPlayAssumption DEF Reenrollable, ReferenceDate, TypeOK
    <3>7. r \notin seen[x]
      BY <3>2, <3>3, <3>5, <3>6 DEF Latest, PlaysSeen, TypeOK
    <3>. QED
      BY <2>1, <2>3, <3>7 DEF RivalsSeen
  <2>. QED
    BY <2>1, <2>2, <2>3 DEF RivalsSeen, SameEmail
<1>7. ASSUME NEW r \in Runs, Step(r) \/ Fail(r)
      PROVE \/ InsertLead(r) \/ ReadRivals(r) \/ CheckDuplicate(r) \/ ReadLatestPlay(r)
            \/ /\ UNCHANGED <<leads, admitted>>
               /\ \/ UNCHANGED seen
                  \/ seen' = [seen EXCEPT ![r] = {}] /\ pc' = [pc EXCEPT ![r] = "dead"]
               /\ \E s \in Steps \ {"latest"} : pc' = [pc EXCEPT ![r] = s]
  BY <1>7 DEF Step, Validate, Execute, Fail, SkipContact, InsertPlay, LogReceived,
     MarkLeadDuplicate, CloseDuplicatePlay, MatchAccount, Qualify, MarkNurture,
     RequestHumanReview, AssignOwner, Enroll, NoSepConnector, RecordFirstTouch,
     MoveLeadInSequence, Complete, Return, GoTo, logVars, leadVars,
     Steps, Resting, DedupSteps, PlaySteps
<1>8. ASSUME NEW r \in Runs, Step(r) \/ Fail(r) PROVE RivalsSeen'
  BY <1>2, <1>3, <1>4, <1>5, <1>6, <1>7, <1>8 DEF TypeOK
<1>9. ASSUME NEW e \in Events, NEW j \in Jobs, ReceiveWebhook(e, j) PROVE RivalsSeen'
  BY <1>2, <1>9 DEF ReceiveWebhook, logVars, leadVars
<1>10. ASSUME NEW j \in Jobs, Enqueue(j) \/ Start(j) \/ Stall(j) \/ Crash(j) PROVE RivalsSeen'
  BY <1>2, <1>10 DEF Enqueue, Start, Stall, Crash, GoTo, logVars, leadVars, TypeOK
<1>11. (\E p \in Runs : OutcomeUpdate(p)) \/ NextDay \/ UNCHANGED vars => RivalsSeen'
  BY <1>2 DEF OutcomeUpdate, NextDay, vars, logVars, leadVars
<1>. QED
  BY <1>8, <1>9, <1>10, <1>11 DEF Next
-----------------------------------------------------------------------------
(* Theorems *)

\* The invariant holds before the first webhook.
LEMMA InvariantInit == Init => ContactInvariant
  BY InboundPlayAssumption
     DEF Init, ContactInvariant, TypeOK, JobsHaveEvents, RowsFollowSteps, TimesOrdered,
         AdmissionsSpaced, RivalsSeen, JobStates, Steps, Resting, DedupSteps, PlaySteps,
         Stages, Statuses, Never

\* Every variable keeps its type: no interleaving writes a status, a stage or a
\* timestamp the schema does not know.
THEOREM TypeCorrect == Spec => []TypeOK
<1>. DEFINE Inv == TypeOK /\ JobsHaveEvents /\ RowsFollowSteps
<1>1. Init => Inv
  BY InvariantInit DEF ContactInvariant
<1>2. Inv /\ [Next]_vars => Inv'
  BY TypeStep, JobsStep, RowsStep
<1>. QED
  BY <1>1, <1>2, PTL DEF Spec

\* The inductive invariant holds when the deduplication reads succeed and the
\* outcome jobs leave a play alone once it is older than the window.
THEOREM InvariantHolds ==
  ASSUME ~ ReadErrors, ~ LongAttribution PROVE Spec => []ContactInvariant
<1>1. ContactInvariant /\ [Next]_vars => ContactInvariant'
  BY TypeStep, JobsStep, RowsStep, TimesStep, SpacedStep, RivalsStep DEF ContactInvariant
<1>. QED
  BY <1>1, InvariantInit, PTL DEF Spec

\* Contacts happen on the day of admission, so admissions a window apart suffice.
LEMMA InvariantImpliesNoRepeat == ContactInvariant => NoRepeatContact
<1>. SUFFICES ASSUME ContactInvariant, NEW p \in Runs, NEW q \in Runs, p # q,
                     enrolledAt[p] # Never, enrolledAt[q] # Never, Email(p) = Email(q)
              PROVE \/ enrolledAt[q] - enrolledAt[p] >= Window
                    \/ enrolledAt[p] - enrolledAt[q] >= Window
  BY DEF NoRepeatContact
<1>1. p \in admitted /\ q \in admitted
  BY DEF ContactInvariant, RowsFollowSteps
<1>2. enrolledAt[p] = createdAt[p] /\ enrolledAt[q] = createdAt[q]
  BY <1>1 DEF ContactInvariant, RowsFollowSteps, TimesOrdered
<1>. QED
  BY <1>1, <1>2 DEF ContactInvariant, AdmissionsSpaced

\* Two contacts of one person are a re-enrollment window apart, for every number
\* of jobs, attempts and stalls and every interleaving of their runs.
THEOREM NoRepeatContactHolds ==
  ASSUME ~ ReadErrors, ~ LongAttribution PROVE Spec => []NoRepeatContact
  BY InvariantHolds, InvariantImpliesNoRepeat, PTL

\* Every step keeps the play of a run in view.
LEMMA ViewStep == TypeOK /\ RowsFollowSteps /\ PlayInView /\ [Next]_vars => PlayInView'
<1>. SUFFICES ASSUME TypeOK, RowsFollowSteps, PlayInView, [Next]_vars PROVE PlayInView'
  OBVIOUS
<1>. USE DEF TypeOK, RowsFollowSteps, PlayInView, Live, Watched, Ended, Unrouted,
         Resting, DedupSteps, PlaySteps, Never,
         jobVars, leadVars, playVars, logVars, extVars, GoTo, At
<1>1. ASSUME NEW e \in Events, NEW j \in Jobs, ReceiveWebhook(e, j) PROVE PlayInView'
  BY <1>1, RunJob DEF ReceiveWebhook
<1>2. ASSUME NEW j \in Jobs, Enqueue(j) PROVE PlayInView'
  BY <1>2, RunJob DEF Enqueue
<1>3. ASSUME NEW j \in Jobs, Start(j) PROVE PlayInView'
  BY <1>3, RunJob DEF Start
<1>4. ASSUME NEW j \in Jobs, Stall(j) PROVE PlayInView'
  BY <1>4, RunJob DEF Stall, JobStalls
<1>5. ASSUME NEW j \in Jobs, Crash(j) PROVE PlayInView'
  BY <1>5, RunJob DEF Crash, JobStalls
<1>6. ASSUME NEW r \in Runs, Fail(r) PROVE PlayInView'
  BY <1>6, RunJob DEF Fail, JobFails
<1>7. ASSUME NEW r \in Runs, SkipContact(r) PROVE PlayInView'
  BY <1>7, RunJob DEF SkipContact, Return
<1>8. ASSUME NEW r \in Runs, InsertLead(r) PROVE PlayInView'
  BY <1>8, RunJob DEF InsertLead
<1>9. ASSUME NEW r \in Runs, InsertPlay(r) PROVE PlayInView'
  BY <1>9, RunJob DEF InsertPlay
<1>10. ASSUME NEW r \in Runs, LogReceived(r) PROVE PlayInView'
  BY <1>10, RunJob DEF LogReceived
<1>11. ASSUME NEW r \in Runs, CheckDuplicate(r) PROVE PlayInView'
  BY <1>11, RunJob DEF CheckDuplicate, Admit
<1>12. ASSUME NEW r \in Runs, ReadRivals(r) PROVE PlayInView'
  BY <1>12, RunJob DEF ReadRivals, SameEmail
<1>13. ASSUME NEW r \in Runs, ReadLatestPlay(r) PROVE PlayInView'
  BY <1>13, RunJob DEF ReadLatestPlay, Admit
<1>14. ASSUME NEW r \in Runs, MarkLeadDuplicate(r) PROVE PlayInView'
  BY <1>14, RunJob DEF MarkLeadDuplicate
<1>15. ASSUME NEW r \in Runs, CloseDuplicatePlay(r) PROVE PlayInView'
  BY <1>15, RunJob DEF CloseDuplicatePlay
<1>16. ASSUME NEW r \in Runs, MatchAccount(r) PROVE PlayInView'
  BY <1>16, RunJob DEF MatchAccount
<1>17. ASSUME NEW r \in Runs, Qualify(r) PROVE PlayInView'
  BY <1>17, RunJob DEF Qualify
<1>18. ASSUME NEW r \in Runs, MarkNurture(r) PROVE PlayInView'
  BY <1>18, RunJob DEF MarkNurture
<1>19. ASSUME NEW r \in Runs, RequestHumanReview(r) PROVE PlayInView'
  BY <1>19, RunJob DEF RequestHumanReview
<1>20. ASSUME NEW r \in Runs, AssignOwner(r) PROVE PlayInView'
  BY <1>20, RunJob DEF AssignOwner
<1>21. ASSUME NEW r \in Runs, Enroll(r) PROVE PlayInView'
  BY <1>21, RunJob DEF Enroll
<1>22. ASSUME NEW r \in Runs, NoSepConnector(r) PROVE PlayInView'
  BY <1>22, RunJob DEF NoSepConnector, JobFails
<1>23. ASSUME NEW r \in Runs, RecordFirstTouch(r) PROVE PlayInView'
  BY <1>23, RunJob DEF RecordFirstTouch
<1>24. ASSUME NEW r \in Runs, MoveLeadInSequence(r) PROVE PlayInView'
  BY <1>24, RunJob DEF MoveLeadInSequence
<1>25. ASSUME NEW r \in Runs, Complete(r) PROVE PlayInView'
  BY <1>25, RunJob DEF Complete, Return
<1>26. ASSUME NEW p \in Runs, OutcomeUpdate(p) PROVE PlayInView'
  BY <1>26, RunJob DEF OutcomeUpdate
<1>27. CASE NextDay
  BY <1>27 DEF NextDay
<1>28. CASE UNCHANGED vars
  BY <1>28 DEF vars
<1>. QED BY <1>1, <1>2, <1>3, <1>4, <1>5, <1>6, <1>7, <1>8, <1>9, <1>10, <1>11, <1>12,
     <1>13, <1>14, <1>15, <1>16, <1>17, <1>18, <1>19, <1>20, <1>21, <1>22, <1>23,
     <1>24, <1>25, <1>26, <1>27, <1>28
     DEF Next, Step, Validate, Execute

\* Every state keeps the plays in view, whatever the deduplication reads return.
LEMMA ViewHolds == Spec => [](TypeOK /\ RowsFollowSteps /\ PlayInView)
<1>. DEFINE Inv == TypeOK /\ JobsHaveEvents /\ RowsFollowSteps /\ PlayInView
<1>1. Init => Inv
  <2>1. Init => PlayInView
    BY DEF Init, PlayInView, Live, Watched, Ended, Unrouted, Resting, DedupSteps, Never
  <2>. QED BY <2>1, InvariantInit DEF ContactInvariant
<1>2. Inv /\ [Next]_vars => Inv'
  BY TypeStep, JobsStep, RowsStep, ViewStep
<1>. QED
  BY <1>1, <1>2, PTL DEF Spec

\* No lead silently leaves the queue, whatever fails and whatever the
\* deduplication reads return: of a run that is over the play is watched,
\* parked, rejected or contacted.
THEOREM NoSilentDisappearanceHolds == Spec => []NoSilentDisappearance
<1>1. TypeOK /\ PlayInView => NoSilentDisappearance
  BY DEF TypeOK, PlayInView, NoSilentDisappearance
<1>. QED
  BY <1>1, ViewHolds, PTL

\* A step that writes neither status nor first touch of a play, and revives no
\* run that has inserted one, at most ends its run.
LEMMA QuietRow ==
  ASSUME NEW r \in Runs, play'[r] = play[r], firstTouchAt'[r] = firstTouchAt[r],
         play[r] # "none" /\ Live(r)' => Live(r)
  PROVE  [Row(r)!RowNext]_(Row(r)!playRow)
BY DEF Row!RowNext, Row!RunEnds, Row!playRow

\* The steps of a run that write its play, and what they find there.
WritesPlay(r) ==
  \/ InsertPlay(r) \/ CloseDuplicatePlay(r) \/ MarkNurture(r)
  \/ RequestHumanReview(r) \/ AssignOwner(r) \/ RecordFirstTouch(r)

LEMMA PlayWrites ==
  ASSUME TypeOK, RowsFollowSteps, PlayInView, NEW r \in Runs, WritesPlay(r)
  PROVE  [Row(r)!RowNext]_(Row(r)!playRow)
<1>. USE DEF TypeOK, RowsFollowSteps, PlayInView, At, GoTo, Live, Watched, Steps, Resting,
         DedupSteps, PlaySteps, Unrouted, Row!RowNext, Row!playRow, Row!Watched
<1>1. CASE InsertPlay(r)
  BY <1>1 DEF InsertPlay, Row!Insert
<1>2. CASE CloseDuplicatePlay(r)
  BY <1>2 DEF CloseDuplicatePlay, Row!Park
<1>3. CASE MarkNurture(r)
  BY <1>3 DEF MarkNurture, Row!Park
<1>4. CASE RequestHumanReview(r)
  BY <1>4 DEF RequestHumanReview, Row!Park
<1>5. CASE AssignOwner(r)
  BY <1>5 DEF AssignOwner
<1>6. CASE RecordFirstTouch(r)
  BY <1>6 DEF RecordFirstTouch, Row!Touch, Never
<1>. QED
  BY <1>1, <1>2, <1>3, <1>4, <1>5, <1>6 DEF WritesPlay

\* Every step is, for the play of every run, a step of its row.
LEMMA StepIsRowStep ==
  TypeOK /\ RowsFollowSteps /\ PlayInView /\ [Next]_vars =>
    \A r \in Runs : [Row(r)!RowNext]_(Row(r)!playRow)
<1>. SUFFICES ASSUME TypeOK, RowsFollowSteps, PlayInView, [Next]_vars, NEW r \in Runs
              PROVE [Row(r)!RowNext]_(Row(r)!playRow)
  OBVIOUS
<1>. USE DEF TypeOK, Live, GoTo, At, jobVars, leadVars, playVars, logVars, extVars
<1>1. ASSUME NEW q \in Runs, WritesPlay(q) PROVE [Row(r)!RowNext]_(Row(r)!playRow)
  <2>1. CASE q = r
    BY <1>1, <2>1, PlayWrites
  <2>2. CASE q # r
    <3>1. play'[r] = play[r] /\ firstTouchAt'[r] = firstTouchAt[r] /\ pc'[r] = pc[r]
      BY <1>1, <2>2 DEF WritesPlay, InsertPlay, CloseDuplicatePlay, MarkNurture,
         RequestHumanReview, AssignOwner, RecordFirstTouch
    <3>. QED
      BY <3>1, QuietRow
  <2>. QED
    BY <2>1, <2>2
<1>2. ASSUME NEW q \in Runs, Step(q) \/ Fail(q), ~ WritesPlay(q)
      PROVE [Row(r)!RowNext]_(Row(r)!playRow)
  <2>1. UNCHANGED <<play, firstTouchAt>>
    BY <1>2 DEF Step, Validate, Execute, WritesPlay, Fail, SkipContact, InsertLead, LogReceived,
       CheckDuplicate, ReadRivals, ReadLatestPlay, MarkLeadDuplicate, MatchAccount, Qualify,
       Enroll, NoSepConnector, MoveLeadInSequence, Complete
  <2>2. Live(q) /\ \E s : pc' = [pc EXCEPT ![q] = s]
    BY <1>2 DEF Step, Validate, Execute, WritesPlay, Fail, SkipContact, InsertLead, LogReceived,
       CheckDuplicate, ReadRivals, ReadLatestPlay, MarkLeadDuplicate, MatchAccount, Qualify,
       Enroll, NoSepConnector, MoveLeadInSequence, Complete, Admit, Return, Resting
  <2>. QED
    BY <2>1, <2>2, QuietRow
<1>3. ASSUME NEW j \in Jobs, Start(j) PROVE [Row(r)!RowNext]_(Row(r)!playRow)
  <2>1. UNCHANGED <<play, firstTouchAt>> /\ pc' = [pc EXCEPT ![<<j, runs[j] + 1>>] = "lead"]
    BY <1>3 DEF Start
  <2>2. r = <<j, runs[j] + 1>> => play[r] = "none"
    BY RunJob DEF RowsFollowSteps
  <2>. QED
    BY <2>1, <2>2, QuietRow
<1>4. ASSUME NEW j \in Jobs, Crash(j) PROVE [Row(r)!RowNext]_(Row(r)!playRow)
  <2>1. UNCHANGED <<play, firstTouchAt>> /\ pc' = [pc EXCEPT ![<<j, runs[j]>>] = "dead"]
    BY <1>4 DEF Crash
  <2>. QED
    BY <2>1, QuietRow DEF Resting
<1>5. CASE UNCHANGED <<play, firstTouchAt, pc>>
  BY <1>5, QuietRow
<1>. QED
  BY <1>1, <1>2, <1>3, <1>4, <1>5
     DEF Next, ReceiveWebhook, Enqueue, Stall, OutcomeUpdate, NextDay, vars

\* The play of every run is a PlayRow, the row that SlaEscalation watches: it
\* leaves "running" once, in a step of its own run and for good, with its first
\* touch if it was completed by one.
THEOREM PlayImplementsRow == Spec => ImplementsRow
<1>1. Init => \A r \in Runs : Row(r)!RowInit
  BY DEF Init, Row!RowInit, Live, Resting
<1>. QED
  BY <1>1, ViewHolds, StepIsRowStep, PTL DEF Spec, ImplementsRow

\* The same for one run, as its own specification.
THEOREM EveryPlayIsARow == ASSUME NEW r \in Runs PROVE Spec => Row(r)!RowSpec
<1>1. Init => Row(r)!RowInit
  BY DEF Init, Row!RowInit, Live, Resting
<1>2. TypeOK /\ RowsFollowSteps /\ PlayInView /\ [Next]_vars => [Row(r)!RowNext]_(Row(r)!playRow)
  BY StepIsRowStep
<1>. QED
  BY <1>1, <1>2, ViewHolds, PTL DEF Spec, Row!RowSpec

\* What is stored stays: leads and plays are only ever added, an event id is
\* recorded by a run that has stored both.
LEMMA PlaysStay ==
  TypeOK /\ RowsFollowSteps /\ [Next]_vars =>
    /\ leads \subseteq leads'
    /\ \A r \in Runs : play[r] # "none" => play'[r] # "none"
    /\ \A e \in keys' \ keys : \E r \in leads : event[r[1]] = e /\ play[r] # "none"
<1>. SUFFICES ASSUME TypeOK, RowsFollowSteps, [Next]_vars
     PROVE  /\ leads \subseteq leads'
            /\ \A r \in Runs : play[r] # "none" => play'[r] # "none"
            /\ \A e \in keys' \ keys : \E r \in leads : event[r[1]] = e /\ play[r] # "none"
  OBVIOUS
<1>. USE DEF jobVars, leadVars, playVars, logVars, extVars
<1>1. ASSUME NEW r \in Runs, LogReceived(r)
      PROVE  /\ UNCHANGED <<leadVars, playVars>>
             /\ keys' = keys \cup {event[r[1]]}
             /\ r \in leads /\ play[r] # "none"
  BY <1>1 DEF LogReceived, RowsFollowSteps, At, Resting
<1>2. ASSUME NEW r \in Runs, Step(r) \/ Fail(r), ~ LogReceived(r)
      PROVE  leads \subseteq leads' /\ UNCHANGED keys
  BY <1>2 DEF Step, Validate, Execute, Fail, SkipContact, InsertLead, InsertPlay,
     CheckDuplicate, ReadRivals, ReadLatestPlay, MarkLeadDuplicate, CloseDuplicatePlay,
     MatchAccount, Qualify, MarkNurture, RequestHumanReview, AssignOwner, Enroll,
     NoSepConnector, RecordFirstTouch, MoveLeadInSequence, Complete, Admit
<1>3. ASSUME NEW r \in Runs, Step(r) \/ Fail(r), ~ LogReceived(r)
      PROVE  \A q \in Runs : play[q] # "none" => play'[q] # "none"
  <2>1. \/ UNCHANGED play
        \/ \E s \in Statuses \ {"none"} : play' = [play EXCEPT ![r] = s]
    BY <1>3 DEF Step, Validate, Execute, Fail, SkipContact, InsertLead, InsertPlay, Statuses,
       CheckDuplicate, ReadRivals, ReadLatestPlay, MarkLeadDuplicate, CloseDuplicatePlay,
       MatchAccount, Qualify, MarkNurture, RequestHumanReview, AssignOwner, Enroll,
       NoSepConnector, RecordFirstTouch, MoveLeadInSequence, Complete
  <2>. QED BY <2>1 DEF TypeOK
<1>4. \/ \E e \in Events, j \in Jobs : ReceiveWebhook(e, j)
      \/ \E j \in Jobs : Enqueue(j) \/ Start(j) \/ Stall(j) \/ Crash(j)
      \/ \E r \in Runs : OutcomeUpdate(r)
      \/ NextDay \/ UNCHANGED vars
      => UNCHANGED <<leads, play, keys>>
  BY DEF ReceiveWebhook, Enqueue, Start, Stall, Crash, OutcomeUpdate, NextDay, vars
<1>. QED
  BY <1>1, <1>2, <1>3, <1>4 DEF Next

\* An event answered with "duplicate" has a stored lead and play, with any
\* number of deliveries and whatever reads fail.
THEOREM DuplicateDeliveryHasPlayHolds == Spec => []DuplicateDeliveryHasPlay
<1>. DEFINE Inv == TypeOK /\ JobsHaveEvents /\ RowsFollowSteps
            Goal == DuplicateDeliveryHasPlay
<1>1. Init => Inv /\ Goal
  BY InvariantInit DEF ContactInvariant, Init, DuplicateDeliveryHasPlay
<1>2. Inv /\ [Next]_vars => Inv'
  BY TypeStep, JobsStep, RowsStep
<1>3. Inv /\ Goal /\ [Next]_vars => Goal'
  <2>. SUFFICES ASSUME Inv, Goal, [Next]_vars, NEW e \in keys'
                PROVE \E r \in leads' : event'[r[1]] = e /\ play'[r] # "none"
    BY DEF DuplicateDeliveryHasPlay
  <2>1. PICK r \in leads : event[r[1]] = e /\ play[r] # "none"
    BY PlaysStay DEF DuplicateDeliveryHasPlay
  <2>. QED
    BY <2>1, PlaysStay, EmailKept DEF TypeOK
<1>. QED
  BY <1>1, <1>2, <1>3, PTL DEF Spec

\* Every step of the play is a step of the policy or changes nothing it sees.
LEMMA StepIsPolicyStep ==
  ~ ReadErrors /\ ContactInvariant /\ ContactInvariant' /\ [Next]_vars => [Policy!Next]_(Policy!vars)
<1>. SUFFICES ASSUME ~ ReadErrors, ContactInvariant, ContactInvariant', [Next]_vars
              PROVE Policy!Next \/ UNCHANGED Policy!vars
  OBVIOUS
<1>. DEFINE address    == [r \in Runs |-> IF r \in leads THEN Email(r) ELSE NoEmail]
            admittedAt == [r \in Runs |-> IF r \in admitted THEN createdAt[r] ELSE Never]
<1>. USE DEF ContactInvariant
<1>1. \A l \in leads : event'[l[1]] = event[l[1]]
  BY EmailKept
<1>2. ASSUME UNCHANGED leads PROVE address' = address
  BY <1>1, <1>2 DEF Email
<1>3. ASSUME UNCHANGED admitted, \A l \in admitted : createdAt'[l] = createdAt[l]
      PROVE admittedAt' = admittedAt
  BY <1>3
<1>4. \A l \in leads : Email(l) \in Emails /\ Email(l) # NoEmail
  BY RunJob, InboundPlayAssumption DEF Email, JobsHaveEvents, RowsFollowSteps, TypeOK
<1>5. ASSUME UNCHANGED <<leads, admitted, createdAt, isDuplicate, enrolledAt, now>>
      PROVE UNCHANGED Policy!vars
  BY <1>2, <1>3, <1>5 DEF Policy!vars
<1>6. ASSUME NEW r \in Runs, InsertLead(r) PROVE \E e \in Emails : Policy!Submit(r, e)
  <2>1. /\ r \notin leads /\ leads' = leads \cup {r}
        /\ UNCHANGED <<admitted, createdAt, isDuplicate, enrolledAt, now, event>>
    BY <1>6 DEF InsertLead, RowsFollowSteps, At, logVars, playVars, extVars, jobVars
  <2>2. PICK e \in Emails : e = Email(r)
    BY <2>1, RunJob, InboundPlayAssumption DEF Email, JobsHaveEvents, RowsFollowSteps, TypeOK
  <2>3. address' = [address EXCEPT ![r] = e]
    BY <1>1, <2>1, <2>2 DEF Email
  <2>. QED
    BY <1>3, <2>1, <2>3 DEF Policy!Submit
<1>7. ASSUME NEW r \in Runs, InsertLead(r) PROVE Policy!Next
  BY <1>6, <1>7 DEF Policy!Next
<1>8. ASSUME NEW r \in Runs, InsertPlay(r) PROVE UNCHANGED Policy!vars
  <2>1. /\ r \notin admitted /\ \A l \in admitted : createdAt'[l] = createdAt[l]
        /\ UNCHANGED <<leads, admitted, isDuplicate, enrolledAt, now>>
    BY <1>8 DEF InsertPlay, RowsFollowSteps, TypeOK, At, leadVars, logVars, extVars
  <2>. QED
    BY <1>2, <1>3, <2>1 DEF Policy!vars
<1>9. ASSUME NEW r \in Runs, CheckDuplicate(r) \/ ReadLatestPlay(r)
      PROVE Policy!Admit(r) \/ UNCHANGED Policy!vars
  <2>1. /\ r \in leads /\ r \notin admitted /\ r \notin isDuplicate
        /\ createdAt[r] = now /\ now \in Nat
        /\ admitted' \in {admitted, admitted \cup {r}}
        /\ UNCHANGED <<leads, createdAt, isDuplicate, enrolledAt, now>>
    BY <1>9 DEF CheckDuplicate, ReadLatestPlay, Admit, RowsFollowSteps, TimesOrdered, TypeOK,
       At, Live, Resting, DedupSteps, leadVars, playVars, extVars
  <2>2. CASE admitted' = admitted
    BY <1>5, <2>1, <2>2
  <2>3. CASE admitted' = admitted \cup {r}
    <3>1. admittedAt' = [admittedAt EXCEPT ![r] = now]
      BY <2>1, <2>3
    <3>2. ASSUME NEW k \in Runs \ {r}, address[k] = address[r], admittedAt[k] # Never
          PROVE now - admittedAt[k] >= Window
      <4>1. k \in admitted /\ k \in leads /\ Email(k) = Email(r) /\ createdAt[k] \in Nat
        BY <1>4, <2>1, <3>2 DEF RowsFollowSteps, TimesOrdered
      <4>2. createdAt[k] + Window <= now
        BY <1>9, <2>3, <4>1, AdmissionRule
      <4>. QED
        BY <2>1, <4>1, <4>2, InboundPlayAssumption
    <3>3. address[r] # NoEmail /\ admittedAt[r] = Never
      BY <1>4, <2>1
    <3>. QED
      BY <1>2, <2>1, <3>1, <3>2, <3>3
         DEF Policy!Admit, Policy!Settled, Policy!SameAddress, Policy!NotYet, Never
  <2>. QED
    BY <2>1, <2>2, <2>3
<1>10. ASSUME NEW r \in Runs, MarkLeadDuplicate(r) PROVE Policy!Reject(r)
  <2>1. /\ r \in leads /\ r \notin admitted /\ r \notin isDuplicate
        /\ isDuplicate' = isDuplicate \cup {r}
        /\ UNCHANGED <<leads, admitted, createdAt, enrolledAt, now>>
    BY <1>10 DEF MarkLeadDuplicate, RowsFollowSteps, At, Resting, DedupSteps,
       playVars, logVars, extVars
  <2>. QED
    BY <1>2, <1>3, <1>4, <2>1 DEF Policy!Reject, Policy!Settled, Policy!NotYet, Never
<1>11. ASSUME NEW r \in Runs, Enroll(r) PROVE Policy!Contact(r) \/ UNCHANGED Policy!vars
  <2>1. /\ r \in admitted /\ createdAt[r] = now /\ enrolledAt[r] \in {Never, now}
        /\ enrolledAt' = [enrolledAt EXCEPT ![r] = now]
        /\ UNCHANGED <<leads, admitted, createdAt, isDuplicate, now>>
    BY <1>11 DEF Enroll, RowsFollowSteps, TimesOrdered, At, Live, Resting, PlaySteps,
       playVars, logVars, leadVars
  <2>2. CASE enrolledAt[r] = now
    BY <1>5, <2>1, <2>2 DEF TypeOK
  <2>3. CASE enrolledAt[r] = Never
    BY <1>2, <1>3, <2>1, <2>3 DEF Policy!Contact, Policy!NotYet, Never
  <2>. QED
    BY <2>1, <2>2, <2>3
<1>12. ASSUME NEW r \in Runs, Step(r) \/ Fail(r) PROVE Policy!Next \/ UNCHANGED Policy!vars
  <2>1. \/ InsertLead(r) \/ InsertPlay(r) \/ CheckDuplicate(r) \/ ReadLatestPlay(r)
        \/ MarkLeadDuplicate(r) \/ Enroll(r)
        \/ UNCHANGED <<leads, admitted, createdAt, isDuplicate, enrolledAt, now>>
    BY <1>12 DEF Step, Validate, Execute, Fail, SkipContact, LogReceived, ReadRivals,
       CloseDuplicatePlay, MatchAccount, Qualify, MarkNurture, RequestHumanReview, AssignOwner,
       NoSepConnector, RecordFirstTouch, MoveLeadInSequence, Complete,
       logVars, leadVars, playVars, extVars
  <2>. QED
    BY <1>5, <1>7, <1>8, <1>9, <1>10, <1>11, <2>1 DEF Policy!Next
<1>13. ASSUME NEW e \in Events, NEW j \in Jobs, ReceiveWebhook(e, j) PROVE UNCHANGED Policy!vars
  BY <1>5, <1>13 DEF ReceiveWebhook, logVars, leadVars, playVars, extVars
<1>14. ASSUME NEW j \in Jobs, Enqueue(j) \/ Start(j) \/ Stall(j) \/ Crash(j)
       PROVE UNCHANGED Policy!vars
  BY <1>5, <1>14 DEF Enqueue, Start, Stall, Crash, logVars, leadVars, playVars, extVars
<1>15. ASSUME NEW p \in Runs, OutcomeUpdate(p) PROVE UNCHANGED Policy!vars
  BY <1>5, <1>15 DEF OutcomeUpdate, logVars, leadVars, extVars
<1>16. CASE NextDay
  <2>1. UNCHANGED <<leads, admitted, createdAt, isDuplicate, enrolledAt>> /\ now' = now + 1
    BY <1>16 DEF NextDay, logVars, leadVars, playVars, extVars
  <2>. QED
    BY <1>2, <1>3, <2>1 DEF Policy!Next, Policy!NextDay
<1>17. CASE UNCHANGED vars
  BY <1>5, <1>17 DEF vars, logVars, leadVars, playVars, extVars
<1>. QED
  BY <1>12, <1>13, <1>14, <1>15, <1>16, <1>17 DEF Next

\* The play implements the contact policy: jobs, redeliveries, retries, crashes
\* and overlapping runs never show in who is contacted and when.
THEOREM PlayImplementsPolicy ==
  ASSUME ~ ReadErrors, ~ LongAttribution PROVE Spec => ImplementsPolicy
<1>1. Init => Policy!Init
  BY DEF Init, Policy!Init, Policy!NotYet, Never
<1>. QED
  BY <1>1, InvariantHolds, StepIsPolicyStep, PTL DEF Spec, ImplementsPolicy, Policy!Spec

\* How the play's rows show the policy's addresses and admissions.
Address    == [r \in Runs |-> IF r \in leads THEN Email(r) ELSE NoEmail]
AdmittedAt == [r \in Runs |-> IF r \in admitted THEN createdAt[r] ELSE Never]

\* What the policy keeps: contacts happen on the day of admission, and admissions
\* of one address are spaced.
PolicyInvariant ==
  /\ Address \in [Runs -> Emails \cup {NoEmail}]
  /\ AdmittedAt \in [Runs -> Nat \cup {Never}]
  /\ enrolledAt \in [Runs -> Nat \cup {Never}]
  /\ now \in Nat
  /\ \A l \in Runs :
       /\ enrolledAt[l] \in {Never, AdmittedAt[l]}
       /\ AdmittedAt[l] <= now
       /\ AdmittedAt[l] # Never => Address[l] # NoEmail
  /\ \A k, l \in Runs :
       /\ k # l /\ Address[k] = Address[l]
       /\ AdmittedAt[k] # Never /\ AdmittedAt[l] # Never
       => AdmittedAt[k] - AdmittedAt[l] >= Window \/ AdmittedAt[l] - AdmittedAt[k] >= Window

\* The policy alone keeps two contacts of one address a window apart: whatever
\* implements it inherits this, as the play does.
THEOREM PolicySpacesContacts == Policy!Spec => []Policy!Spaced
<1>. USE InboundPlayAssumption DEF Never
<1>1. Policy!Init => PolicyInvariant
  <2>1. Policy!Init => /\ Address = [r \in Runs |-> NoEmail]
                       /\ AdmittedAt = [r \in Runs |-> Never]
                       /\ enrolledAt = [r \in Runs |-> Never] /\ now = 0
    BY DEF Policy!Init, Policy!NotYet, Address, AdmittedAt
  <2>. QED
    BY <2>1 DEF PolicyInvariant
<1>2. PolicyInvariant /\ [Policy!Next]_(Policy!vars) => PolicyInvariant'
  <2>. SUFFICES ASSUME PolicyInvariant, [Policy!Next]_(Policy!vars) PROVE PolicyInvariant'
    OBVIOUS
  <2>. USE DEF PolicyInvariant
  <2>1. ASSUME NEW l \in Runs, NEW e \in Emails, Policy!Submit(l, e) PROVE PolicyInvariant'
    <3>1. /\ Address[l] = NoEmail
          /\ Address' = [Address EXCEPT ![l] = e]
          /\ UNCHANGED <<AdmittedAt, enrolledAt, now>>
      BY <2>1 DEF Policy!Submit, Address, AdmittedAt
    <3>. QED
      BY <3>1
  <2>2. ASSUME NEW l \in Runs, Policy!Admit(l) PROVE PolicyInvariant'
    <3>1. /\ Address[l] # NoEmail /\ AdmittedAt[l] = Never
          /\ AdmittedAt' = [AdmittedAt EXCEPT ![l] = now]
          /\ UNCHANGED <<Address, enrolledAt, now>>
      BY <2>2 DEF Policy!Admit, Policy!Settled, Policy!NotYet, Address, AdmittedAt
    <3>2. \A k \in Runs \ {l} :
            Address[k] = Address[l] /\ AdmittedAt[k] # Never => now - AdmittedAt[k] >= Window
      BY <2>2 DEF Policy!Admit, Policy!SameAddress, Policy!NotYet, Address, AdmittedAt
    <3>. QED
      BY <3>1, <3>2
  <2>3. ASSUME NEW l \in Runs, Policy!Contact(l) PROVE PolicyInvariant'
    <3>1. /\ AdmittedAt[l] = now
          /\ enrolledAt' = [enrolledAt EXCEPT ![l] = now]
          /\ UNCHANGED <<Address, AdmittedAt, now>>
      BY <2>3 DEF Policy!Contact, Policy!NotYet, Address, AdmittedAt
    <3>. QED
      BY <3>1
  <2>4. ASSUME NEW l \in Runs, Policy!Reject(l) PROVE PolicyInvariant'
    <3>1. UNCHANGED <<Address, AdmittedAt, enrolledAt, now>>
      BY <2>4 DEF Policy!Reject, Address, AdmittedAt
    <3>. QED
      BY <3>1
  <2>5. CASE Policy!NextDay
    <3>1. now' = now + 1 /\ UNCHANGED <<Address, AdmittedAt, enrolledAt>>
      BY <2>5 DEF Policy!NextDay, Address, AdmittedAt
    <3>. QED
      BY <3>1
  <2>6. CASE UNCHANGED Policy!vars
    <3>1. UNCHANGED <<Address, AdmittedAt, enrolledAt, now>>
      BY <2>6 DEF Policy!vars, Address, AdmittedAt
    <3>. QED
      BY <3>1
  <2>. QED
    BY <2>1, <2>2, <2>3, <2>4, <2>5, <2>6 DEF Policy!Next
<1>3. PolicyInvariant => Policy!Spaced
  <2>. SUFFICES ASSUME PolicyInvariant, NEW k \in Runs, NEW l \in Runs, k # l,
                       Address[k] = Address[l], enrolledAt[k] # Never, enrolledAt[l] # Never
                PROVE  \/ enrolledAt[k] - enrolledAt[l] >= Window
                       \/ enrolledAt[l] - enrolledAt[k] >= Window
    BY DEF Policy!Spaced, Policy!NotYet, Address
  <2>. QED
    BY DEF PolicyInvariant
<1>. QED
  BY <1>1, <1>2, <1>3, PTL DEF Policy!Spec
=============================================================================
