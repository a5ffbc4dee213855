---------------------------- MODULE PlayJobsProofs ----------------------------
(* Theorems about the background jobs of a play: OutcomeDetection, and       *)
(* SlaEscalation, whose definitions bear a prefix where the two would clash. *)
EXTENDS OutcomeDetection, SlaEscalation, FiniteSetTheorems, TLAPS

-----------------------------------------------------------------------------
(* OutcomeDetection *)

\* Every variable keeps its type.
LEMMA TypeStep == TypeOK /\ SignalsClaimed /\ [Next]_vars => TypeOK'
<1>. SUFFICES ASSUME TypeOK, SignalsClaimed, [Next]_vars PROVE TypeOK'
  OBVIOUS
<1>. USE DEF TypeOK, rowVars, sigVars, logVars, envVars, scanVars, At, GoTo, Leave, Drop,
         PollerSteps, CloserSteps, Outcomes, Statuses, Open, Booked, NoMeeting
<1>1. ASSUME NEW p \in Pollers, Poll(p) \/ PollerAborts(p) PROVE TypeOK'
  <2>1. CASE SelectAwaiting(p)
    BY <2>1 DEF SelectAwaiting
  <2>2. CASE QueryMeetings(p)
    BY <2>2 DEF QueryMeetings
  <2>3. CASE RecordHints(p)
    BY <2>3 DEF RecordHints
  <2>4. CASE ReadFreshPlay(p)
    BY <2>4 DEF ReadFreshPlay
  <2>5. CASE CheckSignal(p)
    BY <2>5 DEF CheckSignal
  <2>6. CASE InsertSignal(p)
    BY <2>6 DEF InsertSignal, SignalsClaimed
  <2>7. CASE AnnounceMeeting(p)
    BY <2>7 DEF AnnounceMeeting, SignalsClaimed
  <2>8. CASE FlipToBooked(p)
    BY <2>8 DEF FlipToBooked
  <2>9. CASE CountMeeting(p)
    BY <2>9 DEF CountMeeting
  <2>10. CASE AnnounceLate(p)
    BY <2>10 DEF AnnounceLate, SignalsClaimed
  <2>11. CASE FlagLate(p)
    BY <2>11 DEF FlagLate
  <2>12. CASE PollerAborts(p)
    BY <2>12 DEF PollerAborts
  <2>. QED
    BY <1>1, <2>1, <2>2, <2>3, <2>4, <2>5, <2>6, <2>7, <2>8, <2>9, <2>10, <2>11, <2>12
       DEF Poll
<1>2. ASSUME NEW c \in Closers, Expire(c) \/ CloserAborts(c) PROVE TypeOK'
  BY <1>2 DEF Expire, SelectExpired, LogClosed, CloseOutcome, CloserAborts
<1>3. CASE PlayEnds
  BY <1>3 DEF PlayEnds
<1>4. ASSUME NEW m \in Meetings, BookMeeting(m) PROVE TypeOK'
  BY <1>4 DEF BookMeeting
<1>5. CASE WindowEnds
  BY <1>5 DEF WindowEnds
<1>6. CASE UNCHANGED vars
  BY <1>6 DEF vars
<1>. QED
  BY <1>1, <1>2, <1>3, <1>4, <1>5, <1>6 DEF Next

\* A poller's handling of one event keeps the claim on it; the others only read
\* and leave the event log alone.
LEMMA SignalsStep == TypeOK /\ SignalsClaimed /\ [Next]_vars => SignalsClaimed'
<1>. SUFFICES ASSUME TypeOK, SignalsClaimed, [Next]_vars PROVE SignalsClaimed'
  OBVIOUS
<1>. USE OutcomeAssumption
     DEF rowVars, sigVars, logVars, envVars, scanVars, At, GoTo, Leave, Drop
<1>1. ASSUME UNCHANGED <<signals, detected, late, current>>,
             \A q \in Pollers : pc'[q] \in {"insert", "decide", "flip", "flag"} => pc'[q] = pc[q]
      PROVE SignalsClaimed'
  BY <1>1 DEF SignalsClaimed
<1>2. ASSUME NEW p \in Pollers, Poll(p) \/ PollerAborts(p) PROVE SignalsClaimed'
  <2>1. CASE SelectAwaiting(p) \/ QueryMeetings(p) \/ RecordHints(p) \/ ReadFreshPlay(p)
             \/ FlipToBooked(p) \/ CountMeeting(p) \/ FlagLate(p)
    <3>1. UNCHANGED <<signals, detected, late, current>>
      BY <2>1 DEF SelectAwaiting, QueryMeetings, RecordHints, ReadFreshPlay,
         FlipToBooked, CountMeeting, FlagLate
    <3>2. \A q \in Pollers : pc'[q] \in {"insert", "decide", "flip", "flag"} => pc'[q] = pc[q]
      BY <2>1 DEF SelectAwaiting, QueryMeetings, RecordHints, ReadFreshPlay,
         FlipToBooked, CountMeeting, FlagLate, TypeOK
    <3>. QED
      BY <1>1, <3>1, <3>2
  <2>2. CASE CheckSignal(p)
    <3>1. CASE Leave(p)
      <4>1. UNCHANGED <<signals, detected, late>>
        BY <2>2 DEF CheckSignal
      <4>. QED
        BY <3>1, <4>1 DEF TypeOK, SignalsClaimed
    <3>2. CASE UNCHANGED <<pc, current>>
      BY <1>1, <2>2, <3>2 DEF CheckSignal
    <3>3. ASSUME NEW m \in batch[p], current' = [current EXCEPT ![p] = m],
                 pc' = [pc EXCEPT ![p] = "insert"]
          PROVE SignalsClaimed'
      <4>1. UNCHANGED <<signals, detected, late>> /\ m \in Meetings
        BY <2>2 DEF CheckSignal, TypeOK
      <4>. QED
        BY <3>3, <4>1 DEF TypeOK, SignalsClaimed
    <3>. QED
      BY <2>2, <3>1, <3>2, <3>3 DEF CheckSignal
  <2>3. CASE InsertSignal(p)
    BY <2>3 DEF InsertSignal, TypeOK, SignalsClaimed
  <2>4. CASE AnnounceMeeting(p)
    BY <2>4 DEF AnnounceMeeting, TypeOK, SignalsClaimed
  <2>5. CASE AnnounceLate(p)
    BY <2>5 DEF AnnounceLate, TypeOK, SignalsClaimed
  <2>6. CASE PollerAborts(p)
    BY <2>6 DEF PollerAborts, TypeOK, SignalsClaimed
  <2>. QED
    BY <1>2, <2>1, <2>2, <2>3, <2>4, <2>5, <2>6 DEF Poll
<1>3. ASSUME NEW c \in Closers, Expire(c) \/ CloserAborts(c) PROVE SignalsClaimed'
  <2>1. UNCHANGED <<signals, detected, late, current>> /\ \A q \in Pollers : pc'[q] = pc[q]
    BY <1>3 DEF Expire, SelectExpired, LogClosed, CloseOutcome, CloserAborts, TypeOK
  <2>. QED
    BY <1>1, <2>1
<1>4. CASE PlayEnds \/ (\E m \in Meetings : BookMeeting(m)) \/ WindowEnds \/ UNCHANGED vars
  BY <1>1, <1>4 DEF PlayEnds, BookMeeting, WindowEnds, vars
<1>. QED
  BY <1>2, <1>3, <1>4 DEF Next

\* A closer updates a play only after its event, in an expired window, and a
\* poller flips or flags it only after its own event.
LEMMA ClosersStep ==
  TypeOK /\ SignalsClaimed /\ ClosersLogged /\ [Next]_vars => ClosersLogged'
<1>. SUFFICES ASSUME TypeOK, SignalsClaimed, ClosersLogged, [Next]_vars PROVE ClosersLogged'
  OBVIOUS
<1>. USE OutcomeAssumption DEF rowVars, sigVars, logVars, envVars, scanVars, At, GoTo, Leave,
         Drop, Open, Booked, NoMeeting
<1>1. ASSUME UNCHANGED <<outcome, lateFlag, closed>>, expired => expired',
             \A c \in Closers : pc'[c] = pc[c],
             \A m \in Meetings : (detected[m] > 0 => detected'[m] > 0) /\ (late[m] > 0 => late'[m] > 0)
      PROVE ClosersLogged'
  BY <1>1 DEF ClosersLogged, TypeOK
<1>2. ASSUME NEW p \in Pollers, Poll(p) \/ PollerAborts(p) PROVE ClosersLogged'
  <2>1. UNCHANGED <<closed, expired>> /\ \A c \in Closers : pc'[c] = pc[c]
    BY <1>2 DEF Poll, SelectAwaiting, QueryMeetings, RecordHints, ReadFreshPlay, CheckSignal,
       InsertSignal, AnnounceMeeting, FlipToBooked, CountMeeting, AnnounceLate, FlagLate,
       PollerAborts, TypeOK
  <2>2. CASE FlipToBooked(p)
    BY <2>1, <2>2 DEF FlipToBooked, SignalsClaimed, ClosersLogged, TypeOK
  <2>3. CASE FlagLate(p)
    BY <2>1, <2>3 DEF FlagLate, SignalsClaimed, ClosersLogged, TypeOK
  <2>4. CASE AnnounceMeeting(p) \/ AnnounceLate(p)
    BY <1>1, <2>1, <2>4 DEF AnnounceMeeting, AnnounceLate, TypeOK
  <2>5. CASE SelectAwaiting(p) \/ QueryMeetings(p) \/ RecordHints(p) \/ ReadFreshPlay(p)
             \/ CheckSignal(p) \/ InsertSignal(p) \/ CountMeeting(p) \/ PollerAborts(p)
    <3>1. UNCHANGED <<outcome, lateFlag, detected, late>>
      BY <2>5 DEF SelectAwaiting, QueryMeetings, RecordHints, ReadFreshPlay, CheckSignal,
         InsertSignal, CountMeeting, PollerAborts
    <3>. QED
      BY <1>1, <2>1, <3>1 DEF TypeOK
  <2>. QED
    BY <1>2, <2>2, <2>3, <2>4, <2>5 DEF Poll
<1>3. ASSUME NEW c \in Closers, Expire(c) \/ CloserAborts(c) PROVE ClosersLogged'
  BY <1>3 DEF Expire, SelectExpired, LogClosed, CloseOutcome, CloserAborts, ClosersLogged, TypeOK
<1>4. CASE PlayEnds \/ (\E m \in Meetings : BookMeeting(m)) \/ WindowEnds \/ UNCHANGED vars
  <2>1. UNCHANGED <<outcome, lateFlag, closed, pc, detected, late>> /\ (expired => expired')
    BY <1>4 DEF PlayEnds, BookMeeting, WindowEnds, vars
  <2>. QED
    BY <1>1, <2>1 DEF TypeOK
<1>. QED
  BY <1>2, <1>3, <1>4 DEF Next

\* Every step keeps the count covered by recorded signals.
LEMMA CountStep ==
  TypeOK /\ SignalsClaimed /\ CountBacked /\ [Next]_vars => CountBacked'
<1>. SUFFICES ASSUME TypeOK, SignalsClaimed, CountBacked, [Next]_vars PROVE CountBacked'
  OBVIOUS
<1>. USE OutcomeAssumption
     DEF rowVars, sigVars, logVars, envVars, scanVars, At, GoTo, Leave, Drop
<1>1. IsFiniteSet(signals) /\ Cardinality(signals) \in Nat
  BY FS_Subset, FS_CardinalityType DEF TypeOK
<1>2. ASSUME UNCHANGED <<count, signals>>,
             \A q \in Pollers : base'[q] = base[q] /\ (pc'[q] = "decide" => pc[q] = "decide")
      PROVE CountBacked'
  BY <1>2 DEF CountBacked
<1>3. ASSUME NEW p \in Pollers, Poll(p) \/ PollerAborts(p) PROVE CountBacked'
  <2>1. CASE SelectAwaiting(p) \/ QueryMeetings(p) \/ RecordHints(p) \/ AnnounceMeeting(p)
             \/ AnnounceLate(p) \/ FlagLate(p)
    BY <1>2, <2>1 DEF SelectAwaiting, QueryMeetings, RecordHints, AnnounceMeeting, AnnounceLate,
       FlagLate, TypeOK
  <2>2. CASE ReadFreshPlay(p)
    BY <1>1, <2>2 DEF ReadFreshPlay, TypeOK, CountBacked
  <2>3. CASE CheckSignal(p) \/ PollerAborts(p)
    BY <1>1, <2>3 DEF CheckSignal, PollerAborts, TypeOK, CountBacked
  <2>4. CASE InsertSignal(p)
    <3>1. CASE UNCHANGED signals
      BY <1>1, <2>4, <3>1 DEF InsertSignal, TypeOK, CountBacked
    <3>2. CASE current[p] \notin signals /\ signals' = signals \cup {current[p]}
      <4>1. Cardinality(signals') = Cardinality(signals) + 1
        BY <1>1, <3>2, FS_AddElement
      <4>. QED
        BY <1>1, <2>4, <4>1 DEF InsertSignal, TypeOK, CountBacked
    <3>. QED
      BY <2>4, <3>1, <3>2 DEF InsertSignal
  <2>5. CASE FlipToBooked(p)
    <3>1. signals # {}
      BY <2>5 DEF FlipToBooked, SignalsClaimed
    <3>2. Cardinality(signals) >= 1
      BY <1>1, <3>1, FS_EmptySet
    <3>. QED
      BY <1>1, <2>5, <3>2 DEF FlipToBooked, TypeOK, CountBacked
  <2>6. CASE CountMeeting(p)
    BY <1>1, <2>6 DEF CountMeeting, TypeOK, CountBacked
  <2>. QED
    BY <1>3, <2>1, <2>2, <2>3, <2>4, <2>5, <2>6 DEF Poll
<1>4. ASSUME NEW c \in Closers, Expire(c) \/ CloserAborts(c) PROVE CountBacked'
  <2>1. UNCHANGED <<count, signals, base>> /\ \A q \in Pollers : pc'[q] = pc[q]
    BY <1>4 DEF Expire, SelectExpired, LogClosed, CloseOutcome, CloserAborts, TypeOK
  <2>. QED
    BY <1>2, <2>1
<1>5. CASE PlayEnds \/ (\E m \in Meetings : BookMeeting(m)) \/ WindowEnds \/ UNCHANGED vars
  BY <1>2, <1>5 DEF PlayEnds, BookMeeting, WindowEnds, vars
<1>. QED
  BY <1>3, <1>4, <1>5 DEF Next

\* The inductive invariant holds in every state.
THEOREM LogInvariantHolds == Spec => []LogInvariant
<1>1. ASSUME Init PROVE LogInvariant
  <2>. USE <1>1 DEF Init
  <2>1. TypeOK
    <3>1. /\ detected \in [Meetings -> Nat] /\ late \in [Meetings -> Nat]
          /\ base \in [Pollers -> Nat] /\ count \in Nat
      OBVIOUS
    <3>2. /\ pc \in [Pollers \cup Closers -> PollerSteps \cup CloserSteps]
          /\ current \in [Pollers -> Meetings \cup {NoEvent}]
          /\ batch \in [Pollers -> SUBSET Meetings]
          /\ known \in [Pollers -> Outcomes]
      BY DEF PollerSteps, Outcomes
    <3>. QED
      BY <3>1, <3>2 DEF TypeOK, Statuses, Outcomes
  <2>2. SignalsClaimed
    BY DEF SignalsClaimed
  <2>3. ClosersLogged
    BY DEF ClosersLogged, Open, Booked, NoMeeting
  <2>4. CountBacked
    <3>1. Cardinality(signals) = 0
      BY FS_EmptySet
    <3>2. \A p \in Pollers : base[p] = 0 /\ pc[p] = "idle"
      OBVIOUS
    <3>3. count = 0
      OBVIOUS
    <3>. HIDE <1>1
    <3>. QED
      BY <3>1, <3>2, <3>3 DEF CountBacked
  <2>. QED
    BY <2>1, <2>2, <2>3, <2>4 DEF LogInvariant
<1>2. LogInvariant /\ [Next]_vars => LogInvariant'
  BY TypeStep, SignalsStep, ClosersStep, CountStep DEF LogInvariant
<1>. QED
  BY <1>1, <1>2, PTL DEF Spec

\* A Salesforce event is announced once, by whatever number of pollers.
THEOREM AnnouncedOnceHolds == Spec => []AnnouncedOnce
<1>1. LogInvariant => AnnouncedOnce
  BY DEF LogInvariant, SignalsClaimed, AnnouncedOnce
<1>. QED
  BY <1>1, LogInvariantHolds, PTL

\* Outcome, count and flag of a play are never ahead of its signals and events.
THEOREM OutcomeHasEvidenceHolds == Spec => []OutcomeHasEvidence
<1>1. LogInvariant => OutcomeHasEvidence
  BY DEF LogInvariant, TypeOK, SignalsClaimed, ClosersLogged, CountBacked, OutcomeHasEvidence
<1>. QED
  BY <1>1, LogInvariantHolds, PTL

\* No step leads away from a booking.
LEMMA BookingKept ==
  LogInvariant /\ [Next]_vars => [outcome = Booked => outcome' = Booked]_vars
<1>. SUFFICES ASSUME LogInvariant, Next, outcome = Booked PROVE outcome' = Booked
  BY DEF vars, rowVars
<1>. USE DEF rowVars, Open, Booked
<1>1. ASSUME NEW p \in Pollers, Poll(p) \/ PollerAborts(p) PROVE outcome' = Booked
  BY <1>1 DEF Poll, SelectAwaiting, QueryMeetings, RecordHints, ReadFreshPlay, CheckSignal,
     InsertSignal, AnnounceMeeting, FlipToBooked, CountMeeting, AnnounceLate, FlagLate, PollerAborts
<1>2. ASSUME NEW c \in Closers, Expire(c) \/ CloserAborts(c) PROVE outcome' = Booked
  BY <1>2 DEF Expire, SelectExpired, LogClosed, CloseOutcome, CloserAborts
<1>. QED
  BY <1>1, <1>2 DEF Next, PlayEnds, BookMeeting, WindowEnds

\* No closer takes a booking back.
THEOREM BookingStandsHolds == Spec => BookingStands
  BY LogInvariantHolds, BookingKept, PTL DEF Spec, BookingStands

\* Every step is a step of OutcomeLog, or leaves its variables alone.
LEMMA StepFollowsLog == LogInvariant /\ [Next]_vars => [Log!LogNext]_(Log!logVars)
<1>. SUFFICES ASSUME LogInvariant, [Next]_vars
     PROVE Log!LogNext \/ UNCHANGED <<detected, late, closed, outcome>>
  BY DEF Log!logVars
<1>. USE DEF rowVars, sigVars, logVars, envVars, scanVars, At, Open, Booked, NoMeeting
<1>1. ASSUME NEW p \in Pollers, Poll(p) \/ PollerAborts(p)
      PROVE Log!LogNext \/ UNCHANGED <<detected, late, closed, outcome>>
  <2>1. CASE AnnounceMeeting(p)
    <3>1. current[p] \in Meetings /\ detected[current[p]] = 0 /\ late[current[p]] = 0
      BY <2>1 DEF AnnounceMeeting, LogInvariant, SignalsClaimed
    <3>2. detected' = [detected EXCEPT ![current[p]] = 1]
      BY <2>1, <3>1 DEF AnnounceMeeting
    <3>. QED
      BY <2>1, <3>1, <3>2 DEF AnnounceMeeting, Log!LogNext, Log!Announce, Log!Unannounced
  <2>2. CASE AnnounceLate(p)
    <3>1. current[p] \in Meetings /\ detected[current[p]] = 0 /\ late[current[p]] = 0
      BY <2>2 DEF AnnounceLate, LogInvariant, SignalsClaimed
    <3>2. late' = [late EXCEPT ![current[p]] = 1]
      BY <2>2, <3>1 DEF AnnounceLate
    <3>. QED
      BY <2>2, <3>1, <3>2 DEF AnnounceLate, Log!LogNext, Log!Announce, Log!Unannounced
  <2>3. CASE FlipToBooked(p)
    <3>1. \E m \in Meetings : detected[m] > 0
      BY <2>3 DEF FlipToBooked, LogInvariant, SignalsClaimed
    <3>. QED
      BY <2>3, <3>1 DEF FlipToBooked, Log!LogNext, Log!Book, Log!Booked
  <2>4. CASE SelectAwaiting(p) \/ QueryMeetings(p) \/ RecordHints(p) \/ ReadFreshPlay(p)
             \/ CheckSignal(p) \/ InsertSignal(p) \/ CountMeeting(p) \/ FlagLate(p)
             \/ PollerAborts(p)
    BY <2>4 DEF SelectAwaiting, QueryMeetings, RecordHints, ReadFreshPlay, CheckSignal,
       InsertSignal, CountMeeting, FlagLate, PollerAborts
  <2>. QED
    BY <1>1, <2>1, <2>2, <2>3, <2>4 DEF Poll
<1>2. ASSUME NEW c \in Closers, Expire(c) \/ CloserAborts(c)
      PROVE Log!LogNext \/ UNCHANGED <<detected, late, closed, outcome>>
  <2>1. CASE LogClosed(c)
    BY <2>1 DEF LogClosed, Log!LogNext, Log!Close
  <2>2. CASE CloseOutcome(c)
    BY <2>2 DEF CloseOutcome, LogInvariant, ClosersLogged, Log!LogNext, Log!GiveUp,
       Log!Open, Log!NoMeeting
  <2>3. CASE SelectExpired(c) \/ CloserAborts(c)
    BY <2>3 DEF SelectExpired, CloserAborts
  <2>. QED
    BY <1>2, <2>1, <2>2, <2>3 DEF Expire
<1>3. CASE PlayEnds \/ (\E m \in Meetings : BookMeeting(m)) \/ WindowEnds \/ UNCHANGED vars
  BY <1>3 DEF PlayEnds, BookMeeting, WindowEnds, vars
<1>. QED
  BY <1>1, <1>2, <1>3 DEF Next

\* Outcome tracking follows its event log: overlapping and failing passes of
\* pollers and closers take only the steps OutcomeLog allows.
THEOREM DetectionImplementsLog == Spec => ImplementsLog
<1>1. Init => Log!LogInit
  BY DEF Init, Log!LogInit, Log!Open, Open
<1>. QED
  BY <1>1, LogInvariantHolds, StepFollowsLog, PTL DEF Spec, ImplementsLog, Log!LogSpec
-----------------------------------------------------------------------------
(* SlaEscalation *)

\* What the jobs may conclude from a row of PlayRow, as every play of InboundPlay
\* is one: a verdict on a play stands, and a touched play is completed.
THEOREM RowPromise == Row!RowSpec => []Row!TouchCompletes /\ Row!VerdictStands
<1>. USE DEF Row!RowNext, Row!Insert, Row!Touch, Row!Park, Row!RunEnds, Row!Watched, Row!playRow,
         Row!TouchCompletes
<1>1. Row!RowInit => Row!TouchCompletes
  BY DEF Row!RowInit
<1>2. Row!TouchCompletes /\ [Row!RowNext]_(Row!playRow) => Row!TouchCompletes'
  OBVIOUS
<1>3. [Row!RowNext]_(Row!playRow) =>
        [status \notin {"none", "running"} => UNCHANGED <<status, touched>>]_(Row!playRow)
  OBVIOUS
<1>. QED
  BY <1>1, <1>2, <1>3, PTL DEF Row!RowSpec, Row!VerdictStands



\* Every step preserves the types.
LEMMA SlaTypeStep == SlaTypeOK /\ [SlaNext]_watchVars => SlaTypeOK'
<1>. SUFFICES ASSUME SlaTypeOK, [SlaNext]_watchVars PROVE SlaTypeOK'
  OBVIOUS
<1>. USE DEF SlaTypeOK, playVars, slaVars, bullVars, workVars, Moments, TimerSteps, JobStates,
         WorkSteps, TimerGoes, Goes
<1>0. ASSUME NEW m \in Moments, Passed(m)
      PROVE when' \in [Moments -> {"never", "in_time", "late"}]
  BY <1>0 DEF Passed
<1>1. CASE Contact \/ Stamp \/ Touch
  <2>1. when' \in [Moments -> {"never", "in_time", "late"}]
    BY <1>0, <1>1 DEF Contact, Stamp, Touch
  <2>. QED
    BY <1>1, <2>1 DEF Contact, Stamp, Touch, Row!Touch
<1>5. CASE Park \/ RunEnds \/ DeadlinePasses
  BY <1>5 DEF Park, RunEnds, DeadlinePasses, Row!Park, Row!RunEnds
<1>2. CASE EscalateNoSep
  BY <1>2 DEF EscalateNoSep, AddEscalation, Row!RunEnds
<1>3. ASSUME NEW t \in Timers, Check(t) \/ TimerAborts(t) PROVE SlaTypeOK'
  BY <1>3 DEF Check, SelectBreached, LogBreach, MarkBreached, EnqueueEscalation, AddEscalation,
     TimerAborts
<1>4. ASSUME NEW j \in Jobs, StartEscalation(j) \/ Work(j) \/ WorkerDies(j) PROVE SlaTypeOK'
  <2>1. CASE StartEscalation(j)
    BY <2>1 DEF StartEscalation
  <2>2. CASE LoadPlay(j)
    BY <2>2 DEF LoadPlay, CompleteJob
  <2>3. CASE PostSlack(j)
    <3>1. messages' \in [Jobs -> Nat]
      BY <2>3 DEF PostSlack
    <3>2. slackSent' \in [Jobs -> BOOLEAN]
      BY <2>3, Zenon DEF PostSlack
    <3>. QED
      BY <2>3, <3>1, <3>2 DEF PostSlack
  <2>4. CASE LogEscalation(j)
    <3>1. answer' \in [Jobs -> {"none", "success", "failed"}]
      BY <2>4 DEF LogEscalation, StoreAnswer
    <3>. QED
      BY <2>4, <3>1 DEF LogEscalation, CompleteJob
  <2>5. CASE AttemptFails(j)
    <3>1. jobState' \in [Jobs -> JobStates] /\ fails' \in [Jobs -> Nat]
      BY <2>5 DEF AttemptFails
    <3>2. answer' \in [Jobs -> {"none", "success", "failed"}]
      BY <2>5 DEF AttemptFails, StoreAnswer
    <3>. QED
      BY <2>5, <3>1, <3>2 DEF AttemptFails
  <2>6. CASE WorkerDies(j)
    <3>1. jobState' \in [Jobs -> JobStates] /\ stalls' \in [Jobs -> Nat]
      BY <2>6 DEF WorkerDies
    <3>. QED
      BY <2>6, <3>1 DEF WorkerDies
  <2>. QED
    BY <1>4, <2>1, <2>2, <2>3, <2>4, <2>5, <2>6 DEF Work
<1>6. CASE UNCHANGED watchVars
  BY <1>6 DEF watchVars
<1>. QED
  BY <1>1, <1>2, <1>3, <1>4, <1>5, <1>6 DEF SlaNext

\* The deadline of a play does not move, and the row gets its first touch once: a
\* row seen overdue and untouched can only be touched late.
LEMMA TimersStep == SlaTypeOK /\ TimersJustified /\ [SlaNext]_watchVars => TimersJustified'
<1>. SUFFICES ASSUME SlaTypeOK, TimersJustified, [SlaNext]_watchVars PROVE TimersJustified'
  OBVIOUS
<1>. USE DEF SlaTypeOK, TimersJustified, Watched, Row!Watched, playVars, slaVars, TimerGoes,
         Moments
<1>1. CASE Contact \/ Stamp \/ Touch \/ Park \/ RunEnds \/ DeadlinePasses
  BY <1>1 DEF Contact, Stamp, Passed, Touch, Park, RunEnds, DeadlinePasses, Row!Touch, Row!Park,
     Row!RunEnds
<1>2. ASSUME NEW t \in Timers, Check(t) \/ TimerAborts(t) PROVE TimersJustified'
  BY <1>2 DEF Check, SelectBreached, LogBreach, MarkBreached, EnqueueEscalation, TimerAborts
<1>3. CASE EscalateNoSep \/ (\E j \in Jobs : StartEscalation(j) \/ Work(j) \/ WorkerDies(j))
  BY <1>3 DEF EscalateNoSep, Row!RunEnds, StartEscalation, WorkerDies, Work, LoadPlay, PostSlack,
     LogEscalation, AttemptFails
<1>4. CASE UNCHANGED watchVars
  BY <1>4 DEF watchVars
<1>. QED
  BY <1>1, <1>2, <1>3, <1>4 DEF SlaNext

\* Every step keeps what a worker believes of its message true.
LEMMA AnswersStep == SlaTypeOK /\ AnswersJustified /\ [SlaNext]_watchVars => AnswersJustified'
<1>. SUFFICES ASSUME SlaTypeOK, AnswersJustified, [SlaNext]_watchVars PROVE AnswersJustified'
  OBVIOUS
<1>. USE DEF SlaTypeOK, AnswersJustified, workVars
<1>1. ASSUME NEW j \in Jobs, StartEscalation(j) \/ Work(j) \/ WorkerDies(j)
      PROVE AnswersJustified'
  BY <1>1 DEF StartEscalation, WorkerDies, Work, LoadPlay, PostSlack, LogEscalation,
     AttemptFails, StoreAnswer
<1>2. CASE UNCHANGED <<slackSent, messages, answer>>
  BY <1>2
<1>3. ASSUME NEW t \in Timers, Check(t) \/ TimerAborts(t)
      PROVE UNCHANGED <<slackSent, messages, answer>>
  BY <1>3 DEF Check, SelectBreached, LogBreach, MarkBreached, EnqueueEscalation, TimerAborts
<1>. QED
  BY <1>1, <1>2, <1>3
     DEF SlaNext, Contact, Stamp, Touch, Park, RunEnds, DeadlinePasses, EscalateNoSep, watchVars

\* The inductive invariant holds in every state.
THEOREM SlaInvariantHolds == SlaSpec => []SlaInvariant
<1>1. SlaInit => SlaInvariant
  <2>1. SlaInit => SlaTypeOK
    <3>1. SlaInit => slackSent \in [Jobs -> BOOLEAN]
      BY Zenon DEF SlaInit
    <3>2. SlaInit => /\ timer \in [Timers -> TimerSteps] /\ jobState \in [Jobs -> JobStates]
                  /\ step \in [Jobs -> WorkSteps]
      BY DEF SlaInit, TimerSteps, JobStates, WorkSteps
    <3>3. SlaInit => /\ fails \in [Jobs -> Nat] /\ stalls \in [Jobs -> Nat]
                  /\ messages \in [Jobs -> Nat]
                  /\ answer \in [Jobs -> {"none", "success", "failed"}]
      BY DEF SlaInit
    <3>4. SlaInit => /\ status \in {"running", "completed", "nurture", "paused"}
                  /\ touched \in BOOLEAN /\ overdue \in BOOLEAN /\ inFlight \in BOOLEAN
                  /\ breached \in BOOLEAN /\ logged \in BOOLEAN
      BY DEF SlaInit
    <3>5. SlaInit => when \in [Moments -> {"never", "in_time", "late"}]
      BY DEF SlaInit
    <3>. QED
      BY <3>1, <3>2, <3>3, <3>4, <3>5 DEF SlaTypeOK
  <2>2. SlaInit => TimersJustified
    BY DEF SlaInit, TimersJustified, Moments
  <2>3. SlaInit => AnswersJustified
    BY DEF SlaInit, AnswersJustified
  <2>. QED
    BY <2>1, <2>2, <2>3 DEF SlaInvariant
<1>2. SlaInvariant /\ [SlaNext]_watchVars => SlaInvariant'
  BY SlaTypeStep, TimersStep, AnswersStep DEF SlaInvariant
<1>. QED
  BY <1>1, <1>2, PTL DEF SlaSpec

\* No play is marked, or logged, as breached whose row showed its first touch
\* before the deadline.
THEOREM BreachIsRealHolds == SlaSpec => []BreachIsReal
<1>1. SlaInvariant => BreachIsReal
  BY DEF SlaInvariant, TimersJustified, BreachIsReal
<1>. QED
  BY <1>1, SlaInvariantHolds, PTL

\* What the event log calls sent has been delivered.
THEOREM SentIsDeliveredHolds == SlaSpec => []SentIsDelivered
<1>1. SlaInvariant => SentIsDelivered
  BY DEF SlaInvariant, AnswersJustified, SentIsDelivered
<1>. QED
  BY <1>1, SlaInvariantHolds, PTL
=============================================================================
