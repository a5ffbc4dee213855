--------------------------- MODULE OutcomeDetection ---------------------------
(***************************************************************************)
(* Outcome tracking of one play: the detection poller, which looks for     *)
(* meetings in Salesforce, and the window closer, which gives the play up  *)
(* when its attribution window is over (src/queue/jobs).  Every worker     *)
(* process runs both jobs, so passes of several pollers and closers        *)
(* overlap.  One action is one awaited call of a pass together with the    *)
(* code up to the next one; plays are handled independently of each other, *)
(* so one play is enough.                                                  *)
(***************************************************************************)
EXTENDS Integers, FiniteSets

CONSTANTS
  Meetings,  \* Salesforce events of a configured type that start in the window
  Pollers,   \* worker processes running the outcome-detection-poller job
  Closers    \* worker processes running the outcome-window-closer job

ASSUME OutcomeAssumption ==
  /\ IsFiniteSet(Meetings)
  /\ Pollers \cap Closers = {}
  /\ "no_event" \notin Meetings

VARIABLES
  play,      \* play_instance.status
  outcome,   \* play_instance.outcome_status
  count,     \* play_instance.meetings_count_in_window
  lateFlag,  \* play_instance.late_meeting_flag
  signals,   \* rows of outcome_signal with confidence 'primary'
  hints,     \* rows of outcome_signal with confidence 'supportive'
  detected,  \* how often a meeting has an outcome_detected event
  late,      \* how often a meeting has a late_meeting_detected event
  closed,    \* whether an outcome_window_closed event was written
  meetings,  \* external: the meetings booked in Salesforce
  expired,   \* whether now > created_at + attribution_window_days
  pc,        \* the next step of a poller's or closer's pass
  batch,     \* sfEvents a poller has still to handle
  current,   \* the event it is handling
  known,     \* its currentStatus, read before the loop
  base       \* its freshPlay.meetings_count_in_window

rowVars  == <<play, outcome, count, lateFlag>>
sigVars  == <<signals, hints>>
logVars  == <<detected, late, closed>>
envVars  == <<meetings, expired>>
scanVars == <<batch, current, known, base>>
vars == <<rowVars, sigVars, logVars, envVars, pc, scanVars>>

Open      == "no_outcome_yet"
Booked    == "meeting_booked"
NoMeeting == "no_meeting"
Outcomes  == {Open, Booked, NoMeeting}
NoEvent   == "no_event"

Statuses    == {"running", "completed", "nurture", "paused"}
HintKinds   == {"lead_status", "meeting_checkbox"}
PollerSteps == {"idle", "query", "fresh", "scan", "insert", "decide", "flip", "flag", "hints"}
CloserSteps == {"idle", "event", "update"}

At(p, step)   == pc[p] = step
GoTo(p, step) == pc' = [pc EXCEPT ![p] = step]

\* A pass is over and its local variables are gone.
Leave(p) ==
  /\ GoTo(p, "idle")
  /\ batch' = [batch EXCEPT ![p] = {}]
  /\ current' = [current EXCEPT ![p] = NoEvent]
  /\ known' = [known EXCEPT ![p] = Open]
  /\ base' = [base EXCEPT ![p] = 0]
-----------------------------------------------------------------------------
(* outcome-detection-poller.ts *)

\* The batch query: plays without an outcome that are running or completed.
SelectAwaiting(p) ==
  /\ At(p, "idle")
  /\ outcome = Open
  /\ play \in {"running", "completed"}
  /\ GoTo(p, "query")
  /\ UNCHANGED <<rowVars, sigVars, logVars, envVars, scanVars>>

\* queryMeetingEvents; a lead that is not in Salesforce yet is skipped, and a
\* ConnectorError only ends the handling of this play.
QueryMeetings(p) ==
  /\ At(p, "query")
  /\ \/ meetings # {} /\ batch' = [batch EXCEPT ![p] = meetings] /\ GoTo(p, "fresh")
     \/ meetings = {} /\ GoTo(p, "hints") /\ UNCHANGED batch
     \/ GoTo(p, "idle") /\ UNCHANGED batch
  /\ UNCHANGED <<rowVars, sigVars, logVars, envVars, current, known, base>>

\* Supportive signals are recorded and change nothing else.
RecordHints(p) ==
  /\ At(p, "hints")
  /\ \E H \in SUBSET HintKinds : hints' = hints \cup H
  /\ GoTo(p, "idle")
  /\ UNCHANGED <<rowVars, signals, logVars, envVars, scanVars>>

\* The play is read once per pass, before the loop over the events; when the
\* read fails the status of the batch query stands.
ReadFreshPlay(p) ==
  /\ At(p, "fresh")
  /\ \/ /\ known' = [known EXCEPT ![p] = outcome]
        /\ base' = [base EXCEPT ![p] = count]
     \/ known' = [known EXCEPT ![p] = Open] /\ UNCHANGED base
  /\ GoTo(p, "scan")
  /\ UNCHANGED <<rowVars, sigVars, logVars, envVars, batch, current>>

Drop(p, m) == batch' = [batch EXCEPT ![p] = @ \ {m}]

\* The pre-check of one event.  (A failed read looks like "not recorded".)
CheckSignal(p) ==
  /\ At(p, "scan")
  /\ \/ batch[p] = {} /\ Leave(p)
     \/ \E m \in batch[p] :
          m \in signals /\ Drop(p, m) /\ UNCHANGED <<pc, current, known, base>>
     \/ \E m \in batch[p] :
          /\ current' = [current EXCEPT ![p] = m]
          /\ GoTo(p, "insert")
          /\ UNCHANGED <<batch, known, base>>
  /\ UNCHANGED <<rowVars, sigVars, logVars, envVars>>

\* Mutant: a unique violation is not told from a successful insert.
InsertAnyway(p) ==
  /\ At(p, "insert")
  /\ signals' = signals \cup {current[p]}
  /\ Drop(p, current[p])
  /\ GoTo(p, "decide")
  /\ UNCHANGED <<rowVars, hints, logVars, envVars, current, known, base>>

\* The insert: the UNIQUE constraint rejects an event another poller recorded.
InsertSignal(p) ==
  /\ At(p, "insert")
  /\ Drop(p, current[p])
  /\ \/ /\ current[p] \notin signals
        /\ signals' = signals \cup {current[p]}
        /\ GoTo(p, "decide")
     \/ GoTo(p, "scan") /\ UNCHANGED signals
  /\ UNCHANGED <<rowVars, hints, logVars, envVars, current, known, base>>

\* Mutant: the play is flipped before the event is written.
AnnounceLater(p) ==
  /\ At(p, "decide")
  /\ known[p] = Open
  /\ outcome' = Booked
  /\ GoTo(p, "flip")
  /\ UNCHANGED <<play, count, lateFlag, sigVars, logVars, envVars, scanVars>>

\* First primary signal, as far as this pass knows.
AnnounceMeeting(p) ==
  /\ At(p, "decide")
  /\ known[p] = Open
  /\ detected' = [detected EXCEPT ![current[p]] = @ + 1]
  /\ GoTo(p, "flip")
  /\ UNCHANGED <<rowVars, sigVars, late, closed, envVars, scanVars>>

\* The update has no guard on the status, and its error is not looked at.
FlipToBooked(p) ==
  /\ At(p, "flip")
  /\ \/ outcome' = Booked /\ count' = 1
     \/ UNCHANGED <<outcome, count>>
  /\ GoTo(p, "scan")
  /\ UNCHANGED <<play, lateFlag, sigVars, logVars, envVars, scanVars>>

\* Additional primary signal: the count read before the loop, plus one.
CountMeeting(p) ==
  /\ At(p, "decide")
  /\ known[p] = Booked
  /\ count' = base[p] + 1 \/ UNCHANGED count
  /\ GoTo(p, "scan")
  /\ UNCHANGED <<play, outcome, lateFlag, sigVars, logVars, envVars, scanVars>>

\* Primary signal after the cutoff: the event, then the flag.
AnnounceLate(p) ==
  /\ At(p, "decide")
  /\ known[p] = NoMeeting
  /\ late' = [late EXCEPT ![current[p]] = @ + 1]
  /\ GoTo(p, "flag")
  /\ UNCHANGED <<rowVars, sigVars, detected, closed, envVars, scanVars>>

FlagLate(p) ==
  /\ At(p, "flag")
  /\ lateFlag' = TRUE \/ UNCHANGED lateFlag
  /\ GoTo(p, "scan")
  /\ UNCHANGED <<play, outcome, count, sigVars, logVars, envVars, scanVars>>

\* writeEvent throws (the rest of the organization is skipped), or the process dies.
PollerAborts(p) ==
  /\ ~ At(p, "idle")
  /\ Leave(p)
  /\ UNCHANGED <<rowVars, sigVars, logVars, envVars>>
-----------------------------------------------------------------------------
(* outcome-window-closer.ts *)

\* Mutant: the closer shares the poller's restriction on the status.
SelectExpiredRunning(c) ==
  /\ At(c, "idle")
  /\ outcome = Open
  /\ play \in {"running", "completed"}
  /\ expired
  /\ GoTo(c, "event")
  /\ UNCHANGED <<rowVars, sigVars, logVars, envVars, scanVars>>

\* Mutant: the window check is missing.
SelectOpen(c) ==
  /\ At(c, "idle")
  /\ outcome = Open
  /\ GoTo(c, "event")
  /\ UNCHANGED <<rowVars, sigVars, logVars, envVars, scanVars>>

\* The query and the window check.
SelectExpired(c) ==
  /\ At(c, "idle")
  /\ outcome = Open
  /\ expired
  /\ GoTo(c, "event")
  /\ UNCHANGED <<rowVars, sigVars, logVars, envVars, scanVars>>

\* outcome_window_closed, before the update.
LogClosed(c) ==
  /\ At(c, "event")
  /\ closed' = TRUE
  /\ GoTo(c, "update")
  /\ UNCHANGED <<rowVars, sigVars, detected, late, envVars, scanVars>>

\* Mutant: the update without its guard on outcome_status.
CloseBlindly(c) ==
  /\ At(c, "update")
  /\ outcome' = NoMeeting
  /\ GoTo(c, "idle")
  /\ UNCHANGED <<play, count, lateFlag, sigVars, logVars, envVars, scanVars>>

\* The update, guarded by outcome_status = 'no_outcome_yet'.
CloseOutcome(c) ==
  /\ At(c, "update")
  /\ outcome' = IF outcome = Open THEN NoMeeting ELSE outcome
  /\ GoTo(c, "idle")
  /\ UNCHANGED <<play, count, lateFlag, sigVars, logVars, envVars, scanVars>>

\* The event or the update cannot be written, or the process dies.
CloserAborts(c) ==
  /\ ~ At(c, "idle")
  /\ GoTo(c, "idle")
  /\ UNCHANGED <<rowVars, sigVars, logVars, envVars, scanVars>>
-----------------------------------------------------------------------------
(* Environment *)

\* The inbound play ends.
PlayEnds ==
  /\ play = "running"
  /\ play' \in Statuses \ {"running"}
  /\ UNCHANGED <<outcome, count, lateFlag, sigVars, logVars, envVars, pc, scanVars>>

\* Somebody books a meeting, possibly after the fact.
BookMeeting(m) ==
  /\ m \notin meetings
  /\ meetings' = meetings \cup {m}
  /\ UNCHANGED <<rowVars, sigVars, logVars, expired, pc, scanVars>>

WindowEnds ==
  /\ ~ expired
  /\ expired' = TRUE
  /\ UNCHANGED <<rowVars, sigVars, logVars, meetings, pc, scanVars>>
-----------------------------------------------------------------------------
Init ==
  /\ play = "running"
  /\ outcome = Open
  /\ count = 0
  /\ lateFlag = FALSE
  /\ signals = {}
  /\ hints = {}
  /\ detected = [m \in Meetings |-> 0]
  /\ late = [m \in Meetings |-> 0]
  /\ closed = FALSE
  /\ meetings = {}
  /\ expired = FALSE
  /\ pc = [p \in Pollers \cup Closers |-> "idle"]
  /\ batch = [p \in Pollers |-> {}]
  /\ current = [p \in Pollers |-> NoEvent]
  /\ known = [p \in Pollers |-> Open]
  /\ base = [p \in Pollers |-> 0]

Poll(p) ==
  \/ SelectAwaiting(p) \/ QueryMeetings(p) \/ RecordHints(p)
  \/ ReadFreshPlay(p) \/ CheckSignal(p) \/ InsertSignal(p)
  \/ AnnounceMeeting(p) \/ FlipToBooked(p) \/ CountMeeting(p)
  \/ AnnounceLate(p) \/ FlagLate(p)

Expire(c) == SelectExpired(c) \/ LogClosed(c) \/ CloseOutcome(c)

Next ==
  \/ \E p \in Pollers : Poll(p) \/ PollerAborts(p)
  \/ \E c \in Closers : Expire(c) \/ CloserAborts(c)
  \/ PlayEnds
  \/ \E m \in Meetings : BookMeeting(m)
  \/ WindowEnds

Spec == Init /\ [][Next]_vars

\* The job schedulers start a pass every few minutes (poller) or every hour
\* (closer), and a call that is repeated for ever does not fail for ever.
Fairness ==
  /\ \A p \in Pollers : SF_vars(Poll(p))
  /\ \A c \in Closers :
       SF_vars(SelectExpired(c)) /\ SF_vars(LogClosed(c)) /\ SF_vars(CloseOutcome(c))

FairSpec == Spec /\ Fairness
-----------------------------------------------------------------------------
(* Correctness *)

TypeOK ==
  /\ play \in Statuses
  /\ outcome \in Outcomes
  /\ count \in Nat
  /\ lateFlag \in BOOLEAN
  /\ signals \subseteq Meetings
  /\ hints \subseteq HintKinds
  /\ detected \in [Meetings -> Nat]
  /\ late \in [Meetings -> Nat]
  /\ closed \in BOOLEAN
  /\ meetings \subseteq Meetings
  /\ expired \in BOOLEAN
  /\ pc \in [Pollers \cup Closers -> PollerSteps \cup CloserSteps]
  /\ batch \in [Pollers -> SUBSET Meetings]
  /\ current \in [Pollers -> Meetings \cup {NoEvent}]
  /\ known \in [Pollers -> Outcomes]
  /\ base \in [Pollers -> Nat]

\* However many pollers handle one Salesforce event at the same time, and
\* however often it is polled again, it has one event in the event log.
AnnouncedOnce == \A m \in Meetings : detected[m] + late[m] <= 1

\* The dashboard never shows more than the event log and the signals tell: a
\* booking was detected, a play without meeting was closed after its window, a
\* late flag has its event, and no meeting is counted twice.
OutcomeHasEvidence ==
  /\ outcome = Booked => \E m \in signals : detected[m] > 0
  /\ outcome = NoMeeting => closed /\ expired
  /\ lateFlag => \E m \in signals : late[m] > 0
  /\ count <= Cardinality(signals)

\* The closer never takes a booking back, although it decided to close the play
\* when no meeting was known (outcome-window-closer.ts, "idempotency guard").
BookingStands == [][outcome = Booked => outcome' = Booked]_vars

\* Every play whose window is over leaves 'no_outcome_yet', whatever became of
\* the play and however often the jobs fail on the way.
OutcomeSettles == expired ~> outcome # Open

\* The rows of outcome tracking follow the event log, as OutcomeLog states it.
Log == INSTANCE OutcomeLog

ImplementsLog == Log!LogSpec
-----------------------------------------------------------------------------
(* The inductive invariant *)

\* An event is announced only by the poller that recorded its signal, and only
\* before it moves on.
SignalsClaimed ==
  /\ \A m \in Meetings : detected[m] + late[m] <= 1
  /\ \A m \in Meetings : m \notin signals => detected[m] = 0 /\ late[m] = 0
  /\ \A p \in Pollers :
       /\ pc[p] \in {"insert", "decide", "flip", "flag"} => current[p] \in Meetings
       /\ pc[p] = "decide" =>
            /\ current[p] \in signals
            /\ detected[current[p]] = 0 /\ late[current[p]] = 0
            /\ \A q \in Pollers \ {p} :
                 pc[q] = "decide" => current[q] # current[p]
       /\ pc[p] = "flip" => detected[current[p]] > 0
       /\ pc[p] = "flag" => late[current[p]] > 0

ClosersLogged ==
  /\ \A c \in Closers : pc[c] = "event" => expired
  /\ \A c \in Closers : pc[c] = "update" => closed /\ expired
  /\ outcome = Booked => \E m \in Meetings : detected[m] > 0
  /\ lateFlag => \E m \in Meetings : late[m] > 0
  /\ outcome = NoMeeting => closed /\ expired

\* What a poller has read of the count is covered by signals recorded before
\* the one it is handling.
CountBacked ==
  /\ count <= Cardinality(signals)
  /\ \A p \in Pollers : base[p] <= Cardinality(signals)
  /\ \A p \in Pollers : pc[p] = "decide" => base[p] < Cardinality(signals)

LogInvariant == TypeOK /\ SignalsClaimed /\ ClosersLogged /\ CountBacked

=============================================================================
