------------------------------ MODULE OutcomeLog ------------------------------
(***************************************************************************)
(* What outcome tracking promises, whoever polls and closes at what time:  *)
(* the outcome of a play follows its append-only event log.  A meeting is  *)
(* announced once, a booking needs an announced meeting and stands, and a  *)
(* play is given up only after its window was logged as closed.            *)
(***************************************************************************)
EXTENDS Naturals

CONSTANT Meetings

VARIABLES
  detected,  \* outcome_detected events of each meeting
  late,      \* late_meeting_detected events of each meeting
  closed,    \* whether an outcome_window_closed event was written
  outcome    \* play_instance.outcome_status

logVars == <<detected, late, closed, outcome>>

Open      == "no_outcome_yet"
Booked    == "meeting_booked"
NoMeeting == "no_meeting"

Unannounced(m) == detected[m] = 0 /\ late[m] = 0

LogInit ==
  /\ detected = [m \in Meetings |-> 0]
  /\ late = [m \in Meetings |-> 0]
  /\ closed = FALSE
  /\ outcome = Open

Announce(m) ==
  /\ Unannounced(m)
  /\ \/ detected' = [detected EXCEPT ![m] = 1] /\ UNCHANGED late
     \/ late' = [late EXCEPT ![m] = 1] /\ UNCHANGED detected
  /\ UNCHANGED <<closed, outcome>>

Close == closed' = TRUE /\ UNCHANGED <<detected, late, outcome>>

Book ==
  /\ \E m \in Meetings : detected[m] > 0
  /\ outcome' = Booked
  /\ UNCHANGED <<detected, late, closed>>

GiveUp ==
  /\ closed
  /\ outcome = Open
  /\ outcome' = NoMeeting
  /\ UNCHANGED <<detected, late, closed>>

LogNext == (\E m \in Meetings : Announce(m)) \/ Close \/ Book \/ GiveUp

LogSpec == LogInit /\ [][LogNext]_logVars

=============================================================================
