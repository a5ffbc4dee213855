------------------------------- MODULE PlayRow -------------------------------
(***************************************************************************)
(* The play_instance row of one run as the background jobs read it, and    *)
(* what they rely on: a play is running until its run touches the lead or  *)
(* parks the play, it leaves that status once and for good, first_touch_at *)
(* is written by the update that completes the play, and a run that is     *)
(* over writes nothing.                                                    *)
(***************************************************************************)

VARIABLES
  status,   \* play_instance.status, or "none" before the insert
  touched,  \* first_touch_at is set
  inFlight  \* the run that writes the row goes on

playRow == <<status, touched, inFlight>>

\* What the SLA timer looks for: running and not yet contacted.
Watched == status = "running" /\ ~ touched

RowInit == status = "none" /\ touched = FALSE /\ inFlight = FALSE

Insert ==
  /\ status = "none"
  /\ status' = "running"
  /\ inFlight' = TRUE
  /\ UNCHANGED touched

\* start_sequence: first_touch_at and the status are one update.
Touch ==
  /\ inFlight /\ Watched
  /\ status' = "completed"
  /\ touched' = TRUE
  /\ UNCHANGED inFlight

\* The play ends as a duplicate, in nurture, or waits for a human.
Park ==
  /\ inFlight /\ Watched
  /\ status' \in {"completed", "nurture", "paused"}
  /\ UNCHANGED <<touched, inFlight>>

\* The run ends, or fails and leaves the play as it is.
RunEnds ==
  /\ inFlight
  /\ inFlight' = FALSE
  /\ UNCHANGED <<status, touched>>

RowNext == Insert \/ Touch \/ Park \/ RunEnds

RowSpec == RowInit /\ [][RowNext]_playRow
-----------------------------------------------------------------------------
(* What the jobs may conclude *)

\* A play whose first touch is set was completed by it.
TouchCompletes == touched => status = "completed"

\* A play that has left "running" keeps its status and its first touch: one that
\* the timer once saw watched, and then not, is never watched again.
VerdictStands == [][status \notin {"none", "running"} => UNCHANGED <<status, touched>>]_playRow

=============================================================================
