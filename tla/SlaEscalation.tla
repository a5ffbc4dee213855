---------------------------- MODULE SlaEscalation ----------------------------
(***************************************************************************)
(* The SLA of one play: the timer job that marks a play whose first touch  *)
(* is overdue and enqueues an escalation, and the worker that tells the    *)
(* managers about it (src/queue/jobs/sla-timer.ts,                         *)
(* src/queue/workers/escalate.worker.ts).  The play is InboundPlay's; here *)
(* it is a PlayRow, which says what the two rely on.  One action is one    *)
(* awaited call together with the code up to the next one.                 *)
(***************************************************************************)
EXTENDS Integers, FiniteSets

CONSTANTS
  Timers,       \* worker processes that run the sla-timer job
  Jobs,         \* escalate-play jobs that may be enqueued
  MaxAttempts,  \* attempts of an escalate-play job: 3 in setup.ts
  MaxStalls     \* stalls BullMQ tolerates: 1 by default

ASSUME SlaAssumption ==
  /\ MaxAttempts \in Nat \ {0}
  /\ MaxStalls \in Nat

VARIABLES
  status,    \* play_instance.status
  touched,   \* first_touch_at is set
  overdue,   \* first_touch_deadline < now
  inFlight,  \* the run of the play still goes on
  when,      \* history: on which side of the deadline the run reached the lead,
             \* read the clock for first_touch_at, and had it in the row
  breached,  \* play_instance.sla_breached
  logged,    \* an sla_breached event was written
  timer,     \* the next step of a timer's pass
  jobState,  \* BullMQ state of an escalation
  fails,     \* its failed attempts
  stalls,    \* its stalls
  step,      \* the next step of the worker that runs it
  slackSent, \* slackSent of that run
  messages,  \* external: Slack messages delivered for the escalation
  answer     \* event_status of its escalation_sent event, or "none"

playVars == <<status, touched, overdue, inFlight, when>>
slaVars  == <<breached, logged>>
bullVars == <<jobState, fails, stalls>>
workVars == <<step, slackSent, messages, answer>>
watchVars == <<playVars, slaVars, timer, bullVars, workVars>>

Moments    == {"contact", "stamp", "record"}
TimerSteps == {"idle", "event", "update", "add"}
JobStates  == {"absent", "waiting", "active", "completed", "failed"}
WorkSteps  == {"idle", "load", "slack", "log"}

\* The row of the play takes the steps of PlayRow, which InboundPlay implements.
Row == INSTANCE PlayRow
Watched == Row!Watched

TimerGoes(t, s) == timer' = [timer EXCEPT ![t] = s]
Goes(j, s)      == step' = [step EXCEPT ![j] = s]
-----------------------------------------------------------------------------
(* The play *)

Passed(moment) ==
  when' = [when EXCEPT ![moment] = IF overdue THEN "late" ELSE "in_time"]

\* start_sequence enrolls the lead with the sales engagement platform.
Contact ==
  /\ inFlight /\ Watched /\ when["contact"] = "never"
  /\ Passed("contact")
  /\ UNCHANGED <<status, touched, overdue, inFlight, slaVars, timer, bullVars, workVars>>

\* first_touch_at becomes the time of the clock, and the update is sent.
Stamp ==
  /\ inFlight /\ when["contact"] # "never" /\ when["stamp"] = "never"
  /\ Passed("stamp")
  /\ UNCHANGED <<status, touched, overdue, inFlight, slaVars, timer, bullVars, workVars>>

\* The database carries the update out.
Touch ==
  /\ when["stamp"] # "never"
  /\ Row!Touch
  /\ Passed("record")
  /\ UNCHANGED <<overdue, slaVars, timer, bullVars, workVars>>

Park ==
  /\ when["contact"] = "never"
  /\ Row!Park
  /\ UNCHANGED <<overdue, when, slaVars, timer, bullVars, workVars>>

\* Also between two of the steps above: the lead is enrolled and the row does
\* not say so.
RunEnds ==
  /\ Row!RunEnds
  /\ UNCHANGED <<overdue, when, slaVars, timer, bullVars, workVars>>

DeadlinePasses ==
  /\ ~ overdue
  /\ overdue' = TRUE
  /\ UNCHANGED <<status, touched, inFlight, when, slaVars, timer, bullVars, workVars>>

\* addJob; the job is in the queue before the next call of the caller.
AddEscalation ==
  \E j \in Jobs :
    /\ jobState[j] = "absent"
    /\ jobState' = [jobState EXCEPT ![j] = "waiting"]
    /\ UNCHANGED <<fails, stalls>>

\* start_sequence finds no sales engagement platform: it escalates and throws.
EscalateNoSep ==
  /\ when["contact"] = "never"
  /\ Watched /\ Row!RunEnds
  /\ AddEscalation
  /\ UNCHANGED <<overdue, when, slaVars, timer, workVars>>
-----------------------------------------------------------------------------
(* sla-timer.ts *)

\* Mutant: the deadline is not part of the query.
SelectRunning(t) ==
  /\ timer[t] = "idle"
  /\ Watched
  /\ ~ breached
  /\ TimerGoes(t, "event")
  /\ UNCHANGED <<playVars, slaVars, bullVars, workVars>>

\* The query of checkBreachedPlays.
SelectBreached(t) ==
  /\ timer[t] = "idle"
  /\ Watched
  /\ overdue
  /\ ~ breached
  /\ TimerGoes(t, "event")
  /\ UNCHANGED <<playVars, slaVars, bullVars, workVars>>

\* A failed write of the event is logged to the console and forgotten.
LogBreach(t) ==
  /\ timer[t] = "event"
  /\ logged' = TRUE \/ UNCHANGED logged
  /\ TimerGoes(t, "update")
  /\ UNCHANGED <<playVars, breached, bullVars, workVars>>

\* Mutant: a play whose event could not be written is not marked either.
MarkIfLogged(t) ==
  /\ timer[t] = "update"
  /\ logged
  /\ breached' = TRUE
  /\ TimerGoes(t, "add")
  /\ UNCHANGED <<playVars, logged, bullVars, workVars>>

\* The update: unconditional, and its error is not looked at.
MarkBreached(t) ==
  /\ timer[t] = "update"
  /\ breached' = TRUE \/ UNCHANGED breached
  /\ TimerGoes(t, "add")
  /\ UNCHANGED <<playVars, logged, bullVars, workVars>>

EnqueueEscalation(t) ==
  /\ timer[t] = "add"
  /\ AddEscalation
  /\ TimerGoes(t, "idle")
  /\ UNCHANGED <<playVars, slaVars, workVars>>

\* addJob throws, which ends the whole pass, or the process dies.
TimerAborts(t) ==
  /\ timer[t] # "idle"
  /\ TimerGoes(t, "idle")
  /\ UNCHANGED <<playVars, slaVars, bullVars, workVars>>
-----------------------------------------------------------------------------
(* escalate.worker.ts *)

StartEscalation(j) ==
  /\ jobState[j] = "waiting"
  /\ jobState' = [jobState EXCEPT ![j] = "active"]
  /\ Goes(j, "load")
  /\ slackSent' = [slackSent EXCEPT ![j] = FALSE]
  /\ UNCHANGED <<playVars, slaVars, timer, fails, stalls, messages, answer>>

CompleteJob(j) ==
  /\ jobState' = [jobState EXCEPT ![j] = "completed"]
  /\ Goes(j, "idle")
  /\ UNCHANGED <<fails, stalls>>

\* A failed read of the play is taken for a play that does not exist.
LoadPlay(j) ==
  /\ step[j] = "load"
  /\ \/ Goes(j, "slack") /\ UNCHANGED bullVars
     \/ CompleteJob(j)
  /\ UNCHANGED <<playVars, slaVars, timer, slackSent, messages, answer>>

\* Mutant: only a thrown error counts as a failed notification.
PostSlackLoosely(j) ==
  /\ step[j] = "slack"
  /\ messages' = [messages EXCEPT ![j] = @ + 1] \/ UNCHANGED messages
  /\ slackSent' = [slackSent EXCEPT ![j] = TRUE]
  /\ Goes(j, "log")
  /\ UNCHANGED <<playVars, slaVars, timer, bullVars, answer>>

\* The Slack call never throws out of the worker; a message may also be
\* delivered although the call ends in a timeout.
PostSlack(j) ==
  /\ step[j] = "slack"
  /\ \/ /\ messages' = [messages EXCEPT ![j] = @ + 1]
        /\ slackSent' = [slackSent EXCEPT ![j] = TRUE]
     \/ /\ messages' = [messages EXCEPT ![j] = @ + 1] \/ UNCHANGED messages
        /\ UNCHANGED slackSent
  /\ Goes(j, "log")
  /\ UNCHANGED <<playVars, slaVars, timer, bullVars, answer>>

\* escalation_sent, whatever became of the message.
StoreAnswer(j) ==
  answer' = [answer EXCEPT ![j] = IF slackSent[j] \/ @ = "success" THEN "success" ELSE "failed"]

LogEscalation(j) ==
  /\ step[j] = "log"
  /\ StoreAnswer(j)
  /\ CompleteJob(j)
  /\ UNCHANGED <<playVars, slaVars, timer, slackSent, messages>>

\* Mutant: BullMQ does not take a failed attempt back.
LoseAttempt(j) ==
  /\ step[j] = "log"
  /\ fails' = [fails EXCEPT ![j] = @ + 1]
  /\ Goes(j, "idle")
  /\ UNCHANGED <<jobState, stalls, playVars, slaVars, timer, slackSent, messages, answer>>

\* writeEvent throws, also when the event was stored and the answer lost:
\* BullMQ runs the whole job again, or gives it up.
AttemptFails(j) ==
  /\ step[j] = "log"
  /\ fails' = [fails EXCEPT ![j] = @ + 1]
  /\ jobState' = [jobState EXCEPT ![j] =
                    IF fails[j] + 1 < MaxAttempts THEN "waiting" ELSE "failed"]
  /\ StoreAnswer(j) \/ UNCHANGED answer
  /\ Goes(j, "idle")
  /\ UNCHANGED <<stalls, playVars, slaVars, timer, slackSent, messages>>

\* The worker process dies: the job stalls.
WorkerDies(j) ==
  /\ jobState[j] = "active"
  /\ IF stalls[j] < MaxStalls
     THEN /\ stalls' = [stalls EXCEPT ![j] = @ + 1]
          /\ jobState' = [jobState EXCEPT ![j] = "waiting"]
     ELSE jobState' = [jobState EXCEPT ![j] = "failed"] /\ UNCHANGED stalls
  /\ Goes(j, "idle")
  /\ UNCHANGED <<fails, playVars, slaVars, timer, slackSent, messages, answer>>
-----------------------------------------------------------------------------
SlaInit ==
  /\ status = "running"
  /\ touched = FALSE
  /\ overdue = FALSE
  /\ inFlight = TRUE
  /\ when = [m \in Moments |-> "never"]
  /\ breached = FALSE
  /\ logged = FALSE
  /\ timer = [t \in Timers |-> "idle"]
  /\ jobState = [j \in Jobs |-> "absent"]
  /\ fails = [j \in Jobs |-> 0]
  /\ stalls = [j \in Jobs |-> 0]
  /\ step = [j \in Jobs |-> "idle"]
  /\ slackSent = [j \in Jobs |-> FALSE]
  /\ messages = [j \in Jobs |-> 0]
  /\ answer = [j \in Jobs |-> "none"]

Check(t) == SelectBreached(t) \/ LogBreach(t) \/ MarkBreached(t) \/ EnqueueEscalation(t)

Work(j) == LoadPlay(j) \/ PostSlack(j) \/ LogEscalation(j) \/ AttemptFails(j)

SlaNext ==
  \/ Contact \/ Stamp \/ Touch \/ Park \/ RunEnds \/ DeadlinePasses \/ EscalateNoSep
  \/ \E t \in Timers : Check(t) \/ TimerAborts(t)
  \/ \E j \in Jobs : StartEscalation(j) \/ Work(j) \/ WorkerDies(j)

SlaSpec == SlaInit /\ [][SlaNext]_watchVars

\* The timer runs every two minutes and does not fail for ever; BullMQ hands
\* out waiting jobs, and an awaited call of the worker returns or throws.
SlaFairness ==
  /\ \A t \in Timers :
       /\ WF_watchVars(SelectBreached(t)) /\ SF_watchVars(LogBreach(t))
       /\ SF_watchVars(MarkBreached(t) /\ breached')
       /\ WF_watchVars(EnqueueEscalation(t) \/ TimerAborts(t))
  /\ \A j \in Jobs : WF_watchVars(StartEscalation(j)) /\ WF_watchVars(Work(j))

SlaFairSpec == SlaSpec /\ SlaFairness
-----------------------------------------------------------------------------
(* Correctness *)

SlaTypeOK ==
  /\ status \in {"running", "completed", "nurture", "paused"}
  /\ touched \in BOOLEAN /\ overdue \in BOOLEAN
  /\ inFlight \in BOOLEAN
  /\ when \in [Moments -> {"never", "in_time", "late"}]
  /\ breached \in BOOLEAN /\ logged \in BOOLEAN
  /\ timer \in [Timers -> TimerSteps]
  /\ jobState \in [Jobs -> JobStates]
  /\ fails \in [Jobs -> Nat]
  /\ stalls \in [Jobs -> Nat]
  /\ step \in [Jobs -> WorkSteps]
  /\ slackSent \in [Jobs -> BOOLEAN]
  /\ messages \in [Jobs -> Nat]
  /\ answer \in [Jobs -> {"none", "success", "failed"}]

\* A play counts as breached, in its row or in the event log, only if its
\* deadline has passed and its row did not show a first touch by then: although
\* the timer marks it long after it looked, without looking again, and passes
\* overlap.  The row is all the timer sees; of the lead itself see
\* BreachedIsUncontacted below.
BreachIsReal == breached \/ logged => overdue /\ when["record"] # "in_time"

\* An escalation recorded as sent was delivered to Slack.
SentIsDelivered == \A j \in Jobs : answer[j] = "success" => messages[j] > 0

\* A lead whose first touch stays overdue is found by the timer, also when the
\* passes that found it before failed on the way.
NeglectedIsMarked == (overdue /\ Watched) ~> (breached \/ ~ Watched)

\* An escalation in the queue is completed or given up.
EscalationsSettle ==
  \A j \in Jobs : jobState[j] = "waiting" ~> jobState[j] \in {"completed", "failed"}
-----------------------------------------------------------------------------
(* What the documentation says and the code does not do *)

\* DEMO.md: "Every breach triggers an escalation".
EveryBreachEscalates == breached ~> \E j \in Jobs : jobState[j] # "absent"

\* escalate.worker.ts:64 tells the managers "Lead Uncontacted": a touch that was
\* made, and even stamped, before the deadline is marked all the same when the
\* timer looks before the update of the row has come through.
BreachedIsUncontacted == breached => when["contact"] # "in_time"
StampedIsNotBreached  == breached => when["stamp"] # "in_time"

-----------------------------------------------------------------------------
(* The inductive invariant *)

\* A timer that is past its query works on a play whose row missed the deadline.
TimersJustified ==
  /\ \A t \in Timers : timer[t] # "idle" => overdue /\ when["record"] # "in_time"
  /\ when["record"] # "never" => touched
  /\ touched => status # "running"
  /\ breached \/ logged => overdue /\ when["record"] # "in_time"

\* What a worker believes about its message, and what the event log says, is so.
AnswersJustified ==
  \A j \in Jobs : slackSent[j] \/ answer[j] = "success" => messages[j] > 0

SlaInvariant == SlaTypeOK /\ TimersJustified /\ AnswersJustified

=============================================================================
