-------------------------- MODULE ActionLedgerProofs --------------------------
(***************************************************************************)
(* LedgerInvariant is inductive, for any jobs, attempts and errors.  A     *)
(* proposal carries no key, so that the table has no row to deduplicate    *)
(* by, and each action of a run happens once, in the order of the graph.   *)
(***************************************************************************)
EXTENDS ActionLedger, TLAPS

\* A run that a step leaves alone stays where it was.
LEMMA OtherRuns ==
  ASSUME LedgerInvariant, NEW s \in Runs,
         UNCHANGED <<pc[s], act[s], match[s], written[s], log[s], lost[s]>>
  PROVE  PlaceOfRun(s)'
  BY DEF LedgerInvariant, PlaceOfRun, Before, Path, Untouched, Open, Achieved, Told, Done, Has

\* What the parts say of the run when it ends, fails or goes on.
RunSafe(r) ==
  /\ PlaceOfRun(r)
  /\ pc[r] = "done" => \A a \in Path(r) : Done(r, a)
  /\ \A a \in Actions :
       /\ written[r][a] > 0 => Has(r, "started", a)
       /\ Has(r, "succeeded", a) => Done(r, a)
       /\ Has(r, "failed", a) => Has(r, "started", a)
       /\ Has(r, "succeeded", a) /\ Has(r, "failed", a) =>
            act[r] = a /\ pc[r] \in {"report", "failed", "dead"}
  /\ pc[r] = "failed" /\ lost[r] <= 1 => \A a \in Actions : Told(r, a)

LEMMA InvariantByRuns == (\A r \in Runs : RunSafe(r)) /\ TypeOK /\ NeverARow <=> LedgerInvariant
  BY DEF LedgerInvariant, RunSafe, FinishedHasEffects, TrailTruthful, EffectsAreTold

\* The initial state.
LEMMA InitSafe == ASSUME LedgerAssumption, Init PROVE LedgerInvariant
<1>1. TypeOK
  BY DEF Init, TypeOK, Places, Ended
<1>2. NeverARow
  BY DEF Init, NeverARow
<1>3. ASSUME NEW r \in Runs PROVE RunSafe(r)
  BY <1>3 DEF Init, RunSafe, PlaceOfRun, Untouched, Has, Told, Walking, Ended
<1> QED
  BY <1>1, <1>2, <1>3, InvariantByRuns

\* No event with a key is a proposal, and no row ever appears.
LEMMA StepKeepsNeverARow ==
  ASSUME LedgerInvariant, NEW r \in Runs, Step(r) \/ Crash(r)
  PROVE  NeverARow'
<1> USE DEF LedgerInvariant, NeverARow
<1>1. table' = table
  BY DEF Step, Crash, Begin, Validate, NoMatch, Bypass, Propose, Choose, CheckKey, LogStarted, Work,
         WorkFails, LogSucceeded, LogFailed, Report, Finish, EventRefused, PrepareFails,
         SnapshotFails
<1>2. ASSUME NEW e, Write(r, e), e.keyed => e.kind # "proposed"
      PROVE  \A p \in pending' : p.event.kind # "proposed"
  BY <1>2 DEF Write
<1>3. \A p \in pending' : p.event.kind # "proposed"
  <2>1. CASE UNCHANGED pending
    BY <2>1
  <2>2. CASE Bypass(r)
    BY <2>2, <1>2 DEF Bypass, Event
  <2>3. CASE Propose(r)
    BY <2>3, <1>2 DEF Propose, Event
  <2>4. CASE CheckKey(r)
    BY <2>4, <1>2 DEF CheckKey, Event, Unlogged
  <2>5. CASE LogStarted(r)
    BY <2>5, <1>2 DEF LogStarted, Event
  <2>6. CASE LogSucceeded(r)
    BY <2>6, <1>2 DEF LogSucceeded, Event
  <2>7. CASE LogFailed(r)
    BY <2>7, <1>2 DEF LogFailed, Event
  <2>8. CASE Report(r)
    BY <2>8, <1>2 DEF Report, Event
  <2>9. CASE Finish(r)
    BY <2>9, <1>2 DEF Finish, Event
  <2>10. CASE Crash(r)
    BY <2>10 DEF Crash
  <2> QED
    BY <2>1, <2>2, <2>3, <2>4, <2>5, <2>6, <2>7, <2>8, <2>9, <2>10
       DEF Step, Begin, Validate, NoMatch, Choose, Work, WorkFails, EventRefused, Thrown, Store,
           Unlogged, PrepareFails, SnapshotFails
<1> QED
  BY <1>1, <1>3

\* Types are kept.
LEMMA StepKeepsTypes ==
  ASSUME LedgerInvariant, NEW r \in Runs, Step(r) \/ Crash(r)
  PROVE  TypeOK'
<1> USE DEF LedgerInvariant, TypeOK
<1>1. ASSUME NEW place \in Places, NEW a \in Actions \cup {None}, Move(r, place, a)
      PROVE  pc' \in [Runs -> Places] /\ act' \in [Runs -> Actions \cup {None}]
  BY <1>1 DEF Move
<1>2. ASSUME NEW e \in Events, Write(r, e)
      PROVE  log' \in [Runs -> SUBSET Events] /\ pending' \in SUBSET [run : Runs, event : Events]
  <2>1. log' \in [Runs -> SUBSET Events]
    BY <1>2 DEF Write
  <2>2. \A x \in {y \in {e} : y.keyed} : [run |-> r, event |-> x] \in [run : Runs, event : Events]
    OBVIOUS
  <2>3. pending' \in SUBSET [run : Runs, event : Events]
    BY <1>2, <2>2 DEF Write
  <2> QED
    BY <2>1, <2>3
<1>2a. ASSUME NEW e \in Events, Store(r, e)
       PROVE  log' \in [Runs -> SUBSET Events]
  BY <1>2a DEF Store
<1>3. ASSUME Advance(r), act[r] \in Actions
      PROVE  pc' \in [Runs -> Places] /\ act' \in [Runs -> Actions \cup {None}]
  BY <1>3, <1>1 DEF Advance, Places, Actions
<1>4. ASSUME NEW kind \in Statuses \cup {"found", "node_failed", "marked", "completed"},
             NEW a \in Actions \cup {None}, NEW keyed \in BOOLEAN
      PROVE  Event(kind, a, keyed) \in Events
  BY DEF Event, Events
<1>5. pc[r] \in Places /\ act[r] \in Actions \cup {None}
  OBVIOUS
<1>6. pc[r] \in Walking \ {"propose", "report"} => act[r] \in Actions
  BY DEF PlaceOfRun
<1>7. CASE Begin(r)
  BY <1>7, <1>1 DEF Begin, Places, Unlogged
<1>8. CASE Validate(r)
  BY <1>8, <1>1 DEF Validate, Places, Unlogged, Actions
<1>9. CASE NoMatch(r)
  BY <1>9, <1>1 DEF NoMatch, Places, Unlogged, Actions
<1>10. CASE Bypass(r)
  BY <1>10, <1>1, <1>2, <1>4 DEF Bypass, Places, Actions
<1>11. CASE Propose(r)
  BY <1>11, <1>1, <1>2, <1>4 DEF Propose, Places, Actions, Statuses
<1>12. CASE Choose(r)
  BY <1>12, <1>1, <1>5 DEF Choose, Places, Actions, Unlogged
<1>13. CASE CheckKey(r)
  <2>1. act[r] \in Actions
    BY <1>13, <1>6 DEF CheckKey, Walking, Places, Ended
  <2>2. CASE Write(r, Event("deduplicated", act[r], TRUE)) /\ Advance(r)
    BY <1>13, <2>1, <2>2, <1>2, <1>3, <1>4 DEF CheckKey, Statuses
  <2>3. CASE Move(r, "start", act[r]) /\ Unlogged
    BY <1>13, <2>1, <2>3, <1>1 DEF CheckKey, Places, Unlogged
  <2> QED
    BY <1>13, <2>2, <2>3 DEF CheckKey
<1>14. CASE LogStarted(r)
  BY <1>14, <1>1, <1>2, <1>4, <1>5 DEF LogStarted, Places, Statuses
<1>15. CASE Work(r)
  <2>1. act[r] \in Actions
    BY <1>15, <1>6 DEF Work, Walking, Places, Ended
  <2>2. written' \in [Runs -> [Actions -> Nat]]
    BY <1>15, <2>1 DEF Work, Effect
  <2> QED
    BY <1>15, <2>1, <2>2, <1>1 DEF Work, Places, Unlogged
<1>16. CASE WorkFails(r)
  <2>1. act[r] \in Actions
    BY <1>16, <1>6 DEF WorkFails, Walking, Places, Ended
  <2>2. written' \in [Runs -> [Actions -> Nat]]
    <3>1. CASE Effect(r)
      BY <3>1, <2>1 DEF Effect
    <3>2. CASE UNCHANGED written
      BY <3>2
    <3> QED
      BY <1>16, <3>1, <3>2 DEF WorkFails
  <2> QED
    BY <1>16, <2>1, <2>2, <1>1 DEF WorkFails, Places, Unlogged
<1>17. CASE LogSucceeded(r)
  <2>1. act[r] \in Actions
    BY <1>17, <1>6 DEF LogSucceeded, Walking, Places, Ended
  <2> QED
    BY <1>17, <2>1, <1>2, <1>3, <1>4 DEF LogSucceeded, Statuses
<1>18. CASE LogFailed(r)
  BY <1>18, <1>1, <1>2, <1>4, <1>5 DEF LogFailed, Places, Statuses
<1>19. CASE Report(r)
  BY <1>19, <1>1, <1>2, <1>4, <1>5 DEF Report, Places
<1>20. CASE Finish(r)
  BY <1>20, <1>1, <1>2, <1>4, <1>5 DEF Finish, Places
<1>21. CASE EventRefused(r)
  <2>1. Due(r) \subseteq Events
    <3>1. \A a \in Actions \cup {None} :
            /\ Event("proposed", a, FALSE) \in Events
            /\ \A kind \in Statuses : Event(kind, a, TRUE) \in Events
            /\ Event("node_failed", a, FALSE) \in Events
      BY <1>4 DEF Statuses
    <3>2. Event("marked", None, FALSE) \in Events /\ Event("completed", None, FALSE) \in Events
      BY <1>4
    <3>3. {"assign_owner", "request_human_review"} \subseteq Actions
          /\ {"deduplicated", "started", "succeeded", "failed"} \subseteq Statuses
      BY DEF Actions, Statuses
    <3>4. ASSUME NEW e \in Due(r), pc[r] = "propose" PROVE e \in Events
      BY <1>5, <3>1, <3>3, <3>4 DEF Due
    <3>5. ASSUME NEW e \in Due(r), pc[r] # "propose" PROVE e \in Events
      <4> HIDE DEF LedgerInvariant, TypeOK
      <4> QED
        BY <1>5, <3>1, <3>2, <3>3, <3>5 DEF Due
    <3> QED
      BY <3>4, <3>5
  <2>2. /\ lost' \in [Runs -> Nat]
        /\ log' \in [Runs -> SUBSET Events]
        /\ pending' \in SUBSET [run : Runs, event : Events]
    <3>1. CASE lost' = [lost EXCEPT ![r] = @ + 1] /\ Unlogged
      BY <3>1 DEF Unlogged
    <3>2. CASE (\E e \in Due(r) : Store(r, e)) /\ UNCHANGED lost
      <4>1. PICK e \in Due(r) : Store(r, e)
        BY <3>2
      <4>2. log' \in [Runs -> SUBSET Events]
        BY <1>2a, <2>1, <4>1
      <4> QED
        BY <3>2, <4>1, <4>2 DEF Store
    <3> QED
      BY <1>21, <3>1, <3>2 DEF EventRefused, Thrown
  <2> QED
    BY <1>21, <1>1, <1>5, <2>2 DEF EventRefused, Places
<1>22. CASE PrepareFails(r)
  BY <1>22, <1>1, <1>5 DEF PrepareFails, Places, Unlogged
<1>23. CASE SnapshotFails(r)
  BY <1>23, <1>1, <1>5 DEF SnapshotFails, Places, Unlogged
<1>24. CASE Crash(r)
  BY <1>24, <1>1, <1>5 DEF Crash, Places
<1> QED
  BY <1>7, <1>8, <1>9, <1>10, <1>11, <1>12, <1>13, <1>14, <1>15, <1>16, <1>17, <1>18, <1>19, <1>20,
     <1>21, <1>22, <1>23, <1>24 DEF Step

LEMMA AfterMove ==
  ASSUME TypeOK, NEW r \in Runs, NEW place, NEW a, Move(r, place, a)
  PROVE  pc'[r] = place /\ act'[r] = a
  BY DEF Move, TypeOK

LEMMA AfterWrite ==
  ASSUME TypeOK, NEW r \in Runs, NEW e, Write(r, e)
  PROVE  log'[r] = log[r] \cup {e}
  BY DEF Write, TypeOK

LEMMA AfterStore ==
  ASSUME TypeOK, NEW r \in Runs, NEW e, Store(r, e)
  PROVE  log'[r] = log[r] \cup {e}
  BY DEF Store, TypeOK

LEMMA EventAdded ==
  ASSUME NEW r \in Runs, NEW kind, NEW a, NEW keyed, log'[r] = log[r] \cup {Event(kind, a, keyed)}
  PROVE  /\ Has(r, kind, a)'
         /\ kind # "started" => (Has(r, "started", a)' <=> Has(r, "started", a))
         /\ kind # "succeeded" => (Has(r, "succeeded", a)' <=> Has(r, "succeeded", a))
         /\ kind # "failed" => (Has(r, "failed", a)' <=> Has(r, "failed", a))
<1> DEFINE e == Event(kind, a, keyed)
<1>1. e \in log'[r] /\ e.kind = kind /\ e.act = a
  BY DEF Event
<1>2. Has(r, kind, a)'
  BY <1>1 DEF Has
<1>3. \A k : k # kind => \A x \in log'[r] : x.kind = k => x \in log[r]
  BY DEF Event
<1> QED
  BY <1>2, <1>3 DEF Has

\* RunSafe in two halves: the actions a run is not at, and the one it is at.
OthersSafe(r) ==
  /\ \A a \in Before(r) : Achieved(r, a)
  /\ \A a \in Actions \ Path(r) : Untouched(r, a)

AtPlace(r, a) ==
  /\ match[r] # None => a = "start_sequence"
  /\ pc[r] \notin {"propose", "report", "failed", "dead"} => a \in Actions
  /\ pc[r] = "propose" => a \in {None, "qualify_lead"}
  /\ pc[r] = "choose" => a \in {"assign_owner", "request_human_review"}
  /\ pc[r] \in {"propose", "choose", "check", "start"} /\ a # None => Untouched(r, a)
  /\ pc[r] = "work" => Open(r, a) /\ written[r][a] < Writes[a]
  /\ pc[r] = "succeed" => Open(r, a) /\ Done(r, a)
  /\ pc[r] = "fail" => Has(r, "started", a) /\ ~Has(r, "failed", a)
  /\ pc[r] \in {"mark", "complete", "done"} => Achieved(r, a)
  /\ pc[r] \notin {"fail", "report"} \cup Ended => lost[r] = 0
  /\ a \in Actions /\ pc[r] = "report" /\ lost[r] = 0 => Told(r, a)
  /\ a \in Actions /\ pc[r] = "failed" /\ lost[r] <= 1 => Told(r, a)
  /\ a \in Actions =>
       /\ written[r][a] > 0 => Has(r, "started", a)
       /\ Has(r, "succeeded", a) => Done(r, a)
       /\ Has(r, "failed", a) => Has(r, "started", a)
       /\ Has(r, "succeeded", a) /\ Has(r, "failed", a) => pc[r] \in {"report", "failed", "dead"}

LEMMA NotBefore ==
  ASSUME NEW r \in Runs, act[r] \in Actions \cup {None}
  PROVE  Before(r) \subseteq Actions /\ act[r] \notin Before(r)
  BY DEF Before, Actions, None

LEMMA Halves ==
  ASSUME LedgerInvariant, NEW r \in Runs, pc[r] \in Walking
  PROVE  OthersSafe(r) /\ AtPlace(r, act[r])
<1>1. TypeOK /\ RunSafe(r) /\ PlaceOfRun(r)
  BY InvariantByRuns DEF RunSafe
<1>2. pc[r] \notin Ended /\ pc[r] \notin {"idle", "validate", "match"}
  BY DEF Walking, Ended
<1>3. OthersSafe(r)
  BY <1>1 DEF OthersSafe, PlaceOfRun
<1>4. AtPlace(r, act[r])
  BY <1>1, <1>2 DEF AtPlace, RunSafe, PlaceOfRun, Walking, Ended
<1> QED
  BY <1>3, <1>4

LEMMA Composed ==
  ASSUME NEW r \in Runs, NEW a \in Actions \cup {None}, act'[r] = a,
         pc'[r] \in Walking \cup Ended, OthersSafe(r)', AtPlace(r, a)', TypeOK'
  PROVE  RunSafe(r)'
<1> DEFINE Truth(b) == /\ (written[r][b] > 0 => Has(r, "started", b))'
                       /\ (Has(r, "succeeded", b) => Done(r, b))'
                       /\ (Has(r, "failed", b) => Has(r, "started", b))'
                       /\ (Has(r, "succeeded", b) /\ Has(r, "failed", b) =>
                             act[r] = b /\ pc[r] \in {"report", "failed", "dead"})'
<1>1. \A b \in Actions : b = a \/ Achieved(r, b)' \/ Untouched(r, b)'
  BY DEF OthersSafe, Path
<1>2. \A b \in Actions : Achieved(r, b)' \/ Untouched(r, b)' => Truth(b) /\ Told(r, b)'
  BY DEF Achieved, Untouched, Told, Done
<1>3. \A b \in Actions : Truth(b)
  BY <1>1, <1>2 DEF AtPlace
<1>4. (pc[r] = "done" => \A b \in Path(r) : Done(r, b))'
  BY DEF OthersSafe, AtPlace, Path, Achieved
<1>5. (pc[r] = "failed" /\ lost[r] <= 1 => \A b \in Actions : Told(r, b))'
  BY <1>1, <1>2 DEF AtPlace
<1>6. (pc[r] = "report" /\ lost[r] = 0 => \A b \in Actions : Told(r, b))'
  BY <1>1, <1>2 DEF AtPlace
<1>7. PlaceOfRun(r)'
  BY <1>6 DEF AtPlace, OthersSafe, PlaceOfRun, Walking, Ended
<1> QED
  BY <1>3, <1>4, <1>5, <1>7 DEF RunSafe

\* A step that stays with its action leaves the others alone.
LEMMA SameAction ==
  ASSUME LedgerInvariant, NEW r \in Runs, pc[r] \in Walking,
         act'[r] = act[r], match'[r] = match[r],
         \A a \in Actions \ {act[r]} :
           /\ written'[r][a] = written[r][a]
           /\ Has(r, "started", a)' <=> Has(r, "started", a)
           /\ Has(r, "succeeded", a)' <=> Has(r, "succeeded", a)
           /\ Has(r, "failed", a)' <=> Has(r, "failed", a)
  PROVE  OthersSafe(r)'
<1>1. OthersSafe(r) /\ TypeOK
  BY Halves DEF LedgerInvariant
<1>2. Before(r)' = Before(r)
  BY DEF Before
<1>3. Before(r) \subseteq Actions /\ act[r] \notin Before(r)
  BY <1>1, NotBefore DEF TypeOK
<1>4. \A a \in Actions \ {act[r]} : /\ Achieved(r, a) => Achieved(r, a)'
                                   /\ Untouched(r, a) => Untouched(r, a)'
  BY DEF Achieved, Untouched, Done
<1>5. Path(r)' = Path(r)
  BY <1>2 DEF Path
<1>6. ASSUME NEW a \in Actions, a \in Before(r)' PROVE Achieved(r, a)'
  <2>1. a \in Before(r) /\ a # act[r]
    BY <1>2, <1>3, <1>6
  <2>2. Achieved(r, a)
    BY <1>1, <2>1 DEF OthersSafe
  <2> QED
    BY <1>4, <2>1, <2>2 DEF Achieved, Untouched, Done, Has
<1>7. ASSUME NEW a \in Actions, a \notin Path(r)' PROVE Untouched(r, a)'
  <2>1. a \notin Path(r) /\ a # act[r]
    BY <1>5, <1>7 DEF Path
  <2>2. Untouched(r, a)
    BY <1>1, <2>1 DEF OthersSafe
  <2> QED
    BY <1>4, <2>1, <2>2 DEF Achieved, Untouched, Done, Has
<1>8. Before(r)' \subseteq Actions
  BY <1>2, <1>3
<1> QED
  BY <1>6, <1>7, <1>8 DEF OthersSafe

LEMMA StayWithAction ==
  ASSUME LedgerInvariant, TypeOK', NEW r \in Runs, pc[r] \in Walking,
         NEW a \in Actions \cup {None}, act[r] = a, act'[r] = a, match'[r] = match[r],
         pc'[r] \in Walking \cup Ended, AtPlace(r, a)',
         \A b \in Actions \ {a} : written'[r][b] = written[r][b],
         \/ log'[r] = log[r]
         \/ \E kind, keyed : log'[r] = log[r] \cup {Event(kind, a, keyed)}
         \/ \E kind, keyed : log'[r] = log[r] \cup {Event(kind, None, keyed)}
         \/ \E b, keyed : log'[r] = log[r] \cup {Event("proposed", b, keyed)}
  PROVE  RunSafe(r)'
<1>1. ASSUME NEW b \in Actions \ {a}, NEW k \in {"started", "succeeded", "failed"}
      PROVE  Has(r, k, b)' <=> Has(r, k, b)
  BY DEF Has, Event, Actions, None
<1>2. OthersSafe(r)'
  BY <1>1, SameAction DEF Has
<1> QED
  BY <1>2, Composed

LEMMA TurnToAction ==
  ASSUME LedgerInvariant, TypeOK', NEW r \in Runs, pc[r] \in Walking,
         NEW a \in Actions \cup {None}, NEW b \in Actions \cup {None},
         act[r] = a, act'[r] = b, match'[r] = match[r], written'[r] = written[r],
         Before(r)' = Before(r), a \in Actions => Untouched(r, a), b \notin Before(r),
         \/ log'[r] = log[r]
         \/ \E c, keyed : log'[r] = log[r] \cup {Event("proposed", c, keyed)},
         pc'[r] \in Walking, AtPlace(r, b)'
  PROVE  RunSafe(r)'
<1>1. OthersSafe(r) /\ TypeOK
  BY Halves DEF LedgerInvariant
<1>2. ASSUME NEW c \in Actions, NEW k \in {"started", "succeeded", "failed"}
      PROVE  Has(r, k, c)' <=> Has(r, k, c)
  BY DEF Has, Event
<1>3. Before(r) \subseteq Actions
  BY <1>1, NotBefore DEF TypeOK
<1>4. ASSUME NEW c \in Actions, c \in Before(r)' PROVE Achieved(r, c)'
  <2>1. Achieved(r, c)
    BY <1>1, <1>4 DEF OthersSafe
  <2> QED
    BY <1>2, <2>1 DEF Achieved, Done, Has
<1>5. ASSUME NEW c \in Actions, c \notin Path(r)' PROVE Untouched(r, c)'
  <2>1. Untouched(r, c)
    BY <1>1, <1>5 DEF OthersSafe, Path
  <2> QED
    BY <1>2, <2>1 DEF Untouched, Has
<1>6. OthersSafe(r)'
  BY <1>3, <1>4, <1>5 DEF OthersSafe
<1> QED
  BY <1>6, Composed

\* The steps of a run on its way.
LEMMA WalkStep ==
  ASSUME LedgerInvariant, NEW r \in Runs, pc[r] \in Walking, Step(r) \/ Crash(r)
  PROVE  RunSafe(r)'
<1>1. TypeOK /\ TypeOK' /\ OthersSafe(r) /\ AtPlace(r, act[r]) /\ NeverARow
  BY StepKeepsTypes, Halves DEF LedgerInvariant
<1>2. PICK a \in Actions \cup {None} : act[r] = a
  BY <1>1 DEF TypeOK
<1>3. written[r] \in [Actions -> Nat] /\ lost[r] \in Nat /\ written'[r] \in [Actions -> Nat]
  BY <1>1 DEF TypeOK
<1>4. Writes \in [Actions -> Nat \ {0}]
  BY DEF Writes, Actions
<1>5. AtPlace(r, a)
  BY <1>1, <1>2
<1> USE <1>1, <1>2
<1>10. CASE LogStarted(r)
  <2>1. pc[r] = "start" /\ pc'[r] = "work" /\ act'[r] = a /\ match'[r] = match[r]
        /\ written'[r] = written[r] /\ lost'[r] = lost[r]
    BY <1>10, AfterMove DEF LogStarted
  <2>2. log'[r] = log[r] \cup {Event("started", a, TRUE)}
    BY <1>10, AfterWrite DEF LogStarted
  <2>3. AtPlace(r, a)'
    <3>1. /\ Has(r, "started", a)'
          /\ Has(r, "succeeded", a)' <=> Has(r, "succeeded", a)
          /\ Has(r, "failed", a)' <=> Has(r, "failed", a)
      BY <2>2, EventAdded
    <3> QED
      BY <1>3, <1>4, <1>5, <2>1, <3>1
         DEF AtPlace, Untouched, Open, Told, Done, Ended, Actions, None
  <2> QED
    BY <2>1, <2>2, <2>3, StayWithAction DEF Walking, Places, Ended
<1>11. CASE Work(r)
  <2>1. pc[r] = "work" /\ act'[r] = a /\ match'[r] = match[r] /\ lost'[r] = lost[r]
        /\ pc'[r] = (IF written[r][a] + 1 = Writes[a] THEN "succeed" ELSE "work")
    BY <1>11, AfterMove DEF Work
  <2>2. log'[r] = log[r]
    BY <1>11 DEF Work, Unlogged
  <2>3. a \in Actions
    BY <1>5, <2>1 DEF AtPlace
  <2>4. written'[r][a] = written[r][a] + 1
        /\ \A b \in Actions \ {a} : written'[r][b] = written[r][b]
    BY <1>11, <2>3 DEF Work, Effect, TypeOK
  <2>5. AtPlace(r, a)'
    BY <1>3, <1>4, <1>5, <2>1, <2>2, <2>3, <2>4
       DEF AtPlace, Open, Done, Has, Ended, None
  <2> QED
    BY <2>1, <2>2, <2>4, <2>5, StayWithAction DEF Walking, Places, Ended
<1>12. CASE WorkFails(r)
  <2>1. pc[r] = "work" /\ pc'[r] = "fail" /\ act'[r] = a /\ match'[r] = match[r]
        /\ lost'[r] = lost[r]
    BY <1>12, AfterMove DEF WorkFails
  <2>2. log'[r] = log[r]
    BY <1>12 DEF WorkFails, Unlogged
  <2>3. a \in Actions /\ Open(r, a)
    BY <1>5, <2>1 DEF AtPlace
  <2>4. \A b \in Actions \ {a} : written'[r][b] = written[r][b]
    BY <1>12, <2>3 DEF WorkFails, Effect, TypeOK
  <2>5. AtPlace(r, a)'
    BY <1>3, <1>4, <1>5, <2>1, <2>2, <2>3 DEF AtPlace, Open, Done, Has, Ended, None
  <2> QED
    BY <2>1, <2>2, <2>4, <2>5, StayWithAction DEF Walking, Places, Ended
<1>13. CASE LogFailed(r)
  <2>1. pc[r] = "fail" /\ pc'[r] = "report" /\ act'[r] = a /\ match'[r] = match[r]
        /\ written'[r] = written[r] /\ lost'[r] = lost[r]
    BY <1>13, AfterMove DEF LogFailed
  <2>2. log'[r] = log[r] \cup {Event("failed", a, TRUE)}
    BY <1>13, AfterWrite DEF LogFailed, Unlogged
  <2>3. AtPlace(r, a)'
    <3>1. /\ Has(r, "failed", a)'
          /\ Has(r, "started", a)' <=> Has(r, "started", a)
          /\ Has(r, "succeeded", a)' <=> Has(r, "succeeded", a)
      BY <2>2, EventAdded
    <3> QED
      BY <1>3, <1>4, <1>5, <2>1, <3>1
         DEF AtPlace, Untouched, Open, Told, Done, Ended, Actions, None
  <2> QED
    BY <2>1, <2>2, <2>3, StayWithAction DEF Walking, Places, Ended
<1>14. CASE Report(r)
  <2>1. pc[r] = "report" /\ pc'[r] = "failed" /\ act'[r] = a /\ match'[r] = match[r]
        /\ written'[r] = written[r] /\ lost'[r] = lost[r]
    BY <1>14, AfterMove DEF Report
  <2>2. log'[r] = log[r] \cup {Event("node_failed", a, FALSE)}
    BY <1>14, AfterWrite DEF Report, Unlogged
  <2>3. AtPlace(r, a)'
    <3>1. Has(r, "node_failed", a)'
      <4> DEFINE e == Event("node_failed", a, FALSE)
      <4>1. e \in log'[r] /\ e.kind = "node_failed" /\ e.act = a
        BY <2>2 DEF Event
      <4> QED
        BY <4>1 DEF Has
    <3>2. /\ Has(r, "started", a)' <=> Has(r, "started", a)
          /\ Has(r, "succeeded", a)' <=> Has(r, "succeeded", a)
          /\ Has(r, "failed", a)' <=> Has(r, "failed", a)
      BY <2>2 DEF Has, Event
    <3> QED
      BY <1>3, <1>4, <1>5, <2>1, <3>1, <3>2
         DEF AtPlace, Untouched, Open, Told, Done, Ended, Actions, None
  <2> QED
    BY <2>1, <2>2, <2>3, StayWithAction DEF Walking, Places, Ended
<1>15. CASE PrepareFails(r)
  <2>1. pc[r] = "check" /\ pc'[r] = "report" /\ act'[r] = a /\ match'[r] = match[r]
        /\ written'[r] = written[r] /\ lost'[r] = lost[r]
    BY <1>15, AfterMove DEF PrepareFails
  <2>2. log'[r] = log[r]
    BY <1>15, AfterWrite DEF PrepareFails, Unlogged
  <2>3. AtPlace(r, a)'
    BY <1>3, <1>4, <1>5, <2>1, <2>2
       DEF AtPlace, Untouched, Open, Achieved, Told, Done, Has, Event, Ended, Actions, None
  <2> QED
    BY <2>1, <2>2, <2>3, StayWithAction DEF Walking, Places, Ended
<1>16. CASE SnapshotFails(r)
  <2>1. pc[r] \in {"propose", "check", "complete"} /\ pc'[r] = "failed" /\ act'[r] = a
        /\ match'[r] = match[r] /\ written'[r] = written[r] /\ lost'[r] = lost[r]
    BY <1>16, AfterMove DEF SnapshotFails, Walking
  <2>2. log'[r] = log[r]
    BY <1>16, AfterWrite DEF SnapshotFails, Unlogged
  <2>3. AtPlace(r, a)'
    BY <1>3, <1>4, <1>5, <2>1, <2>2
       DEF AtPlace, Untouched, Open, Achieved, Told, Done, Has, Event, Ended, Actions, None
  <2> QED
    BY <2>1, <2>2, <2>3, StayWithAction DEF Walking, Places, Ended
<1>17. CASE Crash(r)
  <2>1. pc[r] \in Walking /\ pc'[r] = "dead" /\ act'[r] = a /\ match'[r] = match[r]
        /\ written'[r] = written[r] /\ lost'[r] = lost[r]
    BY <1>17, AfterMove DEF Crash
  <2>2. log'[r] = log[r]
    BY <1>17, AfterWrite DEF Crash, Unlogged
  <2>3. AtPlace(r, a)'
    BY <1>3, <1>4, <1>5, <2>1, <2>2
       DEF AtPlace, Untouched, Open, Achieved, Told, Done, Has, Event, Ended, Actions, None
  <2> QED
    BY <2>1, <2>2, <2>3, StayWithAction DEF Walking, Places, Ended
<1>18. CASE Finish(r)
  <2>1. pc[r] \in {"mark", "complete"} /\ pc'[r] = "done" /\ act'[r] = a
        /\ match'[r] = match[r] /\ written'[r] = written[r] /\ lost'[r] = lost[r]
    BY <1>18, AfterMove DEF Finish
  <2>2. PICK kind \in {"marked", "completed"} : log'[r] = log[r] \cup {Event(kind, None, FALSE)}
    BY <1>18, AfterWrite DEF Finish
  <2>3. AtPlace(r, a)'
    BY <1>3, <1>4, <1>5, <2>1, <2>2 DEF AtPlace, Achieved, Told, Done, Has, Event, Ended, Actions, None
  <2> QED
    BY <2>1, <2>2, <2>3, StayWithAction DEF Walking, Places, Ended
<1>19. CASE EventRefused(r)
  <2>1. act'[r] = a /\ match'[r] = match[r] /\ written'[r] = written[r]
        /\ \/ Logging(r) /\ pc'[r] = "report"
           \/ pc[r] = "succeed" /\ pc'[r] = "fail"
           \/ pc[r] = "report" /\ pc'[r] = "failed"
    BY <1>19, AfterMove DEF EventRefused, TypeOK
  <2>2. pc[r] \in {"propose", "start", "succeed", "fail", "report", "mark", "complete"}
    <3>1. pc[r] = "check" => ~Known(r, a)
      BY <1>5 DEF AtPlace, Known, Key, Keys, NeverARow, Runs
    <3> QED
      BY <2>1, <3>1 DEF Logging
  <2>3. CASE lost' = [lost EXCEPT ![r] = @ + 1] /\ Unlogged
    <3>1. log'[r] = log[r] /\ lost'[r] = lost[r] + 1
      BY <2>3 DEF TypeOK, Unlogged
    <3>2. AtPlace(r, a)'
      BY <1>3, <1>4, <1>5, <2>1, <2>2, <3>1
         DEF AtPlace, Untouched, Open, Achieved, Told, Done, Has, Logging, Ended, Actions, None
    <3> QED
      BY <2>1, <3>1, <3>2, StayWithAction DEF Walking, Places, Ended
  <2>4. CASE (\E e \in Due(r) : Store(r, e)) /\ UNCHANGED lost
    <3>1. PICK e \in Due(r) : log'[r] = log[r] \cup {e}
      BY <2>4, AfterStore
    <3>2. lost'[r] = lost[r]
      BY <2>4
    <3>3. CASE pc[r] = "propose"
      <4>1. PICK b : log'[r] = log[r] \cup {Event("proposed", b, FALSE)}
        BY <3>1, <3>3 DEF Due
      <4>2. AtPlace(r, a)'
        BY <1>3, <1>4, <1>5, <2>1, <3>2, <3>3, <4>1
           DEF AtPlace, Untouched, Told, Done, Has, Event, Ended, Actions, None
      <4> QED
        BY <2>1, <3>3, <4>1, <4>2, StayWithAction DEF Walking, Places, Ended
    <3>4. CASE pc[r] \in {"start", "succeed", "fail"}
      <4>1. PICK k \in {"started", "succeeded", "failed"} :
              /\ log'[r] = log[r] \cup {Event(k, a, TRUE)}
              /\ pc[r] = "start" <=> k = "started"
              /\ pc[r] = "succeed" <=> k = "succeeded"
        BY <3>1, <3>4 DEF Due
      <4>2. /\ Has(r, k, a)'
            /\ k # "started" => (Has(r, "started", a)' <=> Has(r, "started", a))
            /\ k # "succeeded" => (Has(r, "succeeded", a)' <=> Has(r, "succeeded", a))
            /\ k # "failed" => (Has(r, "failed", a)' <=> Has(r, "failed", a))
        BY <4>1, EventAdded
      <4>3. AtPlace(r, a)'
        BY <1>3, <1>4, <1>5, <2>1, <3>2, <3>4, <4>1, <4>2
           DEF AtPlace, Untouched, Open, Told, Done, Logging, Ended, Actions, None
      <4> QED
        BY <2>1, <3>4, <4>1, <4>3, StayWithAction DEF Walking, Places, Ended
    <3>5. CASE pc[r] = "report"
      <4>1. log'[r] = log[r] \cup {Event("node_failed", a, FALSE)}
        BY <3>1, <3>5 DEF Due
      <4>2. /\ Has(r, "started", a)' <=> Has(r, "started", a)
            /\ Has(r, "succeeded", a)' <=> Has(r, "succeeded", a)
            /\ Has(r, "failed", a)' <=> Has(r, "failed", a)
            /\ Has(r, "node_failed", a)'
        <5>1. /\ Has(r, "started", a)' <=> Has(r, "started", a)
              /\ Has(r, "succeeded", a)' <=> Has(r, "succeeded", a)
              /\ Has(r, "failed", a)' <=> Has(r, "failed", a)
          BY <4>1 DEF Has, Event
        <5>2. Has(r, "node_failed", a)'
          BY <4>1, EventAdded
        <5> QED
          BY <5>1, <5>2
      <4>3. AtPlace(r, a)'
        BY <1>3, <1>4, <1>5, <2>1, <3>2, <3>5, <4>2
           DEF AtPlace, Told, Done, Logging, Ended, Actions, None
      <4> QED
        BY <2>1, <3>5, <4>1, <4>3, StayWithAction DEF Walking, Places, Ended
    <3>6. CASE pc[r] \in {"mark", "complete"}
      <4>1. PICK k \in {"marked", "completed"} : log'[r] = log[r] \cup {Event(k, None, FALSE)}
        BY <3>1, <3>6 DEF Due
      <4>2. AtPlace(r, a)'
        BY <1>3, <1>4, <1>5, <2>1, <3>2, <3>6, <4>1
           DEF AtPlace, Achieved, Told, Done, Has, Event, Logging, Ended, Actions, None
      <4> QED
        BY <2>1, <3>6, <4>1, <4>2, StayWithAction DEF Walking, Places, Ended
    <3> QED
      BY <2>2, <3>3, <3>4, <3>5, <3>6
  <2> QED
    BY <1>19, <2>3, <2>4 DEF EventRefused, Thrown
<1>20. CASE CheckKey(r)
  <2>1. pc[r] = "check" /\ a \in Actions
    BY <1>20, <1>5 DEF CheckKey, AtPlace
  <2>2. ~Known(r, a)
    BY <2>1 DEF Known, Key, Keys, NeverARow, Runs
  <2>3. pc'[r] = "start" /\ act'[r] = a /\ log'[r] = log[r]
    BY <1>20, <2>2, AfterMove DEF CheckKey, Unlogged
  <2>4. match'[r] = match[r] /\ written'[r] = written[r] /\ lost'[r] = lost[r]
    BY <1>20 DEF CheckKey
  <2>5. AtPlace(r, a)'
    BY <1>3, <1>4, <1>5, <2>1, <2>3, <2>4
       DEF AtPlace, Untouched, Done, Has, Ended, Actions, None
  <2> QED
    BY <2>3, <2>4, <2>5, StayWithAction DEF Walking, Places, Ended
<1>21. CASE Propose(r)
  <2>1. pc[r] = "propose" /\ match'[r] = match[r] /\ written'[r] = written[r] /\ lost'[r] = lost[r]
    BY <1>21 DEF Propose
  <2>2. match[r] = None /\ lost[r] = 0
    BY <1>5, <2>1 DEF AtPlace, None, Ended
  <2>3. CASE a = "qualify_lead"
    <3>1. pc'[r] = "check" /\ act'[r] = a /\ log'[r] = log[r] \cup {Event("proposed", a, FALSE)}
      BY <1>21, <2>3, AfterMove, AfterWrite DEF Propose, None
    <3>2. AtPlace(r, a)'
      BY <1>3, <1>4, <1>5, <2>1, <2>2, <2>3, <3>1
         DEF AtPlace, Untouched, Done, Has, Event, Ended, Actions, None
    <3> QED
      BY <2>1, <3>1, <3>2, StayWithAction DEF Walking, Places, Ended
  <2>4. CASE a = None
    <3>1. PICK b \in {"assign_owner", "request_human_review"} :
            pc'[r] = "choose" /\ act'[r] = b /\ log'[r] = log[r] \cup {Event("proposed", b, FALSE)}
      BY <1>21, <2>4, AfterMove, AfterWrite DEF Propose, None
    <3>2. Before(r) = {"qualify_lead"} /\ Before(r)' = {"qualify_lead"}
      BY <2>4, <3>1 DEF Before, None
    <3>3. b \in Actions /\ Untouched(r, b)
      BY <2>4, <3>1, <3>2 DEF OthersSafe, Path, Actions, None
    <3>4. AtPlace(r, b)'
      BY <1>3, <1>4, <2>1, <2>2, <3>1, <3>3
         DEF AtPlace, Untouched, Done, Has, Event, Ended, Actions, None
    <3> QED
      BY <2>1, <2>4, <3>1, <3>2, <3>3, <3>4, TurnToAction DEF Walking, Places, Ended, Actions, None
  <2> QED
    BY <1>21, <2>3, <2>4 DEF Propose
<1>22. CASE Choose(r)
  <2>1. pc[r] = "choose" /\ pc'[r] = "check" /\ match'[r] = match[r] /\ written'[r] = written[r]
        /\ lost'[r] = lost[r] /\ log'[r] = log[r] /\ act'[r] \in {a, "request_human_review"}
    BY <1>22, AfterMove DEF Choose, Unlogged
  <2>2. a \in {"assign_owner", "request_human_review"} /\ Untouched(r, a)
        /\ match[r] = None /\ lost[r] = 0
    BY <1>5, <2>1 DEF AtPlace, None, Ended
  <2>3. PICK b \in {"assign_owner", "request_human_review"} : act'[r] = b
    BY <2>1, <2>2
  <2>4. Before(r) = {"qualify_lead"} /\ Before(r)' = {"qualify_lead"}
    BY <2>2, <2>3 DEF Before, None
  <2>5. Untouched(r, b)
    BY <2>2, <2>4 DEF OthersSafe, Path, Actions, None
  <2>6. AtPlace(r, b)'
    BY <1>3, <1>4, <2>1, <2>2, <2>3, <2>5
       DEF AtPlace, Untouched, Done, Has, Event, Ended, Actions, None
  <2> QED
    BY <2>1, <2>2, <2>3, <2>4, <2>6, TurnToAction DEF Walking, Places, Ended, Actions, None
<1>23. CASE LogSucceeded(r)
  <2>1. pc[r] = "succeed" /\ match'[r] = match[r] /\ written'[r] = written[r] /\ lost'[r] = lost[r]
        /\ log'[r] = log[r] \cup {Event("succeeded", a, TRUE)} /\ Advance(r)
    BY <1>23, AfterWrite DEF LogSucceeded
  <2>2. a \in Actions /\ Open(r, a) /\ Done(r, a) /\ lost[r] = 0
        /\ (match[r] # None => a = "start_sequence")
    BY <1>5, <2>1 DEF AtPlace, Ended
  <2>3. Achieved(r, a)'
    <3>1. /\ Has(r, "succeeded", a)'
          /\ Has(r, "started", a)' <=> Has(r, "started", a)
          /\ Has(r, "failed", a)' <=> Has(r, "failed", a)
      BY <2>1, EventAdded
    <3> QED
      BY <2>1, <2>2, <3>1 DEF Achieved, Open, Done
  <2>4. CASE a \in {"mark_duplicate", "mark_nurture", "start_sequence", "request_human_review"}
    <3>1. act'[r] = a /\ pc'[r] \in {"mark", "complete", "done"}
      BY <2>1, <2>4, AfterMove DEF Advance
    <3>2. AtPlace(r, a)'
      BY <1>3, <1>4, <2>1, <2>2, <2>3, <3>1 DEF AtPlace, Achieved, Done, Ended, None
    <3> QED
      BY <2>1, <3>1, <3>2, StayWithAction DEF Walking, Places, Ended
  <2>5. CASE a \in {"qualify_lead", "assign_owner"}
    <3>1. PICK b \in {"mark_nurture", None, "start_sequence"} :
            /\ act'[r] = b
            /\ pc'[r] = IF b = None THEN "propose" ELSE "check"
            /\ b = "start_sequence" <=> a = "assign_owner"
      BY <2>1, <2>5, AfterMove DEF Advance, None
    <3>2. match[r] = None
      BY <2>2, <2>5 DEF None
    <3>3. Before(r)' = Path(r) /\ b \notin Path(r)
      BY <2>1, <2>5, <3>1, <3>2 DEF Before, Path, None
    <3>4. ASSUME NEW c \in Actions, c \in Before(r)' PROVE Achieved(r, c)'
      <4>1. CASE c = a
        BY <4>1, <2>3
      <4>2. CASE c # a
        <5>1. Achieved(r, c)
          BY <3>3, <3>4, <4>2 DEF OthersSafe, Path
        <5> QED
          BY <2>1, <4>2, <5>1 DEF Achieved, Done, Has, Event
      <4> QED
        BY <4>1, <4>2
    <3>5. ASSUME NEW c \in Actions, c \notin Path(r)' PROVE Untouched(r, c)'
      <4>1. Untouched(r, c) /\ c # a
        BY <3>3, <3>5 DEF OthersSafe, Path
      <4> QED
        BY <2>1, <4>1 DEF Untouched, Has, Event
    <3>6. OthersSafe(r)'
      <4>1. Before(r)' \subseteq Actions
        BY <2>2, <3>3, NotBefore DEF Path
      <4> QED
        BY <3>4, <3>5, <4>1 DEF OthersSafe
    <3>7. b \in Actions => Untouched(r, b)
      BY <3>3 DEF OthersSafe
    <3>8. AtPlace(r, b)'
      BY <1>3, <1>4, <2>1, <2>2, <3>1, <3>2, <3>7
         DEF AtPlace, Untouched, Done, Has, Event, Ended, Actions, None
    <3> QED
      BY <3>1, <3>6, <3>8, Composed DEF Walking, Places, Ended, Actions
  <2> QED
    BY <2>2, <2>4, <2>5 DEF Actions
<1>24. ~(Begin(r) \/ Validate(r) \/ NoMatch(r) \/ Bypass(r))
  BY DEF Begin, Validate, NoMatch, Bypass, Walking
<1> QED
  BY <1>10, <1>11, <1>12, <1>13, <1>14, <1>15, <1>16, <1>17, <1>18, <1>19, <1>20, <1>21, <1>22,
     <1>23, <1>24 DEF Step

\* The steps before the run has come to an action.
LEMMA EarlyStep ==
  ASSUME LedgerInvariant, NEW r \in Runs, pc[r] \in {"idle", "validate", "match"},
         Step(r) \/ Crash(r)
  PROVE  RunSafe(r)'
<1>1. TypeOK /\ TypeOK' /\ PlaceOfRun(r)
  BY StepKeepsTypes DEF LedgerInvariant
<1>2. match[r] = None /\ act[r] = None /\ lost[r] = 0 /\ \A a \in Actions : Untouched(r, a)
  BY <1>1 DEF PlaceOfRun, Ended
<1>3. /\ written' = written /\ lost' = lost
      /\ log'[r] = log[r] \/ log'[r] = log[r] \cup {Event("found", None, FALSE)}
  BY <1>1, AfterWrite
     DEF Step, Crash, Begin, Validate, NoMatch, Bypass, Propose, Choose, CheckKey, LogStarted, Work,
         WorkFails, LogSucceeded, LogFailed, Report, Finish, EventRefused, Logging, PrepareFails,
         SnapshotFails, Unlogged
<1>4. ASSUME NEW a \in Actions PROVE Untouched(r, a)'
  <2>1. Untouched(r, a)
    BY <1>2
  <2> QED
    BY <1>3, <2>1 DEF Untouched, Has, Event
<1>5. CASE pc'[r] \in {"validate", "match", "dead", "failed"} /\ match'[r] = None /\ act'[r] = None
  <2>1. PlaceOfRun(r)'
    BY <1>2, <1>3, <1>4, <1>5 DEF PlaceOfRun, Walking, Ended
  <2>2. ASSUME NEW a \in Actions
        PROVE  /\ Told(r, a)'
               /\ (written[r][a] > 0 => Has(r, "started", a))'
               /\ (Has(r, "succeeded", a) => Done(r, a))'
               /\ (Has(r, "failed", a) => Has(r, "started", a))'
               /\ ~(Has(r, "succeeded", a) /\ Has(r, "failed", a))'
    BY <1>4 DEF Untouched, Told
  <2>3. pc'[r] # "done"
    BY <1>5
  <2> QED
    BY <2>1, <2>2, <2>3 DEF RunSafe
<1>6. ASSUME NEW a \in Actions, act'[r] = a, Before(r)' = {},
             \/ pc'[r] = "check"
             \/ pc'[r] = "propose" /\ a = "qualify_lead",
             match'[r] # None => a = "start_sequence"
      PROVE  RunSafe(r)'
  <2>1. OthersSafe(r)'
    BY <1>4, <1>6 DEF OthersSafe
  <2>2. AtPlace(r, a)'
    BY <1>2, <1>3, <1>4, <1>6 DEF AtPlace, Untouched, Ended
  <2> QED
    BY <1>1, <1>6, <2>1, <2>2, Composed DEF Walking, Places, Ended
<1>7. CASE Begin(r)
  BY <1>1, <1>2, <1>5, <1>7, AfterMove DEF Begin
<1>8. CASE Validate(r)
  <2>1. match'[r] = None
    BY <1>2, <1>8 DEF Validate
  <2>2. CASE Move(r, "check", "mark_duplicate")
    BY <1>1, <1>6, <2>1, <2>2, AfterMove DEF Before, Actions
  <2>3. CASE Move(r, "match", None)
    BY <1>1, <1>5, <2>1, <2>3, AfterMove
  <2> QED
    BY <1>8, <2>2, <2>3 DEF Validate
<1>9. CASE NoMatch(r)
  <2>1. pc'[r] = "propose" /\ act'[r] = "qualify_lead" /\ match'[r] = None
    BY <1>1, <1>2, <1>9, AfterMove DEF NoMatch
  <2> QED
    BY <1>6, <2>1 DEF Before, Actions
<1>10. CASE Bypass(r)
  <2>1. pc'[r] = "check" /\ act'[r] = "start_sequence" /\ match'[r] # None
    BY <1>1, <1>10, AfterMove DEF Bypass, TypeOK, None
  <2> QED
    BY <1>6, <2>1 DEF Before, Actions
<1>11. CASE SnapshotFails(r) \/ Crash(r)
  BY <1>1, <1>2, <1>5, <1>11, AfterMove DEF SnapshotFails, Crash
<1> QED
  BY <1>7, <1>8, <1>9, <1>10, <1>11
     DEF Step, Propose, Choose, CheckKey, LogStarted, Work, WorkFails, LogSucceeded, LogFailed,
         Report, Finish, EventRefused, Logging, PrepareFails

\* The table stays as it is: there is no proposal to project.
LEMMA ProjectionStep ==
  ASSUME LedgerInvariant, Project \/ LoseProjection
  PROVE  LedgerInvariant'
<1>1. TypeOK /\ NeverARow
  BY DEF LedgerInvariant
<1>2. UNCHANGED <<pc, act, match, written, log, lost>> /\ pending' \subseteq pending
  BY DEF Project, LoseProjection
<1>3. table' = table
  <2>1. ASSUME NEW p \in pending PROVE Projected(p) = table
    <3>1. Key(p.run, p.event.act) \in Keys \/ table[Key(p.run, p.event.act)] # NoRow
             \/ table[Key(p.run, p.event.act)] = NoRow
      OBVIOUS
    <3> QED
      BY <1>1, <2>1 DEF Projected, NeverARow, TypeOK, Key, Keys, Runs, Events
  <2> QED
    BY <2>1 DEF Project, LoseProjection
<1>4. TypeOK' /\ NeverARow'
  BY <1>1, <1>2, <1>3 DEF TypeOK, NeverARow
<1>5. ASSUME NEW s \in Runs PROVE PlaceOfRun(s)'
  BY <1>2, OtherRuns
<1> QED
  BY <1>2, <1>4, <1>5
     DEF LedgerInvariant, FinishedHasEffects, TrailTruthful, EffectsAreTold, Path, Before, Done, Told,
         Has

LEMMA NextStep == LedgerInvariant /\ [Next]_vars => LedgerInvariant'
<1> SUFFICES ASSUME LedgerInvariant, [Next]_vars PROVE LedgerInvariant'
  OBVIOUS
<1>1. ASSUME NEW r \in Runs, Step(r) \/ Crash(r) PROVE LedgerInvariant'
  <2>1. TypeOK' /\ NeverARow'
    BY <1>1, StepKeepsTypes, StepKeepsNeverARow
  <2>2. RunSafe(r)'
    <3>1. pc[r] \in Walking \/ pc[r] \in {"idle", "validate", "match"}
      BY <1>1 DEF LedgerInvariant, TypeOK, Walking, Ended, Step, Crash, Begin, Validate, NoMatch, Bypass,
             Propose, Choose, CheckKey, LogStarted, Work, WorkFails, LogSucceeded, LogFailed,
             Report, Finish, EventRefused, Logging, PrepareFails, SnapshotFails
    <3> QED
      BY <1>1, <3>1, WalkStep, EarlyStep
  <2>3. ASSUME NEW s \in Runs, s # r PROVE RunSafe(s)'
    <3>0. /\ \A place, a : Move(r, place, a) => pc'[s] = pc[s] /\ act'[s] = act[s]
          /\ \A e : Write(r, e) \/ Store(r, e) => log'[s] = log[s]
          /\ Effect(r) => written'[s] = written[s]
          /\ Thrown(r) => log'[s] = log[s] /\ lost'[s] = lost[s]
      BY <2>3 DEF LedgerInvariant, TypeOK, Move, Write, Store, Effect, Thrown, Unlogged
    <3>1. UNCHANGED <<pc[s], act[s], match[s], written[s], log[s], lost[s]>>
      <4>1. UNCHANGED <<pc[s], act[s]>>
        <5>1. pc[r] \in {"check", "succeed"} => act[r] \in Actions
          BY DEF LedgerInvariant, PlaceOfRun, Walking, Places, Ended
        <5>2. pc[r] \in {"check", "succeed"} /\ Advance(r) => UNCHANGED <<pc[s], act[s]>>
          BY <3>0, <5>1 DEF Advance, Actions
        <5> QED
          BY <1>1, <3>0, <5>2
             DEF Step, Crash, Begin, Validate, NoMatch, Bypass, Propose, Choose, CheckKey,
                 LogStarted, Work, WorkFails, LogSucceeded, LogFailed, Report, Finish,
                 EventRefused, PrepareFails, SnapshotFails
      <4>2. log'[s] = log[s]
        BY <1>1, <3>0
           DEF Step, Crash, Begin, Validate, NoMatch, Bypass, Propose, Choose, CheckKey, LogStarted,
               Work, WorkFails, LogSucceeded, LogFailed, Report, Finish, EventRefused,
               PrepareFails, SnapshotFails, Unlogged
      <4>3. UNCHANGED <<match[s], written[s], lost[s]>>
        BY <1>1, <2>3, <3>0
           DEF LedgerInvariant, TypeOK, Step, Crash, Begin, Validate, NoMatch, Bypass, Propose,
               Choose, CheckKey, LogStarted, Work, WorkFails, LogSucceeded, LogFailed, Report,
               Finish, EventRefused, PrepareFails, SnapshotFails
      <4> QED
        BY <4>1, <4>2, <4>3
    <3>2. PlaceOfRun(s)'
      BY <3>1, OtherRuns
    <3>3. RunSafe(s)
      BY InvariantByRuns
    <3> QED
      BY <3>1, <3>2, <3>3 DEF RunSafe, Path, Before, Done, Told, Has
  <2> QED
    BY <2>1, <2>2, <2>3 DEF LedgerInvariant, RunSafe, FinishedHasEffects, TrailTruthful, EffectsAreTold
<1>2. CASE UNCHANGED vars
  <2>1. UNCHANGED <<pc, act, match, written, log, lost, pending, table>>
    BY <1>2 DEF vars
  <2>2. ASSUME NEW s \in Runs PROVE PlaceOfRun(s)'
    BY <2>1, OtherRuns
  <2> QED
    BY <2>1, <2>2
       DEF LedgerInvariant, TypeOK, NeverARow, FinishedHasEffects, TrailTruthful, EffectsAreTold, Path,
           Before, Done, Told, Has
<1> QED
  BY <1>1, <1>2, ProjectionStep DEF Next
-----------------------------------------------------------------------------
\* Whatever the jobs, attempts and errors, no row is ever there to deduplicate by,
\* and every run is where its log and its writes say: executeAction and the graph.
THEOREM LedgerHolds == Spec => []LedgerInvariant
<1>1. Init => LedgerInvariant
  BY InitSafe, LedgerAssumption
<1> QED
  BY <1>1, NextStep, PTL DEF Spec

\* A finished play has had the effects of each action on its way: no attempt is
\* taken for another with the same job-scoped key.
THEOREM FinishedAlwaysHasEffects == Spec => []FinishedHasEffects
<1>1. LedgerInvariant => FinishedHasEffects
  BY DEF LedgerInvariant
<1> QED
  BY <1>1, LedgerHolds, PTL

\* The event log never claims what did not happen, nor is silent before it does,
\* although an insert that throws may have left its row: only the last action of a
\* run that got no further can have both a success and a failure in its trail.
THEOREM TrailAlwaysTruthful == Spec => []TrailTruthful
<1>1. LedgerInvariant => TrailTruthful
  BY DEF LedgerInvariant
<1> QED
  BY <1>1, LedgerHolds, PTL

\* One refused event is made up for: a failed run tells how its effects ended.
THEOREM EffectsAlwaysTold == Spec => []EffectsAreTold
<1>1. LedgerInvariant => EffectsAreTold
  BY DEF LedgerInvariant
<1> QED
  BY <1>1, LedgerHolds, PTL
===============================================================================
