------------------------- MODULE OwnerRoutingProofs -------------------------
(* Theorems about OwnerRouting, for any number of plays, owners and workers. *)
EXTENDS OwnerRouting, FiniteSetTheorems, TLAPS

\* A set of plays has a size.
LEMMA PlaysCountable == \A S \in SUBSET Plays : IsFiniteSet(S) /\ Cardinality(S) \in Nat
  BY RoutingAssumption, FS_Subset, FS_CardinalityType

\* Fewer plays are not more plays.
LEMMA FewerPlays ==
  \A S, T \in SUBSET Plays : S \subseteq T => Cardinality(S) <= Cardinality(T)
  BY PlaysCountable, FS_Subset

\* Every step of a run preserves the types.
LEMMA TypeStep == TypeOK /\ (\A p \in Plays : RunConsistent(p)) /\ [Next]_vars => TypeOK'
<1>. SUFFICES ASSUME TypeOK, \A p \in Plays : RunConsistent(p), [Next]_vars PROVE TypeOK'
  OBVIOUS
<1>. USE RoutingAssumption DEF TypeOK, Steps, Resting, Undecided, Assigning, Afterwards,
     runVars, rowVars, extVars, At, GoTo
<1>1. ASSUME NEW p \in Plays, Start(p) PROVE TypeOK'
  BY <1>1 DEF Start
<1>2. ASSUME NEW p \in Plays, TakeSnapshot(p) PROVE TypeOK'
  <2>1. \A o \in Owners : LoadOf(o) \in SUBSET Plays
    BY DEF LoadOf
  <2>2. \A o \in Owners : Cardinality(LoadOf(o)) \in Nat
    BY <2>1, PlaysCountable
  <2>. QED
    BY <1>2, <2>2 DEF TakeSnapshot
<1>3. ASSUME NEW p \in Plays, ReadCounter(p) PROVE TypeOK'
  BY <1>3 DEF ReadCounter
<1>4. ASSUME NEW p \in Plays, Propose(p) PROVE TypeOK'
  <2>1. PICK r \in Rules, o \in Owners :
          /\ choice' = [choice EXCEPT ![p] = o]
          /\ queue' = [queue EXCEPT ![p] = r.queue]
    BY <1>4 DEF Propose, Matching, LeastLoaded, Eligible
  <2>2. r.queue \in Queues
    OBVIOUS
  <2>. QED
    BY <1>4, <2>1, <2>2 DEF Propose
<1>5. ASSUME NEW p \in Plays, RequestHumanReview(p) PROVE TypeOK'
  BY <1>5 DEF RequestHumanReview
<1>6. ASSUME NEW p \in Plays, FindSfLead(p) PROVE TypeOK'
  <2>1. lead' \in [Plays -> SfIds \cup {NoLead}]
    BY <1>6 DEF FindSfLead, LeadsOf
  <2>2. pc' \in [Plays -> Steps]
    BY <1>6 DEF FindSfLead
  <2>. QED
    BY <1>6, <2>1, <2>2 DEF FindSfLead
<1>7. ASSUME NEW p \in Plays, CreateSfLead(p) PROVE TypeOK'
  <2>1. sfEmail' \in [SfIds -> Contacts \cup {NoContact}] /\ lead' \in [Plays -> SfIds \cup {NoLead}]
    BY <1>7 DEF CreateSfLead, LeadsOf
  <2>. QED
    BY <1>7, <2>1 DEF CreateSfLead
<1>8. ASSUME NEW p \in Plays, AssignSfOwner(p) \/ AssignLate(p) PROVE TypeOK'
  <2>1. choice[p] \in Owners \cup {Nobody} /\ sfOwner' \in [SfIds -> Owners \cup {Nobody}]
    BY <1>8 DEF AssignSfOwner, AssignLate, WriteSfOwner
  <2>. QED
    BY <1>8, <2>1 DEF AssignSfOwner, AssignLate
<1>9. ASSUME NEW p \in Plays, CreateTask(p) PROVE TypeOK'
  <2>1. tasks' \in [Plays -> Nat]
    BY <1>9 DEF CreateTask
  <2>. QED
    BY <1>9, <2>1 DEF CreateTask
<1>10. ASSUME NEW p \in Plays, RecordOwner(p) PROVE TypeOK'
  BY <1>10 DEF RecordOwner
<1>11. ASSUME NEW p \in Plays, ReadTally(p) PROVE TypeOK'
  <2>1. read' \in [Plays -> Nat]
    BY <1>11 DEF ReadTally
  <2>. QED
    BY <1>11, <2>1 DEF ReadTally
<1>12. ASSUME NEW p \in Plays, AdvanceCounter(p) PROVE TypeOK'
  <2>1. queue[p] \in Queues /\ read[p] + 1 \in Nat
    BY <1>12 DEF AdvanceCounter, RunConsistent
  <2>. QED
    BY <1>12, <2>1 DEF AdvanceCounter
<1>13. ASSUME NEW p \in Plays, Touch(p) \/ Fail(p) PROVE TypeOK'
  BY <1>13 DEF Touch, Fail
<1>14. CASE UNCHANGED vars
  BY <1>14 DEF vars
<1>. QED
  BY <1>1, <1>2, <1>3, <1>4, <1>5, <1>6, <1>7, <1>8, <1>9, <1>10, <1>11, <1>12, <1>13, <1>14
     DEF Next, Run

\* A lead keeps the contact whose email it bears.
LEMMA LeadsStay ==
  ASSUME TypeOK, NEW p \in Plays, Run(p) \/ AssignLate(p), NEW l \in SfIds, sfEmail[l] # NoContact
  PROVE  sfEmail'[l] = sfEmail[l]
<1>1. CASE CreateSfLead(p)
  <2>1. PICK new \in SUBSET LeadsOf(NoContact) :
          sfEmail' = [k \in SfIds |-> IF k \in new THEN ContactOf[p] ELSE sfEmail[k]]
    BY <1>1 DEF CreateSfLead
  <2>2. l \notin new
    BY <2>1 DEF LeadsOf
  <2>. QED
    BY <2>1, <2>2
<1>2. CASE ~ CreateSfLead(p)
  BY <1>2 DEF Run, AssignLate, Start, TakeSnapshot, ReadCounter, Propose, RequestHumanReview,
     FindSfLead, AssignSfOwner, CreateTask, RecordOwner, ReadTally, AdvanceCounter, Touch, Fail,
     extVars
<1>. QED
  BY <1>1, <1>2

\* A run acts on its own decision, and Salesforce is brought in line before the
\* play names its owner.
LEMMA OwnStep ==
  ASSUME TypeOK, NEW p \in Plays, RunConsistent(p), Run(p)
  PROVE  RunConsistent(p)'
<1>. USE RoutingAssumption DEF TypeOK, RunConsistent, Resting, Undecided,
     Assigning, Afterwards, rowVars, extVars, At, GoTo, LeadsOf
<1>1. CASE Start(p) \/ RequestHumanReview(p) \/ Touch(p) \/ Fail(p)
  BY <1>1 DEF Start, RequestHumanReview, Touch, Fail, Active
<1>2. CASE TakeSnapshot(p) \/ ReadCounter(p)
  BY <1>2 DEF TakeSnapshot, ReadCounter
<1>3. CASE Propose(p)
  <2>1. PICK r \in Rules, o \in Owners :
          /\ choice' = [choice EXCEPT ![p] = o]
          /\ queue' = [queue EXCEPT ![p] = r.queue]
          /\ seen[p][o] < Cap
    BY <1>3 DEF Propose, Matching, LeastLoaded, Eligible
  <2>2. choice'[p] = o /\ queue'[p] = r.queue /\ r.queue \in Queues
    BY <2>1
  <2>. QED
    BY <1>3, <2>1, <2>2 DEF Propose
<1>4. CASE FindSfLead(p)
  BY <1>4 DEF FindSfLead
<1>5. CASE CreateSfLead(p)
  <2>1. PICK new \in SUBSET LeadsOf(NoContact) :
          /\ sfEmail' = [k \in SfIds |-> IF k \in new THEN ContactOf[p] ELSE sfEmail[k]]
          /\ \E l \in new : lead' = [lead EXCEPT ![p] = l]
    BY <1>5 DEF CreateSfLead
  <2>2. PICK l \in new : lead' = [lead EXCEPT ![p] = l]
    BY <2>1
  <2>3. l \in SfIds /\ lead'[p] = l /\ sfEmail'[l] = ContactOf[p]
    BY <2>1, <2>2
  <2>. QED
    BY <1>5, <2>3 DEF CreateSfLead
<1>6. CASE AssignSfOwner(p)
  BY <1>6 DEF AssignSfOwner
<1>7. CASE CreateTask(p)
  BY <1>7 DEF CreateTask
<1>8. CASE RecordOwner(p)
  BY <1>8 DEF RecordOwner
<1>9. CASE ReadTally(p) \/ AdvanceCounter(p)
  BY <1>9 DEF ReadTally, AdvanceCounter
<1>. QED
  BY <1>1, <1>2, <1>3, <1>4, <1>5, <1>6, <1>7, <1>8, <1>9 DEF Run

\* A step of one run leaves the others where they are.
LEMMA OthersStep ==
  ASSUME TypeOK, NEW p \in Plays, NEW q \in Plays \ {p}, Run(p)
  PROVE  /\ pc'[q] = pc[q] /\ seen'[q] = seen[q] /\ read'[q] = read[q]
         /\ choice'[q] = choice[q] /\ queue'[q] = queue[q] /\ (q \in sf') = (q \in sf)
         /\ status'[q] = status[q] /\ owner'[q] = owner[q]
         /\ lead'[q] = lead[q] /\ (q \in assigned') = (q \in assigned) /\ tasks'[q] = tasks[q]
<1>. USE DEF TypeOK, rowVars, extVars, GoTo
<1>1. CASE Start(p) \/ RequestHumanReview(p) \/ Touch(p) \/ Fail(p)
  BY <1>1 DEF Start, RequestHumanReview, Touch, Fail
<1>2. CASE TakeSnapshot(p) \/ ReadCounter(p)
  BY <1>2 DEF TakeSnapshot, ReadCounter
<1>3. CASE Propose(p)
  BY <1>3 DEF Propose
<1>4. CASE FindSfLead(p) \/ CreateSfLead(p) \/ AssignSfOwner(p) \/ CreateTask(p)
  BY <1>4 DEF FindSfLead, CreateSfLead, AssignSfOwner, CreateTask
<1>5. CASE RecordOwner(p) \/ ReadTally(p) \/ AdvanceCounter(p)
  BY <1>5 DEF RecordOwner, ReadTally, AdvanceCounter
<1>. QED
  BY <1>1, <1>2, <1>3, <1>4, <1>5 DEF Run

\* The same for all runs.
LEMMA RunsStep ==
  TypeOK /\ (\A p \in Plays : RunConsistent(p)) /\ [Next]_vars => (\A p \in Plays : RunConsistent(p))'
<1>. SUFFICES ASSUME TypeOK, \A p \in Plays : RunConsistent(p), [Next]_vars, NEW q \in Plays
     PROVE RunConsistent(q)'
  OBVIOUS
<1>0. RunConsistent(q)
  OBVIOUS
<1>1. CASE UNCHANGED vars
  BY <1>0, <1>1 DEF vars, runVars, rowVars, extVars, RunConsistent, LeadsOf
<1>2. ASSUME NEW p \in Plays, AssignLate(p) PROVE RunConsistent(q)'
  BY <1>0, <1>2 DEF AssignLate, runVars, rowVars, RunConsistent, LeadsOf
<1>3. ASSUME NEW p \in Plays, Run(p) PROVE RunConsistent(q)'
  <2>1. CASE q = p
    BY <1>0, <1>3, <2>1, OwnStep
  <2>2. CASE q # p
    <3>1. q \in Plays \ {p}
      BY <2>2
    <3>2. /\ pc'[q] = pc[q] /\ seen'[q] = seen[q]
          /\ choice'[q] = choice[q] /\ queue'[q] = queue[q] /\ (q \in sf') = (q \in sf)
          /\ owner'[q] = owner[q]
          /\ lead'[q] = lead[q] /\ (q \in assigned') = (q \in assigned) /\ tasks'[q] = tasks[q]
      BY <1>3, <3>1, OthersStep
    <3>3. lead[q] # NoLead => lead'[q] \in LeadsOf(ContactOf[q])'
      BY <1>0, <1>3, <3>2, LeadsStay, RoutingAssumption DEF RunConsistent, LeadsOf
    <3>. QED
      BY <1>0, <3>2, <3>3 DEF RunConsistent
  <2>. QED
    BY <2>1, <2>2
<1>. QED
  BY <1>1, <1>2, <1>3 DEF Next

\* Only a run that writes OwnerId changes who has a lead, and it is one that
\* assigned the lead then; a run keeps its lead and its choice from then on.
LEMMA AssignedStep ==
  TypeOK /\ (\A p \in Plays : RunConsistent(p)) /\ LeadsAssigned /\ [Next]_vars => LeadsAssigned'
<1>. SUFFICES ASSUME TypeOK, \A p \in Plays : RunConsistent(p), LeadsAssigned, [Next]_vars
     PROVE LeadsAssigned'
  OBVIOUS
<1>1. ASSUME NEW r \in Plays, lead[r] \in SfIds, WriteSfOwner(r), assigned' = assigned \cup {r},
             UNCHANGED <<lead, choice>>
      PROVE LeadsAssigned'
  <2>. SUFFICES ASSUME NEW p \in assigned'
       PROVE \E q \in assigned' : lead'[q] = lead'[p] /\ choice'[q] = sfOwner'[lead'[p]]
    BY DEF LeadsAssigned
  <2>1. CASE lead[p] = lead[r]
    <3>1. sfOwner'[lead[r]] = choice[r]
      BY <1>1 DEF WriteSfOwner, TypeOK
    <3>. QED
      BY <1>1, <2>1, <3>1
  <2>2. CASE lead[p] # lead[r]
    <3>1. p \in assigned
      BY <1>1, <2>2
    <3>2. sfOwner'[lead[p]] = sfOwner[lead[p]]
      BY <1>1, <2>2, <3>1 DEF WriteSfOwner, TypeOK, RunConsistent
    <3>. QED
      BY <1>1, <3>1, <3>2 DEF LeadsAssigned
  <2>. QED
    BY <2>1, <2>2
<1>2. ASSUME UNCHANGED <<assigned, sfOwner>>,
             \A q \in assigned : lead'[q] = lead[q] /\ choice'[q] = choice[q]
      PROVE LeadsAssigned'
  BY <1>2 DEF LeadsAssigned
<1>3. CASE UNCHANGED vars
  BY <1>2, <1>3 DEF vars, runVars, extVars
<1>4. ASSUME NEW p \in Plays, AssignLate(p) PROVE LeadsAssigned'
  <2>1. lead[p] \in SfIds /\ assigned' = assigned \cup {p}
    BY <1>4 DEF AssignLate, RunConsistent, TypeOK
  <2>. QED
    BY <1>1, <1>4, <2>1 DEF AssignLate, runVars
<1>5. ASSUME NEW p \in Plays, AssignSfOwner(p) PROVE LeadsAssigned'
  <2>1. lead[p] \in SfIds
    BY <1>5 DEF AssignSfOwner, RunConsistent, TypeOK, At
  <2>. QED
    BY <1>1, <1>5, <2>1 DEF AssignSfOwner
<1>6. ASSUME NEW p \in Plays, Run(p), ~ AssignSfOwner(p) PROVE LeadsAssigned'
  <2>1. UNCHANGED <<assigned, sfOwner>>
    BY <1>6 DEF Run, Start, TakeSnapshot, ReadCounter, Propose, RequestHumanReview, FindSfLead,
       CreateSfLead, CreateTask, RecordOwner, ReadTally, AdvanceCounter, Touch, Fail, extVars
  <2>2. ASSUME NEW q \in assigned PROVE lead'[q] = lead[q] /\ choice'[q] = choice[q]
    <3>1. CASE q # p
      <4>1. q \in Plays \ {p}
        BY <3>1 DEF TypeOK
      <4>. QED
        BY <1>6, <4>1, OthersStep
    <3>2. CASE q = p
      <4>1. pc[p] \notin {"decide", "find", "create"}
        BY <3>2 DEF RunConsistent, Undecided
      <4>. QED
        BY <1>6, <3>2, <4>1 DEF Run, Start, TakeSnapshot, ReadCounter, Propose,
           RequestHumanReview, FindSfLead, CreateSfLead, CreateTask, RecordOwner, ReadTally,
           AdvanceCounter, Touch, Fail, At
    <3>. QED
      BY <3>1, <3>2
  <2>. QED
    BY <1>2, <2>1, <2>2
<1>. QED
  BY <1>3, <1>4, <1>5, <1>6 DEF Next

\* A run that has named its owner has assigned its lead; whoever has the lead now
\* is the choice of a run that assigned it, this one or another.
LEMMA SyncedByRuns ==
  TypeOK /\ (\A p \in Plays : RunConsistent(p)) /\ LeadsAssigned => OwnerSynced
<1>. SUFFICES ASSUME TypeOK, \A p \in Plays : RunConsistent(p), LeadsAssigned,
                     NEW p \in sf, owner[p] # Nobody
     PROVE /\ lead[p] \in LeadsOf(ContactOf[p]) /\ tasks[p] > 0
           /\ \/ sfOwner[lead[p]] = owner[p]
              \/ \E q \in assigned \ {p} :
                   /\ ContactOf[q] = ContactOf[p] /\ lead[q] = lead[p]
                   /\ choice[q] = sfOwner[lead[p]]
  BY DEF OwnerSynced
<1>1. p \in Plays /\ p \in assigned /\ tasks[p] > 0 /\ owner[p] = choice[p]
      /\ lead[p] \in LeadsOf(ContactOf[p])
  BY DEF TypeOK, RunConsistent
<1>2. PICK q \in assigned : lead[q] = lead[p] /\ choice[q] = sfOwner[lead[p]]
  BY <1>1 DEF LeadsAssigned
<1>3. q \in Plays /\ lead[q] \in LeadsOf(ContactOf[q])
  BY DEF TypeOK, RunConsistent
<1>4. ContactOf[q] = ContactOf[p]
  BY <1>1, <1>2, <1>3 DEF LeadsOf
<1>. QED
  BY <1>1, <1>2, <1>4

\* Only a free worker starts a run.
LEMMA ActiveStep ==
  TypeOK /\ Cardinality(Active) <= Workers /\ [Next]_vars => Cardinality(Active') <= Workers
<1>. SUFFICES ASSUME TypeOK, Cardinality(Active) <= Workers, [Next]_vars
     PROVE Cardinality(Active') <= Workers
  OBVIOUS
<1>0. Active \in SUBSET Plays /\ Active' \in SUBSET Plays
  BY DEF Active
<1>1. CASE \E p \in Plays : Start(p)
  <2>1. PICK p \in Plays : Start(p)
    BY <1>1
  <2>2. Active' = Active \cup {p} /\ p \notin Active
    BY <2>1 DEF Start, Active, Resting, TypeOK, At, GoTo
  <2>3. Cardinality(Active') = Cardinality(Active) + 1
    BY <1>0, <2>2, PlaysCountable, FS_AddElement
  <2>. QED
    BY <1>0, <2>1, <2>3, PlaysCountable, RoutingAssumption DEF Start
<1>2. CASE Active' \subseteq Active
  <2>1. Cardinality(Active') <= Cardinality(Active)
    BY <1>0, <1>2, FewerPlays
  <2>. QED
    BY <1>0, <2>1, PlaysCountable, RoutingAssumption
<1>3. (\E p \in Plays : Start(p)) \/ Active' \subseteq Active
  <2>1. CASE UNCHANGED vars
    BY <2>1 DEF vars, runVars, Active
  <2>2. ASSUME NEW p \in Plays, Run(p), ~ Start(p) PROVE Active' \subseteq Active
    <3>1. pc[p] \notin Resting
      BY <2>2 DEF Run, TakeSnapshot, ReadCounter, Propose, RequestHumanReview, FindSfLead,
         CreateSfLead, AssignSfOwner, CreateTask, RecordOwner, ReadTally, AdvanceCounter, Touch,
         Fail, Active, At, Resting
    <3>2. \A q \in Plays \ {p} : pc'[q] = pc[q]
      BY <2>2, OthersStep
    <3>. QED
      BY <3>1, <3>2 DEF Active
  <2>3. CASE \E p \in Plays : AssignLate(p)
    BY <2>3 DEF AssignLate, runVars, Active
  <2>. QED
    BY <2>1, <2>2, <2>3 DEF Next
<1>. QED
  BY <1>1, <1>2, <1>3

\* Only a snapshot makes a run hopeful, and only a hopeful run adds to a load.
LEMMA LoadShrinks ==
  ASSUME TypeOK, NEW p \in Plays, RunConsistent(p), NEW o \in Owners,
         Run(p), ~ TakeSnapshot(p)
  PROVE  (LoadOf(o) \cup Hopeful(o))' \subseteq LoadOf(o) \cup Hopeful(o)
<1>1. SUFFICES ASSUME NEW q \in Plays, q \in (LoadOf(o) \cup Hopeful(o))'
               PROVE q \in LoadOf(o) \cup Hopeful(o)
  BY DEF LoadOf, Hopeful
<1>2. CASE q # p
  <2>1. q \in Plays \ {p}
    BY <1>2
  <2>2. pc'[q] = pc[q] /\ seen'[q] = seen[q] /\ status'[q] = status[q] /\ owner'[q] = owner[q]
    BY <2>1, OthersStep
  <2>. QED
    BY <1>1, <2>2 DEF LoadOf, Hopeful
<1>3. CASE q = p
  <2>. USE RoutingAssumption DEF TypeOK, LoadOf, Hopeful, RunConsistent, Resting, Undecided,
       Assigning, Afterwards, rowVars, extVars, At, GoTo
  <2>1. CASE Start(p) \/ RequestHumanReview(p) \/ Touch(p)
    BY <1>1, <1>3, <2>1 DEF Start, RequestHumanReview, Touch
  <2>2. CASE ReadCounter(p) \/ Propose(p) \/ Fail(p)
    BY <1>1, <1>3, <2>2 DEF ReadCounter, Propose, Fail
  <2>3. CASE FindSfLead(p) \/ CreateSfLead(p) \/ AssignSfOwner(p) \/ CreateTask(p)
    BY <1>1, <1>3, <2>3 DEF FindSfLead, CreateSfLead, AssignSfOwner, CreateTask
  <2>4. CASE RecordOwner(p)
    BY <1>1, <1>3, <2>4 DEF RecordOwner
  <2>5. CASE ReadTally(p) \/ AdvanceCounter(p)
    BY <1>1, <1>3, <2>5 DEF ReadTally, AdvanceCounter
  <2>. QED
    BY <2>1, <2>2, <2>3, <2>4, <2>5 DEF Run
<1>. QED
  BY <1>2, <1>3

\* A snapshot that shows an owner below the cap was taken when the owner had
\* fewer than Cap plays, and at most Workers runs are under way.
LEMMA LoadAtSnapshot ==
  ASSUME ~ReadErrors, TypeOK, Cardinality(Active') <= Workers, NEW o \in Owners,
         Cardinality(LoadOf(o) \cup Hopeful(o)) <= Cap + Workers - 1,
         NEW p \in Plays, TakeSnapshot(p)
  PROVE  Cardinality((LoadOf(o) \cup Hopeful(o))') <= Cap + Workers - 1
<1>. USE RoutingAssumption DEF TypeOK
<1>0. /\ LoadOf(o) \in SUBSET Plays /\ LoadOf(o)' = LoadOf(o)
      /\ Hopeful(o) \in SUBSET Plays /\ Hopeful(o)' \in SUBSET Plays
      /\ Active' \in SUBSET Plays
  BY DEF TakeSnapshot, LoadOf, Hopeful, Active, rowVars
<1>1. seen' = [seen EXCEPT ![p] = [x \in Owners |-> Cardinality(LoadOf(x))]]
  <2>1. PICK none \in {FALSE, ReadErrors} :
          seen' = [seen EXCEPT ![p] = [x \in Owners |-> IF none THEN 0 ELSE Cardinality(LoadOf(x))]]
    BY DEF TakeSnapshot
  <2>2. ~none
    BY <2>1
  <2>. QED
    BY <2>1, <2>2
<1>2. seen'[p][o] = Cardinality(LoadOf(o)) /\ \A q \in Plays \ {p} : seen'[q] = seen[q]
  BY <1>1
<1>3. \A q \in Plays \ {p} : pc'[q] = pc[q]
  BY DEF TakeSnapshot, GoTo
<1>4. CASE Cardinality(LoadOf(o)) < Cap
  <2>1. Hopeful(o)' \subseteq Active'
    BY DEF Hopeful, Active, Undecided, Assigning, Resting
  <2>2. (LoadOf(o) \cup Hopeful(o))' \subseteq LoadOf(o) \cup Active'
    BY <1>0, <2>1
  <2>3. Cardinality((LoadOf(o) \cup Hopeful(o))') <= Cardinality(LoadOf(o) \cup Active')
    BY <1>0, <2>2, FewerPlays
  <2>4. Cardinality(LoadOf(o) \cup Active')
          = Cardinality(LoadOf(o)) + Cardinality(Active') - Cardinality(LoadOf(o) \cap Active')
    BY <1>0, PlaysCountable, FS_Union
  <2>5. /\ Cardinality(LoadOf(o)) \in Nat /\ Cardinality(Active') \in Nat
        /\ Cardinality(LoadOf(o) \cap Active') \in Nat
        /\ Cardinality((LoadOf(o) \cup Hopeful(o))') \in Nat
    <3>1. LoadOf(o) \cap Active' \in SUBSET Plays /\ (LoadOf(o) \cup Hopeful(o))' \in SUBSET Plays
      BY <1>0
    <3>. QED
      BY <1>0, <3>1, PlaysCountable
  <2>. QED
    BY <1>4, <2>3, <2>4, <2>5
<1>5. CASE ~(Cardinality(LoadOf(o)) < Cap)
  <2>1. Hopeful(o)' \subseteq Hopeful(o)
    BY <1>2, <1>3, <1>5 DEF Hopeful
  <2>2. (LoadOf(o) \cup Hopeful(o))' \subseteq LoadOf(o) \cup Hopeful(o)
    BY <1>0, <2>1
  <2>3. /\ (LoadOf(o) \cup Hopeful(o))' \in SUBSET Plays
        /\ LoadOf(o) \cup Hopeful(o) \in SUBSET Plays
    BY <1>0
  <2>4. Cardinality((LoadOf(o) \cup Hopeful(o))') <= Cardinality(LoadOf(o) \cup Hopeful(o))
    BY <2>2, <2>3, FewerPlays
  <2>. QED
    BY <2>3, <2>4, PlaysCountable
<1>. QED
  BY <1>4, <1>5

\* No step lets an owner have more than Cap + Workers - 1 plays to work on.
LEMMA LoadsStep ==
  /\ ~ReadErrors
  /\ TypeOK /\ (\A p \in Plays : RunConsistent(p)) /\ LoadsBounded
  /\ [Next]_vars
  => LoadsBounded'
<1>. SUFFICES ASSUME ~ReadErrors, TypeOK, \A p \in Plays : RunConsistent(p), LoadsBounded,
                     [Next]_vars
     PROVE LoadsBounded'
  OBVIOUS
<1>1. Cardinality(Active') <= Workers
  BY ActiveStep DEF LoadsBounded
<1>2. ASSUME NEW o \in Owners
      PROVE Cardinality((LoadOf(o) \cup Hopeful(o))') <= Cap + Workers - 1
  <2>0. Cardinality(LoadOf(o) \cup Hopeful(o)) <= Cap + Workers - 1
    BY DEF LoadsBounded
  <2>1. CASE (LoadOf(o) \cup Hopeful(o))' \subseteq LoadOf(o) \cup Hopeful(o)
    <3>1. /\ (LoadOf(o) \cup Hopeful(o))' \in SUBSET Plays
          /\ LoadOf(o) \cup Hopeful(o) \in SUBSET Plays
      BY DEF LoadOf, Hopeful
    <3>2. Cardinality((LoadOf(o) \cup Hopeful(o))') <= Cardinality(LoadOf(o) \cup Hopeful(o))
      BY <2>1, <3>1, FewerPlays
    <3>. QED
      BY <2>0, <3>1, <3>2, PlaysCountable, RoutingAssumption
  <2>2. CASE UNCHANGED vars
    BY <2>0, <2>2 DEF vars, runVars, rowVars, LoadOf, Hopeful
  <2>3. CASE Next
    <3>1. PICK p \in Plays : Run(p) \/ AssignLate(p)
      BY <2>3 DEF Next
    <3>2. CASE TakeSnapshot(p)
      BY <1>1, <2>0, <3>2, LoadAtSnapshot
    <3>3. CASE Run(p) /\ ~TakeSnapshot(p)
      BY <2>1, <3>3, LoadShrinks
    <3>4. CASE AssignLate(p)
      BY <2>0, <3>4 DEF AssignLate, runVars, rowVars, LoadOf, Hopeful
    <3>. QED
      BY <3>1, <3>2, <3>3, <3>4
  <2>. QED
    BY <2>2, <2>3
<1>. QED
  BY <1>1, <1>2 DEF LoadsBounded

\* No assignment is forgotten: what is counted once stays counted.
LEMMA CountedGrows ==
  ASSUME TypeOK, NEW p \in Plays, RunConsistent(p), NEW q \in Queues,
         Run(p)
  PROVE  Counted(q) \subseteq Counted(q)'
<1>1. SUFFICES ASSUME NEW x \in Plays, x \in Counted(q) PROVE x \in Counted(q)'
  BY DEF Counted
<1>2. CASE x # p
  <2>1. x \in Plays \ {p}
    BY <1>2
  <2>2. pc'[x] = pc[x] /\ owner'[x] = owner[x] /\ queue'[x] = queue[x]
    BY <2>1, OthersStep
  <2>. QED
    BY <1>1, <2>2 DEF Counted
<1>3. CASE x = p
  <2>1. pc[p] \in {"touch", "done", "dead"}
    BY <1>1, <1>3 DEF Counted, RunConsistent, Afterwards, TypeOK
  <2>2. Touch(p) \/ Fail(p)
    BY <2>1 DEF Run, Start, TakeSnapshot, ReadCounter, Propose, RequestHumanReview, FindSfLead,
       CreateSfLead, AssignSfOwner, CreateTask, RecordOwner, ReadTally, AdvanceCounter, At
  <2>. QED
    BY <1>1, <1>3, <2>2 DEF Touch, Fail, Counted, TypeOK, GoTo, rowVars
<1>. QED
  BY <1>2, <1>3

\* A counter moves by one for an assignment nobody has counted yet.
LEMMA CountersStep ==
  /\ TypeOK /\ (\A p \in Plays : RunConsistent(p)) /\ CountersBacked
  /\ [Next]_vars
  => CountersBacked'
<1>. SUFFICES ASSUME TypeOK, \A p \in Plays : RunConsistent(p), CountersBacked, [Next]_vars
     PROVE CountersBacked'
  OBVIOUS
<1>t. TypeOK'
  BY TypeStep
<1>1. CASE UNCHANGED vars
  <2>1. \A q : Counted(q)' = Counted(q)
    BY <1>1 DEF vars, runVars, rowVars, Counted
  <2>. QED
    BY <1>1, <2>1 DEF vars, runVars, CountersBacked
<1>3. CASE \E p \in Plays : AssignLate(p)
  <2>1. \A q : Counted(q)' = Counted(q)
    BY <1>3 DEF AssignLate, runVars, rowVars, Counted
  <2>. QED
    BY <1>3, <2>1 DEF AssignLate, runVars, CountersBacked
<1>2. CASE \E p \in Plays : Run(p)
  <2>1. PICK p \in Plays : Run(p)
    BY <1>2
  <2>2. \A q \in Queues :
          /\ Cardinality(Counted(q)) \in Nat /\ Cardinality(Counted(q)') \in Nat
          /\ Cardinality(Counted(q)) <= Cardinality(Counted(q)')
    <3>1. \A q \in Queues : Counted(q) \in SUBSET Plays /\ Counted(q)' \in SUBSET Plays
      BY DEF Counted
    <3>2. \A q \in Queues : Counted(q) \subseteq Counted(q)'
      BY <2>1, CountedGrows
    <3>. QED
      BY <3>1, <3>2, PlaysCountable, FewerPlays
  <2>3. ASSUME NEW q \in Queues PROVE counter'[q] <= Cardinality(Counted(q)')
    <3>1. CASE counter'[q] = counter[q]
      BY <2>2, <3>1 DEF CountersBacked, TypeOK
    <3>2. CASE counter'[q] # counter[q]
      <4>1. AdvanceCounter(p)
        BY <2>1, <3>2 DEF Run, Start, TakeSnapshot, ReadCounter, Propose, RequestHumanReview,
           FindSfLead, CreateSfLead, AssignSfOwner, CreateTask, RecordOwner, ReadTally, Touch, Fail
      <4>2. counter'[q] = read[p] + 1 /\ queue[p] = q /\ pc[p] = "advance"
        BY <3>2, <4>1 DEF AdvanceCounter, At, TypeOK
      <4>3. read[p] <= Cardinality(Counted(q))
        BY <4>2 DEF CountersBacked
      <4>4. p \notin Counted(q) /\ p \in Counted(q)'
        BY <4>1, <4>2 DEF AdvanceCounter, Counted, RunConsistent, GoTo, TypeOK, rowVars
      <4>5. Counted(q) \cup {p} \in SUBSET Plays /\ Counted(q)' \in SUBSET Plays
            /\ Counted(q) \in SUBSET Plays
        BY DEF Counted
      <4>6. Counted(q) \cup {p} \subseteq Counted(q)'
        BY <2>1, <4>4, CountedGrows
      <4>7. Cardinality(Counted(q) \cup {p}) = Cardinality(Counted(q)) + 1
        BY <4>4, <4>5, PlaysCountable, FS_AddElement
      <4>8. Cardinality(Counted(q)) + 1 <= Cardinality(Counted(q)')
        BY <4>5, <4>6, <4>7, FewerPlays
      <4>. QED
        BY <2>2, <4>2, <4>3, <4>8 DEF TypeOK
    <3>. QED
      BY <3>1, <3>2
  <2>4. ASSUME NEW x \in Plays, pc'[x] = "advance"
        PROVE (read[x] <= Cardinality(Counted(queue[x])))'
    <3>0. ASSUME NEW q \in Queues, queue'[x] = q, read'[x] \in Nat,
                 read'[x] <= Cardinality(Counted(q))
          PROVE (read[x] <= Cardinality(Counted(queue[x])))'
      <4>1. Counted(queue[x])' = Counted(q)'
        BY <3>0 DEF Counted
      <4>2. read'[x] <= Cardinality(Counted(q)')
        BY <2>2, <3>0
      <4>. QED
        BY <4>1, <4>2
    <3>1. CASE pc[x] = "advance" /\ read'[x] = read[x] /\ queue'[x] = queue[x]
      <4>1. queue[x] \in Queues
        BY <3>1 DEF RunConsistent
      <4>2. read[x] <= Cardinality(Counted(queue[x])) /\ read[x] \in Nat
        BY <3>1 DEF CountersBacked, TypeOK
      <4>. QED
        BY <3>0, <3>1, <4>1, <4>2
    <3>2. CASE x = p /\ ReadTally(p)
      <4>1. queue[x] \in Queues /\ queue'[x] = queue[x] /\ read'[x] = counter[queue[x]]
        BY <2>4, <3>2 DEF ReadTally, GoTo, TypeOK, RoutingAssumption, RunConsistent, At
      <4>2. counter[queue[x]] <= Cardinality(Counted(queue[x])) /\ counter[queue[x]] \in Nat
        BY <4>1 DEF CountersBacked, TypeOK
      <4>. QED
        BY <3>0, <4>1, <4>2
    <3>3. CASE x # p
      <4>1. x \in Plays \ {p}
        BY <3>3
      <4>2. pc'[x] = pc[x] /\ read'[x] = read[x] /\ queue'[x] = queue[x]
        BY <2>1, <4>1, OthersStep
      <4>. QED
        BY <2>4, <3>1, <4>2
    <3>4. CASE x = p /\ ~ReadTally(p)
      <4>1. pc'[p] # "advance"
        BY <2>1, <3>4 DEF Run, Start, TakeSnapshot, ReadCounter, Propose, RequestHumanReview,
           FindSfLead, CreateSfLead, AssignSfOwner, CreateTask, RecordOwner, AdvanceCounter,
           Touch, Fail, GoTo, TypeOK
      <4>. QED
        BY <2>4, <3>4, <4>1
    <3>. QED
      BY <3>2, <3>3, <3>4
  <2>. QED
    BY <2>3, <2>4 DEF CountersBacked
<1>. QED
  BY <1>1, <1>2, <1>3 DEF Next

\* Nothing is routed at the start.
LEMMA RoutingInit == Init => RoutingInvariant
<1>. SUFFICES ASSUME Init PROVE RoutingInvariant
  OBVIOUS
<1>. USE RoutingAssumption
<1>1. TypeOK
  BY DEF Init, TypeOK, Steps, Resting
<1>2. \A p \in Plays : RunConsistent(p)
  BY DEF Init, RunConsistent, Undecided, Assigning
<1>3. LeadsAssigned
  BY DEF Init, LeadsAssigned
<1>e. Cardinality({}) = 0
  BY FS_EmptySet
<1>4. LoadsBounded
  <2>1. Active = {}
    BY DEF Init, Active, Resting
  <2>2. ASSUME NEW o \in Owners PROVE LoadOf(o) \cup Hopeful(o) = {}
    BY DEF Init, LoadOf, Hopeful, Undecided, Assigning
  <2>3. 0 <= Workers /\ 0 <= Cap + Workers - 1
    OBVIOUS
  <2>. QED
    BY <1>e, <2>1, <2>2, <2>3 DEF LoadsBounded
<1>5. CountersBacked
  <2>1. ASSUME NEW q \in Queues PROVE counter[q] <= Cardinality(Counted(q))
    <3>1. Counted(q) = {}
      BY DEF Init, Counted
    <3>2. counter[q] = 0
      BY DEF Init
    <3>. QED
      BY <1>e, <3>1, <3>2
  <2>2. \A p \in Plays : pc[p] # "advance"
    BY DEF Init
  <2>. QED
    BY <2>1, <2>2 DEF CountersBacked
<1>. QED
  BY <1>1, <1>2, <1>3, <1>4, <1>5 DEF RoutingInvariant

\* The inductive invariant of routing holds, provided the workload query answers:
\* read-decide-write of src/workflows/inbound-lead/nodes/route.ts.
THEOREM RoutingInvariantHolds ==
  ASSUME ~ReadErrors PROVE Spec => []RoutingInvariant
<1>1. RoutingInvariant /\ [Next]_vars => RoutingInvariant'
  BY TypeStep, RunsStep, AssignedStep, LoadsStep, CountersStep DEF RoutingInvariant
<1>. QED
  BY <1>1, RoutingInit, PTL DEF Spec

\* An owner never has Cap + Workers or more plays to work on, although the limit
\* of src/agents/routing/rules.ts is checked against a stale snapshot.
THEOREM OverloadBoundedHolds ==
  ASSUME ~ReadErrors PROVE Spec => []OverloadBounded
<1>1. RoutingInvariant => OverloadBounded
  <2>. SUFFICES ASSUME RoutingInvariant, NEW o \in Owners
       PROVE Cardinality(LoadOf(o)) <= Cap + Workers - 1
    BY DEF OverloadBounded
  <2>1. LoadOf(o) \in SUBSET Plays /\ LoadOf(o) \cup Hopeful(o) \in SUBSET Plays
    BY DEF LoadOf, Hopeful
  <2>2. Cardinality(LoadOf(o)) <= Cardinality(LoadOf(o) \cup Hopeful(o))
    BY <2>1, FewerPlays
  <2>3. Cardinality(LoadOf(o) \cup Hopeful(o)) <= Cap + Workers - 1
    BY DEF RoutingInvariant, LoadsBounded
  <2>. QED
    BY <2>1, <2>2, <2>3, PlaysCountable, RoutingAssumption
<1>. QED
  BY <1>1, RoutingInvariantHolds, PTL

\* What holds without the loads, and therefore even when queries fail.
LEMMA RunsInvariant ==
  Spec => [](TypeOK /\ (\A p \in Plays : RunConsistent(p)) /\ LeadsAssigned /\ CountersBacked)
<1>1. Init => TypeOK /\ (\A p \in Plays : RunConsistent(p)) /\ LeadsAssigned /\ CountersBacked
  BY RoutingInit DEF RoutingInvariant
<1>2. /\ TypeOK /\ (\A p \in Plays : RunConsistent(p)) /\ LeadsAssigned /\ CountersBacked
      /\ [Next]_vars
      => (TypeOK /\ (\A p \in Plays : RunConsistent(p)) /\ LeadsAssigned /\ CountersBacked)'
  BY TypeStep, RunsStep, AssignedStep, CountersStep
<1>. QED
  BY <1>1, <1>2, PTL DEF Spec

\* assign_owner of src/actions/action-executor.ts names an owner only after
\* Salesforce has a lead of the contact under that owner and a task for the call;
\* only the assignment by another play of the same contact takes the lead away.
THEOREM OwnerSyncedHolds == Spec => []OwnerSynced
  BY RunsInvariant, SyncedByRuns, PTL

\* incrementRoutingStateIndex of src/actions/action-executor.ts loses increments
\* but never counts an assignment that was not made, or one twice.
THEOREM CounterBackedHolds == Spec => []CounterBacked
<1>1. TypeOK /\ CountersBacked => CounterBacked
  <2>. SUFFICES ASSUME TypeOK, CountersBacked, NEW q \in Queues
       PROVE counter[q] <= Cardinality({p \in Plays : owner[p] # Nobody /\ queue[p] = q})
    BY DEF CounterBacked
  <2>. DEFINE Assigned == {p \in Plays : owner[p] # Nobody /\ queue[p] = q}
  <2>1. Assigned \in SUBSET Plays /\ Counted(q) \in SUBSET Plays /\ Counted(q) \subseteq Assigned
    BY DEF Counted
  <2>2. Cardinality(Counted(q)) <= Cardinality(Assigned)
    BY <2>1, FewerPlays
  <2>3. counter[q] <= Cardinality(Counted(q)) /\ counter[q] \in Nat
    BY DEF CountersBacked, TypeOK
  <2>4. Cardinality(Counted(q)) \in Nat /\ Cardinality(Assigned) \in Nat
    BY <2>1, PlaysCountable
  <2>. QED
    BY <2>2, <2>3, <2>4
<1>. QED
  BY <1>1, RunsInvariant, PTL

=============================================================================
