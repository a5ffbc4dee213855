------------------------- MODULE SepEnrollmentProofs -------------------------
(* Theorems about SepEnrollment, for any number of runs and health checks. *)
EXTENDS SepEnrollment, TLAPS

\* Every step preserves the types.
LEMMA TypeStep == TypeOK /\ AttemptsCounted /\ [Next]_vars => TypeOK'
<1>. SUFFICES ASSUME TypeOK, AttemptsCounted, [Next]_vars PROVE TypeOK'
  OBVIOUS
<1>. USE SepAssumption DEF TypeOK, Clients, Grants, Pairs, EnvPair, NoPair, Operations, Resting,
     Steps, rowVars, tokenVars, extVars, At, GoTo
<1>1. ASSUME NEW r \in Runs, BeginRun(r) PROVE TypeOK'
  BY <1>1 DEF BeginRun
<1>2. ASSUME NEW k \in Checks, BeginCheck(k) PROVE TypeOK'
  BY <1>2 DEF BeginCheck
<1>3. ASSUME NEW c \in Clients, Unauthorized(c) \/ Refused(c) \/ Abort(c) \/ RefreshRefused(c)
      PROVE TypeOK'
  BY <1>3 DEF Unauthorized, Refused, Abort, RefreshRefused
<1>4. ASSUME NEW c \in Clients, Answered(c) PROVE TypeOK'
  <2>1. prospects' \in [Runs -> Nat] /\ enrolled' \in [Runs -> Nat]
    <3>1. Effect(c)
      BY <1>4 DEF Answered
    <3>2. CASE c \in Runs
      BY <3>1, <3>2 DEF Effect
    <3>3. CASE c \notin Runs
      BY <3>1, <3>3 DEF Effect
    <3>. QED
      BY <3>2, <3>3
  <2>2. pc' \in [Clients -> Steps]
    BY <1>4 DEF Answered, Succeed
  <2>3. op' \in [Clients -> Operations]
    BY <1>4 DEF Answered, Succeed
  <2>4. tries' \in [Clients -> Nat]
    BY <1>4 DEF Answered, Succeed
  <2>. QED
    BY <1>4, <2>1, <2>2, <2>3, <2>4 DEF Answered
<1>5. ASSUME NEW c \in Clients, Unanswered(c) PROVE TypeOK'
  BY <1>5 DEF Unanswered, Effect, Retry
<1>6. ASSUME NEW c \in Clients, Refresh(c) PROVE TypeOK'
  BY <1>6 DEF Refresh, Rotate, Refreshable
<1>7. ASSUME NEW c \in Clients, RefreshUnanswered(c) PROVE TypeOK'
  BY <1>7 DEF RefreshUnanswered, Rotate, Refreshable, Retry
<1>8. ASSUME NEW c \in Clients, StoreTokens(c) PROVE TypeOK'
  BY <1>8 DEF StoreTokens
<1>9. ASSUME NEW r \in Runs, RecordFirstTouch(r) PROVE TypeOK'
  BY <1>9 DEF RecordFirstTouch
<1>10. CASE Reconnect
  BY <1>10 DEF Reconnect, Rotate, clientVars
<1>11. ASSUME NEW t \in fresh, Expire(t) PROVE TypeOK'
  BY <1>11 DEF Expire, clientVars
<1>12. CASE UNCHANGED vars
  BY <1>12 DEF vars, clientVars
<1>. QED
  BY <1>1, <1>2, <1>3, <1>4, <1>5, <1>6, <1>7, <1>8, <1>9, <1>10, <1>11, <1>12
     DEF Next, Begin, Work

\* What a step of one client leaves alone.
LEMMA OthersStep ==
  ASSUME TypeOK, NEW c \in Clients, Work(c) \/ Abort(c)
  PROVE  /\ \A d \in Clients \ {c} :
              pc'[d] = pc[d] /\ op'[d] = op[d] /\ tries'[d] = tries[d] /\ pair'[d] = pair[d]
         /\ \A r \in Runs \ {c} : enrolled'[r] = enrolled[r]
         /\ UNCHANGED recorded
<1>. USE DEF TypeOK, rowVars, tokenVars, extVars, GoTo
<1>1. CASE Unauthorized(c) \/ Refused(c) \/ Abort(c) \/ RefreshRefused(c)
  BY <1>1 DEF Unauthorized, Refused, Abort, RefreshRefused
<1>2. CASE Answered(c)
  BY <1>2 DEF Answered, Effect, Succeed
<1>3. CASE Unanswered(c)
  BY <1>3 DEF Unanswered, Effect, Retry
<1>4. CASE Refresh(c) \/ StoreTokens(c)
  BY <1>4 DEF Refresh, StoreTokens
<1>5. CASE RefreshUnanswered(c)
  BY <1>5 DEF RefreshUnanswered, Retry
<1>. QED
  BY <1>1, <1>2, <1>3, <1>4, <1>5 DEF Work

\* A client's own step keeps its account of attempts.
LEMMA OwnStep ==
  ASSUME TypeOK, NEW c \in Clients, tries[c] < MaxAttempts,
         pc[c] \notin Resting => pair[c] \in Pairs,
         Work(c) \/ Abort(c)
  PROVE  /\ tries'[c] < MaxAttempts
         /\ pc'[c] \notin Resting => pair'[c] \in Pairs
<1>. USE SepAssumption DEF TypeOK, Resting, rowVars, tokenVars, extVars, GoTo, At
<1>1. CASE Unauthorized(c) \/ Refused(c) \/ Abort(c) \/ RefreshRefused(c)
  BY <1>1 DEF Unauthorized, Refused, Abort, RefreshRefused
<1>2. CASE Answered(c)
  BY <1>2 DEF Answered, Succeed
<1>3. CASE Unanswered(c)
  BY <1>3 DEF Unanswered, Retry
<1>4. CASE Refresh(c)
  BY <1>4 DEF Refresh, Refreshable, Pairs
<1>5. CASE RefreshUnanswered(c)
  BY <1>5 DEF RefreshUnanswered, Retry
<1>6. CASE StoreTokens(c)
  BY <1>6 DEF StoreTokens
<1>. QED
  BY <1>1, <1>2, <1>3, <1>4, <1>5, <1>6 DEF Work

\* A run enrolls its lead at most once per attempt.
LEMMA CountedStep ==
  ASSUME TypeOK, NEW r \in Runs, Counted(r), tries[r] < MaxAttempts, Work(r) \/ Abort(r)
  PROVE  Counted(r)'
<1>. USE SepAssumption DEF TypeOK, Counted, Resting, Clients, rowVars, tokenVars, extVars, GoTo, At
<1>1. CASE Unauthorized(r) \/ Refused(r) \/ Abort(r) \/ RefreshRefused(r)
  BY <1>1 DEF Unauthorized, Refused, Abort, RefreshRefused
<1>2. CASE Answered(r)
  <2>1. op[r] # "health" /\ enrolled[r] <= tries[r] /\ r \in Clients
    BY <1>2 DEF Answered
  <2>2. CASE op[r] = "enroll"
    BY <1>2, <2>1, <2>2 DEF Answered, Succeed, Effect
  <2>3. CASE op[r] # "enroll"
    BY <1>2, <2>1, <2>3 DEF Answered, Succeed, Effect
  <2>. QED
    BY <2>2, <2>3
<1>3. CASE Unanswered(r)
  <2>1. op[r] # "health" /\ enrolled[r] <= tries[r] /\ UNCHANGED <<op, recorded>>
    BY <1>3 DEF Unanswered
  <2>2. enrolled'[r] <= enrolled[r] + 1 /\ enrolled'[r] >= enrolled[r]
        /\ (op[r] # "enroll" => enrolled'[r] = enrolled[r]) /\ enrolled'[r] \in Nat
    BY <1>3 DEF Unanswered, Effect
  <2>3. \/ pc'[r] = "call" /\ tries'[r] = tries[r] + 1
        \/ pc'[r] = "dead" /\ tries'[r] = tries[r]
    BY <1>3, <2>1 DEF Unanswered, Retry
  <2>. QED
    BY <1>3, <2>1, <2>2, <2>3 DEF Unanswered
<1>4. CASE Refresh(r)
  BY <1>4 DEF Refresh
<1>5. CASE RefreshUnanswered(r)
  BY <1>5 DEF RefreshUnanswered, Retry
<1>6. CASE StoreTokens(r)
  BY <1>6 DEF StoreTokens
<1>. QED
  BY <1>1, <1>2, <1>3, <1>4, <1>5, <1>6 DEF Work

\* The same for all clients.
LEMMA AttemptsStep == TypeOK /\ AttemptsCounted /\ [Next]_vars => AttemptsCounted'
<1>. SUFFICES ASSUME TypeOK, AttemptsCounted, [Next]_vars PROVE AttemptsCounted'
  OBVIOUS
<1>. USE DEF AttemptsCounted
<1>1. ASSUME NEW r \in Runs, BeginRun(r) PROVE AttemptsCounted'
  <2>1. UNCHANGED <<tries, recorded, enrolled>> /\ r \in Clients
    BY <1>1 DEF BeginRun, rowVars, extVars, Clients
  <2>2. \A d \in Clients \ {r} : pc'[d] = pc[d] /\ op'[d] = op[d] /\ pair'[d] = pair[d]
    BY <1>1 DEF BeginRun, TypeOK, GoTo
  <2>3. pc[r] = "idle" /\ pc'[r] = "call" /\ op'[r] = "find" /\ pair'[r] = EnvPair
    BY <1>1, <2>1 DEF BeginRun, TypeOK, At, GoTo
  <2>4. EnvPair \in Pairs
    BY DEF EnvPair, Pairs, Grants
  <2>5. \A d \in Clients : tries'[d] < MaxAttempts /\ (pc'[d] \notin Resting => pair'[d] \in Pairs)
    BY <2>1, <2>2, <2>3, <2>4
  <2>6. ASSUME NEW q \in Runs \ {r} PROVE Counted(q)'
    BY <2>1, <2>2 DEF Counted, Clients
  <2>7. Counted(r)'
    BY <2>1, <2>3, SepAssumption DEF Counted, Resting, TypeOK
  <2>. QED
    BY <2>5, <2>6, <2>7
<1>2. ASSUME NEW k \in Checks, BeginCheck(k) PROVE AttemptsCounted'
  <2>1. \A r \in Runs : pc'[r] = pc[r] /\ op'[r] = op[r]
    BY <1>2, SepAssumption DEF BeginCheck, TypeOK, Clients, GoTo
  <2>2. UNCHANGED <<tries, recorded, enrolled>>
    BY <1>2 DEF BeginCheck, rowVars, extVars
  <2>3. \A r \in Runs : Counted(r)'
    BY <2>1, <2>2 DEF Counted, Resting
  <2>. QED
    BY <1>2, <2>2, <2>3 DEF BeginCheck, TypeOK, GoTo
<1>3. ASSUME NEW c \in Clients, Work(c) \/ Abort(c) PROVE AttemptsCounted'
  <2>1. ASSUME NEW d \in Clients
        PROVE tries'[d] < MaxAttempts /\ (pc'[d] \notin Resting => pair'[d] \in Pairs)
    <3>1. CASE d = c
      BY <1>3, <3>1, OwnStep
    <3>2. CASE d # c
      <4>1. d \in Clients \ {c}
        BY <3>2
      <4>. QED
        BY <1>3, <4>1, OthersStep
    <3>. QED
      BY <3>1, <3>2
  <2>2. ASSUME NEW r \in Runs PROVE Counted(r)'
    <3>0. r \in Clients
      BY DEF Clients
    <3>1. CASE r = c
      BY <1>3, <3>0, <3>1, CountedStep
    <3>2. CASE r # c
      <4>1. pc'[r] = pc[r] /\ op'[r] = op[r] /\ tries'[r] = tries[r] /\ enrolled'[r] = enrolled[r]
            /\ UNCHANGED recorded
        BY <1>3, <3>0, <3>2, OthersStep
      <4>. QED
        BY <4>1 DEF Counted
    <3>. QED
      BY <3>1, <3>2
  <2>. QED
    BY <2>1, <2>2
<1>4. ASSUME NEW r \in Runs, RecordFirstTouch(r) PROVE AttemptsCounted'
  BY <1>4 DEF RecordFirstTouch, TypeOK, Counted, Resting, Clients, At, GoTo, tokenVars, extVars
<1>5. CASE Reconnect \/ (\E t \in fresh : Expire(t)) \/ UNCHANGED vars
  <2>1. UNCHANGED <<clientVars, recorded, extVars>>
    BY <1>5 DEF Reconnect, Expire, vars, rowVars
  <2>. QED
    BY <2>1 DEF Counted, clientVars, extVars
<1>. QED
  BY <1>1, <1>2, <1>3, <1>4, <1>5 DEF Next, Begin

\* A pair is its grant and its generation.
LEMMA SamePair == \A s, t \in Pairs : s.grant = t.grant /\ s.gen = t.gen => s = t
  BY DEF Pairs

\* Rotation only ever issues newer pairs.
LEMMA RotateStep ==
  ASSUME TypeOK, NEW g \in Grants, Rotate(g)
  PROVE  /\ refreshable'[g] = refreshable[g] + 1
         /\ \A h \in Grants : refreshable'[h] >= refreshable[h]
         /\ \A h \in Grants \ {g} : refreshable'[h] = refreshable[h]
  BY DEF TypeOK, Rotate

\* What does not touch pairs, tokens or the store keeps their order.
LEMMA IssuedStep ==
  TypeOK /\ AttemptsCounted /\ Issued /\ [Next]_vars => Issued'
<1>. SUFFICES ASSUME TypeOK, AttemptsCounted, Issued, [Next]_vars PROVE Issued'
  OBVIOUS
<1>g. \A t \in Pairs : t.grant \in Grants /\ t.gen \in Nat
  BY DEF Pairs
<1>1. ASSUME NEW r \in Runs, BeginRun(r) PROVE Issued'
  <2>1. UNCHANGED <<stored, refreshable>> /\ r \in Clients
    BY <1>1 DEF BeginRun, rowVars, tokenVars, Clients
  <2>2. \A d \in Clients \ {r} : pc'[d] = pc[d] /\ pair'[d] = pair[d]
    BY <1>1 DEF BeginRun, TypeOK, GoTo
  <2>3. pair'[r] = EnvPair
    BY <1>1, <2>1 DEF BeginRun, TypeOK
  <2>4. EnvPair.grant = "env" /\ EnvPair.gen = 0 /\ refreshable["env"] >= 0
    BY DEF EnvPair, TypeOK, Grants
  <2>. QED
    BY <2>1, <2>2, <2>3, <2>4 DEF Issued, Clients
<1>2. ASSUME NEW k \in Checks, BeginCheck(k) PROVE Issued'
  <2>1. UNCHANGED <<stored, refreshable>> /\ k \in Clients /\ k \notin Runs
    BY <1>2, SepAssumption DEF BeginCheck, rowVars, tokenVars, Clients
  <2>2. \A d \in Clients \ {k} : pc'[d] = pc[d] /\ pair'[d] = pair[d]
    BY <1>2 DEF BeginCheck, TypeOK, GoTo
  <2>3. pair'[k] = stored
    BY <1>2, <2>1 DEF BeginCheck, TypeOK
  <2>. QED
    BY <2>1, <2>2, <2>3 DEF Issued, Clients
<1>3. ASSUME NEW c \in Clients, Refresh(c) PROVE Issued'
  <2>1. pair[c] \in Pairs /\ refreshable[pair[c].grant] = pair[c].gen /\ Rotate(pair[c].grant)
        /\ pc[c] = "refresh" /\ UNCHANGED stored
    BY <1>3 DEF Refresh, Refreshable, rowVars, At
  <2>2. pair'[c].grant = pair[c].grant /\ pair'[c].gen = pair[c].gen + 1
    BY <1>3, <2>1 DEF Refresh, TypeOK, Pairs
  <2>3. \A d \in Clients \ {c} : pc'[d] = pc[d] /\ pair'[d] = pair[d]
    BY <1>3, OthersStep DEF Work
  <2>4. /\ refreshable'[pair[c].grant] = refreshable[pair[c].grant] + 1
        /\ \A h \in Grants : refreshable'[h] >= refreshable[h] /\ refreshable[h] \in Nat
                             /\ refreshable'[h] \in Nat
    <3>1. pair[c].grant \in Grants
      BY <2>1, <1>g
    <3>2. TypeOK'
      BY TypeStep
    <3>. QED
      BY <2>1, <3>1, <3>2, RotateStep DEF TypeOK
  <2>5. pair'[c].gen <= refreshable'[pair'[c].grant]
    <3>1. pair[c].grant \in Grants
      BY <2>1, <1>g
    <3>2. pair'[c].gen = refreshable'[pair[c].grant] /\ refreshable'[pair[c].grant] \in Nat
      BY <2>1, <2>2, <2>4, <3>1
    <3>. QED
      BY <2>2, <3>2
  <2>6. \A d \in Clients \ {c} : pair'[d] \in Pairs => pair'[d].gen <= refreshable'[pair'[d].grant]
    BY <2>3, <2>4, <1>g DEF Issued
  <2>7. stored' \in Pairs => stored'.gen <= refreshable'[stored'.grant]
    BY <2>1, <2>4, <1>g DEF Issued
  <2>8. \A r \in Runs : pc'[r] \notin Resting => pair'[r].grant = "env"
    BY <2>1, <2>2, <2>3 DEF Issued, Clients, Resting
  <2>. QED
    BY <2>5, <2>6, <2>7, <2>8 DEF Issued
<1>4. ASSUME NEW c \in Clients, RefreshUnanswered(c) PROVE Issued'
  <2>1. UNCHANGED <<pair, stored>> /\ pc[c] = "refresh"
    BY <1>4 DEF RefreshUnanswered, rowVars, At
  <2>2. \A h \in Grants : refreshable'[h] >= refreshable[h] /\ refreshable[h] \in Nat
                          /\ refreshable'[h] \in Nat
    <3>1. TypeOK'
      BY TypeStep
    <3>2. \A h \in Grants : refreshable'[h] >= refreshable[h]
      BY <1>4, <1>g, RotateStep DEF RefreshUnanswered, Refreshable, tokenVars, TypeOK
    <3>. QED
      BY <3>1, <3>2 DEF TypeOK
  <2>3. \A d \in Clients \ {c} : pc'[d] = pc[d]
    BY <1>4, OthersStep DEF Work
  <2>. QED
    BY <2>1, <2>2, <2>3, <1>g DEF Issued, Clients, Resting
<1>5. ASSUME NEW c \in Clients,
             \/ Unauthorized(c) \/ Answered(c) \/ Unanswered(c) \/ Refused(c)
             \/ RefreshRefused(c) \/ Abort(c)
      PROVE Issued'
  <2>1. UNCHANGED <<pair, stored, refreshable>>
    BY <1>5 DEF Unauthorized, Answered, Unanswered, Refused, RefreshRefused, Abort, rowVars, tokenVars
  <2>2. pc[c] \notin Resting
    BY <1>5 DEF Unauthorized, Answered, Unanswered, Refused, RefreshRefused, Abort, At, Resting
  <2>3. \A d \in Clients \ {c} : pc'[d] = pc[d]
    BY <1>5, OthersStep DEF Work
  <2>. QED
    BY <2>1, <2>2, <2>3 DEF Issued, Clients
<1>6. ASSUME NEW c \in Clients, StoreTokens(c) PROVE Issued'
  <2>1. UNCHANGED <<pair, refreshable>> /\ stored' \in {stored, pair[c]} /\ pc[c] = "store"
    BY <1>6 DEF StoreTokens, tokenVars, At
  <2>2. \A d \in Clients \ {c} : pc'[d] = pc[d]
    BY <1>6, OthersStep DEF Work
  <2>. QED
    BY <2>1, <2>2 DEF Issued, Clients, Resting
<1>7. ASSUME NEW r \in Runs, RecordFirstTouch(r) PROVE Issued'
  BY <1>7 DEF RecordFirstTouch, Issued, tokenVars, TypeOK, GoTo, At, Resting, Clients
<1>8. CASE Reconnect
  <2>1. UNCHANGED <<pair, pc>> /\ Rotate("oauth")
        /\ stored' = [grant |-> "oauth", gen |-> refreshable'["oauth"]]
    BY <1>8 DEF Reconnect, clientVars
  <2>2. TypeOK'
    BY TypeStep
  <2>3. \A h \in Grants : refreshable'[h] >= refreshable[h] /\ refreshable[h] \in Nat
                          /\ refreshable'[h] \in Nat
    BY <2>1, <2>2, RotateStep DEF TypeOK, Grants
  <2>4. stored'.gen <= refreshable'[stored'.grant]
    BY <2>1, <2>3 DEF Grants
  <2>. QED
    BY <2>1, <2>3, <2>4, <1>g DEF Issued
<1>9. CASE (\E t \in fresh : Expire(t)) \/ UNCHANGED vars
  BY <1>9 DEF Expire, vars, clientVars, rowVars, tokenVars, Issued
<1>. QED
  BY <1>1, <1>2, <1>3, <1>4, <1>5, <1>6, <1>7, <1>8, <1>9 DEF Next, Begin, Work

\* No step of another client touches a pair a run has just received.
LEMMA ExclusiveStep ==
  /\ TypeOK /\ AttemptsCounted /\ Issued /\ (\A r \in Runs : Exclusive(r))
  /\ [Next]_vars
  => (\A r \in Runs : Exclusive(r))'
<1>. SUFFICES ASSUME TypeOK, AttemptsCounted, Issued, \A r \in Runs : Exclusive(r), [Next]_vars,
                     NEW r \in Runs, pc'[r] = "store"
     PROVE  /\ Refreshable(pair[r])'
            /\ pair'[r] \notin {EnvPair, stored'}
            /\ \A c \in Clients \ {r} : pc'[c] \notin Resting => pair'[c] # pair'[r]
  BY DEF Exclusive
<1>g. \A t \in Pairs : t.grant \in Grants /\ t.gen \in Nat
  BY DEF Pairs
<1>r. r \in Clients
  BY DEF Clients
<1>1. CASE pc[r] # "store"
  <2>1. Refresh(r)
    <3>1. CASE \E c \in Clients \ {r} : Work(c) \/ Abort(c)
      BY <1>1, <1>r, <3>1, OthersStep
    <3>2. CASE Work(r) \/ Abort(r)
      BY <1>1, <1>r, <3>2 DEF Work, Abort, Unauthorized, Answered, Succeed, Unanswered, Retry,
         Refused, RefreshUnanswered, RefreshRefused, StoreTokens, GoTo, TypeOK
    <3>3. CASE Begin \/ (\E q \in Runs : RecordFirstTouch(q))
      BY <1>1, <1>r, <3>3 DEF Begin, BeginRun, BeginCheck, RecordFirstTouch, GoTo, TypeOK
    <3>4. CASE Reconnect \/ (\E t \in fresh : Expire(t)) \/ UNCHANGED vars
      BY <1>1, <3>4 DEF Reconnect, Expire, vars, clientVars
    <3>. QED
      BY <3>1, <3>2, <3>3, <3>4 DEF Next
  <2>2. /\ pair[r] \in Pairs /\ pair[r].grant = "env" /\ refreshable["env"] = pair[r].gen
        /\ Rotate("env") /\ UNCHANGED stored
    BY <2>1 DEF Refresh, Refreshable, rowVars, Issued, At, Resting
  <2>3. pair'[r].grant = "env" /\ pair'[r].gen = pair[r].gen + 1 /\ pair'[r] \in Pairs
    BY <2>1, <2>2, <1>r DEF Refresh, TypeOK, Pairs
  <2>4. refreshable'["env"] = refreshable["env"] + 1 /\ refreshable["env"] \in Nat
    BY <2>2, RotateStep DEF Grants, TypeOK
  <2>5. Refreshable(pair[r])'
    BY <2>2, <2>3, <2>4 DEF Refreshable
  <2>6. \A t \in Pairs : t.gen <= refreshable[t.grant] => t # pair'[r]
    BY <2>2, <2>3, <2>4, <1>g
  <2>7. pair'[r] # EnvPair /\ pair'[r] # stored'
    <3>1. EnvPair \in Pairs /\ EnvPair.gen <= refreshable[EnvPair.grant]
      BY <2>4 DEF EnvPair, Pairs, Grants
    <3>2. stored \in Pairs => stored # pair'[r]
      BY <2>6 DEF Issued
    <3>. QED
      BY <2>2, <2>3, <2>6, <3>1, <3>2
  <2>8. ASSUME NEW c \in Clients \ {r}, pc'[c] \notin Resting PROVE pair'[c] # pair'[r]
    <3>1. pc'[c] = pc[c] /\ pair'[c] = pair[c]
      BY <2>1, <1>r, OthersStep DEF Work
    <3>2. pair[c] \in Pairs
      BY <2>8, <3>1 DEF AttemptsCounted
    <3>. QED
      BY <3>1, <3>2, <2>6 DEF Issued
  <2>. QED
    BY <2>5, <2>7, <2>8
<1>2. CASE pc[r] = "store"
  <2>1. /\ Refreshable(pair[r]) /\ pair[r] \in Pairs /\ pair[r].grant = "env"
        /\ pair[r] \notin {EnvPair, stored}
        /\ \A c \in Clients \ {r} : pc[c] \notin Resting => pair[c] # pair[r]
    BY <1>2 DEF Exclusive, Refreshable, Issued, Resting
  <2>2. ASSUME UNCHANGED <<pair, stored, refreshable>>,
               \A c \in Clients : pc'[c] \notin Resting => pc[c] \notin Resting
        PROVE  /\ Refreshable(pair[r])'
               /\ pair'[r] \notin {EnvPair, stored'}
               /\ \A c \in Clients \ {r} : pc'[c] \notin Resting => pair'[c] # pair'[r]
    BY <2>1, <2>2 DEF Refreshable
  <2>3. ASSUME NEW q \in Runs, BeginRun(q)
        PROVE  /\ Refreshable(pair[r])'
               /\ pair'[r] \notin {EnvPair, stored'}
               /\ \A c \in Clients \ {r} : pc'[c] \notin Resting => pair'[c] # pair'[r]
    <3>1. q # r /\ UNCHANGED <<stored, refreshable>> /\ q \in Clients
      BY <1>2, <2>3 DEF BeginRun, At, rowVars, tokenVars, Clients
    <3>2. pair'[q] = EnvPair /\ \A d \in Clients \ {q} : pair'[d] = pair[d] /\ pc'[d] = pc[d]
      BY <2>3, <3>1 DEF BeginRun, TypeOK, GoTo
    <3>. QED
      BY <1>r, <2>1, <3>1, <3>2 DEF Refreshable
  <2>4. ASSUME NEW k \in Checks, BeginCheck(k)
        PROVE  /\ Refreshable(pair[r])'
               /\ pair'[r] \notin {EnvPair, stored'}
               /\ \A c \in Clients \ {r} : pc'[c] \notin Resting => pair'[c] # pair'[r]
    <3>1. k # r /\ UNCHANGED <<stored, refreshable>> /\ k \in Clients
      BY <1>2, <2>4 DEF BeginCheck, At, rowVars, tokenVars, Clients
    <3>2. pair'[k] = stored /\ \A d \in Clients \ {k} : pair'[d] = pair[d] /\ pc'[d] = pc[d]
      BY <2>4, <3>1 DEF BeginCheck, TypeOK, GoTo
    <3>. QED
      BY <1>r, <2>1, <3>1, <3>2 DEF Refreshable
  <2>5. ASSUME NEW c \in Clients,
               \/ Unauthorized(c) \/ Answered(c) \/ Unanswered(c) \/ Refused(c)
               \/ RefreshRefused(c) \/ Abort(c)
        PROVE  /\ Refreshable(pair[r])'
               /\ pair'[r] \notin {EnvPair, stored'}
               /\ \A d \in Clients \ {r} : pc'[d] \notin Resting => pair'[d] # pair'[r]
    <3>1. UNCHANGED <<pair, stored, refreshable>>
      BY <2>5 DEF Unauthorized, Answered, Unanswered, Refused, RefreshRefused, Abort, rowVars, tokenVars
    <3>2. pc[c] \notin Resting
      BY <2>5 DEF Unauthorized, Answered, Unanswered, Refused, RefreshRefused, Abort, At, Resting
    <3>3. \A d \in Clients \ {c} : pc'[d] = pc[d]
      BY <2>5, OthersStep DEF Work
    <3>. QED
      BY <2>2, <3>1, <3>2, <3>3
  <2>6. ASSUME NEW c \in Clients, Refresh(c) \/ RefreshUnanswered(c)
        PROVE  /\ Refreshable(pair[r])'
               /\ pair'[r] \notin {EnvPair, stored'}
               /\ \A d \in Clients \ {r} : pc'[d] \notin Resting => pair'[d] # pair'[r]
    <3>1. c # r /\ pc[c] \notin Resting /\ UNCHANGED stored
      BY <1>2, <2>6 DEF Refresh, RefreshUnanswered, At, rowVars, Resting
    <3>2. pair[c] # pair[r] /\ pair[c] \in Pairs
      BY <2>1, <3>1 DEF AttemptsCounted
    <3>3. \A d \in Clients \ {c} : pc'[d] = pc[d] /\ pair'[d] = pair[d]
      BY <2>6, OthersStep DEF Work
    <3>4. CASE UNCHANGED <<refreshable, pair>>
      BY <2>2, <3>1, <3>3, <3>4
    <3>5. CASE Refreshable(pair[c]) /\ Rotate(pair[c].grant)
      <4>1. pair[c].grant # "env"
        BY <2>1, <3>2, <3>5, SamePair DEF Refreshable
      <4>2. pair[c].grant \in Grants
        BY <3>2, <1>g
      <4>3. refreshable'["env"] = refreshable["env"]
        BY <4>1, <4>2, <3>5, RotateStep DEF Grants
      <4>4. pair'[c].grant = pair[c].grant
        BY <2>6, <3>2 DEF Refresh, RefreshUnanswered, TypeOK, Pairs
      <4>5. pair'[r] = pair[r]
        BY <1>r, <3>1, <3>3
      <4>6. pair'[c] # pair'[r]
        BY <2>1, <4>1, <4>4, <4>5
      <4>. QED
        BY <1>r, <2>1, <3>1, <3>3, <4>3, <4>5, <4>6 DEF Refreshable
    <3>. QED
      BY <2>6, <3>4, <3>5 DEF Refresh, RefreshUnanswered, tokenVars
  <2>7. ASSUME NEW c \in Clients, StoreTokens(c)
        PROVE  /\ Refreshable(pair[r])'
               /\ pair'[r] \notin {EnvPair, stored'}
               /\ \A d \in Clients \ {r} : pc'[d] \notin Resting => pair'[d] # pair'[r]
    <3>1. UNCHANGED <<pair, refreshable>> /\ stored' \in {stored, pair[c]} /\ pc[c] = "store"
          /\ pc'[c] = "again"
      BY <2>7 DEF StoreTokens, tokenVars, At, GoTo, TypeOK
    <3>2. c # r
      BY <3>1
    <3>3. pair[c] # pair[r]
      BY <2>1, <3>1, <3>2 DEF Resting
    <3>4. \A d \in Clients \ {c} : pc'[d] = pc[d]
      BY <2>7, OthersStep DEF Work
    <3>. QED
      BY <2>1, <3>1, <3>2, <3>3, <3>4 DEF Refreshable
  <2>8. ASSUME NEW q \in Runs, RecordFirstTouch(q)
        PROVE  /\ Refreshable(pair[r])'
               /\ pair'[r] \notin {EnvPair, stored'}
               /\ \A d \in Clients \ {r} : pc'[d] \notin Resting => pair'[d] # pair'[r]
    <3>1. UNCHANGED <<pair, stored, refreshable>>
      BY <2>8 DEF RecordFirstTouch, tokenVars
    <3>2. \A c \in Clients : pc'[c] \notin Resting => pc[c] \notin Resting
      BY <2>8 DEF RecordFirstTouch, TypeOK, GoTo, Resting, At, Clients
    <3>. QED
      BY <2>2, <3>1, <3>2
  <2>9. CASE Reconnect
    <3>1. UNCHANGED <<pair, pc>> /\ Rotate("oauth") /\ stored'.grant = "oauth"
      BY <2>9 DEF Reconnect, clientVars
    <3>2. refreshable'["env"] = refreshable["env"]
      BY <3>1, RotateStep DEF Grants
    <3>. QED
      BY <2>1, <3>1, <3>2 DEF Refreshable
  <2>10. CASE (\E t \in fresh : Expire(t)) \/ UNCHANGED vars
    <3>1. UNCHANGED <<pc, pair, stored, refreshable>>
      BY <2>10 DEF Expire, vars, clientVars, rowVars, tokenVars
    <3>. QED
      BY <2>2, <3>1
  <2>. QED
    BY <2>3, <2>4, <2>5, <2>6, <2>7, <2>8, <2>9, <2>10 DEF Next, Begin, Work
<1>. QED
  BY <1>1, <1>2

\* The inductive invariant of enrollment at the platform
\* (src/connectors/base.ts, src/connectors/outreach/outreach.connector.ts).
THEOREM SepInvariantHolds == Spec => []SepInvariant
<1>1. Init => SepInvariant
  <2>. SUFFICES ASSUME Init PROVE SepInvariant
    OBVIOUS
  <2>1. TypeOK
    <3>1. EnvPair \in Pairs
      BY DEF EnvPair, Pairs, Grants
    <3>. QED
      BY <3>1 DEF Init, TypeOK, Steps, Resting, Operations
  <2>2. AttemptsCounted
    BY SepAssumption DEF Init, AttemptsCounted, Counted, Resting, Clients
  <2>3. PairsExclusive
    <3>1. NoPair \notin Pairs
      BY DEF NoPair, Pairs, Grants
    <3>. QED
      BY <3>1 DEF Init, PairsExclusive, Issued, Exclusive, Resting, Clients
  <2>. QED
    BY <2>1, <2>2, <2>3 DEF SepInvariant
<1>2. SepInvariant /\ [Next]_vars => SepInvariant'
  BY TypeStep, AttemptsStep, IssuedStep, ExclusiveStep DEF SepInvariant, PairsExclusive
<1>. QED
  BY <1>1, <1>2, PTL DEF Spec

\* withRetry (src/connectors/base.ts) and the second request of fetchWithAuth
\* together enroll a lead at most once per attempt, and a first touch is only
\* recorded for a lead that was enrolled.
THEOREM EnrolledPerAttemptHolds == Spec => []EnrolledPerAttempt
<1>1. SepInvariant => EnrolledPerAttempt
  BY DEF SepInvariant, AttemptsCounted, Counted, EnrolledPerAttempt
<1>. QED
  BY <1>1, SepInvariantHolds, PTL

\* storeOAuthTokens (src/repositories/connector-config.repository.ts) is only
\* called with a pair nobody has used, however many connectors refresh.
THEOREM LivePairStoredHolds == Spec => LivePairStored
<1>1. SepInvariant /\ [Next]_vars => [stored' # stored => Refreshable(stored)']_vars
  <2>. SUFFICES ASSUME SepInvariant, [Next]_vars, stored' # stored PROVE Refreshable(stored)'
    OBVIOUS
  <2>1. CASE \E c \in Clients : StoreTokens(c)
    <3>1. PICK c \in Clients : StoreTokens(c)
      BY <2>1
    <3>2. c \in Runs /\ stored' = pair[c] /\ pc[c] = "store" /\ UNCHANGED refreshable
      BY <3>1 DEF StoreTokens, At, tokenVars
    <3>3. Refreshable(pair[c])
      BY <3>2 DEF SepInvariant, PairsExclusive, Exclusive
    <3>. QED
      BY <3>2, <3>3 DEF Refreshable
  <2>2. CASE Reconnect
    <3>1. refreshable'["oauth"] \in Nat
      BY <2>2 DEF Reconnect, Rotate, SepInvariant, TypeOK, Grants
    <3>. QED
      BY <2>2, <3>1 DEF Reconnect, Refreshable, Pairs, Grants
  <2>3. CASE ~ Reconnect /\ ~ \E c \in Clients : StoreTokens(c)
    BY <2>3 DEF Next, Begin, Work, BeginRun, BeginCheck, Unauthorized, Answered, Unanswered,
       Refused, Refresh, RefreshUnanswered, RefreshRefused, Abort, RecordFirstTouch, Expire,
       vars, rowVars
  <2>. QED
    BY <2>1, <2>2, <2>3
<1>. QED
  BY <1>1, SepInvariantHolds, PTL DEF Spec, LivePairStored

=============================================================================
