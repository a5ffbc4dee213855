------------------------ MODULE ConnectorConfigProofs ------------------------
(* Theorems about the two ways into a connector_config row: OAuthConnect, and *)
(* ConnectorSettings, whose definitions bear a prefix where the two clash.    *)
EXTENDS OAuthConnect, ConnectorSettings, FiniteSetTheorems, TLAPS

-----------------------------------------------------------------------------
(* OAuthConnect *)

\* Every step preserves the types; only a landing past its lookup has its nonce deleted.
LEMMA TypeStep == TypeOK /\ LandingsTraced /\ [Next]_vars => TypeOK'
<1>. SUFFICES ASSUME TypeOK, LandingsTraced, [Next]_vars PROVE TypeOK'
  OBVIOUS
<1>. USE DEF TypeOK, nonceVars, configVars, At, GoTo, Writers, Steps, Rest, Pages
<1>1. ASSUME NEW f \in Flows, Start(f) \/ Lapse(f) PROVE TypeOK'
  BY <1>1 DEF Start, Lapse
<1>2. ASSUME NEW l \in Landings, NEW f \in Flows, TurnAway(l, f) \/ LookUp(l, f) PROVE TypeOK'
  BY <1>2 DEF TurnAway, LookUp
<1>3. ASSUME NEW l \in Landings, DropExpired(l) \/ Consume(l) PROVE TypeOK'
  <2>1. via[l] \in Flows
    BY <1>3 DEF LandingsTraced, DropExpired, Consume
  <2>. QED
    BY <1>3, <2>1 DEF DropExpired, Consume, DeleteNonce
<1>4. ASSUME NEW w \in Writers, Exchange(w) \/ Refresh(w) \/ Drop(w) PROVE TypeOK'
  BY <1>4 DEF Exchange, Refresh, Drop
<1>5. ASSUME NEW w \in Writers, ReadConfig(w) PROVE TypeOK'
  BY <1>5 DEF ReadConfig, StorageFailed
<1>6. ASSUME NEW w \in Writers, WriteConfig(w) PROVE TypeOK'
  <2>1. [copy[w] EXCEPT !.tokens = w] \in Configs
    BY DEF Configs
  <2>. QED
    BY <1>6, <2>1 DEF WriteConfig, StorageFailed
<1>7. CASE UNCHANGED vars
  BY <1>7 DEF vars
<1>. QED
  BY <1>1, <1>2, <1>3, <1>4, <1>5, <1>6, <1>7 DEF Next

\* The steps that leave the row and who wrote it alone.
LEMMA RowSteps ==
  [Next]_vars => UNCHANGED <<config, written>> \/ \E w \in Writers : WriteConfig(w)
BY DEF Next, vars, configVars, Start, Lapse, TurnAway, LookUp, DropExpired, Consume, Exchange,
   Refresh, ReadConfig, Drop

\* A step that writes the row writes the tokens of a writer that is then known to have done so.
LEMMA TokensStep == TypeOK /\ TokensOwned /\ [Next]_vars => TokensOwned'
<1>. SUFFICES ASSUME TypeOK, TokensOwned, [Next]_vars PROVE TokensOwned'
  OBVIOUS
<1>1. ASSUME NEW w \in Writers, WriteConfig(w) PROVE TokensOwned'
  BY <1>1 DEF WriteConfig, TypeOK, Configs, TokensOwned
<1>2. CASE UNCHANGED <<config, written>>
  BY <1>2 DEF TokensOwned
<1>. QED
  BY <1>1, <1>2, RowSteps

\* The tokens of a flow are asked for in the step that deletes its nonce, and a
\* deleted nonce stays deleted.
LEMMA ClosedStep ==
  TypeOK /\ LandingsTraced /\ AskedFlowsClosed /\ [Next]_vars => AskedFlowsClosed'
<1>. SUFFICES ASSUME TypeOK, LandingsTraced, AskedFlowsClosed, [Next]_vars PROVE AskedFlowsClosed'
  OBVIOUS
<1>. USE DEF TypeOK, AskedFlowsClosed, nonceVars, configVars, At
<1>1. ASSUME NEW f \in Flows, Start(f) \/ Lapse(f) PROVE AskedFlowsClosed'
  BY <1>1 DEF Start, Lapse
<1>2. ASSUME NEW l \in Landings, NEW f \in Flows, TurnAway(l, f) \/ LookUp(l, f)
      PROVE AskedFlowsClosed'
  <2>1. l \notin asked
    BY <1>2 DEF LandingsTraced, TurnAway, LookUp
  <2>2. asked' = asked /\ nonce' = nonce /\ leftOver' = leftOver /\ via' = [via EXCEPT ![l] = f]
    BY <1>2 DEF TurnAway, LookUp
  <2>. QED
    BY <2>1, <2>2
<1>3. ASSUME NEW l \in Landings, DropExpired(l) \/ Consume(l) PROVE AskedFlowsClosed'
  <2>1. via[l] \in Flows
    BY <1>3 DEF LandingsTraced, DropExpired, Consume
  <2>2. via' = via /\ asked' \subseteq asked \cup {l} /\ DeleteNonce(via[l])
    BY <1>3 DEF DropExpired, Consume
  <2>. QED
    BY <2>1, <2>2 DEF DeleteNonce
<1>4. ASSUME NEW w \in Writers,
             Exchange(w) \/ Refresh(w) \/ ReadConfig(w) \/ WriteConfig(w) \/ Drop(w)
      PROVE AskedFlowsClosed'
  BY <1>4 DEF Exchange, Refresh, ReadConfig, WriteConfig, Drop
<1>5. CASE UNCHANGED vars
  BY <1>5 DEF vars
<1>. QED
  BY <1>1, <1>2, <1>3, <1>4, <1>5 DEF Next, Writers

\* A lookup that finds the nonce of a flow whose tokens were asked for finds one
\* that could not be deleted.
LEMMA TracedStep ==
  TypeOK /\ AskedFlowsClosed /\ LandingsTraced /\ [Next]_vars => LandingsTraced'
<1>. SUFFICES ASSUME TypeOK, AskedFlowsClosed, LandingsTraced, [Next]_vars PROVE LandingsTraced'
  OBVIOUS
<1>. USE DEF TypeOK, LandingsTraced, nonceVars, configVars, At, GoTo, Writers
<1>1. ASSUME NEW f \in Flows, Start(f) \/ Lapse(f) PROVE LandingsTraced'
  BY <1>1 DEF Start, Lapse
<1>2. ASSUME NEW l \in Landings, NEW f \in Flows, TurnAway(l, f) PROVE LandingsTraced'
  BY <1>2 DEF TurnAway
<1>3. ASSUME NEW l \in Landings, NEW f \in Flows, LookUp(l, f) PROVE LandingsTraced'
  <2>1. /\ via' = [via EXCEPT ![l] = f] /\ asked' = asked /\ leftOver' = leftOver
        /\ l \notin late /\ l \notin asked
        /\ late' = late \/ (late' = late \cup {l} /\ \E m \in asked : via[m] = f)
    BY <1>3 DEF LookUp
  <2>2. /\ pc' \in {[pc EXCEPT ![l] = s] : s \in {"found", "lapsed", "invalid_state"}}
        /\ pc'[l] = "found" => nonce[f] = "live"
    BY <1>3 DEF LookUp
  <2>3. pc'[l] = "found" /\ l \in late' => f \in leftOver
    BY <2>1, <2>2 DEF AskedFlowsClosed
  <2>. QED
    BY <2>1, <2>2, <2>3
<1>4. ASSUME NEW l \in Landings, DropExpired(l) \/ Consume(l) PROVE LandingsTraced'
  <2>1. /\ via' = via /\ late' = late /\ leftOver \subseteq leftOver'
        /\ asked' \subseteq asked \cup {l}
        /\ pc' \in {[pc EXCEPT ![l] = s] : s \in {"nonce_expired", "asking", "not_configured"}}
    BY <1>4 DEF DropExpired, Consume, DeleteNonce
  <2>. QED
    BY <2>1
<1>5. ASSUME NEW w \in Writers,
             Exchange(w) \/ Refresh(w) \/ ReadConfig(w) \/ WriteConfig(w) \/ Drop(w)
      PROVE LandingsTraced'
  <2>1. UNCHANGED <<via, asked, late, leftOver>>
    BY <1>5 DEF Exchange, Refresh, ReadConfig, WriteConfig, Drop
  <2>2. pc' \in {[pc EXCEPT ![w] = s] : s \in Steps \ {"idle", "found", "lapsed"}}
    BY <1>5 DEF Exchange, Refresh, ReadConfig, WriteConfig, Drop, StorageFailed, Steps, Rest, Pages
  <2>. QED
    BY <2>1, <2>2
<1>6. CASE UNCHANGED vars
  BY <1>6 DEF vars
<1>. QED
  BY <1>1, <1>2, <1>3, <1>4, <1>5, <1>6 DEF Next

\* An upsert keeps the other fields of the row, so that whoever has read them
\* before still has them as they are.
LEMMA ReadersStep == TypeOK /\ ReadersCurrent /\ [Next]_vars => ReadersCurrent'
<1>. SUFFICES ASSUME TypeOK, ReadersCurrent, [Next]_vars PROVE ReadersCurrent'
  OBVIOUS
<1>. USE DEF TypeOK, ReadersCurrent, nonceVars, configVars, At, GoTo, Writers
<1>1. ASSUME NEW w \in Writers, ReadConfig(w) PROVE ReadersCurrent'
  BY <1>1 DEF ReadConfig, StorageFailed
<1>2. ASSUME NEW w \in Writers, WriteConfig(w) PROVE ReadersCurrent'
  <2>1. config'.other = config.other
    BY <1>2 DEF WriteConfig, Configs
  <2>2. copy' = copy /\ \E s : s # "has_read" /\ pc' = [pc EXCEPT ![w] = s]
    BY <1>2 DEF WriteConfig, StorageFailed
  <2>. QED
    BY <2>1, <2>2
<1>3. ASSUME UNCHANGED <<copy, config>>,
             pc' = pc \/ \E w \in Writers, s \in Steps \ {"has_read"} : pc' = [pc EXCEPT ![w] = s]
      PROVE ReadersCurrent'
  BY <1>3
<1>4. ASSUME NEW l \in Landings, NEW f \in Flows, TurnAway(l, f) \/ LookUp(l, f)
      PROVE ReadersCurrent'
  BY <1>3, <1>4 DEF TurnAway, LookUp, Steps, Rest, Pages
<1>5. ASSUME NEW w \in Writers,
             DropExpired(w) \/ Consume(w) \/ Exchange(w) \/ Refresh(w) \/ Drop(w)
      PROVE ReadersCurrent'
  BY <1>3, <1>5 DEF DropExpired, Consume, Exchange, Refresh, Drop, Steps, Rest, Pages
<1>6. ASSUME NEW f \in Flows, Start(f) \/ Lapse(f) PROVE ReadersCurrent'
  BY <1>3, <1>6 DEF Start, Lapse
<1>7. CASE UNCHANGED vars
  BY <1>3, <1>7 DEF vars
<1>. QED
  BY <1>1, <1>2, <1>4, <1>5, <1>6, <1>7 DEF Next

\* The inductive invariant holds in every state.
THEOREM OAuthInvariantHolds == Spec => []OAuthInvariant
<1>1. Init => OAuthInvariant
  <2>1. NoConfig \in Configs /\ [NoConfig EXCEPT !.other = "set"] \in Configs
    BY DEF NoConfig, Configs, Fields
  <2>2. Init => TypeOK
    BY <2>1 DEF Init, TypeOK, Steps, Rest
  <2>3. Init => TokensOwned /\ AskedFlowsClosed /\ LandingsTraced /\ ReadersCurrent
    BY DEF Init, TokensOwned, AskedFlowsClosed, LandingsTraced, ReadersCurrent, NoConfig, At, Writers
  <2>. QED
    BY <2>2, <2>3 DEF OAuthInvariant
<1>2. OAuthInvariant /\ [Next]_vars => OAuthInvariant'
  BY TypeStep, TokensStep, ClosedStep, TracedStep, ReadersStep DEF OAuthInvariant
<1>. QED
  BY <1>1, <1>2, PTL DEF Spec

\* Only the consumption of a nonce asks for tokens; a late landing that gets there
\* belongs to a flow whose nonce could not be deleted.
LEMMA LateStep == OAuthInvariant /\ LateLandingRefused /\ [Next]_vars => LateLandingRefused'
<1>. SUFFICES ASSUME OAuthInvariant, LateLandingRefused, [Next]_vars PROVE LateLandingRefused'
  OBVIOUS
<1>. USE DEF OAuthInvariant, TypeOK, LandingsTraced, LateLandingRefused, nonceVars, configVars, At
<1>1. ASSUME NEW l \in Landings, NEW f \in Flows, TurnAway(l, f) \/ LookUp(l, f)
      PROVE LateLandingRefused'
  <2>1. /\ l \notin asked \cup late /\ via' = [via EXCEPT ![l] = f]
        /\ UNCHANGED <<asked, leftOver>> /\ late' \subseteq late \cup {l}
    BY <1>1 DEF TurnAway, LookUp
  <2>. QED
    BY <2>1
<1>2. ASSUME NEW l \in Landings, DropExpired(l) \/ Consume(l) PROVE LateLandingRefused'
  <2>1. /\ UNCHANGED <<via, late>> /\ leftOver \subseteq leftOver'
        /\ asked' = asked \/ (At(l, "found") /\ asked' = asked \cup {l})
    BY <1>2 DEF DropExpired, Consume, DeleteNonce
  <2>. QED
    BY <2>1
<1>3. CASE UNCHANGED <<via, asked, late, leftOver>>
  BY <1>3
<1>. QED
  BY <1>1, <1>2, <1>3
     DEF Next, vars, Start, Lapse, Exchange, Refresh, ReadConfig, WriteConfig, Drop

\* A landing that comes after the tokens of its flow were asked for does not ask
\* for them again, however many landings and flows overlap.
THEOREM LateLandingRefusedHolds == Spec => []LateLandingRefused
<1>1. Init => LateLandingRefused
  BY DEF Init, LateLandingRefused
<1>. QED
  BY <1>1, LateStep, OAuthInvariantHolds, PTL DEF Spec

\* The pages that a landing ends on are not left, and only an upsert ends on "connected".
LEMMA TruthfulStep == TypeOK /\ LandingTruthful /\ [Next]_vars => LandingTruthful'
<1>. SUFFICES ASSUME TypeOK, LandingTruthful, [Next]_vars PROVE LandingTruthful'
  OBVIOUS
<1>. USE DEF TypeOK, LandingTruthful, At, GoTo, nonceVars, configVars, Writers
<1>1. ASSUME NEW w \in Writers, WriteConfig(w) PROVE LandingTruthful'
  <2>1. \/ /\ written' = written \cup {w}
           /\ w \in Landings =>
                pc' \in {[pc EXCEPT ![w] = "connected"], [pc EXCEPT ![w] = "token_storage_failed"]}
           /\ w \notin Landings => pc' = [pc EXCEPT ![w] = "done"]
        \/ /\ written' = written /\ pc[w] = "has_read"
           /\ \E s \in {"token_storage_failed", "done"} : pc' = [pc EXCEPT ![w] = s]
    BY <1>1 DEF WriteConfig, StorageFailed
  <2>. QED
    BY <2>1
<1>2. ASSUME NEW w \in Writers, UNCHANGED written,
             pc[w] \notin {"connected", "token_storage_failed"},
             \E s \in Steps \ {"connected"} : pc' = [pc EXCEPT ![w] = s]
      PROVE LandingTruthful'
  BY <1>2
<1>3. ASSUME NEW l \in Landings, NEW f \in Flows, TurnAway(l, f) \/ LookUp(l, f)
      PROVE LandingTruthful'
  BY <1>2, <1>3 DEF TurnAway, LookUp, Steps, Rest, Pages
<1>4. ASSUME NEW w \in Writers,
             \/ DropExpired(w) \/ Consume(w) \/ Exchange(w) \/ Refresh(w) \/ ReadConfig(w)
             \/ Drop(w)
      PROVE LandingTruthful'
  BY <1>2, <1>4 DEF DropExpired, Consume, Exchange, Refresh, ReadConfig, Drop, StorageFailed,
     Steps, Rest, Pages
<1>5. CASE UNCHANGED <<pc, written>>
  BY <1>5
<1>. QED
  BY <1>1, <1>3, <1>4, <1>5 DEF Next, vars, Start, Lapse

\* The page a browser lands on tells the truth about the tokens of its landing.
THEOREM LandingTruthfulHolds == Spec => []LandingTruthful
<1>1. Init => LandingTruthful
  BY DEF Init, LandingTruthful, At, Writers
<1>2. OAuthInvariant => TypeOK
  BY DEF OAuthInvariant
<1>. QED
  BY <1>1, <1>2, TruthfulStep, OAuthInvariantHolds, PTL DEF Spec

\* The step of ConfigKept: an upsert has the other fields of the row, and a
\* writer's tokens are tokens.
LEMMA ConfigStep ==
  OAuthInvariant /\ [Next]_vars =>
    [/\ config'.other = config.other
     /\ config.tokens # NoTokens => config'.tokens # NoTokens]_config
<1>. SUFFICES ASSUME OAuthInvariant, NEW w \in Writers, WriteConfig(w), config' # config
              PROVE config'.other = config.other /\ config'.tokens # NoTokens
  BY RowSteps
<1>1. config' = [copy[w] EXCEPT !.tokens = w] /\ pc[w] = "has_read" /\ copy[w] \in Configs
  BY DEF WriteConfig, OAuthInvariant, TypeOK, At
<1>2. copy[w].other = config.other
  BY <1>1 DEF OAuthInvariant, ReadersCurrent, At
<1>. QED
  BY <1>1, <1>2, OAuthAssumption DEF Configs, Writers, NoTokens

\* No interleaving of logins and refreshes loses the other fields of the row, or
\* a connection that exists.
THEOREM ConfigKeptHolds == Spec => ConfigKept
BY ConfigStep, OAuthInvariantHolds, PTL DEF Spec, ConfigKept

-----------------------------------------------------------------------------
(* ConnectorSettings *)

\* What a step does to a call under way: it ends it, or gives it a reply.
LEMMA CallStep ==
  ASSUME SettingsTypeOK, NEW c \in calls, OneCall(c)
  PROVE  \/ /\ calls' = calls \ {c} /\ UNCHANGED sends
            /\ UNCHANGED timers \/ timers' = [timers EXCEPT ![c.form] = @ + 1]
         \/ /\ \E r \in Replies : calls' = (calls \ {c}) \cup {[c EXCEPT !.reply = r]}
            /\ UNCHANGED <<sends, timers>>
BY DEF OneCall, Answer, Take, Lose, ServeTest, ServeSave, Reply, Replies

\* Every step preserves the types, but for the bound of the timers.
LEMMA SettingsTypeStep ==
  SettingsTypeOK /\ [SettingsNext]_settingsVars =>
    /\ draft' \in [Forms -> Keys \cup {NoKey}]
    /\ status' \in [Forms -> Statuses]
    /\ sends' \in [Forms -> 0..MaxSends]
    /\ calls' \subseteq Calls
    /\ timers' \in [Forms -> Nat]
    /\ row' \in Rows
    /\ tested' \subseteq Forms /\ saved' \subseteq Forms
<1>. DEFINE Types == /\ draft \in [Forms -> Keys \cup {NoKey}]
                    /\ status \in [Forms -> Statuses]
                    /\ sends \in [Forms -> 0..MaxSends]
                    /\ calls \subseteq Calls
                    /\ timers \in [Forms -> Nat]
                    /\ row \in Rows
                    /\ tested \subseteq Forms /\ saved \subseteq Forms
<1>. SUFFICES ASSUME Types, [SettingsNext]_settingsVars PROVE Types'
  BY DEF SettingsTypeOK
<1>. USE SettingsAssumption DEF serverVars, Statuses
<1>1. ASSUME NEW a \in Forms, NEW k \in Keys, Edit(a, k) PROVE Types'
  BY <1>1 DEF Edit
<1>2. ASSUME NEW a \in Forms, NEW kind \in {"test", "save"}, Send(a, kind) PROVE Types'
  <2>1. [form |-> a, id |-> sends[a] + 1, kind |-> kind, key |-> draft[a], reply |-> "none"] \in Calls
    BY <1>2 DEF Send, Calls, Replies
  <2>2. sends' \in [Forms -> 0..MaxSends] /\ status' \in [Forms -> Statuses]
    BY <1>2 DEF Send
  <2>. QED
    BY <1>2, <2>1, <2>2 DEF Send
<1>3. ASSUME NEW a \in Forms, Fire(a) PROVE Types'
  BY <1>3 DEF Fire
<1>4. ASSUME NEW c \in calls, OneCall(c) PROVE Types'
  <2>. c \in Calls /\ c.form \in Forms /\ c.key \in Keys
    BY DEF Calls
  <2>1. CASE Answer(c)
    BY <2>1 DEF Answer, Take
  <2>2. CASE Lose(c)
    BY <2>2 DEF Lose
  <2>3. \A r \in Replies : [c EXCEPT !.reply = r] \in Calls
    BY DEF Calls
  <2>4. CASE ServeTest(c)
    BY <2>3, <2>4 DEF ServeTest, Reply, Replies
  <2>5. CASE ServeSave(c)
    BY <2>3, <2>5 DEF ServeSave, Reply, Replies, Rows
  <2>. QED
    BY <1>4, <2>1, <2>2, <2>4, <2>5 DEF OneCall
<1>5. CASE MapPortal
  BY <1>5 DEF MapPortal, Rows
<1>6. CASE UNCHANGED settingsVars
  BY <1>6 DEF settingsVars
<1>. QED
  BY <1>1, <1>2, <1>3, <1>4, <1>5, <1>6 DEF SettingsNext

\* A finite set with one element more, and with one less.
LEMMA OneMore ==
  ASSUME NEW S, IsFiniteSet(S), NEW x
  PROVE  /\ IsFiniteSet(S \cup {x})
         /\ Cardinality(S \cup {x}) \in Nat
         /\ Cardinality(S \cup {x}) <= Cardinality(S) + 1
<1>1. Cardinality(S) \in Nat
  BY FS_CardinalityType
<1>2. /\ IsFiniteSet(S \cup {x})
      /\ Cardinality(S \cup {x}) \in {Cardinality(S), Cardinality(S) + 1}
  <2>1. CASE x \in S
    <3>. S \cup {x} = S
      BY <2>1
    <3>. QED
      OBVIOUS
  <2>2. CASE x \notin S
    BY <2>2, FS_AddElement
  <2>. QED
    BY <2>1, <2>2
<1>. QED
  BY <1>1, <1>2

LEMMA OneLess ==
  ASSUME NEW S, IsFiniteSet(S), NEW x \in S
  PROVE  /\ IsFiniteSet(S \ {x})
         /\ Cardinality(S \ {x}) \in Nat
         /\ Cardinality(S \ {x}) = Cardinality(S) - 1
<1>1. IsFiniteSet(S \ {x}) /\ Cardinality(S \ {x}) = Cardinality(S) - 1
  BY FS_RemoveElement
<1>. QED
  BY <1>1, FS_CardinalityType

\* A request pays for its own timer: it has ended when the timer starts.
LEMMA CountStep == SettingsTypeOK /\ AnswersCounted /\ [SettingsNext]_settingsVars => AnswersCounted'
<1>. SUFFICES ASSUME SettingsTypeOK, AnswersCounted, [SettingsNext]_settingsVars PROVE AnswersCounted'
  OBVIOUS
<1>. DEFINE Pending(a) == Cardinality(CallsOf(a))
           PendingNext(a) == Cardinality(CallsOf(a)')
<1>1. ASSUME NEW a PROVE IsFiniteSet(CallsOf(a)) /\ Pending(a) \in Nat
  <2>1. IsFiniteSet(CallsOf(a))
    BY FS_Subset DEF CallsOf, AnswersCounted
  <2>. QED
    BY <2>1, FS_CardinalityType
<1>2. ASSUME NEW f \in Forms, IsFiniteSet(calls'),
             \A b \in Forms \ {f} : CallsOf(b)' = CallsOf(b),
             \A b \in Forms \ {f} : timers'[b] = timers[b] /\ sends'[b] = sends[b],
             timers'[f] + PendingNext(f) <= sends'[f]
      PROVE AnswersCounted'
  BY <1>2 DEF AnswersCounted
<1>3. ASSUME NEW a \in Forms, NEW kind \in {"test", "save"}, Send(a, kind) PROVE AnswersCounted'
  <2>. DEFINE new == [form |-> a, id |-> sends[a] + 1, kind |-> kind, key |-> draft[a],
                      reply |-> "none"]
  <2>1. /\ calls' = calls \cup {new} /\ timers' = timers
        /\ sends' = [sends EXCEPT ![a] = @ + 1]
    BY <1>3 DEF Send
  <2>2. CallsOf(a)' = CallsOf(a) \cup {new} /\ \A b \in Forms \ {a} : CallsOf(b)' = CallsOf(b)
    BY <2>1 DEF CallsOf
  <2>3. IsFiniteSet(calls')
    BY <2>1, OneMore DEF AnswersCounted
  <2>4. PendingNext(a) \in Nat /\ PendingNext(a) <= Pending(a) + 1
    <3>. HIDE DEF new
    <3>. QED
      BY <1>1, <2>2, OneMore
  <2>5. timers[a] + Pending(a) <= sends[a] /\ timers[a] \in Nat /\ sends[a] \in Nat
    BY SettingsAssumption DEF SettingsTypeOK, AnswersCounted
  <2>6. timers'[a] + PendingNext(a) <= sends'[a]
    <3>1. timers'[a] = timers[a] /\ sends'[a] = sends[a] + 1
      BY <2>1 DEF SettingsTypeOK
    <3>. HIDE DEF Pending, PendingNext
    <3>. QED
      BY <1>1, <2>4, <2>5, <3>1
  <2>. QED
    BY <1>2, <2>1, <2>2, <2>3, <2>6 DEF SettingsTypeOK
<1>4. ASSUME NEW a \in Forms, Fire(a) PROVE AnswersCounted'
  <2>1. calls' = calls /\ sends' = sends /\ timers' = [timers EXCEPT ![a] = @ - 1]
    BY <1>4 DEF Fire
  <2>2. \A b : CallsOf(b)' = CallsOf(b)
    BY <2>1 DEF CallsOf
  <2>3. timers[a] + Pending(a) <= sends[a] /\ timers[a] \in Nat /\ sends[a] \in Nat
    BY SettingsAssumption DEF SettingsTypeOK, AnswersCounted
  <2>4. timers'[a] + PendingNext(a) <= sends'[a]
    <3>1. timers'[a] = timers[a] - 1 /\ PendingNext(a) = Pending(a)
      BY <2>1, <2>2 DEF SettingsTypeOK
    <3>. HIDE DEF Pending, PendingNext
    <3>. QED
      BY <1>1, <2>1, <2>3, <3>1
  <2>. QED
    BY <1>2, <2>1, <2>2, <2>4 DEF SettingsTypeOK, AnswersCounted
<1>5. ASSUME NEW c \in calls, OneCall(c) PROVE AnswersCounted'
  <2>. DEFINE f == c.form
  <2>1. f \in Forms /\ c \in CallsOf(f)
    BY DEF Calls, CallsOf, SettingsTypeOK
  <2>2. IsFiniteSet(CallsOf(f) \ {c}) /\ Cardinality(CallsOf(f) \ {c}) = Pending(f) - 1
    BY <1>1, <2>1, OneLess
  <2>3. timers[f] + Pending(f) <= sends[f] /\ timers[f] \in Nat /\ sends[f] \in Nat
    BY <2>1, SettingsAssumption DEF SettingsTypeOK, AnswersCounted
  <2>4. IsFiniteSet(calls \ {c})
    BY OneLess DEF AnswersCounted
  <2>5. CASE /\ calls' = calls \ {c} /\ UNCHANGED sends
             /\ UNCHANGED timers \/ timers' = [timers EXCEPT ![f] = @ + 1]
    <3>1. CallsOf(f)' = CallsOf(f) \ {c} /\ \A b \in Forms \ {f} : CallsOf(b)' = CallsOf(b)
      BY <2>5 DEF CallsOf
    <3>2. timers'[f] \in {timers[f], timers[f] + 1} /\ sends'[f] = sends[f]
      BY <2>1, <2>5 DEF SettingsTypeOK
    <3>3. PendingNext(f) = Pending(f) - 1
      BY <2>2, <3>1
    <3>4. timers'[f] + PendingNext(f) <= sends'[f]
      <4>. HIDE DEF f, Pending, PendingNext
      <4>. QED
        BY <1>1, <2>3, <3>2, <3>3
    <3>. QED
      BY <1>2, <2>1, <2>4, <2>5, <3>1, <3>4 DEF SettingsTypeOK
  <2>6. ASSUME NEW r \in Replies, calls' = (calls \ {c}) \cup {[c EXCEPT !.reply = r]},
               UNCHANGED <<sends, timers>>
        PROVE AnswersCounted'
    <3>. DEFINE d == [c EXCEPT !.reply = r]
    <3>1. d.form = f
      BY DEF Calls, SettingsTypeOK
    <3>2. /\ CallsOf(f)' = (CallsOf(f) \ {c}) \cup {d}
          /\ \A b \in Forms \ {f} : CallsOf(b)' = CallsOf(b)
      BY <2>6, <3>1 DEF CallsOf
    <3>3. IsFiniteSet(calls')
      BY <2>4, <2>6, OneMore
    <3>4. PendingNext(f) \in Nat /\ PendingNext(f) <= Pending(f)
      <4>1. /\ Cardinality((CallsOf(f) \ {c}) \cup {d}) \in Nat
            /\ Cardinality((CallsOf(f) \ {c}) \cup {d}) <= Cardinality(CallsOf(f) \ {c}) + 1
        <5>. HIDE DEF d, f
        <5>. QED
          BY <2>2, OneMore
      <4>2. PendingNext(f) \in Nat /\ PendingNext(f) <= (Pending(f) - 1) + 1
        BY <2>2, <3>2, <4>1
      <4>. HIDE DEF f, Pending, PendingNext
      <4>. QED
        BY <1>1, <4>2
    <3>5. timers'[f] + PendingNext(f) <= sends'[f]
      <4>1. timers'[f] = timers[f] /\ sends'[f] = sends[f]
        BY <2>6
      <4>. HIDE DEF f, Pending, PendingNext
      <4>. QED
        BY <1>1, <2>3, <3>4, <4>1
    <3>. QED
      BY <1>2, <2>1, <2>6, <3>2, <3>3, <3>5
  <2>. QED
    BY <1>5, <2>5, <2>6, CallStep
<1>6. CASE UNCHANGED <<sends, calls, timers>>
  BY <1>6 DEF CallsOf, AnswersCounted
<1>. QED
  BY <1>3, <1>4, <1>5, <1>6 DEF SettingsNext, settingsVars, Edit, MapPortal

\* A form is busy from its request until the first answer, of whichever request,
\* or timer; its own request is then still under way.
LEMMA BusyStep == SettingsTypeOK /\ BusyHasCall /\ [SettingsNext]_settingsVars => BusyHasCall'
<1>. SUFFICES ASSUME SettingsTypeOK, BusyHasCall, [SettingsNext]_settingsVars,
                     NEW a \in Forms, Busy(a)'
              PROVE \E c \in calls' : c.form = a
  BY DEF BusyHasCall
<1>. USE DEF SettingsTypeOK, BusyHasCall, Busy
<1>1. ASSUME NEW b \in Forms, NEW kind \in {"test", "save"}, Send(b, kind)
      PROVE \E c \in calls' : c.form = a
  <2>1. CASE a = b
    <3>. DEFINE new == [form |-> b, id |-> sends[b] + 1, kind |-> kind, key |-> draft[b],
                        reply |-> "none"]
    <3>1. new \in calls' /\ new.form = a
      BY <1>1, <2>1 DEF Send
    <3>. QED
      BY <3>1
  <2>2. CASE a # b
    BY <1>1, <2>2 DEF Send
  <2>. QED
    BY <2>1, <2>2
<1>2. ASSUME NEW b \in Forms, Fire(b) PROVE \E c \in calls' : c.form = a
  BY <1>2 DEF Fire
<1>3. ASSUME NEW c \in calls, Answer(c) \/ Lose(c) PROVE \E d \in calls' : d.form = a
  <2>1. c.form \in Forms
    BY DEF Calls
  <2>2. /\ calls' = calls \ {c}
        /\ \E s \in {"ok", "save_ok", "error"} : status' = [status EXCEPT ![c.form] = s]
    BY <1>3 DEF Answer, Take, Lose
  <2>3. a # c.form /\ status'[a] = status[a]
    BY <2>1, <2>2
  <2>. QED
    BY <2>2, <2>3
<1>4. ASSUME NEW c \in calls, ServeTest(c) \/ ServeSave(c) PROVE \E d \in calls' : d.form = a
  <2>1. /\ status' = status
        /\ \E r \in Replies : calls' = (calls \ {c}) \cup {[c EXCEPT !.reply = r]}
    BY <1>4 DEF ServeTest, ServeSave, Reply, Replies
  <2>2. \A r \in Replies : [c EXCEPT !.reply = r].form = c.form
    BY DEF Calls
  <2>. QED
    BY <2>1, <2>2
<1>5. CASE UNCHANGED <<status, calls>>
  BY <1>5
<1>. QED
  BY <1>1, <1>2, <1>3, <1>4, <1>5 DEF SettingsNext, OneCall, settingsVars, Edit, MapPortal

\* The API replies "good" only after the check or the upsert it stands for.
LEMMA RepliesStep == SettingsTypeOK /\ RepliesEarned /\ [SettingsNext]_settingsVars => RepliesEarned'
<1>. SUFFICES ASSUME SettingsTypeOK, RepliesEarned, [SettingsNext]_settingsVars PROVE RepliesEarned'
  OBVIOUS
<1>. USE DEF SettingsTypeOK, RepliesEarned, serverVars
<1>1. ASSUME NEW a \in Forms, NEW kind \in {"test", "save"}, Send(a, kind) PROVE RepliesEarned'
  BY <1>1 DEF Send
<1>2. ASSUME NEW c \in calls, Answer(c) \/ Lose(c) PROVE RepliesEarned'
  BY <1>2 DEF Answer, Lose
<1>3. ASSUME NEW c \in calls, ServeTest(c) PROVE RepliesEarned'
  <2>1. \A r \in Replies : LET d == [c EXCEPT !.reply = r]
                          IN  d.form = c.form /\ d.kind = "test" /\ d.reply = r
    BY <1>3 DEF Calls, ServeTest
  <2>. QED
    BY <1>3, <2>1 DEF ServeTest, Reply, Replies
<1>4. ASSUME NEW c \in calls, ServeSave(c) PROVE RepliesEarned'
  <2>1. \A r \in Replies : LET d == [c EXCEPT !.reply = r]
                          IN  d.form = c.form /\ d.kind = "save" /\ d.reply = r
    BY <1>4 DEF Calls, ServeSave
  <2>. QED
    BY <1>4, <2>1 DEF ServeSave, Reply, Replies
<1>5. CASE UNCHANGED <<calls, tested, saved>>
  BY <1>5
<1>. QED
  BY <1>1, <1>2, <1>3, <1>4, <1>5 DEF SettingsNext, OneCall, settingsVars, Edit, Fire, MapPortal

\* The inductive invariant holds in every state.
THEOREM SettingsInvariantHolds == SettingsSpec => []SettingsInvariant
<1>1. SettingsInit => SettingsInvariant
  <2>1. SettingsInit => SettingsTypeOK
    BY SettingsAssumption DEF SettingsInit, SettingsTypeOK, Statuses, Rows
  <2>2. SettingsInit => BusyHasCall /\ RepliesEarned
    BY DEF SettingsInit, BusyHasCall, RepliesEarned, Busy
  <2>3. SettingsInit => AnswersCounted
    <3>. SUFFICES ASSUME SettingsInit PROVE AnswersCounted
      OBVIOUS
    <3>1. \A a : CallsOf(a) = {}
      BY DEF SettingsInit, CallsOf
    <3>. QED
      BY <3>1, FS_EmptySet DEF SettingsInit, AnswersCounted
  <2>. QED
    BY <2>1, <2>2, <2>3 DEF SettingsInvariant
<1>2. SettingsInvariant /\ [SettingsNext]_settingsVars => SettingsInvariant'
  <2>. SUFFICES ASSUME SettingsInvariant, [SettingsNext]_settingsVars PROVE SettingsInvariant'
    OBVIOUS
  <2>1. AnswersCounted' /\ BusyHasCall' /\ RepliesEarned'
    BY CountStep, BusyStep, RepliesStep DEF SettingsInvariant
  <2>2. ASSUME NEW a \in Forms PROVE timers'[a] \in 0..MaxSends
    <3>1. timers'[a] \in Nat /\ sends'[a] \in 0..MaxSends
      BY SettingsTypeStep DEF SettingsInvariant
    <3>2. timers'[a] + Cardinality(CallsOf(a)') <= sends'[a]
      BY <2>1 DEF AnswersCounted
    <3>3. Cardinality(CallsOf(a)') \in Nat
      BY <2>1, FS_Subset, FS_CardinalityType DEF AnswersCounted, CallsOf
    <3>. QED
      BY <3>1, <3>2, <3>3, SettingsAssumption
  <2>3. SettingsTypeOK'
    BY <2>2, SettingsTypeStep DEF SettingsInvariant, SettingsTypeOK
  <2>. QED
    BY <2>1, <2>3 DEF SettingsInvariant
<1>. QED
  BY <1>1, <1>2, PTL DEF SettingsSpec

\* A badge appears only with a good answer, and what earned it is not undone.
LEMMA BadgesStep ==
  SettingsInvariant /\ BadgesEarned /\ [SettingsNext]_settingsVars => BadgesEarned'
<1>. SUFFICES ASSUME SettingsInvariant, BadgesEarned, [SettingsNext]_settingsVars
              PROVE BadgesEarned'
  OBVIOUS
<1>. USE DEF SettingsInvariant, SettingsTypeOK, BadgesEarned, serverVars
<1>1. ASSUME NEW a \in Forms,
             (\E k \in Keys : Edit(a, k)) \/ Send(a, "test") \/ Send(a, "save") \/ Fire(a)
      PROVE BadgesEarned'
  BY <1>1 DEF Edit, Send, Fire
<1>2. ASSUME NEW c \in calls, OneCall(c) PROVE BadgesEarned'
  <2>1. c.form \in Forms /\ c.kind \in {"test", "save"}
    BY DEF Calls
  <2>2. CASE Answer(c)
    BY <2>1, <2>2 DEF Answer, Take, Good, RepliesEarned
  <2>3. CASE Lose(c)
    BY <2>1, <2>3 DEF Lose
  <2>4. CASE ServeTest(c) \/ ServeSave(c)
    BY <2>4 DEF ServeTest, ServeSave
  <2>. QED
    BY <1>2, <2>2, <2>3, <2>4 DEF OneCall
<1>3. CASE UNCHANGED <<status, tested, saved>>
  BY <1>3
<1>. QED
  BY <1>1, <1>2, <1>3 DEF SettingsNext, settingsVars, MapPortal

\* "Connected" and "Saved" are shown only where they were earned, however many
\* requests and timers of a form overlap.
THEOREM BadgesEarnedHolds == SettingsSpec => []BadgesEarned
<1>1. SettingsInit => BadgesEarned
  BY DEF SettingsInit, BadgesEarned
<1>. QED
  BY <1>1, BadgesStep, SettingsInvariantHolds, PTL DEF SettingsSpec
=============================================================================
