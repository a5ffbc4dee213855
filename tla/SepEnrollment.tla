---------------------------- MODULE SepEnrollment ----------------------------
(***************************************************************************)
(* The first touch at the sales engagement platform: the first-touch node, *)
(* start_sequence, the Outreach connector with its token refresh, and the  *)
(* retries of withRetry (src/workflows/inbound-lead/nodes/first-touch.ts,  *)
(* src/connectors).  The Salesloft connector has the same shape.           *)
(*                                                                         *)
(* Access tokens expire and refresh tokens rotate: a refresh token can be  *)
(* used once.  Every run builds a connector of its own from the            *)
(* environment; the health checks of the connectors page build theirs from *)
(* connector_config.  One action is one HTTP request or database call      *)
(* together with the code up to the next one.                              *)
(***************************************************************************)
EXTENDS Integers, FiniteSets

CONSTANTS
  Runs,         \* executions of the first-touch node
  Checks,       \* health checks of the connectors page
  MaxAttempts,  \* RETRY_CONFIG.maxAttempts: 3
  MaxGen        \* bound on the token pairs of one grant

ASSUME SepAssumption ==
  /\ Runs \cap Checks = {}
  /\ MaxAttempts \in Nat \ {0}
  /\ MaxGen \in Nat \ {0}

VARIABLES
  pc,          \* the next step of a client's request
  op,          \* the connector operation it is part of
  tries,       \* attempts withRetry has used up for that operation
  pair,        \* the tokens in the connector's memory
  stored,      \* the tokens in connector_config, or NoPair
  recorded,    \* runs whose play has first_touch_at
  refreshable, \* external: the pair of a grant whose refresh token is unused
  fresh,       \* external: pairs whose access token has not expired
  prospects,   \* external: prospects with the email of a run's lead
  enrolled     \* external: sequence states of a run's lead

clientVars == <<pc, op, tries, pair>>
rowVars    == <<stored, recorded>>
tokenVars  == <<refreshable, fresh>>
extVars    == <<prospects, enrolled>>
vars == <<clientVars, rowVars, tokenVars, extVars>>

Clients == Runs \cup Checks
Grants  == {"env", "oauth"}  \* OUTREACH_REFRESH_TOKEN, the OAuth flow of the dashboard
Pairs   == [grant : Grants, gen : Nat]
EnvPair == [grant |-> "env", gen |-> 0]
NoPair  == [grant |-> "none", gen |-> 0]

Operations == {"none", "find", "create", "enroll", "health"}
Resting    == {"idle", "done", "dead"}
Steps      == Resting \cup {"call", "refresh", "store", "again", "record"}

At(c, step)    == pc[c] = step
GoTo(c, step)  == pc' = [pc EXCEPT ![c] = step]
Refreshable(t) == t \in Pairs /\ refreshable[t.grant] = t.gen
-----------------------------------------------------------------------------
(* Runs and health checks *)

\* runOutreachEnrollment connects with the tokens of the environment.
BeginRun(r) ==
  /\ At(r, "idle")
  /\ GoTo(r, "call")
  /\ op' = [op EXCEPT ![r] = "find"]
  /\ pair' = [pair EXCEPT ![r] = EnvPair]
  /\ UNCHANGED <<tries, rowVars, tokenVars, extVars>>

\* GET /api/connectors and POST /api/connectors/outreach/test.
BeginCheck(k) ==
  /\ At(k, "idle")
  /\ stored # NoPair
  /\ GoTo(k, "call")
  /\ op' = [op EXCEPT ![k] = "health"]
  /\ pair' = [pair EXCEPT ![k] = stored]
  /\ UNCHANGED <<tries, rowVars, tokenVars, extVars>>

\* An operation has its answer; the run goes on to the next one.
Succeed(c) ==
  /\ tries' = [tries EXCEPT ![c] = 0]
  /\ \/ op[c] = "find" /\ prospects[c] > 0 /\ GoTo(c, "call") /\ op' = [op EXCEPT ![c] = "enroll"]
     \/ op[c] = "find" /\ prospects[c] = 0 /\ GoTo(c, "call") /\ op' = [op EXCEPT ![c] = "create"]
     \/ op[c] = "create" /\ GoTo(c, "call") /\ op' = [op EXCEPT ![c] = "enroll"]
     \/ op[c] = "enroll" /\ GoTo(c, "record") /\ UNCHANGED op
     \/ op[c] = "health" /\ GoTo(c, "done") /\ UNCHANGED op

\* Mutant: one attempt too many.
RetryOnceMore(c) ==
  /\ op[c] # "health" /\ tries[c] < MaxAttempts
  /\ tries' = [tries EXCEPT ![c] = @ + 1]
  /\ GoTo(c, "call")

\* withRetry, which health checks do without: the attempt failed, not for good.
Retry(c) ==
  \/ /\ op[c] # "health" /\ tries[c] + 1 < MaxAttempts
     /\ tries' = [tries EXCEPT ![c] = @ + 1]
     /\ GoTo(c, "call")
  \/ /\ op[c] = "health" \/ tries[c] + 1 = MaxAttempts
     /\ GoTo(c, "dead")
     /\ UNCHANGED tries

\* What a request that is accepted does at Outreach.
Effect(c) ==
  /\ prospects' = IF op[c] = "create" THEN [prospects EXCEPT ![c] = @ + 1] ELSE prospects
  /\ enrolled' = IF op[c] = "enroll" THEN [enrolled EXCEPT ![c] = @ + 1] ELSE enrolled
-----------------------------------------------------------------------------
(* fetchWithAuth *)

\* 401: the token expired.  The first request is followed by a refresh, the
\* second is not: 401 is an error that is never retried.
Unauthorized(c) ==
  /\ pair[c] \notin fresh
  /\ \/ At(c, "call") /\ GoTo(c, "refresh")
     \/ At(c, "again") /\ GoTo(c, "dead")
  /\ UNCHANGED <<op, tries, pair, rowVars, tokenVars, extVars>>

Answered(c) ==
  /\ pc[c] \in {"call", "again"}
  /\ pair[c] \in fresh
  /\ Effect(c)
  /\ Succeed(c)
  /\ UNCHANGED <<pair, rowVars, tokenVars>>

\* 429, 503, any other status outside noRetryOn, or no answer at all: the
\* request may have been carried out all the same.
Unanswered(c) ==
  /\ pc[c] \in {"call", "again"}
  /\ \/ pair[c] \in fresh /\ Effect(c)
     \/ UNCHANGED extVars
  /\ Retry(c)
  /\ UNCHANGED <<op, pair, rowVars, tokenVars>>

\* 400, 403, 404, or the eight seconds of a health check are over.
Refused(c) ==
  /\ pc[c] \in {"call", "again"}
  /\ GoTo(c, "dead")
  /\ UNCHANGED <<op, tries, pair, rowVars, tokenVars, extVars>>

\* The token endpoint rotates the pair of a grant.
Rotate(g) ==
  /\ refreshable[g] < MaxGen
  /\ refreshable' = [refreshable EXCEPT ![g] = @ + 1]
  /\ fresh' = fresh \cup {[grant |-> g, gen |-> refreshable[g] + 1]}

\* Mutant: the rotated refresh token is not taken over.
RefreshAccessOnly(c) ==
  /\ At(c, "refresh")
  /\ Refreshable(pair[c])
  /\ Rotate(pair[c].grant)
  /\ GoTo(c, "store")
  /\ UNCHANGED <<op, tries, pair, rowVars, extVars>>

\* refreshAccessToken with an answer: the connector takes both tokens over.
Refresh(c) ==
  /\ At(c, "refresh")
  /\ Refreshable(pair[c])
  /\ Rotate(pair[c].grant)
  /\ pair' = [pair EXCEPT ![c].gen = @ + 1]
  /\ GoTo(c, "store")
  /\ UNCHANGED <<op, tries, rowVars, extVars>>

\* No answer, or an error worth a retry; the pair may have been rotated.
RefreshUnanswered(c) ==
  /\ At(c, "refresh")
  /\ \/ Refreshable(pair[c]) /\ Rotate(pair[c].grant)
     \/ UNCHANGED tokenVars
  /\ Retry(c)
  /\ UNCHANGED <<op, pair, rowVars, extVars>>

\* The refresh token was used before: AUTH_FAILED, which is never retried.
RefreshRefused(c) ==
  /\ At(c, "refresh")
  /\ ~ Refreshable(pair[c])
  /\ GoTo(c, "dead")
  /\ UNCHANGED <<op, tries, pair, rowVars, tokenVars, extVars>>

\* onTokenRefresh: only runs have the callback, and its error is only logged.
StoreTokens(c) ==
  /\ At(c, "store")
  /\ \/ c \in Runs /\ stored' = pair[c]
     \/ UNCHANGED stored
  /\ GoTo(c, "again")
  /\ UNCHANGED <<op, tries, pair, recorded, tokenVars, extVars>>
-----------------------------------------------------------------------------
(* The end of start_sequence, and the environment *)

RecordFirstTouch(r) ==
  /\ At(r, "record")
  /\ recorded' = recorded \cup {r}
  /\ GoTo(r, "done")
  /\ UNCHANGED <<op, tries, pair, stored, tokenVars, extVars>>

\* The process dies, or the play cannot be updated.
Abort(c) ==
  /\ pc[c] \notin Resting
  /\ GoTo(c, "dead")
  /\ UNCHANGED <<op, tries, pair, rowVars, tokenVars, extVars>>

\* The callback of the OAuth flow stores a pair of a new grant.
Reconnect ==
  /\ Rotate("oauth")
  /\ stored' = [grant |-> "oauth", gen |-> refreshable'["oauth"]]
  /\ UNCHANGED <<clientVars, recorded, extVars>>

Expire(t) ==
  /\ t \in fresh
  /\ fresh' = fresh \ {t}
  /\ UNCHANGED <<clientVars, rowVars, refreshable, extVars>>
-----------------------------------------------------------------------------
Init ==
  /\ pc = [c \in Clients |-> "idle"]
  /\ op = [c \in Clients |-> "none"]
  /\ tries = [c \in Clients |-> 0]
  /\ pair = [c \in Clients |-> NoPair]
  /\ stored = NoPair
  /\ recorded = {}
  /\ refreshable = [g \in Grants |-> 0]
  /\ fresh = {EnvPair}
  /\ prospects \in [Runs -> {0, 1}]
  /\ enrolled = [r \in Runs |-> 0]

Begin == (\E r \in Runs : BeginRun(r)) \/ (\E k \in Checks : BeginCheck(k))

Work(c) ==
  \/ Unauthorized(c) \/ Answered(c) \/ Unanswered(c) \/ Refused(c)
  \/ Refresh(c) \/ RefreshUnanswered(c) \/ RefreshRefused(c) \/ StoreTokens(c)

Next ==
  \/ Begin
  \/ \E c \in Clients : Work(c) \/ Abort(c)
  \/ \E r \in Runs : RecordFirstTouch(r)
  \/ Reconnect
  \/ \E t \in fresh : Expire(t)

Spec == Init /\ [][Next]_vars
-----------------------------------------------------------------------------
(* Correctness *)

TypeOK ==
  /\ pc \in [Clients -> Steps]
  /\ op \in [Clients -> Operations]
  /\ tries \in [Clients -> Nat]
  /\ pair \in [Clients -> Pairs \cup {NoPair}]
  /\ stored \in Pairs \cup {NoPair}
  /\ recorded \subseteq Runs
  /\ refreshable \in [Grants -> Nat]
  /\ fresh \subseteq Pairs
  /\ prospects \in [Runs -> Nat]
  /\ enrolled \in [Runs -> Nat]

\* A play has its first touch only if the lead was enrolled.  withRetry may
\* enroll it again when an answer is lost, but a request that is repeated with
\* a new token does not count: once per attempt at most.
EnrolledPerAttempt ==
  \A r \in Runs : enrolled[r] <= MaxAttempts /\ (r \in recorded => enrolled[r] > 0)

\* connector_config never receives a pair somebody has already used up,
\* although runs and health checks refresh tokens of one grant at a time.
LivePairStored == [][stored' # stored => Refreshable(stored)']_vars
-----------------------------------------------------------------------------
(* What a comment says and the code does not do *)

\* outreach-oauth.ts: "tokens are persisted to connector_config [...] so the
\* connector works across restarts": a run that starts while connector_config
\* holds a pair that works starts with a pair that works.
WorksAcrossRestarts ==
  [][\A r \in Runs :
       At(r, "idle") /\ pc'[r] # "idle" /\ Refreshable(stored) => Refreshable(pair[r])']_vars
-----------------------------------------------------------------------------
(* The inductive invariant *)

\* Enrollments are paid for with attempts; the health checks pay nothing.
Counted(r) ==
  /\ pc[r] = "idle" => tries[r] = 0 /\ enrolled[r] = 0
  /\ pc[r] \notin Resting => op[r] \in {"find", "create", "enroll"}
  /\ pc[r] = "record" => op[r] = "enroll"
  /\ op[r] # "enroll" => enrolled[r] = 0
  /\ pc[r] \in {"call", "refresh", "store", "again"} => enrolled[r] <= tries[r]
  /\ enrolled[r] <= MaxAttempts
  /\ pc[r] = "record" \/ r \in recorded => enrolled[r] > 0

AttemptsCounted ==
  /\ \A c \in Clients : tries[c] < MaxAttempts /\ (pc[c] \notin Resting => pair[c] \in Pairs)
  /\ \A r \in Runs : Counted(r)

\* Every pair in use was issued; runs use the grant of the environment.
Issued ==
  /\ \A c \in Clients : pair[c] \in Pairs => pair[c].gen <= refreshable[pair[c].grant]
  /\ stored \in Pairs => stored.gen <= refreshable[stored.grant]
  /\ \A r \in Runs : pc[r] \notin Resting => pair[r].grant = "env"

\* A pair that a run has just received works and is known to this run alone.
Exclusive(r) ==
  pc[r] = "store" =>
    /\ Refreshable(pair[r])
    /\ pair[r] \notin {EnvPair, stored}
    /\ \A c \in Clients \ {r} : pc[c] \notin Resting => pair[c] # pair[r]

PairsExclusive == Issued /\ \A r \in Runs : Exclusive(r)

SepInvariant == TypeOK /\ AttemptsCounted /\ PairsExclusive

=============================================================================
