---------------------------- MODULE OAuthConnect ----------------------------
(***************************************************************************)
(* Connecting an organization to Outreach (src/routes/outreach-oauth.ts;   *)
(* src/routes/salesloft-oauth.ts is the same code for Salesloft): POST     *)
(* /start stores a nonce, the vendor sends the browser back to /callback,  *)
(* and the callback consumes the nonce, exchanges the code for tokens and  *)
(* stores them in the organization's connector_config row.  Runs of the    *)
(* first-touch node, in the worker process, store the tokens they refresh  *)
(* in the same row.                                                        *)
(*                                                                         *)
(* The row is written by a read and an upsert of the whole config, and a   *)
(* callback is a chain of awaits: one action is one request or database    *)
(* call together with the code up to the next one.  A redirect can be      *)
(* delivered again (a reload of the page), so a flow has several landings. *)
(***************************************************************************)
EXTENDS FiniteSets

CONSTANTS
  Flows,     \* presses of Connect or Reconnect: one nonce each
  Landings,  \* requests of /callback
  Runs       \* first-touch runs whose access token has expired

ASSUME OAuthAssumption ==
  /\ Landings \cap Runs = {}
  /\ "no_tokens" \notin Landings \cup Runs

VARIABLES
  nonce,    \* the oauth_nonce row of a flow
  via,      \* the flow a landing belongs to, or NoFlow
  pc,       \* the next step of a landing or run, or the page a landing ended on
  copy,     \* the config a writer has read
  config,   \* connector_config.config: whose tokens it holds, and its other fields
  asked,    \* landings that asked the vendor for tokens
  late,     \* landings that came after the tokens of their flow were asked for
  leftOver, \* flows whose nonce could not be deleted
  written   \* writers whose tokens have been in the row

vars == <<nonce, via, pc, copy, config, asked, late, leftOver, written>>

Writers  == Landings \cup Runs
NoFlow   == "no_flow"
NoTokens == "no_tokens"
Fields   == {"absent", "set"}  \* mailboxId and the like
Configs  == [tokens : Writers \cup {NoTokens}, other : Fields]
NoConfig == [tokens |-> NoTokens, other |-> "absent"]

Pages == {"denied", "missing_code", "invalid_state", "nonce_expired", "not_configured",
          "token_exchange_failed", "token_storage_failed", "connected"}
Rest  == Pages \cup {"idle", "dropped", "done"}
Steps == Rest \cup {"found", "lapsed", "asking", "has_tokens", "has_read"}

At(w, step)   == pc[w] = step
GoTo(w, step) == pc' = [pc EXCEPT ![w] = step]

nonceVars  == <<nonce, leftOver>>
configVars == <<copy, config, written>>
-----------------------------------------------------------------------------
(* The nonce *)

\* POST /start; when the row cannot be inserted the dashboard shows an alert.
Start(f) ==
  /\ nonce[f] = "none"
  /\ nonce' = [nonce EXCEPT ![f] = "live"]
  /\ UNCHANGED <<via, pc, configVars, asked, late, leftOver>>

\* NONCE_TTL_MS are over.
Lapse(f) ==
  /\ nonce[f] = "live"
  /\ nonce' = [nonce EXCEPT ![f] = "expired"]
  /\ UNCHANGED <<via, pc, configVars, asked, late, leftOver>>

\* The callback is told of an error, or has no code: no row is looked up.
TurnAway(l, f) ==
  /\ At(l, "idle") /\ nonce[f] # "none"
  /\ via' = [via EXCEPT ![l] = f]
  /\ \E page \in {"denied", "missing_code"} : GoTo(l, page)
  /\ UNCHANGED <<nonceVars, configVars, asked, late>>

\* The row is selected, and its expires_at compared with the clock.  A failing
\* lookup is taken for an unknown nonce.
LookUp(l, f) ==
  /\ At(l, "idle") /\ nonce[f] # "none"
  /\ via' = [via EXCEPT ![l] = f]
  /\ late' = IF \E m \in asked : via[m] = f THEN late \cup {l} ELSE late
  /\ \/ nonce[f] = "live" /\ GoTo(l, "found")
     \/ nonce[f] = "expired" /\ GoTo(l, "lapsed")
     \/ GoTo(l, "invalid_state")
  /\ UNCHANGED <<nonceVars, configVars, asked>>

\* delete().eq('id', ...), whose error is not looked at.
DeleteNonce(f) ==
  \/ /\ nonce' = [nonce EXCEPT ![f] = "deleted"]
     /\ UNCHANGED leftOver
  \/ /\ leftOver' = leftOver \cup {f}
     /\ UNCHANGED nonce

DropExpired(l) ==
  /\ At(l, "lapsed")
  /\ DeleteNonce(via[l])
  /\ GoTo(l, "nonce_expired")
  /\ UNCHANGED <<via, configVars, asked, late>>

\* Mutant: the tokens are asked for before the nonce is deleted.
AskFirst(l) ==
  /\ At(l, "found")
  /\ GoTo(l, "asking") /\ asked' = asked \cup {l}
  /\ UNCHANGED <<nonceVars, via, configVars, late>>

\* The nonce is deleted, then the exchange request leaves, unless the
\* environment lacks the client's credentials.
Consume(l) ==
  /\ At(l, "found")
  /\ DeleteNonce(via[l])
  /\ \/ GoTo(l, "asking") /\ asked' = asked \cup {l}
     \/ GoTo(l, "not_configured") /\ UNCHANGED asked
  /\ UNCHANGED <<via, configVars, late>>

\* The vendor's answer.
Exchange(l) ==
  /\ At(l, "asking")
  /\ \/ GoTo(l, "has_tokens")
     \/ GoTo(l, "token_exchange_failed")
  /\ UNCHANGED <<nonceVars, via, configVars, asked, late>>
-----------------------------------------------------------------------------
(* The runs, and the row *)

\* A run refreshes the tokens it was given by the environment; its
\* onTokenRefresh stores the new ones.
Refresh(r) ==
  /\ At(r, "idle")
  /\ GoTo(r, "has_tokens")
  /\ UNCHANGED <<nonceVars, via, configVars, asked, late>>

\* Where an error of storeOAuthTokens ends: runs only log it.
StorageFailed(w) == IF w \in Landings THEN "token_storage_failed" ELSE "done"

\* Mutant: a read that fails counts as a row that does not exist.
ReadOrEmpty(w) ==
  /\ At(w, "has_tokens")
  /\ \E seen \in {config, NoConfig} : copy' = [copy EXCEPT ![w] = seen]
  /\ GoTo(w, "has_read")
  /\ UNCHANGED <<nonceVars, via, config, written, asked, late>>

\* storeOAuthTokens reads the existing config ...
ReadConfig(w) ==
  /\ At(w, "has_tokens")
  /\ \/ GoTo(w, "has_read") /\ copy' = [copy EXCEPT ![w] = config]
     \/ GoTo(w, StorageFailed(w)) /\ UNCHANGED copy
  /\ UNCHANGED <<nonceVars, via, config, written, asked, late>>

\* Mutant: an upsert that failed is not reported.
WriteUnchecked(w) ==
  /\ At(w, "has_read")
  /\ \/ /\ config' = [copy[w] EXCEPT !.tokens = w]
        /\ written' = written \cup {w}
     \/ UNCHANGED <<config, written>>
  /\ GoTo(w, IF w \in Landings THEN "connected" ELSE "done")
  /\ UNCHANGED <<nonceVars, via, copy, asked, late>>

\* ... and upserts it with the new tokens; an error may follow a write.
WriteConfig(w) ==
  /\ At(w, "has_read")
  /\ \/ /\ config' = [copy[w] EXCEPT !.tokens = w]
        /\ written' = written \cup {w}
        /\ \/ GoTo(w, IF w \in Landings THEN "connected" ELSE "done")
           \/ GoTo(w, StorageFailed(w))
     \/ GoTo(w, StorageFailed(w)) /\ UNCHANGED <<config, written>>
  /\ UNCHANGED <<nonceVars, via, copy, asked, late>>

\* The process of the landing or the run is restarted.
Drop(w) ==
  /\ pc[w] \notin Rest
  /\ GoTo(w, "dropped")
  /\ UNCHANGED <<nonceVars, via, configVars, asked, late>>
-----------------------------------------------------------------------------
Init ==
  /\ nonce = [f \in Flows |-> "none"]
  /\ via = [l \in Landings |-> NoFlow]
  /\ pc = [w \in Writers |-> "idle"]
  /\ copy = [w \in Writers |-> NoConfig]
  /\ config \in {NoConfig, [NoConfig EXCEPT !.other = "set"]}
  /\ asked = {} /\ late = {} /\ leftOver = {} /\ written = {}

Next ==
  \/ \E f \in Flows : Start(f) \/ Lapse(f)
  \/ \E l \in Landings :
       \/ \E f \in Flows : TurnAway(l, f) \/ LookUp(l, f)
       \/ DropExpired(l) \/ Consume(l) \/ Exchange(l)
  \/ \E r \in Runs : Refresh(r)
  \/ \E w \in Writers : ReadConfig(w) \/ WriteConfig(w) \/ Drop(w)

Spec == Init /\ [][Next]_vars
-----------------------------------------------------------------------------
(* Properties *)

TypeOK ==
  /\ nonce \in [Flows -> {"none", "live", "expired", "deleted"}]
  /\ via \in [Landings -> Flows \cup {NoFlow}]
  /\ pc \in [Writers -> Steps]
  /\ copy \in [Writers -> Configs]
  /\ config \in Configs
  /\ asked \subseteq Landings /\ late \subseteq Landings
  /\ leftOver \subseteq Flows /\ written \subseteq Writers

\* The tokens in the row are those of a writer that obtained them.
TokensOwned == config.tokens \in written \cup {NoTokens}

\* A flow whose tokens were asked for has lost its nonce, unless the delete failed.
AskedFlowsClosed ==
  \A l \in asked : via[l] \in Flows /\ (nonce[via[l]] = "deleted" \/ via[l] \in leftOver)

\* A landing does nothing before its lookup; one that may still ask for tokens
\* belongs to a flow, and if it is late, to one whose nonce could not be deleted.
LandingsTraced ==
  \A l \in Landings :
    /\ At(l, "idle") => l \notin asked \cup late
    /\ At(l, "found") \/ At(l, "lapsed") => via[l] \in Flows
    /\ At(l, "found") /\ l \in late => via[l] \in leftOver

\* A writer between its read and its upsert has the other fields as they are,
\* although it may hold the tokens of a row that was overwritten since.
ReadersCurrent == \A w \in Writers : At(w, "has_read") => copy[w].other = config.other

\* The inductive invariant: what keeps later landings of a flow out, and what
\* makes the read and the upsert of the row safe for its other fields.
OAuthInvariant == TypeOK /\ TokensOwned /\ AskedFlowsClosed /\ LandingsTraced /\ ReadersCurrent

\* A landing that comes after the tokens of its flow were asked for does not
\* ask for them again: the nonce is deleted before the exchange, however slow
\* the vendor is.  (A delete that fails goes unnoticed and is the exception.)
LateLandingRefused ==
  \A l \in late : via[l] \notin leftOver => l \notin asked

\* The page a browser lands on tells the truth: on "connected" the tokens of
\* this landing were stored, and on the other pages they were not, but for a
\* storage error that follows the write.
LandingTruthful ==
  \A l \in Landings :
    /\ At(l, "connected") => l \in written
    /\ l \in written => At(l, "connected") \/ At(l, "token_storage_failed")

\* Storing tokens never loses the other fields of the config, nor a connection
\* that exists, whatever other writers do between the read and the upsert.
ConfigKept ==
  [][/\ config'.other = config.other
     /\ config.tokens # NoTokens => config'.tokens # NoTokens]_config

\* connector-config.repository.ts:109, of storeOAuthTokens: "Called by OAuth
\* callback routes after successful token exchange": the tokens in the row are
\* those of a connection of this organization.
OwnTokensOnly == config.tokens \in Landings \cup {NoTokens}

=============================================================================
