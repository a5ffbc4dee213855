-------------------------- MODULE ConnectorSettings --------------------------
(***************************************************************************)
(* The credentials of a connector without OAuth, HubSpot here, on the      *)
(* settings page: the form (connector-credentials-form.tsx) with its Test  *)
(* and Save buttons, POST /api/connectors/:name/test and /save             *)
(* (src/routes/api/connectors.ts), and the row of connector_config.        *)
(*                                                                         *)
(* A button starts a request and makes the form busy; an answer that is    *)
(* good shows a badge and starts a timer of four seconds that resets the   *)
(* status, whatever the form is doing by then.  So a form may have several *)
(* requests under way, and their answers come in any order.                *)
(***************************************************************************)
EXTENDS Naturals, FiniteSets

CONSTANTS
  Forms,     \* browser tabs of the organization with the form open
  Keys,      \* what can be typed into its fields
  GoodKeys,  \* external: the credentials HubSpot accepts
  MaxSends   \* bound on the requests of one form

ASSUME SettingsAssumption == GoodKeys \subseteq Keys /\ MaxSends \in Nat

VARIABLES
  draft,   \* the values in the fields, or NoKey
  status,  \* the form's TestStatus
  sends,   \* requests the form has sent
  calls,   \* the requests under way
  timers,  \* timers of four seconds that have not fired
  row,     \* connector_config.config
  tested,  \* forms that sent credentials HubSpot accepted
  saved    \* forms that sent credentials that were stored

settingsVars == <<draft, status, sends, calls, timers, row, tested, saved>>

NoKey    == "no_key"
Statuses == {"idle", "testing", "saving", "ok", "save_ok", "error"}
Replies  == {"none", "good", "bad", "failed"}  \* { ok: true }, { ok: false }, 400 or 500
Calls    == [form : Forms, id : 1..MaxSends, kind : {"test", "save"}, key : Keys, reply : Replies]
Rows     == [key : Keys \cup {NoKey}, portal_id : {"absent", "set"}]

Busy(a) == status[a] \in {"testing", "saving"}

serverVars == <<row, tested, saved>>
-----------------------------------------------------------------------------
(* The form *)

\* The inputs are disabled while the form is busy.
Edit(a, k) ==
  /\ ~ Busy(a) /\ draft[a] # k
  /\ draft' = [draft EXCEPT ![a] = k]
  /\ UNCHANGED <<status, sends, calls, timers, serverVars>>

\* handleTest and handleSave, up to the request; both buttons need all values.
Send(a, kind) ==
  /\ ~ Busy(a) /\ draft[a] # NoKey
  /\ sends[a] < MaxSends
  /\ sends' = [sends EXCEPT ![a] = @ + 1]
  /\ calls' = calls \cup {[form |-> a, id |-> sends[a] + 1, kind |-> kind,
                           key |-> draft[a], reply |-> "none"]}
  /\ status' = [status EXCEPT ![a] = IF kind = "test" THEN "testing" ELSE "saving"]
  /\ UNCHANGED <<draft, timers, serverVars>>

\* Mutant: an answer counts as good when its HTTP status is.
GoodStatus(c) == c.reply \in {"good", "bad"}

\* res.ok && data.ok
Good(c) == c.reply = "good"

\* Mutant: only good answers change the status.
TakeGoodOnly(c) ==
  /\ status' = IF Good(c) THEN [status EXCEPT ![c.form] = IF c.kind = "test" THEN "ok" ELSE "save_ok"]
               ELSE status
  /\ timers' = IF Good(c) THEN [timers EXCEPT ![c.form] = @ + 1] ELSE timers

\* What an answer does to the form.
Take(c) ==
  \/ /\ Good(c)
     /\ status' = [status EXCEPT ![c.form] = IF c.kind = "test" THEN "ok" ELSE "save_ok"]
     /\ timers' = [timers EXCEPT ![c.form] = @ + 1]
  \/ /\ ~ Good(c)
     /\ status' = [status EXCEPT ![c.form] = "error"]
     /\ UNCHANGED timers

Answer(c) ==
  /\ c.reply # "none"
  /\ Take(c)
  /\ calls' = calls \ {c}
  /\ UNCHANGED <<draft, sends, serverVars>>

\* The connection breaks, before or after the request was served.
Lose(c) ==
  /\ status' = [status EXCEPT ![c.form] = "error"]
  /\ calls' = calls \ {c}
  /\ UNCHANGED <<draft, sends, timers, serverVars>>

\* setTimeout(() => setStatus('idle'), 4000)
Fire(a) ==
  /\ timers[a] > 0
  /\ timers' = [timers EXCEPT ![a] = @ - 1]
  /\ status' = [status EXCEPT ![a] = "idle"]
  /\ UNCHANGED <<draft, sends, calls, serverVars>>
-----------------------------------------------------------------------------
(* The API *)

Reply(c, r) == calls' = (calls \ {c}) \cup {[c EXCEPT !.reply = r]}

\* checkConnector with the credentials of the body: connect, then healthCheck,
\* each of which may fail with good credentials too.
ServeTest(c) ==
  /\ c.kind = "test" /\ c.reply = "none"
  /\ \/ /\ c.key \in GoodKeys
        /\ Reply(c, "good")
        /\ tested' = tested \cup {c.form}
     \/ (Reply(c, "bad") \/ Reply(c, "failed")) /\ UNCHANGED tested
  /\ UNCHANGED <<draft, status, sends, timers, row, saved>>

\* upsertConnectorConfig replaces config by { apiKey, webhookSecret }.
ServeSave(c) ==
  /\ c.kind = "save" /\ c.reply = "none"
  /\ \/ /\ row' = [key |-> c.key, portal_id |-> "absent"]
        /\ saved' = saved \cup {c.form}
        /\ Reply(c, "good") \/ Reply(c, "failed")
     \/ Reply(c, "failed") /\ UNCHANGED <<row, saved>>
  /\ UNCHANGED <<draft, status, sends, timers, tested>>

\* external: the operator maps the HubSpot portal to the organization, as
\* resolveOrganizationId of the inbound lead worker requires.
MapPortal ==
  /\ row.portal_id = "absent"
  /\ row' = [row EXCEPT !.portal_id = "set"]
  /\ UNCHANGED <<draft, status, sends, calls, timers, tested, saved>>
-----------------------------------------------------------------------------
SettingsInit ==
  /\ draft = [a \in Forms |-> NoKey]
  /\ status = [a \in Forms |-> "idle"]
  /\ sends = [a \in Forms |-> 0]
  /\ calls = {}
  /\ timers = [a \in Forms |-> 0]
  /\ row = [key |-> NoKey, portal_id |-> "absent"]
  /\ tested = {} /\ saved = {}

OneCall(c) == Answer(c) \/ Lose(c) \/ ServeTest(c) \/ ServeSave(c)

SettingsNext ==
  \/ \E a \in Forms : (\E k \in Keys : Edit(a, k)) \/ Send(a, "test") \/ Send(a, "save") \/ Fire(a)
  \/ \E c \in calls : OneCall(c)
  \/ MapPortal

SettingsSpec == SettingsInit /\ [][SettingsNext]_settingsVars

\* Every request is answered or breaks off: the API answers on every path, and a
\* browser gives a request up that stays without an answer, whichever connector
\* the API waits for.
SettingsFairSpec == SettingsSpec /\ \A c \in Calls : WF_settingsVars(c \in calls /\ OneCall(c))
-----------------------------------------------------------------------------
(* Properties *)

SettingsTypeOK ==
  /\ draft \in [Forms -> Keys \cup {NoKey}]
  /\ status \in [Forms -> Statuses]
  /\ sends \in [Forms -> 0..MaxSends]
  /\ calls \subseteq Calls
  /\ timers \in [Forms -> 0..MaxSends]
  /\ row \in Rows
  /\ tested \subseteq Forms /\ saved \subseteq Forms

\* The badges are earned, however requests and timers of the form overlap:
\* "Connected" by credentials of this form that HubSpot accepted, "Saved" by
\* credentials of this form that reached the row.
BadgesEarned ==
  \A a \in Forms :
    /\ status[a] = "ok" => a \in tested
    /\ status[a] = "save_ok" => a \in saved

\* A form is never busy without a request under way that will end it, although
\* the timers and the answers of older requests set the status too.
BusyHasCall == \A a \in Forms : Busy(a) => \E c \in calls : c.form = a

\* A good answer on its way to a form has been earned.
RepliesEarned ==
  \A c \in calls : c.reply = "good" =>
    /\ c.kind = "test" => c.form \in tested
    /\ c.kind = "save" => c.form \in saved

CallsOf(a) == {c \in calls : c.form = a}

\* A request starts one timer at most: those that run and the requests that may
\* still start one are no more than the form has sent.
AnswersCounted ==
  /\ IsFiniteSet(calls)
  /\ \A a \in Forms : timers[a] + Cardinality(CallsOf(a)) <= sends[a]

\* The inductive invariant, which says that a busy form has something to wait for.
SettingsInvariant == SettingsTypeOK /\ BusyHasCall /\ RepliesEarned /\ AnswersCounted

\* A busy form becomes usable again.
FormSettles == \A a \in Forms : Busy(a) ~> ~ Busy(a)

\* connector-config.repository.ts:66: upsertConnectorConfig "Merges the provided
\* config fields into the existing JSONB config": saving the credentials keeps
\* the portal_id, by which the worker finds the organization of a lead.
SaveMerges == [][row.portal_id = "set" => row'.portal_id = "set"]_row

=============================================================================
