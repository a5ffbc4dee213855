------------------------------ MODULE Enrichment ------------------------------
(***************************************************************************)
(* What the play learns of a lead's company and what it makes of it: the   *)
(* enrich node (src/workflows/inbound-lead/nodes/enrich.ts) with Clearbit  *)
(* and, after it, Apollo, the evidence rows it stores and the events it    *)
(* logs, and the qualify node that scores the result.  A lead row passes   *)
(* the two nodes once, and one action is one awaited call together with    *)
(* the code up to the next one.  Any call may throw out of the nodes.      *)
(***************************************************************************)
EXTENDS IcpScore

CONSTANTS
  Leads,      \* leads that come to the enrich node
  SavedRows,  \* rows of companies that lead.company_id may name
  MaxTries,   \* calls withRetry makes: 3
  ReadErrors  \* whether a query whose error is not looked at may fail

ASSUME EnrichmentAssumption ==
  /\ Leads \subseteq LeadFacts
  /\ SavedRows \subseteq CompanyFacts
  /\ MaxTries \in Nat \ {0}
  /\ ReadErrors \in BOOLEAN

VARIABLES
  pc,      \* the next step of the run
  source,  \* the provider being consulted
  tries,   \* calls made to it
  facts,   \* facts of its answer that are to be stored
  answer,  \* what each provider answered
  found,   \* the company in that answer
  rows,    \* evidence rows stored from it
  events,  \* event_log rows, by provider
  saved,   \* the company row lead.company_id names
  apolloKey, \* whether APOLLO_API_KEY is set
  company, \* state.company
  audit    \* company in the decision snapshot of the qualification

askVars == <<source, tries, facts, answer, found>>
endVars == <<company, audit, judged, result>>
given   == <<lead, saved, apolloKey>>
vars    == <<pc, askVars, rows, events, given, endVars>>

Clearbit == "clearbit"
Apollo   == "apollo"
Node     == "node"
Sources  == {Clearbit, Apollo}

Steps   == {"request", "ask", "report", "store", "announce", "gate", "existing", "merge",
            "qualify", "done", "dead"}
Settled == {"existing", "merge", "qualify", "done"}

Unasked  == "unasked"
NoDomain == "no_domain"
Answers  == {Unasked, NoDomain, "failed", "no_match", "match"}

GoTo(step) == pc' = step

\* Rows of a query whose error is ignored: none if it failed.
Read(value, none) == {value} \cup {x \in {none} : ReadErrors}

Log(s, kind, seen) ==
  events' = [events EXCEPT ![s] = @ \cup {[kind |-> kind, seen |-> seen]}]
-----------------------------------------------------------------------------
(* What the providers answer *)

Reply(kind, c, f) == [kind |-> kind, company |-> c, facts |-> f]
Unanswered == {Reply(k, NoCompany, {}) : k \in {"failing", "refused", "no_match"}}

PersonFacts == {"employment_title", "employment_seniority", "employment_role", "person_location"}

\* The fields of the company that the scoring depends on; the other facts go
\* with them.
FactsOf(c) ==
  {f \in {"company_employee_count", "company_industry", "company_country"} :
     \/ f = "company_employee_count" /\ c.size # Unknown
     \/ f = "company_industry" /\ c.industry # Blank
     \/ f = "company_country" /\ c.country # Blank}

\* 404 and 202 are no match; without a key Clearbit refuses.
ClearbitReplies ==
  Unanswered \cup {Reply("match", c, person \cup FactsOf(c)) :
                     c \in Companies \cup {NoCompany}, person \in {{}, PersonFacts}}

\* Apollo spells countries out.
Spelled(country) == IF country \in IcpRegions THEN "United States" ELSE country

Organization(c) == [c EXCEPT !.country = Spelled(c.country)]

OrgFacts(extra) == {"apollo_org_firmographics", "apollo_org_identity"} \cup extra

\* The body {} is no match.
ApolloReplies ==
  Unanswered \cup {Reply("match", Organization(c), OrgFacts(extra)) :
                     c \in Companies, extra \in SUBSET {"apollo_org_funding"}}

Replies(s) == IF s = Clearbit THEN ClearbitReplies ELSE ApolloReplies
-----------------------------------------------------------------------------
(* The enrich node *)

\* Evidence the decision snapshot lists.  NotRead is the empty list of a query
\* that failed.
NotRead   == {"not_read"}
Snapshots == Read(rows[Clearbit] \cup rows[Apollo], NotRead)

Request ==
  /\ pc = "request"
  /\ \E seen \in Snapshots : Log(Node, "requested", seen)
  /\ GoTo("ask")
  /\ UNCHANGED <<askVars, rows, given, endVars>>

\* 429, 5xx and a broken connection are tried again, and so are Apollo's 422 and
\* its timeouts; other errors are not.
AskAgain ==
  /\ pc = "ask" /\ tries + 1 < MaxTries
  /\ \E r \in Replies(source) : r.kind = "failing"
  /\ tries' = tries + 1
  /\ UNCHANGED <<pc, source, facts, answer, found, rows, events, given, endVars>>

AskInVain ==
  /\ pc = "ask"
  /\ \E r \in Replies(source) :
       \/ /\ r.kind = "refused" \/ (r.kind = "failing" /\ tries + 1 = MaxTries)
          /\ answer' = [answer EXCEPT ![source] = "failed"]
       \/ /\ r.kind = "no_match"
          /\ answer' = [answer EXCEPT ![source] = "no_match"]
  /\ GoTo("report")
  /\ UNCHANGED <<source, tries, facts, found, rows, events, given, endVars>>

AskMatch ==
  /\ pc = "ask"
  /\ \E r \in Replies(source) :
       /\ r.kind = "match"
       /\ found' = [found EXCEPT ![source] = r.company]
       /\ facts' = r.facts
  /\ answer' = [answer EXCEPT ![source] = "match"]
  /\ GoTo("store")
  /\ UNCHANGED <<source, tries, rows, events, given, endVars>>

\* Mutant: an error is taken for "nothing found".
NoMatchOnly(a) == "skipped"

OutcomeOf(a) == IF a = "failed" THEN "failed" ELSE "skipped"

\* The snapshot is the one taken before Clearbit was asked.  Apollo is not.
ReportClearbit ==
  /\ pc = "report" /\ source = Clearbit
  /\ \E e \in events[Node] : Log(Clearbit, OutcomeOf(answer[Clearbit]), e.seen)
  /\ GoTo("existing")
  /\ UNCHANGED <<askVars, rows, given, endVars>>

ReportApollo ==
  /\ pc = "report" /\ source = Apollo
  /\ \E seen \in Snapshots : Log(Apollo, OutcomeOf(answer[Apollo]), seen)
  /\ GoTo("merge")
  /\ UNCHANGED <<askVars, rows, given, endVars>>

\* One insert for all facts; none without facts.
Store(s) ==
  /\ pc = "store" /\ source = s
  /\ rows' = [rows EXCEPT ![s] = facts]
  /\ GoTo("announce")
  /\ UNCHANGED <<askVars, events, given, endVars>>

\* The upsert of the company names a conflict target that no unique index of
\* companies backs: the database refuses it, the error is not looked at, and
\* neither companies nor the lead's company_id change.
StoreClearbit == Store(Clearbit)
StoreApollo   == Store(Apollo)

\* Mutant: the event is built from the snapshot of the beginning.
AnnounceEarly(s, next) ==
  /\ pc = "announce" /\ source = s
  /\ \E e \in events[Node] : Log(s, "succeeded", e.seen)
  /\ GoTo(next)
  /\ UNCHANGED <<askVars, rows, given, endVars>>

Announce(s, next) ==
  /\ pc = "announce" /\ source = s
  /\ \E seen \in Snapshots : Log(s, "succeeded", seen)
  /\ GoTo(next)
  /\ UNCHANGED <<askVars, rows, given, endVars>>

AnnounceClearbit == Announce(Clearbit, "gate")
AnnounceApollo   == Announce(Apollo, "merge")

\* enrichWithApollo up to the call: no key, no domain, free mail, or ask.
WithoutApollo ==
  /\ pc = "gate" /\ ~apolloKey
  /\ GoTo("merge")
  /\ UNCHANGED <<askVars, rows, events, given, endVars>>

SkipApollo ==
  /\ pc = "gate" /\ apolloKey /\ lead.email \in {"invalid", "free"}
  /\ \E seen \in Snapshots : Log(Apollo, "skipped", seen)
  /\ answer' = [answer EXCEPT ![Apollo] = NoDomain]
  /\ GoTo("merge")
  /\ UNCHANGED <<source, tries, facts, found, rows, given, endVars>>

TurnToApollo ==
  /\ pc = "gate" /\ apolloKey /\ lead.email = "corporate"
  /\ source' = Apollo
  /\ tries' = 0
  /\ GoTo("ask")
  /\ UNCHANGED <<facts, answer, found, rows, events, given, endVars>>

\* Mutant: Apollo only fills in for Clearbit.
ClearbitFirst ==
  IF answer[Clearbit] = "match" THEN found[Clearbit] ELSE found[Apollo]

\* apolloResult.company ?? clearbitCompany
FinalCompany == IF answer[Apollo] = "match" THEN found[Apollo] ELSE found[Clearbit]

Merge ==
  /\ pc = "merge"
  /\ company' = FinalCompany
  /\ GoTo("qualify")
  /\ UNCHANGED <<askVars, rows, events, given, audit, judged, result>>

LoadExisting ==
  /\ pc = "existing"
  /\ company' \in Read(saved, NoCompany)
  /\ GoTo("qualify")
  /\ UNCHANGED <<askVars, rows, events, given, audit, judged, result>>
-----------------------------------------------------------------------------
(* The qualify node *)

Qualify ==
  /\ pc = "qualify"
  /\ audit' \in Read(saved, NoCompany)
  /\ \E row \in Read(saved, NoCompany) : judged' = IF company.known THEN company ELSE row
  /\ result' = ScoreIcp(lead, judged')
  /\ GoTo("done")
  /\ UNCHANGED <<askVars, rows, events, given, company>>

\* A snapshot without its lead, a write that fails, or the process dies.
Throw ==
  /\ pc \notin {"done", "dead"}
  /\ GoTo("dead")
  /\ UNCHANGED <<askVars, rows, events, given, endVars>>
-----------------------------------------------------------------------------
Init ==
  /\ pc = "request" /\ source = Clearbit /\ tries = 0 /\ facts = {}
  /\ answer = [s \in Sources |-> Unasked]
  /\ found = [s \in Sources |-> NoCompany]
  /\ rows = [s \in Sources |-> {}]
  /\ events = [s \in Sources \cup {Node} |-> {}]
  /\ lead \in Leads
  /\ saved \in SavedRows \cup {NoCompany}
  /\ apolloKey \in BOOLEAN
  /\ company = NoCompany /\ audit = NoCompany /\ judged = NoCompany /\ result = Undecided

Step ==
  \/ Request \/ AskAgain \/ AskInVain \/ AskMatch
  \/ ReportClearbit \/ ReportApollo
  \/ StoreClearbit \/ StoreApollo \/ AnnounceClearbit \/ AnnounceApollo
  \/ WithoutApollo \/ SkipApollo \/ TurnToApollo
  \/ Merge \/ LoadExisting \/ Qualify

Next == Step \/ Throw

Spec == Init /\ [][Next]_vars
-----------------------------------------------------------------------------
(* Correctness *)

Kinds(s) == {e.kind : e \in events[s]}

Expected(a) ==
  CASE a = Unasked              -> {}
    [] a \in {NoDomain, "no_match"} -> {"skipped"}
    [] a = "failed"             -> {"failed"}
    [] a = "match"              -> {"succeeded"}

\* "Silent null is NOT acceptable - every outcome is logged with a reason":
\* wherever the node ends, the log tells of each provider what it answered by the
\* kind of its event, and it never tells of a provider that was not asked.
OutcomesReported ==
  pc \in Settled => \A s \in Sources : Kinds(s) = Expected(answer[s])

\* A success is announced with a snapshot that lists the rows of its provider,
\* and of the providers before it, unless the evidence could not be read.
SnapshotShowsRows ==
  \A s \in Sources : \A e \in events[s] :
    e.kind = "succeeded" =>
      \/ rows[s] \cup (IF s = Apollo THEN rows[Clearbit] ELSE {}) \subseteq e.seen
      \/ ReadErrors /\ e.seen = NotRead

\* Which source is best of those that were asked: all of Apollo's company if Apollo
\* was asked and matched, else all of Clearbit's if it named one, else the row.
BestKnown ==
  IF answer[Apollo] = "match" THEN {found[Apollo]}
  ELSE IF found[Clearbit].known THEN {found[Clearbit]}
  ELSE Read(saved, NoCompany)

\* The lead is scored by the best source of those that were asked, as a whole and
\* unmixed with the others.  An Apollo that fails leaves Clearbit's company; a
\* Clearbit that fails or finds nothing leaves the stored row, as the node returns
\* before it asks Apollo.
BestSourceWins ==
  pc = "done" =>
    /\ judged \in BestKnown /\ result = ScoreIcp(lead, judged)
    /\ answer[Clearbit] # "match" => judged \in Read(saved, NoCompany)

\* Of a provider that has not been asked nothing is known.
Untouched(s) ==
  answer[s] = Unasked /\ found[s] = NoCompany /\ events[s] = {} /\ rows[s] = {}

\* How far the run is with the provider it is consulting, and with the others.
RunConsistent ==
  /\ pc = "request" => source = Clearbit
  /\ pc \in {"request", "ask"} => Untouched(source)
  /\ pc = "report" =>
       answer[source] \in {"failed", "no_match"} /\ events[source] = {} /\ found[source] = NoCompany
  /\ pc \in {"store", "announce"} => answer[source] = "match" /\ events[source] = {}
  /\ pc = "existing" => answer[Clearbit] \in {"failed", "no_match"} /\ found[Clearbit] = NoCompany
  /\ pc = "gate" => source = Clearbit /\ answer[Clearbit] = "match"
  /\ pc \in {"request", "ask", "report", "store", "announce", "gate", "existing"} =>
       Untouched(Apollo) \/ source = Apollo
  /\ pc \in {"gate", "merge"} \/ source = Apollo => Kinds(Clearbit) = Expected(answer[Clearbit])
  /\ answer[Apollo] = "match" => found[Apollo].known
  /\ source = Apollo => answer[Clearbit] = "match"
  /\ answer[Clearbit] # "match" => answer[Apollo] = Unasked /\ found[Clearbit] = NoCompany

\* The company the lead will be judged by.
CompanyReady ==
  pc = "qualify" =>
    \/ company.known /\ company \in BestKnown
    \/ ~company.known /\ BestKnown = Read(saved, NoCompany)

TypeOK ==
  /\ pc \in Steps /\ source \in Sources
  /\ answer \in [Sources -> Answers]
  /\ found \in [Sources -> CompanyFacts \cup {NoCompany}]
  /\ DOMAIN rows = Sources /\ DOMAIN events = Sources \cup {Node}
  /\ lead \in LeadFacts /\ saved \in CompanyFacts \cup {NoCompany}
  /\ company \in CompanyFacts \cup {NoCompany}
  /\ judged \in CompanyFacts \cup {NoCompany}

\* The strengthening that is inductive: types, where the run is with each
\* provider, and that what it has reported, stored and merged agrees.
EnrichmentInvariant ==
  /\ TypeOK
  /\ RunConsistent
  /\ OutcomesReported
  /\ SnapshotShowsRows
  /\ CompanyReady
  /\ BestSourceWins
  /\ Scored => result = ScoreIcp(lead, judged)

\* What the code's comments and documents say, and a run refutes.

\* enrich.ts:227, of Apollo: "Runs regardless of Clearbit outcome".
ApolloRegardless == pc = "done" /\ apolloKey => answer[Apollo] # Unasked

\* enrich.ts:227, "additive, not exclusive": asking Apollo as well costs a lead no points
\* unless Apollo's company does not pass the gates.
ApolloAdds ==
  pc = "done" /\ answer[Apollo] = "match" /\ Gate(lead, company) = {} =>
    result.score >= ScoreIcp(lead, found[Clearbit]).score

\* enrich.ts:15, "enrichment_succeeded - data returned AND evidence rows written".
SucceededHasRows == \A s \in Sources : "succeeded" \in Kinds(s) => rows[s] # {}

\* ARCHITECTURE.md:30, "a full decision snapshot so any action can be replayed":
\* the score computed from the snapshot is the score the lead was given.
DecisionReplayable == pc = "done" => ScoreIcp(lead, audit) = result
===============================================================================
