--------------------------- MODULE EnrichmentProofs ---------------------------
(* Theorems about Enrichment and the score it ends with, for any leads and   *)
(* companies, with any number of calls to the providers.                     *)
EXTENDS Enrichment, TLAPS

\* Apollo's answers are companies too.
LEMMA OrganizationType == \A c \in Companies : Organization(c) \in CompanyFacts
<1>. SUFFICES ASSUME NEW c \in Companies PROVE Organization(c) \in CompanyFacts
  OBVIOUS
<1>1. c \in CompanyFacts
  BY CompaniesAssumption
<1>2. Spelled(c.country) \in Countries
  BY <1>1 DEF Spelled, CompanyFacts, Countries
<1>. QED
  BY <1>1, <1>2 DEF Organization, CompanyFacts

\* What a matching answer names.
LEMMA MatchType ==
  ASSUME NEW s \in Sources, NEW r \in Replies(s), r.kind = "match"
  PROVE  /\ r.company \in CompanyFacts \cup {NoCompany}
         /\ s = Apollo => r.company \in CompanyFacts
<1>1. CASE s = Clearbit
  <2>1. r.company \in Companies \cup {NoCompany}
    BY <1>1 DEF Replies, ClearbitReplies, Unanswered, Reply, Clearbit, Apollo
  <2>. QED
    BY <1>1, <2>1, CompaniesAssumption DEF Clearbit, Apollo
<1>2. CASE s = Apollo
  <2>1. PICK c \in Companies : r.company = Organization(c)
    BY <1>2 DEF Replies, ApolloReplies, Unanswered, Reply, Clearbit, Apollo
  <2>. QED
    BY <2>1, OrganizationType
<1>. QED
  BY <1>1, <1>2 DEF Sources

LEMMA KnownType == \A c \in CompanyFacts : c.known
  BY DEF CompanyFacts
LEMMA NobodyKnown == ~NoCompany.known
  BY DEF NoCompany

\* The lead is unscored, and nothing has been asked.
LEMMA InitInvariant == Init => EnrichmentInvariant
<1>. SUFFICES ASSUME Init PROVE EnrichmentInvariant
  OBVIOUS
<1>. USE DEF Init, Sources, Clearbit, Apollo, Node
<1>1. TypeOK
  BY EnrichmentAssumption DEF TypeOK, Steps, Answers, Unasked
<1>2. RunConsistent /\ OutcomesReported /\ SnapshotShowsRows /\ CompanyReady /\ BestSourceWins
  BY DEF RunConsistent, Untouched, OutcomesReported, SnapshotShowsRows, CompanyReady,
         BestSourceWins, Unasked, Settled
<1>3. ~Scored
  BY DEF Scored
<1>. QED
  BY <1>1, <1>2, <1>3 DEF EnrichmentInvariant

\* The log of one provider changes, the others' do not.
LEMMA LogStep ==
  ASSUME TypeOK, NEW s \in Sources \cup {Node}, NEW kind, NEW seen, Log(s, kind, seen)
  PROVE  /\ DOMAIN events' = Sources \cup {Node}
         /\ events'[s] = events[s] \cup {[kind |-> kind, seen |-> seen]}
         /\ \A t \in (Sources \cup {Node}) \ {s} : events'[t] = events[t]
  BY DEF Log, TypeOK

\* A provider without an event gets the one that tells what it answered.
LEMMA FirstEvent ==
  ASSUME TypeOK, NEW s \in Sources, NEW kind, NEW seen, Log(s, kind, seen), events[s] = {}
  PROVE  /\ Kinds(s)' = {kind}
         /\ events'[s] = {[kind |-> kind, seen |-> seen]}
<1>1. events'[s] = {[kind |-> kind, seen |-> seen]}
  BY LogStep
<1>2. {e.kind : e \in {[kind |-> kind, seen |-> seen]}} = {kind}
  OBVIOUS
<1>. QED
  BY <1>1, <1>2 DEF Kinds

\* Every step preserves the types.
LEMMA TypeStep == TypeOK /\ [Next]_vars => TypeOK'
<1>. SUFFICES ASSUME TypeOK, [Next]_vars PROVE TypeOK'
  OBVIOUS
<1>. USE EnrichmentAssumption DEF TypeOK, Steps, Answers, GoTo, askVars, given, endVars
<1>1. ASSUME NEW s \in Sources \cup {Node}, NEW kind, NEW seen, Log(s, kind, seen)
      PROVE  DOMAIN events' = Sources \cup {Node}
  BY <1>1, LogStep
<1>2. CASE Request
  BY <1>2, <1>1 DEF Request
<1>3. CASE AskAgain \/ AskInVain
  BY <1>3 DEF AskAgain, AskInVain
<1>4. CASE AskMatch
  <2>1. PICK r \in Replies(source) : r.kind = "match" /\ found' = [found EXCEPT ![source] = r.company]
    BY <1>4 DEF AskMatch
  <2>2. r.company \in CompanyFacts \cup {NoCompany}
    BY <2>1, MatchType
  <2>. QED
    BY <1>4, <2>1, <2>2 DEF AskMatch
<1>5. CASE ReportClearbit \/ ReportApollo
  BY <1>5, <1>1 DEF ReportClearbit, ReportApollo, Sources
<1>6. CASE StoreClearbit \/ StoreApollo
  BY <1>6 DEF StoreClearbit, StoreApollo, Store
<1>7. CASE AnnounceClearbit \/ AnnounceApollo
  BY <1>7, <1>1 DEF AnnounceClearbit, AnnounceApollo, Announce, Sources
<1>8. CASE WithoutApollo
  BY <1>8 DEF WithoutApollo
<1>9. CASE SkipApollo
  BY <1>9, <1>1 DEF SkipApollo, Sources
<1>10. CASE TurnToApollo
  BY <1>10 DEF TurnToApollo, Sources
<1>11. CASE Merge
  BY <1>11 DEF Merge, FinalCompany, Sources
<1>12. CASE LoadExisting
  BY <1>12 DEF LoadExisting, Read
<1>13. CASE Qualify
  BY <1>13 DEF Qualify, Read
<1>14. CASE Throw
  BY <1>14 DEF Throw
<1>15. CASE UNCHANGED vars
  BY <1>15 DEF vars
<1>. QED
  BY <1>2, <1>3, <1>4, <1>5, <1>6, <1>7, <1>8, <1>9, <1>10, <1>11, <1>12, <1>13, <1>14, <1>15
     DEF Next, Step
\* What holds of the log of a provider depends on that log alone.
LEMMA SameKinds == \A s \in Sources : events'[s] = events[s] => Kinds(s)' = Kinds(s)
  BY DEF Kinds

\* A provider is asked and its answer is reported before the next is asked.
LEMMA RunStep == EnrichmentInvariant /\ [Next]_vars => RunConsistent'
<1>. SUFFICES ASSUME EnrichmentInvariant, [Next]_vars PROVE RunConsistent'
  OBVIOUS
<1>. USE DEF EnrichmentInvariant, RunConsistent, GoTo, askVars, given, endVars, Untouched
<1>0. TypeOK /\ TypeOK'
  BY TypeStep
<1>. USE <1>0 DEF TypeOK, Sources, Clearbit, Apollo, Node
<1>1. CASE Request
  <2>1. PICK seen : Log(Node, "requested", seen)
    BY <1>1 DEF Request
  <2>2. \A s \in Sources : events'[s] = events[s]
    BY <2>1, LogStep
  <2>. QED
    BY <1>1, <2>2, SameKinds DEF Request
<1>2. CASE AskAgain
  BY <1>2, SameKinds DEF AskAgain
<1>3. CASE AskInVain
  BY <1>3, SameKinds DEF AskInVain, Expected
<1>4. CASE AskMatch
  <2>1. PICK r \in Replies(source) : r.kind = "match" /\ found' = [found EXCEPT ![source] = r.company]
    BY <1>4 DEF AskMatch
  <2>2. source = Apollo => r.company.known
    BY <2>1, MatchType, KnownType
  <2>. QED
    BY <1>4, <2>1, <2>2, SameKinds DEF AskMatch
<1>5. CASE ReportClearbit
  <2>1. PICK e \in events[Node] : Log(Clearbit, OutcomeOf(answer[Clearbit]), e.seen)
    BY <1>5 DEF ReportClearbit
  <2>2. events'[Apollo] = events[Apollo]
    BY <2>1, LogStep
  <2>. QED
    BY <1>5, <2>1, <2>2 DEF ReportClearbit
<1>6. CASE ReportApollo
  <2>1. PICK seen : Log(Apollo, OutcomeOf(answer[Apollo]), seen)
    BY <1>6 DEF ReportApollo
  <2>2. events'[Clearbit] = events[Clearbit]
    BY <2>1, LogStep
  <2>. QED
    BY <1>6, <2>2, SameKinds DEF ReportApollo
<1>7. CASE StoreClearbit \/ StoreApollo
  BY <1>7, SameKinds DEF StoreClearbit, StoreApollo, Store
<1>8. CASE AnnounceClearbit
  <2>1. PICK seen : Log(Clearbit, "succeeded", seen)
    BY <1>8 DEF AnnounceClearbit, Announce
  <2>2. events'[Apollo] = events[Apollo] /\ Kinds(Clearbit)' = {"succeeded"}
    BY <1>8, <2>1, LogStep, FirstEvent DEF AnnounceClearbit, Announce
  <2>. QED
    BY <1>8, <2>2 DEF AnnounceClearbit, Announce, Expected
<1>9. CASE AnnounceApollo
  <2>1. PICK seen : Log(Apollo, "succeeded", seen)
    BY <1>9 DEF AnnounceApollo, Announce
  <2>2. events'[Clearbit] = events[Clearbit]
    BY <2>1, LogStep
  <2>. QED
    BY <1>9, <2>2, SameKinds DEF AnnounceApollo, Announce
<1>10. CASE WithoutApollo
  BY <1>10, SameKinds DEF WithoutApollo
<1>11. CASE SkipApollo
  <2>1. PICK seen : Log(Apollo, "skipped", seen)
    BY <1>11 DEF SkipApollo
  <2>2. events'[Clearbit] = events[Clearbit]
    BY <2>1, LogStep
  <2>. QED
    BY <1>11, <2>2, SameKinds DEF SkipApollo, NoDomain
<1>12. CASE TurnToApollo
  BY <1>12, SameKinds DEF TurnToApollo
<1>13. CASE Merge \/ LoadExisting \/ Qualify \/ Throw
  BY <1>13, SameKinds DEF Merge, LoadExisting, Qualify, Throw
<1>14. CASE UNCHANGED vars
  BY <1>14, SameKinds DEF vars
<1>. QED
  BY <1>1, <1>2, <1>3, <1>4, <1>5, <1>6, <1>7, <1>8, <1>9, <1>10, <1>11, <1>12, <1>13, <1>14
     DEF Next, Step
\* Where the enrich node ends, the event of each provider tells its answer.
LEMMA OutcomesStep == EnrichmentInvariant /\ [Next]_vars => OutcomesReported'
<1>. SUFFICES ASSUME EnrichmentInvariant, [Next]_vars PROVE OutcomesReported'
  OBVIOUS
<1>. USE DEF EnrichmentInvariant, RunConsistent, OutcomesReported, Settled, GoTo, askVars, given,
     endVars, Untouched
<1>0. TypeOK /\ TypeOK'
  BY TypeStep
<1>. USE <1>0 DEF TypeOK, Sources, Clearbit, Apollo, Node
<1>1. Expected(Unasked) = {} /\ Expected(NoDomain) = {"skipped"} /\ Expected("match") = {"succeeded"}
  BY DEF Expected, Unasked, NoDomain
<1>2. \A a \in {"failed", "no_match"} : Expected(a) = {OutcomeOf(a)}
  BY DEF Expected, OutcomeOf, Unasked, NoDomain
<1>3. \A s \in Sources : events[s] = {} => Kinds(s) = {}
  BY DEF Kinds
<1>4. CASE ReportClearbit
  <2>1. PICK e \in events[Node] : Log(Clearbit, OutcomeOf(answer[Clearbit]), e.seen)
    BY <1>4 DEF ReportClearbit
  <2>2. Kinds(Clearbit)' = {OutcomeOf(answer[Clearbit])} /\ events'[Apollo] = events[Apollo]
    BY <1>4, <2>1, FirstEvent, LogStep DEF ReportClearbit
  <2>. QED
    BY <1>1, <1>2, <1>3, <1>4, <2>2, SameKinds DEF ReportClearbit
<1>5. CASE ReportApollo
  <2>1. PICK seen : Log(Apollo, OutcomeOf(answer[Apollo]), seen)
    BY <1>5 DEF ReportApollo
  <2>2. Kinds(Apollo)' = {OutcomeOf(answer[Apollo])} /\ events'[Clearbit] = events[Clearbit]
    BY <1>5, <2>1, FirstEvent, LogStep DEF ReportApollo
  <2>. QED
    BY <1>2, <1>5, <2>2, SameKinds DEF ReportApollo
<1>6. CASE AnnounceApollo
  <2>1. PICK seen : Log(Apollo, "succeeded", seen)
    BY <1>6 DEF AnnounceApollo, Announce
  <2>2. Kinds(Apollo)' = {"succeeded"} /\ events'[Clearbit] = events[Clearbit]
    BY <1>6, <2>1, FirstEvent, LogStep DEF AnnounceApollo, Announce
  <2>. QED
    BY <1>1, <1>6, <2>2, SameKinds DEF AnnounceApollo, Announce
<1>7. CASE WithoutApollo
  BY <1>1, <1>3, <1>7, SameKinds DEF WithoutApollo
<1>8. CASE SkipApollo
  <2>1. PICK seen : Log(Apollo, "skipped", seen)
    BY <1>8 DEF SkipApollo
  <2>2. Kinds(Apollo)' = {"skipped"} /\ events'[Clearbit] = events[Clearbit]
    BY <1>8, <2>1, FirstEvent, LogStep DEF SkipApollo
  <2>. QED
    BY <1>1, <1>8, <2>2, SameKinds DEF SkipApollo
<1>9. CASE Request \/ AskAgain \/ AskInVain \/ AskMatch \/ StoreClearbit \/ StoreApollo
  BY <1>9 DEF Request, AskAgain, AskInVain, AskMatch, StoreClearbit, StoreApollo, Store
<1>10. CASE AnnounceClearbit \/ TurnToApollo \/ Throw
  BY <1>10 DEF AnnounceClearbit, Announce, TurnToApollo, Throw
<1>11. CASE Merge \/ LoadExisting \/ Qualify
  BY <1>11, SameKinds DEF Merge, LoadExisting, Qualify
<1>12. CASE UNCHANGED vars
  BY <1>12, SameKinds DEF vars
<1>. QED
  BY <1>4, <1>5, <1>6, <1>7, <1>8, <1>9, <1>10, <1>11, <1>12 DEF Next, Step

\* Rows are stored before the provider's success is announced and never after.
LEMMA SnapshotStep == EnrichmentInvariant /\ [Next]_vars => SnapshotShowsRows'
<1>. SUFFICES ASSUME EnrichmentInvariant, [Next]_vars PROVE SnapshotShowsRows'
  OBVIOUS
<1>. USE DEF EnrichmentInvariant, RunConsistent, SnapshotShowsRows, GoTo, askVars, given,
     endVars, Untouched
<1>0. TypeOK /\ TypeOK'
  BY TypeStep
<1>. USE <1>0 DEF TypeOK, Sources, Clearbit, Apollo, Node
<1>1. ASSUME NEW s \in Sources \cup {Node}, NEW kind, kind # "succeeded", NEW seen,
             Log(s, kind, seen), rows' = rows
      PROVE  SnapshotShowsRows'
  BY <1>1, LogStep
<1>2. ASSUME NEW s \in Sources, NEW next, Announce(s, next) PROVE SnapshotShowsRows'
  <2>1. PICK seen \in Snapshots : Log(s, "succeeded", seen)
    BY <1>2 DEF Announce
  <2>2. seen = rows[Clearbit] \cup rows[Apollo] \/ (ReadErrors /\ seen = NotRead)
    BY <2>1 DEF Snapshots, Read
  <2>. QED
    BY <1>2, <2>1, <2>2, LogStep DEF Announce
<1>3. CASE StoreClearbit \/ StoreApollo
  BY <1>3 DEF StoreClearbit, StoreApollo, Store
<1>4. CASE Request
  BY <1>1, <1>4 DEF Request
<1>5. CASE ReportClearbit
  <2>1. PICK e \in events[Node] : Log(Clearbit, OutcomeOf(answer[Clearbit]), e.seen)
    BY <1>5 DEF ReportClearbit
  <2>. QED
    BY <1>1, <1>5, <2>1 DEF ReportClearbit, OutcomeOf
<1>6. CASE ReportApollo
  BY <1>1, <1>6 DEF ReportApollo, OutcomeOf
<1>7. CASE SkipApollo
  BY <1>1, <1>7 DEF SkipApollo
<1>8. CASE AskAgain \/ AskInVain \/ AskMatch \/ WithoutApollo \/ TurnToApollo \/ Merge
        \/ LoadExisting \/ Qualify \/ Throw
  BY <1>8 DEF AskAgain, AskInVain, AskMatch, WithoutApollo, TurnToApollo, Merge, LoadExisting,
     Qualify, Throw
<1>9. CASE UNCHANGED vars
  BY <1>9 DEF vars
<1>. QED
  BY <1>2, <1>3, <1>4, <1>5, <1>6, <1>7, <1>8, <1>9 DEF Next, Step, AnnounceClearbit, AnnounceApollo
\* The lead is judged by the best company there is.
LEMMA JudgedStep ==
  EnrichmentInvariant /\ [Next]_vars =>
    CompanyReady' /\ BestSourceWins' /\ (Scored => result = ScoreIcp(lead, judged))'
<1>. SUFFICES ASSUME EnrichmentInvariant, [Next]_vars
              PROVE  CompanyReady' /\ BestSourceWins' /\ (Scored => result = ScoreIcp(lead, judged))'
  OBVIOUS
<1>. USE DEF EnrichmentInvariant, RunConsistent, CompanyReady, BestSourceWins, BestKnown, GoTo,
     askVars, given, endVars, Untouched
<1>0. TypeOK /\ TypeOK'
  BY TypeStep
<1>. USE <1>0 DEF TypeOK, Sources, Clearbit, Apollo, Node
<1>1. CASE Merge
  <2>1. answer[Apollo] = "match" => found[Apollo].known
    OBVIOUS
  <2>. QED
    BY <1>1, <2>1 DEF Merge, FinalCompany, Scored
<1>2. CASE LoadExisting
  <2>1. company' = saved \/ company' = NoCompany
    BY <1>2 DEF LoadExisting, Read
  <2>2. company' \in Read(saved, NoCompany)
    BY <1>2 DEF LoadExisting
  <2>3. answer[Apollo] # "match" /\ ~found[Clearbit].known
    BY <1>2, NobodyKnown DEF LoadExisting, Unasked
  <2>. QED
    BY <1>2, <2>1, <2>2, <2>3, NobodyKnown DEF LoadExisting, Scored, Read
<1>3. CASE Qualify
  <2>1. PICK row \in Read(saved, NoCompany) : judged' = IF company.known THEN company ELSE row
    BY <1>3 DEF Qualify
  <2>2. judged' \in BestKnown
    BY <1>3, <2>1 DEF Qualify
  <2>3. BestKnown' = BestKnown
    BY <1>3 DEF Qualify, Read
  <2>4. answer[Clearbit] # "match" => judged' \in Read(saved, NoCompany)
    BY <2>2, NobodyKnown DEF Unasked
  <2>5. Read(saved, NoCompany)' = Read(saved, NoCompany)
    BY <1>3 DEF Qualify, Read
  <2>. QED
    BY <1>3, <2>2, <2>3, <2>4, <2>5 DEF Qualify
<1>4. CASE Request \/ AskAgain \/ AskInVain \/ AskMatch \/ StoreClearbit \/ StoreApollo
        \/ ReportClearbit \/ ReportApollo \/ AnnounceClearbit \/ AnnounceApollo
        \/ WithoutApollo \/ SkipApollo \/ TurnToApollo \/ Throw
  BY <1>4 DEF Request, AskAgain, AskInVain, AskMatch, StoreClearbit, StoreApollo, Store,
     ReportClearbit, ReportApollo, AnnounceClearbit, AnnounceApollo, Announce,
     WithoutApollo, SkipApollo, TurnToApollo, Throw, Scored
<1>5. CASE UNCHANGED vars
  BY <1>5 DEF vars, Read, Scored
<1>. QED
  BY <1>1, <1>2, <1>3, <1>4, <1>5 DEF Next, Step

\* The inductive invariant: the log tells what each provider answered, every
\* success is announced with its evidence, and the best source wins.
THEOREM EnrichmentSafe == Spec => []EnrichmentInvariant
<1>1. EnrichmentInvariant /\ [Next]_vars => EnrichmentInvariant'
  BY TypeStep, RunStep, OutcomesStep, SnapshotStep, JudgedStep DEF EnrichmentInvariant
<1>. QED
  BY InitInvariant, <1>1, PTL DEF Spec

\* "Every outcome is logged": whatever fails on the way, the log and the answers
\* of the providers agree where the node ends.
THEOREM OutcomesAlwaysReported == Spec => []OutcomesReported
  BY EnrichmentSafe, PTL DEF EnrichmentInvariant

\* A success is announced with a snapshot that lists the rows it announces.
THEOREM SnapshotsAlwaysShowRows == Spec => []SnapshotShowsRows
  BY EnrichmentSafe, PTL DEF EnrichmentInvariant

\* The score is that of the best source asked: of Apollo's answer, else of
\* Clearbit's, else of the row, which is all there is when Clearbit had none.
THEOREM BestSourceAlwaysWins == Spec => []BestSourceWins
  BY EnrichmentSafe, PTL DEF EnrichmentInvariant
-----------------------------------------------------------------------------
(* The score *)

AnyCompany == CompanyFacts \cup {NoCompany}

\* The points of each signal, whatever the company.
LEMMA SignalPoints ==
  ASSUME NEW l \in LeadFacts, NEW c \in AnyCompany
  PROVE  /\ c.size \in Nat \cup {Unknown} /\ c.industry \in Industries /\ c.country \in Countries
         /\ SizePoints(c.size) \in {0, 15, 20, 30} /\ IndustryPoints(c.industry) \in {0, 25}
         /\ RegionPoints(c.country) \in {0, 20} /\ FormPoints(l.form) \in {0, 15}
         /\ TitlePoints(l.title) \in {0, 10}
<1>1. c.size \in Nat \cup {Unknown} /\ c.industry \in Industries /\ c.country \in Countries
  <2>1. CASE c \in CompanyFacts
    BY <2>1 DEF CompanyFacts
  <2>2. CASE c = NoCompany
    BY <2>2 DEF NoCompany, Industries, Countries
  <2>. QED
    BY <2>1, <2>2 DEF AnyCompany
<1>2. SizePoints(c.size) \in {0, 15, 20, 30}
  BY <1>1 DEF SizePoints, Unknown
<1>. QED
  BY <1>1, <1>2 DEF IndustryPoints, RegionPoints, FormPoints, TitlePoints

\* A signal of the company that gives points is one of its firmographics.
LEMMA PointsOfFirmographics ==
  ASSUME NEW c \in AnyCompany
  PROVE  /\ SizePoints(c.size) > 0 => "size" \in Firmographics(c)
         /\ IndustryPoints(c.industry) > 0 => "industry" \in Firmographics(c)
         /\ RegionPoints(c.country) > 0 => "country" \in Firmographics(c)
<1>1. c.size \in Nat \cup {Unknown}
  <2>1. CASE c \in CompanyFacts
    BY <2>1 DEF CompanyFacts
  <2>2. CASE c = NoCompany
    BY <2>2 DEF NoCompany
  <2>. QED
    BY <2>1, <2>2 DEF AnyCompany
<1>2. SizePoints(c.size) > 0 => c.size >= 50
  BY <1>1 DEF SizePoints, Unknown
<1>. QED
  BY <1>2 DEF Firmographics, IndustryPoints, RegionPoints

\* A gate that closes leaves no points.
LEMMA ScoreValue ==
  ASSUME NEW l \in LeadFacts, NEW c \in AnyCompany
  PROVE  /\ Gate(l, c) # {} =>
              /\ ScoreIcp(l, c).score = 0
              /\ ScoreIcp(l, c).fit = FALSE
              /\ ScoreIcp(l, c).tier = "not_icp"
         /\ Gate(l, c) = {} =>
              /\ ScoreIcp(l, c).score = Points(l, c)
              /\ ScoreIcp(l, c).fit <=> Points(l, c) >= 45
              /\ ScoreIcp(l, c).tier = "tier_1" <=> Points(l, c) >= 70
         /\ Points(l, c) \in 0 .. 100
<1>1. Points(l, c) \in 0 .. 100
  <2>. DEFINE a == SizePoints(c.size)      b == IndustryPoints(c.industry)
              r == RegionPoints(c.country) f == FormPoints(l.form)
              t == TitlePoints(l.title)
  <2>1. a \in {0, 15, 20, 30} /\ b \in {0, 25} /\ r \in {0, 20} /\ f \in {0, 15} /\ t \in {0, 10}
    BY SignalPoints
  <2>. HIDE DEF a, b, r, f, t
  <2>2. a + b + r + f + t \in 0 .. 100
    BY <2>1
  <2>. QED
    BY <2>2 DEF Points, a, b, r, f, t
<1>2. Tier(Points(l, c)) # "not_icp" <=> Points(l, c) >= 45
  BY <1>1 DEF Tier
<1>3. Tier(Points(l, c)) = "tier_1" <=> Points(l, c) >= 70
  BY <1>1 DEF Tier
<1>. QED
  BY <1>1, <1>2, <1>3 DEF ScoreIcp

\* The score of one company.
LEMMA TierFirmographic ==
  ASSUME NEW l \in LeadFacts, NEW c \in AnyCompany
  PROVE  /\ ScoreIcp(l, c).fit =>
              /\ Firmographics(c) # {}
              /\ l.form = "demo" \/ \E s, t \in Firmographics(c) : s # t
         /\ ScoreIcp(l, c).tier = "tier_1" =>
              /\ \E s, t \in Firmographics(c) : s # t
              /\ l.form = "demo" \/ Firmographics(c) = {"size", "industry", "country"}
         /\ Gate(l, c) = {} /\ {"industry", "country"} \subseteq Firmographics(c) =>
              /\ ScoreIcp(l, c).fit
              /\ l.form = "demo" /\ l.title = "senior" => ScoreIcp(l, c).tier = "tier_1"
<1> DEFINE size == SizePoints(c.size)          industry == IndustryPoints(c.industry)
           region == RegionPoints(c.country)   form == FormPoints(l.form)
           title == TitlePoints(l.title)
<1>1. /\ size \in {0, 15, 20, 30} /\ industry \in {0, 25} /\ region \in {0, 20}
      /\ form \in {0, 15} /\ title \in {0, 10}
      /\ Points(l, c) = size + industry + region + form + title
  BY SignalPoints DEF Points
<1>2. /\ size > 0 => "size" \in Firmographics(c)
      /\ industry > 0 => "industry" \in Firmographics(c)
      /\ region > 0 => "country" \in Firmographics(c)
  BY PointsOfFirmographics
<1>3. form > 0 => l.form = "demo"
  BY DEF FormPoints
<1>4. /\ ScoreIcp(l, c).fit => Points(l, c) >= 45
      /\ ScoreIcp(l, c).tier = "tier_1" => Points(l, c) >= 70
  BY ScoreValue
<1>5. /\ "industry" \in Firmographics(c) => industry = 25
      /\ "country" \in Firmographics(c) => region = 20
  BY DEF Firmographics, IndustryPoints, RegionPoints
<1>6. l.form = "demo" /\ l.title = "senior" => form = 15 /\ title = 10
  BY DEF FormPoints, TitlePoints
<1>7. Firmographics(c) \subseteq {"size", "industry", "country"}
  BY DEF Firmographics
<1> HIDE DEF size, industry, region, form, title
<1>8. /\ Points(l, c) >= 45 =>
           /\ size > 0 \/ industry > 0 \/ region > 0
           /\ \/ form > 0
              \/ size > 0 /\ industry > 0
              \/ size > 0 /\ region > 0
              \/ industry > 0 /\ region > 0
      /\ Points(l, c) >= 70 =>
           /\ \/ size > 0 /\ industry > 0
              \/ size > 0 /\ region > 0
              \/ industry > 0 /\ region > 0
           /\ form > 0 \/ (size > 0 /\ industry > 0 /\ region > 0)
      /\ industry = 25 /\ region = 20 =>
           /\ Points(l, c) >= 45
           /\ form = 15 /\ title = 10 => Points(l, c) >= 70
  BY <1>1
<1>9. ASSUME ScoreIcp(l, c).fit
      PROVE  /\ Firmographics(c) # {}
             /\ l.form = "demo" \/ \E s, t \in Firmographics(c) : s # t
  BY <1>2, <1>3, <1>4, <1>8, <1>9
<1>10. ASSUME ScoreIcp(l, c).tier = "tier_1"
       PROVE  /\ \E s, t \in Firmographics(c) : s # t
              /\ l.form = "demo" \/ Firmographics(c) = {"size", "industry", "country"}
  BY <1>2, <1>3, <1>4, <1>7, <1>8, <1>10
<1>11. ASSUME Gate(l, c) = {}, {"industry", "country"} \subseteq Firmographics(c)
       PROVE  /\ ScoreIcp(l, c).fit
              /\ l.form = "demo" /\ l.title = "senior" => ScoreIcp(l, c).tier = "tier_1"
  <2>1. industry = 25 /\ region = 20
    BY <1>5, <1>11
  <2>2. Points(l, c) >= 45
    BY <1>8, <2>1
  <2>3. l.form = "demo" /\ l.title = "senior" => Points(l, c) >= 70
    BY <1>6, <1>8, <2>1
  <2>4. ScoreIcp(l, c).fit
    BY <1>11, <2>2, ScoreValue
  <2>5. ASSUME l.form = "demo", l.title = "senior" PROVE ScoreIcp(l, c).tier = "tier_1"
    BY <1>11, <2>3, <2>5, ScoreValue
  <2>. QED
    BY <2>4, <2>5
<1>. QED
  BY <1>9, <1>10, <1>11

\* More is known of d than of c, and d passes the gates: so does c.
LEMMA MonotoneScore ==
  ASSUME NEW l \in LeadFacts, NEW c \in AnyCompany, NEW d \in AnyCompany,
         Extends(d, c), Gate(l, d) = {}
  PROVE  ScoreIcp(l, d).score >= ScoreIcp(l, c).score
<1>1. SizePoints(c.size) <= SizePoints(d.size)
  <2>1. SizePoints(Unknown) = 0
    BY DEF SizePoints, Unknown
  <2>. QED
    BY <2>1, SignalPoints DEF Extends
<1>2. IndustryPoints(c.industry) <= IndustryPoints(d.industry)
  <2>1. IndustryPoints(Blank) = 0
    BY DEF IndustryPoints, Blank
  <2>. QED
    BY <2>1, SignalPoints DEF Extends
<1>3. RegionPoints(c.country) <= RegionPoints(d.country)
  <2>1. RegionPoints(Blank) = 0
    BY DEF RegionPoints, Blank, IcpRegions
  <2>. QED
    BY <2>1, SignalPoints DEF Extends
<1>4. Points(l, c) <= Points(l, d)
  BY <1>1, <1>2, <1>3, SignalPoints DEF Points
<1>5. ScoreIcp(l, d).score = Points(l, d) /\ Points(l, d) \in 0 .. 100
  BY ScoreValue
<1>6. CASE Gate(l, c) # {}
  <2>1. ScoreIcp(l, c).score = 0
    BY <1>6, ScoreValue
  <2>. QED
    BY <1>5, <2>1
<1>7. CASE Gate(l, c) = {}
  BY <1>4, <1>5, <1>7, ScoreValue
<1>. QED
  BY <1>6, <1>7

\* Every rejection has a reason against the lead.
LEMMA Explanation ==
  ASSUME NEW l \in LeadFacts, NEW c \in AnyCompany, ~ScoreIcp(l, c).fit
  PROVE  ScoreIcp(l, c).reasons \cap (NotIcp \cup Disqualifying) # {}
<1>1. CASE Gate(l, c) # {}
  <2>1. ScoreIcp(l, c).reasons = Gate(l, c)
    BY <1>1 DEF ScoreIcp
  <2>2. Gate(l, c) \subseteq Disqualifying
    BY DEF Gate, Disqualifying
  <2>. QED
    BY <1>1, <2>1, <2>2
<1>2. CASE Gate(l, c) = {}
  <2>1. ScoreIcp(l, c).reasons = Reasons(l, c) /\ Tier(Points(l, c)) = "not_icp"
    BY <1>2 DEF ScoreIcp
  <2>2. CASE SignalReasons(l, c) \cap NotIcp = {}
    <3>1. "NOT_ICP_SCORE_TOO_LOW" \in Reasons(l, c)
      BY <2>1, <2>2 DEF Reasons
    <3>. QED
      BY <2>1, <3>1 DEF NotIcp
  <2>3. CASE SignalReasons(l, c) \cap NotIcp # {}
    BY <2>1, <2>3 DEF Reasons
  <2>. QED
    BY <2>2, <2>3
<1>. QED
  BY <1>1, <1>2

\* What a scored run says of the score.
LEMMA ScoredRun ==
  EnrichmentInvariant /\ Scored =>
    lead \in LeadFacts /\ judged \in AnyCompany /\ result = ScoreIcp(lead, judged)
  BY DEF EnrichmentInvariant, TypeOK, AnyCompany

\* Every lead that is sent to nurture can be told why, whatever was known of it.
THEOREM RejectionsExplained == Spec => []RejectionExplained
<1>1. EnrichmentInvariant => RejectionExplained
  BY ScoredRun, Explanation DEF RejectionExplained
<1>. QED
  BY <1>1, EnrichmentSafe, PTL

\* The rules never count a known fact against a lead, gates aside.
THEOREM DataNeverHurts == Spec => []MoreDataNeverHurts
<1>1. EnrichmentInvariant => MoreDataNeverHurts
  <2>1. Companies \subseteq AnyCompany
    BY CompaniesAssumption DEF AnyCompany
  <2>. QED
    BY <2>1, ScoredRun, MonotoneScore DEF MoreDataNeverHurts
<1>. QED
  BY <1>1, EnrichmentSafe, PTL

\* The tiers stand for signals of the company, at their limits too: while no
\* provider answers and no row is stored, no lead is fit.
THEOREM TiersAlwaysBySignals == Spec => []TierBySignals
<1>1. EnrichmentInvariant => TierBySignals
  BY ScoredRun, TierFirmographic DEF TierBySignals
<1>. QED
  BY <1>1, EnrichmentSafe, PTL
===============================================================================
