------------------------------- MODULE IcpScore -------------------------------
(***************************************************************************)
(* The score of the QualificationAgent (src/agents/qualification/rules.ts) *)
(* as a function of the lead and of what is known of its company, and what *)
(* holds of any lead that has been scored.                                 *)
(***************************************************************************)
EXTENDS Integers

CONSTANT Companies \* what may be known of a company

VARIABLES
  lead,   \* the lead
  judged, \* the company it is scored with
  result  \* the parameters of qualify_lead

Unknown == -1  \* employee_count: null
Blank   == ""  \* a text that is null or empty

\* What the rules look at.  A lead has no country of its own: the leads table
\* has no such column.
LeadFacts == [email : {"free", "corporate", "invalid"},
              title : {Blank, "senior", "other"},
              form : {"demo", "other"}]

NoCompany == [known |-> FALSE, size |-> Unknown, industry |-> Blank, country |-> Blank]

IcpRegions == {"US", "CA", "GB", "DE", "AU", "NL"}

\* Industries the rules tell apart, and countries; "United States" stands for
\* the countries that are not given by their code.
Industries == {Blank, "software", "other"}
Countries  == IcpRegions \cup {Blank, "United States"}

CompanyFacts ==
  [known : {TRUE}, size : Nat \cup {Unknown}, industry : Industries, country : Countries]

ASSUME CompaniesAssumption == Companies \subseteq CompanyFacts
-----------------------------------------------------------------------------
(* The points of each signal *)

SizePoints(n) ==
  CASE n \in 100 .. 1000 -> 30
    [] n \in 50 .. 99    -> 15
    [] n > 1000          -> 20
    [] OTHER             -> 0

IndustryPoints(industry) == IF industry = "software" THEN 25 ELSE 0

RegionPoints(country) == IF country \in IcpRegions THEN 20 ELSE 0

FormPoints(form) == IF form = "demo" THEN 15 ELSE 0

TitlePoints(title) == IF title = "senior" THEN 10 ELSE 0

Points(l, c) ==
  SizePoints(c.size) + IndustryPoints(c.industry) + RegionPoints(c.country)
    + FormPoints(l.form) + TitlePoints(l.title)
-----------------------------------------------------------------------------
(* The reasons *)

Disqualifying == {"DISQUALIFIED_FREE_EMAIL_PROVIDER", "DISQUALIFIED_TOO_SMALL"}

\* The gates, in the order of the code: the first that closes decides.
Gate(l, c) ==
  CASE l.email = "free" -> {"DISQUALIFIED_FREE_EMAIL_PROVIDER"}
    [] l.email # "free" /\ c.size \in 0 .. 9 -> {"DISQUALIFIED_TOO_SMALL"}
    [] OTHER -> {}

NotIcp == {"NOT_ICP_TOO_SMALL", "NOT_ICP_INDUSTRY_MISMATCH",
           "NOT_ICP_REGION_EXCLUDED", "NOT_ICP_SCORE_TOO_LOW"}

SizeReason(n) ==
  CASE n \in 100 .. 1000 -> "ICP_COMPANY_SIZE_IN_RANGE"
    [] n \in 50 .. 99    -> "ICP_COMPANY_SIZE_NEAR_RANGE"
    [] n > 1000          -> "ICP_COMPANY_SIZE_LARGE"
    [] n = Unknown       -> "ENRICHMENT_MISSING_COMPANY_SIZE"
    [] OTHER             -> "NOT_ICP_TOO_SMALL"

IndustryReason(industry) ==
  CASE industry = "software" -> "ICP_INDUSTRY_SAAS"
    [] industry = Blank      -> "ENRICHMENT_MISSING_INDUSTRY"
    [] OTHER                 -> "NOT_ICP_INDUSTRY_MISMATCH"

RegionReason(country) ==
  CASE country \in {"US", "CA"}              -> "ICP_REGION_NA"
    [] country \in IcpRegions \ {"US", "CA"} -> "ICP_REGION_EMEA_APAC"
    [] country = Blank                       -> "ENRICHMENT_MISSING_REGION"
    [] OTHER                                 -> "NOT_ICP_REGION_EXCLUDED"

SignalReasons(l, c) ==
  {SizeReason(c.size), IndustryReason(c.industry), RegionReason(c.country)}
    \cup {r \in {"ICP_HIGH_INTENT_FORM"} : l.form = "demo"}
    \cup {r \in {"ICP_SENIOR_TITLE"} : l.title = "senior"}

\* Mutant: a score at the limit of a tier is below it.
TierAbove(points) ==
  CASE points > 70        -> "tier_1"
    [] points \in 46 .. 70 -> "tier_2"
    [] OTHER              -> "not_icp"

Tier(points) ==
  CASE points >= 70      -> "tier_1"
    [] points \in 45 .. 69 -> "tier_2"
    [] OTHER             -> "not_icp"

\* A rejection gets a reason of its own when no signal speaks against the lead.
Reasons(l, c) ==
  SignalReasons(l, c)
    \cup {r \in {"NOT_ICP_SCORE_TOO_LOW"} :
            Tier(Points(l, c)) = "not_icp" /\ SignalReasons(l, c) \cap NotIcp = {}}

\* qualify_lead's parameters.
ScoreIcp(l, c) ==
  IF Gate(l, c) # {}
    THEN [fit |-> FALSE, score |-> 0, tier |-> "not_icp", reasons |-> Gate(l, c)]
    ELSE [fit     |-> Tier(Points(l, c)) # "not_icp",
          score   |-> Points(l, c),
          tier    |-> Tier(Points(l, c)),
          reasons |-> Reasons(l, c)]
-----------------------------------------------------------------------------
(* What the rules promise *)

Undecided == [fit |-> FALSE, score |-> 0, tier |-> "undecided", reasons |-> {}]
Scored    == result # Undecided

\* Every rejection carries a reason that speaks against the lead (rules.ts adds
\* one when no signal does), so that the nurture branch can tell why.
RejectionExplained == Scored /\ ~result.fit => result.reasons \cap (NotIcp \cup Disqualifying) # {}

\* d says all that c says of the company, and possibly more.
Extends(d, c) ==
  /\ c.size \in {Unknown, d.size}
  /\ c.industry \in {Blank, d.industry}
  /\ c.country \in {Blank, d.country}

\* The signals that come from the company.
Firmographics(c) ==
  {s \in {"size", "industry", "country"} :
     \/ s = "size" /\ c.size >= 50
     \/ s = "industry" /\ c.industry = "software"
     \/ s = "country" /\ c.country \in IcpRegions}

\* The rules never count a known fact against a lead: of two companies that both
\* pass the gates, the one of which more is known scores no less.  This is said of
\* the rules; a provider whose company replaces another's may well know less.
MoreDataNeverHurts ==
  Scored => \A d \in Companies :
    Extends(d, judged) /\ Gate(lead, d) = {} => ScoreIcp(lead, d).score >= result.score

\* "ICP scoring is primarily driven by company signals" (rules.ts): points and
\* limits are such that no form and no title make up for an unknown company.  A
\* fit lead has a signal of its company and a second one or a demo form; a tier 1
\* lead has two of them and the third or a demo form.  The right industry and
\* region make a lead fit by themselves, and tier 1 with a demo form and a senior
\* title: both scores lie on the limit.
TierBySignals ==
  Scored =>
    LET signals == Firmographics(judged)
    IN  /\ result.fit =>
             /\ signals # {}
             /\ lead.form = "demo" \/ \E s, t \in signals : s # t
        /\ result.tier = "tier_1" =>
             /\ \E s, t \in signals : s # t
             /\ lead.form = "demo" \/ signals = {"size", "industry", "country"}
        /\ Gate(lead, judged) = {} /\ {"industry", "country"} \subseteq signals =>
             /\ result.fit
             /\ lead.form = "demo" /\ lead.title = "senior" => result.tier = "tier_1"

===============================================================================
