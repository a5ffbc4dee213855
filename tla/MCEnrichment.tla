----------------------------- MODULE MCEnrichment -----------------------------
(* A small instance of Enrichment for TLC. *)
EXTENDS Enrichment

\* Leads of each kind of address, with and without signals of their own.
FewLeads ==
  {[email |-> "free", title |-> "senior", form |-> "demo"],
   [email |-> "invalid", title |-> Blank, form |-> "other"],
   [email |-> "corporate", title |-> "senior", form |-> "demo"],
   [email |-> "corporate", title |-> "senior", form |-> "other"]}

\* Companies on both sides of the limits of size and tier, each known in full or
\* in part, and one with none of the tracked fields.
FewCompanies ==
  {[known |-> TRUE, size |-> 100, industry |-> Blank, country |-> Blank],
   [known |-> TRUE, size |-> 99, industry |-> "software", country |-> Blank],
   [known |-> TRUE, size |-> 99, industry |-> "software", country |-> "United States"],
   [known |-> TRUE, size |-> 10, industry |-> "software", country |-> "US"],
   [known |-> TRUE, size |-> 9, industry |-> "other", country |-> "GB"],
   [known |-> TRUE, size |-> Unknown, industry |-> Blank, country |-> Blank]}

OneRow == {[known |-> TRUE, size |-> 60, industry |-> "software", country |-> "CA"]}
===============================================================================
