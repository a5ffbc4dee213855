--------------------------- MODULE MCOAuthConnect ---------------------------
(* Small instances of OAuthConnect for TLC. *)
EXTENDS OAuthConnect, TLC

Symmetry == Permutations(Flows) \cup Permutations(Landings) \cup Permutations(Runs)

=============================================================================
