--------------------------- MODULE MCSepEnrollment ---------------------------
(* Small instances of SepEnrollment for TLC. *)
EXTENDS SepEnrollment, TLC

Symmetry == Permutations(Runs) \cup Permutations(Checks)

=============================================================================
