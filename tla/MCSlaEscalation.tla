--------------------------- MODULE MCSlaEscalation ---------------------------
(* Small instances of SlaEscalation for TLC. *)
EXTENDS SlaEscalation, TLC

Symmetry == Permutations(Timers) \cup Permutations(Jobs)

=============================================================================
