-------------------------- MODULE MCOutcomeDetection --------------------------
(* Small instances of OutcomeDetection for TLC. *)
EXTENDS OutcomeDetection, TLC

Symmetry ==
  Permutations(Meetings) \cup Permutations(Pollers) \cup Permutations(Closers)

=============================================================================
