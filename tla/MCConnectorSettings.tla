------------------------ MODULE MCConnectorSettings ------------------------
(* Small instances of ConnectorSettings for TLC. *)
EXTENDS ConnectorSettings, TLC

Symmetry == Permutations(Forms)

=============================================================================
