---------------------------- MODULE MCInboundPlay ----------------------------
(* Instances of InboundPlay for TLC. *)
EXTENDS InboundPlay, TLC

\* All events are about one contact: the case deduplication is for.
OneContact == [e \in Events |-> CHOOSE m \in Emails : TRUE]

\* Jobs are interchangeable, and so are events of one contact.
Symmetry == Permutations(Jobs) \cup Permutations(Events)
=============================================================================
