---------------------------- MODULE MCOwnerRouting ----------------------------
(* A small instance of OwnerRouting for TLC. *)
EXTENDS OwnerRouting, TLC
CONSTANTS ann, bob, p1, p2, p3, c1, c2

\* Two owners in two territories that overlap.
OwnerOrder == ann :> 1 @@ bob :> 2
Territories ==
  {[countries |-> {"US"}, queue |-> InboundLeads, owners |-> {ann, bob}],
   [countries |-> {"US", "GB"}, queue |-> "emea", owners |-> {bob}]}
QueueNames  == {InboundLeads, "emea"}
HomeOf == p1 :> "US" @@ p2 :> "US" @@ p3 :> "GB"

\* Two plays are about the same contact.
WhoOf == p1 :> c1 @@ p2 :> c1 @@ p3 :> c2

Symmetry == Permutations({p1, p2}) \cup Permutations(SfIds)
===============================================================================
