---------------------------- MODULE ContactPolicy ----------------------------
(***************************************************************************)
(* What deduplication and re-enrollment promise (validate.ts, policy_rules *)
(* of type re_enrollment, DEMO.md scenario 5), without jobs, retries, rows  *)
(* or interleavings: a lead is submitted for an email address, then it is   *)
(* admitted or rejected once; an admitted lead may be contacted, on the day *)
(* it is admitted, and two leads of one address are only admitted when they *)
(* are a window apart.                                                      *)
(***************************************************************************)
EXTENDS Integers

CONSTANTS
  Leads,     \* the leads that may be submitted
  Emails,    \* the contact addresses
  NoEmail,   \* the address of a lead that is not submitted yet
  Window     \* days between two contacts of one address

VARIABLES
  address,     \* the address a lead was submitted for
  admittedAt,  \* the day a lead was admitted
  rejected,    \* the leads rejected as duplicates
  contactedAt, \* the day a lead was contacted
  now          \* the day

vars == <<address, admittedAt, rejected, contactedAt, now>>

NotYet == -1

SameAddress(l) == {k \in Leads \ {l} : address[k] = address[l]}
Settled(l)     == admittedAt[l] # NotYet \/ l \in rejected

Init ==
  /\ address = [l \in Leads |-> NoEmail]
  /\ admittedAt = [l \in Leads |-> NotYet]
  /\ rejected = {}
  /\ contactedAt = [l \in Leads |-> NotYet]
  /\ now = 0

Submit(l, e) ==
  /\ address[l] = NoEmail
  /\ address' = [address EXCEPT ![l] = e]
  /\ UNCHANGED <<admittedAt, rejected, contactedAt, now>>

Admit(l) ==
  /\ address[l] # NoEmail
  /\ ~ Settled(l)
  /\ \A k \in SameAddress(l) : admittedAt[k] # NotYet => now - admittedAt[k] >= Window
  /\ admittedAt' = [admittedAt EXCEPT ![l] = now]
  /\ UNCHANGED <<address, rejected, contactedAt, now>>

Reject(l) ==
  /\ address[l] # NoEmail
  /\ ~ Settled(l)
  /\ rejected' = rejected \cup {l}
  /\ UNCHANGED <<address, admittedAt, contactedAt, now>>

Contact(l) ==
  /\ admittedAt[l] = now
  /\ contactedAt[l] = NotYet
  /\ contactedAt' = [contactedAt EXCEPT ![l] = now]
  /\ UNCHANGED <<address, admittedAt, rejected, now>>

NextDay ==
  /\ now' = now + 1
  /\ UNCHANGED <<address, admittedAt, rejected, contactedAt>>

Next ==
  \/ \E l \in Leads, e \in Emails : Submit(l, e)
  \/ \E l \in Leads : Admit(l) \/ Reject(l) \/ Contact(l)
  \/ NextDay

Spec == Init /\ [][Next]_vars
-----------------------------------------------------------------------------
TypeOK ==
  /\ address \in [Leads -> Emails \cup {NoEmail}]
  /\ admittedAt \in [Leads -> Nat \cup {NotYet}]
  /\ rejected \in SUBSET Leads
  /\ contactedAt \in [Leads -> Nat \cup {NotYet}]
  /\ now \in Nat

\* Two contacts of one address are at least the window apart ("No double
\* outreach", DEMO.md).
Spaced ==
  \A k, l \in Leads :
    /\ k # l /\ address[k] = address[l]
    /\ contactedAt[k] # NotYet /\ contactedAt[l] # NotYet
    => contactedAt[k] - contactedAt[l] >= Window \/ contactedAt[l] - contactedAt[k] >= Window
=============================================================================
