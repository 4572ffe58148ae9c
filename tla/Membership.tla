----------------------------- MODULE Membership -----------------------------
(***************************************************************************)
(* What enrollment promises about the source's tables, whatever requests   *)
(* are lost, repeated or abandoned: an invitation admits one follower and  *)
(* is spent by that admission; an admission needs an unexpired invitation, *)
(* an identity that is not active, and a credential that never was active. *)
(***************************************************************************)
EXTENDS Naturals

CONSTANTS
  Name,    \* follower identities
  Code,    \* invitations
  MaxCred  \* credentials are 1..MaxCred

VARIABLES
  invite,     \* enrollment_invitations: status of each invitation
  fol,        \* followers and follower_credentials of each identity
  activated   \* credentials that were active at some time

members == <<invite, fol, activated>>

Init ==
  /\ invite = [c \in Code |-> "unissued"]
  /\ fol = [n \in Name |-> [cred |-> 0, active |-> FALSE]]
  /\ activated = {}

\* The source operator creates an invitation.
Issue(c) ==
  /\ invite[c] = "unissued"
  /\ invite' = [invite EXCEPT ![c] = "open"]
  /\ UNCHANGED <<fol, activated>>

\* Its lifetime passes.
Expire(c) ==
  /\ invite[c] = "open"
  /\ invite' = [invite EXCEPT ![c] = "expired"]
  /\ UNCHANGED <<fol, activated>>

\* A follower is admitted, and the invitation is spent in the same step.
Admit(n, c, k) ==
  /\ invite[c] = "open"
  /\ ~fol[n].active
  /\ k \notin activated
  /\ invite' = [invite EXCEPT ![c] = "used"]
  /\ fol' = [fol EXCEPT ![n] = [cred |-> k, active |-> TRUE]]
  /\ activated' = activated \cup {k}

\* The source operator revokes an identity.
Revoke(n) ==
  /\ fol' = [fol EXCEPT ![n].active = FALSE]
  /\ UNCHANGED <<invite, activated>>

Next ==
  \/ \E c \in Code : Issue(c) \/ Expire(c)
  \/ \E n \in Name, c \in Code, k \in 1..MaxCred : Admit(n, c, k)
  \/ \E n \in Name : Revoke(n)

Spec == Init /\ [][Next]_members
=============================================================================
