---------------------------- MODULE MCControlPlane ----------------------------
(* Two tenant ids, so that a demo may be cleared and provisioned again, and two *)
(* requests served at one time.                                             *)
EXTENDS ControlPlane, TLC

CONSTANTS t1, t2, c1, c2, ann, bob, i1, i2

Symmetry ==
  UNION {Permutations(S) : S \in {TenantIds, Clients, Emails, InviteIds}}
=============================================================================
