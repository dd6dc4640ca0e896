--------------------------- MODULE MCControlPlane ---------------------------
(* A small instance of ControlPlane.  The two tokens share an id prefix, so   *)
(* that their devices share an id.                                            *)
EXTENDS ControlPlane, TLC

CONSTANTS r1, r2, r3, t1, t2, d1, orgA

TwoUses == t1 :> 1 @@ t2 :> 2
OneOrg == t1 :> orgA @@ t2 :> orgA
SharedPrefix == t1 :> d1 @@ t2 :> d1

Enroll(t) == [kind |-> "enroll", token |-> t, verifies |-> TRUE]
Forged(t) == [kind |-> "enroll", token |-> t, verifies |-> FALSE]
Session(d) == [kind |-> "session", device |-> d, org |-> orgA]

AllOps == {Enroll(t1), Enroll(t2), Forged(t1), Session(d1)}
=============================================================================
