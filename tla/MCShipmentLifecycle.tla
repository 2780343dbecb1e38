------------------------- MODULE MCShipmentLifecycle -------------------------
(* Instances of ShipmentLifecycle for TLC.                                 *)
EXTENDS ShipmentLifecycle, TLC

CONSTANTS s1, s2, s3, o1, c1, r1, r2

Symmetry == Permutations(Reqs)

\* Every shipment of the same order, on the same account.
SameOrder == [s \in Ships |-> o1]
SameAccount == [s \in Ships |-> c1]
=============================================================================
