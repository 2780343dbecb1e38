------------------------------ MODULE MCShipPlan ------------------------------
(* Instances of ShipPlan for TLC.                                          *)
EXTENDS ShipPlan, TLC

CONSTANTS r1, r2

\* No split any more, one line, two lines.
SmallPlans == {<<>>, <<2>>, <<1, 2>>}

\* Three lines when calm, two when handlers interleave.
Lines3or2 == [c \in BOOLEAN |-> IF c THEN 3 ELSE 2]
Lines3 == [c \in BOOLEAN |-> 3]

\* Handlers are alike.
Symmetry == Permutations({r1, r2})
=============================================================================
