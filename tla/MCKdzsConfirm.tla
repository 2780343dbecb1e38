---------------------------- MODULE MCKdzsConfirm ----------------------------
(* Instances of KdzsConfirm for TLC.                                       *)
EXTENDS KdzsConfirm, TLC

CONSTANTS n1, n2, r1, r2

One(kind, no, qty) == [kind |-> kind, packages |-> <<[no |-> no, qty |-> qty]>>]

\* Both numbers alone, with goods or as a reshipment.  Together the calls have a
\* piece more than is planned: OrderCore may know n2 with fewer pieces.
SingleCalls == {One("confirm", n1, 1), One("confirm", n2, 2), One("reship", n2, 0)}

\* The order split over two parcels, sent as often as MaxGroups admits.
SplitCall == [kind |-> "split", packages |-> <<[no |-> n1, qty |-> 1], [no |-> n2, qty |-> 1]>>]

\* Every call when they come alone, the split and its first parcel when handlers
\* interleave.
AllCalls == [o \in BOOLEAN |-> {SplitCall} \cup IF o THEN {One("confirm", n1, 1)} ELSE SingleCalls]
OnlySingle == [o \in BOOLEAN |-> SingleCalls]
OnlySplit == [o \in BOOLEAN |-> {SplitCall}]

\* Handlers are alike.
Symmetry == Permutations({r1, r2})
=============================================================================
