---------------------------- MODULE MCSelfUpdate ----------------------------
(***************************************************************************)
(* Instances of SelfUpdate for TLC: an agent at 1.3 (or 1.3.0, the same),  *)
(* and releases 1.4 and 1.10.                                              *)
(***************************************************************************)
EXTENDS SelfUpdate

CONSTANTS p1, p2

Old == <<1, 3>>
Same == <<1, 3, 0>>
Newer == <<1, 4>>
Newest == <<1, 10>>

AllVersions == {Old, Same, Newer, Newest}
TwoVersions == {Old, Newer}

With(v) == [version |-> v, url |-> TRUE]
Without(v) == [version |-> v, url |-> FALSE]

AllOrders == {With(Same), With(Newer), With(Newest), Without(Newest)}
OneOrder == {With(Newer)}
=============================================================================
