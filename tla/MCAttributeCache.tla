-------------------------- MODULE MCAttributeCache --------------------------
(* Instances of AttributeCache for TLC. *)
EXTENDS AttributeCache, TLC

CONSTANTS d1, d2, a1, a2

TwoDevices == {d1, d2}
TwoAttributes == {a1, a2}
ShortMinute == 3
ShortAndLongAges == {0, 1, 2, 5}
Symmetry == Permutations(TwoDevices) \cup Permutations(TwoAttributes)
=============================================================================
