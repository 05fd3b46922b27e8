----------------------------- MODULE MCFraming -----------------------------
(* Instances of Framing for TLC. *)
EXTENDS Framing

UpToFour == {1, 2, 4}
JustThree == {3}
=============================================================================
