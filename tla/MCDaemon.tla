------------------------------ MODULE MCDaemon ------------------------------
(* Instances of Daemon for TLC. *)
EXTENDS Daemon, TLC

CONSTANTS n1, n2, n3, usb, tty, p1, p2

ThreeDongles == {n1, n2, n3}
OneUsb == {usb}
OneTty == {tty}
TwoPids == {p1, p2}
Symmetry == Permutations(ThreeDongles) \cup Permutations(TwoPids)
=============================================================================
