--------------------------- MODULE MCClientBridge ---------------------------
(* Instances of ClientBridge for TLC. *)
EXTENDS ClientBridge

CONSTANTS c1, c2, e1, e2

Commands == {c1, c2}
Events == {e1, e2}
=============================================================================
