---------------------------- MODULE MCBledDriver ----------------------------
(* Instances of BledDriver for TLC: devices and attributes are model values. *)
EXTENDS BledDriver, TLC

CONSTANTS m1, m2, a1

Devices == {m1, m2}
OneDevice == {m1}
OneAttribute == {a1}
Handles == {0, 1}
OneHandle == {0}

LinkOps == {"connect", "disconnect", "connected"}
GattOps == {"connect", "read", "write", "readall"}
MixedOps == {"connect", "read", "write", "readall", "discover", "info"}
LiveOps == {"connect", "write", "discover"}
Anything == CompletionEvent

\* Every answer in time; only the events after it may be late.
Prompt == CompletionEvent \ Responses
\* ... and a connection attempt does not outlast its 15 s either.
PromptConnect == Prompt \ {"GAP_CONNECTION_EVT"}

Symmetry == Permutations(Devices)
=============================================================================
