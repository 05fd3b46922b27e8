----------------------------- MODULE Parameters -----------------------------
(***************************************************************************)
(* The numbers of a request on their way from the text of a URI to the     *)
(* arguments of a BGAPI command: the conversions of BLE_HELPER.cpp, the    *)
(* widths of the driver's parameters and its checks of them.               *)
(*                                                                         *)
(* A piece of text is a token: a number that std::stoi can convert, a      *)
(* longer row of digits ("huge"), an address ("mac", n its value) or any   *)
(* other word.                                                             *)
(***************************************************************************)
EXTENDS Integers

Token(kind, n) == [kind |-> kind, n |-> n]
Number(n) == Token("number", n)
Huge == Token("huge", 0)
Word(i) == Token("word", i)

\* ConstructValidInteger succeeds, IsValidInteger only looks at the digits.
ConstructsInteger(t) == t.kind = "number"
IsValidInteger(t) == t.kind \in {"number", "huge"}
IsValidMAC(t) == t.kind = "mac"

\* The value of the query parameter, or the default when it is missing or none.
Parameter(query, name, default) ==
  IF name \in DOMAIN query /\ ConstructsInteger(query[name]) THEN query[name].n ELSE default

\* What is left of a number in a parameter of 8 or 16 bits.
Word8 == {n \in Nat : n < 256}
Word16 == {n \in Nat : n < 65536}
Uint8(n) == n % 256
\* Mutant: the parameter has the width of an int.
Uint16Wide(n) == n
Uint16(n) == n % 65536

-----------------------------------------------------------------------------
(* Connection parameters: intervals in 1.25 ms, timeout in 10 ms           *)

ConnectionParameters(min, max, timeout, latency) ==
  [min |-> min, max |-> max, timeout |-> timeout, latency |-> latency]
CONNECT_INTERVAL == 76
CONNECT_TIMEOUT == 100
CONNECT_SAVE_LATENCY == 0

\* The three checks, each on what the one before it has left.
CheckedInterval(p) ==
  IF p.min < 6 \/ p.max > 3200 \/ p.max - 16 < p.min
    THEN ConnectionParameters(CONNECT_INTERVAL - 16, CONNECT_INTERVAL, p.timeout, p.latency)
    ELSE p

\* timeout * 10 < max * 1.25, times four
CheckedTimeout(p) ==
  IF p.timeout < 10 \/ p.timeout > 3200 \/ 40 * p.timeout < 5 * p.max
    THEN ConnectionParameters(CONNECT_INTERVAL, CONNECT_INTERVAL, CONNECT_TIMEOUT, p.latency)
    ELSE p

\* Mutant: the latency is looked at alone.
CheckedLatencyAlone(p) ==
  IF p.latency > 500
    THEN ConnectionParameters(CONNECT_INTERVAL, CONNECT_INTERVAL, CONNECT_TIMEOUT, CONNECT_SAVE_LATENCY)
    ELSE p
CheckedLatency(p) ==
  IF p.latency > 500 \/ 5 * (p.latency * p.max) > 40 * p.timeout
    THEN ConnectionParameters(CONNECT_INTERVAL, CONNECT_INTERVAL, CONNECT_TIMEOUT, CONNECT_SAVE_LATENCY)
    ELSE p

CheckConnectionParameters(p) == CheckedLatency(CheckedTimeout(CheckedInterval(p)))

\* What BGAPI demands of them: a latency in which the link does not time out.
LegalConnection(p) ==
  /\ 6 <= p.min /\ p.min <= p.max /\ p.max <= 3200
  /\ 10 <= p.timeout /\ p.timeout <= 3200
  /\ 0 <= p.latency /\ p.latency <= 500
  /\ 5 * p.max <= 40 * p.timeout
  /\ 5 * (p.latency * p.max) <= 40 * p.timeout

-----------------------------------------------------------------------------
(* Discovery parameters, in 625 microseconds                               *)

DISCOVERY_SCAN_INTERVAL == 75
DISCOVERY_SCAN_WINDOW == 50

\* The mode has already been made one of 0, 1 and 2 by the switch of ExecuteWorkRequest.
CheckDiscoverParameters(p) ==
  IF 4 <= p.interval /\ p.interval <= 16384 /\ 4 <= p.window /\ p.window <= p.interval
    THEN p
    ELSE [interval |-> DISCOVERY_SCAN_INTERVAL, window |-> DISCOVERY_SCAN_WINDOW]

LegalScan(p) == 4 <= p.window /\ p.window <= p.interval /\ p.interval <= 16384
=============================================================================
