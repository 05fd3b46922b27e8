------------------------------ MODULE Framing ------------------------------
(***************************************************************************)
(* Messages on the TCP connection between the gateway and a client: a      *)
(* header that gives the size of the payload, then the payload.  Both ends *)
(* read a part of a message with the same loop (ReadBytesFromTCPSocket,    *)
(* read_bytes_from_tcpsocket), which goes on as long as bytes are missing, *)
(* because they come in pieces of any size.  The loop's pointer into the   *)
(* buffer is what this module is about, so bytes have an identity here.    *)
(***************************************************************************)
EXTENDS Integers, Sequences, FiniteSetsExt, SequencesExt

CONSTANTS
  HeaderSize,    \* RECEIVE_HEADER_SIZE
  Sizes,         \* of payloads; an empty one is sent by neither end
  Nothing,       \* what a buffer holds before it is read into
  MaxMessages    \* bound on the messages sent

ASSUME SizesAssumption ==
  HeaderSize \in Nat \ {0} /\ Sizes \subseteq Nat \ {0} /\ IsFiniteSet(Sizes) /\ Sizes # {}
ASSUME BoundAssumption == MaxMessages \in Nat

VARIABLES
  sizes,         \* of the messages sent
  wire, socket,  \* bytes on their way, and arrived but not read
  part, size,    \* what is being read, and how long it is
  length, dataBuffer,  \* the loop's: bytes missing, and the place for the next
  buffer,        \* the buffer's bytes
  decoded,       \* the payloads handed on
  torn           \* history: a header came in pieces

vars == <<sizes, wire, socket, part, size, length, dataBuffer, buffer, decoded, torn>>
reader == <<part, size, length, dataBuffer, buffer>>

Bytes(m, p, n) == [i \in 1 .. n |-> [msg |-> m, part |-> p, at |-> i]]
Header(m) == Bytes(m, "header", HeaderSize)
Payload(m) == Bytes(m, "payload", sizes[m])

\* The reader starts on a part of n bytes.
Start(p, n) ==
  /\ part' = p /\ size' = n /\ length' = n /\ dataBuffer' = 0
  /\ buffer' = [i \in 1 .. n |-> Nothing]

Init ==
  /\ sizes = <<>> /\ wire = <<>> /\ socket = <<>> /\ decoded = <<>> /\ torn = FALSE
  /\ part = "header" /\ size = HeaderSize /\ length = HeaderSize /\ dataBuffer = 0
  /\ buffer = [i \in 1 .. HeaderSize |-> Nothing]

\* bytes stored one after the other from a place on; what lies outside the buffer is lost to it.
Store(bytes, place) ==
  [i \in 1 .. size |-> IF i - place \in DOMAIN bytes THEN bytes[i - place] ELSE buffer[i]]

\* Mutant: recv is not limited to the missing bytes.
ReceiveAll ==
  /\ length > 0 /\ socket # <<>>
  /\ socket' = <<>>
  /\ buffer' = Store(socket, dataBuffer)
  /\ length' = length - Len(socket)
  /\ dataBuffer' = dataBuffer + length'
  /\ UNCHANGED <<sizes, wire, part, size, decoded, torn>>
\* One recv: what has arrived, up to the missing bytes.  The pointer moves on by the bytes
\* still missing, not by those received.
Receive ==
  /\ length > 0 /\ socket # <<>>
  /\ LET bytesRead == Min({length, Len(socket)})
     IN  /\ buffer' = Store(SubSeq(socket, 1, bytesRead), dataBuffer)
         /\ socket' = SubSeq(socket, bytesRead + 1, Len(socket))
         /\ length' = length - bytesRead
  /\ dataBuffer' = dataBuffer + length'
  /\ UNCHANGED <<sizes, wire, part, size, decoded, torn>>

\* The size that a header in the buffer gives: any, if the header is not whole.
SizeRead == IF \E m \in DOMAIN sizes : buffer = Header(m)
            THEN { sizes[m] : m \in { k \in DOMAIN sizes : buffer = Header(k) } }
            ELSE Sizes \cup {0}

HeaderRead ==
  /\ part = "header" /\ length = 0
  /\ \E n \in SizeRead : IF n = 0 THEN Start("header", HeaderSize) ELSE Start("payload", n)
  /\ UNCHANGED <<sizes, wire, socket, decoded, torn>>

\* Mutant: the payload is taken for read after the first piece.
DecodeFirstPiece ==
  /\ part = "payload" /\ length < size
  /\ decoded' = Append(decoded, buffer)
  /\ Start("header", HeaderSize)
  /\ UNCHANGED <<sizes, wire, socket, torn>>
PayloadRead ==
  /\ part = "payload" /\ length = 0
  /\ decoded' = Append(decoded, buffer)
  /\ Start("header", HeaderSize)
  /\ UNCHANGED <<sizes, wire, socket, torn>>

\* The sender: header and payload, one message after the other.
Send(n) ==
  /\ Len(sizes) < MaxMessages
  /\ sizes' = Append(sizes, n)
  /\ wire' = wire \o Header(Len(sizes')) \o Bytes(Len(sizes'), "payload", n)
  /\ UNCHANGED <<socket, reader, decoded, torn>>

\* The network: pieces of any size, in order.
Arrive(n) ==
  /\ n <= Len(wire)
  /\ torn' = \/ torn
             \/ n < Len(wire) /\ wire[n + 1].part = "header" /\ wire[n + 1].at > 1
  /\ socket' = socket \o SubSeq(wire, 1, n)
  /\ wire' = SubSeq(wire, n + 1, Len(wire))
  /\ UNCHANGED <<sizes, reader, decoded>>

Next == \/ Receive \/ HeaderRead \/ PayloadRead
        \/ \E n \in Sizes : Send(n)
        \/ \E n \in 1 .. Len(wire) : Arrive(n)

Spec == Init /\ [][Next]_vars

-----------------------------------------------------------------------------
(* Properties                                                              *)

\* Every variable keeps its type; the bytes missing are never fewer than none.
TypeOK ==
  /\ sizes \in Seq(Sizes)
  /\ part \in {"header", "payload"}
  /\ size \in Sizes \cup {HeaderSize}
  /\ length \in 0 .. size /\ dataBuffer \in Nat
  /\ DOMAIN buffer = 1 .. size
  /\ torn \in BOOLEAN

\* However a payload is cut into pieces, the next header is read from its first byte on: a
\* loop that stopped early or read on would bring the protocol out of step for good.  A
\* header that is itself cut is stored wrongly, and that does bring it out of step.
Aligned ==
  ~torn /\ part = "header" /\ length = HeaderSize =>
    LET rest == socket \o wire
    IN  rest # <<>> => rest[1].part = "header" /\ rest[1].at = 1

\* What is handed on is the payload that was sent: "Makes sure that the specified numbers of
\* bytes are actually read in case data is still in transit".
MessageWhole == \A i \in DOMAIN decoded : decoded[i] = Payload(i)
=============================================================================
