-------------------------- MODULE ClientBridgeProofs --------------------------
(* TLAPS proofs about ClientBridge, for every set of commands and events and *)
(* every bound on what is sent and on the attempts to connect: what each     *)
(* direction of the bridge carries arrives once, in order and unchanged.     *)
EXTENDS ClientBridge, SequenceTheorems, TLAPS

-----------------------------------------------------------------------------
(* Type correctness                                                        *)

\* Only a message that has been begun can lack its payload, and the main thread that still tries
\* to connect has an attempt left.
Begun == /\ halfServer => sentByServer # <<>>
         /\ halfSerial => sentBySerial # <<>>
Attempts == main = "connect" => retry <= MaxRetry
TypeInv == TypeOK /\ Begun /\ Attempts

LEMMA InitType == Init => TypeInv
<1> SUFFICES ASSUME Init PROVE TypeInv  OBVIOUS
<1>1. InputsOK /\ OutputsOK /\ SentOK  BY EmptySeq DEF Init, InputsOK, OutputsOK, SentOK
<1>2. EndsOK  BY DEF Init, EndsOK
<1>3. retry \in 0 .. MaxRetry + 1 /\ Attempts  BY BoundsAssumption DEF Init, Attempts
<1>4. cut \subseteq {"command", "event"}  BY DEF Init
<1>5. ThreadsOK  BY <1>3, <1>4 DEF Init, ThreadsOK
<1> QED  BY <1>1, <1>2, <1>3, <1>5 DEF Init, TypeInv, TypeOK, Begun

LEMMA MainType ==
  ASSUME TypeInv, ConnectFails \/ Connect \/ Join \/ Killed
  PROVE  TypeInv'
<1> USE DEF TypeInv, TypeOK, ends, inputs, outputs, sent, half, buffers
<1>1. UNCHANGED <<fromServer, fromSerial, sentByServer, sentBySerial, halfServer, halfSerial, toServer,
                  serialUp, data_b, data, cut, abort_cmd>>
  BY DEF ConnectFails, Connect, Join, Killed
<1>2. InputsOK' /\ SentOK' /\ Begun'
  BY <1>1 DEF InputsOK, SentOK, Begun
<1>3. OutputsOK'
  <2>1. << "end_procedure" >> \in Seq(Cmd \cup {"end_procedure"})  OBVIOUS
  <2>2. toSerial' \in {toSerial, << "end_procedure" >>}  BY DEF ConnectFails, Connect, Join, Killed
  <2> QED  BY <1>1, <2>1, <2>2 DEF OutputsOK
<1>4. EndsOK'
  BY <1>1 DEF EndsOK, ConnectFails, Connect, Join, Killed
<1>5. Attempts' /\ retry' \in 0 .. MaxRetry + 1
  BY BoundsAssumption DEF ThreadsOK, Attempts, ConnectFails, Connect, Join, Killed
<1>6. ThreadsOK'
  BY <1>1, <1>5 DEF ThreadsOK, ConnectFails, Connect, Join, Killed
<1> QED  BY <1>2, <1>3, <1>4, <1>5, <1>6

LEMMA CommandType ==
  ASSUME TypeInv, CommandThread
  PROVE  TypeInv'
<1> USE DEF TypeInv, TypeOK, CommandThread, ends, inputs, outputs, sent, half, buffers, AbortCommand
<1>1. UNCHANGED <<tcpUp, serialUp, fromSerial, sentByServer, sentBySerial, halfServer, halfSerial,
                  toServer, data, cut, main, retry, response>>
  BY DEF CheckCommand, ReadHeader, ReadPayload, Execute
<1>2. SentOK' /\ EndsOK' /\ Begun' /\ Attempts'
  BY <1>1 DEF SentOK, EndsOK, Begun, Attempts
<1>3. fromServer # <<>> => /\ Tail(fromServer) \in Seq(Parts(Cmd)) /\ Head(fromServer).msg \in Cmd
  <2>1. fromServer # <<>> => /\ Tail(fromServer) \in Seq(Parts(Cmd))
                             /\ Head(fromServer) \in Parts(Cmd)
    BY HeadTailProperties DEF InputsOK
  <2> QED  BY <2>1 DEF Parts
<1>4. InputsOK'
  BY <1>1, <1>3 DEF InputsOK, CheckCommand, ReadHeader, ReadPayload, Execute
<1>5. OutputsOK'
  <2>1. data_b # Garbage => Append(toSerial, data_b) \in Seq(Cmd \cup {"end_procedure"})
    BY DEF OutputsOK, ThreadsOK
  <2> QED  BY <1>1, <2>1 DEF OutputsOK, CheckCommand, ReadHeader, ReadPayload, Execute
<1>6. abort_cmd' \in BOOLEAN
  BY DEF ThreadsOK, CheckCommand, ReadHeader, ReadPayload, Execute
<1>7. command' \in {"check", "header", "payload", "execute", "exited"}
  BY DEF ThreadsOK, CheckCommand, ReadHeader, ReadPayload, Execute
<1>8. data_b' \in Cmd \cup {Garbage}
  BY <1>3 DEF ThreadsOK, CheckCommand, ReadHeader, ReadPayload, Execute
<1>9. ThreadsOK'  BY <1>1, <1>6, <1>7, <1>8 DEF ThreadsOK
<1> QED  BY <1>2, <1>4, <1>5, <1>9

LEMMA ResponseType ==
  ASSUME TypeInv, ResponseThread
  PROVE  TypeInv'
<1> USE DEF TypeInv, TypeOK, ResponseThread, ends, inputs, outputs, sent, half, buffers, AbortResponse
<1>1. UNCHANGED <<tcpUp, serialUp, fromServer, sentByServer, sentBySerial, halfServer, halfSerial,
                  toSerial, data_b, retry, command>>
  BY DEF CheckResponse, SerialHeader, SerialPayload, Forward
<1>2. SentOK' /\ EndsOK' /\ Begun'
  BY <1>1 DEF SentOK, EndsOK, Begun
<1>3. fromSerial # <<>> => /\ Tail(fromSerial) \in Seq(Parts(Evt)) /\ Head(fromSerial).msg \in Evt
  <2>1. fromSerial # <<>> => /\ Tail(fromSerial) \in Seq(Parts(Evt))
                             /\ Head(fromSerial) \in Parts(Evt)
    BY HeadTailProperties DEF InputsOK
  <2> QED  BY <2>1 DEF Parts
<1>4. InputsOK'
  BY <1>1, <1>3 DEF InputsOK, CheckResponse, SerialHeader, SerialPayload, Forward
<1>5. OutputsOK'
  <2>1. Append(toServer, data) \in Seq(Evt \cup {Garbage})
    BY DEF OutputsOK, ThreadsOK
  <2>2. toServer' \in {toServer, Append(toServer, data)}
    BY DEF CheckResponse, SerialHeader, SerialPayload, Forward
  <2> QED  BY <1>1, <2>1, <2>2 DEF OutputsOK
<1>6. abort_cmd' \in BOOLEAN
  BY DEF ThreadsOK, CheckResponse, SerialHeader, SerialPayload, Forward
<1>7. response' \in {"check", "header", "payload", "forward", "exited"}
  BY DEF ThreadsOK, CheckResponse, SerialHeader, SerialPayload, Forward, Alive
<1>8. data' \in Evt \cup {Garbage}
  BY <1>3 DEF ThreadsOK, CheckResponse, SerialHeader, SerialPayload, Forward
<1>9. cut' \subseteq {"command", "event"}
  BY DEF ThreadsOK, CheckResponse, SerialHeader, SerialPayload, Forward
<1>10. main' \in {main, "ended"}
  BY DEF CheckResponse, SerialHeader, SerialPayload, Forward
<1>11. ThreadsOK' /\ Attempts'
  BY <1>1, <1>6, <1>7, <1>8, <1>9, <1>10 DEF ThreadsOK, Attempts
<1> QED  BY <1>2, <1>4, <1>5, <1>11

\* A part of a message that is sent keeps the type of what is under way.
LEMMA PartType ==
  ASSUME NEW M, NEW from \in Seq(Parts(M)), NEW m \in M, NEW kind \in {"header", "payload"}
  PROVE  Append(from, Part(kind, m)) \in Seq(Parts(M))
<1>1. Part(kind, m) \in Parts(M)  BY DEF Part, Parts
<1> QED  BY <1>1, AppendProperties

LEMMA EndsType ==
  ASSUME TypeInv, \/ \E m \in Cmd : ServerHeader(m)
                  \/ \E m \in Evt : DongleHeader(m)
                  \/ ServerPayload \/ ServerCloses \/ DonglePayload \/ Unplug
  PROVE  TypeInv'
<1> USE DEF TypeInv, TypeOK, ends, inputs, outputs, sent, half, buffers, threads
<1>1. UNCHANGED <<toSerial, toServer, data_b, data, abort_cmd, retry, main, command, response>>
  BY DEF ServerHeader, DongleHeader, ServerPayload, ServerCloses, DonglePayload, Unplug
<1>2. OutputsOK' /\ Attempts'  BY <1>1 DEF OutputsOK, Attempts
<1>3. cut' \subseteq {"command", "event"}
  BY DEF ThreadsOK, ServerHeader, DongleHeader, ServerPayload, ServerCloses, DonglePayload, Unplug
<1>4. ThreadsOK'  BY <1>1, <1>3 DEF ThreadsOK
<1>5. EndsOK'
  BY DEF EndsOK, ServerHeader, DongleHeader, ServerPayload, ServerCloses, DonglePayload, Unplug
<1>6. ASSUME NEW m \in Cmd, ServerHeader(m) PROVE InputsOK' /\ SentOK' /\ Begun'
  <2>1. fromServer' \in Seq(Parts(Cmd))  BY <1>6, PartType DEF ServerHeader, InputsOK
  <2>2. sentByServer' \in Seq(Cmd) /\ sentByServer' # <<>>
    BY <1>6, AppendProperties DEF ServerHeader, SentOK
  <2> QED  BY <1>6, <2>1, <2>2 DEF ServerHeader, InputsOK, SentOK, Begun
<1>7. ASSUME NEW m \in Evt, DongleHeader(m) PROVE InputsOK' /\ SentOK' /\ Begun'
  <2>1. fromSerial' \in Seq(Parts(Evt))  BY <1>7, PartType DEF DongleHeader, InputsOK
  <2>2. sentBySerial' \in Seq(Evt) /\ sentBySerial' # <<>>
    BY <1>7, AppendProperties DEF DongleHeader, SentOK
  <2> QED  BY <1>7, <2>1, <2>2 DEF DongleHeader, InputsOK, SentOK, Begun
<1>8. CASE ServerPayload
  <2>1. sentByServer[Len(sentByServer)] \in Cmd
    BY <1>8, EmptySeq, ElementOfSeq DEF ServerPayload, SentOK, Begun
  <2>2. fromServer' \in Seq(Parts(Cmd))  BY <1>8, <2>1, PartType DEF ServerPayload, InputsOK
  <2> QED  BY <1>2, <1>4, <1>5, <1>8, <2>2 DEF ServerPayload, InputsOK, SentOK, Begun
<1>9. CASE DonglePayload
  <2>1. sentBySerial[Len(sentBySerial)] \in Evt
    BY <1>9, EmptySeq, ElementOfSeq DEF DonglePayload, SentOK, Begun
  <2>2. fromSerial' \in Seq(Parts(Evt))  BY <1>9, <2>1, PartType DEF DonglePayload, InputsOK
  <2> QED  BY <1>2, <1>4, <1>5, <1>9, <2>2 DEF DonglePayload, InputsOK, SentOK, Begun
<1>10. CASE ServerCloses \/ Unplug
  BY <1>2, <1>4, <1>5, <1>10 DEF ServerCloses, Unplug, InputsOK, SentOK, Begun
<1> QED  BY <1>2, <1>4, <1>5, <1>6, <1>7, <1>8, <1>9, <1>10

LEMMA TypeStep ==
  ASSUME TypeInv, [Next]_vars
  PROVE  TypeInv'
<1>1. CASE UNCHANGED vars
  BY <1>1 DEF vars, TypeInv, TypeOK, InputsOK, OutputsOK, SentOK, EndsOK, ThreadsOK, Begun, Attempts,
              ends, inputs, outputs, sent, half, buffers
<1> QED  BY <1>1, MainType, CommandType, ResponseType, EndsType DEF Next, Over

LEMMA TypeAlways == Spec => []TypeInv
BY InitType, TypeStep, PTL DEF Spec

\* Every variable keeps its type, whatever the ends send and whenever they vanish.
THEOREM TypeCorrect == Spec => []TypeOK
<1>1. TypeInv => TypeOK  BY DEF TypeInv
<1> QED  BY <1>1, TypeAlways, PTL

-----------------------------------------------------------------------------
(* One direction of the bridge                                             *)

\* The parts of the messages in "sent" have been read up to part "read" of message done + 1; the
\* rest is under way in "from", all of it but the payload of the last message when "begun".
\* The header of message k is part 2k - 1 of the stream and its payload part 2k.
InStep(from, msgs, begun, done, read) ==
  /\ 2 * done + read + Len(from) = 2 * Len(msgs) - (IF begun THEN 1 ELSE 0)
  /\ \A j \in DOMAIN from, k \in DOMAIN msgs : 2 * done + read + j = 2 * k => from[j].msg = msgs[k]

\* What a thread has read of the message it is at.
Read(thread) == IF thread = "payload" THEN 1 ELSE IF thread \in {"execute", "forward"} THEN 2 ELSE 0

\* The sender begins a message.
LEMMA HeaderInStep ==
  ASSUME NEW M, NEW from \in Seq(Parts(M)), NEW s \in Seq(M), NEW m \in M,
         NEW d \in Nat, NEW r \in Nat, InStep(from, s, FALSE, d, r)
  PROVE  InStep(Append(from, Part("header", m)), Append(s, m), TRUE, d, r)
<1> DEFINE p == Part("header", m)
<1>1. p \in Parts(M)  BY DEF Part, Parts
<1> HIDE DEF p
<1>2. /\ Len(Append(from, p)) = Len(from) + 1 /\ DOMAIN Append(from, p) = 1 .. Len(from) + 1
      /\ \A j \in 1 .. Len(from) : Append(from, p)[j] = from[j]
  BY <1>1, AppendProperties, LenProperties
<1>3. /\ Len(Append(s, m)) = Len(s) + 1 /\ DOMAIN Append(s, m) = 1 .. Len(s) + 1
      /\ \A k \in 1 .. Len(s) : Append(s, m)[k] = s[k]
  BY AppendProperties, LenProperties
<1>4. Len(from) \in Nat /\ Len(s) \in Nat /\ DOMAIN from = 1 .. Len(from) /\ DOMAIN s = 1 .. Len(s)
  BY LenProperties
<1>5. 2 * d + r + Len(from) = 2 * Len(s)  BY DEF InStep
<1>6. ASSUME NEW j \in 1 .. Len(from) + 1, NEW k \in 1 .. Len(s) + 1, 2 * d + r + j = 2 * k
      PROVE  Append(from, p)[j].msg = Append(s, m)[k]
  <2>1. j \in 1 .. Len(from) /\ k \in 1 .. Len(s)  BY <1>4, <1>5, <1>6
  <2> QED  BY <1>2, <1>3, <1>4, <1>6, <2>1, ZenonT(30) DEF InStep
<1>7. 2 * d + r + Len(Append(from, p)) = 2 * Len(Append(s, m)) - 1  BY <1>2, <1>3, <1>4, <1>5
<1> QED  BY <1>2, <1>3, <1>6, <1>7 DEF InStep, p

\* The sender completes it.
LEMMA PayloadInStep ==
  ASSUME NEW M, NEW from \in Seq(Parts(M)), NEW s \in Seq(M), s # <<>>,
         NEW d \in Nat, NEW r \in Nat, InStep(from, s, TRUE, d, r)
  PROVE  InStep(Append(from, Part("payload", s[Len(s)])), s, FALSE, d, r)
<1> DEFINE p == Part("payload", s[Len(s)])
<1>1. p \in Parts(M) /\ p.msg = s[Len(s)]  BY EmptySeq, ElementOfSeq DEF Part, Parts
<1> HIDE DEF p
<1>2. /\ Len(Append(from, p)) = Len(from) + 1 /\ DOMAIN Append(from, p) = 1 .. Len(from) + 1
      /\ \A j \in 1 .. Len(from) : Append(from, p)[j] = from[j]
      /\ Append(from, p)[Len(from) + 1] = p
  BY <1>1, AppendProperties, LenProperties
<1>4. Len(from) \in Nat /\ Len(s) \in Nat /\ DOMAIN from = 1 .. Len(from) /\ DOMAIN s = 1 .. Len(s)
  BY LenProperties
<1>5. 2 * d + r + Len(from) = 2 * Len(s) - 1  BY DEF InStep
<1>6. ASSUME NEW j \in 1 .. Len(from) + 1, NEW k \in 1 .. Len(s), 2 * d + r + j = 2 * k
      PROVE  Append(from, p)[j].msg = s[k]
  <2>1. CASE j \in 1 .. Len(from)  BY <1>2, <1>4, <1>6, <2>1 DEF InStep
  <2>2. CASE j = Len(from) + 1
    <3>1. k \in Nat /\ 2 * d + r + (Len(from) + 1) = 2 * k  BY <1>4, <1>6, <2>2
    <3>2. \A l, n \in Nat : 2 * d + r + l = 2 * n - 1 /\ 2 * d + r + (l + 1) = 2 * k => k = n
      BY <3>1
    <3>3. k = Len(s)  BY <1>4, <1>5, <3>1, <3>2
    <3> QED  BY <1>1, <1>2, <2>2, <3>3
  <2> QED  BY <1>4, <2>1, <2>2
<1> QED  BY <1>2, <1>4, <1>5, <1>6 DEF InStep, p

\* The reader takes a part; the second one of a message is its payload.
LEMMA ReadInStep ==
  ASSUME NEW M, NEW from \in Seq(Parts(M)), from # <<>>, NEW s \in Seq(M), NEW begun \in BOOLEAN,
         NEW d \in Nat, NEW r \in Nat, InStep(from, s, begun, d, r)
  PROVE  /\ InStep(Tail(from), s, begun, d, r + 1)
         /\ r = 1 => d + 1 \in DOMAIN s /\ Head(from).msg = s[d + 1]
<1>1. /\ Len(from) \in Nat \ {0} /\ DOMAIN from = 1 .. Len(from) /\ Head(from) = from[1]
      /\ Len(s) \in Nat /\ DOMAIN s = 1 .. Len(s)
  BY LenProperties, EmptySeq
<1>2. /\ Len(Tail(from)) = Len(from) - 1 /\ DOMAIN Tail(from) = 1 .. Len(from) - 1
      /\ \A j \in 1 .. Len(from) - 1 : Tail(from)[j] = from[j + 1]
  BY HeadTailProperties, LenProperties
<1>3. 2 * d + r + Len(from) = 2 * Len(s) - (IF begun THEN 1 ELSE 0)  BY DEF InStep
<1>4. ASSUME NEW j \in 1 .. Len(from) - 1, NEW k \in DOMAIN s, 2 * d + (r + 1) + j = 2 * k
      PROVE  Tail(from)[j].msg = s[k]
  <2>1. j + 1 \in DOMAIN from /\ 2 * d + r + (j + 1) = 2 * k  BY <1>1, <1>4
  <2>2. from[j + 1].msg = s[k]  BY <1>4, <2>1 DEF InStep
  <2> QED  BY <1>2, <1>4, <2>2
<1>5. 2 * d + (r + 1) + Len(Tail(from)) = 2 * Len(s) - (IF begun THEN 1 ELSE 0)
  BY <1>1, <1>2, <1>3
<1>6. ASSUME r = 1 PROVE d + 1 \in DOMAIN s /\ Head(from).msg = s[d + 1]
  <2>1. 2 * d + 1 + Len(from) <= 2 * Len(s)  BY <1>1, <1>3, <1>6
  <2>2. d + 1 \in DOMAIN s  BY <1>1, <2>1
  <2>3. 2 * d + r + 1 = 2 * (d + 1) /\ 1 \in DOMAIN from  BY <1>1, <1>6
  <2> QED  BY <1>1, <2>2, <2>3 DEF InStep
<1> QED  BY <1>2, <1>4, <1>5, <1>6 DEF InStep

\* The two parts of a message, one after the other.
LEMMA FirstInStep ==
  ASSUME NEW M, NEW from \in Seq(Parts(M)), from # <<>>, NEW s \in Seq(M), NEW begun \in BOOLEAN,
         NEW d \in Nat, InStep(from, s, begun, d, 0)
  PROVE  InStep(Tail(from), s, begun, d, 1)
<1>1. InStep(Tail(from), s, begun, d, 0 + 1)  BY ReadInStep
<1> QED  BY <1>1

LEMMA SecondInStep ==
  ASSUME NEW M, NEW from \in Seq(Parts(M)), from # <<>>, NEW s \in Seq(M), NEW begun \in BOOLEAN,
         NEW d \in Nat, InStep(from, s, begun, d, 1)
  PROVE  /\ InStep(Tail(from), s, begun, d, 2)
         /\ d + 1 \in DOMAIN s /\ Head(from).msg = s[d + 1]
<1>1. /\ InStep(Tail(from), s, begun, d, 1 + 1)
      /\ d + 1 \in DOMAIN s /\ Head(from).msg = s[d + 1]
  BY ReadInStep
<1>2. 1 + 1 = 2  OBVIOUS
<1> QED  BY <1>1, <1>2

\* A message that has been read is done with when it is passed on.
LEMMA NextInStep ==
  ASSUME NEW from, NEW s, NEW begun, NEW d \in Nat, InStep(from, s, begun, d, 2)
  PROVE  InStep(from, s, begun, d + 1, 0)
<1>1. \A j \in Int : 2 * (d + 1) + 0 + j = 2 * d + 2 + j  OBVIOUS
<1> QED  BY <1>1 DEF InStep

\* A reader that waits for a payload still has one to come when no message is left begun.
LEMMA PayloadComes ==
  ASSUME NEW M, NEW s \in Seq(M), NEW d \in Nat
  PROVE  ~InStep(<<>>, s, FALSE, d, 1)
<1>1. Len(<<>>) = 0 /\ Len(s) \in Nat  BY EmptySeq, LenProperties
<1>2. \A n \in Nat : 2 * d + 1 + 0 # 2 * n - 0  OBVIOUS
<1> QED  BY <1>1, <1>2 DEF InStep

-----------------------------------------------------------------------------
(* Commands                                                                *)

\* The initial end_procedure and then the commands sent, as far as they have been passed on.
Carried ==
  /\ Len(toSerial) <= Len(sentByServer) + 1
  /\ \A i \in DOMAIN toSerial : toSerial[i] = IF i = 1 THEN "end_procedure" ELSE sentByServer[i - 1]

\* Where the command thread is in what the gateway sent, and that it holds the command it is about
\* to pass on.
CommandInStep ==
  command \notin {"none", "exited"} =>
    /\ toSerial # <<>>
    /\ InStep(fromServer, sentByServer, halfServer, Len(toSerial) - 1, Read(command))
    /\ command = "execute" => /\ Len(toSerial) \in DOMAIN sentByServer
                              /\ data_b = sentByServer[Len(toSerial)]

\* Nothing has come or gone before the client is connected.
CommandsStart ==
  main = "connect" => /\ ~tcpUp /\ ~halfServer /\ command = "none"
                      /\ fromServer = <<>> /\ sentByServer = <<>> /\ toSerial = <<>>

CommandInv ==
  /\ CommandsStart
  /\ "command" \notin cut => Carried /\ CommandInStep /\ (~tcpUp => ~halfServer)

LEMMA InitCommands == Init => CommandInv
<1> SUFFICES ASSUME Init PROVE CommandInv  OBVIOUS
<1>1. Len(<<>>) = 0 /\ DOMAIN <<>> = {}  OBVIOUS
<1> QED  BY <1>1 DEF Init, CommandInv, CommandsStart, Carried, CommandInStep

\* The steps that have nothing to do with commands.
LEMMA CommandsKept ==
  ASSUME CommandInv, UNCHANGED <<tcpUp, halfServer, fromServer, sentByServer, toSerial, data_b, command>>,
         cut \subseteq cut', main' \in {main, "ended"}
  PROVE  CommandInv'
<1>1. CommandsStart'  BY DEF CommandInv, CommandsStart
<1> SUFFICES ASSUME "command" \notin cut' PROVE Carried' /\ CommandInStep' /\ (~tcpUp' => ~halfServer')
  BY <1>1 DEF CommandInv
<1>2. Carried /\ CommandInStep /\ (~tcpUp => ~halfServer)  BY DEF CommandInv
<1>3. Carried'  BY <1>2 DEF Carried
<1>4. CommandInStep'  BY <1>2 DEF CommandInStep
<1> QED  BY <1>2, <1>3, <1>4

LEMMA CommandsCommandThread ==
  ASSUME TypeInv, CommandInv, CommandThread
  PROVE  CommandInv'
<1> USE DEF TypeInv, TypeOK, CommandThread, ends, inputs, outputs, sent, half, buffers, AbortCommand, Alive
<1>0. /\ UNCHANGED <<tcpUp, sentByServer, halfServer, cut, main>> /\ main = "join"
      /\ command \notin {"none", "exited"}
  BY DEF CheckCommand, ReadHeader, ReadPayload, Execute
<1>1. CommandsStart'  BY <1>0 DEF CommandsStart
<1> SUFFICES ASSUME "command" \notin cut
             PROVE  Carried' /\ CommandInStep' /\ (~tcpUp => ~halfServer)
  BY <1>0, <1>1 DEF CommandInv
<1>2. /\ Carried /\ (~tcpUp => ~halfServer)
      /\ toSerial # <<>>
      /\ InStep(fromServer, sentByServer, halfServer, Len(toSerial) - 1, Read(command))
  BY <1>0 DEF CommandInv, CommandInStep
<1>3. /\ fromServer \in Seq(Parts(Cmd)) /\ sentByServer \in Seq(Cmd) /\ halfServer \in BOOLEAN
      /\ toSerial \in Seq(Cmd \cup {"end_procedure"})
      /\ Len(toSerial) \in Nat /\ Len(toSerial) - 1 \in Nat
  BY <1>2, EmptySeq, LenProperties DEF InputsOK, SentOK, EndsOK, OutputsOK
<1>4. CASE command' = "exited"
  <2>1. toSerial' = toSerial
    BY <1>4 DEF CheckCommand, ReadHeader, ReadPayload, Execute
  <2> QED  BY <1>0, <1>2, <1>4, <2>1 DEF Carried, CommandInStep
<1>5. CASE CheckCommand /\ command' # "exited"
  BY <1>0, <1>2, <1>5 DEF CheckCommand, Carried, CommandInStep, Read
<1>6. CASE ReadHeader /\ command' # "exited"
  <2>1. command = "header" /\ command' = "payload" /\ fromServer # <<>> /\ fromServer' = Tail(fromServer)
        /\ toSerial' = toSerial
    BY <1>6 DEF ReadHeader
  <2>2. InStep(Tail(fromServer), sentByServer, halfServer, Len(toSerial) - 1, 1)
    <3>1. InStep(fromServer, sentByServer, halfServer, Len(toSerial) - 1, 0)
      BY <1>2, <2>1 DEF Read
    <3> DEFINE d == Len(toSerial) - 1
    <3>2. d \in Nat /\ InStep(fromServer, sentByServer, halfServer, d, 0)  BY <1>3, <3>1
    <3> HIDE DEF d
    <3>3. InStep(Tail(fromServer), sentByServer, halfServer, d, 1)
      BY <1>3, <2>1, <3>2, FirstInStep
    <3> QED  BY <3>3 DEF d
  <2> QED  BY <1>0, <1>2, <2>1, <2>2 DEF Carried, CommandInStep, Read
<1>7. CASE ReadPayload
  <2>1. command = "payload" /\ command' = "execute" /\ toSerial' = toSerial
    BY <1>7 DEF ReadPayload
  <2>2. InStep(fromServer, sentByServer, halfServer, Len(toSerial) - 1, 1)
    BY <1>2, <2>1 DEF Read
  <2>3. fromServer # <<>>
    BY <1>2, <1>3, <1>7, <2>2, PayloadComes DEF ReadPayload
  <2>4. fromServer' = Tail(fromServer) /\ data_b' = Head(fromServer).msg
    BY <1>7, <2>3 DEF ReadPayload
  <2>5. /\ InStep(Tail(fromServer), sentByServer, halfServer, Len(toSerial) - 1, 2)
        /\ (Len(toSerial) - 1) + 1 \in DOMAIN sentByServer
        /\ Head(fromServer).msg = sentByServer[(Len(toSerial) - 1) + 1]
    <3> DEFINE d == Len(toSerial) - 1
    <3>1. d \in Nat /\ InStep(fromServer, sentByServer, halfServer, d, 1)  BY <1>3, <2>2
    <3> HIDE DEF d
    <3>2. /\ InStep(Tail(fromServer), sentByServer, halfServer, d, 2)
          /\ d + 1 \in DOMAIN sentByServer /\ Head(fromServer).msg = sentByServer[d + 1]
      BY <1>3, <2>3, <3>1, SecondInStep
    <3> QED  BY <3>2 DEF d
  <2>6. (Len(toSerial) - 1) + 1 = Len(toSerial)  BY <1>3
  <2> QED  BY <1>0, <1>2, <2>1, <2>4, <2>5, <2>6 DEF Carried, CommandInStep, Read
<1>8. CASE Execute /\ command' # "exited"
  <2>1. /\ command = "execute" /\ command' = "check" /\ fromServer' = fromServer
        /\ Len(toSerial) \in DOMAIN sentByServer /\ data_b = sentByServer[Len(toSerial)]
    BY <1>0, <1>8 DEF Execute, CommandInv, CommandInStep
  <2>2. data_b # Garbage
    BY <1>3, <2>1, LenProperties, GarbageAssumption
  <2>3. toSerial' = Append(toSerial, data_b)
    BY <1>8, <2>2 DEF Execute
  <2>4. /\ Len(toSerial') = Len(toSerial) + 1 /\ toSerial' # <<>>
        /\ DOMAIN toSerial' = 1 .. Len(toSerial) + 1 /\ DOMAIN toSerial = 1 .. Len(toSerial)
        /\ \A i \in 1 .. Len(toSerial) : toSerial'[i] = toSerial[i]
        /\ toSerial'[Len(toSerial) + 1] = data_b
    BY <1>3, <2>2, <2>3, AppendProperties, LenProperties DEF ThreadsOK
  <2>5. Carried'
    <3>1. Len(toSerial) <= Len(sentByServer)
      BY <1>3, <2>1, LenProperties
    <3>2. Len(toSerial') <= Len(sentByServer) + 1
      BY <1>3, <2>4, <3>1, LenProperties
    <3>3. ASSUME NEW i \in 1 .. Len(toSerial) + 1
          PROVE  toSerial'[i] = IF i = 1 THEN "end_procedure" ELSE sentByServer[i - 1]
      <4>1. CASE i \in 1 .. Len(toSerial)  BY <1>2, <2>4, <4>1 DEF Carried
      <4>2. CASE i = Len(toSerial) + 1
        <5>1. i # 1 /\ i - 1 = Len(toSerial)  BY <1>3, <4>2
        <5> QED  BY <2>1, <2>4, <4>2, <5>1
      <4> QED  BY <1>3, <4>1, <4>2
    <3> QED  BY <1>0, <2>4, <3>2, <3>3 DEF Carried
  <2>6. InStep(fromServer, sentByServer, halfServer, Len(toSerial') - 1, 0)
    <3>1. InStep(fromServer, sentByServer, halfServer, Len(toSerial) - 1, 2)
      BY <1>2, <2>1 DEF Read
    <3>2. InStep(fromServer, sentByServer, halfServer, (Len(toSerial) - 1) + 1, 0)
      BY <1>3, <3>1, NextInStep
    <3>3. Len(toSerial') - 1 = (Len(toSerial) - 1) + 1  BY <1>3, <2>4
    <3> QED  BY <3>2, <3>3
  <2> QED  BY <1>0, <1>2, <2>1, <2>4, <2>5, <2>6 DEF CommandInStep, Read
<1> QED  BY <1>4, <1>5, <1>6, <1>7, <1>8

\* The gateway.
LEMMA CommandsServer ==
  ASSUME TypeInv, CommandInv, (\E m \in Cmd : ServerHeader(m)) \/ ServerPayload \/ ServerCloses
  PROVE  CommandInv'
<1> USE DEF TypeInv, TypeOK, ends, inputs, outputs, sent, half, buffers, threads
<1>0. /\ UNCHANGED <<toSerial, data_b, main, command>> /\ tcpUp /\ main # "connect" /\ cut \subseteq cut'
  BY DEF ServerHeader, ServerPayload, ServerCloses, CommandInv, CommandsStart
<1>1. CommandsStart'  BY <1>0 DEF CommandsStart
<1> SUFFICES ASSUME "command" \notin cut'
             PROVE  Carried' /\ CommandInStep' /\ (~tcpUp' => ~halfServer')
  BY <1>1 DEF CommandInv
<1>2. Carried /\ CommandInStep  BY <1>0 DEF CommandInv
<1>3. /\ fromServer \in Seq(Parts(Cmd)) /\ sentByServer \in Seq(Cmd) /\ halfServer \in BOOLEAN
      /\ toSerial \in Seq(Cmd \cup {"end_procedure"}) /\ Len(toSerial) \in Nat
      /\ toSerial # <<>> => Len(toSerial) - 1 \in Nat
      /\ Read(command) \in Nat
  BY EmptySeq, LenProperties DEF InputsOK, SentOK, EndsOK, OutputsOK, Read
<1>4. ASSUME NEW m \in Cmd, ServerHeader(m)
      PROVE  Carried' /\ CommandInStep' /\ (~tcpUp' => ~halfServer')
  <2>1. /\ ~halfServer /\ halfServer' /\ tcpUp' = tcpUp
        /\ fromServer' = Append(fromServer, Part("header", m)) /\ sentByServer' = Append(sentByServer, m)
    BY <1>4 DEF ServerHeader
  <2>2. /\ Len(sentByServer') = Len(sentByServer) + 1 /\ DOMAIN sentByServer' = 1 .. Len(sentByServer) + 1
        /\ Len(sentByServer) \in Nat /\ DOMAIN sentByServer = 1 .. Len(sentByServer)
        /\ \A k \in 1 .. Len(sentByServer) : sentByServer'[k] = sentByServer[k]
    BY <1>3, <2>1, AppendProperties, LenProperties
  <2>3. Carried'
    <3>1. \A i \in DOMAIN toSerial : i # 1 => i - 1 \in 1 .. Len(sentByServer)
      BY <1>2, <1>3, <2>2, LenProperties DEF Carried
    <3>2. Len(toSerial) <= Len(sentByServer') + 1  BY <1>2, <1>3, <2>2 DEF Carried
    <3> QED  BY <1>0, <1>2, <2>2, <3>1, <3>2 DEF Carried
  <2>4. CommandInStep'
    <3> SUFFICES ASSUME command \notin {"none", "exited"} PROVE CommandInStep'
      BY <1>0 DEF CommandInStep
    <3>1. /\ toSerial # <<>>
          /\ InStep(fromServer, sentByServer, FALSE, Len(toSerial) - 1, Read(command))
      BY <1>2, <1>3, <2>1 DEF CommandInStep
    <3>2. InStep(fromServer', sentByServer', TRUE, Len(toSerial) - 1, Read(command))
      BY <1>3, <1>4, <2>1, <3>1, HeaderInStep
    <3>3. halfServer' = TRUE  BY <1>4 DEF ServerHeader
    <3>4. InStep(fromServer', sentByServer', halfServer', Len(toSerial) - 1, Read(command))
      BY <3>2, <3>3
    <3>5. command = "execute" => /\ Len(toSerial) \in DOMAIN sentByServer'
                                 /\ data_b = sentByServer'[Len(toSerial)]
      BY <1>2, <1>3, <2>2 DEF CommandInStep
    <3> QED  BY <1>0, <3>1, <3>4, <3>5 DEF CommandInStep
  <2> QED  BY <1>0, <2>1, <2>3, <2>4
<1>5. CASE ServerPayload
  <2>1. /\ halfServer = TRUE /\ halfServer' = FALSE /\ sentByServer' = sentByServer
        /\ fromServer' = Append(fromServer, Part("payload", sentByServer[Len(sentByServer)]))
    BY <1>3, <1>5 DEF ServerPayload
  <2>2. sentByServer # <<>>  BY <2>1 DEF Begun
  <2>3. Carried'  BY <1>0, <1>2, <2>1 DEF Carried
  <2>4. CommandInStep'
    <3> SUFFICES ASSUME command \notin {"none", "exited"} PROVE CommandInStep'
      BY <1>0 DEF CommandInStep
    <3>1. /\ toSerial # <<>>
          /\ InStep(fromServer, sentByServer, TRUE, Len(toSerial) - 1, Read(command))
      BY <1>2, <2>1 DEF CommandInStep
    <3>2. InStep(fromServer', sentByServer, FALSE, Len(toSerial) - 1, Read(command))
      BY <1>3, <2>1, <2>2, <3>1, PayloadInStep
    <3> QED  BY <1>0, <1>2, <2>1, <3>1, <3>2 DEF CommandInStep
  <2> QED  BY <2>1, <2>3, <2>4
<1>6. CASE ServerCloses
  <2>1. ~halfServer /\ UNCHANGED <<halfServer, fromServer, sentByServer>>
    BY <1>6 DEF ServerCloses
  <2> QED  BY <1>0, <1>2, <2>1 DEF Carried, CommandInStep
<1> QED  BY <1>4, <1>5, <1>6

LEMMA CommandsConnect ==
  ASSUME TypeInv, CommandInv, Connect
  PROVE  CommandInv'
<1>1. /\ main = "connect" /\ ~halfServer /\ fromServer = <<>> /\ sentByServer = <<>> /\ toSerial = <<>>
      /\ UNCHANGED <<halfServer, fromServer, sentByServer>> /\ tcpUp' /\ main' # "connect"
      /\ command = "none"
  BY DEF Connect, CommandInv, CommandsStart, inputs, sent, half
<1>2. CASE serialUp
  <2>1. toSerial' = << "end_procedure" >> /\ command' = "check"  BY <1>1, <1>2 DEF Connect
  <2>2. Len(<<>>) = 0 /\ DOMAIN <<>> = {} /\ Len(toSerial') = 1 /\ DOMAIN toSerial' = {1}
        /\ toSerial'[1] = "end_procedure" /\ toSerial' # <<>>
    BY <2>1
  <2>3. halfServer' = FALSE  BY <1>1, <1>2 DEF TypeInv, TypeOK, EndsOK
  <2>4. InStep(<<>>, <<>>, FALSE, 0, 0)  BY <2>2 DEF InStep
  <2>5. InStep(fromServer', sentByServer', halfServer', Len(toSerial') - 1, 0)
    <3>1. Len(toSerial') - 1 = 0  BY <2>2
    <3> QED  BY <1>1, <2>3, <2>4, <3>1
  <2>6. CommandInStep'  BY <2>1, <2>2, <2>5 DEF CommandInStep, Read
  <2> QED  BY <1>1, <2>2, <2>6 DEF CommandInv, CommandsStart, Carried
<1>3. CASE ~serialUp
  <2>1. toSerial' = <<>> /\ command' = "none"  BY <1>1, <1>3 DEF Connect
  <2>2. Len(<<>>) = 0 /\ DOMAIN <<>> = {}  OBVIOUS
  <2> QED  BY <1>1, <2>1, <2>2 DEF CommandInv, CommandsStart, Carried, CommandInStep
<1> QED  BY <1>2, <1>3

LEMMA CommandsStep ==
  ASSUME TypeInv, CommandInv, [Next]_vars
  PROVE  CommandInv'
<1>1. CASE \/ ConnectFails \/ Join \/ Killed \/ ResponseThread \/ DonglePayload \/ Unplug
           \/ \E m \in Evt : DongleHeader(m)
           \/ UNCHANGED vars
  <2> USE DEF vars, ends, inputs, outputs, sent, half, buffers, threads
  <2>1. /\ UNCHANGED <<tcpUp, halfServer, fromServer, sentByServer, toSerial, data_b>>
        /\ main' \in {main, "ended"} /\ command' = command
    BY <1>1 DEF ConnectFails, Join, Killed, ResponseThread, CheckResponse, SerialHeader, SerialPayload,
                Forward, AbortResponse, DonglePayload, Unplug, DongleHeader
  <2>2. cut \subseteq cut'
    BY <1>1 DEF ConnectFails, Join, Killed, ResponseThread, CheckResponse, SerialHeader, SerialPayload,
                Forward, DonglePayload, Unplug, DongleHeader
  <2> QED  BY <2>1, <2>2, CommandsKept
<1> QED  BY <1>1, CommandsCommandThread, CommandsServer, CommandsConnect DEF Next, Over

LEMMA CarriedPrefix ==
  ASSUME TypeInv, CommandInv
  PROVE  CommandsCarried
<1> DEFINE first == << "end_procedure" >>
           any == Cmd \cup {"end_procedure"}
<1> SUFFICES ASSUME "command" \notin cut PROVE Prefix(toSerial, first \o sentByServer)
  BY DEF CommandsCarried
<1>1. first \in Seq(any) /\ Len(first) = 1 /\ first[1] = "end_procedure"  OBVIOUS
<1>2. sentByServer \in Seq(any) /\ toSerial \in Seq(any)
  <2>1. sentByServer \in Seq(Cmd)  BY DEF TypeInv, TypeOK, SentOK
  <2> QED  BY <2>1, SeqMonotonic DEF TypeInv, TypeOK, OutputsOK
<1>3. Carried  BY DEF CommandInv
<1> HIDE DEF first, any
<1>4. /\ Len(first \o sentByServer) = 1 + Len(sentByServer)
      /\ \A i \in 1 .. 1 + Len(sentByServer) :
           (first \o sentByServer)[i] = IF i <= 1 THEN first[i] ELSE sentByServer[i - 1]
  <2>1. /\ Len(first \o sentByServer) = Len(first) + Len(sentByServer)
        /\ \A i \in 1 .. Len(first) + Len(sentByServer) :
             (first \o sentByServer)[i] =
               IF i <= Len(first) THEN first[i] ELSE sentByServer[i - Len(first)]
    BY <1>1, <1>2, ConcatProperties
  <2> QED  BY <1>1, <2>1
<1>5. Len(sentByServer) \in Nat /\ Len(toSerial) \in Nat /\ DOMAIN toSerial = 1 .. Len(toSerial)
  BY <1>2, LenProperties
<1>6. ASSUME NEW i \in DOMAIN toSerial PROVE toSerial[i] = (first \o sentByServer)[i]
  <2>1. i \in 1 .. 1 + Len(sentByServer) /\ (i <= 1 <=> i = 1)  BY <1>3, <1>5 DEF Carried
  <2>2. toSerial[i] = IF i = 1 THEN "end_procedure" ELSE sentByServer[i - 1]  BY <1>3 DEF Carried
  <2> QED  BY <1>1, <1>4, <2>1, <2>2
<1>7. Len(toSerial) <= Len(first \o sentByServer)  BY <1>3, <1>4, <1>5 DEF Carried
<1> QED  BY <1>6, <1>7 DEF Prefix

\* The dongle executes, after the initial end_procedure, the commands that the gateway sent, each
\* once and in order, as long as the gateway does not vanish inside a command: the payload that
\* the command thread holds when it executes is that of the command it is at.
THEOREM CommandsInOrder == Spec => []CommandsCarried
<1>1. TypeInv /\ CommandInv => CommandsCarried  BY CarriedPrefix
<1> QED  BY <1>1, TypeAlways, InitCommands, CommandsStep, PTL DEF Spec

-----------------------------------------------------------------------------
(* Responses and events                                                    *)

\* Where the response thread is in what the dongle sent, and that it holds the message it is about
\* to send, as long as the gateway is there to take it.
ResponseInStep ==
  response # "exited" /\ (tcpUp \/ response = "none") =>
    /\ InStep(fromSerial, sentBySerial, halfSerial, Len(toServer), Read(response))
    /\ response = "forward" => /\ Len(toServer) + 1 \in DOMAIN sentBySerial
                               /\ data = sentBySerial[Len(toServer) + 1]

EventInv ==
  /\ main = "connect" => response = "none"
  /\ "event" \notin cut =>
       Prefix(toServer, sentBySerial) /\ ResponseInStep /\ (~serialUp => ~halfSerial)

LEMMA InitEvents == Init => EventInv
<1> SUFFICES ASSUME Init PROVE EventInv  OBVIOUS
<1>1. Len(<<>>) = 0 /\ DOMAIN <<>> = {}  OBVIOUS
<1>2. InStep(<<>>, <<>>, FALSE, 0, 0)  BY <1>1 DEF InStep
<1>3. InStep(fromSerial, sentBySerial, halfSerial, Len(toServer), Read(response))
  <2>1. Read("none") = 0  BY DEF Read
  <2>2. fromSerial = <<>> /\ sentBySerial = <<>> /\ halfSerial = FALSE /\ toServer = <<>> /\ response = "none"
    BY DEF Init
  <2> QED  BY <1>1, <1>2, <2>1, <2>2
<1>4. ResponseInStep  BY <1>3 DEF Init, ResponseInStep
<1> QED  BY <1>1, <1>4 DEF Init, EventInv, Prefix

\* The steps that have nothing to do with events; the gateway may go, and with it what has to be
\* in step.
LEMMA EventsKept ==
  ASSUME EventInv, UNCHANGED <<serialUp, halfSerial, fromSerial, sentBySerial, toServer, data, response>>,
         tcpUp' => tcpUp, cut \subseteq cut', main' \in {main, "ended"}
  PROVE  EventInv'
<1> SUFFICES ASSUME "event" \notin cut' PROVE ResponseInStep'
  BY DEF EventInv
<1>1. ResponseInStep  BY DEF EventInv
<1> QED  BY <1>1 DEF ResponseInStep

LEMMA EventsResponseThread ==
  ASSUME TypeInv, EventInv, ResponseThread
  PROVE  EventInv'
<1> USE DEF TypeInv, TypeOK, ResponseThread, ends, inputs, outputs, sent, half, buffers, AbortResponse, Alive
<1>0. /\ UNCHANGED <<tcpUp, serialUp, sentBySerial, halfSerial>> /\ main = "join" /\ main' \in {main, "ended"}
      /\ response \notin {"none", "exited"} /\ response' # "none" /\ cut \subseteq cut'
  BY DEF CheckResponse, SerialHeader, SerialPayload, Forward
<1> SUFFICES ASSUME "event" \notin cut' PROVE Prefix(toServer, sentBySerial)' /\ ResponseInStep'
  BY <1>0 DEF EventInv
<1>1. /\ Prefix(toServer, sentBySerial) /\ (~serialUp => ~halfSerial)
      /\ tcpUp => InStep(fromSerial, sentBySerial, halfSerial, Len(toServer), Read(response))
      /\ tcpUp /\ response = "forward" => /\ Len(toServer) + 1 \in DOMAIN sentBySerial
                                          /\ data = sentBySerial[Len(toServer) + 1]
  BY <1>0 DEF EventInv, ResponseInStep
<1>2. /\ fromSerial \in Seq(Parts(Evt)) /\ sentBySerial \in Seq(Evt) /\ halfSerial \in BOOLEAN
      /\ toServer \in Seq(Evt \cup {Garbage}) /\ Len(toServer) \in Nat
      /\ data \in Evt \cup {Garbage}
  BY LenProperties DEF InputsOK, SentOK, EndsOK, OutputsOK, ThreadsOK
<1>3. CASE response' = "exited" \/ ~tcpUp
  <2>1. toServer' = toServer
    BY <1>3 DEF CheckResponse, SerialHeader, SerialPayload, Forward
  <2> QED  BY <1>0, <1>1, <1>3, <2>1 DEF ResponseInStep
<1> SUFFICES ASSUME response' # "exited", tcpUp
             PROVE  Prefix(toServer, sentBySerial)' /\ ResponseInStep'
  BY <1>3
<1>4. CASE CheckResponse
  <2>1. UNCHANGED <<fromSerial, toServer>> /\ response = "check" /\ response' = "header"
    BY <1>4 DEF CheckResponse
  <2> QED  BY <1>0, <1>1, <2>1 DEF ResponseInStep, Read
<1>5. CASE SerialHeader
  <2>1. response = "header" /\ toServer' = toServer  BY <1>5 DEF SerialHeader
  <2>2. InStep(fromSerial, sentBySerial, halfSerial, Len(toServer), 0)
    BY <1>1, <2>1 DEF Read
  <2>3. CASE fromSerial # <<>>
    <3>1. response' = "payload" /\ fromSerial' = Tail(fromSerial)
      BY <1>5, <2>3 DEF SerialHeader
    <3>2. InStep(Tail(fromSerial), sentBySerial, halfSerial, Len(toServer), 1)
      BY <1>2, <2>2, <2>3, FirstInStep
    <3> QED  BY <1>0, <1>1, <2>1, <3>1, <3>2 DEF ResponseInStep, Read
  <2>4. CASE fromSerial = <<>>
    <3>1. response' = "check" /\ fromSerial' = fromSerial
      BY <1>5, <2>4 DEF SerialHeader
    <3> QED  BY <1>0, <1>1, <2>1, <2>2, <3>1 DEF ResponseInStep, Read
  <2> QED  BY <2>3, <2>4
<1>6. CASE SerialPayload
  <2>1. response = "payload" /\ toServer' = toServer  BY <1>6 DEF SerialPayload
  <2>2. InStep(fromSerial, sentBySerial, halfSerial, Len(toServer), 1)
    BY <1>1, <2>1 DEF Read
  <2>3. fromSerial # <<>> /\ response' = "forward" /\ fromSerial' = Tail(fromSerial)
        /\ data' = Head(fromSerial).msg
    BY <1>6 DEF SerialPayload
  <2>4. /\ InStep(Tail(fromSerial), sentBySerial, halfSerial, Len(toServer), 2)
        /\ Len(toServer) + 1 \in DOMAIN sentBySerial
        /\ Head(fromSerial).msg = sentBySerial[Len(toServer) + 1]
    BY <1>2, <2>2, <2>3, SecondInStep
  <2> QED  BY <1>0, <1>1, <2>1, <2>3, <2>4 DEF ResponseInStep, Read
<1>7. CASE Forward
  <2>1. /\ response = "forward" /\ response' = "check" /\ fromSerial' = fromSerial
        /\ toServer' = Append(toServer, data)
    BY <1>7 DEF Forward
  <2>2. Len(toServer) + 1 \in DOMAIN sentBySerial /\ data = sentBySerial[Len(toServer) + 1]
    BY <1>1, <2>1
  <2>3. /\ Len(toServer') = Len(toServer) + 1
        /\ DOMAIN toServer' = 1 .. Len(toServer) + 1 /\ DOMAIN toServer = 1 .. Len(toServer)
        /\ \A i \in 1 .. Len(toServer) : toServer'[i] = toServer[i]
        /\ toServer'[Len(toServer) + 1] = data
    BY <1>2, <2>1, AppendProperties, LenProperties
  <2>4. Prefix(toServer, sentBySerial)'
    <3>1. Len(toServer') <= Len(sentBySerial)  BY <1>2, <2>2, <2>3, LenProperties
    <3>2. ASSUME NEW i \in 1 .. Len(toServer) + 1 PROVE toServer'[i] = sentBySerial[i]
      <4>1. CASE i \in 1 .. Len(toServer)  BY <1>1, <2>3, <4>1 DEF Prefix
      <4>2. CASE i = Len(toServer) + 1  BY <2>2, <2>3, <4>2
      <4> QED  BY <1>2, <4>1, <4>2
    <3> QED  BY <1>0, <2>3, <3>1, <3>2 DEF Prefix
  <2>5. InStep(fromSerial, sentBySerial, halfSerial, Len(toServer'), 0)
    <3>1. InStep(fromSerial, sentBySerial, halfSerial, Len(toServer), 2)
      BY <1>1, <2>1 DEF Read
    <3> QED  BY <1>2, <2>3, <3>1, NextInStep
  <2> QED  BY <1>0, <2>1, <2>4, <2>5 DEF ResponseInStep, Read
<1> QED  BY <1>4, <1>5, <1>6, <1>7

\* The dongle.
LEMMA EventsDongle ==
  ASSUME TypeInv, EventInv, (\E m \in Evt : DongleHeader(m)) \/ DonglePayload \/ Unplug
  PROVE  EventInv'
<1> USE DEF TypeInv, TypeOK, ends, inputs, outputs, sent, half, buffers, threads
<1>0. UNCHANGED <<toServer, data, main, response, tcpUp>> /\ serialUp /\ cut \subseteq cut'
  BY DEF DongleHeader, DonglePayload, Unplug
<1> SUFFICES ASSUME "event" \notin cut'
             PROVE  Prefix(toServer, sentBySerial)' /\ ResponseInStep' /\ (~serialUp' => ~halfSerial')
  BY <1>0 DEF EventInv
<1>1. Prefix(toServer, sentBySerial) /\ ResponseInStep  BY <1>0 DEF EventInv
<1>2. /\ fromSerial \in Seq(Parts(Evt)) /\ sentBySerial \in Seq(Evt) /\ halfSerial \in BOOLEAN
      /\ toServer \in Seq(Evt \cup {Garbage}) /\ Len(toServer) \in Nat
      /\ Read(response) \in Nat
  BY LenProperties DEF InputsOK, SentOK, EndsOK, OutputsOK, Read
<1>3. ASSUME NEW m \in Evt, DongleHeader(m)
      PROVE  Prefix(toServer, sentBySerial)' /\ ResponseInStep' /\ (~serialUp' => ~halfSerial')
  <2>1. /\ ~halfSerial /\ halfSerial' = TRUE /\ serialUp' = serialUp
        /\ fromSerial' = Append(fromSerial, Part("header", m)) /\ sentBySerial' = Append(sentBySerial, m)
    BY <1>3 DEF DongleHeader
  <2>2. /\ Len(sentBySerial') = Len(sentBySerial) + 1 /\ DOMAIN sentBySerial' = 1 .. Len(sentBySerial) + 1
        /\ Len(sentBySerial) \in Nat /\ DOMAIN sentBySerial = 1 .. Len(sentBySerial)
        /\ \A k \in 1 .. Len(sentBySerial) : sentBySerial'[k] = sentBySerial[k]
    BY <1>2, <2>1, AppendProperties, LenProperties
  <2>3. Prefix(toServer, sentBySerial)'
    <3>1. DOMAIN toServer = 1 .. Len(toServer)  BY <1>2, LenProperties
    <3>2. Len(toServer) <= Len(sentBySerial')  BY <1>1, <1>2, <2>2 DEF Prefix
    <3>3. \A i \in DOMAIN toServer : i \in 1 .. Len(sentBySerial)  BY <1>1, <1>2, <2>2, <3>1 DEF Prefix
    <3> QED  BY <1>0, <1>1, <2>2, <3>2, <3>3 DEF Prefix
  <2>4. ResponseInStep'
    <3> SUFFICES ASSUME response # "exited", tcpUp \/ response = "none" PROVE ResponseInStep'
      BY <1>0 DEF ResponseInStep
    <3>1. InStep(fromSerial, sentBySerial, FALSE, Len(toServer), Read(response))
      BY <1>1, <1>2, <2>1 DEF ResponseInStep
    <3>2. InStep(fromSerial', sentBySerial', halfSerial', Len(toServer), Read(response))
      BY <1>2, <1>3, <2>1, <3>1, HeaderInStep
    <3>3. response = "forward" => /\ Len(toServer) + 1 \in DOMAIN sentBySerial'
                                  /\ data = sentBySerial'[Len(toServer) + 1]
      BY <1>1, <1>2, <2>2 DEF ResponseInStep
    <3> QED  BY <1>0, <3>2, <3>3 DEF ResponseInStep
  <2> QED  BY <1>0, <2>1, <2>3, <2>4
<1>4. CASE DonglePayload
  <2>1. /\ halfSerial = TRUE /\ halfSerial' = FALSE /\ sentBySerial' = sentBySerial
        /\ fromSerial' = Append(fromSerial, Part("payload", sentBySerial[Len(sentBySerial)]))
    BY <1>2, <1>4 DEF DonglePayload
  <2>2. sentBySerial # <<>>  BY <2>1 DEF Begun
  <2>3. ResponseInStep'
    <3> SUFFICES ASSUME response # "exited", tcpUp \/ response = "none" PROVE ResponseInStep'
      BY <1>0 DEF ResponseInStep
    <3>1. InStep(fromSerial, sentBySerial, TRUE, Len(toServer), Read(response))
      BY <1>1, <2>1 DEF ResponseInStep
    <3>2. InStep(fromSerial', sentBySerial, halfSerial', Len(toServer), Read(response))
      BY <1>2, <2>1, <2>2, <3>1, PayloadInStep
    <3> QED  BY <1>0, <1>1, <2>1, <3>2 DEF ResponseInStep
  <2> QED  BY <1>0, <1>1, <2>1, <2>3
<1>5. CASE Unplug
  <2>1. ~halfSerial /\ UNCHANGED <<halfSerial, fromSerial, sentBySerial>>
    BY <1>5 DEF Unplug
  <2> QED  BY <1>0, <1>1, <2>1 DEF ResponseInStep
<1> QED  BY <1>3, <1>4, <1>5

\* The response thread starts with the first message that the dongle sent, before it was connected
\* or after.
LEMMA EventsConnect ==
  ASSUME EventInv, Connect
  PROVE  EventInv'
<1>1. /\ UNCHANGED <<serialUp, halfSerial, fromSerial, sentBySerial, toServer, cut>>
      /\ response = "none" /\ response' \in {"none", "check"} /\ main' # "connect"
  BY DEF Connect, inputs, sent, half, EventInv
<1> SUFFICES ASSUME "event" \notin cut PROVE ResponseInStep'
  BY <1>1 DEF EventInv
<1>2. InStep(fromSerial, sentBySerial, halfSerial, Len(toServer), 0)
  BY <1>1 DEF EventInv, ResponseInStep, Read
<1> QED  BY <1>1, <1>2 DEF ResponseInStep, Read

LEMMA EventsStep ==
  ASSUME TypeInv, EventInv, [Next]_vars
  PROVE  EventInv'
<1>1. CASE \/ ConnectFails \/ Join \/ Killed \/ CommandThread \/ ServerPayload \/ ServerCloses
           \/ \E m \in Cmd : ServerHeader(m)
           \/ UNCHANGED vars
  <2> USE DEF vars, ends, inputs, outputs, sent, half, buffers, threads
  <2>1. /\ UNCHANGED <<serialUp, halfSerial, fromSerial, sentBySerial, toServer, data, response>>
        /\ main' \in {main, "ended"}
    BY <1>1 DEF ConnectFails, Join, Killed, CommandThread, CheckCommand, ReadHeader, ReadPayload,
                Execute, AbortCommand, ServerPayload, ServerCloses, ServerHeader
  <2>2. (tcpUp' => tcpUp) /\ cut \subseteq cut'
    BY <1>1 DEF ConnectFails, Join, Killed, CommandThread, CheckCommand, ReadHeader, ReadPayload,
                Execute, ServerPayload, ServerCloses, ServerHeader
  <2> QED  BY <2>1, <2>2, EventsKept
<1> QED  BY <1>1, EventsResponseThread, EventsDongle, EventsConnect DEF Next, Over

\* The gateway receives what the dongle sent, each message once and in order, as long as no payload
\* is later than the serial line's timeout: the message that the response thread holds when it sends
\* is the first that the gateway has not got.
THEOREM EventsInOrder == Spec => []EventsCarried
<1>1. EventInv => EventsCarried  BY DEF EventInv, EventsCarried
<1> QED  BY <1>1, TypeAlways, InitEvents, EventsStep, PTL DEF Spec
=============================================================================
