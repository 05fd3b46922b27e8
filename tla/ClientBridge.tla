---------------------------- MODULE ClientBridge ----------------------------
(***************************************************************************)
(* The client process of one dongle (BLEGatewayClient): one thread carries *)
(* commands from the gateway's TCP connection to the serial line, another  *)
(* one responses and events from the serial line to the gateway.  They     *)
(* share a flag, abort_cmd, that each sets when it fails and reads between *)
(* two messages.                                                           *)
(*                                                                         *)
(* A message is a header followed by a payload; both may be under way for  *)
(* any time, and either end may vanish between the two.                    *)
(***************************************************************************)
EXTENDS Integers, Sequences

CONSTANTS
  Cmd, Evt,    \* what the gateway sends, what the dongle sends
  Garbage,     \* bytes that are no message
  MaxSent,     \* bound on the messages from each end
  MaxRetry     \* CONNECTION_RETRY

ASSUME GarbageAssumption == Garbage \notin Cmd \cup Evt \cup {"end_procedure"}
ASSUME BoundsAssumption == MaxSent \in Nat /\ MaxRetry \in Nat

VARIABLES
  tcpUp, serialUp,            \* the other ends
  fromServer, fromSerial,     \* parts of messages, not yet read
  toSerial, toServer,         \* messages written
  halfServer, halfSerial,     \* an end has sent a header and not yet its payload
  sentByServer, sentBySerial, \* history: messages sent, also if only begun
  abort_cmd, retry,
  main, command, response,    \* where each thread is
  data_b, data,               \* the threads' buffers: the last payload read into each
  cut                         \* history: the directions in which a payload did not follow its
                              \* header, or not within the timeout

ends == <<tcpUp, serialUp>>
inputs == <<fromServer, fromSerial>>
outputs == <<toSerial, toServer>>
sent == <<sentByServer, sentBySerial>>
half == <<halfServer, halfSerial>>
threads == <<main, command, response>>
buffers == <<data_b, data>>
vars == <<ends, inputs, outputs, sent, half, buffers, abort_cmd, retry, main, command, response, cut>>

Part(kind, m) == [kind |-> kind, msg |-> m]

Init ==
  /\ tcpUp = FALSE /\ serialUp = TRUE
  /\ fromServer = <<>> /\ fromSerial = <<>> /\ toSerial = <<>> /\ toServer = <<>>
  /\ halfServer = FALSE /\ halfSerial = FALSE
  /\ sentByServer = <<>> /\ sentBySerial = <<>>
  /\ abort_cmd = FALSE /\ retry = 0
  /\ main = "connect" /\ command = "none" /\ response = "none"
  /\ data_b = Garbage /\ data = Garbage /\ cut = {}

Running == main \in {"connect", "join"}
Alive(thread) == main = "join" /\ thread \notin {"none", "exited"}

-----------------------------------------------------------------------------
(* The main thread                                                         *)

\* Mutant: one attempt more.
ConnectFailsOnceMore ==
  /\ main = "connect"
  /\ retry' = retry + 1
  /\ main' = IF retry > MaxRetry THEN "ended" ELSE main
  /\ UNCHANGED <<ends, inputs, outputs, sent, half, buffers, abort_cmd, command, response, cut>>
ConnectFails ==
  /\ main = "connect"
  /\ retry' = retry + 1
  /\ main' = IF retry' > MaxRetry THEN "ended" ELSE main
  /\ UNCHANGED <<ends, inputs, outputs, sent, half, buffers, abort_cmd, command, response, cut>>

\* Connected: a discovery the dongle may still run is ended, then the threads start.  If
\* the line fails first the main thread ends, and the process with it.
Connect ==
  /\ main = "connect"
  /\ tcpUp' = TRUE
  /\ \/ /\ serialUp
        /\ toSerial' = << "end_procedure" >>
        /\ main' = "join" /\ command' = "check" /\ response' = "check"
     \/ ~serialUp /\ main' = "ended" /\ UNCHANGED <<toSerial, command, response>>
  /\ UNCHANGED <<serialUp, inputs, toServer, sent, half, buffers, abort_cmd, retry, cut>>

Join ==
  /\ main = "join" /\ command = "exited" /\ response = "exited"
  /\ main' = "ended"
  /\ UNCHANGED <<ends, inputs, outputs, sent, half, buffers, abort_cmd, retry, command, response, cut>>

-----------------------------------------------------------------------------
(* The command thread                                                      *)

\* The thread sets the flag and exits.
AbortCommand == command' = "exited" /\ abort_cmd' = TRUE

CheckCommand ==
  /\ Alive(command) /\ command = "check"
  /\ command' = IF abort_cmd THEN "exited" ELSE "header"
  /\ UNCHANGED <<ends, inputs, outputs, sent, half, buffers, abort_cmd, retry, main, response, cut>>

\* read() blocks until there is something to read, or the server has closed.
ReadHeader ==
  /\ Alive(command) /\ command = "header"
  /\ \/ /\ fromServer # <<>>
        /\ fromServer' = Tail(fromServer)
        /\ command' = "payload" /\ UNCHANGED abort_cmd
     \/ /\ fromServer = <<>> /\ ~tcpUp
        /\ AbortCommand /\ UNCHANGED fromServer
  /\ UNCHANGED <<ends, fromSerial, outputs, sent, half, buffers, retry, main, response, cut>>

\* Mutant: the payload is not read into the buffer.
ReadPayloadElsewhere ==
  /\ Alive(command) /\ command = "payload" /\ fromServer # <<>>
  /\ fromServer' = Tail(fromServer)
  /\ data_b' = IF data_b = Garbage THEN Head(fromServer).msg ELSE data_b
  /\ command' = "execute"
  /\ UNCHANGED <<ends, fromSerial, outputs, sent, half, data, abort_cmd, retry, main, response, cut>>
\* The end of the connection in place of the payload is not told from a payload: the buffer
\* keeps what the stack held, garbage or the last command that was there.
ReadPayload ==
  /\ Alive(command) /\ command = "payload"
  /\ \/ /\ fromServer # <<>>
        /\ fromServer' = Tail(fromServer)
        /\ data_b' = Head(fromServer).msg
     \/ /\ fromServer = <<>> /\ ~tcpUp
        /\ data_b' \in {data_b, Garbage}
        /\ UNCHANGED fromServer
  /\ command' = "execute"
  /\ UNCHANGED <<ends, fromSerial, outputs, sent, half, data, abort_cmd, retry, main, response, cut>>

\* decode_incoming_tcp_message: the command goes to the dongle; garbage is dropped.
Execute ==
  /\ Alive(command) /\ command = "execute"
  /\ \/ /\ data_b # Garbage /\ serialUp
        /\ toSerial' = Append(toSerial, data_b)
        /\ command' = "check" /\ UNCHANGED abort_cmd
     \/ /\ data_b # Garbage /\ ~serialUp
        /\ AbortCommand /\ UNCHANGED toSerial
     \/ /\ data_b = Garbage
        /\ command' = "check" /\ UNCHANGED <<abort_cmd, toSerial>>
  /\ UNCHANGED <<ends, inputs, toServer, sent, half, buffers, retry, main, response, cut>>

-----------------------------------------------------------------------------
(* The response thread                                                     *)

AbortResponse == response' = "exited" /\ abort_cmd' = TRUE

CheckResponse ==
  /\ Alive(response) /\ response = "check"
  /\ response' = IF abort_cmd THEN "exited" ELSE "header"
  /\ UNCHANGED <<ends, inputs, outputs, sent, half, buffers, abort_cmd, retry, main, command, cut>>

\* Mutant: reading the serial line blocks until something comes.
SerialHeaderBlocks ==
  /\ Alive(response) /\ response = "header" /\ fromSerial # <<>>
  /\ fromSerial' = Tail(fromSerial)
  /\ response' = "payload"
  /\ UNCHANGED <<ends, fromServer, outputs, sent, half, buffers, abort_cmd, retry, main, command, cut>>
\* A header; a payload in its place, which denotes no message; nothing for 1 s, as after a
\* hang-up; or an error of the line.
SerialHeader ==
  /\ Alive(response) /\ response = "header"
  /\ \/ /\ fromSerial # <<>>
        /\ fromSerial' = Tail(fromSerial)
        /\ \/ /\ Head(fromSerial).kind = "header"
              /\ response' = "payload" /\ UNCHANGED abort_cmd
           \/ /\ Head(fromSerial).kind = "payload"
              /\ AbortResponse
     \/ /\ fromSerial = <<>>
        /\ response' = "check" /\ UNCHANGED <<abort_cmd, fromSerial>>
     \/ /\ fromSerial = <<>> /\ ~serialUp
        /\ AbortResponse /\ UNCHANGED fromSerial
  /\ UNCHANGED <<ends, fromServer, outputs, sent, half, buffers, retry, main, command, cut>>

\* A payload that does not come within 1 s is not told from one that does.
SerialPayload ==
  /\ Alive(response) /\ response = "payload"
  /\ \/ /\ fromSerial # <<>>
        /\ fromSerial' = Tail(fromSerial)
        /\ data' = Head(fromSerial).msg
        /\ response' = "forward" /\ UNCHANGED <<abort_cmd, cut>>
     \/ /\ fromSerial = <<>>
        /\ data' \in {data, Garbage}
        /\ cut' = cut \cup {"event"}
        /\ response' = "forward" /\ UNCHANGED <<abort_cmd, fromSerial>>
     \/ /\ fromSerial = <<>> /\ ~serialUp
        /\ AbortResponse /\ UNCHANGED <<data, fromSerial, cut>>
  /\ UNCHANGED <<ends, fromServer, outputs, sent, half, data_b, retry, main, command>>

\* Mutant: the message is sent again after a successful send.
ForwardAgain ==
  /\ Alive(response) /\ response = "forward"
  /\ \/ /\ toServer' = IF tcpUp THEN Append(toServer, data) ELSE toServer
        /\ response' \in {"check", "forward"}
        /\ Len(toServer) <= MaxSent
        /\ UNCHANGED <<abort_cmd, main>>
     \/ ~tcpUp /\ AbortResponse /\ UNCHANGED <<toServer, main>>
  /\ UNCHANGED <<ends, inputs, toSerial, sent, half, buffers, retry, command, cut>>
\* The callback packs the message and sends it.  On a connection that the server has closed
\* the first send is taken; a later one raises SIGPIPE, which ends the process, or fails.
Forward ==
  /\ Alive(response) /\ response = "forward"
  /\ \/ /\ toServer' = IF tcpUp THEN Append(toServer, data) ELSE toServer
        /\ response' = "check" /\ UNCHANGED <<abort_cmd, main>>
     \/ ~tcpUp /\ AbortResponse /\ UNCHANGED <<toServer, main>>
     \/ ~tcpUp /\ main' = "ended" /\ UNCHANGED <<toServer, abort_cmd, response>>
  /\ UNCHANGED <<ends, inputs, toSerial, sent, half, buffers, retry, command, cut>>

-----------------------------------------------------------------------------
(* The other ends: external                                                *)

\* The gateway's end.  Header and payload are two sends.
ServerHeader(m) ==
  /\ Running /\ tcpUp /\ ~halfServer /\ Len(sentByServer) < MaxSent
  /\ fromServer' = Append(fromServer, Part("header", m))
  /\ sentByServer' = Append(sentByServer, m)
  /\ halfServer' = TRUE
  /\ UNCHANGED <<ends, fromSerial, outputs, sentBySerial, halfSerial, buffers, abort_cmd, retry, threads, cut>>

ServerPayload ==
  /\ Running /\ tcpUp /\ halfServer
  /\ fromServer' = Append(fromServer, Part("payload", sentByServer[Len(sentByServer)]))
  /\ halfServer' = FALSE
  /\ UNCHANGED <<ends, fromSerial, outputs, sent, halfSerial, buffers, abort_cmd, retry, threads, cut>>

ServerCloses ==
  /\ Running /\ tcpUp
  /\ tcpUp' = FALSE
  /\ cut' = IF halfServer THEN cut \cup {"command"} ELSE cut
  /\ UNCHANGED <<serialUp, inputs, outputs, sent, half, buffers, abort_cmd, retry, threads>>

\* The dongle's end.
DongleHeader(m) ==
  /\ Running /\ serialUp /\ ~halfSerial /\ Len(sentBySerial) < MaxSent
  /\ fromSerial' = Append(fromSerial, Part("header", m))
  /\ sentBySerial' = Append(sentBySerial, m)
  /\ halfSerial' = TRUE
  /\ UNCHANGED <<ends, fromServer, outputs, sentByServer, halfServer, buffers, abort_cmd, retry, threads, cut>>

DonglePayload ==
  /\ Running /\ serialUp /\ halfSerial
  /\ fromSerial' = Append(fromSerial, Part("payload", sentBySerial[Len(sentBySerial)]))
  /\ halfSerial' = FALSE
  /\ UNCHANGED <<ends, fromServer, outputs, sent, halfServer, buffers, abort_cmd, retry, threads, cut>>

Unplug ==
  /\ Running /\ serialUp
  /\ serialUp' = FALSE
  /\ cut' = IF halfSerial THEN cut \cup {"event"} ELSE cut
  /\ UNCHANGED <<tcpUp, inputs, outputs, sent, half, buffers, abort_cmd, retry, threads>>

\* The daemon kills the client of a dongle that was unplugged.
Killed ==
  /\ Running /\ ~serialUp
  /\ main' = "ended"
  /\ UNCHANGED <<ends, inputs, outputs, sent, half, buffers, abort_cmd, retry, command, response, cut>>

Over == main = "ended" /\ UNCHANGED vars

CommandThread == CheckCommand \/ ReadHeader \/ ReadPayload \/ Execute
ResponseThread == CheckResponse \/ SerialHeader \/ SerialPayload \/ Forward

Next == \/ ConnectFails \/ Connect \/ Join \/ CommandThread \/ ResponseThread
        \/ \E m \in Cmd : ServerHeader(m)
        \/ \E m \in Evt : DongleHeader(m)
        \/ ServerPayload \/ ServerCloses \/ DonglePayload \/ Unplug \/ Killed \/ Over

Spec == Init /\ [][Next]_vars

\* The threads keep running, the main thread gives up connecting; nothing is asked of the
\* other ends.
Fairness == /\ WF_vars(CommandThread) /\ WF_vars(ResponseThread)
            /\ WF_vars(Join) /\ WF_vars(ConnectFails \/ Connect)
FairSpec == Spec /\ Fairness

-----------------------------------------------------------------------------
(* Properties                                                              *)

Prefix(s, t) == Len(s) <= Len(t) /\ \A i \in DOMAIN s : s[i] = t[i]

Parts(msgs) == [kind : {"header", "payload"}, msg : msgs]
InputsOK == fromServer \in Seq(Parts(Cmd)) /\ fromSerial \in Seq(Parts(Evt))
OutputsOK == toSerial \in Seq(Cmd \cup {"end_procedure"}) /\ toServer \in Seq(Evt \cup {Garbage})
SentOK == sentByServer \in Seq(Cmd) /\ sentBySerial \in Seq(Evt)
EndsOK == tcpUp \in BOOLEAN /\ serialUp \in BOOLEAN /\ halfServer \in BOOLEAN /\ halfSerial \in BOOLEAN
ThreadsOK ==
  /\ abort_cmd \in BOOLEAN /\ retry \in 0 .. MaxRetry + 1
  /\ main \in {"connect", "join", "ended"}
  /\ command \in {"none", "check", "header", "payload", "execute", "exited"}
  /\ response \in {"none", "check", "header", "payload", "forward", "exited"}
  /\ data_b \in Cmd \cup {Garbage} /\ data \in Evt \cup {Garbage}
  /\ cut \subseteq {"command", "event"}

\* Every variable keeps its type, and the threads run only between connect and join.
TypeOK == InputsOK /\ OutputsOK /\ SentOK /\ EndsOK /\ ThreadsOK

\* The dongle executes, after the initial end_procedure, the commands that the gateway sent,
\* each once and in order, whatever happens to the other direction and to the two ends, as
\* long as the gateway does not vanish inside a command: the client then executes what its
\* stack still holds, in the worst case the previous command again.
CommandsCarried ==
  "command" \notin cut => Prefix(toSerial, << "end_procedure" >> \o sentByServer)

\* The gateway receives the dongle's messages, each once and in order: the channel that the
\* gateway's driver relies on.  A payload later than the serial line's timeout breaks it.
EventsCarried == "event" \notin cut => Prefix(toServer, sentBySerial)

\* A gateway that closes the connection, or dies, ends the client: the response thread looks
\* at the flag at least once a second.
ClosedEnds == main = "join" /\ ~tcpUp ~> main = "ended"
=============================================================================
