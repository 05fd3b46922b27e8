------------------------- MODULE BledAnswersProofs -------------------------
(* TLAPS proofs that the driver's commands get their own answers, and act on *)
(* the device they were given, for every set of handles, devices and         *)
(* attributes and every workload.  They assume that responses are in time:   *)
(* BGAPI's responses do not say which command they answer.                   *)
EXTENDS BledDriverProofs, FiniteSetTheorems

-----------------------------------------------------------------------------
(* The inductive invariants                                                *)

\* The commands whose responses nobody tells apart: the dongle never refuses them, and apart
\* from info's two nobody waits for them.  The others are waited for at once.
Plain == {"get_info", "get_connections", "end_procedure", "set_scan_parameters"}
Awaited == {ResponseTo[name] : name \in CommandName \ Plain}

Cmds == {i \in DOMAIN toDongle : toDongle[i].cmd \notin Plain}
Rsps == {i \in DOMAIN fromDongle : fromDongle[i].evt \in Awaited}
AwaitsResponse == pc = "wait" /\ ~eventOccurred /\ Current.send \notin Plain \cup {"none"}

\* The driver does not notice the loss of the client before it has read everything, and the
\* dongle is at rest without its client.
LossInv ==
  /\ isConnected \/ pc \in {"start", "dead"} \/ (~open /\ fromDongle = <<>>)
  /\ ~open => toDongle = <<>> /\ gap = "idle" /\ \A h \in Handle : running[h] = Idle

\* One command at a time: it is under way, or its response is, while the driver waits for it
\* (unless the client took it along); otherwise none is.
CommandAhead == Rsps = {} /\ Cmds = {Len(toDongle)} /\ toDongle[Len(toDongle)] = BleCmd(Current.send)
ResponseAhead ==
  /\ Cmds = {}
  /\ \E k \in DOMAIN fromDongle :
       /\ Rsps = {k}
       /\ fromDongle[k].evt = ResponseTo[Current.send] /\ fromDongle[k].ch = WaitChannel
NoneAhead == Cmds = {} /\ Rsps = {}
AnswerInv == \/ AwaitsResponse /\ (CommandAhead \/ ResponseAhead)
             \/ NoneAhead /\ (AwaitsResponse => ~open)

\* The dongle has accepted the command under way: the response is message k, or (k = 0) has
\* been read, and the driver is on its way to the wait for what follows or in that wait.
AcceptedAt(k) ==
  \/ k = 0 /\ \/ pc = "send" /\ Current.send = "none"
              \/ pc = "wait" /\ ~eventOccurred /\ Current.send = "none"
              \/ pc = "wait" /\ eventOccurred /\ errorCode = Ok
                 /\ Current.send \notin Plain \cup {"none"}
  \/ AwaitsResponse /\ k \in Rsps /\ fromDongle[k].code = Ok

Later(k, evt) == {i \in DOMAIN fromDongle : i > k /\ fromDongle[i].evt = evt}
Ends(k, h) == {i \in Later(k, "GATT_PROCEDURE_COMPLETE_EVT") : fromDongle[i].ch = h}

\* What follows an accepted command is the command's own: nothing older is under way, the
\* device that connects is the one asked for, and one GATT procedure is to be reported.
ConnectOwn(k) ==
  LET new == Later(k, "GAP_CONNECTION_EVT")
  IN  /\ gap \in {call.mac, "idle"}
      /\ new # {} => gap = "idle"
      /\ \A i \in new : fromDongle[i].arg = call.mac
      /\ \A i, j \in new : i = j
ProcedureOwn(k) ==
  /\ running[call.handle] # Idle => Ends(k, call.handle) = {}
  /\ \A i, j \in Ends(k, call.handle) : i = j
Own(k) ==
  /\ toDongle = <<>>
  /\ call.op = "connect" => ConnectOwn(k)
  /\ call.op \in {"read", "write", "readall"} => ProcedureOwn(k)
Places == {0} \cup DOMAIN fromDongle
AcceptedInv == \A k \in Places : AcceptedAt(k) => Own(k)

Accepted == \E k \in Places : AcceptedAt(k)

\* Who stops the GAP procedure.
Stopping == \E i \in DOMAIN toDongle : toDongle[i].cmd = "end_procedure"
GapInv ==
  gap # "idle" =>
    \/ Stopping
    \/ Accepted /\ call.op \in {"connect", "discover"}
    \/ pc = "wait" /\ eventOccurred /\ errorCode # Ok /\ call.op = "connect" /\ LastStep
    \/ pc = "scan"

\* A connect that was released without an error has seen its device connect.
SoundInv ==
  /\ pc = "scan" => call.op = "discover"
  /\ pc = "wait" /\ eventOccurred /\ errorCode = Ok /\ call.op = "connect" /\ LastStep
       => HandlesOf(call.mac) # {}
  /\ ConnectSound

\* Between two reports of a new connection, a handle keeps its device or loses it.
Conns(h) == {i \in News(h) : fromDongle[i].evt = "GAP_CONNECTION_EVT"}
ChainAt(h) ==
  /\ \A j \in News(h) : (\A c \in Conns(h) : c > j)
                          => fromDongle[j].arg \in {connectedDevices[h], None}
  /\ \A i, j \in News(h) : i < j /\ (\A c \in Conns(h) : c <= i \/ c > j)
                          => fromDongle[j].arg \in {fromDongle[i].arg, None}
  /\ Conns(h) = {} => links[h] \in {connectedDevices[h], None}
  /\ \A i \in News(h) : (\A c \in Conns(h) : c <= i) => links[h] \in {fromDongle[i].arg, None}
Chain == \A h \in Handle : ChainAt(h)

\* No connection is made or reported but for the connect that waits for it.
ConnectionInv ==
  /\ gap \in Mac => Accepted /\ call.op = "connect"
  /\ \A i \in Later(0, "GAP_CONNECTION_EVT") :
       call.op = "connect" /\ \E k \in Places : k < i /\ AcceptedAt(k)

\* A command on a connection still has the device it was given, or none.
TargetInv ==
  /\ OnConnection(call.op) /\ pc \in {"send", "wait"} => connectedDevices[call.handle] \in {call.mac, None}
  /\ ReplyIsForTarget

-----------------------------------------------------------------------------
(* The scripts                                                             *)

\* The responses that are waited for, by name.
LEMMA AwaitedFacts ==
  /\ Awaited = {"GAP_CONNECTION_RSP_EVT", "GAP_DISCOVER_RSP_EVT", "CONNECTION_UPDATE_RSP_EVT",
                "CONNECTION_DISCONNECT_RSP_EVT", "ATTCLIENT_READ_RSP_EVT",
                "ATTCLIENT_WRITE_RSP_EVT", "ATTCLIENT_READGROUP_RSP_EVT",
                "ATTCLIENT_FINDINFO_RSP_EVT"}
  /\ \A name \in CommandName : ResponseTo[name] \in Awaited <=> name \notin Plain
  /\ \A name, other \in CommandName : ResponseTo[name] = ResponseTo[other] => name = other
<1>1. Awaited = {"GAP_CONNECTION_RSP_EVT", "GAP_DISCOVER_RSP_EVT", "CONNECTION_UPDATE_RSP_EVT",
                "CONNECTION_DISCONNECT_RSP_EVT", "ATTCLIENT_READ_RSP_EVT",
                "ATTCLIENT_WRITE_RSP_EVT", "ATTCLIENT_READGROUP_RSP_EVT",
                "ATTCLIENT_FINDINFO_RSP_EVT"}
  BY DEF Awaited, Plain, CommandName, ResponseTo
<1>2. \A name \in CommandName : ResponseTo[name] \in Awaited <=> name \notin Plain
  BY <1>1 DEF Plain, CommandName, ResponseTo
<1>3. \A name, other \in CommandName : ResponseTo[name] = ResponseTo[other] => name = other
  BY DEF CommandName, ResponseTo
<1> QED  BY <1>1, <1>2, <1>3

\* A step that sends a command waits for its response, and for nothing else; the step that
\* sends nothing follows such a step, and waits for no response.
StepShape(op, k) ==
  LET step == Script[op][k]
  IN  /\ step.send \notin Plain \cup {"none"} =>
            step.send \in CommandName /\ step.on = {ResponseTo[step.send]}
      /\ step.send = "none" => step.on \cap Responses = {} /\ k # 1 /\ op \notin {"discover", "info"}
      /\ step.send \in Plain => /\ step.send \in {"get_info", "get_connections"} /\ op = "info"
                              /\ step.on = {ResponseTo[step.send]}
      /\ k + 1 <= Len(Script[op]) /\ Script[op][k + 1].send = "none" =>
            step.send \notin Plain \cup {"none"}
      /\ op = "connect" => IF k = Len(Script[op])
                           THEN step.send = "none" /\ step.on = {"GAP_CONNECTION_EVT"}
                           ELSE step.send = "connect_direct"
      /\ op = "discover" => step.send = "discover" /\ k = Len(Script[op])
      /\ step.send = "discover" => op = "discover"
      /\ step.send = "connect_direct" => op = "connect"
      /\ op \in {"read", "write", "readall"} => step.send \in GattCommand \cup {"none"}
      /\ step.send \in GattCommand => op \in {"read", "write", "readall"}
      /\ "GATT_PROCEDURE_COMPLETE_EVT" \in step.on =>
            step.send = "none" /\ op \in {"read", "write", "readall"}

LEMMA StepShapes ==
  ASSUME NEW op \in Scripted, NEW k \in 1 .. Len(Script[op])
  PROVE  StepShape(op, k)
<1>1. Scripted = {"connect", "update", "disconnect", "read", "write", "readall", "discover", "info"}
  BY DEF Scripted, Script
<1>2. CASE op = "connect"
  <2>1. Script[op] = ConnectScript /\ Len(ConnectScript) = 2  BY <1>2 DEF Script, ConnectScript
  <2>2. k \in {1, 2}  BY <2>1
  <2>3. CASE k = 1
    BY ONLY <1>2, <2>1, <2>3
    DEF ConnectScript, StepShape, Step, ProcedureOver, Plain, CommandName, GattCommand, ResponseTo, Responses
  <2>4. CASE k = 2
    BY ONLY <1>2, <2>1, <2>4
    DEF ConnectScript, StepShape, Step, ProcedureOver, Plain, CommandName, GattCommand, ResponseTo, Responses
  <2> QED  BY <2>2, <2>3, <2>4
<1>3. CASE op = "update"
  <2>1. Script[op] = UpdateScript /\ Len(UpdateScript) = 2  BY <1>3 DEF Script, UpdateScript
  <2>2. k \in {1, 2}  BY <2>1
  <2>3. CASE k = 1
    BY ONLY <1>3, <2>1, <2>3
    DEF UpdateScript, StepShape, Step, ProcedureOver, Plain, CommandName, GattCommand, ResponseTo, Responses
  <2>4. CASE k = 2
    BY ONLY <1>3, <2>1, <2>4
    DEF UpdateScript, StepShape, Step, ProcedureOver, Plain, CommandName, GattCommand, ResponseTo, Responses
  <2> QED  BY <2>2, <2>3, <2>4
<1>4. CASE op = "disconnect"
  <2>1. Script[op] = DisconnectScript /\ Len(DisconnectScript) = 2  BY <1>4 DEF Script, DisconnectScript
  <2>2. k \in {1, 2}  BY <2>1
  <2>3. CASE k = 1
    BY ONLY <1>4, <2>1, <2>3
    DEF DisconnectScript, StepShape, Step, ProcedureOver, Plain, CommandName, GattCommand, ResponseTo, Responses
  <2>4. CASE k = 2
    BY ONLY <1>4, <2>1, <2>4
    DEF DisconnectScript, StepShape, Step, ProcedureOver, Plain, CommandName, GattCommand, ResponseTo, Responses
  <2> QED  BY <2>2, <2>3, <2>4
<1>5. CASE op = "read"
  <2>1. Script[op] = ReadScript /\ Len(ReadScript) = 4  BY <1>5 DEF Script, ReadScript
  <2>2. k \in {1, 2, 3, 4}  BY <2>1
  <2>3. CASE k = 1
    BY ONLY <1>5, <2>1, <2>3
    DEF ReadScript, StepShape, Step, ProcedureOver, Plain, CommandName, GattCommand, ResponseTo, Responses
  <2>4. CASE k = 2
    BY ONLY <1>5, <2>1, <2>4
    DEF ReadScript, StepShape, Step, ProcedureOver, Plain, CommandName, GattCommand, ResponseTo, Responses
  <2>5. CASE k = 3
    BY ONLY <1>5, <2>1, <2>5
    DEF ReadScript, StepShape, Step, ProcedureOver, Plain, CommandName, GattCommand, ResponseTo, Responses
  <2>6. CASE k = 4
    BY ONLY <1>5, <2>1, <2>6
    DEF ReadScript, StepShape, Step, ProcedureOver, Plain, CommandName, GattCommand, ResponseTo, Responses
  <2> QED  BY <2>2, <2>3, <2>4, <2>5, <2>6
<1>6. CASE op = "write"
  <2>1. Script[op] = WriteScript /\ Len(WriteScript) = 2  BY <1>6 DEF Script, WriteScript
  <2>2. k \in {1, 2}  BY <2>1
  <2>3. CASE k = 1
    BY ONLY <1>6, <2>1, <2>3
    DEF WriteScript, StepShape, Step, ProcedureOver, Plain, CommandName, GattCommand, ResponseTo, Responses
  <2>4. CASE k = 2
    BY ONLY <1>6, <2>1, <2>4
    DEF WriteScript, StepShape, Step, ProcedureOver, Plain, CommandName, GattCommand, ResponseTo, Responses
  <2> QED  BY <2>2, <2>3, <2>4
<1>7. CASE op = "readall"
  <2>1. Script[op] = ReadAllScript /\ Len(ReadAllScript) = 4  BY <1>7 DEF Script, ReadAllScript
  <2>2. k \in {1, 2, 3, 4}  BY <2>1
  <2>3. CASE k = 1
    BY ONLY <1>7, <2>1, <2>3
    DEF ReadAllScript, StepShape, Step, ProcedureOver, Plain, CommandName, GattCommand, ResponseTo, Responses
  <2>4. CASE k = 2
    BY ONLY <1>7, <2>1, <2>4
    DEF ReadAllScript, StepShape, Step, ProcedureOver, Plain, CommandName, GattCommand, ResponseTo, Responses
  <2>5. CASE k = 3
    BY ONLY <1>7, <2>1, <2>5
    DEF ReadAllScript, StepShape, Step, ProcedureOver, Plain, CommandName, GattCommand, ResponseTo, Responses
  <2>6. CASE k = 4
    BY ONLY <1>7, <2>1, <2>6
    DEF ReadAllScript, StepShape, Step, ProcedureOver, Plain, CommandName, GattCommand, ResponseTo, Responses
  <2> QED  BY <2>2, <2>3, <2>4, <2>5, <2>6
<1>8. CASE op = "discover"
  <2>1. Script[op] = DiscoverScript /\ Len(DiscoverScript) = 1  BY <1>8 DEF Script, DiscoverScript
  <2>2. k \in {1}  BY <2>1
  <2>3. CASE k = 1
    BY ONLY <1>8, <2>1, <2>3
    DEF DiscoverScript, StepShape, Step, ProcedureOver, Plain, CommandName, GattCommand, ResponseTo, Responses
  <2> QED  BY <2>2, <2>3
<1>9. CASE op = "info"
  <2>1. Script[op] = InfoScript /\ Len(InfoScript) = 2  BY <1>9 DEF Script, InfoScript
  <2>2. k \in {1, 2}  BY <2>1
  <2>3. CASE k = 1
    BY ONLY <1>9, <2>1, <2>3
    DEF InfoScript, StepShape, Step, ProcedureOver, Plain, CommandName, GattCommand, ResponseTo, Responses
  <2>4. CASE k = 2
    BY ONLY <1>9, <2>1, <2>4
    DEF InfoScript, StepShape, Step, ProcedureOver, Plain, CommandName, GattCommand, ResponseTo, Responses
  <2> QED  BY <2>2, <2>3, <2>4
<1> QED  BY <1>1, <1>2, <1>3, <1>4, <1>5, <1>6, <1>7, <1>8, <1>9

\* The same of the step that the running command is at.
LEMMA CurrentShape ==
  ASSUME CallOK, pc \in {"send", "wait"}
  PROVE  /\ Current.send \notin Plain \cup {"none"} =>
              Current.send \in CommandName /\ Current.on = {ResponseTo[Current.send]}
         /\ Current.send = "none" =>
              Current.on \cap Responses = {} /\ call.op \notin {"discover", "info"}
         /\ Current.send \in Plain => /\ Current.send \in {"get_info", "get_connections"}
                                     /\ Current.on = {ResponseTo[Current.send]} /\ call.op = "info"
         /\ call.op = "connect" => IF LastStep
                                   THEN Current.send = "none" /\ Current.on = {"GAP_CONNECTION_EVT"}
                                   ELSE Current.send = "connect_direct"
         /\ call.op = "discover" => Current.send = "discover" /\ LastStep
         /\ Current.send = "discover" => call.op = "discover"
         /\ Current.send = "connect_direct" => call.op = "connect"
         /\ call.op \in {"read", "write", "readall"} => Current.send \in GattCommand \cup {"none"}
         /\ Current.send \in GattCommand => call.op \in {"read", "write", "readall"}
         /\ "GATT_PROCEDURE_COMPLETE_EVT" \in Current.on =>
              Current.send = "none" /\ call.op \in {"read", "write", "readall"}
<1>1. StepShape(call.op, call.step)  BY StepShapes DEF CallOK
<1> QED  BY ONLY <1>1 DEF StepShape, Current, LastStep

\* While a command runs on, its step and its commands are the same.
LEMMA SameStep ==
  ASSUME call' = call
  PROVE  /\ Current' = Current /\ WaitChannel' = WaitChannel /\ (LastStep' <=> LastStep)
         /\ \A name : BleCmd(name)' = BleCmd(name)
BY DEF Current, WaitChannel, LastStep, OnConnection, BleCmd

-----------------------------------------------------------------------------
(* The loss of the client                                                  *)

LEMMA LossStep ==
  ASSUME TypeOK, LossInv, [Next]_vars
  PROVE  LossInv'
<1>1. CASE Construct  BY <1>1 DEF Construct, Transmit, LossInv, channel, dongle
<1>2. CASE Send
  BY <1>2 DEF Send, Transmit, LossInv, channel, dongle
<1>3. CASE SendThrows \/ PollTimesOut \/ WaitFails \/ NextStep \/ WorkerEnds
  BY <1>3 DEF SendThrows, PollTimesOut, WaitFails, NextStep, WorkerEnds, Return, WaitOver,
              LossInv, channel, dongle
<1>4. CASE Receive  BY <1>4 DEF Receive, Reading, LossInv, dongle
<1>5. CASE ReceiveEof  BY <1>5 DEF ReceiveEof, Reading, LossInv, channel, dongle
<1>6. CASE WaitTimesOut  BY <1>6 DEF WaitTimesOut, LossInv, channel, dongle
<1>7. CASE ConnectFails \/ ScanEnds
  BY <1>7 DEF ConnectFails, ScanEnds, Transmit, Return, WaitOver, LossInv, channel, dongle
<1>8. CASE Complete  BY <1>8 DEF Complete, Return, WaitOver, LossInv, channel, dongle
<1>9. CASE Request
  <2>1. UNCHANGED <<channel, dongle, isConnected>>
    BY <1>9 DEF Request, StartOnConnection, AnswerAtOnce, StartConnect, StartGlobal, Start
  <2>2. isConnected
    BY <1>9 DEF Request, StartOnConnection, AnswerAtOnce, StartConnect, StartGlobal, Accept
  <2> QED  BY <2>1, <2>2 DEF LossInv, channel, dongle
<1>10. CASE Poll \/ ProcessDies  BY <1>10 DEF Poll, ProcessDies, LossInv, channel, dongle
<1>11. CASE DongleExecutes  BY <1>11 DEF DongleExecutes, LossInv
<1>12. CASE Spontaneous
  BY <1>12 DEF Spontaneous, Establish, Drop, ParametersChange, ProcedureEnds, Notify, ScanReport,
               Emit, LossInv
<1>13. CASE ClientDies  BY <1>13 DEF ClientDies, LossInv, TypeOK, ChannelsOK
<1>14. CASE Over \/ UNCHANGED vars  BY <1>14 DEF Over, vars, LossInv, channel, dongle
<1> QED
  BY <1>1, <1>2, <1>3, <1>4, <1>5, <1>6, <1>7, <1>8, <1>9, <1>10, <1>11, <1>12, <1>13, <1>14
  DEF Next, Work

\* A wait gives up on a response in time only when the client and all messages are gone.
LEMMA GivesUp ==
  ASSUME TypeOK, LossInv, RegisterDiscipline, WaitTimesOut
  PROVE  /\ Current.on \cap MayTimeOut = {} => ~open /\ fromDongle = <<>>
         /\ eventOccurred' /\ errorCode' = TimedOut
<1>1. completionEventRegister = {[ce |-> Current.on, ch |-> WaitChannel]}
  BY DEF WaitTimesOut, RegisterDiscipline
<1>2. Current.on # {}  BY CurrentFacts DEF WaitTimesOut, TypeOK
<1> DEFINE mine == [ce |-> Current.on, ch |-> WaitChannel]
<1>3. mine \in completionEventRegister /\ Awaits(mine, Current.on, WaitChannel)
  BY <1>1, <1>2 DEF Awaits
<1>4. {entry \in completionEventRegister : Awaits(entry, Current.on, WaitChannel)} # {}
  BY <1>3
<1> QED  BY <1>4 DEF WaitTimesOut, Post, LossInv

-----------------------------------------------------------------------------
(* Messages that come and go                                               *)

LEMMA Queued ==
  ASSUME TypeOK, NEW e \in Message, fromDongle' = Append(fromDongle, e)
  PROVE  /\ Len(fromDongle) \in Nat
         /\ DOMAIN fromDongle = 1 .. Len(fromDongle)
         /\ DOMAIN fromDongle' = 1 .. Len(fromDongle) + 1
         /\ fromDongle'[Len(fromDongle) + 1] = e
         /\ \A i \in 1 .. Len(fromDongle) : fromDongle'[i] = fromDongle[i]
BY DEF TypeOK, ChannelsOK

\* What the dongle reports of its own is no response, and tells what it has done: only a
\* report of a new connection ends the search for it, only a report on a procedure its run.
Emits(e) ==
  /\ open /\ fromDongle' = Append(fromDongle, e) /\ e.evt \notin Responses
  /\ UNCHANGED <<open, toDongle, connectedDevices, pc, call, result, eventOccurred, errorCode>>
  /\ \/ /\ e.evt = "GAP_CONNECTION_EVT" /\ gap \in Mac /\ e.arg = gap /\ gap' = "idle"
        /\ links' = [links EXCEPT ![e.ch] = gap]
     \/ /\ e.evt # "GAP_CONNECTION_EVT" /\ gap' = gap
        /\ \/ e.evt = "CONNECTION_DISCONNECT_EVT" /\ links' = [links EXCEPT ![e.ch] = None]
           \/ e.evt = "CONNECTION_UPDATE_EVT" /\ links' = links /\ e.arg = links[e.ch]
           \/ e.evt \notin LinkEvents /\ links' = links
  /\ \/ running' = running /\ e.evt # "GATT_PROCEDURE_COMPLETE_EVT"
     \/ /\ e.ch \in Handle /\ running' = [running EXCEPT ![e.ch] = Idle]
        /\ e.evt = "GATT_PROCEDURE_COMPLETE_EVT" => running[e.ch] # Idle

LEMMA Emitted ==
  ASSUME TypeOK, Spontaneous
  PROVE  \E e \in Message : Emits(e)
<1>0. /\ Handle \subseteq Channel /\ None \in Subject /\ Mac \subseteq Subject
      /\ Attribute \subseteq Subject /\ Ok \in {Ok, DongleError}
      /\ links \in [Handle -> Mac \cup {None}]
  BY DEF Channel, Subject, TypeOK, DongleOK
<1> USE DEF Emit, Emits, devices, wait, dongle, LinkEvents
<1>1. ASSUME NEW h \in Handle, Establish(h) PROVE \E e \in Message : Emits(e)
  <2>1. gap \in Mac  BY <1>1 DEF Establish
  <2>2. Event("GAP_CONNECTION_EVT", h, gap, Ok) \in Message
    BY <1>0, <2>1 DEF Event, Message, CompletionEvent, LinkEvents
  <2>3. Emits(Event("GAP_CONNECTION_EVT", h, gap, Ok))
    BY <1>1 DEF Establish, Event, Responses
  <2> QED  BY <2>2, <2>3
<1>2. ASSUME NEW h \in Handle, Drop(h) PROVE \E e \in Message : Emits(e)
  <2>1. Event("CONNECTION_DISCONNECT_EVT", h, None, Ok) \in Message
    BY <1>0 DEF Event, Message, CompletionEvent, LinkEvents
  <2>2. Emits(Event("CONNECTION_DISCONNECT_EVT", h, None, Ok))
    BY <1>2 DEF Drop, Event, Responses
  <2> QED  BY <2>1, <2>2
<1>3. ASSUME NEW h \in Handle, ParametersChange(h) PROVE \E e \in Message : Emits(e)
  <2>1. links[h] \in Mac  BY <1>0, <1>3 DEF ParametersChange, Linked
  <2>2. Event("CONNECTION_UPDATE_EVT", h, links[h], Ok) \in Message
    BY <1>0, <2>1 DEF Event, Message, CompletionEvent, LinkEvents
  <2>3. Emits(Event("CONNECTION_UPDATE_EVT", h, links[h], Ok))
    BY <1>3 DEF ParametersChange, Event, Responses
  <2> QED  BY <2>2, <2>3
<1>4. ASSUME NEW h \in Handle, ProcedureEnds(h) PROVE \E e \in Message : Emits(e)
  <2>1. running[h].arg \in Subject  BY DEF TypeOK, DongleOK
  <2>2. Event("ATTCLIENT_ATTRIBUTE_FOUND_EVT", h, running[h].arg, Ok) \in Message
    BY <1>0, <2>1 DEF Event, Message, CompletionEvent, LinkEvents, GattEvents
  <2>3. \A code \in {Ok, DongleError} :
          Event("GATT_PROCEDURE_COMPLETE_EVT", h, None, code) \in Message
    BY <1>0 DEF Event, Message, CompletionEvent, LinkEvents, GattEvents
  <2>4. \/ Emits(Event("ATTCLIENT_ATTRIBUTE_FOUND_EVT", h, running[h].arg, Ok))
        \/ \E code \in {Ok, DongleError} : Emits(Event("GATT_PROCEDURE_COMPLETE_EVT", h, None, code))
    BY <1>4 DEF ProcedureEnds, Event, Responses
  <2> QED  BY <2>2, <2>3, <2>4
<1>5. ASSUME NEW h \in Handle, NEW attr \in Attribute, Notify(h, attr)
      PROVE  \E e \in Message : Emits(e)
  <2>1. Event("ATTCLIENT_ATTRIBUTE_FOUND_EVT", h, attr, Ok) \in Message
    BY <1>0 DEF Event, Message, CompletionEvent, LinkEvents, GattEvents
  <2>2. Emits(Event("ATTCLIENT_ATTRIBUTE_FOUND_EVT", h, attr, Ok))
    BY <1>5 DEF Notify, Event, Responses
  <2> QED  BY <2>1, <2>2
<1>6. ASSUME NEW mac \in Mac, ScanReport(mac) PROVE \E e \in Message : Emits(e)
  <2>1. Event("scan_response", 0, mac, Ok) \in Message
    BY <1>0, <1>6 DEF Event, Message, LinkEvents, Channel
  <2>2. Emits(Event("scan_response", 0, mac, Ok))  BY <1>6 DEF ScanReport, Event, Responses
  <2> QED  BY <2>1, <2>2
<1> QED  BY <1>1, <1>2, <1>3, <1>4, <1>5, <1>6 DEF Spontaneous

\* The message that Receive reads, and whether it releases the wait.
First == Head(fromDongle)
Hit == First.evt \in Current.on /\ PostChannel(First) = WaitChannel

LEMMA Read ==
  ASSUME TypeOK, RegisterDiscipline, Receive
  PROVE  /\ Len(fromDongle) \in Nat \ {0} /\ First = fromDongle[1] /\ First \in Message
         /\ DOMAIN fromDongle = 1 .. Len(fromDongle)
         /\ DOMAIN fromDongle' = 1 .. Len(fromDongle) - 1
         /\ \A i \in 1 .. Len(fromDongle) - 1 : fromDongle'[i] = fromDongle[i + 1]
         /\ UNCHANGED <<open, toDongle, links, gap, running, call, result>>
         /\ connectedDevices' = FollowsLinks(First)
         /\ pc # "wait" => pc \in {"poll", "scan"} /\ pc' \in {"idle", "scan"}
                          /\ (pc' = "scan" => pc = "scan")
         /\ pc = "wait" => pc' = "wait" /\ ~eventOccurred
         /\ pc = "scan" => pc' = "scan"
         /\ pc = "wait" /\ Hit => eventOccurred' = TRUE /\ errorCode' = First.code
         /\ pc = "wait" /\ ~Hit => eventOccurred' = FALSE
<1>1. /\ fromDongle \in Seq(Message) /\ fromDongle # <<>> /\ fromDongle' = Tail(fromDongle)
      /\ UNCHANGED <<open, toDongle, links, gap, running, call, result>>
      /\ connectedDevices' = FollowsLinks(First)
  BY DEF Receive, First, TypeOK, ChannelsOK, dongle
<1>2. /\ pc # "wait" => pc \in {"poll", "scan"} /\ pc' \in {"idle", "scan"}
                        /\ (pc' = "scan" => pc = "scan")
      /\ pc = "wait" => pc' = "wait" /\ ~eventOccurred
      /\ pc = "scan" => pc' = "scan"
  BY DEF Receive, Reading
<1>3. ASSUME pc = "wait"
      PROVE  /\ Hit => eventOccurred' = TRUE /\ errorCode' = First.code
             /\ ~Hit => eventOccurred' = FALSE
  <2> DEFINE entry == [ce |-> Current.on, ch |-> WaitChannel]
             hits == {x \in completionEventRegister : Awaits(x, {First.evt}, PostChannel(First))}
  <2>1. completionEventRegister = {entry}  BY <1>2, <1>3 DEF RegisterDiscipline
  <2>2. /\ eventOccurred' = (eventOccurred \/ hits # {})
        /\ errorCode' = IF hits # {} THEN First.code ELSE errorCode
    BY DEF Receive, Post, First
  <2>3. Hit <=> Awaits(entry, {First.evt}, PostChannel(First))  BY DEF Hit, Awaits
  <2>4. Hit <=> hits # {}  BY <2>1, <2>3
  <2> HIDE DEF hits, entry
  <2> QED  BY <1>2, <1>3, <2>2, <2>4
<1>4. /\ Len(fromDongle) \in Nat \ {0} /\ First = fromDongle[1] /\ First \in Message
      /\ DOMAIN fromDongle = 1 .. Len(fromDongle)
      /\ DOMAIN fromDongle' = 1 .. Len(fromDongle) - 1
      /\ \A i \in 1 .. Len(fromDongle) - 1 : fromDongle'[i] = fromDongle[i + 1]
  BY <1>1 DEF First
<1> QED  BY ONLY <1>1, <1>2, <1>3, <1>4

-----------------------------------------------------------------------------
(* One command at a time                                                   *)

LEMMA AnswerEmit ==
  ASSUME TypeOK, AnswerInv, NEW e \in Message, fromDongle' = Append(fromDongle, e),
         e.evt \notin Awaited, UNCHANGED <<open, toDongle, pc, call, eventOccurred>>
  PROVE  AnswerInv'
<1>1. /\ Rsps' = Rsps /\ Rsps \subseteq DOMAIN fromDongle
      /\ \A i \in DOMAIN fromDongle : i \in DOMAIN fromDongle' /\ fromDongle'[i] = fromDongle[i]
  BY Queued DEF Rsps
<1>2. Cmds' = Cmds /\ (AwaitsResponse' <=> AwaitsResponse)
  BY SameStep DEF Cmds, AwaitsResponse
<1>3. CommandAhead => CommandAhead'  BY <1>1, <1>2, SameStep DEF CommandAhead
<1>4. ResponseAhead => ResponseAhead'  BY <1>1, <1>2, SameStep DEF ResponseAhead
<1>5. NoneAhead => NoneAhead'  BY <1>1, <1>2 DEF NoneAhead
<1> QED  BY <1>2, <1>3, <1>4, <1>5 DEF AnswerInv

LEMMA AnswerReceive ==
  ASSUME TypeOK, RegisterDiscipline, AnswerInv, Receive
  PROVE  AnswerInv'
<1>1. /\ \A i \in Rsps' : i + 1 \in Rsps
      /\ \A i \in Rsps : i # 1 => i - 1 \in Rsps' /\ fromDongle'[i - 1] = fromDongle[i]
      /\ 1 \in Rsps <=> First.evt \in Awaited
      /\ Rsps \subseteq Nat \ {0} /\ Rsps' \subseteq Nat \ {0}
  BY Read DEF Rsps
<1>2. Cmds' = Cmds /\ toDongle' = toDongle  BY Read DEF Cmds
<1>3. CASE NoneAhead /\ (AwaitsResponse => ~open)
  <2>1. NoneAhead'  BY <1>1, <1>2, <1>3 DEF NoneAhead
  <2>2. AwaitsResponse' => AwaitsResponse  BY Read, SameStep DEF AwaitsResponse
  <2> QED  BY <1>3, <2>1, <2>2, Read DEF AnswerInv
<1>4. CASE AwaitsResponse /\ CommandAhead
  <2>1. /\ pc = "wait" /\ Current.on = {ResponseTo[Current.send]} /\ Current.send \in CommandName
        /\ Current.send \notin Plain \cup {"none"}
    BY <1>4, CurrentShape DEF AwaitsResponse, TypeOK
  <2>2. ~Hit  BY <1>1, <1>4, <2>1 DEF CommandAhead, Awaited, Hit
  <2>3. AwaitsResponse'  BY <1>4, <2>1, <2>2, Read, SameStep DEF AwaitsResponse
  <2>4. CommandAhead'  BY <1>1, <1>2, <1>4, Read, SameStep DEF CommandAhead
  <2> QED  BY <2>3, <2>4 DEF AnswerInv
<1>5. CASE AwaitsResponse /\ ResponseAhead
  <2>1. /\ pc = "wait" /\ Current.on = {ResponseTo[Current.send]} /\ Current.send \in CommandName
        /\ Current.send \notin Plain \cup {"none"}
    BY <1>5, CurrentShape DEF AwaitsResponse, TypeOK
  <2>2. PICK k \in DOMAIN fromDongle :
          /\ Rsps = {k} /\ Cmds = {}
          /\ fromDongle[k].evt = ResponseTo[Current.send] /\ fromDongle[k].ch = WaitChannel
    BY <1>5 DEF ResponseAhead
  <2>3. CASE k = 1
    <3>1. ResponseTo[Current.send] # "GAP_CONNECTION_EVT"
      BY <2>1, AwaitedFacts
    <3>2. Hit  BY <2>1, <2>2, <2>3, <3>1, Read DEF Hit, PostChannel
    <3>3. ~AwaitsResponse'  BY <2>1, <3>2, Read DEF AwaitsResponse
    <3>4. Rsps' = {}  BY <1>1, <2>2, <2>3
    <3> QED  BY <1>2, <2>2, <3>3, <3>4 DEF AnswerInv, NoneAhead
  <2>4. CASE k # 1
    <3>1. ~Hit  BY <1>1, <2>1, <2>2, <2>4 DEF Awaited, Hit
    <3>2. AwaitsResponse'  BY <1>5, <2>1, <3>1, Read, SameStep DEF AwaitsResponse
    <3>3. Rsps' = {k - 1} /\ fromDongle'[k - 1] = fromDongle[k] /\ k - 1 \in DOMAIN fromDongle'
      <4>1. k \in Nat \ {0}  BY <2>2, Read
      <4>2. k - 1 \in Rsps' /\ fromDongle'[k - 1] = fromDongle[k]  BY <1>1, <2>2, <2>4
      <4>3. \A i \in Rsps' : i = k - 1  BY ONLY <1>1, <2>2, <4>1
      <4> QED  BY <4>2, <4>3 DEF Rsps
    <3>4. ResponseAhead'  BY <1>2, <2>2, <3>3, SameStep, Read DEF ResponseAhead
    <3> QED  BY <3>2, <3>4 DEF AnswerInv
  <2> QED  BY <2>3, <2>4
<1> QED  BY <1>3, <1>4, <1>5 DEF AnswerInv

LEMMA AnswerSend ==
  ASSUME TypeOK, AnswerInv, Send
  PROVE  AnswerInv'
<1>1. NoneAhead /\ pc = "send" /\ pc' = "wait" /\ UNCHANGED <<call, fromDongle>>
  BY DEF Send, AnswerInv, AwaitsResponse, Transmit, channel
<1>2. Rsps' = {}  BY <1>1 DEF NoneAhead, Rsps
<1>3. toDongle \in Seq(Command) /\ CommandsOf(Current.send) \in Seq(Command)
  BY <1>1, CommandsType DEF TypeOK, ChannelsOK
<1>4. AwaitsResponse' <=> Current.send \notin Plain \cup {"none"}
  BY <1>1, SameStep DEF Send, AwaitsResponse
<1>5. CASE UNCHANGED channel /\ ~open
  <2>1. Cmds' = {} /\ ~open'  BY <1>1, <1>5 DEF channel, Cmds, NoneAhead
  <2> QED  BY <1>2, <2>1 DEF AnswerInv, NoneAhead
<1>6. CASE toDongle' = toDongle \o CommandsOf(Current.send)
  <2> DEFINE n == Len(toDongle)
  <2>1. CASE Current.send = "none"
    <3>1. toDongle' = toDongle  BY <1>3, <1>6, <2>1 DEF CommandsOf
    <3> QED  BY <1>1, <1>2, <1>4, <2>1, <3>1 DEF AnswerInv, NoneAhead, Cmds
  <2>2. CASE Current.send \notin {"none", "discover"}
    <3>1. CommandsOf(Current.send) = <<BleCmd(Current.send)>>  BY <2>2 DEF CommandsOf
    <3>2. /\ DOMAIN toDongle = 1 .. n /\ DOMAIN toDongle' = 1 .. n + 1 /\ n \in Nat
          /\ toDongle'[n + 1] = BleCmd(Current.send) /\ Len(toDongle') = n + 1
          /\ \A i \in 1 .. n : toDongle'[i] = toDongle[i]
      BY <1>3, <1>6, <3>1
    <3>3. \A i \in 1 .. n : toDongle[i].cmd \in Plain  BY <1>1, <3>2 DEF NoneAhead, Cmds
    <3>4. BleCmd(Current.send).cmd = Current.send  BY DEF BleCmd
    <3>5. CASE Current.send \in Plain
      <4>1. Cmds' = {}  BY <3>2, <3>3, <3>4, <3>5 DEF Cmds
      <4> QED  BY <1>2, <1>4, <3>5, <4>1 DEF AnswerInv, NoneAhead
    <3>6. CASE Current.send \notin Plain
      <4>1. Cmds' = {n + 1}  BY <3>2, <3>3, <3>4, <3>6 DEF Cmds
      <4> QED  BY <1>1, <1>2, <1>4, <2>2, <3>2, <3>6, <4>1, SameStep DEF AnswerInv, CommandAhead
    <3> QED  BY <3>5, <3>6
  <2>3. CASE Current.send = "discover"
    <3>1. CommandsOf(Current.send) = <<BleCmd("set_scan_parameters"), BleCmd("discover")>>
      BY <2>3 DEF CommandsOf
    <3>2. /\ DOMAIN toDongle = 1 .. n /\ DOMAIN toDongle' = 1 .. n + 2 /\ n \in Nat
          /\ toDongle'[n + 1] = BleCmd("set_scan_parameters")
          /\ toDongle'[n + 2] = BleCmd("discover") /\ Len(toDongle') = n + 2
          /\ \A i \in 1 .. n : toDongle'[i] = toDongle[i]
      BY <1>3, <1>6, <3>1
    <3>3. \A i \in 1 .. n : toDongle[i].cmd \in Plain  BY <1>1, <3>2 DEF NoneAhead, Cmds
    <3>4. BleCmd("discover").cmd = "discover" /\ BleCmd("set_scan_parameters").cmd \in Plain
      BY DEF BleCmd, Plain
    <3>5. "discover" \notin Plain \cup {"none"}  BY DEF Plain
    <3>6. Cmds' = {n + 2}  BY <3>2, <3>3, <3>4, <3>5 DEF Cmds
    <3> QED  BY <1>1, <1>2, <1>4, <2>3, <3>2, <3>5, <3>6, SameStep DEF AnswerInv, CommandAhead
  <2> QED  BY <2>1, <2>2, <2>3
<1> QED  BY <1>5, <1>6 DEF Send, Transmit

\* The command that the dongle executes.
Due == Head(toDongle)

CarriesOut ==
  /\ Executable(Due)
  /\ Due.cmd = "connect_direct" => gap' = Due.arg
  /\ Due.cmd = "discover" => gap' = "scanning"
  /\ Due.cmd = "end_procedure" => gap' = "idle"
  /\ Due.cmd \notin {"connect_direct", "discover", "end_procedure"} => gap' = gap
  /\ running' = IF Due.cmd \in GattCommand
                THEN [running EXCEPT ![Due.ch] = [cmd |-> Due.cmd, arg |-> Due.arg]]
                ELSE running

\* The answer to it: with it the command is carried out or, unless it is end_procedure, refused.
Answers(code) ==
  /\ fromDongle' = Append(fromDongle, Event(ResponseTo[Due.cmd], Due.ch, None, code))
  /\ code = Ok => CarriesOut
  /\ code # Ok => UNCHANGED <<gap, running>> /\ Due.cmd # "end_procedure"

LEMMA Executed ==
  ASSUME TypeOK, DongleExecutes
  PROVE  /\ Due \in Command /\ Due.cmd \in CommandName /\ Due = toDongle[1]
         /\ Len(toDongle) \in Nat \ {0} /\ DOMAIN toDongle = 1 .. Len(toDongle)
         /\ DOMAIN toDongle' = 1 .. Len(toDongle) - 1 /\ Len(toDongle') = Len(toDongle) - 1
         /\ \A i \in 1 .. Len(toDongle) - 1 : toDongle'[i] = toDongle[i + 1]
         /\ open /\ UNCHANGED <<open, links, connectedDevices, pc, call, result, eventOccurred,
                               errorCode>>
         /\ \E code \in {Ok, DongleError} :
              Answers(code) /\ Event(ResponseTo[Due.cmd], Due.ch, None, code) \in Message
<1>1. /\ toDongle \in Seq(Command) /\ toDongle # <<>> /\ toDongle' = Tail(toDongle)
      /\ open /\ UNCHANGED <<open, links, connectedDevices, pc, call, result, eventOccurred,
                            errorCode>>
  BY DEF DongleExecutes, TypeOK, ChannelsOK, wait, devices
<1>2. /\ Due \in Command /\ Due = toDongle[1]
      /\ Len(toDongle) \in Nat \ {0} /\ DOMAIN toDongle = 1 .. Len(toDongle)
      /\ DOMAIN toDongle' = 1 .. Len(toDongle) - 1 /\ Len(toDongle') = Len(toDongle) - 1
      /\ \A i \in 1 .. Len(toDongle) - 1 : toDongle'[i] = toDongle[i + 1]
  BY <1>1 DEF Due
<1>3. Due.cmd \in CommandName  BY <1>2 DEF Command
<1> DEFINE Answered(code) ==
             fromDongle' = Append(fromDongle, Event(ResponseTo[Due.cmd], Due.ch, None, code))
<1>4. \/ /\ Executable(Due) /\ Answered(Ok)
         /\ gap' = CASE Due.cmd = "connect_direct" -> Due.arg
                     [] Due.cmd = "discover" -> "scanning"
                     [] Due.cmd = "end_procedure" -> "idle"
                     [] OTHER -> gap
         /\ running' = IF Due.cmd \in GattCommand
                       THEN [running EXCEPT ![Due.ch] = [cmd |-> Due.cmd, arg |-> Due.arg]]
                       ELSE running
      \/ Answered(DongleError) /\ UNCHANGED <<gap, running>> /\ Due.cmd # "end_procedure"
  BY DEF DongleExecutes, Due
<1> HIDE DEF Due
<1>5. CASE /\ Executable(Due) /\ Answered(Ok)
           /\ gap' = CASE Due.cmd = "connect_direct" -> Due.arg
                       [] Due.cmd = "discover" -> "scanning"
                       [] Due.cmd = "end_procedure" -> "idle"
                       [] OTHER -> gap
           /\ running' = IF Due.cmd \in GattCommand
                         THEN [running EXCEPT ![Due.ch] = [cmd |-> Due.cmd, arg |-> Due.arg]]
                         ELSE running
  <2>1. CarriesOut  BY ONLY <1>5 DEF CarriesOut
  <2> QED  BY <1>1, <1>2, <1>3, <1>5, <2>1, ResponseFacts DEF Answers
<1>6. CASE Answered(DongleError) /\ UNCHANGED <<gap, running>> /\ Due.cmd # "end_procedure"
  BY <1>1, <1>2, <1>3, <1>6, ResponseFacts DEF Answers, Ok, DongleError
<1> QED  BY <1>4, <1>5, <1>6

\* The only command that is not plain is the one the driver waits for, and the last one.
LEMMA CommandIsCurrent ==
  ASSUME TypeOK, AnswerInv, DongleExecutes, Due.cmd \notin Plain
  PROVE  /\ AwaitsResponse /\ CommandAhead /\ Due = BleCmd(Current.send)
         /\ Due.cmd = Current.send /\ Due.ch = WaitChannel /\ toDongle' = <<>>
<1>1. 1 \in Cmds  BY Executed DEF Cmds
<1>2. AwaitsResponse /\ CommandAhead
  BY <1>1 DEF AnswerInv, ResponseAhead, NoneAhead
<1>3. Len(toDongle) = 1  BY <1>1, <1>2 DEF CommandAhead
<1>4. Due = BleCmd(Current.send)  BY <1>2, <1>3, Executed DEF CommandAhead
<1>5. toDongle' = <<>>
  BY <1>3 DEF DongleExecutes, TypeOK, ChannelsOK
<1> QED  BY <1>2, <1>4, <1>5 DEF BleCmd

LEMMA AnswerExecute ==
  ASSUME TypeOK, AnswerInv, DongleExecutes
  PROVE  AnswerInv'
<1>1. PICK code \in {Ok, DongleError} :
        Answers(code) /\ Event(ResponseTo[Due.cmd], Due.ch, None, code) \in Message
  BY Executed
<1> DEFINE e == Event(ResponseTo[Due.cmd], Due.ch, None, code)
           n == Len(fromDongle)
<1>2. e \in Message /\ fromDongle' = Append(fromDongle, e)  BY <1>1 DEF Answers
<1>3. e.evt = ResponseTo[Due.cmd] /\ e.ch = Due.ch  BY DEF Event
<1>4. e.evt \in Awaited <=> Due.cmd \notin Plain  BY <1>3, AwaitedFacts, Executed
<1> HIDE DEF e
<1>5. /\ Current' = Current /\ WaitChannel' = WaitChannel /\ (AwaitsResponse' <=> AwaitsResponse)
      /\ BleCmd(Current.send)' = BleCmd(Current.send)
  BY Executed, SameStep DEF AwaitsResponse
<1>6. CASE Due.cmd \in Plain
  <2>1. Rsps' = Rsps /\ \A k \in Rsps : k \in DOMAIN fromDongle' /\ fromDongle'[k] = fromDongle[k]
    BY <1>2, <1>4, <1>6, Queued DEF Rsps
  <2>2. Cmds' = {i \in 1 .. Len(toDongle) - 1 : i + 1 \in Cmds} /\ 1 \notin Cmds
    BY <1>6, Executed DEF Cmds
  <2>3. CASE NoneAhead
    <3>1. NoneAhead'  BY <2>1, <2>2, <2>3 DEF NoneAhead
    <3> QED  BY <1>5, <2>3, <3>1, Executed DEF AnswerInv, CommandAhead, ResponseAhead, NoneAhead
  <2>4. CASE AwaitsResponse /\ CommandAhead
    <3>1. Len(toDongle) # 1 /\ Len(toDongle) \in Nat \ {0}  BY <2>2, <2>4, Executed DEF CommandAhead
    <3>2. Cmds' = {Len(toDongle) - 1}
      <4> DEFINE l == Len(toDongle)
      <4>1. Cmds = {l} /\ l \in Nat \ {0, 1}  BY <2>4, <3>1 DEF CommandAhead
      <4> HIDE DEF l
      <4>2. {i \in 1 .. l - 1 : i + 1 \in {l}} = {l - 1}  BY ONLY <4>1
      <4> QED  BY <2>2, <4>1, <4>2 DEF l
    <3>3. CommandAhead'  BY <1>5, <2>1, <2>4, <3>1, <3>2, Executed DEF CommandAhead
    <3> QED  BY <1>5, <2>4, <3>3 DEF AnswerInv
  <2>5. CASE AwaitsResponse /\ ResponseAhead
    <3>1. Cmds' = {}  BY <2>2, <2>5 DEF ResponseAhead
    <3>2. ResponseAhead'  BY <1>5, <2>1, <2>5, <3>1 DEF ResponseAhead
    <3> QED  BY <1>5, <2>5, <3>2 DEF AnswerInv
  <2> QED  BY <2>3, <2>4, <2>5 DEF AnswerInv
<1>7. CASE Due.cmd \notin Plain
  <2>1. /\ AwaitsResponse /\ CommandAhead /\ Due.cmd = Current.send
        /\ Due.ch = WaitChannel /\ toDongle' = <<>>
    BY <1>7, CommandIsCurrent
  <2>2. Rsps = {} /\ Cmds' = {}  BY <2>1 DEF CommandAhead, Cmds
  <2>3. /\ Rsps' = {n + 1} /\ n + 1 \in DOMAIN fromDongle'
        /\ fromDongle'[n + 1].evt = ResponseTo[Current.send] /\ fromDongle'[n + 1].ch = WaitChannel
    BY <1>2, <1>3, <1>4, <1>7, <2>1, <2>2, Queued DEF Rsps
  <2>4. ResponseAhead'  BY <1>5, <2>2, <2>3 DEF ResponseAhead
  <2> QED  BY <1>5, <2>1, <2>4 DEF AnswerInv
<1> QED  BY <1>6, <1>7

LEMMA Cut ==
  ASSUME TypeOK, ClientDies
  PROVE  /\ \E n \in 0 .. Len(fromDongle) :
              /\ DOMAIN fromDongle' = 1 .. n
              /\ \A i \in 1 .. n : i \in DOMAIN fromDongle /\ fromDongle'[i] = fromDongle[i]
         /\ ~open' /\ toDongle' = <<>> /\ gap' = "idle" /\ \A h \in Handle : running'[h] = Idle
         /\ \A h \in Handle : links'[h] = None
         /\ DOMAIN fromDongle = 1 .. Len(fromDongle)
         /\ UNCHANGED <<connectedDevices, pc, call, result, eventOccurred, errorCode>>
<1>1. PICK n \in 0 .. Len(fromDongle) : fromDongle' = SubSeq(fromDongle, 1, n)  BY DEF ClientDies
<1>2. /\ DOMAIN fromDongle = 1 .. Len(fromDongle) /\ Len(fromDongle) \in Nat
      /\ DOMAIN fromDongle' = 1 .. n /\ \A i \in 1 .. n : fromDongle'[i] = fromDongle[i]
  BY <1>1 DEF TypeOK, ChannelsOK
<1> QED  BY <1>2 DEF ClientDies, wait, devices

LEMMA AnswerCut ==
  ASSUME TypeOK, AnswerInv, ClientDies
  PROVE  AnswerInv'
<1>1. PICK n \in 0 .. Len(fromDongle) :
        /\ DOMAIN fromDongle' = 1 .. n
        /\ \A i \in 1 .. n : i \in DOMAIN fromDongle /\ fromDongle'[i] = fromDongle[i]
  BY Cut
<1>2. Rsps' \subseteq Rsps /\ \A i \in Rsps' : i \in DOMAIN fromDongle' /\ fromDongle'[i] = fromDongle[i]
  BY <1>1 DEF Rsps
<1>3. Cmds' = {} /\ ~open'  BY Cut DEF Cmds
<1>4. /\ Current' = Current /\ WaitChannel' = WaitChannel /\ (AwaitsResponse' <=> AwaitsResponse)
  BY Cut, SameStep DEF AwaitsResponse
<1>5. CASE Rsps' = {}  BY <1>3, <1>5 DEF AnswerInv, NoneAhead
<1>6. CASE Rsps' # {}
  <2>1. AwaitsResponse /\ ResponseAhead
    BY <1>2, <1>6 DEF AnswerInv, NoneAhead, CommandAhead
  <2>2. PICK k \in DOMAIN fromDongle :
          Rsps = {k} /\ fromDongle[k].evt = ResponseTo[Current.send] /\ fromDongle[k].ch = WaitChannel
    BY <2>1 DEF ResponseAhead
  <2>3. Rsps' = {k} /\ k \in DOMAIN fromDongle' /\ fromDongle'[k] = fromDongle[k]
    BY <1>2, <1>6, <2>2
  <2>4. ResponseAhead'  BY <1>3, <1>4, <2>2, <2>3 DEF ResponseAhead
  <2> QED  BY <1>4, <2>1, <2>4 DEF AnswerInv
<1> QED  BY <1>5, <1>6

\* Commands without a wait are sent only between two waits for responses.
LEMMA AnswerPlain ==
  ASSUME TypeOK, AnswerInv, ~AwaitsResponse, ~AwaitsResponse',
         NEW commands \in Seq(Command), \A i \in DOMAIN commands : commands[i].cmd \in Plain,
         Transmit(commands)
  PROVE  AnswerInv'
<1>1. NoneAhead /\ fromDongle' = fromDongle
  BY DEF AnswerInv, Transmit, channel
<1>2. CASE UNCHANGED channel  BY <1>1, <1>2 DEF channel, AnswerInv, NoneAhead, Cmds, Rsps
<1>3. CASE toDongle' = toDongle \o commands
  <2>1. toDongle \in Seq(Command)  BY DEF TypeOK, ChannelsOK
  <2>2. \A i \in DOMAIN toDongle' :
          \/ i \in DOMAIN toDongle /\ toDongle'[i] = toDongle[i]
          \/ \E j \in DOMAIN commands : toDongle'[i] = commands[j]
    <3>1. \A i \in 1 .. Len(toDongle) + Len(commands) :
            i <= Len(toDongle) \/ i - Len(toDongle) \in 1 .. Len(commands)
      BY <2>1
    <3> QED  BY <1>3, <2>1, <3>1
  <2>3. \A i \in DOMAIN toDongle : toDongle[i].cmd \in Plain  BY <1>1 DEF NoneAhead, Cmds
  <2>4. Cmds' = {}  BY <2>2, <2>3 DEF Cmds
  <2> QED  BY <1>1, <2>4 DEF AnswerInv, NoneAhead, Rsps
<1> QED  BY <1>2, <1>3 DEF Transmit

\* Everything else between two such waits, and all that does not touch the wait.
LEMMA AnswerElsewhere ==
  ASSUME AnswerInv, UNCHANGED <<toDongle, fromDongle>>,
         \/ ~AwaitsResponse /\ ~AwaitsResponse'
         \/ UNCHANGED <<open, pc, call, eventOccurred>>
  PROVE  AnswerInv'
<1>1. Cmds' = Cmds /\ Rsps' = Rsps  BY DEF Cmds, Rsps
<1>2. CASE ~AwaitsResponse /\ ~AwaitsResponse'  BY <1>1, <1>2 DEF AnswerInv, NoneAhead
<1>3. CASE UNCHANGED <<open, pc, call, eventOccurred>>
  <2>1. /\ Current' = Current /\ WaitChannel' = WaitChannel /\ (AwaitsResponse' <=> AwaitsResponse)
        /\ BleCmd(Current.send)' = BleCmd(Current.send)
    BY <1>3, SameStep DEF AwaitsResponse
  <2> QED  BY <1>1, <1>3, <2>1 DEF AnswerInv, NoneAhead, CommandAhead, ResponseAhead
<1> QED  BY <1>2, <1>3

ResponsesInTime == MayTimeOut \cap Responses = {}

\* Nobody gives up on the response of a command that is under way.
LEMMA AnswerGivesUp ==
  ASSUME ResponsesInTime, TypeOK, LossInv, RegisterDiscipline, AnswerInv, WaitTimesOut
  PROVE  AnswerInv'
<1>1. ~AwaitsResponse'  BY GivesUp DEF AwaitsResponse
<1>2. UNCHANGED <<toDongle, fromDongle>>  BY DEF WaitTimesOut, channel
<1>3. CASE AwaitsResponse
  <2>1. Current.on \subseteq Responses
    BY <1>3, CurrentShape, AwaitedFacts DEF AwaitsResponse, TypeOK, Awaited, Responses
  <2>2. ~open /\ fromDongle = <<>>  BY <2>1, GivesUp DEF ResponsesInTime
  <2>3. toDongle = <<>>  BY <2>2 DEF LossInv
  <2>4. NoneAhead'  BY <1>2, <2>2, <2>3 DEF NoneAhead, Cmds, Rsps
  <2> QED  BY <1>1, <2>4 DEF AnswerInv
<1>4. CASE ~AwaitsResponse  BY <1>1, <1>2, <1>4, AnswerElsewhere
<1> QED  BY <1>3, <1>4

LEMMA AnswerStep ==
  ASSUME ResponsesInTime, TypeOK, LossInv, RegisterDiscipline, AnswerInv, [Next]_vars
  PROVE  AnswerInv'
<1>1. CASE Construct
  <2>1. ~AwaitsResponse /\ ~AwaitsResponse'  BY <1>1 DEF Construct, AwaitsResponse
  <2> DEFINE commands == <<BleCmd("get_info"), BleCmd("get_connections")>>
  <2>2. BleCmd("get_info") \in Command /\ BleCmd("get_connections") \in Command
    BY BleCmdType DEF TypeOK, CommandName, LinkCommand, GattCommand
  <2>3. commands \in Seq(Command) /\ \A i \in DOMAIN commands : commands[i].cmd \in Plain
    BY <2>2 DEF BleCmd, Plain
  <2> QED  BY <1>1, <2>1, <2>3, AnswerPlain DEF Construct
<1>2. CASE ConnectFails \/ ScanEnds
  <2>1. ~AwaitsResponse /\ ~AwaitsResponse'
    BY <1>2 DEF ConnectFails, ScanEnds, WaitOver, Return, AwaitsResponse
  <2> DEFINE commands == <<BleCmd("end_procedure")>>
  <2>2. BleCmd("end_procedure") \in Command
    BY BleCmdType DEF TypeOK, CommandName, LinkCommand, GattCommand
  <2>3. commands \in Seq(Command) /\ \A i \in DOMAIN commands : commands[i].cmd \in Plain
    BY <2>2 DEF BleCmd, Plain
  <2>4. CASE Transmit(commands)  BY <2>1, <2>3, <2>4, AnswerPlain
  <2>5. CASE UNCHANGED channel  BY <2>1, <2>5, AnswerElsewhere DEF channel
  <2> QED  BY <1>2, <2>4, <2>5 DEF ConnectFails, ScanEnds
<1>3. CASE Send  BY <1>3, AnswerSend
<1>4. CASE Receive  BY <1>4, AnswerReceive
<1>5. CASE WaitTimesOut  BY <1>5, AnswerGivesUp
<1>6. CASE ReceiveEof
  <2>1. UNCHANGED <<toDongle, fromDongle, open, call, eventOccurred>>
    BY <1>6 DEF ReceiveEof, channel, wait
  <2>2. pc' = pc \/ (pc # "wait" /\ pc' # "wait")  BY <1>6 DEF ReceiveEof
  <2> QED  BY <2>1, <2>2, AnswerElsewhere DEF AwaitsResponse
<1>7. CASE SendThrows \/ PollTimesOut \/ WaitFails \/ NextStep \/ Complete \/ WorkerEnds
  <2>1. UNCHANGED <<toDongle, fromDongle>>
    BY <1>7 DEF SendThrows, PollTimesOut, WaitFails, NextStep, Complete, WorkerEnds, channel
  <2>2. ~AwaitsResponse /\ ~AwaitsResponse'
    BY <1>7 DEF SendThrows, PollTimesOut, WaitFails, NextStep, Complete, WorkerEnds, WaitOver,
                Return, AwaitsResponse
  <2> QED  BY <2>1, <2>2, AnswerElsewhere
<1>8. CASE Request
  <2>1. UNCHANGED <<toDongle, fromDongle>>
    BY <1>8 DEF Request, StartOnConnection, AnswerAtOnce, StartConnect, StartGlobal, Start, channel
  <2>2. ~AwaitsResponse /\ ~AwaitsResponse'
    BY <1>8 DEF Request, StartOnConnection, AnswerAtOnce, StartConnect, StartGlobal, Start,
                Accept, AwaitsResponse
  <2> QED  BY <2>1, <2>2, AnswerElsewhere
<1>9. CASE Poll \/ ProcessDies
  <2>1. UNCHANGED <<toDongle, fromDongle>>  BY <1>9 DEF Poll, ProcessDies, channel
  <2>2. ~AwaitsResponse /\ ~AwaitsResponse'  BY <1>9 DEF Poll, ProcessDies, AwaitsResponse
  <2> QED  BY <2>1, <2>2, AnswerElsewhere
<1>10. CASE DongleExecutes  BY <1>10, AnswerExecute
<1>11. CASE Spontaneous
  <2>1. PICK e \in Message : Emits(e)  BY <1>11, Emitted
  <2>2. e.evt \notin Awaited  BY <2>1, AwaitedFacts DEF Emits, Responses
  <2> QED  BY <2>1, <2>2, AnswerEmit DEF Emits
<1>12. CASE ClientDies  BY <1>12, AnswerCut
<1>13. CASE Over \/ UNCHANGED vars
  BY <1>13, AnswerElsewhere DEF Over, vars, channel, wait
<1> QED
  BY <1>1, <1>2, <1>3, <1>4, <1>5, <1>6, <1>7, <1>8, <1>9, <1>10, <1>11, <1>12, <1>13
  DEF Next, Work

LEMMA OneAnswerFollows ==
  ASSUME TypeOK, AnswerInv
  PROVE  OneAnswer
<1> SUFFICES ASSUME pc = "wait", ~eventOccurred, open,
                    NEW evt \in Current.on \cap (Responses \ {"SYS_GET_INFO_RSP_EVT", "SYS_GET_MAXCON_RSP_EVT"})
             PROVE  Cardinality({i \in DOMAIN toDongle : ResponseTo[toDongle[i].cmd] = evt
                                                          /\ toDongle[i].ch = WaitChannel})
                    + Cardinality({i \in DOMAIN fromDongle : fromDongle[i].evt = evt
                                                             /\ fromDongle[i].ch = WaitChannel}) = 1
  BY DEF OneAnswer
<1> DEFINE sent == {i \in DOMAIN toDongle : ResponseTo[toDongle[i].cmd] = evt
                                             /\ toDongle[i].ch = WaitChannel}
           answered == {i \in DOMAIN fromDongle : fromDongle[i].evt = evt
                                                  /\ fromDongle[i].ch = WaitChannel}
<1>1. Current.send # "none"  BY CurrentShape DEF TypeOK
<1>2. Current.send \notin Plain  BY CurrentShape DEF TypeOK, ResponseTo
<1>3. Current.send \in CommandName /\ evt = ResponseTo[Current.send] /\ evt \in Awaited
  BY <1>1, <1>2, CurrentShape, AwaitedFacts DEF TypeOK
<1>4. \A i \in DOMAIN toDongle : toDongle[i].cmd \in CommandName
  BY DEF TypeOK, ChannelsOK, Command
<1>5. sent \subseteq Cmds  BY <1>3, <1>4, AwaitedFacts DEF Cmds
<1>6. answered \subseteq Rsps  BY <1>3 DEF Rsps
<1>7. AwaitsResponse  BY <1>1, <1>2 DEF AwaitsResponse
<1>8. CASE CommandAhead
  <2>1. Len(toDongle) \in sent
    <3>1. toDongle[Len(toDongle)] = BleCmd(Current.send) /\ Len(toDongle) \in DOMAIN toDongle
      BY <1>8 DEF CommandAhead, Cmds
    <3> QED  BY <1>3, <3>1 DEF BleCmd
  <2>2. sent = {Len(toDongle)} /\ answered = {}  BY <1>5, <1>6, <1>8, <2>1 DEF CommandAhead
  <2>3. Cardinality(sent) = 1 /\ Cardinality(answered) = 0  BY <2>2, FS_Singleton, FS_EmptySet
  <2> QED  BY <2>3
<1>9. CASE ResponseAhead
  <2>1. PICK k \in DOMAIN fromDongle :
          /\ Rsps = {k} /\ Cmds = {}
          /\ fromDongle[k].evt = ResponseTo[Current.send] /\ fromDongle[k].ch = WaitChannel
    BY <1>9 DEF ResponseAhead
  <2>2. sent = {} /\ answered = {k}  BY <1>3, <1>5, <1>6, <2>1
  <2>3. Cardinality(sent) = 0 /\ Cardinality(answered) = 1  BY <2>2, FS_Singleton, FS_EmptySet
  <2> QED  BY <2>3
<1> QED  BY <1>7, <1>8, <1>9 DEF AnswerInv

-----------------------------------------------------------------------------
(* What follows an accepted command is its own                             *)

\* While the driver reads on and nothing new comes, what is left is still the command's own.
LEMMA OwnKept ==
  ASSUME NEW k, NEW l, NEW s \in {0, 1}, Own(k), toDongle' = <<>>, DOMAIN fromDongle' \subseteq Nat,
         \A i \in DOMAIN fromDongle' : i > l =>
           i + s \in DOMAIN fromDongle /\ i + s > k /\ fromDongle'[i] = fromDongle[i + s],
         call'.op = call.op, call'.mac = call.mac, call'.handle = call.handle,
         gap' \in {gap, "idle"}, running'[call.handle] \in {running[call.handle], Idle}
  PROVE  Own(l)'
<1>1. ASSUME NEW evt, NEW i \in Later(l, evt)'
      PROVE  i + s \in Later(k, evt) /\ fromDongle'[i] = fromDongle[i + s] /\ i \in Nat
  BY <1>1 DEF Later
<1>2. ASSUME call.op = "connect" PROVE ConnectOwn(l)'
  <2>1. ConnectOwn(k)  BY <1>2 DEF Own
  <2> QED  BY <1>1, <2>1 DEF ConnectOwn
<1>3. ASSUME call.op \in {"read", "write", "readall"} PROVE ProcedureOwn(l)'
  <2>1. ProcedureOwn(k)  BY <1>3 DEF Own
  <2>2. \A i \in Ends(l, call.handle)' : i + s \in Ends(k, call.handle) /\ i \in Nat
    BY <1>1 DEF Ends
  <2> QED  BY <2>1, <2>2 DEF ProcedureOwn
<1> QED  BY <1>2, <1>3 DEF Own

\* No command is accepted while none is being executed, nor after a wait has failed.
LEMMA NotAccepted ==
  /\ pc \notin {"send", "wait"} => \A k : ~AcceptedAt(k)
  /\ pc' \notin {"send", "wait"} => \A k : ~AcceptedAt(k)'
  /\ pc = "wait" /\ eventOccurred /\ errorCode # Ok => \A k : ~AcceptedAt(k)
  /\ pc' = "wait" /\ eventOccurred' /\ errorCode' # Ok => \A k : ~AcceptedAt(k)'
BY DEF AcceptedAt, AwaitsResponse

LEMMA AcceptedElsewhere ==
  ASSUME AcceptedInv, UNCHANGED <<toDongle, fromDongle, gap, running, pc, call, eventOccurred, errorCode>>
  PROVE  AcceptedInv'
<1>1. \A k : AcceptedAt(k)' <=> AcceptedAt(k)
  BY SameStep DEF AcceptedAt, AwaitsResponse, Rsps
<1>2. \A k : Own(k)' <=> Own(k)  BY DEF Own, ConnectOwn, ProcedureOwn, Ends, Later
<1> QED  BY <1>1, <1>2 DEF AcceptedInv, Places

LEMMA AcceptedSend ==
  ASSUME TypeOK, AnswerInv, AcceptedInv, Send
  PROVE  AcceptedInv'
<1> SUFFICES ASSUME NEW l \in Places', AcceptedAt(l)'  PROVE Own(l)'
  BY DEF AcceptedInv
<1>1. /\ Rsps = {} /\ pc = "send" /\ pc' = "wait" /\ ~eventOccurred'
      /\ UNCHANGED <<call, fromDongle, gap, running>>
  BY DEF Send, AnswerInv, AwaitsResponse, NoneAhead, Transmit, channel, dongle
<1>2. l = 0 /\ Current.send = "none" /\ AcceptedAt(0)
  BY <1>1, SameStep DEF AcceptedAt, AwaitsResponse, Rsps
<1>3. Own(0)  BY <1>2 DEF AcceptedInv, Places
<1>4. toDongle' = <<>>
  BY <1>2, <1>3 DEF Send, CommandsOf, Transmit, channel, Own
<1>5. DOMAIN fromDongle \subseteq Nat  BY DEF TypeOK, ChannelsOK
<1>6. \A i \in DOMAIN fromDongle' : i > 0 => i + 0 \in DOMAIN fromDongle /\ i + 0 > 0
                                             /\ fromDongle'[i] = fromDongle[i + 0]
  BY <1>1, <1>5
<1> QED  BY <1>1, <1>2, <1>3, <1>4, <1>5, <1>6, OwnKept

LEMMA AcceptedReceive ==
  ASSUME TypeOK, RegisterDiscipline, AnswerInv, AcceptedInv, Receive
  PROVE  AcceptedInv'
<1> SUFFICES ASSUME NEW l \in Places', AcceptedAt(l)'  PROVE Own(l)'
  BY DEF AcceptedInv
<1>1. Current' = Current  BY Read, SameStep
<1>2. pc = "wait" /\ pc' = "wait" /\ ~eventOccurred
  BY Read DEF AcceptedAt, AwaitsResponse
<1>3. \E k \in Places : AcceptedAt(k) /\ k \in {l, l + 1} /\ (k = l => l = 0)
  <2>1. CASE l = 0 /\ ~eventOccurred' /\ Current'.send = "none"
    BY <1>1, <1>2, <2>1 DEF AcceptedAt, Places
  <2>2. CASE l = 0 /\ eventOccurred' /\ errorCode' = Ok /\ Current'.send \notin Plain \cup {"none"}
    <3>1. Hit /\ First.code = Ok  BY <1>2, <2>2, Read
    <3>2. Current.on = {ResponseTo[Current.send]} /\ Current.send \in CommandName
      BY <1>1, <1>2, <2>2, CurrentShape DEF TypeOK
    <3>3. First.evt \in Awaited  BY <1>1, <2>2, <3>1, <3>2 DEF Hit, Awaited
    <3>4. 1 \in Rsps  BY <3>3, Read DEF Rsps
    <3>5. AcceptedAt(1) /\ 1 \in Places
      BY <1>1, <1>2, <2>2, <3>1, <3>4, Read DEF AcceptedAt, AwaitsResponse, Places
    <3> QED  BY <2>2, <3>5
  <2>3. CASE AwaitsResponse' /\ l \in Rsps' /\ fromDongle'[l].code = Ok
    <3>1. l + 1 \in Rsps /\ fromDongle[l + 1].code = Ok /\ l + 1 \in DOMAIN fromDongle /\ l \in Nat
      BY <2>3, Read DEF Rsps
    <3>2. AcceptedAt(l + 1)  BY <1>1, <1>2, <2>3, <3>1 DEF AcceptedAt, AwaitsResponse
    <3> QED  BY <3>1, <3>2 DEF Places
  <2> QED  BY <1>2, <2>1, <2>2, <2>3 DEF AcceptedAt
<1>4. PICK k \in Places : AcceptedAt(k) /\ k \in {l, l + 1} /\ (k = l => l = 0)  BY <1>3
<1>5. Own(k)  BY <1>4 DEF AcceptedInv
<1>6. toDongle' = <<>>  BY <1>5, Read DEF Own
<1>7. DOMAIN fromDongle' \subseteq Nat /\ l \in Nat  BY Read DEF Places
<1>8. \A i \in DOMAIN fromDongle' : i > l => i + 1 \in DOMAIN fromDongle /\ i + 1 > k
                                             /\ fromDongle'[i] = fromDongle[i + 1]
  BY <1>4, <1>7, Read
<1> QED  BY <1>5, <1>6, <1>7, <1>8, OwnKept, Read

\* The step after the one that sent a command, and no other, sends nothing.
LEMMA NextShape ==
  ASSUME TypeOK, NextStep, Current'.send = "none"
  PROVE  Current.send \notin Plain \cup {"none"}
<1>1. pc = "wait" /\ ~LastStep /\ call' = [call EXCEPT !.step = call.step + 1]
  BY DEF NextStep, WaitOver
<1>2. StepShape(call.op, call.step) /\ call.step \in Nat /\ call.step + 1 <= Len(Script[call.op])
  <2>1. call.op \in Scripted /\ call.step \in 1 .. Len(Script[call.op])
    BY <1>1 DEF TypeOK, CallOK
  <2>2. Len(Script[call.op]) \in Nat  BY <2>1, ScriptLength
  <2>3. call.step # Len(Script[call.op])  BY <1>1 DEF LastStep
  <2> QED  BY <2>1, <2>2, <2>3, StepShapes
<1>3. call'.op = call.op /\ call'.step = call.step + 1  BY <1>1 DEF TypeOK, CallOK
<1>4. Script[call.op][call.step + 1].send = "none"  BY <1>3 DEF Current
<1> QED  BY <1>2, <1>4 DEF StepShape, Current

LEMMA AcceptedNext ==
  ASSUME TypeOK, AcceptedInv, NextStep
  PROVE  AcceptedInv'
<1> SUFFICES ASSUME NEW l \in Places', AcceptedAt(l)'  PROVE Own(l)'
  BY DEF AcceptedInv
<1>1. /\ pc = "wait" /\ eventOccurred /\ errorCode = Ok /\ pc' = "send"
      /\ UNCHANGED <<toDongle, fromDongle, gap, running>>
      /\ call'.op = call.op /\ call'.mac = call.mac /\ call'.handle = call.handle
  BY DEF NextStep, WaitOver, channel, dongle, TypeOK, CallOK
<1>2. l = 0 /\ Current'.send = "none"  BY <1>1 DEF AcceptedAt, AwaitsResponse
<1>3. AcceptedAt(0)  BY <1>1, <1>2, NextShape DEF AcceptedAt
<1>4. Own(0)  BY <1>3 DEF AcceptedInv, Places
<1>5. DOMAIN fromDongle \subseteq Nat /\ toDongle' = <<>>  BY <1>1, <1>4 DEF TypeOK, ChannelsOK, Own
<1>6. \A i \in DOMAIN fromDongle' : i > 0 => i + 0 \in DOMAIN fromDongle /\ i + 0 > 0
                                             /\ fromDongle'[i] = fromDongle[i + 0]
  BY <1>1, <1>5
<1> QED  BY <1>1, <1>2, <1>4, <1>5, <1>6, OwnKept

LEMMA AcceptedExecute ==
  ASSUME TypeOK, AnswerInv, AcceptedInv, DongleExecutes
  PROVE  AcceptedInv'
<1> SUFFICES ASSUME NEW l \in Places', AcceptedAt(l)'  PROVE Own(l)'
  BY DEF AcceptedInv
<1> DEFINE n == Len(fromDongle)
           e(code) == Event(ResponseTo[Due.cmd], Due.ch, None, code)
<1>1. PICK code \in {Ok, DongleError} : Answers(code) /\ e(code) \in Message  BY Executed
<1>2. /\ n \in Nat /\ DOMAIN fromDongle = 1 .. n /\ DOMAIN fromDongle' = 1 .. n + 1
      /\ fromDongle'[n + 1] = e(code)
      /\ \A i \in 1 .. n : fromDongle'[i] = fromDongle[i]
  BY <1>1, Queued DEF Answers
<1>3. /\ toDongle # <<>> /\ Current' = Current
      /\ UNCHANGED <<pc, call, eventOccurred, errorCode>>
  BY Executed, SameStep DEF DongleExecutes
<1>4. \A k \in Places : ~AcceptedAt(k)  BY <1>3 DEF AcceptedInv, Own
<1>5. ~AcceptedAt(0)  BY <1>4 DEF Places
<1>6. AwaitsResponse /\ l \in Rsps' /\ fromDongle'[l].code = Ok
  BY <1>3, <1>5 DEF AcceptedAt, AwaitsResponse
<1>7. l = n + 1
  <2>1. ASSUME l \in 1 .. n  PROVE FALSE
    <3>1. l \in Rsps /\ fromDongle[l].code = Ok  BY <1>2, <1>6, <2>1 DEF Rsps
    <3>2. AcceptedAt(l) /\ l \in Places  BY <1>2, <1>6, <2>1, <3>1 DEF AcceptedAt, Places
    <3> QED  BY <1>4, <3>2
  <2> QED  BY <1>2, <1>6, <2>1 DEF Rsps
<1>8. code = Ok /\ ResponseTo[Due.cmd] \in Awaited
  BY <1>2, <1>6, <1>7 DEF Event, Rsps
<1>9. Due.cmd \notin Plain  BY <1>8, AwaitedFacts, Executed
<1>10. toDongle' = <<>> /\ Due = BleCmd(Current.send) /\ Due.cmd = Current.send
  BY <1>9, CommandIsCurrent
<1>11. \A evt : Later(l, evt)' = {}  BY <1>2, <1>7 DEF Later
<1>12. ASSUME call.op = "connect" PROVE ConnectOwn(l)'
  <2>1. Current.send = "connect_direct"
    BY <1>6, <1>12, CurrentShape DEF AwaitsResponse, TypeOK
  <2>2. gap' = call.mac  BY <1>1, <1>8, <1>10, <2>1 DEF Answers, CarriesOut, BleCmd
  <2> QED  BY <1>3, <1>11, <2>2 DEF ConnectOwn
<1>13. ProcedureOwn(l)'  BY <1>11 DEF ProcedureOwn, Ends
<1> QED  BY <1>3, <1>10, <1>12, <1>13 DEF Own

\* The dongle's own reports are accepted by nobody as a response.
LEMMA AcceptedAmong ==
  ASSUME TypeOK, NEW e \in Message, Emits(e)
  PROVE  /\ \A l \in Places' : AcceptedAt(l)' <=> l \in Places /\ AcceptedAt(l)
         /\ Places \subseteq Places'
<1>1. Current' = Current /\ UNCHANGED <<pc, call, eventOccurred, errorCode>>  BY SameStep DEF Emits
<1>2. e.evt \notin Awaited  BY AwaitedFacts DEF Emits, Responses
<1>3. /\ Len(fromDongle) \in Nat /\ DOMAIN fromDongle = 1 .. Len(fromDongle)
      /\ DOMAIN fromDongle' = 1 .. Len(fromDongle) + 1
      /\ fromDongle'[Len(fromDongle) + 1] = e
      /\ \A i \in 1 .. Len(fromDongle) : fromDongle'[i] = fromDongle[i]
  BY Queued DEF Emits
<1>4. Rsps' = Rsps /\ \A l \in Rsps : fromDongle'[l] = fromDongle[l] /\ l \in Places
  BY <1>2, <1>3 DEF Rsps, Places
<1>5. Places \subseteq Places'  BY <1>3 DEF Places
<1>6. \A l : AcceptedAt(l)' <=> AcceptedAt(l)
  BY <1>1, <1>4 DEF AcceptedAt, AwaitsResponse
<1>7. \A l : AcceptedAt(l) => l \in Places  BY <1>4 DEF AcceptedAt, Places
<1> QED  BY <1>5, <1>6, <1>7

LEMMA AcceptedEmit ==
  ASSUME TypeOK, AcceptedInv, NEW e \in Message, Emits(e)
  PROVE  AcceptedInv'
<1> SUFFICES ASSUME NEW l \in Places', AcceptedAt(l)'  PROVE Own(l)'
  BY DEF AcceptedInv
<1> DEFINE n == Len(fromDongle)
<1>1. /\ n \in Nat /\ DOMAIN fromDongle = 1 .. n /\ DOMAIN fromDongle' = 1 .. n + 1
      /\ fromDongle'[n + 1] = e
      /\ \A i \in 1 .. n : fromDongle'[i] = fromDongle[i]
  BY Queued DEF Emits
<1>2. l \in Places /\ AcceptedAt(l)  BY AcceptedAmong
<1>3. Own(l) /\ l \in 0 .. n  BY <1>1, <1>2 DEF AcceptedInv, Places
<1>4. UNCHANGED <<toDongle, call, pc>>  BY DEF Emits
<1>5. \A evt : evt # e.evt => Later(l, evt)' = Later(l, evt)  BY <1>1, <1>3 DEF Later
<1>6. Later(l, e.evt)' = Later(l, e.evt) \cup {n + 1}  BY <1>1, <1>3 DEF Later
<1>7. \A evt : \A i \in Later(l, evt) : fromDongle'[i] = fromDongle[i]  BY <1>1 DEF Later
<1>8. ASSUME call.op = "connect" PROVE ConnectOwn(l)'
  <2>1. ConnectOwn(l)  BY <1>3, <1>8 DEF Own
  <2>2. CASE e.evt = "GAP_CONNECTION_EVT"
    <3>1. gap \in Mac /\ e.arg = gap /\ gap' = "idle"  BY <2>2 DEF Emits
    <3>2. gap = call.mac /\ Later(l, e.evt) = {}
      BY <2>1, <2>2, <3>1, GapAssumption DEF ConnectOwn
    <3>3. Later(l, "GAP_CONNECTION_EVT")' = {n + 1}  BY <1>6, <2>2, <3>2
    <3> QED  BY <1>1, <1>4, <3>1, <3>2, <3>3 DEF ConnectOwn
  <2>3. CASE e.evt # "GAP_CONNECTION_EVT"
    <3>1. gap' = gap  BY <2>3 DEF Emits
    <3>2. Later(l, "GAP_CONNECTION_EVT")' = Later(l, "GAP_CONNECTION_EVT")  BY <1>5, <2>3
    <3> QED  BY <1>4, <1>7, <2>1, <3>1, <3>2 DEF ConnectOwn
  <2> QED  BY <2>2, <2>3
<1>9. ASSUME call.op \in {"read", "write", "readall"} PROVE ProcedureOwn(l)'
  <2> DEFINE h == call.handle
             over == "GATT_PROCEDURE_COMPLETE_EVT"
  <2>1. ProcedureOwn(l)  BY <1>3, <1>9 DEF Own
  <2>2. pc \in {"send", "wait"}  BY <1>2 DEF AcceptedAt, AwaitsResponse
  <2>3. h \in Handle /\ running \in [Handle -> [cmd : GattCommand \cup {"none"}, arg : Subject]]
    BY <1>9, <2>2 DEF TypeOK, CallOK, DongleOK, OnConnection
  <2>4. h' = h  BY <1>4
  <2> HIDE DEF h
  <2>5. CASE e.evt = over /\ e.ch = h
    <3>1. running[h] # Idle /\ running' = [running EXCEPT ![h] = Idle]  BY <2>5 DEF Emits
    <3>2. Ends(l, h) = {} /\ running'[h] = Idle  BY <2>1, <2>3, <3>1 DEF ProcedureOwn, h
    <3>3. \A i \in Ends(l, h)' : i = n + 1
      <4>1. \A i \in Ends(l, h)' : i # n + 1 => i \in Ends(l, h)  BY <1>6, <1>7, <2>4, <2>5 DEF Ends
      <4> QED  BY <3>2, <4>1
    <3> QED  BY <2>4, <3>2, <3>3 DEF ProcedureOwn, h
  <2>6. CASE ~(e.evt = over /\ e.ch = h)
    <3>1. Ends(l, h)' = Ends(l, h)
      <4>1. CASE e.evt = over  BY <1>1, <1>6, <1>7, <2>4, <2>6, <4>1 DEF Ends
      <4>2. CASE e.evt # over  BY <1>5, <1>7, <2>4, <4>2 DEF Ends
      <4> QED  BY <4>1, <4>2
    <3>2. running'[h] \in {running[h], Idle}  BY <2>3 DEF Emits
    <3> QED  BY <2>1, <2>4, <3>1, <3>2 DEF ProcedureOwn, h
  <2> QED  BY <2>5, <2>6
<1> QED  BY <1>3, <1>4, <1>8, <1>9 DEF Own

LEMMA AcceptedCut ==
  ASSUME TypeOK, AcceptedInv, ClientDies
  PROVE  /\ AcceptedInv'
         /\ \A l \in Places' : AcceptedAt(l)' <=> l \in Places /\ AcceptedAt(l)
<1>1. PICK n \in 0 .. Len(fromDongle) :
        /\ DOMAIN fromDongle' = 1 .. n
        /\ \A i \in 1 .. n : i \in DOMAIN fromDongle /\ fromDongle'[i] = fromDongle[i]
  BY Cut
<1>2. Current' = Current /\ UNCHANGED <<pc, call, eventOccurred, errorCode>>  BY Cut, SameStep
<1>3. Rsps' = Rsps \cap 1 .. n  BY <1>1, Cut DEF Rsps
<1>4. Places' = 0 .. n /\ Places' \subseteq Places /\ Len(fromDongle) \in Nat
  BY <1>1, Cut DEF Places, TypeOK, ChannelsOK
<1>5. \A l \in Places' : AcceptedAt(l)' <=> l \in Places /\ AcceptedAt(l)
  BY <1>1, <1>2, <1>3, <1>4 DEF AcceptedAt, AwaitsResponse, Rsps
<1>6. ASSUME NEW l \in Places', AcceptedAt(l)'  PROVE Own(l)'
  <2>1. Own(l)  BY <1>5, <1>6 DEF AcceptedInv
  <2>2. DOMAIN fromDongle' \subseteq Nat  BY <1>1
  <2>3. \A i \in DOMAIN fromDongle' : i > l => i + 0 \in DOMAIN fromDongle /\ i + 0 > l
                                               /\ fromDongle'[i] = fromDongle[i + 0]
    BY <1>1
  <2>4. /\ toDongle' = <<>> /\ gap' = "idle" /\ call' = call  BY Cut
  <2>5. call.op \in {"read", "write", "readall"} => running'[call.handle] = Idle
    <3>1. pc \in {"send", "wait"}  BY <1>5, <1>6 DEF AcceptedAt, AwaitsResponse
    <3>2. call.op \in {"read", "write", "readall"} => call.handle \in Handle
      BY <3>1 DEF TypeOK, CallOK, OnConnection
    <3> QED  BY <3>2, Cut
  <2>6. CASE call.op \in {"read", "write", "readall"}
    BY <2>1, <2>2, <2>3, <2>4, <2>5, <2>6, OwnKept
  <2>7. CASE call.op \notin {"read", "write", "readall"}
    <3>1. \A i \in Later(l, "GAP_CONNECTION_EVT")' :
            i \in Later(l, "GAP_CONNECTION_EVT") /\ fromDongle'[i] = fromDongle[i]
      BY <1>1 DEF Later
    <3> QED  BY <2>1, <2>4, <2>7, <3>1 DEF Own, ConnectOwn
  <2> QED  BY <2>6, <2>7
<1> QED  BY <1>5, <1>6 DEF AcceptedInv

\* A new command starts with one that is sent.
LEMMA Requested ==
  ASSUME TypeOK, Request
  PROVE  /\ pc = "idle" /\ UNCHANGED <<channel, dongle, wait, devices, isConnected>>
         /\ \A k : ~AcceptedAt(k)'
<1>1. pc = "idle" /\ UNCHANGED <<channel, dongle, wait, devices, isConnected>>
  BY DEF Request, StartOnConnection, AnswerAtOnce, StartConnect, StartGlobal, Start, Accept
<1>2. \/ pc' = "return"
      \/ \E op \in Scripted : \E mac, attr, h : Start(op, mac, attr, h)
  <2>1. {"connect", "update", "disconnect", "read", "write", "readall", "discover", "info"} \subseteq Scripted
    BY DEF Scripted, Script
  <2>2. Ops \subseteq AllOps  BY WorkloadAssumption
  <2>3. ASSUME NEW op \in Ops \ {"discover", "info", "connected"}, NEW mac, NEW attr,
               StartOnConnection(op, mac, attr)
        PROVE  \E o \in Scripted : \E m, a, h : Start(o, m, a, h)
    <3>1. op \in Scripted /\ "update" \in Scripted  BY <2>1, <2>2 DEF AllOps
    <3> QED  BY <2>3, <3>1 DEF StartOnConnection
  <2>4. ASSUME NEW mac, StartConnect(mac)
        PROVE  \E o \in Scripted : \E m, a, h : Start(o, m, a, h)
    BY <2>1, <2>4 DEF StartConnect
  <2>5. ASSUME NEW op, StartGlobal(op)
        PROVE  \E o \in Scripted : \E m, a, h : Start(o, m, a, h)
    BY <2>1, <2>5 DEF StartGlobal
  <2>6. ASSUME NEW op, NEW mac, NEW attr, AnswerAtOnce(op, mac, attr)  PROVE pc' = "return"
    BY <2>6 DEF AnswerAtOnce
  <2> QED  BY <2>3, <2>4, <2>5, <2>6 DEF Request
<1>3. ASSUME NEW op \in Scripted, NEW mac, NEW attr, NEW h, Start(op, mac, attr, h)
      PROVE  \A k : ~AcceptedAt(k)'
  <2>1. pc' = "send" /\ call'.op = op /\ call'.step = 1  BY <1>3 DEF Start
  <2>2. 1 \in 1 .. Len(Script[op])  BY ScriptLength
  <2>3. Script[op][1].send # "none"  BY <2>2, StepShapes DEF StepShape
  <2>4. Current'.send # "none"  BY <2>1, <2>3 DEF Current
  <2> QED  BY <2>1, <2>4 DEF AcceptedAt, AwaitsResponse
<1> QED  BY <1>1, <1>2, <1>3, NotAccepted

LEMMA AcceptedStep ==
  ASSUME TypeOK, LossInv, RegisterDiscipline, AnswerInv, AcceptedInv, [Next]_vars
  PROVE  AcceptedInv'
<1>1. CASE \A k : ~AcceptedAt(k)'  BY <1>1 DEF AcceptedInv
<1>2. CASE Construct \/ SendThrows \/ PollTimesOut \/ WaitFails \/ ConnectFails \/ ScanEnds
           \/ WorkerEnds \/ Complete \/ Poll \/ ProcessDies
  <2>1. pc' \notin {"send", "wait"}
    BY <1>2 DEF Construct, SendThrows, PollTimesOut, WaitFails, ConnectFails, ScanEnds, WorkerEnds,
                Complete, Poll, ProcessDies, Return
  <2> QED  BY <1>1, <2>1, NotAccepted
<1>3. CASE Send  BY <1>3, AcceptedSend
<1>4. CASE Receive  BY <1>4, AcceptedReceive
<1>5. CASE ReceiveEof
  <2>1. CASE pc = "poll"  BY <1>1, <1>5, <2>1, NotAccepted DEF ReceiveEof
  <2>2. CASE pc # "poll"
    BY <1>5, <2>2, AcceptedElsewhere DEF ReceiveEof, channel, dongle, wait
  <2> QED  BY <2>1, <2>2
<1>6. CASE WaitTimesOut
  <2>1. pc' = "wait" /\ eventOccurred' /\ errorCode' # Ok
    BY <1>6, GivesUp DEF WaitTimesOut, TimedOut, Ok
  <2> QED  BY <1>1, <2>1, NotAccepted
<1>7. CASE NextStep  BY <1>7, AcceptedNext
<1>8. CASE Request  BY <1>1, <1>8, Requested
<1>9. CASE DongleExecutes  BY <1>9, AcceptedExecute
<1>10. CASE Spontaneous  BY <1>10, Emitted, AcceptedEmit
<1>11. CASE ClientDies  BY <1>11, AcceptedCut
<1>12. CASE Over \/ UNCHANGED vars
  BY <1>12, AcceptedElsewhere DEF Over, vars, channel, dongle, wait
<1> QED
  BY <1>2, <1>3, <1>4, <1>5, <1>6, <1>7, <1>8, <1>9, <1>10, <1>11, <1>12 DEF Next, Work

LEMMA OwnProcedureFollows ==
  ASSUME TypeOK, AcceptedInv
  PROVE  OwnProcedure
<1> SUFFICES ASSUME pc = "wait", ~eventOccurred, open, "GATT_PROCEDURE_COMPLETE_EVT" \in Current.on
             PROVE  Cardinality({i \in DOMAIN fromDongle :
                                  /\ fromDongle[i].evt = "GATT_PROCEDURE_COMPLETE_EVT"
                                  /\ fromDongle[i].ch = call.handle})
                    + (IF running[call.handle] # Idle THEN 1 ELSE 0) <= 1
  BY DEF OwnProcedure
<1> DEFINE over == {i \in DOMAIN fromDongle : /\ fromDongle[i].evt = "GATT_PROCEDURE_COMPLETE_EVT"
                                              /\ fromDongle[i].ch = call.handle}
<1>1. Current.send = "none" /\ call.op \in {"read", "write", "readall"}
  BY CurrentShape DEF TypeOK
<1>2. AcceptedAt(0)  BY <1>1 DEF AcceptedAt
<1>3. ProcedureOwn(0)  BY <1>1, <1>2 DEF AcceptedInv, Own, Places
<1>4. over = Ends(0, call.handle)
  BY DEF Ends, Later, TypeOK, ChannelsOK
<1>5. CASE over = {}
  <2>1. Cardinality(over) = 0  BY <1>5, FS_EmptySet
  <2> QED  BY <2>1
<1>6. CASE over # {}
  <2>1. PICK k : over = {k}  BY <1>3, <1>4, <1>6 DEF ProcedureOwn
  <2>2. Cardinality(over) = 1  BY <2>1, FS_Singleton
  <2>3. running[call.handle] = Idle  BY <1>3, <1>4, <1>6 DEF ProcedureOwn
  <2> QED  BY <2>2, <2>3
<1> QED  BY <1>5, <1>6

-----------------------------------------------------------------------------
(* The GAP procedure                                                       *)

\* An accepted command stays accepted until the event it waits for has been read.
LEMMA AcceptedRead ==
  ASSUME TypeOK, RegisterDiscipline, AnswerInv, Receive, NEW k \in Places, AcceptedAt(k)
  PROVE  \/ \E l \in Places' : AcceptedAt(l)' /\ l \in {0, k - 1}
         \/ k = 0 /\ Current.send = "none" /\ Hit
<1>1. Current' = Current  BY Read, SameStep
<1>2. pc = "wait" /\ pc' = "wait" /\ ~eventOccurred
  BY Read DEF AcceptedAt, AwaitsResponse
<1>3. CASE k = 0 /\ Current.send = "none"
  <2>1. CASE ~Hit  BY <1>1, <1>2, <1>3, <2>1, Read DEF AcceptedAt, Places
  <2> QED  BY <1>3, <2>1
<1>4. CASE AwaitsResponse /\ k \in Rsps /\ fromDongle[k].code = Ok
  <2>1. k \in DOMAIN fromDongle /\ Rsps = {k} /\ fromDongle[k].evt = ResponseTo[Current.send]
        /\ fromDongle[k].ch = WaitChannel
    BY <1>4 DEF AnswerInv, CommandAhead, ResponseAhead, NoneAhead
  <2>2. Current.on = {ResponseTo[Current.send]} /\ ResponseTo[Current.send] \in Awaited
    BY <1>2, <1>4, CurrentShape, AwaitedFacts DEF TypeOK, AwaitsResponse
  <2>3. CASE k = 1
    <3>1. Hit  BY <2>1, <2>2, <2>3, AwaitedFacts, Read DEF Hit, PostChannel
    <3>2. AcceptedAt(0)'
      BY <1>1, <1>2, <1>4, <2>1, <2>3, <3>1, Read DEF AcceptedAt, AwaitsResponse
    <3> QED  BY <3>2 DEF Places
  <2>4. CASE k # 1
    <3>1. 1 \notin Rsps  BY <2>1, <2>4
    <3>2. First.evt \notin Awaited  BY <3>1, Read DEF Rsps
    <3>3. ~Hit  BY <2>2, <3>2 DEF Hit
    <3>4. k - 1 \in DOMAIN fromDongle' /\ fromDongle'[k - 1] = fromDongle[k]
      BY <2>1, <2>4, Read
    <3>5. k - 1 \in Rsps'  BY <1>4, <3>4 DEF Rsps
    <3>6. AcceptedAt(k - 1)'
      BY <1>1, <1>2, <1>4, <3>3, <3>4, <3>5, Read DEF AcceptedAt, AwaitsResponse
    <3> QED  BY <3>4, <3>6 DEF Places
  <2> QED  BY <2>3, <2>4
<1> QED  BY <1>2, <1>3, <1>4 DEF AcceptedAt

\* The only event a connect waits for after its response is the new connection.
LEMMA ConnectHit ==
  ASSUME TypeOK, RegisterDiscipline, AcceptedInv, Receive, AcceptedAt(0), Current.send = "none", Hit,
         call.op = "connect"
  PROVE  /\ First.evt = "GAP_CONNECTION_EVT" /\ 1 \in Later(0, "GAP_CONNECTION_EVT")
         /\ gap = "idle" /\ First.arg = call.mac /\ LastStep /\ pc = "wait"
<1>1. pc = "wait"  BY Read DEF AcceptedAt, AwaitsResponse
<1>2. LastStep /\ Current.on = {"GAP_CONNECTION_EVT"}
  BY <1>1, CurrentShape DEF TypeOK
<1>3. First.evt = "GAP_CONNECTION_EVT" /\ 1 \in Later(0, "GAP_CONNECTION_EVT")
  BY <1>2, Read DEF Hit, Later
<1>4. ConnectOwn(0)  BY DEF AcceptedInv, Own, Places
<1> QED  BY <1>1, <1>2, <1>3, <1>4, Read DEF ConnectOwn

\* An accepted command whose wait is over was waiting for its response.
LEMMA AcceptedOver ==
  ASSUME TypeOK, WaitOver, NEW k, AcceptedAt(k)
  PROVE  /\ k = 0 /\ errorCode = Ok /\ Current.send \notin Plain \cup {"none"}
         /\ call.op = "connect" => ~LastStep
<1>1. pc = "wait" /\ eventOccurred  BY DEF WaitOver
<1>2. k = 0 /\ errorCode = Ok /\ Current.send \notin Plain \cup {"none"}
  BY <1>1 DEF AcceptedAt, AwaitsResponse
<1> QED  BY <1>1, <1>2, CurrentShape DEF TypeOK

\* Going to the next step does not lose sight of an accepted connect.
LEMMA AcceptedGoesOn ==
  ASSUME TypeOK, NextStep, NEW k, AcceptedAt(k), call.op = "connect"
  PROVE  AcceptedAt(0)' /\ call'.op = "connect" /\ k = 0
<1>1. pc = "wait" /\ pc' = "send" /\ ~LastStep /\ call' = [call EXCEPT !.step = call.step + 1]
  BY DEF NextStep, WaitOver
<1>2. call'.op = "connect" /\ call'.step = call.step + 1 /\ k = 0
  BY <1>1, AcceptedOver DEF TypeOK, CallOK, NextStep
<1>3. Len(Script["connect"]) = 2  BY DEF Script, ConnectScript
<1>4. call.step \in 1 .. 2 /\ call.step # 2
  BY <1>1, <1>3 DEF TypeOK, CallOK, LastStep
<1>5. Current'.send = "none"
  BY <1>2, <1>4 DEF Current, Script, ConnectScript, Step
<1> QED  BY <1>1, <1>2, <1>5 DEF AcceptedAt

\* What is sent does not overtake the command that stops the procedure.
LEMMA StoppingKept ==
  ASSUME TypeOK, Stopping, NEW commands \in Seq(Command), Transmit(commands)
  PROVE  Stopping'
<1>1. CASE UNCHANGED channel  BY <1>1 DEF channel, Stopping
<1>2. CASE toDongle' = toDongle \o commands
  <2>1. toDongle \in Seq(Command)  BY DEF TypeOK, ChannelsOK
  <2>2. \A i \in DOMAIN toDongle : i \in DOMAIN toDongle' /\ toDongle'[i] = toDongle[i]
    BY <1>2, <2>1
  <2> QED  BY <2>2 DEF Stopping
<1> QED  BY <1>1, <1>2 DEF Transmit

\* A command that stops the procedure is sent.
LEMMA StoppingSent ==
  ASSUME TypeOK, open, Transmit(<<BleCmd("end_procedure")>>)
  PROVE  Stopping'
<1>1. toDongle \in Seq(Command) /\ toDongle' = toDongle \o <<BleCmd("end_procedure")>>
  BY DEF TypeOK, ChannelsOK, Transmit
<1>2. BleCmd("end_procedure") \in Command
  BY BleCmdType DEF TypeOK, CommandName, LinkCommand, GattCommand
<1>3. /\ Len(toDongle) + 1 \in DOMAIN toDongle'
      /\ toDongle'[Len(toDongle) + 1] = BleCmd("end_procedure")
  BY <1>1, <1>2
<1> QED  BY <1>3 DEF Stopping, BleCmd

LEMMA GapExecute ==
  ASSUME TypeOK, AnswerInv, AcceptedInv, GapInv, DongleExecutes
  PROVE  GapInv'
<1> SUFFICES ASSUME gap' # "idle"
             PROVE  \/ Stopping'
                    \/ Accepted' /\ call'.op \in {"connect", "discover"}
                    \/ pc' = "wait" /\ eventOccurred' /\ errorCode' # Ok /\ call'.op = "connect" /\ LastStep'
                    \/ pc' = "scan"
  BY DEF GapInv
<1>1. PICK code \in {Ok, DongleError} :
        Answers(code) /\ Event(ResponseTo[Due.cmd], Due.ch, None, code) \in Message
  BY Executed
<1>2. Due.cmd # "end_procedure"  BY <1>1 DEF Answers, CarriesOut
<1>3. toDongle # <<>> /\ UNCHANGED <<pc, call, eventOccurred, errorCode>>
  BY Executed DEF DongleExecutes
<1>4. CASE gap' = gap
  <2>1. ~Accepted  BY <1>3 DEF Accepted, AcceptedInv, Own
  <2>2. CASE Stopping
    <3>1. PICK i \in DOMAIN toDongle : toDongle[i].cmd = "end_procedure"  BY <2>2 DEF Stopping
    <3>2. i # 1 /\ i \in 1 .. Len(toDongle)  BY <1>2, <3>1, Executed
    <3>3. i - 1 \in DOMAIN toDongle' /\ toDongle'[i - 1] = toDongle[i]  BY <3>2, Executed
    <3> QED  BY <3>1, <3>3 DEF Stopping
  <2>3. CASE ~Stopping  BY <1>3, <1>4, <2>1, <2>3, SameStep DEF GapInv
  <2> QED  BY <2>2, <2>3
<1>5. CASE gap' # gap
  <2>1. code = Ok /\ Due.cmd \in {"connect_direct", "discover"}
    BY <1>1, <1>2, <1>5 DEF Answers, CarriesOut
  <2>2. Due.cmd \notin Plain  BY <2>1 DEF Plain
  <2>3. AwaitsResponse /\ Current.send = Due.cmd  BY <2>2, CommandIsCurrent
  <2>4. call.op \in {"connect", "discover"}
    BY <2>1, <2>3, CurrentShape DEF AwaitsResponse, TypeOK
  <2>5. ResponseTo[Due.cmd] \in Awaited  BY <2>2, AwaitedFacts, Executed
  <2>6. PICK k \in DOMAIN fromDongle' :
          fromDongle'[k] = Event(ResponseTo[Due.cmd], Due.ch, None, Ok)
    BY <1>1, <2>1, Queued DEF Answers
  <2>7. k \in Rsps' /\ fromDongle'[k].code = Ok  BY <2>5, <2>6 DEF Rsps, Event
  <2>8. AcceptedAt(k)'  BY <1>3, <2>3, <2>7, SameStep DEF AcceptedAt, AwaitsResponse
  <2> QED  BY <1>3, <2>4, <2>6, <2>8 DEF Accepted, Places
<1> QED  BY <1>4, <1>5

\* Steps that touch neither the channel to the dongle nor its GAP procedure.
LEMMA GapElsewhere ==
  ASSUME GapInv, UNCHANGED <<toDongle, gap>>,
         Accepted /\ call.op \in {"connect", "discover"} =>
           \/ Accepted' /\ call'.op \in {"connect", "discover"}
           \/ pc' = "wait" /\ eventOccurred' /\ errorCode' # Ok /\ call'.op = "connect" /\ LastStep'
           \/ pc' = "scan"
           \/ gap = "idle",
         pc = "wait" /\ eventOccurred /\ errorCode # Ok /\ call.op = "connect" /\ LastStep =>
           pc' = "wait" /\ eventOccurred' /\ errorCode' # Ok /\ call'.op = "connect" /\ LastStep',
         pc = "scan" => pc' = "scan"
  PROVE  GapInv'
BY DEF GapInv, Stopping

LEMMA GapStep ==
  ASSUME ResponsesInTime, TypeOK, LossInv, LossInv', RegisterDiscipline, AnswerInv, AcceptedInv,
         GapInv, [Next]_vars
  PROVE  GapInv'
<1>1. CASE ~open'  BY <1>1 DEF LossInv, GapInv
<1>2. CASE Construct /\ open
  <2>1. ~Accepted /\ pc = "start"  BY <1>2, NotAccepted DEF Construct, Accepted
  <2>2. BleCmd("get_info") \in Command /\ BleCmd("get_connections") \in Command
    BY BleCmdType DEF TypeOK, CommandName, LinkCommand, GattCommand
  <2>3. <<BleCmd("get_info"), BleCmd("get_connections")>> \in Seq(Command)  BY <2>2
  <2>4. Stopping => Stopping'  BY <1>2, <2>3, StoppingKept DEF Construct
  <2>5. gap' = gap  BY <1>2 DEF Construct, dongle
  <2> QED  BY <2>1, <2>4, <2>5 DEF GapInv
<1>3. CASE Send /\ open
  <2>1. pc = "send" /\ pc' = "wait" /\ UNCHANGED <<call, gap, fromDongle>> /\ ~eventOccurred'
    BY <1>3 DEF Send, dongle, Transmit, channel
  <2>2. CommandsOf(Current.send) \in Seq(Command)  BY <2>1, CommandsType DEF TypeOK
  <2>3. Stopping => Stopping'  BY <1>3, <2>2, StoppingKept DEF Send
  <2>4. Accepted => Accepted'
    BY <2>1, SameStep DEF Accepted, AcceptedAt, AwaitsResponse, Places
  <2> QED  BY <2>1, <2>3, <2>4 DEF GapInv
<1>4. CASE SendThrows /\ open
  <2>1. pc = "send" /\ Current.send = "read_by_handle"  BY <1>4 DEF SendThrows
  <2>2. ~Accepted  BY <2>1 DEF Accepted, AcceptedAt, AwaitsResponse
  <2>3. UNCHANGED <<toDongle, gap>>  BY <1>4 DEF SendThrows, channel, dongle
  <2> QED  BY <2>1, <2>2, <2>3, GapElsewhere
<1>5. CASE Receive
  <2>1. UNCHANGED <<toDongle, gap, call>> /\ (LastStep' <=> LastStep)  BY <1>5, Read, SameStep
  <2>2. ASSUME Accepted, call.op \in {"connect", "discover"}  PROVE Accepted' \/ gap = "idle"
    <3>1. PICK k \in Places : AcceptedAt(k)  BY <2>2 DEF Accepted
    <3>2. CASE \E l \in Places' : AcceptedAt(l)'  BY <3>2 DEF Accepted
    <3>3. CASE k = 0 /\ Current.send = "none" /\ Hit
      <4>1. pc = "wait"  BY <1>5, <3>1, <3>3, Read DEF AcceptedAt, AwaitsResponse
      <4>2. call.op = "connect"  BY <2>2, <3>3, <4>1, CurrentShape DEF TypeOK
      <4> QED  BY <1>5, <3>1, <3>3, <4>2, ConnectHit
    <3> QED  BY <1>5, <3>1, <3>2, <3>3, AcceptedRead
  <2>3. ~(pc = "wait" /\ eventOccurred) /\ (pc = "scan" => pc' = "scan")  BY <1>5, Read
  <2> QED  BY <2>1, <2>2, <2>3, GapElsewhere
<1>6. CASE ReceiveEof
  <2>1. ~open'  BY <1>6 DEF ReceiveEof, channel
  <2> QED  BY <1>1, <2>1
<1>7. CASE WaitTimesOut /\ open
  <2>1. UNCHANGED <<toDongle, gap, call>> /\ (LastStep' <=> LastStep)
    BY <1>7, SameStep DEF WaitTimesOut, channel, dongle
  <2>2. pc = "wait" /\ pc' = "wait" /\ ~eventOccurred /\ eventOccurred' /\ errorCode' # Ok
    BY <1>7, GivesUp DEF WaitTimesOut, TimedOut, Ok
  <2>3. ASSUME Accepted, call.op \in {"connect", "discover"}  PROVE call.op = "connect" /\ LastStep
    <3>1. Current.on \cap MayTimeOut # {}  BY <1>7, GivesUp
    <3>2. ~AwaitsResponse
      <4>1. ASSUME AwaitsResponse PROVE Current.on \subseteq Responses
        BY <4>1, CurrentShape, AwaitedFacts DEF AwaitsResponse, TypeOK, Awaited, Responses
      <4> QED  BY <3>1, <4>1 DEF ResponsesInTime
    <3>3. Current.send = "none"  BY <2>2, <2>3, <3>2 DEF Accepted, AcceptedAt
    <3> QED  BY <2>2, <2>3, <3>3, CurrentShape DEF TypeOK
  <2> QED  BY <2>1, <2>2, <2>3, GapElsewhere
<1>8. CASE NextStep
  <2>1. UNCHANGED <<toDongle, gap>>  BY <1>8 DEF NextStep, channel, dongle
  <2>2. pc = "wait" /\ eventOccurred /\ errorCode = Ok /\ ~LastStep  BY <1>8 DEF NextStep, WaitOver
  <2>3. call.op = "discover" => LastStep  BY <2>2, CurrentShape DEF TypeOK
  <2>4. ASSUME Accepted, call.op = "connect"  PROVE Accepted' /\ call'.op = "connect"
    BY <1>8, <2>4, AcceptedGoesOn DEF Accepted, Places
  <2> QED  BY <2>1, <2>2, <2>3, <2>4, GapElsewhere
<1>9. CASE Complete
  <2>1. UNCHANGED <<toDongle, gap>>  BY <1>9 DEF Complete, channel, dongle
  <2>2. pc = "wait" /\ eventOccurred /\ errorCode = Ok /\ LastStep  BY <1>9 DEF Complete, WaitOver
  <2>3. ASSUME Accepted, call.op = "connect"  PROVE FALSE
    BY <1>9, <2>2, <2>3, AcceptedOver DEF Accepted, Complete
  <2>4. call.op = "discover" => pc' = "scan"  BY <1>9 DEF Complete, OnConnection
  <2> QED  BY <2>1, <2>2, <2>3, <2>4, GapElsewhere
<1>10. CASE WaitFails
  <2>1. UNCHANGED <<toDongle, gap>>  BY <1>10 DEF WaitFails, channel, dongle
  <2>2. /\ pc = "wait" /\ eventOccurred /\ errorCode # Ok /\ ~(call.op = "connect" /\ LastStep)
    BY <1>10 DEF WaitFails, WaitOver
  <2> QED  BY <2>1, <2>2, NotAccepted, GapElsewhere DEF Accepted
<1>11. CASE (ConnectFails \/ ScanEnds) /\ open
  <2>1. Transmit(<<BleCmd("end_procedure")>>)  BY <1>11 DEF ConnectFails, ScanEnds
  <2> QED  BY <1>11, <2>1, StoppingSent DEF GapInv
<1>12. CASE PollTimesOut \/ WorkerEnds \/ Poll
  <2>1. UNCHANGED <<toDongle, gap>> /\ pc \notin {"send", "wait", "scan"}
    BY <1>12 DEF PollTimesOut, WorkerEnds, Poll, channel, dongle
  <2> QED  BY <2>1, NotAccepted, GapElsewhere DEF Accepted
<1>13. CASE Request
  <2>1. UNCHANGED <<toDongle, gap>> /\ pc = "idle"  BY <1>13, Requested DEF channel, dongle
  <2> QED  BY <2>1, NotAccepted, GapElsewhere DEF Accepted
<1>14. CASE DongleExecutes  BY <1>14, GapExecute
<1>15. CASE Spontaneous
  <2>1. PICK e \in Message : Emits(e)  BY <1>15, Emitted
  <2>2. UNCHANGED <<toDongle, pc, call, eventOccurred, errorCode>> /\ gap' \in {gap, "idle"}
    BY <2>1 DEF Emits
  <2>3. Accepted => Accepted'  BY <2>1, AcceptedAmong DEF Accepted
  <2> QED  BY <2>2, <2>3, SameStep DEF GapInv, Stopping
<1>16. CASE ClientDies \/ ProcessDies
  <2>1. ~open'  BY <1>16 DEF ClientDies, ProcessDies, channel
  <2> QED  BY <1>1, <2>1
<1>17. CASE Over \/ UNCHANGED vars
  <2>1. UNCHANGED <<toDongle, fromDongle, gap, pc, call, eventOccurred, errorCode>>
    BY <1>17 DEF Over, vars, channel, dongle, wait
  <2>2. Accepted' <=> Accepted
    BY <2>1, SameStep DEF Accepted, AcceptedAt, AwaitsResponse, Rsps, Places
  <2> QED  BY <2>1, <2>2, SameStep, GapElsewhere
<1>18. CASE Work /\ ~open /\ ~Receive
  <2>1. ~open'
    BY <1>18 DEF Work, Construct, Send, SendThrows, ReceiveEof, PollTimesOut, WaitTimesOut,
                 WaitFails, ConnectFails, NextStep, Complete, ScanEnds, WorkerEnds, Transmit, channel
  <2> QED  BY <1>1, <2>1
<1> QED
  BY <1>2, <1>3, <1>4, <1>5, <1>6, <1>7, <1>8, <1>9, <1>10, <1>11, <1>12, <1>13, <1>14, <1>15,
     <1>16, <1>17, <1>18 DEF Next, Work

LEMMA GapFollows ==
  ASSUME GapInv, SoundInv
  PROVE  GapProcedureOwned
BY DEF GapInv, SoundInv, GapProcedureOwned, Accepted, AcceptedAt, AwaitsResponse, Stopping

-----------------------------------------------------------------------------
(* A connect that reports success                                          *)

\* A result stands as long as the thread is on its way to hand it out.
LEMMA SoundElsewhere ==
  ASSUME SoundInv, connectedDevices' = connectedDevices, UNCHANGED <<pc, call, result>>,
         pc = "wait" => UNCHANGED <<eventOccurred, errorCode>>
  PROVE  SoundInv'
BY SameStep DEF SoundInv, ConnectSound, HandlesOf

LEMMA SoundStep ==
  ASSUME TypeOK, LossInv, RegisterDiscipline, AcceptedInv, SoundInv, [Next]_vars
  PROVE  SoundInv'
<1> DEFINE Sound == pc = "wait" /\ eventOccurred /\ errorCode = Ok /\ call.op = "connect" /\ LastStep
                     => HandlesOf(call.mac) # {}
<1>1. CASE Receive
  <2>1. /\ pc' # "return" /\ call' = call /\ Current' = Current /\ (LastStep' <=> LastStep)
        /\ (pc' = "scan" => pc = "scan")
    BY <1>1, Read, SameStep
  <2>2. ASSUME pc' = "wait", eventOccurred', errorCode' = Ok, call.op = "connect", LastStep
        PROVE  HandlesOf(call.mac)' # {}
    <3>1. pc = "wait" /\ ~eventOccurred /\ Hit  BY <1>1, <2>2, Read
    <3>2. Current.send = "none"  BY <2>2, <3>1, CurrentShape DEF TypeOK
    <3>3. AcceptedAt(0)  BY <3>1, <3>2 DEF AcceptedAt
    <3>4. First.evt = "GAP_CONNECTION_EVT" /\ First.arg = call.mac
      BY <1>1, <2>2, <3>1, <3>2, <3>3, ConnectHit
    <3>5. First.ch \in Handle /\ connectedDevices' = [connectedDevices EXCEPT ![First.ch] = First.arg]
      BY <1>1, <3>4, Read DEF Message, LinkEvents, FollowsLinks
    <3>6. connectedDevices \in [Handle -> Mac \cup {None}]  BY DEF TypeOK, DevicesOK
    <3>7. connectedDevices'[First.ch] = call.mac  BY <3>4, <3>5, <3>6
    <3> QED  BY <2>1, <3>5, <3>7 DEF HandlesOf
  <2> QED  BY <2>1, <2>2 DEF SoundInv, ConnectSound
<1>2. CASE WaitTimesOut
  <2>1. pc' = "wait" /\ errorCode' # Ok  BY <1>2, GivesUp DEF WaitTimesOut, TimedOut, Ok
  <2> QED  BY <2>1 DEF SoundInv, ConnectSound
<1>3. CASE Send
  <2>1. pc' = "wait" /\ ~eventOccurred'  BY <1>3 DEF Send
  <2> QED  BY <2>1 DEF SoundInv, ConnectSound
<1>4. CASE ReceiveEof
  <2>1. CASE pc = "poll"  BY <1>4, <2>1 DEF ReceiveEof, SoundInv, ConnectSound
  <2>2. CASE pc # "poll"
    BY <1>4, <2>2, SoundElsewhere DEF ReceiveEof, devices, wait
  <2> QED  BY <2>1, <2>2
<1>5. CASE Construct \/ PollTimesOut \/ NextStep \/ WorkerEnds \/ Poll \/ ProcessDies
  <2>1. pc' \in {"idle", "send", "closed", "poll", "dead"}
    BY <1>5 DEF Construct, PollTimesOut, NextStep, WorkerEnds, Poll, ProcessDies
  <2> QED  BY <2>1 DEF SoundInv, ConnectSound
<1>6. CASE SendThrows \/ WaitFails \/ ConnectFails
  <2>1. pc' = "return" /\ result'.code # Ok
    BY <1>6 DEF SendThrows, WaitFails, ConnectFails, Return, WaitOver, Exception, Ok
  <2> QED  BY <2>1 DEF SoundInv, ConnectSound
<1>7. CASE Complete
  <2>1. pc = "wait" /\ eventOccurred /\ errorCode = Ok /\ LastStep /\ call' = call
        /\ connectedDevices' = connectedDevices
    BY <1>7 DEF Complete, WaitOver, Return, devices
  <2>2. call.op = "connect" => HandlesOf(call.mac) # {}  BY <2>1 DEF SoundInv
  <2>3. pc' = "return" \/ (pc' = "scan" /\ call.op = "discover")
    BY <1>7 DEF Complete, Return, OnConnection
  <2> QED  BY <2>1, <2>2, <2>3 DEF SoundInv, ConnectSound, HandlesOf
<1>8. CASE ScanEnds
  <2>1. pc' = "return" /\ call'.op = "discover"  BY <1>8 DEF ScanEnds, Return, SoundInv
  <2> QED  BY <2>1 DEF SoundInv, ConnectSound
<1>9. CASE Request
  <2>1. pc' = "send" \/ (pc' = "return" /\ (call'.op = "connect" => result'.code # Ok))
    <3>1. ASSUME NEW op, NEW mac, NEW attr, AnswerAtOnce(op, mac, attr)
          PROVE  pc' = "return" /\ call'.op # "connect"
      BY <3>1 DEF AnswerAtOnce, NoCall
    <3> QED  BY <1>9, <3>1 DEF Request, StartOnConnection, StartConnect, StartGlobal, Start
  <2> QED  BY <2>1 DEF SoundInv, ConnectSound
<1>10. CASE DongleExecutes \/ Spontaneous \/ ClientDies
  <2>1. UNCHANGED <<connectedDevices, pc, call, result, eventOccurred, errorCode>>
    BY <1>10, Executed, Emitted, Cut DEF Emits
  <2> QED  BY <2>1, SoundElsewhere
<1>11. CASE Over \/ UNCHANGED vars
  BY <1>11, SoundElsewhere DEF Over, vars, devices, wait
<1> QED
  BY <1>1, <1>2, <1>3, <1>4, <1>5, <1>6, <1>7, <1>8, <1>9, <1>10, <1>11 DEF Next, Work

\* The invariants so far, together.
CommandInv == LossInv /\ AnswerInv /\ AcceptedInv /\ GapInv /\ SoundInv

LEMMA CommandInit == Init => CommandInv
<1> SUFFICES ASSUME Init PROVE CommandInv  OBVIOUS
<1>1. LossInv /\ AnswerInv /\ GapInv
  BY DEF Init, LossInv, AnswerInv, AwaitsResponse, NoneAhead, Cmds, Rsps, GapInv
<1>2. AcceptedInv  BY DEF Init, AcceptedInv, AcceptedAt, AwaitsResponse
<1>3. SoundInv  BY DEF Init, SoundInv, ConnectSound
<1> QED  BY <1>1, <1>2, <1>3 DEF CommandInv

LEMMA CommandStep ==
  ASSUME ResponsesInTime, TypeOK, RegisterDiscipline, CommandInv, [Next]_vars
  PROVE  CommandInv'
<1>1. LossInv'  BY LossStep DEF CommandInv
<1>2. AnswerInv' /\ AcceptedInv'  BY AnswerStep, AcceptedStep DEF CommandInv
<1>3. GapInv' /\ SoundInv'  BY <1>1, GapStep, SoundStep DEF CommandInv
<1> QED  BY <1>1, <1>2, <1>3 DEF CommandInv

LEMMA CommandCorrect ==
  ASSUME ResponsesInTime
  PROVE  Spec => []CommandInv
<1>1. Init => CommandInv  BY CommandInit
<1>2. TypeOK /\ RegisterDiscipline /\ CommandInv /\ [Next]_vars => CommandInv'  BY CommandStep
<1>3. Spec => []TypeOK  BY TypeCorrect
<1>4. Spec => []RegisterDiscipline  BY RegisterCorrect
<1> QED  BY <1>1, <1>2, <1>3, <1>4, PTL DEF Spec

\* Responses name at most the connection they are about (BleSimpleResponse, BLE_DRIVER.cpp:1799,
\* BleSimpleConnectionResponse, 1859, and the callbacks before them).  As long as each comes
\* within its 200 s, the one that releases a wait is the answer to the command the driver has
\* just sent, whatever the workload, the refusals and the losses.
THEOREM AnswersMatch ==
  ASSUME ResponsesInTime
  PROVE  Spec => []OneAnswer
<1>1. TypeOK /\ CommandInv => OneAnswer  BY OneAnswerFollows DEF CommandInv
<1> QED  BY <1>1, CommandCorrect, TypeCorrect, PTL

\* A procedure given up after its timeout may still be running on the connection, and its end
\* be reported later (BleEvtGattProcedureCompleted, BLE_DRIVER.cpp:2267).  The dongle refuses the
\* next procedure until then, so the old end is read before the new response, and it never
\* passes for the new procedure's end.
THEOREM ProceduresMatch ==
  ASSUME ResponsesInTime
  PROVE  Spec => []OwnProcedure
<1>1. TypeOK /\ CommandInv => OwnProcedure  BY OwnProcedureFollows DEF CommandInv
<1> QED  BY <1>1, CommandCorrect, TypeCorrect, PTL

\* The dongle does not go on scanning or connecting after the command (Discover and Connect,
\* BLE_DRIVER.cpp:661 and 731) is over, also when the connection attempt outlasts its 15 s: the
\* end_procedure that stops it is sent before the command returns.
THEOREM GapProcedureEnds ==
  ASSUME ResponsesInTime
  PROVE  Spec => []GapProcedureOwned
<1>1. CommandInv => GapProcedureOwned  BY GapFollows DEF CommandInv
<1> QED  BY <1>1, CommandCorrect, PTL

\* The event of a new connection is posted on channel 0, whatever its device
\* (BleEvtConnectionGetStatus, BLE_DRIVER.cpp:2041); a connect that it releases without an error
\* has nevertheless seen its own device connect, also after attempts that were given up.
THEOREM ConnectTruthful ==
  ASSUME ResponsesInTime
  PROVE  Spec => []ConnectSound
<1>1. CommandInv => ConnectSound  BY DEF CommandInv, SoundInv
<1> QED  BY <1>1, CommandCorrect, PTL

-----------------------------------------------------------------------------
(* Connections are made by the connect that waits for them                 *)

ConnectInTime == "GAP_CONNECTION_EVT" \notin MayTimeOut

\* Steps that bring no news, and keep an accepted connect accepted.
LEMMA ConnectionElsewhere ==
  ASSUME TypeOK, ConnectionInv, UNCHANGED fromDongle, gap' = gap,
         \A k \in Places : AcceptedAt(k) /\ call.op = "connect" => AcceptedAt(k)' /\ call'.op = "connect"
  PROVE  ConnectionInv'
<1>1. Places' = Places /\ \A k, evt : Later(k, evt)' = Later(k, evt)  BY DEF Places, Later
<1>2. ASSUME gap' \in Mac PROVE Accepted' /\ call'.op = "connect"
  BY <1>1, <1>2 DEF ConnectionInv, Accepted
<1>3. ASSUME NEW i \in Later(0, "GAP_CONNECTION_EVT")'
      PROVE  call'.op = "connect" /\ \E k \in Places' : k < i /\ AcceptedAt(k)'
  <2>1. PICK k \in Places : k < i /\ AcceptedAt(k) /\ call.op = "connect"
    BY <1>1, <1>3 DEF ConnectionInv
  <2> QED  BY <1>1, <2>1
<1> QED  BY <1>2, <1>3 DEF ConnectionInv

LEMMA ConnectionReceive ==
  ASSUME TypeOK, RegisterDiscipline, AnswerInv, AcceptedInv, ConnectionInv, Receive
  PROVE  ConnectionInv'
<1>1. call' = call /\ gap' = gap  BY Read
<1>2. ASSUME gap' \in Mac PROVE Accepted' /\ call'.op = "connect"
  <2>1. PICK k \in Places : AcceptedAt(k) /\ call.op = "connect"
    BY <1>1, <1>2 DEF ConnectionInv, Accepted
  <2>2. ~(k = 0 /\ Current.send = "none" /\ Hit)
    BY <1>1, <1>2, <2>1, ConnectHit, GapAssumption
  <2> QED  BY <1>1, <2>1, <2>2, AcceptedRead DEF Accepted
<1>3. ASSUME NEW i \in Later(0, "GAP_CONNECTION_EVT")'
      PROVE  call'.op = "connect" /\ \E k \in Places' : k < i /\ AcceptedAt(k)'
  <2>1. i \in Nat \ {0} /\ i + 1 \in Later(0, "GAP_CONNECTION_EVT")  BY <1>3, Read DEF Later
  <2>2. PICK k \in Places : k < i + 1 /\ AcceptedAt(k) /\ call.op = "connect"
    BY <2>1 DEF ConnectionInv
  <2>3. ~(k = 0 /\ Current.send = "none" /\ Hit)
    <3>1. ASSUME k = 0, Current.send = "none", Hit  PROVE FALSE
      <4>1. 1 \in Later(0, "GAP_CONNECTION_EVT")  BY <2>2, <3>1, ConnectHit
      <4>2. ConnectOwn(0)  BY <2>2, <3>1 DEF AcceptedInv, Own, Places
      <4> QED  BY <2>1, <4>1, <4>2 DEF ConnectOwn
    <3> QED  BY <3>1
  <2>4. PICK l \in Places' : AcceptedAt(l)' /\ l \in {0, k - 1}  BY <2>2, <2>3, AcceptedRead
  <2>5. k \in Nat  BY <2>2, Read DEF Places
  <2>6. l < i  BY <2>1, <2>2, <2>4, <2>5
  <2> QED  BY <1>1, <2>2, <2>4, <2>6
<1> QED  BY <1>2, <1>3 DEF ConnectionInv

LEMMA ConnectionExecute ==
  ASSUME TypeOK, AnswerInv, AcceptedInv, ConnectionInv, DongleExecutes
  PROVE  ConnectionInv'
<1>1. PICK code \in {Ok, DongleError} :
        Answers(code) /\ Event(ResponseTo[Due.cmd], Due.ch, None, code) \in Message
  BY Executed
<1>2. toDongle # <<>> /\ UNCHANGED <<pc, call, eventOccurred, errorCode>>
  BY Executed DEF DongleExecutes
<1>3. \A k \in Places : ~AcceptedAt(k)  BY <1>2 DEF AcceptedInv, Own
<1>4. gap \notin Mac /\ Later(0, "GAP_CONNECTION_EVT") = {}  BY <1>3 DEF ConnectionInv, Accepted
<1>5. Later(0, "GAP_CONNECTION_EVT")' = {}
  <2> DEFINE e == Event(ResponseTo[Due.cmd], Due.ch, None, code)
             n == Len(fromDongle)
  <2>1. e \in Message /\ fromDongle' = Append(fromDongle, e)  BY <1>1 DEF Answers
  <2>2. e.evt # "GAP_CONNECTION_EVT"  BY Executed DEF Event, ResponseTo, CommandName
  <2>3. /\ n \in Nat /\ DOMAIN fromDongle = 1 .. n /\ DOMAIN fromDongle' = 1 .. n + 1
        /\ fromDongle'[n + 1] = e /\ \A i \in 1 .. n : fromDongle'[i] = fromDongle[i]
    BY <2>1, Queued
  <2> HIDE DEF e
  <2> QED  BY <1>4, <2>2, <2>3 DEF Later
<1>6. ASSUME gap' \in Mac PROVE Accepted' /\ call'.op = "connect"
  <2>1. code = Ok /\ Due.cmd = "connect_direct"
    BY <1>1, <1>4, <1>6, GapAssumption DEF Answers, CarriesOut
  <2>2. Due.cmd \notin Plain  BY <2>1 DEF Plain
  <2>3. AwaitsResponse /\ Current.send = Due.cmd  BY <2>2, CommandIsCurrent
  <2>4. call.op = "connect"  BY <2>1, <2>3, CurrentShape DEF AwaitsResponse, TypeOK
  <2>5. ResponseTo[Due.cmd] \in Awaited  BY <2>2, AwaitedFacts, Executed
  <2>6. PICK k \in DOMAIN fromDongle' : fromDongle'[k] = Event(ResponseTo[Due.cmd], Due.ch, None, Ok)
    BY <1>1, <2>1, Queued DEF Answers
  <2>7. k \in Rsps' /\ fromDongle'[k].code = Ok  BY <2>5, <2>6 DEF Rsps, Event
  <2>8. AcceptedAt(k)'  BY <1>2, <2>3, <2>7, SameStep DEF AcceptedAt, AwaitsResponse
  <2> QED  BY <1>2, <2>4, <2>6, <2>8 DEF Accepted, Places
<1> QED  BY <1>5, <1>6 DEF ConnectionInv

LEMMA ConnectionEmit ==
  ASSUME TypeOK, ConnectionInv, NEW e \in Message, Emits(e)
  PROVE  ConnectionInv'
<1> DEFINE n == Len(fromDongle)
<1>1. /\ n \in Nat /\ DOMAIN fromDongle = 1 .. n /\ DOMAIN fromDongle' = 1 .. n + 1
      /\ fromDongle'[n + 1] = e /\ \A i \in 1 .. n : fromDongle'[i] = fromDongle[i]
  BY Queued DEF Emits
<1>2. call' = call /\ \A k \in Places : k \in Places' /\ (AcceptedAt(k) => AcceptedAt(k)') /\ k \in 0 .. n
  BY <1>1, AcceptedAmong DEF Emits, Places
<1>3. ASSUME gap' \in Mac PROVE Accepted' /\ call'.op = "connect"
  <2>1. gap' = gap  BY <1>3, GapAssumption DEF Emits
  <2> QED  BY <1>2, <1>3, <2>1 DEF ConnectionInv, Accepted
<1>4. ASSUME NEW i \in Later(0, "GAP_CONNECTION_EVT")'
      PROVE  call'.op = "connect" /\ \E k \in Places' : k < i /\ AcceptedAt(k)'
  <2>1. CASE i = n + 1
    <3>1. gap \in Mac  BY <1>1, <1>4, <2>1 DEF Later, Emits
    <3>2. PICK k \in Places : AcceptedAt(k) /\ call.op = "connect"
      BY <3>1 DEF ConnectionInv, Accepted
    <3>3. k < i  BY <1>1, <1>2, <2>1
    <3> QED  BY <1>2, <3>2, <3>3
  <2>2. CASE i # n + 1
    <3>1. i \in Later(0, "GAP_CONNECTION_EVT")  BY <1>1, <1>4, <2>2 DEF Later
    <3> QED  BY <1>2, <3>1 DEF ConnectionInv
  <2> QED  BY <2>1, <2>2
<1> QED  BY <1>3, <1>4 DEF ConnectionInv

LEMMA ConnectionCut ==
  ASSUME TypeOK, AcceptedInv, ConnectionInv, ClientDies
  PROVE  ConnectionInv'
<1>1. PICK n \in 0 .. Len(fromDongle) :
        /\ DOMAIN fromDongle' = 1 .. n
        /\ \A i \in 1 .. n : i \in DOMAIN fromDongle /\ fromDongle'[i] = fromDongle[i]
  BY Cut
<1>2. gap' = "idle" /\ call' = call  BY Cut
<1>3. ASSUME NEW i \in Later(0, "GAP_CONNECTION_EVT")'
      PROVE  call'.op = "connect" /\ \E k \in Places' : k < i /\ AcceptedAt(k)'
  <2>1. i \in Later(0, "GAP_CONNECTION_EVT") /\ i \in 1 .. n  BY <1>1, <1>3 DEF Later
  <2>2. PICK k \in Places : k < i /\ AcceptedAt(k) /\ call.op = "connect"  BY <2>1 DEF ConnectionInv
  <2>3. k \in Places'  BY <1>1, <2>1, <2>2, Cut DEF Places
  <2> QED  BY <1>2, <2>2, <2>3, AcceptedCut
<1> QED  BY <1>2, <1>3, GapAssumption DEF ConnectionInv

LEMMA ConnectionStep ==
  ASSUME ResponsesInTime, ConnectInTime, TypeOK, RegisterDiscipline, CommandInv, ConnectionInv,
         [Next]_vars
  PROVE  ConnectionInv'
<1> USE DEF CommandInv
<1>1. CASE UNCHANGED <<fromDongle, gap>> /\ (pc \notin {"send", "wait"} \/ WaitFails \/ ConnectFails)
  <2>1. \A k : ~AcceptedAt(k)  BY <1>1, NotAccepted DEF WaitFails, ConnectFails, WaitOver
  <2> QED  BY <1>1, <2>1, ConnectionElsewhere
<1>2. CASE Construct \/ PollTimesOut \/ ScanEnds \/ WorkerEnds \/ Poll \/ WaitFails \/ ConnectFails
  <2>1. UNCHANGED <<fromDongle, gap>>
    BY <1>2 DEF Construct, PollTimesOut, ScanEnds, WorkerEnds, Poll, WaitFails, ConnectFails,
                Transmit, channel, dongle
  <2>2. pc \notin {"send", "wait"} \/ WaitFails \/ ConnectFails
    BY <1>2 DEF Construct, PollTimesOut, ScanEnds, WorkerEnds, Poll
  <2> QED  BY <1>1, <2>1, <2>2
<1>3. CASE Send
  <2>1. pc = "send" /\ pc' = "wait" /\ ~eventOccurred' /\ UNCHANGED <<call, gap, fromDongle>>
    BY <1>3 DEF Send, dongle, Transmit, channel
  <2>2. \A k \in Places : AcceptedAt(k) => AcceptedAt(k)'
    BY <2>1, SameStep DEF AcceptedAt, AwaitsResponse
  <2> QED  BY <2>1, <2>2, ConnectionElsewhere
<1>4. CASE SendThrows
  <2>1. UNCHANGED <<fromDongle, gap>> /\ pc = "send" /\ Current.send # "none"
    BY <1>4 DEF SendThrows, channel, dongle
  <2>2. \A k : ~AcceptedAt(k)  BY <2>1 DEF AcceptedAt, AwaitsResponse
  <2> QED  BY <2>1, <2>2, ConnectionElsewhere
<1>5. CASE Receive  BY <1>5, ConnectionReceive
<1>6. CASE ReceiveEof
  <2>1. UNCHANGED <<fromDongle, gap, call, eventOccurred, errorCode>>
    BY <1>6 DEF ReceiveEof, channel, dongle, wait
  <2>2. CASE pc = "poll"  BY <1>1, <2>1, <2>2
  <2>3. CASE pc # "poll"
    <3>1. pc' = pc  BY <1>6, <2>3 DEF ReceiveEof
    <3>2. \A k \in Places : AcceptedAt(k) => AcceptedAt(k)'
      BY <2>1, <3>1, SameStep DEF AcceptedAt, AwaitsResponse, Rsps
    <3> QED  BY <2>1, <3>2, ConnectionElsewhere
  <2> QED  BY <2>2, <2>3
<1>7. CASE WaitTimesOut
  <2>1. UNCHANGED <<fromDongle, gap, call>> /\ pc = "wait" /\ ~eventOccurred
    BY <1>7 DEF WaitTimesOut, channel, dongle
  <2>2. CASE Accepted /\ call.op = "connect"
    <3>1. Current.on \subseteq Responses \cup {"GAP_CONNECTION_EVT"}
      <4>1. CASE LastStep  BY <2>1, <2>2, <4>1, CurrentShape DEF TypeOK
      <4>2. CASE ~LastStep
        <5>1. Current.send = "connect_direct"  BY <2>1, <2>2, <4>2, CurrentShape DEF TypeOK
        <5>2. Current.on = {ResponseTo["connect_direct"]}
          BY <2>1, <5>1, CurrentShape DEF TypeOK, Plain
        <5> QED  BY <5>2 DEF ResponseTo, Responses
      <4> QED  BY <4>1, <4>2
    <3>2. ~open /\ fromDongle = <<>>
      BY <1>7, <3>1, GivesUp DEF ResponsesInTime, ConnectInTime
    <3>3. gap' = "idle" /\ fromDongle' = <<>>  BY <2>1, <3>2 DEF LossInv
    <3> QED  BY <3>3, GapAssumption DEF ConnectionInv, Later
  <2>3. CASE ~(Accepted /\ call.op = "connect")
    BY <2>1, <2>3, ConnectionElsewhere DEF Accepted
  <2> QED  BY <2>2, <2>3
<1>8. CASE NextStep
  <2>1. UNCHANGED <<fromDongle, gap>>  BY <1>8 DEF NextStep, channel, dongle
  <2> QED  BY <1>8, <2>1, AcceptedGoesOn, ConnectionElsewhere
<1>9. CASE Complete
  <2>1. UNCHANGED <<fromDongle, gap>> /\ WaitOver /\ LastStep
    BY <1>9 DEF Complete, channel, dongle
  <2>2. \A k \in Places : AcceptedAt(k) => call.op # "connect"  BY <2>1, AcceptedOver
  <2> QED  BY <2>1, <2>2, ConnectionElsewhere
<1>10. CASE Request
  <2>1. UNCHANGED <<fromDongle, gap>> /\ pc = "idle"  BY <1>10, Requested DEF channel, dongle
  <2> QED  BY <1>1, <2>1
<1>11. CASE ProcessDies
  <2>1. UNCHANGED <<fromDongle, gap>> /\ ~open  BY <1>11 DEF ProcessDies, channel, dongle
  <2>2. \A k : ~AcceptedAt(k)
    BY <1>11, NotAccepted DEF ProcessDies, AcceptedAt, AwaitsResponse
  <2> QED  BY <2>1, <2>2, ConnectionElsewhere
<1>12. CASE DongleExecutes  BY <1>12, ConnectionExecute
<1>13. CASE Spontaneous  BY <1>13, Emitted, ConnectionEmit
<1>14. CASE ClientDies  BY <1>14, ConnectionCut
<1>15. CASE Over \/ UNCHANGED vars
  <2>1. UNCHANGED <<fromDongle, gap, pc, call, eventOccurred, errorCode>>
    BY <1>15 DEF Over, vars, channel, dongle, wait
  <2>2. \A k \in Places : AcceptedAt(k) => AcceptedAt(k)'
    BY <2>1, SameStep DEF AcceptedAt, AwaitsResponse, Rsps
  <2> QED  BY <2>1, <2>2, ConnectionElsewhere
<1> QED
  BY <1>2, <1>3, <1>4, <1>5, <1>6, <1>7, <1>8, <1>9, <1>10, <1>11, <1>12, <1>13, <1>14, <1>15
  DEF Next, Work

-----------------------------------------------------------------------------
(* A handle keeps its device until a new connection is reported            *)

\* Steps that neither bring nor take news about connection h.
LEMMA ChainElsewhere ==
  ASSUME NEW h \in Handle, ChainAt(h), News(h)' = News(h), connectedDevices'[h] = connectedDevices[h],
         links'[h] = links[h], \A i \in News(h) : fromDongle'[i] = fromDongle[i]
  PROVE  ChainAt(h)'
<1>1. Conns(h)' = Conns(h) /\ Conns(h) \subseteq News(h)  BY DEF Conns
<1> QED  BY <1>1 DEF ChainAt

LEMMA ChainEmit ==
  ASSUME TypeOK, Chain, NEW e \in Message, Emits(e)
  PROVE  Chain'
<1> SUFFICES ASSUME NEW h \in Handle PROVE ChainAt(h)'  BY DEF Chain
<1> DEFINE n == Len(fromDongle)
<1>1. /\ n \in Nat /\ DOMAIN fromDongle = 1 .. n /\ DOMAIN fromDongle' = 1 .. n + 1
      /\ fromDongle'[n + 1] = e /\ \A i \in 1 .. n : fromDongle'[i] = fromDongle[i]
  BY Queued DEF Emits
<1>2. ChainAt(h) /\ connectedDevices' = connectedDevices  BY DEF Chain, Emits
<1>3. links \in [Handle -> Mac \cup {None}]  BY DEF TypeOK, DongleOK
<1>4. News(h) \subseteq 1 .. n /\ Conns(h) \subseteq News(h)  BY <1>1 DEF News, Conns
<1>5. CASE ~(e.evt \in LinkEvents /\ e.ch = h)
  <2>1. News(h)' = News(h)  BY <1>1, <1>5 DEF News
  <2>2. links'[h] = links[h]  BY <1>3, <1>5 DEF Emits, LinkEvents
  <2> QED  BY <1>1, <1>2, <1>4, <2>1, <2>2, ChainElsewhere
<1>6. CASE e.evt \in LinkEvents /\ e.ch = h
  <2>1. News(h)' = News(h) \cup {n + 1}  BY <1>1, <1>6 DEF News
  <2>2. /\ \A i \in News(h) : fromDongle'[i] = fromDongle[i] /\ i \in 1 .. n
        /\ fromDongle'[n + 1] = e
    BY <1>1, <1>4
  <2>3. CASE e.evt = "GAP_CONNECTION_EVT"
    <3>1. Conns(h)' = Conns(h) \cup {n + 1}  BY <2>1, <2>2, <2>3 DEF Conns
    <3>2. links'[h] = e.arg  BY <1>3, <1>6, <2>3 DEF Emits
    <3>3. \A i \in Conns(h) : i < n + 1  BY <1>1, <1>4
    <3> QED  BY ONLY <1>1, <1>2, <1>4, <2>1, <2>2, <3>1, <3>2, <3>3 DEF ChainAt
  <2>4. CASE e.evt # "GAP_CONNECTION_EVT"
    <3>1. Conns(h)' = Conns(h)  BY <2>1, <2>2, <2>4 DEF Conns
    <3>2. (links'[h] = None /\ e.arg = None) \/ (links'[h] = links[h] /\ e.arg = links[h])
      BY <1>3, <1>6, <2>4 DEF Emits, Message
    <3>3. Conns(h) = {} => e.arg \in {connectedDevices[h], None}  BY <1>2, <3>2 DEF ChainAt
    <3>4. \A i \in News(h) : (\A c \in Conns(h) : c <= i) => e.arg \in {fromDongle[i].arg, None}
      BY <1>2, <3>2 DEF ChainAt
    <3>5. \A c \in Conns(h) : ~(c > n + 1)  BY <1>1, <1>4
    <3>6. \A j \in News(h)' : (\A c \in Conns(h)' : c > j)
                                => fromDongle'[j].arg \in {connectedDevices'[h], None}
      BY ONLY <1>1, <1>2, <1>4, <2>1, <2>2, <3>1, <3>3, <3>5 DEF ChainAt
    <3>7. \A i, j \in News(h)' : i < j /\ (\A c \in Conns(h)' : c <= i \/ c > j)
                                   => fromDongle'[j].arg \in {fromDongle'[i].arg, None}
      <4> SUFFICES ASSUME NEW i \in News(h)', NEW j \in News(h)', i < j,
                          \A c \in Conns(h)' : c <= i \/ c > j
                   PROVE  fromDongle'[j].arg \in {fromDongle'[i].arg, None}
        OBVIOUS
      <4>1. i \in News(h) /\ i \in 1 .. n /\ j \in 1 .. n + 1  BY ONLY <1>1, <1>4, <2>1, i < j
      <4>2. CASE j = n + 1  BY <2>2, <3>1, <3>4, <3>5, <4>1, <4>2
      <4>3. CASE j # n + 1  BY <1>2, <2>1, <2>2, <3>1, <4>1, <4>3 DEF ChainAt
      <4> QED  BY <4>2, <4>3
    <3>8. Conns(h)' = {} => links'[h] \in {connectedDevices'[h], None}
      BY <1>2, <3>1, <3>2 DEF ChainAt
    <3>9. \A i \in News(h)' : (\A c \in Conns(h)' : c <= i) => links'[h] \in {fromDongle'[i].arg, None}
      BY <1>2, <2>1, <2>2, <3>1, <3>2 DEF ChainAt
    <3> QED  BY ONLY <3>6, <3>7, <3>8, <3>9 DEF ChainAt
  <2> QED  BY <2>3, <2>4
<1> QED  BY <1>5, <1>6

\* What the driver reads about a connection is what it then knows of it.
LEMMA ChainReceive ==
  ASSUME TypeOK, RegisterDiscipline, Chain, Receive
  PROVE  Chain'
<1> SUFFICES ASSUME NEW h \in Handle PROVE ChainAt(h)'  BY DEF Chain
<1> DEFINE n == Len(fromDongle)
<1>1. /\ n \in Nat \ {0} /\ First = fromDongle[1] /\ First \in Message
      /\ DOMAIN fromDongle = 1 .. n /\ DOMAIN fromDongle' = 1 .. n - 1
      /\ \A i \in 1 .. n - 1 : fromDongle'[i] = fromDongle[i + 1]
      /\ links' = links /\ connectedDevices' = FollowsLinks(First)
  BY Read
<1>2. ChainAt(h)  BY DEF Chain
<1>3. /\ \A i \in News(h)' : i \in 1 .. n - 1 /\ i + 1 \in News(h) /\ fromDongle'[i] = fromDongle[i + 1]
      /\ \A i \in News(h) : i \in 1 .. n /\ (i = 1 \/ i - 1 \in News(h)')
  BY <1>1 DEF News
<1>4. /\ \A c \in Conns(h)' : c \in Nat /\ c + 1 \in Conns(h)
      /\ \A c \in Conns(h) : c \in 1 .. n /\ c \in News(h) /\ (c = 1 \/ c - 1 \in Conns(h)')
  BY <1>3 DEF Conns
<1>5. First.evt \in LinkEvents /\ First.ch = h => connectedDevices'[h] = First.arg /\ 1 \in News(h)
  <2>1. connectedDevices \in [Handle -> Mac \cup {None}]  BY DEF TypeOK, DevicesOK
  <2>2. First.evt = "CONNECTION_DISCONNECT_EVT" => First.arg = None  BY <1>1 DEF Message
  <2> QED  BY <1>1, <2>1, <2>2 DEF FollowsLinks, LinkEvents, News
<1>6. ~(First.evt \in LinkEvents /\ First.ch = h) =>
        connectedDevices'[h] = connectedDevices[h] /\ 1 \notin News(h)
  <2>1. connectedDevices \in [Handle -> Mac \cup {None}]  BY DEF TypeOK, DevicesOK
  <2> QED  BY <1>1, <2>1 DEF FollowsLinks, LinkEvents, News
<1>7. \A c \in Conns(h) : c # 1 => c - 1 \in Conns(h)' /\ c \in 2 .. n  BY <1>4
<1>8. \A j \in News(h)' : (\A c \in Conns(h)' : c > j)
                            => fromDongle'[j].arg \in {connectedDevices'[h], None}
  <2> SUFFICES ASSUME NEW j \in News(h)', \A c \in Conns(h)' : c > j
               PROVE  fromDongle'[j].arg \in {connectedDevices'[h], None}
    OBVIOUS
  <2>1. j \in Nat \ {0} /\ j + 1 \in News(h) /\ fromDongle'[j] = fromDongle[j + 1]  BY <1>3
  <2>2. CASE First.evt \in LinkEvents /\ First.ch = h
    <3>1. 1 \in News(h) /\ 1 < j + 1  BY <1>5, <2>1, <2>2
    <3>2. \A c \in Conns(h) : c <= 1 \/ c > j + 1  BY <1>7, <2>1
    <3>3. fromDongle[j + 1].arg \in {fromDongle[1].arg, None}
      BY ONLY <1>2, <2>1, <3>1, <3>2 DEF ChainAt
    <3> QED  BY <1>1, <1>5, <2>1, <2>2, <3>3
  <2>3. CASE ~(First.evt \in LinkEvents /\ First.ch = h)
    <3>1. \A c \in Conns(h) : c > j + 1  BY <1>4, <1>6, <1>7, <2>1, <2>3
    <3> QED  BY <1>2, <1>6, <2>1, <2>3, <3>1 DEF ChainAt
  <2> QED  BY <2>2, <2>3
<1>9. \A i, j \in News(h)' : i < j /\ (\A c \in Conns(h)' : c <= i \/ c > j)
                               => fromDongle'[j].arg \in {fromDongle'[i].arg, None}
  <2> SUFFICES ASSUME NEW i \in News(h)', NEW j \in News(h)', i < j,
                      \A c \in Conns(h)' : c <= i \/ c > j
               PROVE  fromDongle'[j].arg \in {fromDongle'[i].arg, None}
    OBVIOUS
  <2>1. /\ i \in Nat \ {0} /\ i + 1 \in News(h) /\ fromDongle'[i] = fromDongle[i + 1]
        /\ j \in Nat \ {0} /\ j + 1 \in News(h) /\ fromDongle'[j] = fromDongle[j + 1]
    BY <1>3
  <2>2. \A c \in Conns(h) : c <= i + 1 \/ c > j + 1
    <3> SUFFICES ASSUME NEW c \in Conns(h) PROVE c <= i + 1 \/ c > j + 1  OBVIOUS
    <3>1. c \in 1 .. n /\ (c = 1 \/ c - 1 \in Conns(h)')  BY <1>4
    <3> QED  BY <1>1, <2>1, <3>1
  <2> QED  BY ONLY <1>2, <2>1, <2>2, i < j DEF ChainAt
<1>10. Conns(h)' = {} => links'[h] \in {connectedDevices'[h], None}
  <2> SUFFICES ASSUME Conns(h)' = {} PROVE links'[h] \in {connectedDevices'[h], None}  OBVIOUS
  <2>1. CASE First.evt \in LinkEvents /\ First.ch = h
    <3>1. \A c \in Conns(h) : c <= 1  BY <1>7
    <3> QED  BY <1>1, <1>2, <1>5, <2>1, <3>1 DEF ChainAt
  <2>2. CASE ~(First.evt \in LinkEvents /\ First.ch = h)
    <3>1. Conns(h) = {}  BY <1>4, <1>6, <2>2
    <3> QED  BY <1>1, <1>2, <1>6, <2>2, <3>1 DEF ChainAt
  <2> QED  BY <2>1, <2>2
<1>11. \A i \in News(h)' : (\A c \in Conns(h)' : c <= i) => links'[h] \in {fromDongle'[i].arg, None}
  <2> SUFFICES ASSUME NEW i \in News(h)', \A c \in Conns(h)' : c <= i
               PROVE  links'[h] \in {fromDongle'[i].arg, None}
    OBVIOUS
  <2>1. i \in Nat \ {0} /\ i + 1 \in News(h) /\ fromDongle'[i] = fromDongle[i + 1]  BY <1>3
  <2>2. \A c \in Conns(h) : c <= i + 1
    <3> SUFFICES ASSUME NEW c \in Conns(h) PROVE c <= i + 1  OBVIOUS
    <3>1. c \in 1 .. n /\ (c = 1 \/ c - 1 \in Conns(h)')  BY <1>4
    <3> QED  BY <1>1, <2>1, <3>1
  <2> QED  BY ONLY <1>1, <1>2, <2>1, <2>2 DEF ChainAt
<1> QED  BY ONLY <1>8, <1>9, <1>10, <1>11 DEF ChainAt

\* The client takes unread news along, the latest first; its dongle has no links left.
LEMMA ChainCut ==
  ASSUME TypeOK, Chain, ClientDies
  PROVE  Chain'
<1> SUFFICES ASSUME NEW h \in Handle PROVE ChainAt(h)'  BY DEF Chain
<1>1. PICK n \in 0 .. Len(fromDongle) :
        /\ DOMAIN fromDongle' = 1 .. n
        /\ \A i \in 1 .. n : i \in DOMAIN fromDongle /\ fromDongle'[i] = fromDongle[i]
  BY Cut
<1>2. links'[h] = None /\ connectedDevices' = connectedDevices /\ DOMAIN fromDongle = 1 .. Len(fromDongle)
  BY Cut
<1>3. ChainAt(h) /\ Len(fromDongle) \in Nat  BY DEF Chain, TypeOK, ChannelsOK
<1>4. /\ News(h)' = {i \in News(h) : i <= n} /\ \A i \in News(h)' : fromDongle'[i] = fromDongle[i]
      /\ \A i \in News(h) : i \in Nat
  BY <1>1, <1>2, <1>3 DEF News
<1>5. Conns(h)' = {i \in Conns(h) : i <= n} /\ \A i \in Conns(h) : i \in Nat
  BY <1>4 DEF Conns
<1>6. \A j \in News(h)' : (\A c \in Conns(h)' : c > j)
                            => fromDongle'[j].arg \in {connectedDevices'[h], None}
  <2> SUFFICES ASSUME NEW j \in News(h)', \A c \in Conns(h)' : c > j
               PROVE  fromDongle'[j].arg \in {connectedDevices'[h], None}
    OBVIOUS
  <2>1. \A c \in Conns(h) : c > j  BY <1>4, <1>5, n \in Nat
  <2> QED  BY <1>2, <1>3, <1>4, <2>1 DEF ChainAt
<1>7. \A i, j \in News(h)' : i < j /\ (\A c \in Conns(h)' : c <= i \/ c > j)
                               => fromDongle'[j].arg \in {fromDongle'[i].arg, None}
  <2> SUFFICES ASSUME NEW i \in News(h)', NEW j \in News(h)', i < j,
                      \A c \in Conns(h)' : c <= i \/ c > j
               PROVE  fromDongle'[j].arg \in {fromDongle'[i].arg, None}
    OBVIOUS
  <2>1. \A c \in Conns(h) : c <= i \/ c > j  BY <1>4, <1>5, n \in Nat
  <2> QED  BY <1>3, <1>4, <2>1 DEF ChainAt
<1> QED  BY <1>2, <1>6, <1>7 DEF ChainAt

LEMMA ChainStep ==
  ASSUME TypeOK, RegisterDiscipline, Chain, [Next]_vars
  PROVE  Chain'
<1>1. CASE UNCHANGED <<fromDongle, links, connectedDevices>>
  BY <1>1 DEF Chain, ChainAt, Conns, News
<1>2. CASE Construct \/ Send \/ SendThrows \/ ConnectFails \/ ScanEnds
  <2>1. UNCHANGED <<fromDongle, links, connectedDevices>>
    BY <1>2 DEF Construct, Send, SendThrows, ConnectFails, ScanEnds, Transmit, channel, dongle, devices
  <2> QED  BY <1>1, <2>1
<1>3. CASE Receive  BY <1>3, ChainReceive
<1>4. CASE ReceiveEof \/ PollTimesOut \/ WaitTimesOut \/ WaitFails \/ NextStep \/ Complete
           \/ WorkerEnds \/ Poll \/ ProcessDies \/ Over \/ UNCHANGED vars
  <2>1. UNCHANGED <<fromDongle, links, connectedDevices>>
    BY <1>4 DEF ReceiveEof, PollTimesOut, WaitTimesOut, WaitFails, NextStep, Complete, WorkerEnds,
                Poll, ProcessDies, Over, vars, channel, dongle, devices
  <2> QED  BY <1>1, <2>1
<1>5. CASE Request
  <2>1. UNCHANGED <<fromDongle, links, connectedDevices>>
    BY <1>5 DEF Request, StartOnConnection, AnswerAtOnce, StartConnect, StartGlobal, Start,
                channel, dongle, devices
  <2> QED  BY <1>1, <2>1
<1>6. CASE DongleExecutes
  <2>1. PICK code \in {Ok, DongleError} :
          Answers(code) /\ Event(ResponseTo[Due.cmd], Due.ch, None, code) \in Message
    BY <1>6, Executed
  <2> DEFINE e == Event(ResponseTo[Due.cmd], Due.ch, None, code)
             n == Len(fromDongle)
  <2>2. e.evt \notin LinkEvents  BY <1>6, Executed DEF Event, ResponseTo, CommandName, LinkEvents
  <2>3. /\ n \in Nat /\ DOMAIN fromDongle = 1 .. n /\ DOMAIN fromDongle' = 1 .. n + 1
        /\ fromDongle'[n + 1] = e /\ \A i \in 1 .. n : fromDongle'[i] = fromDongle[i]
    BY <2>1, Queued DEF Answers
  <2>4. links' = links /\ connectedDevices' = connectedDevices  BY <1>6, Executed
  <2> HIDE DEF e
  <2>5. \A h \in Handle : News(h)' = News(h) /\ \A i \in News(h) : fromDongle'[i] = fromDongle[i]
    BY <2>2, <2>3 DEF News
  <2> QED  BY <2>4, <2>5, ChainElsewhere DEF Chain
<1>7. CASE Spontaneous  BY <1>7, Emitted, ChainEmit
<1>8. CASE ClientDies  BY <1>8, ChainCut
<1> QED  BY <1>2, <1>3, <1>4, <1>5, <1>6, <1>7, <1>8 DEF Next, Work

-----------------------------------------------------------------------------
(* A command acts on the device it was given                               *)

\* While no connect runs, a handle can only lose its device.
LEMMA NoNewDevice ==
  ASSUME TypeOK, ConnectionInv, Chain, call.op # "connect", NEW h \in Handle
  PROVE  /\ links[h] \in {connectedDevices[h], None}
         /\ \A j \in News(h) : fromDongle[j].arg \in {connectedDevices[h], None}
<1>1. DOMAIN fromDongle = 1 .. Len(fromDongle)  BY DEF TypeOK, ChannelsOK
<1>2. Conns(h) \subseteq Later(0, "GAP_CONNECTION_EVT")  BY <1>1 DEF Conns, News, Later
<1>3. Conns(h) = {}  BY <1>2 DEF ConnectionInv
<1>4. ChainAt(h)  BY DEF Chain
<1> QED  BY <1>3, <1>4 DEF ChainAt

\* Steps that leave the command, its result and the driver's devices alone.
LEMMA TargetElsewhere ==
  ASSUME TargetInv, connectedDevices' = connectedDevices,
         pc' \in {"send", "wait"} =>
           /\ pc \in {"send", "wait"}
           /\ call'.op = call.op /\ call'.mac = call.mac /\ call'.handle = call.handle,
         pc' = "return" => pc = "return" /\ UNCHANGED <<call, result>>
  PROVE  TargetInv'
<1>1. OnConnection(call.op)' /\ pc' \in {"send", "wait"} =>
        connectedDevices'[call'.handle] \in {call'.mac, None}
  BY DEF TargetInv, OnConnection
<1>2. ReplyIsForTarget'
  <2>1. CASE pc' = "return"  BY <2>1 DEF TargetInv, ReplyIsForTarget, Succeeds
  <2>2. CASE pc' # "return"  BY <2>2 DEF ReplyIsForTarget, Succeeds
  <2> QED  BY <2>1, <2>2
<1> QED  BY <1>1, <1>2 DEF TargetInv

LEMMA TargetReceive ==
  ASSUME TypeOK, RegisterDiscipline, ConnectionInv, Chain, TargetInv, Receive
  PROVE  TargetInv'
<1>1. call' = call /\ pc' # "return" /\ connectedDevices' = FollowsLinks(First)  BY Read
<1>2. ASSUME OnConnection(call.op), pc' \in {"send", "wait"}
      PROVE  connectedDevices'[call.handle] \in {call.mac, None}
  <2>1. pc = "wait"  BY <1>2, Read
  <2>2. call.handle \in Handle /\ connectedDevices[call.handle] \in {call.mac, None}
    BY <1>2, <2>1 DEF TypeOK, CallOK, TargetInv
  <2>3. call.op # "connect"  BY <1>2 DEF OnConnection
  <2>4. connectedDevices \in [Handle -> Mac \cup {None}]  BY DEF TypeOK, DevicesOK
  <2>5. CASE First.evt \in LinkEvents /\ First.ch = call.handle
    <3>1. 1 \in News(call.handle) /\ First = fromDongle[1]  BY <2>5, Read DEF News
    <3>2. First.arg \in {connectedDevices[call.handle], None}
      BY <2>2, <2>3, <3>1, NoNewDevice
    <3>3. connectedDevices'[call.handle] \in {First.arg, None}
      BY <1>1, <2>2, <2>4, <2>5 DEF FollowsLinks, LinkEvents
    <3> QED  BY <2>2, <3>2, <3>3
  <2>6. CASE ~(First.evt \in LinkEvents /\ First.ch = call.handle)
    <3>1. connectedDevices'[call.handle] = connectedDevices[call.handle]
      BY <1>1, <2>2, <2>4, <2>6 DEF FollowsLinks, LinkEvents
    <3> QED  BY <2>2, <3>1
  <2> QED  BY <2>5, <2>6
<1> QED  BY <1>1, <1>2 DEF TargetInv, ReplyIsForTarget, Succeeds, OnConnection

LEMMA TargetRequest ==
  ASSUME TypeOK, TargetInv, Request
  PROVE  TargetInv'
<1>1. ASSUME NEW op \in Ops \ {"discover", "info", "connected"}, NEW mac \in Mac,
             NEW attr \in Operands(op), StartOnConnection(op, mac, attr)
      PROVE  TargetInv'
  <2>1. PICK h \in HandlesOf(mac) : Start(IF op = "connect" THEN "update" ELSE op, mac, attr, h)
    BY <1>1 DEF StartOnConnection
  <2>2. pc' = "send" /\ call'.handle = h /\ call'.mac = mac /\ connectedDevices' = connectedDevices
    BY <2>1 DEF Start, devices
  <2>3. connectedDevices[h] = mac  BY DEF HandlesOf
  <2> QED  BY <2>2, <2>3 DEF TargetInv, ReplyIsForTarget, Succeeds
<1>2. ASSUME NEW op \in Ops, NEW mac \in Mac, NEW attr \in Operands(op), AnswerAtOnce(op, mac, attr)
      PROVE  TargetInv'
  <2>1. /\ pc' = "return" /\ call'.op = op /\ call'.mac = mac /\ connectedDevices' = connectedDevices
        /\ \/ result'.ch = NoHandle
           \/ op = "discover"
           \/ \E h \in HandlesOf(mac) : result'.ch = h
    BY <1>2 DEF AnswerAtOnce, NoCall, devices
  <2> QED  BY <2>1 DEF TargetInv, ReplyIsForTarget, Succeeds, HandlesOf
<1>3. ASSUME NEW op, NEW mac, NEW attr, op \in {"connect", "discover", "info"}, Start(op, mac, attr, 0)
      PROVE  TargetInv'
  <2>1. pc' = "send" /\ call'.op = op  BY <1>3 DEF Start
  <2> QED  BY <1>3, <2>1 DEF TargetInv, ReplyIsForTarget, Succeeds, OnConnection
<1> QED  BY <1>1, <1>2, <1>3 DEF Request, StartConnect, StartGlobal

LEMMA TargetStep ==
  ASSUME TypeOK, RegisterDiscipline, CommandInv, ConnectionInv, Chain, TargetInv, [Next]_vars
  PROVE  TargetInv'
<1>1. CASE Receive  BY <1>1, TargetReceive
<1>2. CASE Construct \/ PollTimesOut \/ WorkerEnds \/ Poll \/ ProcessDies
  <2>1. connectedDevices' = connectedDevices /\ pc' \notin {"send", "wait", "return"}
    BY <1>2 DEF Construct, PollTimesOut, WorkerEnds, Poll, ProcessDies, devices
  <2> QED  BY <2>1, TargetElsewhere
<1>3. CASE Send \/ NextStep \/ WaitTimesOut \/ ReceiveEof
  <2>1. /\ connectedDevices' = connectedDevices
        /\ pc' \in {"send", "wait"} => pc \in {"send", "wait"}
        /\ pc' # "return"
    BY <1>3 DEF Send, NextStep, WaitTimesOut, ReceiveEof, Reading, WaitOver, devices
  <2>2. call'.op = call.op /\ call'.mac = call.mac /\ call'.handle = call.handle
    BY <1>3 DEF Send, NextStep, WaitTimesOut, ReceiveEof, TypeOK, CallOK
  <2> QED  BY <2>1, <2>2, TargetElsewhere
<1>4. CASE SendThrows \/ WaitFails \/ ConnectFails
  <2>1. pc' = "return" /\ result'.code # Ok
    BY <1>4 DEF SendThrows, WaitFails, ConnectFails, Return, WaitOver, Exception, Ok
  <2> QED  BY <2>1 DEF TargetInv, ReplyIsForTarget, Succeeds
<1>5. CASE ScanEnds
  <2>1. pc' = "return" /\ call'.op = "discover"
    BY <1>5 DEF ScanEnds, Return, CommandInv, SoundInv
  <2> QED  BY <2>1 DEF TargetInv, ReplyIsForTarget, Succeeds
<1>6. CASE Complete
  <2>1. pc = "wait" /\ call' = call /\ connectedDevices' = connectedDevices
    BY <1>6 DEF Complete, WaitOver, Return, devices
  <2>2. CASE call.op \in {"update", "read", "readall"}
    <3>1. connectedDevices[call.handle] \in {call.mac, None}
      BY <2>1, <2>2 DEF TargetInv, OnConnection
    <3>2. \/ result'.ch = NoHandle
          \/ result'.ch = call.handle /\ connectedDevices[call.handle] # None
      BY <1>6, <2>2 DEF Complete, Return
    <3>3. pc' = "return"  BY <1>6, <2>2 DEF Complete, Return
    <3> QED  BY <2>1, <3>1, <3>2, <3>3 DEF TargetInv, ReplyIsForTarget, Succeeds
  <2>3. CASE call.op \notin {"update", "read", "readall"}
    <3>1. pc' \in {"return", "scan"}  BY <1>6 DEF Complete, Return
    <3> QED  BY <2>1, <2>3, <3>1 DEF TargetInv, ReplyIsForTarget, Succeeds
  <2> QED  BY <2>2, <2>3
<1>7. CASE Request  BY <1>7, TargetRequest
<1>8. CASE DongleExecutes \/ Spontaneous \/ ClientDies
  <2>1. UNCHANGED <<connectedDevices, pc, call, result>>
    BY <1>8, Executed, Emitted, Cut DEF Emits
  <2> QED  BY <2>1, TargetElsewhere
<1>9. CASE Over \/ UNCHANGED vars
  <2>1. UNCHANGED <<connectedDevices, pc, call, result>>  BY <1>9 DEF Over, vars, devices
  <2> QED  BY <2>1, TargetElsewhere
<1> QED  BY <1>1, <1>2, <1>3, <1>4, <1>5, <1>6, <1>7, <1>8, <1>9 DEF Next, Work

DeviceInv == ConnectionInv /\ Chain /\ TargetInv

LEMMA DeviceInit == Init => DeviceInv
<1> SUFFICES ASSUME Init PROVE DeviceInv  OBVIOUS
<1>1. ConnectionInv  BY GapAssumption DEF Init, ConnectionInv, Later
<1>2. Chain  BY DEF Init, Chain, ChainAt, Conns, News
<1>3. TargetInv  BY DEF Init, TargetInv, ReplyIsForTarget, Succeeds
<1> QED  BY <1>1, <1>2, <1>3 DEF DeviceInv

LEMMA DeviceCorrect ==
  ASSUME ResponsesInTime, ConnectInTime
  PROVE  Spec => []DeviceInv
<1>1. Init => DeviceInv  BY DeviceInit
<1>2. TypeOK /\ RegisterDiscipline /\ CommandInv /\ DeviceInv /\ [Next]_vars => DeviceInv'
  BY ConnectionStep, ChainStep, TargetStep DEF DeviceInv
<1>3. Spec => []TypeOK  BY TypeCorrect
<1>4. Spec => []RegisterDiscipline  BY RegisterCorrect
<1>5. Spec => []CommandInv  BY CommandCorrect
<1> QED  BY <1>1, <1>2, <1>3, <1>4, <1>5, PTL DEF Spec

\* A read, a read of all attributes and an update look their connection handle up once more at
\* their end (ReadAttribute, ReadAllAttributes and Connect in BLE_DRIVER.cpp).  The data they return is of the device they were asked for, on whatever
\* handle, as long as responses come within their 200 s and an attempt to connect is not given up
\* before the connection it makes is reported.
THEOREM ReplyOfTarget ==
  ASSUME ResponsesInTime, ConnectInTime
  PROVE  Spec => []ReplyIsForTarget
<1>1. DeviceInv => ReplyIsForTarget  BY DEF DeviceInv, TargetInv
<1> QED  BY <1>1, DeviceCorrect, PTL

\* The only procedure that the dongle begins is the one that the command under way asks for.
LEMMA WriteBegins ==
  ASSUME TypeOK, CommandInv, DeviceInv, DongleExecutes, NEW h \in Handle,
         running'[h] # running[h], running'[h].cmd = "attribute_write"
  PROVE  pc = "wait" /\ links[h] = call.mac
<1>1. PICK code \in {Ok, DongleError} : Answers(code)  BY Executed
<1>2. running \in [Handle -> [cmd : GattCommand \cup {"none"}, arg : Subject]]
  BY DEF TypeOK, DongleOK
<1>3. Executable(Due) /\ Due.cmd = "attribute_write" /\ Due.ch = h
  BY <1>1, <1>2 DEF Answers, CarriesOut
<1>4. pc = "wait" /\ Current.send = "attribute_write" /\ WaitChannel = h
  BY <1>3, CommandIsCurrent DEF CommandInv, Plain, AwaitsResponse
<1>5. call.op \in {"read", "write", "readall"}
  BY <1>4, CurrentShape DEF TypeOK, GattCommand
<1>6. call.handle = h /\ connectedDevices[h] \in {call.mac, None}
  BY <1>4, <1>5 DEF WaitChannel, OnConnection, DeviceInv, TargetInv
<1>7. links[h] \in {connectedDevices[h], None}  BY <1>5, NoNewDevice DEF DeviceInv
<1>8. links[h] # None  BY <1>3 DEF Executable, GattCommand, Linked
<1> QED  BY <1>4, <1>6, <1>7, <1>8

\* The handle in a write was looked up when the request came in (WriteAttribute,
\* BLE_DRIVER.cpp:590); when the dongle executes it the handle still denotes that device, though
\* links end and come to be at any time.
THEOREM WriteReachesTarget ==
  ASSUME ResponsesInTime, ConnectInTime
  PROVE  Spec => WritesReachTarget
<1>1. TypeOK /\ CommandInv /\ DeviceInv /\ [Next]_vars =>
        [\A h \in Handle : running'[h] # running[h] /\ running'[h].cmd = "attribute_write"
                           => pc = "wait" /\ links[h] = call.mac]_vars
  <2> SUFFICES ASSUME TypeOK, CommandInv, DeviceInv, Next, NEW h \in Handle,
                      running'[h] # running[h], running'[h].cmd = "attribute_write"
               PROVE  pc = "wait" /\ links[h] = call.mac
    OBVIOUS
  <2>1. Idle.cmd # "attribute_write"  BY DEF Idle
  <2>2. running \in [Handle -> [cmd : GattCommand \cup {"none"}, arg : Subject]]
    BY DEF TypeOK, DongleOK
  <2>3. ~Spontaneous  BY <2>1, <2>2, Emitted DEF Emits
  <2>4. ~ClientDies  BY <2>1 DEF ClientDies
  <2>5. ~Work
    BY DEF Work, Construct, Send, SendThrows, Receive, ReceiveEof, PollTimesOut, WaitTimesOut,
           WaitFails, ConnectFails, NextStep, Complete, ScanEnds, WorkerEnds, dongle
  <2>6. ~Request
    BY DEF Request, StartOnConnection, AnswerAtOnce, StartConnect, StartGlobal, Start, dongle
  <2>7. ~Poll /\ ~ProcessDies /\ ~Over  BY DEF Poll, ProcessDies, Over, vars, dongle
  <2> QED  BY <2>3, <2>4, <2>5, <2>6, <2>7, WriteBegins DEF Next
<1> QED  BY <1>1, CommandCorrect, DeviceCorrect, TypeCorrect, PTL DEF Spec, WritesReachTarget
=============================================================================
