----------------------------- MODULE BledDriver -----------------------------
(***************************************************************************)
(* The BLED112 driver object of the gateway application                    *)
(* (BLEGatewayApplication/BLE_DRIVER.cpp) as one BLEWorker thread runs it: *)
(* blocking commands that are scripts of BGAPI commands, each followed by  *)
(* a wait for its response and for the events it causes, and the callbacks *)
(* that every incoming message triggers meanwhile.                         *)
(*                                                                         *)
(* The other end is the dongle behind the client program: two FIFO         *)
(* channels, the dongle's own links, its GAP procedure and the GATT        *)
(* procedure running on each link.  Only its interface is known here; it   *)
(* answers every command and may add events of its own at any time.        *)
(***************************************************************************)
EXTENDS Integers, Sequences, FiniteSets, Scripts

CONSTANTS
  Handle,      \* connection handles of the dongle
  Mac,         \* addresses of the BLE devices in reach
  Attribute,   \* attribute handles of a device
  None,        \* no device, no attribute
  Ops,         \* the commands the HTTP side issues
  MayTimeOut,  \* completion events whose wait can outlast its timeout
  ChannelCap,  \* bound on the commands under way to the dongle
  EventCap     \* bound on the unread messages when the dongle adds an event or time runs out

AllOps == {"connect", "disconnect", "read", "write", "readall",
           "discover", "info", "connected"}

\* Internal completion events, the bit flags of enum COMPLETION_EVENT.
Responses == {"GAP_CONNECTION_RSP_EVT", "GAP_DISCOVER_RSP_EVT",
              "CONNECTION_UPDATE_RSP_EVT", "CONNECTION_DISCONNECT_RSP_EVT",
              "ATTCLIENT_READ_RSP_EVT", "ATTCLIENT_WRITE_RSP_EVT",
              "ATTCLIENT_READGROUP_RSP_EVT", "ATTCLIENT_FINDINFO_RSP_EVT",
              "GAP_ENDPROCEDURE_RSP_EVT", "GAP_SET_SCANPARAMETER_RSP_EVT",
              "SYS_GET_MAXCON_RSP_EVT", "SYS_GET_INFO_RSP_EVT"}
LinkEvents == {"GAP_CONNECTION_EVT", "CONNECTION_UPDATE_EVT",
               "CONNECTION_DISCONNECT_EVT"}
GattEvents == {"GATT_PROCEDURE_COMPLETE_EVT", "ATTCLIENT_ATTRIBUTE_FOUND_EVT"}
CompletionEvent == Responses \cup LinkEvents \cup GattEvents

ASSUME HandleAssumption == Handle \subseteq 0 .. 255 /\ Handle # {}
ASSUME NoneAssumption == None \notin Mac \cup Attribute
ASSUME GapAssumption == Mac \cap {"idle", "scanning"} = {}
ASSUME WorkloadAssumption == Ops \subseteq AllOps /\ MayTimeOut \subseteq CompletionEvent
ASSUME BoundAssumption == ChannelCap \in Nat \ {0, 1} /\ EventCap \in Nat

\* Error codes of a wait or of a Result: success, an exception, a timeout, the
\* connection is gone, and any error code of the dongle.
Ok == 0
Exception == 1
TimedOut == 2
Gone == 3
DongleError == 4
Code == {Ok, Exception, TimedOut, Gone, DongleError}

NoHandle == -1
Subject == Mac \cup Attribute \cup {None}
Channel == Handle \cup {0}    \* ch = 0 also stands for "no particular connection"

CommandName == {"get_info", "get_connections", "connect_direct", "end_procedure",
                "set_scan_parameters", "discover", "update", "disconnect",
                "find_information", "read_by_group_type", "read_by_handle",
                "attribute_write"}
GattCommand == {"find_information", "read_by_group_type", "read_by_handle",
                "attribute_write"}
LinkCommand == GattCommand \cup {"update", "disconnect"}
Idle == [cmd |-> "none", arg |-> None]

\* A BGAPI command; a message of the dongle: evt is the completion event that its callback
\* posts (scan reports post none), ch the connection it is about.
Command == {c \in [cmd : CommandName, ch : Channel, arg : Subject] :
              /\ c.cmd = "connect_direct" => c.arg \in Mac
              /\ c.cmd \in LinkCommand => c.ch \in Handle}
Message == {m \in [evt : CompletionEvent \cup {"scan_response"}, ch : Channel,
                   arg : Subject, code : {Ok, DongleError}] :
              /\ m.evt \in LinkEvents => m.ch \in Handle /\ m.arg \in Mac \cup {None}
              /\ m.evt = "CONNECTION_DISCONNECT_EVT" => m.arg = None
              /\ m.evt = "scan_response" => m.arg \in Mac}

VARIABLES
  open,         \* the TCP connection between client and gateway stands
  toDongle,     \* commands under way to the dongle
  fromDongle,   \* responses and events under way to the driver
  links,        \* the dongle: device of each connection handle
  gap,          \* the dongle: its GAP procedure
  running,      \* the dongle: GATT procedure of each connection
  isConnected, connectedDevices, discoveredDevices, completionEventRegister,
  eventOccurred, errorCode,   \* of the wait under way
  released,     \* history: the message that ended the last wait, if one did
  pc,           \* where the worker thread is
  call,         \* the command it executes, its locals and its step
  result        \* what the command returned

channel == <<open, toDongle, fromDongle>>
dongle == <<links, gap, running>>
wait == <<completionEventRegister, eventOccurred, errorCode, released>>
devices == <<connectedDevices, discoveredDevices>>
vars == <<channel, dongle, wait, devices, isConnected, pc, call, result>>

NoCall == [op |-> "none", mac |-> None, attr |-> None, handle |-> 0, step |-> 0]
NoResult == [code |-> Ok, ch |-> 0]
NoMessage == [evt |-> "none", ch |-> 0, arg |-> None, code |-> Ok]

-----------------------------------------------------------------------------
(* Where the worker is in the script of its command                        *)

Scripted == DOMAIN Script
Current == Script[call.op][call.step]
LastStep == call.step = Len(Script[call.op])
OnConnection(op) == op \in {"update", "disconnect", "read", "write", "readall"}
WaitChannel == IF OnConnection(call.op) THEN call.handle ELSE 0

-----------------------------------------------------------------------------
Init ==
  /\ open = TRUE /\ toDongle = <<>> /\ fromDongle = <<>>
  /\ links = [h \in Handle |-> None] /\ gap = "idle"
  /\ running = [h \in Handle |-> Idle]
  /\ isConnected = FALSE
  /\ connectedDevices = [h \in Handle |-> None] /\ discoveredDevices = {}
  /\ completionEventRegister = {}
  /\ eventOccurred = FALSE /\ errorCode = Ok /\ released = NoMessage
  /\ pc = "start" /\ call = NoCall /\ result = NoResult

\* send() to the client: the kernel takes the bytes; after the client has gone they are lost.
Transmit(commands) ==
  \/ /\ open
     /\ Len(toDongle) + Len(commands) <= ChannelCap
     /\ toDongle' = toDongle \o commands
     /\ UNCHANGED <<open, fromDongle>>
  \/ ~open /\ UNCHANGED channel

BleCmd(name) == [cmd |-> name, ch |-> WaitChannel,
                 arg |-> IF name = "connect_direct" THEN call.mac
                         ELSE IF name \in {"find_information", "read_by_handle",
                                           "attribute_write"} THEN call.attr
                         ELSE None]

\* discover is preceded by the scan parameters; a step may also send nothing.
CommandsOf(name) ==
  CASE name = "none" -> <<>>
    [] name = "discover" -> << BleCmd("set_scan_parameters"), BleCmd("discover") >>
    [] OTHER -> << BleCmd(name) >>

Return(code, ch) ==
  /\ pc' = "return"
  /\ result' = [code |-> code, ch |-> ch]
  /\ UNCHANGED call

-----------------------------------------------------------------------------
(* The worker thread                                                       *)

\* The constructor asks for the dongle's data without waiting for the answers.
Construct ==
  /\ pc = "start"
  /\ Transmit(<< BleCmd("get_info"), BleCmd("get_connections") >>)
  /\ isConnected' = TRUE
  /\ pc' = "idle"
  /\ UNCHANGED <<dongle, wait, devices, call, result>>

\* A failed send in the constructor, or in UpdateBledInformation, is an exception that
\* nothing catches in this detached thread; a send on a connection the client has reset
\* raises SIGPIPE, which nothing ignores.  Either ends the whole gateway process.
ProcessDies ==
  /\ ~open
  /\ \/ pc = "start"
     \/ pc = "send" /\ Current.send # "none"
     \/ pc = "wait" /\ eventOccurred /\ errorCode # Ok /\ call.op = "connect" /\ LastStep
     \/ pc = "scan"
  /\ pc' = "dead"
  /\ UNCHANGED <<channel, dongle, wait, devices, isConnected, call, result>>

\* Mutant: the address is not compared.
AnyHandle(mac) == {h \in Handle : connectedDevices[h] # None}
HandlesOf(mac) == {h \in Handle : connectedDevices[h] = mac}   \* MACToConnectionHandle

Start(op, mac, attr, h) ==
  /\ call' = [op |-> op, mac |-> mac, attr |-> attr, handle |-> h, step |-> 1]
  /\ pc' = "send"
  /\ UNCHANGED <<channel, dongle, wait, devices, isConnected, result>>

Accept(op) == pc = "idle" /\ isConnected /\ op \in Ops

\* Commands for a device the driver knows as connected.  A connect for it is an update.
StartOnConnection(op, mac, attr) ==
  /\ Accept(op)
  /\ \E h \in HandlesOf(mac) :
       Start(IF op = "connect" THEN "update" ELSE op, mac, attr, h)

StartConnect(mac) ==
  /\ Accept("connect")
  /\ HandlesOf(mac) = {}
  /\ Start("connect", mac, None, 0)

StartGlobal(op) ==
  /\ Accept(op)
  /\ op \in {"discover", "info"}
  /\ Start(op, None, None, 0)

\* Answers that need no exchange with the dongle: an unknown device, the list of
\* connected devices, cached advertisements, an attribute whose cached value is young.
AnswerAtOnce(op, mac, attr) ==
  /\ Accept(op)
  /\ call' = [NoCall EXCEPT !.op = op, !.mac = mac, !.attr = attr]
  /\ pc' = "return"
  /\ \/ /\ op \in {"disconnect", "read", "readall", "write"} /\ HandlesOf(mac) = {}
        /\ result' = [code |-> IF op = "write" THEN Gone ELSE Ok, ch |-> NoHandle]
     \/ /\ op = "connected"
        /\ result' = [code |-> Ok, ch |-> NoHandle]
     \/ /\ op = "discover"
        /\ result' = NoResult
     \/ /\ op = "read"
        /\ \E h \in HandlesOf(mac) : result' = [code |-> Ok, ch |-> h]
  /\ UNCHANGED <<channel, dongle, wait, devices, isConnected>>

\* Send the next command of the script and register for its answer.
Send ==
  /\ pc = "send"
  /\ Current.send = "read_by_handle" => connectedDevices[call.handle] # None
  /\ Transmit(CommandsOf(Current.send))
  /\ discoveredDevices' = IF Current.send = "discover" THEN {} ELSE discoveredDevices
  /\ completionEventRegister' =
       completionEventRegister \cup {[ce |-> Current.on, ch |-> WaitChannel]}
  /\ eventOccurred' = FALSE
  /\ pc' = "wait"
  /\ UNCHANGED <<dongle, errorCode, released, connectedDevices, isConnected, call, result>>

\* The exception of a send that failed, or of a read on a vanished connection, becomes the
\* command's error; the discovered devices were cleared before the failing send.
SendThrows ==
  /\ pc = "send" /\ call.op # "info"
  /\ \/ ~open /\ Current.send # "none"
     \/ Current.send = "read_by_handle" /\ connectedDevices[call.handle] = None
  /\ discoveredDevices' = IF Current.send = "discover" THEN {} ELSE discoveredDevices
  /\ Return(Exception, IF call.op = "connect" THEN NoHandle ELSE WaitChannel)
  /\ UNCHANGED <<channel, dongle, wait, connectedDevices, isConnected>>

\* PostCompletionEvent: release and deregister every wait for an event of ce on ch.
Awaits(entry, ce, ch) == ce \cap entry.ce # {} /\ entry.ch = ch
Post(ce, ch, code, message) ==
  LET hits == {entry \in completionEventRegister : Awaits(entry, ce, ch)}
  IN  /\ completionEventRegister' = completionEventRegister \ hits
      /\ eventOccurred' = (eventOccurred \/ hits # {})
      /\ errorCode' = IF hits # {} THEN code ELSE errorCode
      /\ released' = IF hits # {} THEN message ELSE released

\* Mutant: a disconnected device stays in connectedDevices.
KeepsDisconnected(m) ==
  IF m.evt \in {"GAP_CONNECTION_EVT", "CONNECTION_UPDATE_EVT"}
  THEN [connectedDevices EXCEPT ![m.ch] = m.arg] ELSE connectedDevices
\* Mutant: link events are taken only while a command waits.
FollowsWhileWaiting(m) ==
  IF pc = "wait" /\ m.evt \in LinkEvents
  THEN [connectedDevices EXCEPT ![m.ch] = m.arg] ELSE connectedDevices

\* The status callback enters a connected device, the disconnect callback erases it.
FollowsLinks(m) ==
  CASE m.evt \in {"GAP_CONNECTION_EVT", "CONNECTION_UPDATE_EVT"} ->
         [connectedDevices EXCEPT ![m.ch] = m.arg]
    [] m.evt = "CONNECTION_DISCONNECT_EVT" -> [connectedDevices EXCEPT ![m.ch] = None]
    [] OTHER -> connectedDevices

CollectsScans(m) ==
  IF m.evt = "scan_response" THEN discoveredDevices \cup {m.arg} ELSE discoveredDevices

\* A new connection is posted on channel 0, whatever its handle.
PostChannel(m) == IF m.evt = "GAP_CONNECTION_EVT" THEN 0 ELSE m.ch

Reading == pc \in {"poll", "scan"} \/ (pc = "wait" /\ ~eventOccurred /\ isConnected)

\* ProcessTCPMsgFromSocket with a message there.
Receive ==
  /\ Reading
  /\ fromDongle # <<>>
  /\ LET m == Head(fromDongle)
     IN  /\ connectedDevices' = FollowsLinks(m) /\ discoveredDevices' = CollectsScans(m)
         /\ Post({m.evt}, PostChannel(m), m.code, m)
  /\ fromDongle' = Tail(fromDongle)
  /\ pc' = IF pc = "poll" THEN "idle" ELSE pc
  /\ UNCHANGED <<open, toDongle, dongle, isConnected, call, result>>

\* Mutant: the end of file is not remembered.
ReceiveEofForgotten ==
  /\ Reading /\ fromDongle = <<>> /\ ~open
  /\ pc' = IF pc = "poll" THEN "idle" ELSE pc
  /\ UNCHANGED <<channel, dongle, wait, devices, isConnected, call, result>>
\* ... with the connection closed and everything read ...
ReceiveEof ==
  /\ Reading /\ fromDongle = <<>> /\ ~open
  /\ isConnected' = FALSE
  /\ pc' = IF pc = "poll" THEN "idle" ELSE pc
  /\ UNCHANGED <<channel, dongle, wait, devices, call, result>>

\* ... and with nothing to read before the poll times out.
PollTimesOut ==
  /\ pc = "poll" /\ fromDongle = <<>> /\ open
  /\ pc' = "idle"
  /\ UNCHANGED <<channel, dongle, wait, devices, isConnected, call, result>>

\* Seconds of reading have left at most EventCap messages unread (a bound of the model).
KeepsUp == Len(fromDongle) <= EventCap

\* Mutant: a wait that runs out stays registered.
WaitTimesOutRegistered ==
  /\ pc = "wait" /\ ~eventOccurred /\ KeepsUp
  /\ ~isConnected \/ Current.on \cap MayTimeOut # {}
  /\ eventOccurred' = TRUE /\ errorCode' = TimedOut
  /\ UNCHANGED <<channel, dongle, completionEventRegister, released, devices, isConnected,
                 pc, call, result>>
\* Mutant: waits for responses, too, give up early.
WaitTimesOutEarly ==
  /\ pc = "wait" /\ ~eventOccurred /\ KeepsUp
  /\ Post(Current.on, WaitChannel, TimedOut, NoMessage)
  /\ UNCHANGED <<channel, dongle, devices, isConnected, pc, call, result>>
\* Mutant: only the loss of the connection ends a wait.
WaitWithoutTimeout ==
  /\ pc = "wait" /\ ~eventOccurred /\ ~isConnected
  /\ Post(Current.on, WaitChannel, TimedOut, NoMessage)
  /\ UNCHANGED <<channel, dongle, devices, isConnected, pc, call, result>>
\* The wait's time is up or the connection lost: the wait posts its own release.
WaitTimesOut ==
  /\ pc = "wait" /\ ~eventOccurred /\ KeepsUp
  /\ ~isConnected \/ Current.on \cap MayTimeOut # {}
  /\ Post(Current.on, WaitChannel, TimedOut, NoMessage)
  /\ UNCHANGED <<channel, dongle, devices, isConnected, pc, call, result>>

WaitOver == pc = "wait" /\ eventOccurred

\* An error ends the command, except that a connect must first stop the GAP procedure.
WaitFails ==
  /\ WaitOver /\ errorCode # Ok
  /\ ~(call.op = "connect" /\ LastStep)
  /\ Return(errorCode, IF call.op = "connect" THEN NoHandle ELSE WaitChannel)
  /\ UNCHANGED <<channel, dongle, wait, devices, isConnected>>

\* Sending end_procedure fails on a connection that is gone, with the code of an exception.
ConnectFails ==
  /\ WaitOver /\ errorCode # Ok
  /\ call.op = "connect" /\ LastStep
  /\ \/ Transmit(<< BleCmd("end_procedure") >>) /\ Return(errorCode, NoHandle)
     \/ ~open /\ UNCHANGED channel /\ Return(Exception, NoHandle)
  /\ UNCHANGED <<dongle, wait, devices, isConnected>>

NextStep ==
  /\ WaitOver /\ errorCode = Ok /\ ~LastStep
  /\ call' = [call EXCEPT !.step = @ + 1]
  /\ pc' = "send"
  /\ UNCHANGED <<channel, dongle, wait, devices, isConnected, result>>

\* Mutants: no second lookup of the connection; a sentinel no caller knows.
CompleteUnchecked ==
  /\ WaitOver /\ errorCode = Ok /\ LastStep
  /\ \/ call.op = "connect" /\ Return(Ok, NoHandle)
     \/ OnConnection(call.op) /\ Return(Ok, call.handle)
     \/ call.op = "info" /\ Return(Ok, 0)
     \/ call.op = "discover" /\ pc' = "scan" /\ UNCHANGED <<call, result>>
  /\ UNCHANGED <<channel, dongle, wait, devices, isConnected>>
CompleteSentinel ==
  /\ WaitOver /\ errorCode = Ok /\ LastStep
  /\ \/ call.op = "connect" /\ Return(Ok, NoHandle - 1)
     \/ OnConnection(call.op) /\ Return(Ok, call.handle)
  /\ UNCHANGED <<channel, dongle, wait, devices, isConnected>>
\* Commands that return data look the connection up again first.
Complete ==
  /\ WaitOver /\ errorCode = Ok /\ LastStep
  /\ \/ /\ call.op \in {"update", "read", "readall"}
        /\ IF connectedDevices[call.handle] # None
           THEN Return(Ok, call.handle) ELSE Return(Gone, NoHandle)
     \/ call.op = "connect" /\ Return(Ok, NoHandle)
     \/ call.op \in {"disconnect", "write", "info"} /\ Return(Ok, WaitChannel)
     \/ call.op = "discover" /\ pc' = "scan" /\ UNCHANGED <<call, result>>
  /\ UNCHANGED <<channel, dongle, wait, devices, isConnected>>

\* Mutant: the scan is not stopped.
ScanEndsSilently ==
  /\ pc = "scan" /\ KeepsUp
  /\ Return(Ok, 0)
  /\ UNCHANGED <<channel, dongle, wait, devices, isConnected>>
\* The discovery time is over: stop the scan without waiting for the response.
ScanEnds ==
  /\ pc = "scan" /\ KeepsUp
  /\ \/ Transmit(<< BleCmd("end_procedure") >>) /\ Return(Ok, 0)
     \/ ~open /\ UNCHANGED channel /\ Return(Exception, 0)
  /\ UNCHANGED <<dongle, wait, devices, isConnected>>

\* ExecuteWorkRequest has posted the answer, or there was no request: one look at the socket.
Poll ==
  /\ pc = "return" \/ (pc = "idle" /\ isConnected)
  /\ pc' = "poll" /\ call' = NoCall /\ result' = NoResult   \* locals go out of scope
  /\ eventOccurred' = FALSE /\ errorCode' = Ok /\ released' = NoMessage
  /\ UNCHANGED <<channel, dongle, completionEventRegister, devices, isConnected>>

WorkerEnds ==
  /\ pc = "idle" /\ ~isConnected
  /\ pc' = "closed"
  /\ UNCHANGED <<channel, dongle, wait, devices, isConnected, call, result>>

Work == \/ Construct \/ Send \/ SendThrows \/ Receive \/ ReceiveEof \/ PollTimesOut
        \/ WaitTimesOut \/ WaitFails \/ ConnectFails \/ NextStep \/ Complete
        \/ ScanEnds \/ WorkerEnds

Operands(op) == IF op \in {"read", "write"} THEN Attribute ELSE {None}
Request == \/ \E op \in Ops \ {"discover", "info", "connected"}, mac \in Mac :
                 \E attr \in Operands(op) : StartOnConnection(op, mac, attr)
           \/ \E op \in Ops, mac \in Mac : \E attr \in Operands(op) : AnswerAtOnce(op, mac, attr)
           \/ \E mac \in Mac : StartConnect(mac)
           \/ \E op \in Ops : StartGlobal(op)

-----------------------------------------------------------------------------
(* The dongle and the client in between: external, as the driver uses them *)

Event(evt, ch, arg, code) == [evt |-> evt, ch |-> ch, arg |-> arg, code |-> code]
Linked(h) == links[h] # None

ResponseTo ==
  [get_info |-> "SYS_GET_INFO_RSP_EVT", get_connections |-> "SYS_GET_MAXCON_RSP_EVT",
   connect_direct |-> "GAP_CONNECTION_RSP_EVT", end_procedure |-> "GAP_ENDPROCEDURE_RSP_EVT",
   set_scan_parameters |-> "GAP_SET_SCANPARAMETER_RSP_EVT",
   discover |-> "GAP_DISCOVER_RSP_EVT", update |-> "CONNECTION_UPDATE_RSP_EVT",
   disconnect |-> "CONNECTION_DISCONNECT_RSP_EVT",
   find_information |-> "ATTCLIENT_FINDINFO_RSP_EVT",
   read_by_group_type |-> "ATTCLIENT_READGROUP_RSP_EVT",
   read_by_handle |-> "ATTCLIENT_READ_RSP_EVT", attribute_write |-> "ATTCLIENT_WRITE_RSP_EVT"]

Executable(c) ==
  CASE c.cmd = "connect_direct" -> gap = "idle" /\ \A h \in Handle : links[h] # c.arg
    [] c.cmd = "discover" -> gap = "idle"
    [] c.cmd \in {"update", "disconnect"} -> Linked(c.ch)
    [] c.cmd \in GattCommand -> Linked(c.ch) /\ running[c.ch] = Idle
    [] OTHER -> TRUE

\* A command is answered, and carried out unless the answer is an error.  The dongle may
\* also refuse what it could do (no free handle, out of memory).
DongleExecutes ==
  /\ open /\ toDongle # <<>>
  /\ LET c == Head(toDongle)
         Answer(code) == fromDongle' = Append(fromDongle, Event(ResponseTo[c.cmd], c.ch, None, code))
     IN  \/ /\ Executable(c)
            /\ Answer(Ok)
            /\ gap' = CASE c.cmd = "connect_direct" -> c.arg
                        [] c.cmd = "discover" -> "scanning"
                        [] c.cmd = "end_procedure" -> "idle"
                        [] OTHER -> gap
            /\ running' = IF c.cmd \in GattCommand
                          THEN [running EXCEPT ![c.ch] = [cmd |-> c.cmd, arg |-> c.arg]]
                          ELSE running
         \/ /\ c.cmd \notin {"get_info", "get_connections", "end_procedure",
                             "set_scan_parameters"}
            /\ Answer(DongleError)
            /\ UNCHANGED <<gap, running>>
  /\ toDongle' = Tail(toDongle)
  /\ UNCHANGED <<open, links, wait, devices, isConnected, pc, call, result>>

Emit(event) ==
  /\ open
  /\ fromDongle' = Append(fromDongle, event)
  /\ UNCHANGED <<open, toDongle, wait, devices, isConnected, pc, call, result>>

Room == Len(fromDongle) < EventCap

\* The device a connect is looking for answers and gets a free handle.
Establish(h) ==
  /\ Room /\ gap \in Mac /\ ~Linked(h)
  /\ links' = [links EXCEPT ![h] = gap]
  /\ gap' = "idle"
  /\ Emit(Event("GAP_CONNECTION_EVT", h, gap, Ok))
  /\ UNCHANGED running

\* A link ends: asked for, or lost.  A procedure on it does not complete any more.
Drop(h) ==
  /\ Room /\ Linked(h)
  /\ links' = [links EXCEPT ![h] = None]
  /\ running' = [running EXCEPT ![h] = Idle]
  /\ Emit(Event("CONNECTION_DISCONNECT_EVT", h, None, Ok))
  /\ UNCHANGED gap

\* New connection parameters, asked for by the driver or by the device.
ParametersChange(h) ==
  /\ Room /\ Linked(h)
  /\ Emit(Event("CONNECTION_UPDATE_EVT", h, links[h], Ok))
  /\ UNCHANGED dongle

\* A GATT procedure ends.  A read ends with the value, or with an error.
ProcedureEnds(h) ==
  /\ running[h] # Idle
  /\ running' = [running EXCEPT ![h] = Idle]
  /\ \/ /\ running[h].cmd = "read_by_handle"
        /\ Emit(Event("ATTCLIENT_ATTRIBUTE_FOUND_EVT", h, running[h].arg, Ok))
     \/ \E code \in {Ok, DongleError} :
          /\ running[h].cmd = "read_by_handle" => code # Ok
          /\ Emit(Event("GATT_PROCEDURE_COMPLETE_EVT", h, None, code))
  /\ UNCHANGED <<links, gap>>

\* A notification or indication: a value nobody asked for.
Notify(h, attr) ==
  /\ Room /\ Linked(h)
  /\ Emit(Event("ATTCLIENT_ATTRIBUTE_FOUND_EVT", h, attr, Ok))
  /\ UNCHANGED dongle

ScanReport(mac) ==
  /\ Room /\ gap = "scanning"
  /\ Emit(Event("scan_response", 0, mac, Ok))
  /\ UNCHANGED dongle

\* The client ends (dongle unplugged, killed by the daemon, serial error): what it has not
\* yet forwarded is lost, in both directions, and the dongle is out of the driver's reach.
ClientDies ==
  /\ open
  /\ open' = FALSE
  /\ toDongle' = <<>>
  /\ \E n \in 0 .. Len(fromDongle) : fromDongle' = SubSeq(fromDongle, 1, n)
  /\ links' = [h \in Handle |-> None] /\ gap' = "idle"
  /\ running' = [h \in Handle |-> Idle]
  /\ UNCHANGED <<wait, devices, isConnected, pc, call, result>>

Spontaneous == \/ \E h \in Handle : Establish(h) \/ Drop(h) \/ ParametersChange(h)
                                    \/ ProcedureEnds(h)
               \/ \E h \in Handle, attr \in Attribute : Notify(h, attr)
               \/ \E mac \in Mac : ScanReport(mac)

Over == pc \in {"closed", "dead"} /\ UNCHANGED vars

Next == Work \/ Request \/ Poll \/ ProcessDies \/ DongleExecutes \/ Spontaneous
        \/ ClientDies \/ Over

Spec == Init /\ [][Next]_vars

\* The thread keeps running, its clock runs however many messages arrive, and the dongle
\* answers commands; devices, requests and the client's end are owed to nobody.
Fairness == /\ WF_vars(Work) /\ WF_vars(Poll)
            /\ WF_vars(WaitTimesOut) /\ WF_vars(ScanEnds)
            /\ WF_vars(DongleExecutes)
FairSpec == Spec /\ Fairness

-----------------------------------------------------------------------------
(* Properties                                                              *)

ChannelsOK ==
  /\ open \in BOOLEAN
  /\ toDongle \in Seq(Command)
  /\ fromDongle \in Seq(Message)

DongleOK ==
  /\ links \in [Handle -> Mac \cup {None}]
  /\ gap \in Mac \cup {"idle", "scanning"}
  /\ running \in [Handle -> [cmd : GattCommand \cup {"none"}, arg : Subject]]

WaitOK ==
  /\ completionEventRegister \subseteq [ce : SUBSET CompletionEvent, ch : Channel]
  /\ eventOccurred \in BOOLEAN
  /\ errorCode \in Code
  /\ released \in Message \cup {NoMessage}

DevicesOK ==
  /\ isConnected \in BOOLEAN
  /\ connectedDevices \in [Handle -> Mac \cup {None}]
  /\ discoveredDevices \subseteq Mac

CallOK ==
  /\ pc \in {"start", "idle", "poll", "send", "wait", "scan", "return", "closed", "dead"}
  /\ call \in [op : AllOps \cup {"update", "none"}, mac : Mac \cup {None},
               attr : Attribute \cup {None}, handle : Channel, step : 0 .. 4]
  /\ result \in [code : Code, ch : Channel \cup {NoHandle}]
  /\ pc \in {"send", "wait"} =>
       /\ call.op \in Scripted
       /\ call.step \in 1 .. Len(Script[call.op])
       /\ call.op = "connect" => call.mac \in Mac
       /\ OnConnection(call.op) => call.handle \in Handle

\* Every variable keeps its type: BLE_DRIVER.cpp's state, its two channels, and the locals
\* of the running command, whose captured connection handle stays one of the dongle's.
TypeOK == ChannelsOK /\ DongleOK /\ WaitOK /\ DevicesOK /\ CallOK

\* completionEventRegister points into the stack frame of WaitForCompletionEvent.  It holds
\* exactly the wait under way and nothing once that was released or ran out, so no callback
\* writes through a dead pointer, and the erase inside PostCompletionEvent's loop is safe.
RegisterDiscipline ==
  completionEventRegister =
    IF pc = "wait" /\ ~eventOccurred
    THEN {[ce |-> Current.on, ch |-> WaitChannel]} ELSE {}

\* The news about connection h that the driver has not read yet.
News(h) == {i \in DOMAIN fromDongle : fromDongle[i].evt \in LinkEvents /\ fromDongle[i].ch = h}

\* connectedDevices follows the dongle's links: they agree once the driver has read the
\* last message about a connection, and that message tells the truth.
MirrorsLinks ==
  open => \A h \in Handle :
    /\ News(h) = {} => connectedDevices[h] = links[h]
    /\ \A i \in News(h) : (\A j \in News(h) : j <= i) => fromDongle[i].arg = links[h]

\* A device never has two entries in connectedDevices, so that the first entry
\* MACToConnectionHandle finds is the only one, through losses and reconnections.
OneHandlePerDevice ==
  \A g, h \in Handle : connectedDevices[g] = connectedDevices[h] => g = h \/ connectedDevices[g] = None

\* Answers to commands that do not identify themselves are told apart by order alone: while
\* a response is awaited, one command or response of that kind is under way, no older one.
\* (The two SYS responses are exempt: the constructor asks for them and does not wait.)
OneAnswer ==
  pc = "wait" /\ ~eventOccurred /\ open =>
    \A evt \in Current.on \cap (Responses \ {"SYS_GET_INFO_RSP_EVT", "SYS_GET_MAXCON_RSP_EVT"}) :
      Cardinality({i \in DOMAIN toDongle : ResponseTo[toDongle[i].cmd] = evt
                                           /\ toDongle[i].ch = WaitChannel})
      + Cardinality({i \in DOMAIN fromDongle : fromDongle[i].evt = evt
                                              /\ fromDongle[i].ch = WaitChannel}) = 1

\* The end of an older procedure that was given up does not pass for the end of the one
\* being waited for: at most one is still to be reported on that connection.
OwnProcedure ==
  pc = "wait" /\ ~eventOccurred /\ open /\ "GATT_PROCEDURE_COMPLETE_EVT" \in Current.on =>
    Cardinality({i \in DOMAIN fromDongle :
                   /\ fromDongle[i].evt = "GATT_PROCEDURE_COMPLETE_EVT"
                   /\ fromDongle[i].ch = call.handle})
    + (IF running[call.handle] # Idle THEN 1 ELSE 0) <= 1

Succeeds(op) == pc = "return" /\ call.op = op /\ result.code = Ok /\ result.ch # NoHandle

\* The data a command returns belongs to the device it was asked for: the connection handle
\* looked up at its start still denotes that device after all the waits.
ReplyIsForTarget ==
  \A op \in {"update", "read", "readall"} : Succeeds(op) => connectedDevices[result.ch] = call.mac

\* A value is written to the device the request names, on no other one that has come to
\* use the same connection handle.
WritesReachTarget ==
  [][\A h \in Handle : running'[h] # running[h] /\ running'[h].cmd = "attribute_write"
                         => pc = "wait" /\ links[h] = call.mac]_vars

\* A connect that reports success has connected that device, not merely seen another one's
\* connection event (all are posted on channel 0).
ConnectSound ==
  pc = "return" /\ call.op = "connect" /\ result.code = Ok => HandlesOf(call.mac) # {}

\* A GAP procedure does not outlive its command: while the dongle scans or tries to connect,
\* the command is still running or the end_procedure that stops it is under way.
GapProcedureOwned ==
  open /\ gap # "idle" =>
    \/ call.op \in {"connect", "discover"} /\ pc \in {"send", "wait", "scan"}
    \/ \E i \in DOMAIN toDongle : toDongle[i].cmd = "end_procedure"

\* A write reported as done was completed by the device.
WriteConfirmed ==
  Succeeds("write") => released.evt = "GATT_PROCEDURE_COMPLETE_EVT"

\* A command ends, whatever the dongle does: no wait is for ever.
CommandsReturn == pc \in {"send", "wait", "scan"} ~> pc \in {"return", "dead"}

\* A lost client is noticed and ends its worker thread.
LossNoticed == ~open ~> pc \in {"closed", "dead"}
=============================================================================
