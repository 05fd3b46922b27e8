---------------------------- MODULE RequestPath ----------------------------
(***************************************************************************)
(* A request on its whole way: from the FCGI thread (BLE_GATEWAY.cpp)      *)
(* through the worker, the driver and its protocol, the client and the     *)
(* dongle, and the answer back.  The modules of the threads and of the     *)
(* connection look at who may do what when; this one at what is said.      *)
(*                                                                         *)
(* One dongle serves the requests one after another; what an earlier       *)
(* request has left on the connection meets a later one.                   *)
(***************************************************************************)
EXTENDS Routing, Messages, Scripts

CONSTANTS
  Requests,             \* the requests that may arrive
  Dongle,               \* the number of the dongle that is there
  Handle,               \* its connection handles
  BGAPI_WRITE_PAYLOAD,  \* the bytes that a write command has room for
  MayTimeOut,           \* completion events whose wait can outlast its timeout
  EventCap              \* bound on the unread messages when the dongle adds one of its own

VARIABLES
  stage,             \* where the request is
  request,           \* the request itself
  call,              \* the driver's command for it: op, connection handle and step
  answer,            \* its answer: status, content type, whether it tells of new parameters
  connectedDevices,  \* the driver: address of the device on each connection handle
  toClient,          \* packed commands under way to the client
  toDriver,          \* packed responses and events under way to the driver
  links,             \* the dongle: address of the device on each connection handle
  procedure,         \* the dongle: the procedure that runs
  asked,             \* history: BGLIB's calls for this request
  performed          \* history: what the dongle and its devices did meanwhile

gateway == <<stage, request, call, answer, connectedDevices>>
dongle == <<links, procedure>>
vars == <<gateway, toClient, toDriver, dongle, asked, performed>>

\* What may arrive: texts as tokens, an address by the two of its six bytes that count, the
\* entries of the Accept header with q as HTTP has it, in tenths.
Tokens == {t \in [kind : {"number", "huge", "mac", "word"}, n : Nat] : t.kind = "mac" => t.n < 65536}
ASSUME RequestsAssumption ==
  \A r \in Requests :
    /\ r.path \in Seq(Tokens)
    /\ \A name \in DOMAIN r.query : r.query[name] \in Tokens
    /\ r.accept \in Seq([type : STRING, q : 0 .. 10, others : BOOLEAN])
    /\ r.value \in Seq(0 .. 16)
ASSUME HandleAssumption == Handle \subseteq 0 .. 254
ASSUME PayloadAssumption == BGAPI_WRITE_PAYLOAD \in Nat

NoRequest == [path |-> <<>>]
NoCall == [op |-> "none", handle |-> 0, step |-> 0]
NoAnswer == [status |-> 0, mime |-> "none", told |-> FALSE]
Idle == [cmd |-> "none"]
Nobody == <<>>
NoHandle == -1
Ok == 0
Exception == 1
TimedOut == 2
Gone == 3

-----------------------------------------------------------------------------
(* The arguments of a request                                              *)

\* Addresses are little endian; two of the six bytes tell the devices apart.
Address(mac) == Reverse(<<mac.n \div 256, mac.n % 256>>)
Device == Address(request.path[2])
HandlesOf(address) == {h \in Handle : connectedDevices[h] = address}

ConnectionGiven ==
  LET interval == Parameter(request.query, "CONNECTIONINTERVAL", CONNECT_INTERVAL)
  IN  ConnectionParameters(Uint16(interval - 16), Uint16(interval),
                           Uint16(Parameter(request.query, "TIMEOUT", CONNECT_TIMEOUT)),
                           Uint16(Parameter(request.query, "SLAVELATENCY", CONNECT_SAVE_LATENCY)))
AddressType == Uint8(Parameter(request.query, "ADDRESSTYPE", 1))

ScanGiven == [interval |-> Uint16(Parameter(request.query, "SCANINTERVAL", DISCOVERY_SCAN_INTERVAL)),
              window |-> Uint16(Parameter(request.query, "SCANWINDOW", DISCOVERY_SCAN_WINDOW))]
ActiveScan == IF Parameter(request.query, "ACTIVESCAN", 1) = 0 THEN 0 ELSE 1
DiscoverTime == Uint16(Parameter(request.query, "DISCOVERTIME", 0))
DiscoverMode ==
  LET mode == Parameter(request.query, "DISCOVERMODE", 1) IN IF mode \in 0 .. 2 THEN mode ELSE 1

AttributeHandle == Uint16(request.path[3].n)
\* How old a value may be that a read is answered with, in seconds: only a fresh one unless the
\* request says so.
LastUpdate == Parameter(request.query, "LASTUPDATE", 0)

\* Two digits a byte, an odd number of them after a zero; 16 stands for any other character but
\* a space or a sign, which ends the number or, where there is none, makes it nothing.
Byte(high, low) == IF low < 16 THEN 16 * high + low ELSE high
HexStrToHexBuf(digits) ==
  LET even == IF Len(digits) % 2 = 0 THEN digits ELSE <<0>> \o digits
      pairs == [i \in 1 .. Len(even) \div 2 |-> <<even[2 * i - 1], even[2 * i]>>]
  IN  FoldLeft(LAMBDA bytes, p : IF p[1] < 16 THEN Append(bytes, Byte(p[1], p[2])) ELSE bytes, <<>>, pairs)
WriteBytes == LET bytes == HexStrToHexBuf(request.value)
              IN  SubSeq(bytes, 1, Min({Len(bytes), BGAPI_WRITE_PAYLOAD}))

\* What each command is sent with.
Arguments(cmd) ==
  LET s == CheckDiscoverParameters(ScanGiven)
      p == CheckConnectionParameters(ConnectionGiven)
  IN  CASE cmd = "set_scan_parameters" ->
             [interval |-> s.interval, window |-> s.window, active |-> ActiveScan]
        [] cmd = "discover" -> [mode |-> DiscoverMode]
        [] cmd = "connect_direct" ->
             [f \in {"address", "type"} \cup DOMAIN p |->
                CASE f = "address" -> Device [] f = "type" -> AddressType [] OTHER -> p[f]]
        [] cmd = "update" ->
             [f \in {"connection"} \cup DOMAIN p |-> IF f = "connection" THEN call.handle ELSE p[f]]
        [] cmd = "read_by_group_type" ->
             [connection |-> call.handle, start |-> 1, end |-> 65535, uuid |-> <<0, 40>>]
        [] cmd = "find_information" /\ call.op = "read" ->
             [connection |-> call.handle, start |-> AttributeHandle, end |-> AttributeHandle]
        [] cmd = "find_information" /\ call.op # "read" ->
             [connection |-> call.handle, start |-> 1, end |-> 65535]
        [] cmd = "attribute_write" ->
             [connection |-> call.handle, attribute |-> AttributeHandle, bytes |-> WriteBytes]
        [] cmd = "read_by_handle" -> [connection |-> call.handle, attribute |-> AttributeHandle]
        [] OTHER -> [connection |-> call.handle]

CommandsOf(name) ==
  CASE name = "none" -> <<>>
    [] name = "discover" -> <<"set_scan_parameters", "discover">>
    [] OTHER -> <<name>>
BleCmd(names) ==
  [i \in DOMAIN names |-> Packed(names[i], DriverPacks[names[i]], Arguments(names[i]))]

-----------------------------------------------------------------------------
Init ==
  /\ stage = "idle" /\ request = NoRequest /\ call = NoCall /\ answer = NoAnswer
  /\ connectedDevices = [h \in Handle |-> Nobody]
  /\ toClient = <<>> /\ toDriver = <<>>
  /\ links = [h \in Handle |-> Nobody] /\ procedure = Idle
  /\ asked = <<>> /\ performed = {}

(* Answers                                                                 *)

Mime == LET type == ParseAcceptHeader(request.accept) IN IF type = "none" THEN "text/html" ELSE type
Answered(status, mime, told) ==
  /\ stage' = "answered"
  /\ answer' = [status |-> status, mime |-> mime, told |-> told]

\* Mutant: a device that has gone meanwhile is not told from one that is there.
StatusIgnoresGone(op, code, ch) ==
  CASE code \notin {Ok, Gone} -> 502
    [] op = "connect" /\ ch = NoHandle -> 201
    [] OTHER -> 200
Status(op, code, ch) ==
  CASE op \in {"read", "readall", "write"} /\ ch = NoHandle -> 404
    [] ~(op \in {"read", "readall", "write"} /\ ch = NoHandle) /\ code # Ok -> 502
    [] op = "connect" /\ code = Ok -> 201
    [] OTHER -> 200

\* Mutant: an update does not tell of them.
ToldOfConnect(op) == op = "connect" /\ CheckConnectionParameters(ConnectionGiven) # ConnectionGiven
Told(op) ==
  \/ op \in {"connect", "update"} /\ CheckConnectionParameters(ConnectionGiven) # ConnectionGiven
  \/ op = "discover" /\ CheckDiscoverParameters(ScanGiven) # ScanGiven

Return(op, code, ch) == Answered(Status(op, code, ch), Mime, code = Ok /\ Told(op))

-----------------------------------------------------------------------------
(* The FCGI thread                                                         *)

Arrive ==
  /\ stage = "idle"
  /\ \E r \in Requests : request' = r
  /\ stage' = "arrived"
  /\ UNCHANGED <<call, answer, connectedDevices, toClient, toDriver, dongle, asked, performed>>

GlobalStatus == LET order == ProcessHTTPRequest(request)
                IN  IF order.command = "GW_OVERVIEW" THEN 200 ELSE order.code
FCGIWorker ==
  /\ stage = "arrived"
  /\ \/ IsGlobal(request) /\ Answered(GlobalStatus, Mime, FALSE)
     \/ /\ ~IsGlobal(request) /\ ~FirstIsDongle(request)
        /\ Answered(400, "text/html", FALSE)
     \/ /\ FirstIsDongle(request) /\ request.path[1].n # Dongle
        /\ Answered(404, "text/html", FALSE)
     \/ /\ FirstIsDongle(request) /\ request.path[1].n = Dongle
        /\ stage' = "worker" /\ UNCHANGED answer
  /\ UNCHANGED <<request, call, connectedDevices, toClient, toDriver, dongle, asked, performed>>

\* FCGX_Finish_r; the thread then waits for the next one.
FinishRequest ==
  /\ stage = "answered"
  /\ stage' = "idle" /\ request' = NoRequest /\ call' = NoCall /\ answer' = NoAnswer
  /\ asked' = <<>> /\ performed' = {}
  /\ UNCHANGED <<connectedDevices, toClient, toDriver, dongle>>

-----------------------------------------------------------------------------
(* The worker                                                              *)

Begin(op, h) ==
  /\ call' = [op |-> op, handle |-> h, step |-> 1]
  /\ stage' = "send"
  /\ UNCHANGED answer
AtOnce(status) == Answered(status, Mime, FALSE) /\ UNCHANGED call

\* A command on the device that the URI names: its answer when it is not connected.
OnDevice(op, code) ==
  \/ \E h \in HandlesOf(Device) : Begin(op, h)
  \/ HandlesOf(Device) = {} /\ Return(op, code, NoHandle) /\ UNCHANGED call
OnAttribute(op, code) ==
  IF ConstructsInteger(request.path[3]) THEN OnDevice(op, code) ELSE AtOnce(400)

\* The age of a value as the driver reads it: the seconds of the time that has passed, without
\* its minutes.  What the requester takes comes from the cache, also where that holds no value.
Seconds == 0 .. 59
\* Mutant: a value that is just as old as the requester does not take it any more.
FromCacheLate(age) == ConstructsInteger(request.path[3]) /\ HandlesOf(Device) # {} /\ age <= LastUpdate
FromCache(age) == ConstructsInteger(request.path[3]) /\ HandlesOf(Device) # {} /\ age < LastUpdate
ReadAttribute ==
  \E age \in Seconds : \/ FromCache(age) /\ AtOnce(200)
                       \/ ~FromCache(age) /\ OnAttribute("read", Ok)

ExecuteWorkRequest ==
  /\ stage = "worker"
  /\ LET order == ProcessHTTPRequest(request) IN
     \/ order.command \in {"ERROR", "OPTIONS"} /\ AtOnce(order.code)
     \/ order.command = "DONGLE_OVERVIEW" /\ Begin("info", 0)
     \/ order.command = "CONNECTED" /\ AtOnce(200)
     \/ order.command = "DISCOVERED" /\ DiscoverTime = 0 /\ AtOnce(200)
     \/ order.command = "DISCOVERED" /\ DiscoverTime # 0 /\ Begin("discover", 0)
     \/ order.command = "BLEDEV_OVERVIEW" /\ OnDevice("readall", Ok)
     \/ order.command = "CONNECT" /\ HandlesOf(Device) = {} /\ Begin("connect", 0)
     \/ order.command = "CONNECT" /\ HandlesOf(Device) # {} /\ OnDevice("update", Ok)
     \/ order.command = "DISCONNECT" /\ OnDevice("disconnect", Ok)
     \/ order.command = "READ_HANDLE" /\ ReadAttribute
     \/ order.command = "WRITE_HANDLE" /\ OnAttribute("write", Gone)
  /\ UNCHANGED <<request, connectedDevices, toClient, toDriver, dongle, asked, performed>>

Current == Script[call.op][call.step]
LastStep == call.step = Len(Script[call.op])
OnConnection(op) == op \in {"update", "disconnect", "read", "write", "readall"}
WaitChannel == IF OnConnection(call.op) THEN call.handle ELSE 0
ResultHandle == IF call.op = "connect" THEN NoHandle ELSE call.handle

\* A read is not sent on a connection that the driver knows to be gone.
ReadRefused == Current.send = "read_by_handle" /\ connectedDevices[call.handle] = Nobody
SendStep ==
  /\ stage = "send"
  /\ \/ ~ReadRefused /\ stage' = "wait" /\ toClient' = toClient \o BleCmd(CommandsOf(Current.send))
        /\ UNCHANGED answer
     \/ ReadRefused /\ Return(call.op, Exception, call.handle) /\ UNCHANGED toClient
  /\ UNCHANGED <<request, call, connectedDevices, toDriver, dongle, asked, performed>>

\* A wait is over.  After the last one, the commands that return a device's data look whether
\* it is still there.
DataLost == call.op \in {"update", "read", "readall"} /\ connectedDevices'[call.handle] = Nobody
EndsAttempt == call.op = "connect" /\ LastStep
WaitEnds(code) ==
  \/ /\ code # Ok
     /\ Return(call.op, code, ResultHandle)
     /\ toClient' = IF EndsAttempt THEN toClient \o BleCmd(<<"end_procedure">>) ELSE toClient
     /\ UNCHANGED call
  \/ /\ code = Ok /\ ~LastStep
     /\ stage' = "send" /\ call' = [call EXCEPT !.step = @ + 1]
     /\ UNCHANGED <<answer, toClient>>
  \/ /\ code = Ok /\ LastStep /\ call.op = "discover"
     /\ stage' = "scanning"
     /\ UNCHANGED <<answer, call, toClient>>
  \/ /\ code = Ok /\ LastStep /\ call.op # "discover"
     /\ IF DataLost THEN Return(call.op, Gone, NoHandle) ELSE Return(call.op, Ok, ResultHandle)
     /\ UNCHANGED <<call, toClient>>

\* Mutant: the wait starts again.
WaitRunsOutAgain ==
  /\ stage = "wait" /\ Current.on \subseteq MayTimeOut
  /\ performed' = performed \cup {"timeout"}
  /\ UNCHANGED <<gateway, toClient, toDriver, dongle, asked>>
WaitRunsOut ==
  /\ stage = "wait" /\ Current.on \subseteq MayTimeOut
  /\ UNCHANGED <<connectedDevices, request, toDriver, dongle, asked>>
  /\ performed' = performed \cup {"timeout"}
  /\ WaitEnds(TimedOut)

\* The time is over; the response to end_procedure is not waited for.
ScanEnds ==
  /\ stage = "scanning"
  /\ toClient' = toClient \o BleCmd(<<"end_procedure">>)
  /\ Return("discover", Ok, 0)
  /\ UNCHANGED <<request, call, connectedDevices, toDriver, dongle, asked, performed>>

\* ProcessTCPMsgFromSocket, in a wait, in a scan and between the requests.
DevicesAfter(idx, a) ==
  CASE idx = "status" /\ ConnectedFlag(a.flags) -> [connectedDevices EXCEPT ![a.connection] = a.address]
    [] idx = "disconnected" -> [connectedDevices EXCEPT ![a.connection] = Nobody]
    [] OTHER -> connectedDevices
DriverReceives ==
  /\ toDriver # <<>> /\ stage # "send"
  /\ LET m == Head(toDriver)
         a == Unpacked(DriverReads[m.idx], m)
         event == Posted(m.idx, a)
     IN  /\ Fits(DriverReads[m.idx], m)
         /\ connectedDevices' = DevicesAfter(m.idx, a)
         /\ IF stage = "wait" /\ event.evt \in Current.on /\ event.ch = WaitChannel
              THEN WaitEnds(event.code)
              ELSE UNCHANGED <<stage, call, answer, toClient>>
  /\ toDriver' = Tail(toDriver)
  /\ UNCHANGED <<request, dongle, asked, performed>>

-----------------------------------------------------------------------------
(* The client and the dongle behind it                                     *)

Runs(cmds) == procedure.cmd \in cmds
Free == {h \in Handle : links[h] = Nobody}
LinkCommands == {"update", "disconnect", "read_by_group_type", "find_information",
                 "read_by_handle", "attribute_write"}
Completing == {"read_by_group_type", "find_information", "attribute_write"}   \* ... with no other event
Lasting == LinkCommands \cup {"connect_direct"}   \* their success is an event of its own
Unawaited == {"set_scan_parameters", "end_procedure"}   \* nothing waits for their response

ResultsOf(cmd, a) ==
  CASE cmd \in {"get_info", "get_connections"} -> {0}
    [] cmd \in LinkCommands -> IF Runs({"none"}) /\ links[a.connection] # Nobody THEN {0, 1} ELSE {1}
    [] cmd = "connect_direct" ->
         IF Runs({"none"}) /\ Free # {} /\ \A h \in Handle : links[h] # a.address THEN {0, 1} ELSE {1}
    [] OTHER -> {0, 1}
Subject(cmd, a) ==
  CASE cmd \in LinkCommands -> a.connection
    [] cmd = "connect_direct" /\ Free # {} -> Min(Free)
    [] OTHER -> 0

ResponseFields(h, result) ==
  [result |-> result, connection |-> h, maxconn |-> Cardinality(Handle), build |-> 1, ll_version |-> 1,
   major |-> 1, minor |-> 1, patch |-> 1, hw |-> 1, protocol_version |-> 1]
\* The fields of an event, unless it says more.
EventFields(h) ==
  [connection |-> h, address |-> Nobody, flags |-> 0, address_type |-> 1, conn_interval |-> CONNECT_INTERVAL,
   timeout |-> CONNECT_TIMEOUT, latency |-> 0, bonding |-> 255, reason |-> 531, result |-> 0, chrhandle |-> 1,
   start |-> 1, end |-> 65535, uuid |-> <<0, 40>>, atthandle |-> 1, type |-> 0, value |-> <<>>,
   sender |-> Nobody, rssi |-> 200, packet_type |-> 0, bond |-> 255, data |-> <<>>]
Tells(idx, fields) == toDriver' = Append(toDriver, Packed(idx, ClientPacks[idx], fields))

ProcedureAfter(cmd, a, h) ==
  CASE cmd = "end_procedure" -> Idle
    [] cmd = "connect_direct" -> [cmd |-> cmd, ch |-> h, device |-> a.address]
    [] cmd = "discover" -> [cmd |-> cmd, ch |-> h, device |-> Nobody]
    [] cmd \in LinkCommands -> [cmd |-> cmd, ch |-> h, device |-> links[h]]
    [] OTHER -> procedure
DongleAnswers(cmd, a) ==
  \E result \in ResultsOf(cmd, a) :
    LET h == Subject(cmd, a) IN
    /\ toDriver' = Append(toDriver, Packed(cmd, ClientPacks[cmd], ResponseFields(h, result)))
    /\ procedure' = IF result = 0 THEN ProcedureAfter(cmd, a, h) ELSE procedure
    /\ performed' = CASE result = 0 /\ cmd \notin Lasting -> performed \cup {cmd}
                      [] result # 0 /\ cmd \notin Unawaited -> performed \cup {"error"}
                      [] OTHER -> performed

ClientExecutes ==
  /\ toClient # <<>>
  /\ LET m == Head(toClient)
         a == Unpacked(ClientCalls[m.idx], m)
     IN  /\ Fits(ClientCalls[m.idx], m)
         /\ asked' = Append(asked, [cmd |-> m.idx, args |-> a])
         /\ DongleAnswers(m.idx, a)
  /\ toClient' = Tail(toClient)
  /\ UNCHANGED <<gateway, links>>

Longest(n) == [i \in 1 .. n |-> 1]   \* as long as the events of BGAPI have them
ProcedureSucceeds ==
  /\ Runs(Lasting)
  /\ LET cmd == procedure.cmd  h == procedure.ch  device == procedure.device IN
     /\ links' = CASE cmd = "connect_direct" -> [links EXCEPT ![h] = device]
                   [] cmd = "disconnect" -> [links EXCEPT ![h] = Nobody]
                   [] OTHER -> links
     /\ \/ cmd = "connect_direct" /\ Tells("status", [EventFields(h) EXCEPT !.address = device, !.flags = 5])
        \/ cmd = "update" /\ Tells("status", [EventFields(h) EXCEPT !.address = device, !.flags = 9])
        \/ cmd = "disconnect" /\ Tells("disconnected", [EventFields(h) EXCEPT !.reason = 534])
        \/ cmd = "read_by_handle" /\ Tells("attribute_value", [EventFields(h) EXCEPT !.value = Longest(22)])
        \/ cmd \in Completing /\ Tells("procedure_completed", EventFields(h))
     /\ performed' = performed \cup {cmd}
  /\ procedure' = Idle
  /\ UNCHANGED <<gateway, toClient, asked>>

ProcedureFails ==
  /\ Runs(LinkCommands \ {"update", "disconnect"})
  /\ Tells("procedure_completed", [EventFields(procedure.ch) EXCEPT !.result = 1025])
  /\ procedure' = Idle
  /\ performed' = performed \cup {"error"}
  /\ UNCHANGED <<gateway, toClient, links, asked>>

\* What a procedure finds before it ends.
ProcedureFinds ==
  /\ Len(toDriver) <= EventCap
  /\ LET fields == EventFields(procedure.ch) IN
     \/ Runs({"read_by_group_type"}) /\ Tells("group_found", [fields EXCEPT !.uuid = Longest(16)])
     \/ Runs({"find_information"}) /\ Tells("information_found", [fields EXCEPT !.uuid = Longest(16)])
     \/ Runs({"discover"}) /\ Tells("scan_response", [fields EXCEPT !.data = Longest(31)])
  /\ UNCHANGED <<gateway, toClient, dongle, asked, performed>>

LinkLost ==
  /\ Len(toDriver) <= EventCap
  /\ \E h \in Handle \ Free :
       /\ links' = [links EXCEPT ![h] = Nobody]
       /\ procedure' = IF Runs(LinkCommands) /\ procedure.ch = h THEN Idle ELSE procedure
       /\ Tells("disconnected", [EventFields(h) EXCEPT !.reason = 520])
  /\ performed' = performed \cup {"lost"}
  /\ UNCHANGED <<gateway, toClient, asked>>

-----------------------------------------------------------------------------
Next ==
  \/ Arrive \/ FCGIWorker \/ FinishRequest
  \/ ExecuteWorkRequest \/ SendStep \/ WaitRunsOut \/ ScanEnds \/ DriverReceives
  \/ ClientExecutes \/ ProcedureSucceeds \/ ProcedureFails \/ ProcedureFinds \/ LinkLost

\* The threads go on, time passes, and the dongle answers and ends what it begins; but a device
\* that is not in reach is never connected.
Fairness ==
  /\ WF_vars(FCGIWorker) /\ WF_vars(ExecuteWorkRequest) /\ WF_vars(SendStep)
  /\ WF_vars(WaitRunsOut) /\ WF_vars(ScanEnds) /\ WF_vars(DriverReceives)
  /\ WF_vars(ClientExecutes) /\ WF_vars(~Runs({"connect_direct"}) /\ (ProcedureSucceeds \/ ProcedureFails))

Spec == Init /\ [][Next]_vars /\ Fairness

-----------------------------------------------------------------------------
(* Properties                                                              *)

\* Every number in a message has the width of its field, whatever a request asks for; answers
\* and devices are what they may be.
Width(type, value) ==
  /\ type = "c" => value \in Word8
  /\ type = "v" => value \in Word16
  /\ type \in {"A", "B"} => \A i \in DOMAIN value : value[i] \in Word8
WellFormed(m) == \A i \in DOMAIN m.types : Width(m.types[i], m.values[i])
TypeOK ==
  /\ stage \in {"idle", "arrived", "worker", "send", "wait", "scanning", "answered"}
  /\ answer.status \in {0, 200, 201, 400, 404, 405, 406, 502} /\ answer.told \in BOOLEAN
  /\ answer.mime \in {"none"} \cup DOMAIN Specific
  /\ DOMAIN connectedDevices = Handle /\ DOMAIN links = Handle
  /\ \A i \in DOMAIN toClient : WellFormed(toClient[i])
  /\ \A i \in DOMAIN toDriver : WellFormed(toDriver[i])

\* The dongle is never asked for a connection or a scan outside the limits of BGAPI: the checks
\* of CheckConnectionParameters (BLE_DRIVER.cpp:2449) repair each other's results.
ParametersLegal ==
  \A i \in DOMAIN asked :
    LET a == asked[i].args IN
    /\ asked[i].cmd = "connect_direct" =>
         LegalConnection(ConnectionParameters(a.conn_interval_min, a.conn_interval_max, a.timeout, a.latency))
    /\ asked[i].cmd = "update" =>
         LegalConnection(ConnectionParameters(a.interval_min, a.interval_max, a.timeout, a.latency))
    /\ asked[i].cmd = "set_scan_parameters" =>
         LegalScan([interval |-> a.scan_interval, window |-> a.scan_window])

\* Of digits alone and an even number of them, each pair is one byte.
PairsArrive(data) ==
  (ToSet(request.value) \subseteq 0 .. 15 /\ Len(request.value) % 2 = 0) =>
    \A i \in DOMAIN data : data[i] = 16 * request.value[2 * i - 1] + request.value[2 * i]

\* What the driver means by an argument reaches BGLIB's parameter of that meaning, through two
\* lists of fields written in different programs: the parameters as checked, the address in
\* little endian, the bytes of the value, on the connection of the device that the URI names.
Means(cmd, a) ==
  LET parameters == CheckConnectionParameters(ConnectionGiven)
      scan == CheckDiscoverParameters(ScanGiven)
  IN
  /\ cmd \in LinkCommands => connectedDevices[a.connection] \in {Device, Nobody}
  /\ cmd = "connect_direct" =>
       /\ \A i \in {1, 2} : a.address[3 - i] = <<request.path[2].n \div 256, request.path[2].n % 256>>[i]
       /\ a.conn_interval_min = parameters.min /\ a.conn_interval_max = parameters.max
       /\ a.timeout = parameters.timeout /\ a.latency = parameters.latency
       /\ a.addr_type = AddressType
  /\ cmd = "set_scan_parameters" =>
       /\ a.scan_interval = scan.interval /\ a.scan_window = scan.window
       /\ a.active = ActiveScan
  /\ cmd = "discover" => a.mode = DiscoverMode
  /\ cmd = "update" =>
       /\ a.interval_min = parameters.min /\ a.interval_max = parameters.max
       /\ a.timeout = parameters.timeout /\ a.latency = parameters.latency
  /\ cmd = "read_by_handle" => a.chrhandle = request.path[3].n % 65536
  /\ cmd = "attribute_write" =>
       /\ a.atthandle = request.path[3].n % 65536
       /\ Len(a.data) <= BGAPI_WRITE_PAYLOAD
       /\ PairsArrive(a.data)
ArgumentsArrive == \A i \in DOMAIN asked : Means(asked[i].cmd, asked[i].args)

\* A success that tells of no change has used every number of the request that its parameter has
\* room for.  Of a larger one it uses what is left of it in 8 or 16 bits, any other scan than
\* passive is an active one, and any other mode the generic one, and tells nothing.
Room == [CONNECTIONINTERVAL |-> 65536, TIMEOUT |-> 65536, SLAVELATENCY |-> 65536, ADDRESSTYPE |-> 256,
         SCANINTERVAL |-> 65536, SCANWINDOW |-> 65536, ACTIVESCAN |-> 2, DISCOVERMODE |-> 3]
Uses == [connect_direct |-> [conn_interval_max |-> "CONNECTIONINTERVAL", timeout |-> "TIMEOUT",
                             latency |-> "SLAVELATENCY", addr_type |-> "ADDRESSTYPE"],
         update |-> [interval_max |-> "CONNECTIONINTERVAL", timeout |-> "TIMEOUT",
                     latency |-> "SLAVELATENCY"],
         set_scan_parameters |-> [scan_interval |-> "SCANINTERVAL", scan_window |-> "SCANWINDOW",
                                  active |-> "ACTIVESCAN"],
         discover |-> [mode |-> "DISCOVERMODE"]]
Honoured(c) ==
  \A field \in DOMAIN Uses[c.cmd] :
    LET name == Uses[c.cmd][field]
        given == Parameter(request.query, name, c.args[field])
    IN  given < Room[name] => c.args[field] = given
ChangeReported ==
  answer.status \in {200, 201} /\ ~answer.told =>
    \A i \in DOMAIN asked : asked[i].cmd \in DOMAIN Uses => Honoured(asked[i])

\* An answer tells what has become of the request: a success of a command that the dongle has done
\* all of it and nothing in vain, where only a write and a disconnect take a lost link for their
\* end; one without a command that none was needed, as for a read whose requester takes an old value;
\* 201 that there is a new connection; 502 that something went wrong; 404 that the device is not
\* there; and a refused request has never left the gateway.
Commands(op) == {Script[op][i].send : i \in DOMAIN Script[op]} \ {"none"}
Left(cmds) == \/ \E i \in DOMAIN asked : asked[i].cmd \notin cmds
              \/ \E i \in DOMAIN toClient : toClient[i].idx \notin cmds
NoneNeeded ==
  LET command == ProcessHTTPRequest(request).command IN
  \/ command \in {"OPTIONS", "CONNECTED", "DISCONNECT"}
  \/ command = "DISCOVERED" /\ DiscoverTime = 0
  \/ command = "READ_HANDLE" /\ LastUpdate > 0
StatusTruthful ==
  /\ answer.status \in {200, 201} /\ call.op # "none" =>
       /\ \/ Commands(call.op) \subseteq performed
          \/ call.op \in {"write", "disconnect"} /\ "lost" \in performed
       /\ "error" \notin performed
  /\ answer.status \in {200, 201} /\ call.op = "none" => IsGlobal(request) \/ NoneNeeded
  /\ answer.status = 201 => "connect_direct" \in performed
  /\ answer.status = 502 => performed \cap {"error", "lost", "timeout"} # {}
  /\ answer.status = 404 => ~Left({"end_procedure"}) \/ "lost" \in performed
  /\ answer.status \in {400, 405, 406} => ~Left({"end_procedure"})

\* The answer has the content type that ParseAcceptHeader (HTTP_HELPER.cpp:302) promises: of the
\* most specific accepted ones that are supported, one with the highest q, and HTML if there is a
\* choice.
Supported == {e \in ToSet(request.accept) : e.type \in DOMAIN Specific}
Best == LET specific == {e \in Supported : \A f \in Supported : Specific[f.type] <= Specific[e.type]}
        IN  {e \in specific : \A f \in specific : f.q <= e.q}
Processed == IsGlobal(request) \/ (FirstIsDongle(request) /\ request.path[1].n = Dongle)
Plain == \A i \in DOMAIN request.accept : ~request.accept[i].others
BestAccepted ==
  stage = "answered" /\ Processed /\ Plain =>
    /\ (request.accept # <<>> /\ Supported = {}) <=> (answer.status = 406)
    /\ Supported # {} => \E e \in Best : answer.mime = Preference(e).type
    /\ (\E e \in Best : Preference(e).type \in Html) => answer.mime \in Html

\* The driver reads a message's size right although it adds up its bytes with their signs
\* (BLE_DRIVER.cpp:193): none that the client can send is too long for it.
HeaderTellsSize ==
  \A i \in DOMAIN toDriver :
    LET size == MessageSize(toDriver[i]) IN SizeRead(HeaderOf(size)) = size

\* Every request is answered.
EveryRequestAnswered == stage = "arrived" ~> stage = "answered"
=============================================================================
