-------------------------- MODULE BledDriverProofs --------------------------
(* TLAPS proofs about BledDriver, for every set of handles, devices and     *)
(* attributes, every workload and every choice of the waits that time out.  *)
EXTENDS BledDriver, TLAPS

\* What the command scripts have in common: they wait for completion events, and send
\* commands about a connection only if the command looked that connection up.
LEMMA ScriptFacts ==
  ASSUME NEW op \in Scripted, NEW k \in 1 .. Len(Script[op])
  PROVE  /\ k \in 1 .. 4
         /\ op \in AllOps \cup {"update"}
         /\ Script[op][k].on \subseteq CompletionEvent
         /\ Script[op][k].on # {}
         /\ Script[op][k].send \in CommandName \cup {"none"}
         /\ Script[op][k].send \in LinkCommand => OnConnection(op)
         /\ Script[op][k].send = "connect_direct" => op = "connect"
<1> USE DEF AllOps, CompletionEvent, Responses, LinkEvents, GattEvents, CommandName,
            LinkCommand, GattCommand, OnConnection, Step, ProcedureOver
<1>1. Scripted = {"connect", "update", "disconnect", "read", "write", "readall", "discover", "info"}
  BY DEF Scripted, Script
<1>2. CASE op = "connect"
  <2>1. Script[op] = ConnectScript  BY <1>2 DEF Script
  <2>2. Len(ConnectScript) = 2  BY DEF ConnectScript
  <2>3. k \in {1, 2}  BY <2>1, <2>2
  <2> QED  BY <1>2, <2>1, <2>3 DEF ConnectScript
<1>3. CASE op = "update"
  <2>1. Script[op] = UpdateScript  BY <1>3 DEF Script
  <2>2. Len(UpdateScript) = 2  BY DEF UpdateScript
  <2>3. k \in {1, 2}  BY <2>1, <2>2
  <2> QED  BY <1>3, <2>1, <2>3 DEF UpdateScript
<1>4. CASE op = "disconnect"
  <2>1. Script[op] = DisconnectScript  BY <1>4 DEF Script
  <2>2. Len(DisconnectScript) = 2  BY DEF DisconnectScript
  <2>3. k \in {1, 2}  BY <2>1, <2>2
  <2> QED  BY <1>4, <2>1, <2>3 DEF DisconnectScript
<1>5. CASE op = "read"
  <2>1. Script[op] = ReadScript  BY <1>5 DEF Script
  <2>2. Len(ReadScript) = 4  BY DEF ReadScript
  <2>3. k \in {1, 2, 3, 4}  BY <2>1, <2>2
  <2> QED  BY <1>5, <2>1, <2>3 DEF ReadScript
<1>6. CASE op = "write"
  <2>1. Script[op] = WriteScript  BY <1>6 DEF Script
  <2>2. Len(WriteScript) = 2  BY DEF WriteScript
  <2>3. k \in {1, 2}  BY <2>1, <2>2
  <2> QED  BY <1>6, <2>1, <2>3 DEF WriteScript
<1>7. CASE op = "readall"
  <2>1. Script[op] = ReadAllScript  BY <1>7 DEF Script
  <2>2. Len(ReadAllScript) = 4  BY DEF ReadAllScript
  <2>3. k \in {1, 2, 3, 4}  BY <2>1, <2>2
  <2> QED  BY <1>7, <2>1, <2>3 DEF ReadAllScript
<1>8. CASE op = "discover"
  <2>1. Script[op] = DiscoverScript  BY <1>8 DEF Script
  <2>2. Len(DiscoverScript) = 1  BY DEF DiscoverScript
  <2>3. k = 1  BY <2>1, <2>2
  <2> QED  BY <1>8, <2>1, <2>3 DEF DiscoverScript
<1>9. CASE op = "info"
  <2>1. Script[op] = InfoScript  BY <1>9 DEF Script
  <2>2. Len(InfoScript) = 2  BY DEF InfoScript
  <2>3. k \in {1, 2}  BY <2>1, <2>2
  <2> QED  BY <1>9, <2>1, <2>3 DEF InfoScript
<1> QED  BY <1>1, <1>2, <1>3, <1>4, <1>5, <1>6, <1>7, <1>8, <1>9

\* The step a command is at, when it is sending or waiting.
LEMMA CurrentFacts ==
  ASSUME CallOK, pc \in {"send", "wait"}
  PROVE  /\ Current.on \subseteq CompletionEvent
         /\ Current.on # {}
         /\ Current.send \in CommandName \cup {"none"}
         /\ Current.send \in LinkCommand => call.handle \in Handle /\ OnConnection(call.op)
         /\ Current.send = "connect_direct" => call.mac \in Mac
BY ScriptFacts DEF CallOK, Current

LEMMA WaitChannelType == CallOK => WaitChannel \in Channel
BY DEF CallOK, WaitChannel, Channel

\* What a command sends is well formed.
LEMMA BleCmdType ==
  ASSUME CallOK, NEW name \in CommandName,
         name \in LinkCommand => WaitChannel \in Handle,
         name = "connect_direct" => call.mac \in Mac
  PROVE  BleCmd(name) \in Command
<1>1. call.mac \in Subject /\ call.attr \in Subject /\ None \in Subject
  BY DEF CallOK, Subject
<1> QED  BY <1>1, WaitChannelType DEF BleCmd, Command, LinkCommand, GattCommand

LEMMA CommandsType ==
  ASSUME CallOK, pc = "send"
  PROVE  CommandsOf(Current.send) \in Seq(Command)
<1>1. CASE Current.send = "none"  BY <1>1 DEF CommandsOf
<1>2. CASE Current.send = "discover"
  <2>1. BleCmd("set_scan_parameters") \in Command /\ BleCmd("discover") \in Command
    BY BleCmdType DEF CommandName, LinkCommand, GattCommand
  <2> QED  BY <1>2, <2>1 DEF CommandsOf
<1>3. CASE Current.send \notin {"none", "discover"}
  <2>1. BleCmd(Current.send) \in Command
    BY <1>3, CurrentFacts, BleCmdType DEF WaitChannel
  <2> QED  BY <1>3, <2>1 DEF CommandsOf
<1> QED  BY <1>1, <1>2, <1>3

\* Sending leaves well-formed channels.
LEMMA TransmitType ==
  ASSUME ChannelsOK, NEW commands \in Seq(Command), Transmit(commands)
  PROVE  ChannelsOK'
<1>1. CASE UNCHANGED channel  BY <1>1 DEF ChannelsOK, channel
<1>2. CASE toDongle' = toDongle \o commands /\ UNCHANGED <<open, fromDongle>>
  BY <1>2 DEF ChannelsOK
<1> QED  BY <1>1, <1>2 DEF Transmit

\* Posting an event leaves a well-formed wait.
LEMMA PostType ==
  ASSUME WaitOK, NEW ce, NEW ch, NEW code \in Code, NEW m \in Message \cup {NoMessage},
         Post(ce, ch, code, m)
  PROVE  WaitOK'
<1>1. completionEventRegister' \subseteq [ce : SUBSET CompletionEvent, ch : Channel]
  BY DEF WaitOK, Post
<1>2. eventOccurred' \in BOOLEAN  BY DEF WaitOK, Post
<1>3. errorCode' \in Code  BY DEF WaitOK, Post
<1>4. released' \in Message \cup {NoMessage}  BY DEF WaitOK, Post
<1> QED  BY <1>1, <1>2, <1>3, <1>4 DEF WaitOK

LEMMA InitType == Init => TypeOK
<1> SUFFICES ASSUME Init PROVE TypeOK  OBVIOUS
<1>1. ChannelsOK  BY DEF Init, ChannelsOK
<1>2. DongleOK  BY DEF Init, DongleOK, Idle, Subject
<1>3. WaitOK  BY DEF Init, WaitOK, Code, Ok
<1>4. DevicesOK  BY DEF Init, DevicesOK
<1>5. CallOK
  BY DEF Init, CallOK, NoCall, NoResult, Channel, Code, Ok, NoHandle
<1> QED  BY <1>1, <1>2, <1>3, <1>4, <1>5 DEF TypeOK

-----------------------------------------------------------------------------
(* Type correctness: one lemma per group of actions.                       *)

\* Every result that a command reports is well formed.
LEMMA ReturnType ==
  ASSUME CallOK, NEW code \in Code, NEW ch \in Channel \cup {NoHandle}, Return(code, ch)
  PROVE  CallOK'
BY DEF Return, CallOK

\* An action that sends nothing and is not about devices leaves those parts typed.
LEMMA Untouched ==
  ASSUME TypeOK
  PROVE  /\ UNCHANGED channel => ChannelsOK'
         /\ UNCHANGED dongle => DongleOK'
         /\ UNCHANGED wait => WaitOK'
         /\ UNCHANGED <<devices, isConnected>> => DevicesOK'
         /\ UNCHANGED <<pc, call, result>> => CallOK'
<1> USE DEF TypeOK
<1>1. UNCHANGED channel => ChannelsOK'  BY DEF channel, ChannelsOK
<1>2. UNCHANGED dongle => DongleOK'  BY DEF dongle, DongleOK
<1>3. UNCHANGED wait => WaitOK'  BY DEF wait, WaitOK
<1>4. UNCHANGED <<devices, isConnected>> => DevicesOK'  BY DEF devices, DevicesOK
<1>5. UNCHANGED <<pc, call, result>> => CallOK'  BY DEF CallOK, OnConnection
<1> QED  BY <1>1, <1>2, <1>3, <1>4, <1>5

\* A command of any kind has a first step, and at most four.
LEMMA ScriptLength ==
  ASSUME NEW op \in Scripted
  PROVE  Len(Script[op]) \in 1 .. 4
<1>1. Scripted = {"connect", "update", "disconnect", "read", "write", "readall", "discover", "info"}
  BY DEF Scripted, Script
<1> QED
  BY <1>1 DEF Script, ConnectScript, UpdateScript, DisconnectScript, ReadScript, WriteScript,
              ReadAllScript, DiscoverScript, InfoScript

\* A command that is taken on has a script, and with it the handle of its connection.
LEMMA StartType ==
  ASSUME CallOK, NEW op \in Scripted, NEW mac \in Mac \cup {None},
         NEW attr \in Attribute \cup {None}, NEW h \in Channel, Start(op, mac, attr, h),
         op = "connect" => mac \in Mac, OnConnection(op) => h \in Handle
  PROVE  CallOK'
<1>1. op \in AllOps \cup {"update"}
  BY DEF Scripted, Script, AllOps
<1>2. Len(Script[op]) \in 1 .. 4  BY ScriptLength
<1>3. \A n \in 1 .. 4 : 1 \in 1 .. n  OBVIOUS
<1>4. 1 \in 1 .. Len(Script[op])  BY <1>2, <1>3
<1> QED  BY <1>1, <1>4 DEF Start, CallOK, OnConnection

\* Requests arrive.
LEMMA RequestType == TypeOK /\ Request => TypeOK'
<1> SUFFICES ASSUME TypeOK, Request PROVE TypeOK'  OBVIOUS
<1>1. ASSUME NEW op \in Ops \ {"discover", "info", "connected"}, NEW mac \in Mac,
             NEW attr \in Operands(op), StartOnConnection(op, mac, attr)
      PROVE  TypeOK'
  <2> DEFINE task == IF op = "connect" THEN "update" ELSE op
  <2>1. PICK h \in HandlesOf(mac) : Start(task, mac, attr, h)
    BY <1>1 DEF StartOnConnection
  <2>2. h \in Handle /\ h \in Channel  BY <2>1 DEF HandlesOf, Channel
  <2>3. task \in Scripted /\ task # "connect"
    BY WorkloadAssumption DEF AllOps, Scripted, Script
  <2>4. attr \in Attribute \cup {None}  BY DEF Operands
  <2>5. CallOK'  BY <2>1, <2>2, <2>3, <2>4, StartType DEF TypeOK
  <2> QED  BY <2>1, <2>5, Untouched DEF Start, TypeOK
<1>2. ASSUME NEW op \in Ops, NEW mac \in Mac, NEW attr \in Operands(op),
             AnswerAtOnce(op, mac, attr)
      PROVE  TypeOK'
  <2>1. op \in AllOps  BY WorkloadAssumption
  <2>2. attr \in Attribute \cup {None}  BY DEF Operands
  <2>3. result' \in [code : Code, ch : Channel \cup {NoHandle}]
    BY <1>2 DEF AnswerAtOnce, NoResult, Code, Ok, Gone, Channel, HandlesOf
  <2>4. call' = [NoCall EXCEPT !.op = op, !.mac = mac, !.attr = attr] /\ pc' = "return"
    BY <1>2 DEF AnswerAtOnce
  <2>5. call' = [op |-> op, mac |-> mac, attr |-> attr, handle |-> 0, step |-> 0]
    BY <2>4 DEF NoCall
  <2>6. CallOK'  BY <2>1, <2>2, <2>3, <2>4, <2>5 DEF CallOK, Channel
  <2> QED  BY <1>2, <2>6, Untouched DEF AnswerAtOnce, TypeOK
<1>3. ASSUME NEW mac \in Mac, StartConnect(mac)
      PROVE  TypeOK'
  <2>1. "connect" \in Scripted /\ ~OnConnection("connect") /\ 0 \in Channel
    BY DEF Scripted, Script, OnConnection, Channel
  <2>2. CallOK'  BY <1>3, <2>1, StartType DEF StartConnect, TypeOK
  <2> QED  BY <1>3, <2>2, Untouched DEF StartConnect, Start, TypeOK
<1>4. ASSUME NEW op \in Ops, StartGlobal(op)
      PROVE  TypeOK'
  <2>1. op \in Scripted /\ op # "connect" /\ ~OnConnection(op) /\ 0 \in Channel
    BY <1>4 DEF StartGlobal, Scripted, Script, OnConnection, Channel
  <2>2. CallOK'  BY <1>4, <2>1, StartType DEF StartGlobal, TypeOK
  <2> QED  BY <1>4, <2>2, Untouched DEF StartGlobal, Start, TypeOK
<1> QED  BY <1>1, <1>2, <1>3, <1>4 DEF Request

\* The callbacks keep the two device tables typed.
LEMMA CallbackType ==
  ASSUME DevicesOK, NEW m \in Message
  PROVE  /\ FollowsLinks(m) \in [Handle -> Mac \cup {None}]
         /\ CollectsScans(m) \subseteq Mac
         /\ PostChannel(m) \in Channel
         /\ m.code \in Code
         /\ m.evt \in LinkEvents => m.ch \in Handle
BY DEF DevicesOK, Message, FollowsLinks, CollectsScans, PostChannel, Channel, LinkEvents, Code

\* The worker thread reads the socket.
LEMMA ReadingType == TypeOK /\ (Receive \/ ReceiveEof \/ PollTimesOut) => TypeOK'
<1> SUFFICES ASSUME TypeOK, Receive \/ ReceiveEof \/ PollTimesOut PROVE TypeOK'  OBVIOUS
<1>1. CASE Receive
  <2> DEFINE m == Head(fromDongle)
  <2>1. m \in Message  BY <1>1 DEF Receive, TypeOK, ChannelsOK
  <2>2. ChannelsOK'  BY <1>1 DEF Receive, TypeOK, ChannelsOK
  <2>3. WaitOK'
    BY <1>1, <2>1, CallbackType, PostType DEF Receive, TypeOK
  <2>4. DevicesOK'  BY <1>1, <2>1, CallbackType DEF Receive, TypeOK, DevicesOK
  <2>5. CallOK'  BY <1>1 DEF Receive, TypeOK, CallOK, OnConnection
  <2>6. DongleOK'  BY <1>1, Untouched DEF Receive, TypeOK
  <2> QED  BY <2>2, <2>3, <2>4, <2>5, <2>6 DEF TypeOK
<1>2. CASE ReceiveEof
  <2>1. DevicesOK'  BY <1>2 DEF ReceiveEof, TypeOK, DevicesOK, devices
  <2>2. CallOK'  BY <1>2 DEF ReceiveEof, TypeOK, CallOK, OnConnection
  <2> QED  BY <1>2, <2>1, <2>2, Untouched DEF ReceiveEof, TypeOK
<1>3. CASE PollTimesOut
  <2>1. CallOK'  BY <1>3 DEF PollTimesOut, TypeOK, CallOK, OnConnection
  <2> QED  BY <1>3, <2>1, Untouched DEF PollTimesOut, TypeOK
<1> QED  BY <1>1, <1>2, <1>3

\* The worker thread sends and waits.
LEMMA WorkType ==
  ASSUME TypeOK,
         Construct \/ Send \/ SendThrows \/ WaitTimesOut \/ WaitFails \/ ConnectFails
           \/ NextStep \/ Complete \/ ScanEnds \/ WorkerEnds
  PROVE  TypeOK'
<1> USE Untouched DEF TypeOK
<1>0. /\ 0 \in Channel /\ WaitChannel \in Channel
      /\ Ok \in Code /\ Exception \in Code /\ TimedOut \in Code /\ Gone \in Code
  BY WaitChannelType DEF Channel, Code
<1>1. CASE Construct
  <2>1. BleCmd("get_info") \in Command /\ BleCmd("get_connections") \in Command
    BY BleCmdType DEF CommandName, LinkCommand, GattCommand
  <2>2. << BleCmd("get_info"), BleCmd("get_connections") >> \in Seq(Command)  BY <2>1
  <2>3. ChannelsOK'  BY <1>1, <2>2, TransmitType DEF Construct
  <2>4. DevicesOK'  BY <1>1 DEF Construct, DevicesOK, devices
  <2>5. CallOK'  BY <1>1 DEF Construct, CallOK
  <2> QED  BY <1>1, <2>3, <2>4, <2>5 DEF Construct
<1>2. CASE Send
  <2>1. ChannelsOK'  BY <1>2, CommandsType, TransmitType DEF Send
  <2>2. Current.on \subseteq CompletionEvent  BY <1>2, CurrentFacts DEF Send
  <2>3. WaitOK'
    <3> DEFINE entry == [ce |-> Current.on, ch |-> WaitChannel]
    <3>1. entry \in [ce : SUBSET CompletionEvent, ch : Channel]  BY <1>0, <2>2
    <3>2. completionEventRegister' = completionEventRegister \cup {entry}  BY <1>2 DEF Send
    <3> HIDE DEF entry
    <3>3. completionEventRegister' \subseteq [ce : SUBSET CompletionEvent, ch : Channel]
      BY <3>1, <3>2 DEF WaitOK
    <3> QED  BY <1>2, <3>3 DEF Send, WaitOK
  <2>4. DevicesOK'  BY <1>2 DEF Send, DevicesOK
  <2>5. CallOK'  BY <1>2 DEF Send, CallOK, OnConnection
  <2> QED  BY <1>2, <2>1, <2>3, <2>4, <2>5 DEF Send
<1>3. CASE SendThrows
  <2>1. DevicesOK'  BY <1>3 DEF SendThrows, DevicesOK
  <2>2. CallOK'  BY <1>0, <1>3, ReturnType DEF SendThrows
  <2> QED  BY <1>3, <2>1, <2>2 DEF SendThrows
<1>4. CASE WaitTimesOut
  <2>1. WaitOK'  BY <1>0, <1>4, PostType DEF WaitTimesOut
  <2> QED  BY <1>4, <2>1 DEF WaitTimesOut
<1>5. CASE WaitFails
  <2>1. CallOK'  BY <1>0, <1>5, ReturnType DEF WaitFails, WaitOK
  <2> QED  BY <1>5, <2>1 DEF WaitFails
<1>6. CASE ConnectFails
  <2>0. BleCmd("end_procedure") \in Command
    BY BleCmdType DEF CommandName, LinkCommand, GattCommand
  <2>1. << BleCmd("end_procedure") >> \in Seq(Command)  BY <2>0
  <2>2. ChannelsOK'
    BY <1>6, <2>1, TransmitType DEF ConnectFails
  <2>3. CallOK'  BY <1>0, <1>6, ReturnType DEF ConnectFails, WaitOK
  <2> QED  BY <1>6, <2>2, <2>3 DEF ConnectFails
<1>7. CASE NextStep
  <2>1. call' = [call EXCEPT !.step = @ + 1] /\ pc' = "send" /\ result' = result
    BY <1>7 DEF NextStep
  <2>2. pc = "wait" /\ call.step # Len(Script[call.op])
    BY <1>7 DEF NextStep, WaitOver, LastStep
  <2>3. call.op \in Scripted /\ call.step \in 1 .. Len(Script[call.op])  BY <2>2 DEF CallOK
  <2>4. Len(Script[call.op]) \in 1 .. 4  BY <2>3, ScriptLength
  <2>5. \A n \in 1 .. 4, k \in 0 .. 4 : k \in 1 .. n /\ k # n => k + 1 \in 1 .. n /\ k + 1 \in 0 .. 4
    OBVIOUS
  <2>6. call.step + 1 \in 1 .. Len(Script[call.op]) /\ call.step + 1 \in 0 .. 4
    BY <2>2, <2>3, <2>4, <2>5 DEF CallOK
  <2>7. CallOK'  BY <2>1, <2>2, <2>6 DEF CallOK, OnConnection
  <2> QED  BY <1>7, <2>7 DEF NextStep
<1>8. CASE Complete
  <2>1. CASE pc' = "scan" /\ UNCHANGED <<call, result>>
    <3>1. CallOK'  BY <2>1 DEF CallOK
    <3> QED  BY <1>8, <3>1 DEF Complete
  <2>2. CASE \E code \in {Ok, Gone}, ch \in {call.handle, NoHandle, WaitChannel} : Return(code, ch)
    <3>1. call.handle \in Channel  BY DEF CallOK
    <3>2. CallOK'  BY <1>0, <2>2, <3>1, ReturnType
    <3> QED  BY <1>8, <3>2 DEF Complete
  <2> QED  BY <1>8, <2>1, <2>2 DEF Complete
<1>9. CASE ScanEnds
  <2>0. BleCmd("end_procedure") \in Command
    BY BleCmdType DEF CommandName, LinkCommand, GattCommand
  <2>1. << BleCmd("end_procedure") >> \in Seq(Command)  BY <2>0
  <2>2. ChannelsOK'  BY <1>9, <2>1, TransmitType DEF ScanEnds
  <2>3. CallOK'  BY <1>0, <1>9, ReturnType DEF ScanEnds
  <2> QED  BY <1>9, <2>2, <2>3 DEF ScanEnds
<1>10. CASE WorkerEnds
  <2>1. CallOK'  BY <1>10 DEF WorkerEnds, CallOK
  <2> QED  BY <1>10, <2>1 DEF WorkerEnds
<1> QED  BY <1>1, <1>2, <1>3, <1>4, <1>5, <1>6, <1>7, <1>8, <1>9, <1>10

\* The worker thread goes on to the next request, or the process ends.
LEMMA LoopType == TypeOK /\ (Poll \/ ProcessDies) => TypeOK'
<1> SUFFICES ASSUME TypeOK, Poll \/ ProcessDies PROVE TypeOK'  OBVIOUS
<1> USE Untouched DEF TypeOK
<1>1. CASE Poll
  <2>1. WaitOK'  BY <1>1 DEF Poll, WaitOK, Code
  <2>2. CallOK'
    BY <1>1 DEF Poll, CallOK, NoCall, NoResult, Channel, Code
  <2> QED  BY <1>1, <2>1, <2>2 DEF Poll
<1>2. CASE ProcessDies
  <2>1. CallOK'  BY <1>2 DEF ProcessDies, CallOK
  <2> QED  BY <1>2, <2>1 DEF ProcessDies
<1> QED  BY <1>1, <1>2

\* Any event that names no unknown device or connection is a message.
LEMMA EmitType ==
  ASSUME TypeOK, NEW e \in Message, Emit(e)
  PROVE  ChannelsOK' /\ WaitOK' /\ DevicesOK' /\ CallOK'
<1>1. ChannelsOK'  BY DEF Emit, TypeOK, ChannelsOK
<1> QED  BY <1>1, Untouched DEF Emit, TypeOK

\* Every command has a response, which is no link event.
LEMMA ResponseFacts ==
  ASSUME NEW c \in Command, NEW code \in {Ok, DongleError}
  PROVE  Event(ResponseTo[c.cmd], c.ch, None, code) \in Message
<1>1. c.cmd \in CommandName /\ c.ch \in Channel  BY DEF Command
<1>2. ResponseTo[c.cmd] \in Responses
  BY <1>1 DEF CommandName, ResponseTo, Responses
<1>3. \A r \in Responses : r \notin LinkEvents /\ r # "scan_response"
  BY DEF Responses, LinkEvents
<1> QED  BY <1>1, <1>2, <1>3 DEF Event, Message, CompletionEvent, Subject

\* The dongle executes a command.
LEMMA DongleType == TypeOK /\ DongleExecutes => TypeOK'
<1> SUFFICES ASSUME TypeOK, DongleExecutes PROVE TypeOK'  OBVIOUS
<1> USE Untouched DEF TypeOK
<1> DEFINE c == Head(toDongle)
<1>1. c \in Command  BY DEF DongleExecutes, ChannelsOK
<1>2. PICK code \in {Ok, DongleError} :
        fromDongle' = Append(fromDongle, Event(ResponseTo[c.cmd], c.ch, None, code))
  BY DEF DongleExecutes
<1>3. Event(ResponseTo[c.cmd], c.ch, None, code) \in Message  BY <1>1, ResponseFacts
<1>4. ChannelsOK'
  <2>1. toDongle' \in Seq(Command)  BY DEF DongleExecutes, ChannelsOK
  <2>2. fromDongle' \in Seq(Message)  BY <1>2, <1>3 DEF ChannelsOK
  <2> QED  BY <2>1, <2>2 DEF DongleExecutes, ChannelsOK
<1>5. c.arg \in Subject /\ c.cmd \in CommandName
      /\ (c.cmd = "connect_direct" => c.arg \in Mac) /\ (c.cmd \in LinkCommand => c.ch \in Handle)
  BY <1>1 DEF Command
<1>6. gap' \in Mac \cup {"idle", "scanning"}
  BY <1>5 DEF DongleExecutes, DongleOK
<1>7. running' \in [Handle -> [cmd : GattCommand \cup {"none"}, arg : Subject]]
  <2>1. CASE running' = running  BY <2>1 DEF DongleOK
  <2>2. CASE c.cmd \in GattCommand /\ running' = [running EXCEPT ![c.ch] = [cmd |-> c.cmd, arg |-> c.arg]]
    BY <1>5, <2>2 DEF DongleOK
  <2> QED  BY <2>1, <2>2 DEF DongleExecutes
<1>8. DongleOK'  BY <1>6, <1>7 DEF DongleExecutes, DongleOK
<1> QED  BY <1>4, <1>8 DEF DongleExecutes

\* The dongle adds an event of its own.
LEMMA SpontaneousType == TypeOK /\ Spontaneous => TypeOK'
<1> SUFFICES ASSUME TypeOK, Spontaneous PROVE TypeOK'  OBVIOUS
<1> USE Untouched, EmitType DEF TypeOK
<1>0. /\ Handle \subseteq Channel /\ Ok \in {Ok, DongleError} /\ None \in Subject
      /\ Mac \subseteq Subject /\ Attribute \subseteq Subject
      /\ Idle \in [cmd : GattCommand \cup {"none"}, arg : Subject]
  BY DEF Channel, Subject, Idle
<1>1. ASSUME NEW h \in Handle, Establish(h) PROVE TypeOK'
  <2>1. gap \in Mac  BY <1>1 DEF Establish
  <2>2. Event("GAP_CONNECTION_EVT", h, gap, Ok) \in Message
    BY <1>0, <2>1 DEF Event, Message, CompletionEvent, LinkEvents
  <2>3. DongleOK'  BY <1>1, <2>1 DEF Establish, DongleOK
  <2> QED  BY <1>1, <2>2, <2>3 DEF Establish
<1>2. ASSUME NEW h \in Handle, Drop(h) PROVE TypeOK'
  <2>1. Event("CONNECTION_DISCONNECT_EVT", h, None, Ok) \in Message
    BY <1>0 DEF Event, Message, CompletionEvent, LinkEvents
  <2>2. DongleOK'  BY <1>0, <1>2 DEF Drop, DongleOK
  <2> QED  BY <1>2, <2>1, <2>2 DEF Drop
<1>3. ASSUME NEW h \in Handle, ParametersChange(h) PROVE TypeOK'
  <2>1. links[h] \in Mac  BY <1>3 DEF ParametersChange, Linked, DongleOK
  <2>2. Event("CONNECTION_UPDATE_EVT", h, links[h], Ok) \in Message
    BY <1>0, <2>1 DEF Event, Message, CompletionEvent, LinkEvents
  <2> QED  BY <1>3, <2>2 DEF ParametersChange
<1>4. ASSUME NEW h \in Handle, ProcedureEnds(h) PROVE TypeOK'
  <2>1. running[h].arg \in Subject  BY DEF DongleOK
  <2>2. Event("ATTCLIENT_ATTRIBUTE_FOUND_EVT", h, running[h].arg, Ok) \in Message
    BY <1>0, <2>1 DEF Event, Message, CompletionEvent, LinkEvents, GattEvents
  <2>3. \A code \in {Ok, DongleError} :
          Event("GATT_PROCEDURE_COMPLETE_EVT", h, None, code) \in Message
    BY <1>0 DEF Event, Message, CompletionEvent, LinkEvents, GattEvents
  <2>4. DongleOK'  BY <1>0, <1>4 DEF ProcedureEnds, DongleOK
  <2> QED  BY <1>4, <2>2, <2>3, <2>4 DEF ProcedureEnds
<1>5. ASSUME NEW h \in Handle, NEW attr \in Attribute, Notify(h, attr) PROVE TypeOK'
  <2>1. Event("ATTCLIENT_ATTRIBUTE_FOUND_EVT", h, attr, Ok) \in Message
    BY <1>0 DEF Event, Message, CompletionEvent, LinkEvents, GattEvents
  <2> QED  BY <1>5, <2>1 DEF Notify
<1>6. ASSUME NEW mac \in Mac, ScanReport(mac) PROVE TypeOK'
  <2>1. Event("scan_response", 0, mac, Ok) \in Message
    BY <1>0 DEF Event, Message, LinkEvents, Channel
  <2> QED  BY <1>6, <2>1 DEF ScanReport
<1> QED  BY <1>1, <1>2, <1>3, <1>4, <1>5, <1>6 DEF Spontaneous

\* The client ends and takes part of the messages with it.
LEMMA ClientDiesType == TypeOK /\ ClientDies => TypeOK'
<1> SUFFICES ASSUME TypeOK, ClientDies PROVE TypeOK'  OBVIOUS
<1>1. PICK n \in 0 .. Len(fromDongle) : fromDongle' = SubSeq(fromDongle, 1, n)
  BY DEF ClientDies
<1>2. SubSeq(fromDongle, 1, n) \in Seq(Message)  BY DEF TypeOK, ChannelsOK
<1>3. ChannelsOK'
  <2>1. fromDongle' \in Seq(Message)  BY <1>1, <1>2
  <2>2. toDongle' \in Seq(Command)  BY DEF ClientDies
  <2>3. open' \in BOOLEAN  BY DEF ClientDies
  <2> QED  BY <2>1, <2>2, <2>3 DEF ChannelsOK
<1>4. DongleOK'  BY DEF ClientDies, DongleOK, Idle, Subject
<1> QED  BY <1>3, <1>4, Untouched DEF ClientDies, TypeOK

LEMMA NextType == TypeOK /\ [Next]_vars => TypeOK'
<1> SUFFICES ASSUME TypeOK, [Next]_vars PROVE TypeOK'  OBVIOUS
<1>1. CASE Work
  BY <1>1, ReadingType, WorkType DEF Work
<1>2. CASE Request  BY <1>2, RequestType
<1>3. CASE Poll \/ ProcessDies  BY <1>3, LoopType
<1>4. CASE DongleExecutes  BY <1>4, DongleType
<1>5. CASE Spontaneous  BY <1>5, SpontaneousType
<1>6. CASE ClientDies  BY <1>6, ClientDiesType
<1>7. CASE Over \/ UNCHANGED vars
  BY <1>7, Untouched DEF Over, vars, TypeOK
<1> QED  BY <1>1, <1>2, <1>3, <1>4, <1>5, <1>6, <1>7 DEF Next

\* Every variable keeps its type, in particular the connection handle that a running command
\* captured at its start and keeps using after its waits (BLE_DRIVER.cpp 458-661, 755-1041).
THEOREM TypeCorrect == Spec => []TypeOK
<1>1. Init => TypeOK  BY InitType
<1>2. TypeOK /\ [Next]_vars => TypeOK'  BY NextType
<1> QED  BY <1>1, <1>2, PTL DEF Spec

-----------------------------------------------------------------------------
(* The register of waits                                                   *)

\* Posting keeps the discipline: it either removes the only entry and marks the wait as
\* released, or leaves both alone.
LEMMA PostDiscipline ==
  ASSUME TypeOK, RegisterDiscipline, NEW ce, NEW ch, NEW code, NEW m, Post(ce, ch, code, m),
         pc' = pc \/ (pc # "wait" /\ pc' # "wait"), call' = call
  PROVE  RegisterDiscipline'
<1> DEFINE entry == [ce |-> Current.on, ch |-> WaitChannel]
           hits == {e \in completionEventRegister : Awaits(e, ce, ch)}
<1>1. entry' = entry  BY DEF Current, WaitChannel, OnConnection
<1>2. /\ completionEventRegister' = completionEventRegister \ hits
      /\ eventOccurred' = (eventOccurred \/ hits # {})
  BY DEF Post
<1>3. eventOccurred \in BOOLEAN  BY DEF TypeOK, WaitOK
<1> HIDE DEF entry, hits
<1>4. CASE pc = "wait" /\ ~eventOccurred
  <2>1. completionEventRegister = {entry}  BY <1>4 DEF RegisterDiscipline, entry
  <2>2. CASE hits = {}
    <3>1. pc' = "wait" /\ ~eventOccurred'  BY <1>2, <1>4, <2>2
    <3>2. completionEventRegister' = {entry'}  BY <1>1, <1>2, <2>1, <2>2
    <3> QED  BY <3>1, <3>2 DEF RegisterDiscipline, entry
  <2>3. CASE hits # {}
    <3>1. hits = {entry}  BY <2>1, <2>3 DEF hits
    <3>2. completionEventRegister' = {} /\ eventOccurred'  BY <1>2, <2>1, <3>1
    <3> QED  BY <3>2 DEF RegisterDiscipline
  <2> QED  BY <2>2, <2>3
<1>5. CASE ~(pc = "wait" /\ ~eventOccurred)
  <2>1. completionEventRegister = {}  BY <1>5 DEF RegisterDiscipline
  <2>2. hits = {}  BY <2>1 DEF hits
  <2>3. completionEventRegister' = {} /\ eventOccurred' = eventOccurred  BY <1>2, <1>3, <2>1, <2>2
  <2> QED  BY <1>5, <2>3 DEF RegisterDiscipline
<1> QED  BY <1>4, <1>5

\* Outside an unreleased wait the register is empty, and stays so unless a wait begins.
LEMMA EmptyDiscipline ==
  ASSUME RegisterDiscipline, ~(pc = "wait" /\ ~eventOccurred), pc' # "wait",
         UNCHANGED completionEventRegister
  PROVE  RegisterDiscipline'
BY DEF RegisterDiscipline

\* What does not touch the wait, the command or the thread does not touch the discipline.
LEMMA ElsewhereDiscipline ==
  ASSUME RegisterDiscipline, UNCHANGED <<wait, pc, call>>
  PROVE  RegisterDiscipline'
BY DEF RegisterDiscipline, wait, Current, WaitChannel, OnConnection

LEMMA NextDiscipline == TypeOK /\ RegisterDiscipline /\ [Next]_vars => RegisterDiscipline'
<1> SUFFICES ASSUME TypeOK, RegisterDiscipline, [Next]_vars PROVE RegisterDiscipline'
  OBVIOUS
<1>1. CASE Send
  <2>1. completionEventRegister = {}  BY <1>1 DEF Send, RegisterDiscipline
  <2>2. Current' = Current /\ WaitChannel' = WaitChannel
    BY <1>1 DEF Send, Current, WaitChannel, OnConnection
  <2>3. completionEventRegister' = {[ce |-> Current.on, ch |-> WaitChannel]}
    BY <1>1, <2>1 DEF Send
  <2>4. pc' = "wait" /\ ~eventOccurred'  BY <1>1 DEF Send
  <2> QED  BY <2>2, <2>3, <2>4 DEF RegisterDiscipline
<1>2. CASE Receive
  BY <1>2, PostDiscipline DEF Receive
<1>3. CASE WaitTimesOut
  BY <1>3, PostDiscipline DEF WaitTimesOut
<1>4. CASE ReceiveEof
  <2>1. CASE pc = "poll"  BY <1>4, <2>1, EmptyDiscipline DEF ReceiveEof, wait
  <2>2. CASE pc # "poll"  BY <1>4, <2>2, ElsewhereDiscipline DEF ReceiveEof
  <2> QED  BY <2>1, <2>2
<1>5. CASE WaitFails \/ ConnectFails \/ NextStep \/ Complete
  <2>1. ~(pc = "wait" /\ ~eventOccurred)
    BY <1>5 DEF WaitFails, ConnectFails, NextStep, Complete, WaitOver
  <2>2. pc' # "wait" /\ UNCHANGED completionEventRegister
    BY <1>5 DEF WaitFails, ConnectFails, NextStep, Complete, Return, wait
  <2> QED  BY <2>1, <2>2, EmptyDiscipline
<1>6. CASE Construct \/ SendThrows \/ PollTimesOut \/ ScanEnds \/ WorkerEnds \/ Poll
  <2>1. pc # "wait" /\ pc' # "wait" /\ UNCHANGED completionEventRegister
    BY <1>6 DEF Construct, SendThrows, PollTimesOut, ScanEnds, WorkerEnds, Poll, Return, wait
  <2> QED  BY <2>1, EmptyDiscipline
<1>7. CASE ProcessDies
  <2>1. ~(pc = "wait" /\ ~eventOccurred)  BY <1>7 DEF ProcessDies
  <2>2. pc' # "wait" /\ UNCHANGED completionEventRegister  BY <1>7 DEF ProcessDies, wait
  <2> QED  BY <2>1, <2>2, EmptyDiscipline
<1>8. CASE Request
  <2>1. pc # "wait" /\ pc' # "wait" /\ UNCHANGED completionEventRegister
    BY <1>8 DEF Request, StartOnConnection, AnswerAtOnce, StartConnect, StartGlobal, Accept,
                Start, wait
  <2> QED  BY <2>1, EmptyDiscipline
<1>9. CASE DongleExecutes \/ Spontaneous \/ ClientDies
  <2>1. UNCHANGED <<wait, pc, call>>
    BY <1>9 DEF DongleExecutes, Spontaneous, Establish, Drop, ParametersChange, ProcedureEnds,
                Notify, ScanReport, Emit, ClientDies
  <2> QED  BY <2>1, ElsewhereDiscipline
<1>10. CASE Over \/ UNCHANGED vars
  BY <1>10, ElsewhereDiscipline DEF Over, vars
<1> QED
  BY <1>1, <1>2, <1>3, <1>4, <1>5, <1>6, <1>7, <1>8, <1>9, <1>10 DEF Next, Work

\* The register of pointers into wait frames (completionEventRegister, BLE_DRIVER.cpp
\* 2540-2596) holds exactly the wait under way: it needs no entry of a returned wait to be
\* cleaned up, and a callback never finds more than one entry to erase.
THEOREM RegisterCorrect == Spec => []RegisterDiscipline
<1>1. Init => RegisterDiscipline  BY DEF Init, RegisterDiscipline
<1>2. TypeOK /\ RegisterDiscipline /\ [Next]_vars => RegisterDiscipline'  BY NextDiscipline
<1>3. Spec => []TypeOK  BY TypeCorrect
<1> QED  BY <1>1, <1>2, <1>3, PTL DEF Spec

-----------------------------------------------------------------------------
(* The driver's view of the links                                          *)

\* A device table follows what the dongle says in order: after any message about a
\* connection is queued, and after any message is read, the table still leads to the links.
LEMMA EmitMirrors ==
  ASSUME TypeOK, MirrorsLinks, NEW e \in Message, fromDongle' = Append(fromDongle, e),
         UNCHANGED <<open, connectedDevices>>,
         e.evt \in LinkEvents => links'[e.ch] = e.arg,
         \A h \in Handle : links'[h] = links[h] \/ (e.evt \in LinkEvents /\ e.ch = h)
  PROVE  MirrorsLinks'
<1> SUFFICES ASSUME open', NEW h \in Handle
             PROVE  /\ News(h)' = {} => connectedDevices'[h] = links'[h]
                    /\ \A i \in News(h)' :
                         (\A j \in News(h)' : j <= i) => fromDongle'[i].arg = links'[h]
  BY DEF MirrorsLinks
<1> DEFINE n == Len(fromDongle)
<1>1. /\ fromDongle \in Seq(Message) /\ n \in Nat
      /\ DOMAIN fromDongle = 1 .. n /\ DOMAIN fromDongle' = 1 .. n + 1
      /\ fromDongle'[n + 1] = e
      /\ \A i \in 1 .. n : fromDongle'[i] = fromDongle[i]
  BY DEF TypeOK, ChannelsOK
<1>2. open /\ connectedDevices' = connectedDevices  OBVIOUS
<1>3. CASE e.evt \in LinkEvents /\ e.ch = h
  <2>1. n + 1 \in News(h)'  BY <1>1, <1>3 DEF News
  <2>2. \A i \in News(h)' : n + 1 <= i => i = n + 1  BY <1>1 DEF News
  <2> QED  BY <1>1, <1>3, <2>1, <2>2
<1>4. CASE ~(e.evt \in LinkEvents /\ e.ch = h)
  <2>1. links'[h] = links[h]  BY <1>4
  <2>2. News(h)' = News(h)  BY <1>1, <1>4 DEF News
  <2>3. \A i \in News(h) : fromDongle'[i] = fromDongle[i]  BY <1>1 DEF News
  <2> QED  BY <1>2, <2>1, <2>2, <2>3 DEF MirrorsLinks
<1> QED  BY <1>3, <1>4

LEMMA ReceiveMirrors == TypeOK /\ MirrorsLinks /\ Receive => MirrorsLinks'
<1> SUFFICES ASSUME TypeOK, MirrorsLinks, Receive, open', NEW h \in Handle
             PROVE  /\ News(h)' = {} => connectedDevices'[h] = links'[h]
                    /\ \A i \in News(h)' :
                         (\A j \in News(h)' : j <= i) => fromDongle'[i].arg = links'[h]
  BY DEF MirrorsLinks
<1> DEFINE m == Head(fromDongle)
           n == Len(fromDongle)
<1>1. /\ fromDongle \in Seq(Message) /\ fromDongle # <<>> /\ n \in Nat \ {0}
      /\ fromDongle' = Tail(fromDongle)
      /\ DOMAIN fromDongle = 1 .. n /\ DOMAIN fromDongle' = 1 .. n - 1
      /\ \A i \in 1 .. n - 1 : fromDongle'[i] = fromDongle[i + 1]
      /\ m = fromDongle[1] /\ m \in Message
  BY DEF Receive, TypeOK, ChannelsOK
<1>2. /\ open /\ links' = links /\ connectedDevices' = FollowsLinks(m)
      /\ connectedDevices \in [Handle -> Mac \cup {None}]
  BY DEF Receive, dongle, TypeOK, DevicesOK
<1>3. \A i \in News(h)' : i + 1 \in News(h)  BY <1>1 DEF News
<1>4. \A i \in News(h) : i # 1 => i - 1 \in News(h)'  BY <1>1 DEF News
<1>5. 1 \in News(h) <=> m.evt \in LinkEvents /\ m.ch = h  BY <1>1 DEF News
<1>6. 1 \in News(h) => connectedDevices'[h] = m.arg
  BY <1>1, <1>2, <1>5 DEF FollowsLinks, LinkEvents, Message
<1>7. 1 \notin News(h) => connectedDevices'[h] = connectedDevices[h]
  BY <1>1, <1>2, <1>5 DEF FollowsLinks, LinkEvents, Message
<1>8. ASSUME News(h)' = {} PROVE connectedDevices'[h] = links'[h]
  <2>1. CASE 1 \in News(h)
    <3>1. \A j \in News(h) : j <= 1  BY <1>4, <1>8
    <3>2. fromDongle[1].arg = links[h]  BY <1>2, <2>1, <3>1 DEF MirrorsLinks
    <3> QED  BY <1>1, <1>2, <1>6, <2>1, <3>2
  <2>2. CASE 1 \notin News(h)
    <3>1. News(h) = {}  BY <1>4, <1>8, <2>2
    <3> QED  BY <1>2, <1>7, <2>2, <3>1 DEF MirrorsLinks
  <2> QED  BY <2>1, <2>2
<1>9. ASSUME NEW i \in News(h)', \A j \in News(h)' : j <= i
      PROVE  fromDongle'[i].arg = links'[h]
  <2>1. i \in 1 .. n - 1 /\ i + 1 \in News(h)  BY <1>1, <1>3 DEF News
  <2>2. \A j \in News(h) : j \in 1 .. n  BY <1>1 DEF News
  <2>3. \A j \in News(h) : j <= i + 1  BY <1>1, <1>4, <1>9, <2>1, <2>2
  <2>4. fromDongle[i + 1].arg = links[h]  BY <1>2, <2>1, <2>3 DEF MirrorsLinks
  <2> QED  BY <1>1, <1>2, <2>1, <2>4
<1> QED  BY <1>8, <1>9

\* A step that leaves the messages, the links and the table alone changes nothing.
LEMMA ElsewhereMirrors ==
  ASSUME MirrorsLinks, UNCHANGED <<open, fromDongle, links, connectedDevices>>
  PROVE  MirrorsLinks'
BY DEF MirrorsLinks, News

LEMMA NextMirrors == TypeOK /\ MirrorsLinks /\ [Next]_vars => MirrorsLinks'
<1> SUFFICES ASSUME TypeOK, MirrorsLinks, [Next]_vars PROVE MirrorsLinks'  OBVIOUS
<1>1. CASE Receive  BY <1>1, ReceiveMirrors
<1>2. CASE DongleExecutes
  <2> DEFINE c == Head(toDongle)
  <2>1. c \in Command  BY <1>2 DEF DongleExecutes, TypeOK, ChannelsOK
  <2>2. PICK code \in {Ok, DongleError} :
          fromDongle' = Append(fromDongle, Event(ResponseTo[c.cmd], c.ch, None, code))
    BY <1>2 DEF DongleExecutes
  <2>3. Event(ResponseTo[c.cmd], c.ch, None, code) \in Message  BY <2>1, ResponseFacts
  <2>4. ResponseTo[c.cmd] \notin LinkEvents
    BY <2>1 DEF Command, CommandName, ResponseTo, LinkEvents
  <2>5. UNCHANGED <<open, links, connectedDevices>>  BY <1>2 DEF DongleExecutes, devices
  <2> HIDE DEF c
  <2> QED  BY <2>2, <2>3, <2>4, <2>5, EmitMirrors DEF Event
<1>3. CASE Spontaneous
  <2>0. /\ Handle \subseteq Channel /\ None \in Subject /\ Mac \subseteq Subject
        /\ Attribute \subseteq Subject /\ Ok \in {Ok, DongleError}
        /\ links \in [Handle -> Mac \cup {None}]
    BY DEF Channel, Subject, TypeOK, DongleOK
  <2> USE EmitMirrors DEF Emit, devices, dongle
  <2>1. ASSUME NEW h \in Handle, Establish(h) PROVE MirrorsLinks'
    <3>1. gap \in Mac  BY <2>1 DEF Establish
    <3>2. Event("GAP_CONNECTION_EVT", h, gap, Ok) \in Message
      BY <2>0, <3>1 DEF Event, Message, CompletionEvent, LinkEvents
    <3>3. links' = [links EXCEPT ![h] = gap]  BY <2>1 DEF Establish
    <3> QED  BY <2>0, <2>1, <3>2, <3>3 DEF Establish, Event, LinkEvents
  <2>2. ASSUME NEW h \in Handle, Drop(h) PROVE MirrorsLinks'
    <3>1. Event("CONNECTION_DISCONNECT_EVT", h, None, Ok) \in Message
      BY <2>0 DEF Event, Message, CompletionEvent, LinkEvents
    <3>2. links' = [links EXCEPT ![h] = None]  BY <2>2 DEF Drop
    <3> QED  BY <2>0, <2>2, <3>1, <3>2 DEF Drop, Event, LinkEvents
  <2>3. ASSUME NEW h \in Handle, ParametersChange(h) PROVE MirrorsLinks'
    <3>1. links[h] \in Mac  BY <2>0, <2>3 DEF ParametersChange, Linked
    <3>2. Event("CONNECTION_UPDATE_EVT", h, links[h], Ok) \in Message
      BY <2>0, <3>1 DEF Event, Message, CompletionEvent, LinkEvents
    <3> QED  BY <2>0, <2>3, <3>2 DEF ParametersChange, Event, LinkEvents
  <2>4. ASSUME NEW h \in Handle, ProcedureEnds(h) PROVE MirrorsLinks'
    <3>1. running[h].arg \in Subject  BY DEF TypeOK, DongleOK
    <3>2. Event("ATTCLIENT_ATTRIBUTE_FOUND_EVT", h, running[h].arg, Ok) \in Message
      BY <2>0, <3>1 DEF Event, Message, CompletionEvent, LinkEvents, GattEvents
    <3>3. \A code \in {Ok, DongleError} :
            Event("GATT_PROCEDURE_COMPLETE_EVT", h, None, code) \in Message
      BY <2>0 DEF Event, Message, CompletionEvent, LinkEvents, GattEvents
    <3>4. links' = links  BY <2>4 DEF ProcedureEnds
    <3> QED  BY <2>4, <3>2, <3>3, <3>4 DEF ProcedureEnds, Event, LinkEvents
  <2>5. ASSUME NEW h \in Handle, NEW attr \in Attribute, Notify(h, attr) PROVE MirrorsLinks'
    <3>1. Event("ATTCLIENT_ATTRIBUTE_FOUND_EVT", h, attr, Ok) \in Message
      BY <2>0 DEF Event, Message, CompletionEvent, LinkEvents, GattEvents
    <3> QED  BY <2>5, <3>1 DEF Notify, Event, LinkEvents
  <2>6. ASSUME NEW mac \in Mac, ScanReport(mac) PROVE MirrorsLinks'
    <3>1. Event("scan_response", 0, mac, Ok) \in Message
      BY <2>0 DEF Event, Message, LinkEvents, Channel
    <3> QED  BY <2>6, <3>1 DEF ScanReport, Event, LinkEvents
  <2> QED  BY <1>3, <2>1, <2>2, <2>3, <2>4, <2>5, <2>6 DEF Spontaneous
<1>4. CASE ClientDies  BY <1>4 DEF ClientDies, MirrorsLinks
<1>5. CASE Work /\ ~Receive
  <2>1. UNCHANGED <<open, fromDongle, links, connectedDevices>>
    BY <1>5 DEF Work, Construct, Send, SendThrows, ReceiveEof, PollTimesOut, WaitTimesOut,
                WaitFails, ConnectFails, NextStep, Complete, ScanEnds, WorkerEnds, Transmit,
                channel, dongle, devices
  <2> QED  BY <2>1, ElsewhereMirrors
<1>6. CASE Request \/ Poll \/ ProcessDies \/ Over \/ UNCHANGED vars
  <2>1. UNCHANGED <<open, fromDongle, links, connectedDevices>>
    BY <1>6 DEF Request, StartOnConnection, AnswerAtOnce, StartConnect, StartGlobal, Start,
                Poll, ProcessDies, Over, channel, dongle, devices, vars
  <2> QED  BY <2>1, ElsewhereMirrors
<1> QED  BY <1>1, <1>2, <1>3, <1>4, <1>5, <1>6 DEF Next

\* connectedDevices follows the dongle's links (callbacks BLE_DRIVER.cpp 2041-2129): whatever
\* commands run and time out, and however connections come and go, the table is exact as soon
\* as the driver has read what the dongle has reported.
THEOREM MirrorCorrect == Spec => []MirrorsLinks
<1>1. Init => MirrorsLinks  BY DEF Init, MirrorsLinks, News
<1>2. TypeOK /\ MirrorsLinks /\ [Next]_vars => MirrorsLinks'  BY NextMirrors
<1>3. Spec => []TypeOK  BY TypeCorrect
<1> QED  BY <1>1, <1>2, <1>3, PTL DEF Spec

-----------------------------------------------------------------------------
(* One entry per device                                                    *)

\* The dongle has one link to a device, and looks for none that it has a link to.
LinksDistinct ==
  /\ \A g, h \in Handle : links[g] = links[h] => g = h \/ links[g] = None
  /\ gap \in Mac => \A h \in Handle : links[h] # gap

\* Once the messages before the i-th are read, connection g is not known as device d.
FreeBefore(g, i, d) ==
  LET earlier == {j \in News(g) : j < i}
  IN  /\ earlier = {} => connectedDevices[g] # d
      /\ \A j \in earlier : (\A k \in earlier : k <= j) => fromDongle[j].arg # d

\* A message that enters a device does so when no other connection is known as that device.
NewsDistinct ==
  \A h \in Handle : \A i \in News(h) :
    fromDongle[i].arg # None => \A g \in Handle \ {h} : FreeBefore(g, i, fromDongle[i].arg)

EntryInv == LinksDistinct /\ NewsDistinct /\ OneHandlePerDevice

\* A message about no connection, or one that only repeats or ends a link, or enters one that the
\* dongle has.
LEMMA EmitEntries ==
  ASSUME TypeOK, MirrorsLinks, open, NewsDistinct, OneHandlePerDevice,
         NEW e \in Message, fromDongle' = Append(fromDongle, e), UNCHANGED connectedDevices,
         e.evt \in LinkEvents /\ e.arg # None => \A g \in Handle \ {e.ch} : links[g] # e.arg
  PROVE  NewsDistinct' /\ OneHandlePerDevice'
<1>1. OneHandlePerDevice'  BY DEF OneHandlePerDevice
<1> DEFINE n == Len(fromDongle)
<1>2. /\ n \in Nat /\ DOMAIN fromDongle = 1 .. n /\ DOMAIN fromDongle' = 1 .. n + 1
      /\ fromDongle'[n + 1] = e
      /\ \A i \in 1 .. n : fromDongle'[i] = fromDongle[i]
  BY DEF TypeOK, ChannelsOK
<1> HIDE DEF n
<1> SUFFICES ASSUME NEW h \in Handle, NEW i \in News(h)', fromDongle'[i].arg # None,
                    NEW g \in Handle \ {h}
             PROVE  FreeBefore(g, i, fromDongle[i].arg)'
  BY <1>1 DEF NewsDistinct
<1> DEFINE earlier == {j \in News(g) : j < i}
<1>3. i \in 1 .. n + 1 /\ {j \in News(g)' : j < i} = earlier
  BY <1>2 DEF News
<1>4. \A j \in earlier : fromDongle'[j] = fromDongle[j] /\ j \in News(g)
  BY <1>2 DEF News
<1>5. FreeBefore(g, i, fromDongle'[i].arg)
  <2>1. CASE i \in 1 .. n
    <3>1. i \in News(h) /\ fromDongle'[i] = fromDongle[i]  BY <1>2, <2>1 DEF News
    <3> QED  BY <3>1 DEF NewsDistinct
  <2>2. CASE i = n + 1
    <3>1. e.evt \in LinkEvents /\ e.ch = h /\ e.arg # None /\ fromDongle'[i] = e
      BY <1>2, <2>2 DEF News
    <3>2. links[g] # e.arg  BY <3>1
    <3>3. earlier = News(g)  BY <1>2, <2>2 DEF News
    <3>4. earlier = {} => connectedDevices[g] # e.arg
      BY <3>2, <3>3 DEF MirrorsLinks
    <3>5. \A j \in earlier : (\A k \in earlier : k <= j) => fromDongle[j].arg # e.arg
      BY <3>2, <3>3 DEF MirrorsLinks
    <3> QED  BY <3>1, <3>4, <3>5 DEF FreeBefore
  <2> QED  BY <1>2, <1>3, <2>1, <2>2
<1> HIDE DEF earlier
<1>6. /\ earlier = {} => connectedDevices[g] # fromDongle'[i].arg
      /\ \A j \in earlier : (\A k \in earlier : k <= j) => fromDongle[j].arg # fromDongle'[i].arg
  BY <1>5 DEF FreeBefore, earlier
<1>7. /\ {l \in News(g)' : l < i} = {} => connectedDevices'[g] # fromDongle'[i].arg
      /\ \A j \in {l \in News(g)' : l < i} :
           (\A k \in {l \in News(g)' : l < i} : k <= j) => fromDongle'[j].arg # fromDongle'[i].arg
  BY <1>3, <1>4, <1>6
<1> QED  BY <1>7 DEF FreeBefore

LEMMA ReceiveEntries ==
  ASSUME TypeOK, NewsDistinct, OneHandlePerDevice, Receive
  PROVE  NewsDistinct' /\ OneHandlePerDevice'
<1> DEFINE m == Head(fromDongle)
           n == Len(fromDongle)
<1>1. /\ fromDongle \in Seq(Message) /\ fromDongle # <<>> /\ n \in Nat \ {0}
      /\ DOMAIN fromDongle = 1 .. n /\ DOMAIN fromDongle' = 1 .. n - 1
      /\ \A i \in 1 .. n - 1 : fromDongle'[i] = fromDongle[i + 1]
      /\ m = fromDongle[1] /\ m \in Message
  BY DEF Receive, TypeOK, ChannelsOK
<1>2. /\ connectedDevices' = FollowsLinks(m)
      /\ connectedDevices \in [Handle -> Mac \cup {None}]
  BY DEF Receive, dongle, TypeOK, DevicesOK
<1>3. ASSUME NEW h \in Handle
      PROVE  /\ 1 \in News(h) <=> m.evt \in LinkEvents /\ m.ch = h
             /\ 1 \in News(h) => connectedDevices'[h] = m.arg
             /\ 1 \notin News(h) => connectedDevices'[h] = connectedDevices[h]
             /\ \A i \in News(h)' : i \in Int /\ i >= 1 /\ i + 1 \in News(h) /\ fromDongle'[i] = fromDongle[i + 1]
             /\ \A i \in News(h) : i \in Int /\ i >= 1 /\ (i # 1 => i - 1 \in News(h)')
  <2>1. 1 \in News(h) <=> m.evt \in LinkEvents /\ m.ch = h  BY <1>1 DEF News
  <2>2. 1 \in News(h) => connectedDevices'[h] = m.arg
    BY <1>1, <1>2, <2>1 DEF FollowsLinks, LinkEvents, Message
  <2>3. 1 \notin News(h) => connectedDevices'[h] = connectedDevices[h]
    BY <1>1, <1>2, <2>1 DEF FollowsLinks, LinkEvents, Message
  <2>4. \A i \in News(h)' : i \in Int /\ i >= 1 /\ i + 1 \in News(h) /\ fromDongle'[i] = fromDongle[i + 1]
    BY <1>1 DEF News
  <2>5. \A i \in News(h) : i \in Int /\ i >= 1 /\ (i # 1 => i - 1 \in News(h)')  BY <1>1 DEF News
  <2> QED  BY <2>1, <2>2, <2>3, <2>4, <2>5
<1> HIDE DEF m, n
<1>4. OneHandlePerDevice'
  <2>1. SUFFICES ASSUME NEW g \in Handle, NEW h \in Handle, g # h, connectedDevices'[g] = connectedDevices'[h],
                        1 \in News(h)
                 PROVE  connectedDevices'[g] = None
    <3>1. SUFFICES ASSUME NEW g \in Handle, NEW h \in Handle, g # h,
                          connectedDevices'[g] = connectedDevices'[h]
                   PROVE  connectedDevices'[g] = None
      BY DEF OneHandlePerDevice
    <3>2. CASE 1 \in News(g) \/ 1 \in News(h)  BY <2>1, <3>1, <3>2
    <3>3. CASE ~(1 \in News(g) \/ 1 \in News(h))
      <4>1. connectedDevices'[g] = connectedDevices[g] /\ connectedDevices'[h] = connectedDevices[h]
        BY <1>3, <3>3
      <4> QED  BY <3>1, <4>1 DEF OneHandlePerDevice
    <3> QED  BY <3>2, <3>3
  <2>2. connectedDevices'[h] = fromDongle[1].arg  BY <1>1, <1>3, <2>1
  <2>3. 1 \notin News(g)  BY <1>3, <2>1
  <2>4. connectedDevices'[g] = connectedDevices[g]  BY <1>3, <2>3
  <2>5. fromDongle[1].arg # None => FreeBefore(g, 1, fromDongle[1].arg)
    BY <2>1 DEF NewsDistinct
  <2>6. {j \in News(g) : j < 1} = {}  BY <1>3
  <2>7. fromDongle[1].arg # None => connectedDevices[g] # fromDongle[1].arg
    BY <2>5, <2>6 DEF FreeBefore
  <2> QED  BY <2>1, <2>2, <2>4, <2>7
<1>5. NewsDistinct'
  <2> SUFFICES ASSUME NEW h \in Handle, NEW i \in News(h)', fromDongle'[i].arg # None,
                      NEW g \in Handle \ {h}
               PROVE  FreeBefore(g, i, fromDongle[i].arg)'
    BY DEF NewsDistinct
  <2> DEFINE d == fromDongle'[i].arg
             later == {j \in News(g)' : j < i}
             earlier == {j \in News(g) : j < i + 1}
  <2>1. i \in Int /\ i >= 1 /\ i + 1 \in News(h) /\ fromDongle[i + 1] = fromDongle'[i]
    BY <1>3
  <2>2. FreeBefore(g, i + 1, d)  BY <2>1 DEF NewsDistinct
  <2> HIDE DEF d
  <2>3. /\ earlier = {} => connectedDevices[g] # d
        /\ \A j \in earlier : (\A k \in earlier : k <= j) => fromDongle[j].arg # d
    BY <2>2 DEF FreeBefore
  <2>4. \A j \in later : j \in Int /\ j >= 1 /\ j + 1 \in earlier /\ fromDongle'[j] = fromDongle[j + 1]
    BY <1>3, <2>1
  <2>5. \A j \in earlier : j \in Int /\ j >= 1 /\ (j # 1 => j - 1 \in later)
    BY <1>3, <2>1
  <2>6. 1 \in earlier <=> 1 \in News(g)  BY <2>1
  <2> HIDE DEF later, earlier
  <2>7. ASSUME later = {}  PROVE connectedDevices'[g] # d
    <3>1. CASE 1 \in earlier
      <4>1. \A k \in earlier : k <= 1  BY <2>5, <2>7
      <4>2. fromDongle[1].arg # d  BY <2>3, <3>1, <4>1
      <4>3. connectedDevices'[g] = fromDongle[1].arg  BY <1>1, <1>3, <2>6, <3>1
      <4> QED  BY <4>2, <4>3
    <3>2. CASE 1 \notin earlier
      <4>1. earlier = {}  BY <2>5, <2>7, <3>2
      <4>2. connectedDevices'[g] = connectedDevices[g]  BY <1>3, <2>6, <3>2
      <4> QED  BY <2>3, <4>1, <4>2
    <3> QED  BY <3>1, <3>2
  <2>8. ASSUME NEW j \in later, \A k \in later : k <= j  PROVE fromDongle'[j].arg # d
    <3>1. j \in Int /\ j + 1 \in earlier /\ fromDongle'[j] = fromDongle[j + 1]  BY <2>4
    <3>2. ASSUME NEW k \in earlier PROVE k <= j + 1
      <4>1. CASE k = 1  BY <2>4, <4>1
      <4>2. CASE k # 1
        <5>1. k - 1 \in later /\ k \in Int  BY <2>5, <4>2
        <5>2. k - 1 <= j  BY <2>8, <5>1
        <5> QED  BY <3>1, <5>1, <5>2
      <4> QED  BY <4>1, <4>2
    <3> QED  BY <2>3, <3>1, <3>2
  <2> QED  BY <2>7, <2>8 DEF FreeBefore, later, d
<1> QED  BY <1>4, <1>5

\* Steps that leave the driver's side of the links alone.
LEMMA ElsewhereEntries ==
  ASSUME NewsDistinct, OneHandlePerDevice, UNCHANGED <<fromDongle, connectedDevices>>
  PROVE  NewsDistinct' /\ OneHandlePerDevice'
BY DEF NewsDistinct, OneHandlePerDevice, FreeBefore, News

LEMMA CutEntries ==
  ASSUME TypeOK, NewsDistinct, OneHandlePerDevice, ClientDies
  PROVE  NewsDistinct' /\ OneHandlePerDevice'
<1>1. PICK n \in 0 .. Len(fromDongle) : fromDongle' = SubSeq(fromDongle, 1, n)  BY DEF ClientDies
<1>2. connectedDevices' = connectedDevices  BY DEF ClientDies, devices
<1>3. /\ DOMAIN fromDongle = 1 .. Len(fromDongle) /\ Len(fromDongle) \in Nat
      /\ DOMAIN fromDongle' = 1 .. n /\ \A i \in 1 .. n : fromDongle'[i] = fromDongle[i]
  BY <1>1 DEF TypeOK, ChannelsOK
<1>4. \A h \in Handle : News(h)' = {i \in News(h) : i <= n} /\ News(h) \subseteq 1 .. Len(fromDongle)
  BY <1>3 DEF News
<1>5. ASSUME NEW h \in Handle, NEW i \in News(h)', fromDongle'[i].arg # None, NEW g \in Handle \ {h}
      PROVE  FreeBefore(g, i, fromDongle[i].arg)'
  <2>1. i \in News(h) /\ i \in 1 .. n /\ fromDongle'[i] = fromDongle[i]  BY <1>3, <1>4
  <2>2. FreeBefore(g, i, fromDongle'[i].arg)  BY <1>5, <2>1 DEF NewsDistinct
  <2>3. {j \in News(g)' : j < i} = {j \in News(g) : j < i}  BY <1>3, <1>4, <2>1
  <2>4. \A j \in {j \in News(g) : j < i} : fromDongle'[j] = fromDongle[j]  BY <1>3, <1>4, <2>1
  <2> QED  BY <1>2, <2>2, <2>3, <2>4 DEF FreeBefore
<1> QED  BY <1>2, <1>5 DEF NewsDistinct, OneHandlePerDevice

\* The dongle does not open a second connection to a device it is linked to.
LEMMA ConnectExecutable ==
  ASSUME NEW c, c.cmd = "connect_direct", Executable(c)
  PROVE  \A h \in Handle : links[h] # c.arg
<1>1. c.cmd \notin {"update", "disconnect"} /\ c.cmd \notin GattCommand  BY DEF GattCommand
<1> QED  BY <1>1 DEF Executable

LEMMA LinksStep ==
  ASSUME TypeOK, LinksDistinct, [Next]_vars
  PROVE  LinksDistinct'
<1>1. /\ links \in [Handle -> Mac \cup {None}] /\ gap \in Mac \cup {"idle", "scanning"}
      /\ None \notin Mac /\ "idle" \notin Mac /\ "scanning" \notin Mac
  BY NoneAssumption, GapAssumption DEF TypeOK, DongleOK
<1>2. ASSUME NEW h \in Handle, Establish(h)  PROVE LinksDistinct'
  BY <1>1, <1>2 DEF Establish, Linked, LinksDistinct
<1>3. ASSUME NEW h \in Handle, Drop(h)  PROVE LinksDistinct'
  BY <1>1, <1>3 DEF Drop, LinksDistinct
<1>4. CASE DongleExecutes
  <2>1. links' = links  BY <1>4 DEF DongleExecutes
  <2> DEFINE c == Head(toDongle)
  <2>2. CASE gap' = gap  BY <1>1, <2>1, <2>2 DEF LinksDistinct
  <2>3. CASE gap' # gap
    <3>1. Executable(c) /\ gap' = CASE c.cmd = "connect_direct" -> c.arg
                                   [] c.cmd = "discover" -> "scanning"
                                   [] c.cmd = "end_procedure" -> "idle"
                                   [] OTHER -> gap
      BY <1>4, <2>3 DEF DongleExecutes
    <3>2. CASE c.cmd = "connect_direct"
      <4> HIDE DEF c
      <4>1. gap' = c.arg  BY <3>1, <3>2
      <4>2. \A h \in Handle : links[h] # c.arg
        <5>1. Executable(c)  BY ONLY <3>1
        <5> QED  BY ONLY <3>2, <5>1, ConnectExecutable
      <4> QED  BY <2>1, <4>1, <4>2 DEF LinksDistinct
    <3>3. CASE c.cmd # "connect_direct"
      <4>1. gap' \in {"idle", "scanning"}  BY <2>3, <3>1, <3>3
      <4> QED  BY <1>1, <2>1, <4>1 DEF LinksDistinct
    <3> QED  BY <3>2, <3>3
  <2> QED  BY <2>2, <2>3
<1>5. CASE ClientDies  BY <1>1, <1>5 DEF ClientDies, LinksDistinct
<1>6. CASE UNCHANGED <<links, gap>>  BY <1>6 DEF LinksDistinct
<1>7. CASE Work \/ Request \/ Poll \/ ProcessDies \/ Over \/ UNCHANGED vars
  <2>1. UNCHANGED <<links, gap>>
    BY <1>7 DEF Work, Construct, Send, SendThrows, Receive, ReceiveEof, PollTimesOut, WaitTimesOut,
                WaitFails, ConnectFails, NextStep, Complete, ScanEnds, WorkerEnds, dongle,
                Request, StartOnConnection, AnswerAtOnce, StartConnect, StartGlobal, Start,
                Poll, ProcessDies, Over, vars
  <2> QED  BY <1>6, <2>1
<1>8. CASE Spontaneous
  <2>1. ASSUME NEW h \in Handle, ParametersChange(h) \/ ProcedureEnds(h)  PROVE LinksDistinct'
    BY <1>6, <2>1 DEF ParametersChange, ProcedureEnds, dongle
  <2>2. ASSUME NEW h \in Handle, NEW attr \in Attribute, Notify(h, attr)  PROVE LinksDistinct'
    BY <1>6, <2>2 DEF Notify, dongle
  <2>3. ASSUME NEW mac \in Mac, ScanReport(mac)  PROVE LinksDistinct'
    BY <1>6, <2>3 DEF ScanReport, dongle
  <2> QED  BY <1>2, <1>3, <1>8, <2>1, <2>2, <2>3 DEF Spontaneous
<1> QED  BY <1>4, <1>5, <1>7, <1>8 DEF Next

LEMMA EntriesStep ==
  ASSUME TypeOK, MirrorsLinks, EntryInv, [Next]_vars
  PROVE  EntryInv'
<1>0. LinksDistinct'  BY LinksStep DEF EntryInv
<1> SUFFICES NewsDistinct' /\ OneHandlePerDevice'  BY <1>0 DEF EntryInv
<1> USE DEF EntryInv
<1>1. CASE Receive  BY <1>1, ReceiveEntries
<1>2. CASE DongleExecutes
  <2> DEFINE c == Head(toDongle)
  <2>1. c \in Command  BY <1>2 DEF DongleExecutes, TypeOK, ChannelsOK
  <2>2. PICK code \in {Ok, DongleError} :
          fromDongle' = Append(fromDongle, Event(ResponseTo[c.cmd], c.ch, None, code))
    BY <1>2 DEF DongleExecutes
  <2>3. Event(ResponseTo[c.cmd], c.ch, None, code) \in Message  BY <2>1, ResponseFacts
  <2>4. open /\ connectedDevices' = connectedDevices  BY <1>2 DEF DongleExecutes, devices
  <2> HIDE DEF c
  <2> QED  BY <2>2, <2>3, <2>4, EmitEntries DEF Event
<1>3. CASE Spontaneous
  <2>1. open /\ connectedDevices' = connectedDevices
    BY <1>3 DEF Spontaneous, Establish, Drop, ParametersChange, ProcedureEnds, Notify, ScanReport,
                Emit, devices
  <2>2. PICK e \in Message :
          /\ fromDongle' = Append(fromDongle, e)
          /\ e.evt \in LinkEvents /\ e.arg # None => \A g \in Handle \ {e.ch} : links[g] # e.arg
    <3> DEFINE Good(e) == /\ e \in Message /\ fromDongle' = Append(fromDongle, e)
                          /\ e.evt \in LinkEvents /\ e.arg # None => \A g \in Handle \ {e.ch} : links[g] # e.arg
    <3>0. /\ Handle \subseteq Channel /\ None \in Subject /\ Mac \subseteq Subject
          /\ Attribute \subseteq Subject /\ Ok \in {Ok, DongleError}
          /\ links \in [Handle -> Mac \cup {None}]
      BY DEF Channel, Subject, TypeOK, DongleOK
    <3> USE DEF Emit
    <3>1. ASSUME NEW h \in Handle, Establish(h) PROVE \E e : Good(e)
      <4> DEFINE e == Event("GAP_CONNECTION_EVT", h, gap, Ok)
      <4>1. gap \in Mac /\ fromDongle' = Append(fromDongle, e)  BY <3>1 DEF Establish
      <4>2. e \in Message
        BY <3>0, <4>1 DEF Event, Message, CompletionEvent, LinkEvents
      <4>3. \A g \in Handle : links[g] # e.arg  BY <4>1 DEF LinksDistinct, Event
      <4> HIDE DEF e
      <4> QED  BY <4>1, <4>2, <4>3
    <3>2. ASSUME NEW h \in Handle, Drop(h) PROVE \E e : Good(e)
      <4> DEFINE e == Event("CONNECTION_DISCONNECT_EVT", h, None, Ok)
      <4>1. e \in Message /\ fromDongle' = Append(fromDongle, e) /\ e.arg = None
        BY <3>0, <3>2 DEF Drop, Event, Message, CompletionEvent, LinkEvents
      <4> HIDE DEF e
      <4> QED  BY <4>1
    <3>3. ASSUME NEW h \in Handle, ParametersChange(h) PROVE \E e : Good(e)
      <4> DEFINE e == Event("CONNECTION_UPDATE_EVT", h, links[h], Ok)
      <4>1. links[h] \in Mac /\ links[h] # None /\ fromDongle' = Append(fromDongle, e)
        BY <3>0, <3>3 DEF ParametersChange, Linked
      <4>2. e \in Message /\ e.arg = links[h] /\ e.ch = h
        BY <3>0, <4>1 DEF Event, Message, CompletionEvent, LinkEvents
      <4>3. \A g \in Handle \ {h} : links[g] # links[h]  BY <4>1 DEF LinksDistinct
      <4> HIDE DEF e
      <4> QED  BY <4>1, <4>2, <4>3
    <3>4. ASSUME NEW h \in Handle, ProcedureEnds(h) PROVE \E e : Good(e)
      <4>1. running[h].arg \in Subject  BY DEF TypeOK, DongleOK
      <4>2. PICK evt \in {"ATTCLIENT_ATTRIBUTE_FOUND_EVT", "GATT_PROCEDURE_COMPLETE_EVT"},
                 arg \in Subject, code \in {Ok, DongleError} :
              fromDongle' = Append(fromDongle, Event(evt, h, arg, code))
        BY <3>0, <3>4, <4>1 DEF ProcedureEnds
      <4> DEFINE e == Event(evt, h, arg, code)
      <4>3. e \in Message /\ e.evt \notin LinkEvents
        BY <3>0 DEF Event, Message, CompletionEvent, LinkEvents, GattEvents
      <4>4. fromDongle' = Append(fromDongle, e)  BY <4>2
      <4> HIDE DEF e
      <4> QED  BY <4>3, <4>4
    <3>5. ASSUME NEW h \in Handle, NEW attr \in Attribute, Notify(h, attr) PROVE \E e : Good(e)
      <4> DEFINE e == Event("ATTCLIENT_ATTRIBUTE_FOUND_EVT", h, attr, Ok)
      <4>1. e \in Message /\ e.evt \notin LinkEvents /\ fromDongle' = Append(fromDongle, e)
        BY <3>0, <3>5 DEF Notify, Event, Message, CompletionEvent, LinkEvents, GattEvents
      <4> HIDE DEF e
      <4> QED  BY <4>1
    <3>6. ASSUME NEW mac \in Mac, ScanReport(mac) PROVE \E e : Good(e)
      <4> DEFINE e == Event("scan_response", 0, mac, Ok)
      <4>1. e \in Message /\ e.evt \notin LinkEvents /\ fromDongle' = Append(fromDongle, e)
        BY <3>0, <3>6 DEF ScanReport, Event, Message, LinkEvents, Channel
      <4> HIDE DEF e
      <4> QED  BY <4>1
    <3> HIDE DEF Good
    <3>7. \E e : Good(e)
      BY <1>3, <3>1, <3>2, <3>3, <3>4, <3>5, <3>6 DEF Spontaneous
    <3> QED  BY <3>7 DEF Good
  <2> QED  BY <2>1, <2>2, EmitEntries
<1>4. CASE ClientDies  BY <1>4, CutEntries
<1>5. CASE Work /\ ~Receive
  <2>1. UNCHANGED <<fromDongle, connectedDevices>>
    BY <1>5 DEF Work, Construct, Send, SendThrows, ReceiveEof, PollTimesOut, WaitTimesOut,
                WaitFails, ConnectFails, NextStep, Complete, ScanEnds, WorkerEnds, Transmit,
                channel, devices
  <2> QED  BY <2>1, ElsewhereEntries
<1>6. CASE Request \/ Poll \/ ProcessDies \/ Over \/ UNCHANGED vars
  <2>1. UNCHANGED <<fromDongle, connectedDevices>>
    BY <1>6 DEF Request, StartOnConnection, AnswerAtOnce, StartConnect, StartGlobal, Start,
                Poll, ProcessDies, Over, channel, devices, vars
  <2> QED  BY <2>1, ElsewhereEntries
<1> QED  BY <1>1, <1>2, <1>3, <1>4, <1>5, <1>6 DEF Next

\* A device never has two entries in connectedDevices (callbacks BLE_DRIVER.cpp 2041-2129), however
\* links are lost and made again while the driver is behind with its reading, and whether or not
\* the client is still there: the handle that MACToConnectionHandle finds is the only one.
THEOREM EntryUnique == Spec => []OneHandlePerDevice
<1>1. Init => EntryInv
  BY GapAssumption DEF Init, EntryInv, LinksDistinct, NewsDistinct, News, OneHandlePerDevice
<1>2. TypeOK /\ MirrorsLinks /\ EntryInv /\ [Next]_vars => EntryInv'  BY EntriesStep
<1>3. Spec => []TypeOK  BY TypeCorrect
<1>4. Spec => []MirrorsLinks  BY MirrorCorrect
<1>5. EntryInv => OneHandlePerDevice  BY DEF EntryInv
<1> QED  BY <1>1, <1>2, <1>3, <1>4, <1>5, PTL DEF Spec
=============================================================================
