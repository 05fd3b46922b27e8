------------------------------ MODULE Messages ------------------------------
(***************************************************************************)
(* The messages between driver and client: two programs that agree on      *)
(* nothing but the order and the types of the fields, each written out at  *)
(* both ends.  A layout is the list of types that is given to tpl_map and  *)
(* the parameter that each field is taken from, or put into: at the        *)
(* driver's end the locals of BLE_DRIVER.cpp, at the client's the          *)
(* parameters of BGLIB's functions and structures (client.c,               *)
(* response_callbacks.c).  The first field of every message, its index, is *)
(* the name of the command, response or event.                             *)
(*                                                                         *)
(* Types: c and v are numbers of 8 and 16 bits, A an address (S(c#)), B a  *)
(* buffer of bytes.                                                        *)
(***************************************************************************)
EXTENDS Integers, Sequences, SequencesExt, FiniteSets

Layout(types, fields) == [types |-> types, fields |-> fields]

\* tpl_pack and tpl_unpack; with other types, tpl_load fails and nothing is unpacked.
Packed(idx, layout, args) ==
  [idx |-> idx, types |-> layout.types, values |-> [i \in DOMAIN layout.fields |-> args[layout.fields[i]]]]
Fits(layout, m) == layout.types = m.types
Unpacked(layout, m) ==
  [f \in ToSet(layout.fields) |-> m.values[CHOOSE i \in DOMAIN layout.fields : layout.fields[i] = f]]

-----------------------------------------------------------------------------
(* Commands: the driver's end                                              *)

Simple == Layout(<<>>, <<>>)
ScanParametersCmd == Layout(<<"v", "v", "c">>, <<"interval", "window", "active">>)
DiscoverCmd == Layout(<<"v">>, <<"mode">>)
ConnectDirectCmd == Layout(<<"A", "c", "v", "v", "v", "v">>,
                           <<"address", "type", "min", "max", "timeout", "latency">>)
UpdateCmd == Layout(<<"c", "v", "v", "v", "v">>, <<"connection", "min", "max", "timeout", "latency">>)
DisconnectCmd == Layout(<<"c">>, <<"connection">>)
PrimaryServicesCmd == Layout(<<"c", "v", "v", "B">>, <<"connection", "start", "end", "uuid">>)
AttributeInfoCmd == Layout(<<"c", "v", "v">>, <<"connection", "start", "end">>)
ReadByHandleCmd == Layout(<<"c", "v">>, <<"connection", "attribute">>)
WriteByHandleCmd == Layout(<<"c", "v", "B">>, <<"connection", "attribute", "bytes">>)

DriverPacks ==
  [get_info |-> Simple, get_connections |-> Simple, end_procedure |-> Simple,
   set_scan_parameters |-> ScanParametersCmd, discover |-> DiscoverCmd,
   connect_direct |-> ConnectDirectCmd, update |-> UpdateCmd, disconnect |-> DisconnectCmd,
   read_by_group_type |-> PrimaryServicesCmd, find_information |-> AttributeInfoCmd,
   read_by_handle |-> ReadByHandleCmd, attribute_write |-> WriteByHandleCmd]

(* ... and the client's: BGLIB's parameter that each field is passed as.   *)
GetInfoCall == Simple
EndProcedureCall == Simple
GetConnectionsCall == Simple
ScanParametersCall == Layout(<<"v", "v", "c">>, <<"scan_interval", "scan_window", "active">>)
DiscoverCall == Layout(<<"v">>, <<"mode">>)
ConnectDirectCall == Layout(<<"A", "c", "v", "v", "v", "v">>,
  <<"address", "addr_type", "conn_interval_min", "conn_interval_max", "timeout", "latency">>)
\* Mutant: the last two fields in the order of BGLIB's parameters.
UpdateCallSwapped == Layout(<<"c", "v", "v", "v", "v">>,
  <<"connection", "interval_min", "interval_max", "latency", "timeout">>)
UpdateCall == Layout(<<"c", "v", "v", "v", "v">>,
  <<"connection", "interval_min", "interval_max", "timeout", "latency">>)
DisconnectCall == Layout(<<"c">>, <<"connection">>)
GroupTypeCall == Layout(<<"c", "v", "v", "B">>, <<"connection", "start", "end", "uuid">>)
FindInformationCall == Layout(<<"c", "v", "v">>, <<"connection", "start", "end">>)
ReadByHandleCall == Layout(<<"c", "v">>, <<"connection", "chrhandle">>)
AttributeWriteCall == Layout(<<"c", "v", "B">>, <<"connection", "atthandle", "data">>)

ClientCalls ==
  [get_info |-> GetInfoCall, get_connections |-> GetConnectionsCall, end_procedure |-> EndProcedureCall,
   set_scan_parameters |-> ScanParametersCall, discover |-> DiscoverCall,
   connect_direct |-> ConnectDirectCall, update |-> UpdateCall, disconnect |-> DisconnectCall,
   read_by_group_type |-> GroupTypeCall, find_information |-> FindInformationCall,
   read_by_handle |-> ReadByHandleCall, attribute_write |-> AttributeWriteCall]

-----------------------------------------------------------------------------
(* Responses and events: the client's end, from BGLIB's structures         *)

SetScanParametersRsp == Layout(<<"v">>, <<"result">>)
GapDiscoverRsp == Layout(<<"v">>, <<"result">>)
EndProcedureRsp == Layout(<<"v">>, <<"result">>)
ConnectDirectRsp == Layout(<<"v", "c">>, <<"result", "connection">>)
GetConnectionsRsp == Layout(<<"c">>, <<"maxconn">>)
GetInfoRsp == Layout(<<"v", "v", "v", "v", "v", "c", "c">>,
                     <<"build", "ll_version", "major", "minor", "patch", "hw", "protocol_version">>)
DisconnectRsp == Layout(<<"c", "v">>, <<"connection", "result">>)
UpdateRsp == Layout(<<"c", "v">>, <<"connection", "result">>)
GroupTypeRsp == Layout(<<"c", "v">>, <<"connection", "result">>)
FindInformationRsp == Layout(<<"c", "v">>, <<"connection", "result">>)
ReadByHandleRsp == Layout(<<"c", "v">>, <<"connection", "result">>)
AttributeWriteRsp == Layout(<<"c", "v">>, <<"connection", "result">>)
StatusEvt == Layout(<<"A", "c", "c", "c", "v", "v", "v", "c">>,
  <<"address", "connection", "flags", "address_type", "conn_interval", "timeout", "latency", "bonding">>)
DisconnectedEvt == Layout(<<"c", "v">>, <<"connection", "reason">>)
ProcedureCompletedEvt == Layout(<<"c", "v", "v">>, <<"connection", "result", "chrhandle">>)
GroupFoundEvt == Layout(<<"c", "v", "v", "B">>, <<"connection", "start", "end", "uuid">>)
InformationFoundEvt == Layout(<<"c", "v", "B">>, <<"connection", "chrhandle", "uuid">>)
AttributeValueEvt == Layout(<<"c", "v", "c", "B">>, <<"connection", "atthandle", "type", "value">>)
ScanResponseEvt == Layout(<<"A", "c", "c", "c", "c", "B">>,
                          <<"sender", "rssi", "packet_type", "address_type", "bond", "data">>)

ClientPacks ==
  [set_scan_parameters |-> SetScanParametersRsp, discover |-> GapDiscoverRsp,
   end_procedure |-> EndProcedureRsp, connect_direct |-> ConnectDirectRsp,
   get_connections |-> GetConnectionsRsp, get_info |-> GetInfoRsp, disconnect |-> DisconnectRsp,
   update |-> UpdateRsp, read_by_group_type |-> GroupTypeRsp, find_information |-> FindInformationRsp,
   read_by_handle |-> ReadByHandleRsp, attribute_write |-> AttributeWriteRsp,
   status |-> StatusEvt, disconnected |-> DisconnectedEvt,
   procedure_completed |-> ProcedureCompletedEvt, group_found |-> GroupFoundEvt,
   information_found |-> InformationFoundEvt, attribute_value |-> AttributeValueEvt,
   scan_response |-> ScanResponseEvt]

(* ... and the driver's: the locals of the callback that dispatches them.  *)
SimpleResponse == Layout(<<"v">>, <<"result">>)
SimpleConnectionResponse == Layout(<<"c", "v">>, <<"connection", "result">>)
ConnectDirectResponse == Layout(<<"v", "c">>, <<"result", "connection">>)
MaxConnectionsResponse == Layout(<<"c">>, <<"maxconn">>)
InfoResponse == Layout(<<"v", "v", "v", "v", "v", "c", "c">>,
                       <<"build", "ll_version", "major", "minor", "patch", "hw", "protocol_version">>)
GetStatusEvent == Layout(<<"A", "c", "c", "c", "v", "v", "v", "c">>,
  <<"address", "connection", "flags", "address_type", "conn_interval", "timeout", "latency", "bonding">>)
DisconnectEvent == Layout(<<"c", "v">>, <<"connection", "reason">>)
ProcedureCompletedEvent == Layout(<<"c", "v", "v">>, <<"connection", "result", "chrhandle">>)
ServiceFoundEvent == Layout(<<"c", "v", "v", "B">>, <<"connection", "start", "end", "uuid">>)
AttributeInfoFoundEvent == Layout(<<"c", "v", "B">>, <<"connection", "attribute", "uuid">>)
AttributeValueEvent == Layout(<<"c", "v", "c", "B">>, <<"connection", "attribute", "type", "value">>)
ScanResponseEvent == Layout(<<"A", "c", "c", "c", "c", "B">>,
                            <<"address", "rssi", "packet_type", "address_type", "bond", "data">>)

\* DecodeIncomingTCPMessage: the callback of each message.
DriverReads ==
  [set_scan_parameters |-> SimpleResponse, discover |-> SimpleResponse, end_procedure |-> SimpleResponse,
   connect_direct |-> ConnectDirectResponse, get_connections |-> MaxConnectionsResponse,
   get_info |-> InfoResponse, disconnect |-> SimpleConnectionResponse,
   update |-> SimpleConnectionResponse, read_by_group_type |-> SimpleConnectionResponse,
   find_information |-> SimpleConnectionResponse, read_by_handle |-> SimpleConnectionResponse,
   attribute_write |-> SimpleConnectionResponse, status |-> GetStatusEvent,
   disconnected |-> DisconnectEvent, procedure_completed |-> ProcedureCompletedEvent,
   group_found |-> ServiceFoundEvent, information_found |-> AttributeInfoFoundEvent,
   attribute_value |-> AttributeValueEvent, scan_response |-> ScanResponseEvent]

-----------------------------------------------------------------------------
(* The completion event that each callback posts                           *)

Event(evt, ch, code) == [evt |-> evt, ch |-> ch, code |-> code]
NoEvent == Event("none", 0, 0)

SimpleEvent == [set_scan_parameters |-> "GAP_SET_SCANPARAMETER_RSP_EVT",
                discover |-> "GAP_DISCOVER_RSP_EVT", end_procedure |-> "GAP_ENDPROCEDURE_RSP_EVT"]
SimpleConnectionEvent ==
  [update |-> "CONNECTION_UPDATE_RSP_EVT", disconnect |-> "CONNECTION_DISCONNECT_RSP_EVT",
   read_by_group_type |-> "ATTCLIENT_READGROUP_RSP_EVT", find_information |-> "ATTCLIENT_FINDINFO_RSP_EVT",
   read_by_handle |-> "ATTCLIENT_READ_RSP_EVT", attribute_write |-> "ATTCLIENT_WRITE_RSP_EVT"]

\* The flags of a connection: 1 connected, 4 completed, 8 parameters_change.
ConnectedFlag(flags) == flags % 2 = 1
CompletedFlag(flags) == (flags \div 4) % 2 = 1
StatusEvent(a) ==
  CASE ~ConnectedFlag(a.flags) -> NoEvent
    [] CompletedFlag(a.flags) -> Event("GAP_CONNECTION_EVT", 0, 0)
    [] OTHER -> Event("CONNECTION_UPDATE_EVT", a.connection, 0)

\* The event that the callback of a message posts.
Posted(idx, a) ==
  CASE idx \in DOMAIN SimpleEvent -> Event(SimpleEvent[idx], 0, a.result)
    [] idx \in DOMAIN SimpleConnectionEvent -> Event(SimpleConnectionEvent[idx], a.connection, a.result)
    [] idx = "connect_direct" -> Event("GAP_CONNECTION_RSP_EVT", 0, a.result)
    [] idx = "get_connections" -> Event("SYS_GET_MAXCON_RSP_EVT", 0, 0)
    [] idx = "get_info" -> Event("SYS_GET_INFO_RSP_EVT", 0, 0)
    [] idx = "status" -> StatusEvent(a)
    [] idx = "disconnected" -> Event("CONNECTION_DISCONNECT_EVT", a.connection, 0)
    [] idx = "procedure_completed" -> Event("GATT_PROCEDURE_COMPLETE_EVT", a.connection, a.result)
    [] idx = "attribute_value" -> Event("ATTCLIENT_ATTRIBUTE_FOUND_EVT", a.connection, 0)
    [] OTHER -> NoEvent

-----------------------------------------------------------------------------
(* The header                                                              *)

\* The bytes of a packed message: length, magic and flags, the format with its index field, the
\* length of each fixed array, and the data.
MAC_SIZE == 6
TextSize == [c |-> 1, v |-> 1, A |-> 5, B |-> 1]
DataSize(type, value) ==
  CASE type = "c" -> 1 [] type = "v" -> 2 [] type = "A" -> 4 + MAC_SIZE [] type = "B" -> 4 + Len(value)
FieldSize(m, i) == TextSize[m.types[i]] + DataSize(m.types[i], m.values[i])
MessageSize(m) == 12 + FoldLeft(LAMBDA n, i : n + FieldSize(m, i), 0, [i \in DOMAIN m.types |-> i])

\* htonl, and what the driver makes of the four bytes: they are signed where char is.
HeaderOf(size) == <<size \div 16777216, (size \div 65536) % 256, (size \div 256) % 256, size % 256>>
SignedChar(byte) == IF byte >= 128 THEN byte - 256 ELSE byte
\* Mutant: the bytes are added in the order of the machine.
SizeReadSwapped(header) == FoldRight(LAMBDA byte, n : n * 256 + SignedChar(byte), header, 0)
SizeRead(header) == FoldLeft(LAMBDA n, byte : n * 256 + SignedChar(byte), 0, header)
=============================================================================
