------------------------------ MODULE Scripts ------------------------------
(***************************************************************************)
(* The commands of the driver (BLE_DRIVER.cpp) as scripts: what each step  *)
(* sends, and the completion events that are then waited for.              *)
(***************************************************************************)

Step(send, events) == [send |-> send, on |-> events]
ProcedureOver == {"GATT_PROCEDURE_COMPLETE_EVT", "CONNECTION_DISCONNECT_EVT"}

\* Mutant: new parameters of a connection pass for a new connection.
ConnectScriptAnyStatus == << Step("connect_direct", {"GAP_CONNECTION_RSP_EVT"}),
                             Step("none", {"GAP_CONNECTION_EVT", "CONNECTION_UPDATE_EVT"}) >>
ConnectScript == << Step("connect_direct", {"GAP_CONNECTION_RSP_EVT"}),
                    Step("none", {"GAP_CONNECTION_EVT"}) >>
UpdateScript == << Step("update", {"CONNECTION_UPDATE_RSP_EVT"}),
                   Step("none", {"CONNECTION_UPDATE_EVT", "CONNECTION_DISCONNECT_EVT"}) >>
DisconnectScript == << Step("disconnect", {"CONNECTION_DISCONNECT_RSP_EVT"}),
                       Step("none", {"CONNECTION_DISCONNECT_EVT"}) >>
ReadScript == << Step("find_information", {"ATTCLIENT_FINDINFO_RSP_EVT"}),
                 Step("none", ProcedureOver),
                 Step("read_by_handle", {"ATTCLIENT_READ_RSP_EVT"}),
                 Step("none", {"ATTCLIENT_ATTRIBUTE_FOUND_EVT"} \cup ProcedureOver) >>
\* Mutant: write does not wait for its response.
WriteScriptUnacknowledged == << Step("attribute_write", ProcedureOver) >>
WriteScript == << Step("attribute_write", {"ATTCLIENT_WRITE_RSP_EVT"}),
                  Step("none", ProcedureOver) >>
ReadAllScript == << Step("read_by_group_type", {"ATTCLIENT_READGROUP_RSP_EVT"}),
                    Step("none", ProcedureOver),
                    Step("find_information", {"ATTCLIENT_FINDINFO_RSP_EVT"}),
                    Step("none", ProcedureOver) >>
DiscoverScript == << Step("discover", {"GAP_DISCOVER_RSP_EVT"}) >>
InfoScript == << Step("get_info", {"SYS_GET_INFO_RSP_EVT"}),
                 Step("get_connections", {"SYS_GET_MAXCON_RSP_EVT"}) >>

Script == [connect |-> ConnectScript, update |-> UpdateScript,
           disconnect |-> DisconnectScript, read |-> ReadScript,
           write |-> WriteScript, readall |-> ReadAllScript,
           discover |-> DiscoverScript, info |-> InfoScript]
=============================================================================
