------------------------------ MODULE Routing ------------------------------
(***************************************************************************)
(* What a request asks for (HTTP_HELPER.cpp): the command that its URI and *)
(* method name, and the content type that its Accept header prefers.       *)
(*                                                                         *)
(* A request is a record of its method, the elements of its path, its      *)
(* query parameters by their upper-case names, and the entries of its      *)
(* Accept header; "joined" says that the query follows the last element    *)
(* without a slash.  Entries have a content type, a q in tenths, and say   *)
(* whether they have other parameters.                                     *)
(***************************************************************************)
EXTENDS Parameters, Sequences, SequencesExt, FiniteSetsExt

Discovered == Word(1)
Connected == Word(2)

\* The command of each method that the resource of a path has; OPTIONS lists them.
GatewayCommands == [GET |-> "GW_OVERVIEW"]
DongleCommands == [GET |-> "DONGLE_OVERVIEW"]
ListCommands(list) == [GET |-> IF list = Discovered THEN "DISCOVERED" ELSE "CONNECTED"]
DeviceCommands == [GET |-> "BLEDEV_OVERVIEW", PUT |-> "CONNECT", DELETE |-> "DISCONNECT"]
AttributeCommands == [GET |-> "READ_HANDLE", PUT |-> "WRITE_HANDLE"]

Order(command, code) == [command |-> command, code |-> code]
Allowed(commands, method) ==
  CASE method \in DOMAIN commands -> Order(commands[method], 0)
    [] method = "OPTIONS" -> Order("OPTIONS", 200)
    [] OTHER -> Order("ERROR", 405)

\* The first element of the path is the dongle.
ParseURI(path, method) ==
  CASE Len(path) = 0 -> Allowed(GatewayCommands, method)
    [] Len(path) = 1 -> Allowed(DongleCommands, method)
    [] Len(path) = 2 /\ path[2] \in {Discovered, Connected} -> Allowed(ListCommands(path[2]), method)
    [] Len(path) = 2 /\ IsValidMAC(path[2]) -> Allowed(DeviceCommands, method)
    [] Len(path) = 3 /\ IsValidMAC(path[2]) /\ IsValidInteger(path[3]) -> Allowed(AttributeCommands, method)
    [] OTHER -> Order("ERROR", 400)

-----------------------------------------------------------------------------
(* ParseAcceptHeader                                                       *)

Html == {"text/html", "text/*"}
Specific == [type \in {"text/html", "application/json", "application/*", "text/*", "*/*"} |->
               CASE type \in {"text/html", "application/json"} -> 2
                 [] type \in {"application/*", "text/*"} -> 1
                 [] type = "*/*" -> 0]

\* A second parameter is taken for a part of the first one's value, and q for missing.
GetQualityParam(e) == IF e.others THEN 10 ELSE e.q

\* The specificity of the entries that count: the highest of those that are supported.  A less
\* specific one before them is passed over in the end, one after them at once.
Preference(e) == [type |-> IF e.type = "*/*" THEN "text/*" ELSE e.type, q |-> GetQualityParam(e)]
TypeToPreference(accept) == {e \in ToSet(accept) : e.type \in DOMAIN Specific}
MostSpecific(accept) == Max({0} \cup {Specific[e.type] : e \in TypeToPreference(accept)})

\* Mutant: the last of the entries with the highest q is chosen.
BetterLast(chosen, e) == e.q >= chosen.q
\* An entry replaces the one chosen so far when its q is not lower, except that of two with
\* the same q the one in HTML stays.
Better(chosen, e) == e.q >= chosen.q /\ ~(chosen.type \in Html /\ e.q = chosen.q)

NothingChosen == [type |-> "none", q |-> 0]
Counts(accept, e) == e.type \in DOMAIN Specific /\ Specific[e.type] = MostSpecific(accept)
Chosen(accept) ==
  FoldLeft(LAMBDA chosen, e : IF Counts(accept, e) /\ Better(chosen, Preference(e)) THEN Preference(e) ELSE chosen,
           NothingChosen, accept).type

\* No header accepts everything, in HTML; one with nothing that is supported is refused.
ParseAcceptHeader(accept) ==
  IF accept = <<>> THEN "text/html" ELSE Chosen(accept)

\* ProcessHTTPRequest: the header is parsed last, and refused it overrides the command.
ProcessHTTPRequest(r) ==
  IF ParseAcceptHeader(r.accept) = "none" THEN Order("ERROR", 406) ELSE ParseURI(r.path, r.method)

\* The elements that the FCGI thread sees: it does not cut off the query.
FirstIsDongle(r) ==
  /\ r.path # <<>> /\ ConstructsInteger(r.path[1])
  /\ ~(Len(r.path) = 1 /\ r.joined /\ DOMAIN r.query # {})
IsGlobal(r) == r.path = <<>> /\ DOMAIN r.query = {}
=============================================================================
