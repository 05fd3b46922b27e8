--------------------------- MODULE AttributeCache ---------------------------
(***************************************************************************)
(* The attribute values that the driver keeps for the device on one        *)
(* connection handle (BLE_DRIVER.cpp, attributeMap of a BLEDevice): the    *)
(* callbacks fill and stamp the entries, ReadAttribute answers from them   *)
(* when they are young enough and asks the device when they are not.       *)
(*                                                                         *)
(* How a command waits, and what the dongle owes it, is in BledDriver.     *)
(* Here a wait ends by any message that the driver can receive, whenever   *)
(* it comes, and time passes in between.  A value is told apart by its     *)
(* device and the second at which it came.                                 *)
(***************************************************************************)
EXTENDS Integers

CONSTANTS
  Device,      \* BLE devices that may be on the handle, one after the other
  Attribute,   \* attribute handles
  None,        \* no device, no attribute
  Minute,      \* seconds of a minute: 60
  MaxAges,     \* the lastUpdate of requests; 0 when the query has none
  MaxTime      \* bound on the time that passes

ASSUME NoneAssumption == None \notin Device \cup Attribute
ASSUME TimeAssumption == Minute \in Nat \ {0} /\ MaxAges \subseteq Nat /\ MaxTime \in Nat

Time == 0 .. MaxTime
NoValue == [of |-> None, at |-> -1]
NoEntry == [known |-> FALSE, stamp |-> -1, value |-> NoValue]
Steps == {"find", "enumerate", "read", "value"}
NoRead == [attr |-> None, within |-> 0, begun |-> 0, step |-> "none"]
NoAnswer == [attr |-> None, value |-> NoValue, excuse |-> {}]

VARIABLES
  now,           \* second_clock::universal_time
  macAddress,    \* of connectedDevices[handle], None when there is no entry
  attributeMap,  \* of that entry
  reading,       \* the ReadAttribute under way: attribute, lastUpdate, start, step
  answer,        \* what the last one returned, with its excuses
  touched        \* history: attributes stamped without a value since their value came

vars == <<now, macAddress, attributeMap, reading, answer, touched>>

Init ==
  /\ now = 0 /\ macAddress = None
  /\ attributeMap = [a \in Attribute |-> NoEntry]
  /\ reading = NoRead /\ answer = NoAnswer
  /\ touched = {}

Connected == macAddress # None
AtStep(s) == reading.step = s
Goto(s) == reading' = [reading EXCEPT !.step = s]

\* One second goes by.
Tick ==
  /\ now < MaxTime
  /\ now' = now + 1
  /\ UNCHANGED <<macAddress, attributeMap, reading, answer, touched>>

-----------------------------------------------------------------------------
(* ReadAttribute                                                           *)

\* The answer is the attribute's entry as it is now.  Why its value may be older than was
\* asked for: the entry was stamped without a value, the stamp is a minute old or more, or
\* another message than the attribute's value ended the wait.
Reply(entry, r, why) ==
  /\ answer' = [attr |-> r.attr, within |-> r.within, begun |-> r.begun, at |-> now,
                value |-> entry.value, excuse |-> why]
  /\ reading' = NoRead
Excuses(r, entry, t) == (IF r.attr \in t THEN {"stamped"} ELSE {})
                        \cup (IF now - entry.stamp >= Minute THEN {"minute"} ELSE {})

\* Mutant: a value of exactly the age that was asked for counts as young enough.
OldEnoughLax(entry, within) == (now - entry.stamp) % Minute > within
\* Outdated by diff.seconds(), the seconds of the difference without its minutes.
OldEnough(entry, within) == (now - entry.stamp) % Minute >= within

\* attributeMap[attributeHandle] inserts an entry stamped with the present second.
Looked(a) == IF attributeMap[a].known THEN attributeMap[a]
             ELSE [known |-> TRUE, stamp |-> now, value |-> NoValue]

\* MACToConnectionHandle finds the device, and the look at its cache decides.
ReadAttribute(a, within) ==
  LET r == [attr |-> a, within |-> within, begun |-> now, step |-> "find"]
      seen == touched \cup (IF attributeMap[a].known THEN {} ELSE {a})
  IN  /\ AtStep("none") /\ Connected
      /\ attributeMap' = [attributeMap EXCEPT ![a] = Looked(a)]
      /\ touched' = seen
      /\ IF OldEnough(Looked(a), within)
           THEN reading' = r /\ answer' = NoAnswer
           ELSE Reply(Looked(a), r, Excuses(r, Looked(a), seen))
      /\ UNCHANGED <<now, macAddress>>

\* The responses to find_information and read_by_handle, and the end of the enumeration, move
\* the command on; to send read_by_handle the device has to be there still.
CommandAccepted ==
  /\ \/ AtStep("find") /\ Goto("enumerate")
     \/ AtStep("enumerate") /\ Connected /\ Goto("read")
     \/ AtStep("read") /\ Goto("value")
  /\ UNCHANGED <<now, macAddress, attributeMap, answer, touched>>

\* An error code, a timeout or an exception: the answer has no value.
ReadFails ==
  /\ reading.step \in Steps
  /\ reading' = NoRead
  /\ UNCHANGED <<now, macAddress, attributeMap, answer, touched>>

\* procedure_completed without an error ends the wait for the value as well: the answer is
\* what the cache has.
ProcedureCompleted ==
  /\ AtStep("value") /\ Connected
  /\ Reply(attributeMap[reading.attr], reading, {"released"})
  /\ UNCHANGED <<now, macAddress, attributeMap, touched>>

-----------------------------------------------------------------------------
(* The callbacks                                                           *)

\* ConnectionGetStatus of a new connection: the entry and its empty attribute map.
ConnectionGetStatus(d) ==
  /\ ~Connected
  /\ macAddress' = d
  /\ UNCHANGED <<now, attributeMap, reading, answer, touched>>

\* Mutant: the attributes stay for the next device.
ConnectionDisconnectKeeps ==
  /\ Connected
  /\ macAddress' = None
  /\ IF reading.step \in {"enumerate", "value"} THEN reading' = NoRead ELSE UNCHANGED reading
  /\ UNCHANGED <<now, attributeMap, answer, touched>>
\* ConnectionDisconnect erases the entry.  A wait that the event ends goes on to find the
\* device gone; the other waits end by a response or run out.
ConnectionDisconnect ==
  /\ Connected
  /\ macAddress' = None
  /\ attributeMap' = [a \in Attribute |-> NoEntry]
  /\ touched' = {}
  /\ IF reading.step \in {"enumerate", "value"} THEN reading' = NoRead ELSE UNCHANGED reading
  /\ UNCHANGED <<now, answer>>

\* AttributeInfoFound and ServiceFound describe an attribute and stamp its entry.
Described(a) ==
  /\ Connected
  /\ attributeMap' = [attributeMap EXCEPT ![a] = [@ EXCEPT !.known = TRUE, !.stamp = now]]
  /\ touched' = touched \cup {a}
  /\ UNCHANGED <<now, macAddress, reading, answer>>

\* Mutant: the value is renewed, the stamp is not.
ReceivedUnstamped(a) == [known |-> TRUE, stamp |-> attributeMap[a].stamp,
                         value |-> [of |-> macAddress, at |-> now]]
\* The entry with its new value.
Received(a) == [known |-> TRUE, stamp |-> now, value |-> [of |-> macAddress, at |-> now]]

\* AttributeValue: a value that was read, or one that the device notifies of its own accord.
\* Whichever attribute it is of, it ends the wait for a value on this connection.
AttributeValue(a) ==
  /\ Connected
  /\ attributeMap' = [attributeMap EXCEPT ![a] = Received(a)]
  /\ touched' = touched \ {a}
  /\ IF AtStep("value")
       THEN Reply(attributeMap'[reading.attr], reading, IF reading.attr = a THEN {} ELSE {"released"})
       ELSE UNCHANGED <<reading, answer>>
  /\ UNCHANGED <<now, macAddress>>

Next ==
  \/ Tick \/ CommandAccepted \/ ReadFails \/ ProcedureCompleted \/ ConnectionDisconnect
  \/ \E d \in Device : ConnectionGetStatus(d)
  \/ \E a \in Attribute : Described(a) \/ AttributeValue(a)
  \/ \E a \in Attribute, within \in MaxAges : ReadAttribute(a, within)

Spec == Init /\ [][Next]_vars

-----------------------------------------------------------------------------
(* Properties                                                              *)

Values == [of : Device, at : Time] \cup {NoValue}
Answers == [attr : Attribute, within : MaxAges, begun : Time, at : Time, value : Values,
            excuse : SUBSET {"stamped", "minute", "released"}]

MapOK ==
  /\ attributeMap \in [Attribute -> [known : BOOLEAN, stamp : Time \cup {-1}, value : Values]]
  /\ \A a \in Attribute : /\ attributeMap[a].known => Connected /\ attributeMap[a].stamp \in Time
                         /\ attributeMap[a].value.at <= attributeMap[a].stamp
ReadingOK == reading = NoRead \/ reading \in [attr : Attribute, within : MaxAges, begun : Time, step : Steps]
AnswerOK == answer = NoAnswer \/ answer \in Answers

\* Every variable keeps its type; only a connected device has attributes, and no value is
\* younger than the stamp of its entry.
TypeOK ==
  /\ now \in Time /\ macAddress \in Device \cup {None} /\ touched \subseteq Attribute
  /\ MapOK /\ ReadingOK /\ AnswerOK

\* "Do not return cached value if outdated": the value that a successful read returns came
\* within the last lastUpdate seconds, or during the read.  Not so, and only then, when the
\* entry was stamped without a value, its age has reached a minute, or another message has
\* ended the wait for the value.
FreshOrExcused ==
  answer # NoAnswer =>
    \/ answer.value.at >= answer.begun
    \/ answer.value # NoValue /\ answer.at - answer.value.at < answer.within
    \/ answer.excuse # {}

\* The values on a handle are those of the device that is on it, never of one that was on it
\* before and had the same attributes.
CacheOfThisDevice ==
  \A a \in Attribute : attributeMap[a].value # NoValue => attributeMap[a].value.of = macAddress
=============================================================================
