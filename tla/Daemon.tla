------------------------------- MODULE Daemon -------------------------------
(***************************************************************************)
(* The daemon (ble_daemon.c): it starts a client process for every dongle  *)
(* that udev reports as added and kills it when the dongle is removed.  It *)
(* keeps the processes in a table of slots, which its SIGCHLD handler,     *)
(* run between any two of its steps, shares without a lock.                *)
(*                                                                         *)
(* udev's reports come one by one and in order; a process number is free   *)
(* again once its process has been waited for.                             *)
(***************************************************************************)
EXTENDS Integers, Sequences, FiniteSetsExt

CONSTANTS
  Dongle,         \* device nodes with the given vendor and product
  OtherUsb,       \* ttys of other USB devices
  OtherTty,       \* ttys without a USB parent
  Present,        \* devices plugged in before the daemon starts
  Pid, None,
  MAX_DEVICE_NR,
  MaxPlugs        \* bound on the devices plugged in

Node == Dongle \cup OtherUsb \cup OtherTty
Slots == 1 .. MAX_DEVICE_NR

ASSUME NodeAssumption ==
  Dongle \cap (OtherUsb \cup OtherTty) = {} /\ OtherUsb \cap OtherTty = {} /\ Present \subseteq Node
ASSUME NoneAssumption == None \notin Node \cup Pid
ASSUME BoundsAssumption == MAX_DEVICE_NR \in Nat \ {0} /\ MaxPlugs \in Nat

VARIABLES
  plugged, plugs, events,  \* the devices, how many were plugged in, udev's reports not yet read
  map,                     \* the slots
  proc, serves,            \* what became of each process, and the device it was started for
  daemon, new,             \* where the daemon is, and the child it is about to note
  sigchld,                 \* SIGCHLD is pending: one, however many children ended
  interrupted              \* history: where the handler came between two steps of noting a child

devices == <<plugged, plugs>>
processes == <<proc, serves>>
vars == <<devices, events, map, processes, daemon, new, sigchld, interrupted>>

Nobody == [slot |-> None, pid |-> None, node |-> None]

\* The daemon asks udev for changes only: it never learns of devices plugged in before.
Init ==
  /\ plugged = Present /\ plugs = 0 /\ events = <<>>
  /\ map = [i \in Slots |-> [used |-> FALSE, pid |-> None, key |-> None]]
  /\ proc = [p \in Pid |-> "free"] /\ serves = [p \in Pid |-> None]
  /\ daemon = "loop" /\ new = Nobody /\ sigchld = FALSE /\ interrupted = {}

-----------------------------------------------------------------------------
(* The daemon's loop                                                       *)

\* An event at the head of the queue; the loop takes one each time round.
Receives(action, n) ==
  /\ daemon = "loop" /\ events # <<>>
  /\ Head(events) = [action |-> action, node |-> n]
  /\ events' = Tail(events)

AddTty(n) ==
  /\ n \in OtherTty /\ Receives("add", n)
  /\ daemon' = "ended"
  /\ UNCHANGED <<devices, map, processes, new, sigchld, interrupted>>

AddOther(n) ==
  /\ n \in OtherUsb /\ Receives("add", n)
  /\ UNCHANGED <<devices, map, processes, daemon, new, sigchld, interrupted>>

\* Mutant: the search goes one slot too far.
FreeSlotTooFar == { Min({ i \in 1 .. MAX_DEVICE_NR + 1 : i \in Slots => ~map[i].used }) }
\* The first slot not in use, if there is one.
FreeSlot == { i \in Slots : ~map[i].used /\ \A j \in Slots : j < i => map[j].used }

\* The child runs from here on; that the parent notes it comes later.
Fork(n) ==
  /\ n \in Dongle /\ Receives("add", n)
  /\ \E i \in FreeSlot, p \in Pid :
       /\ proc[p] = "free"
       /\ proc' = [proc EXCEPT ![p] = "client"]
       /\ serves' = [serves EXCEPT ![p] = n]
       /\ new' = [slot |-> i, pid |-> p, node |-> n]
  /\ daemon' = "forked"
  /\ UNCHANGED <<devices, map, sigchld, interrupted>>

ForkFails(n) ==
  /\ n \in Dongle /\ Receives("add", n) /\ FreeSlot # {}
  /\ UNCHANGED <<devices, map, processes, daemon, new, sigchld, interrupted>>

\* "Maximum number of processes exceeded"
AddFull(n) ==
  /\ n \in Dongle /\ Receives("add", n) /\ FreeSlot = {}
  /\ UNCHANGED <<devices, map, processes, daemon, new, sigchld, interrupted>>

NoteUsed ==
  /\ daemon = "forked"
  /\ map' = [map EXCEPT ![new.slot].used = TRUE]
  /\ daemon' = "used"
  /\ UNCHANGED <<devices, events, processes, new, sigchld, interrupted>>

\* Mutant: the process number is not written.
NoteKeyOnly ==
  /\ daemon = "used"
  /\ map' = [map EXCEPT ![new.slot].key = new.node]
  /\ daemon' = "loop" /\ new' = Nobody
  /\ UNCHANGED <<devices, events, processes, sigchld, interrupted>>
NotePid ==
  /\ daemon = "used"
  /\ map' = [map EXCEPT ![new.slot].pid = new.pid, ![new.slot].key = new.node]
  /\ daemon' = "loop" /\ new' = Nobody
  /\ UNCHANGED <<devices, events, processes, sigchld, interrupted>>

\* SIGKILL: the process ends later, when the kernel gets round to it.
Kill(pids) == proc' = [p \in Pid |-> IF p \in pids /\ proc[p] = "client" THEN "killed" ELSE proc[p]]

\* Mutants: the slot is given back and its process not killed; a slot not in use counts.
RemoveOnly(n) ==
  /\ Receives("remove", n)
  /\ map' = [i \in Slots |-> IF map[i].key = n THEN [map[i] EXCEPT !.used = FALSE] ELSE map[i]]
  /\ UNCHANGED <<devices, processes, daemon, new, sigchld, interrupted>>
RemoveUnused(n) ==
  /\ Receives("remove", n)
  /\ Kill({ map[i].pid : i \in { j \in Slots : map[j].key = n } })
  /\ map' = [i \in Slots |-> IF map[i].key = n THEN [map[i] EXCEPT !.used = FALSE] ELSE map[i]]
  /\ UNCHANGED <<devices, serves, daemon, new, sigchld, interrupted>>
Remove(n) ==
  /\ Receives("remove", n)
  /\ LET his == { i \in Slots : map[i].used /\ map[i].key = n }
     IN  /\ Kill({ map[i].pid : i \in his })
         /\ map' = [i \in Slots |-> IF i \in his THEN [map[i] EXCEPT !.used = FALSE] ELSE map[i]]
  /\ UNCHANGED <<devices, serves, daemon, new, sigchld, interrupted>>

-----------------------------------------------------------------------------
(* The signal handler                                                      *)

Zombies == { p \in Pid : proc[p] = "zombie" }

GiveBack(pids) ==
  map' = [i \in Slots |-> IF map[i].pid \in pids THEN [map[i] EXCEPT !.used = FALSE] ELSE map[i]]

\* Mutant: it waits for every child that has ended, without taking the signals that came.
ReapAll ==
  /\ sigchld /\ daemon # "ended"
  /\ proc' = [p \in Pid |-> IF p \in Zombies THEN "free" ELSE proc[p]]
  /\ GiveBack(Zombies)
  /\ sigchld' \in BOOLEAN
  /\ interrupted' = interrupted \cup ({daemon} \ {"loop"})
  /\ UNCHANGED <<devices, events, serves, daemon, new>>
\* wait3 takes one child that has ended, and would block for one while there are children.
child_exit_handler ==
  /\ sigchld /\ daemon # "ended"
  /\ \E p \in Zombies : proc' = [proc EXCEPT ![p] = "free"] /\ GiveBack({p})
  /\ sigchld' = FALSE
  /\ interrupted' = interrupted \cup ({daemon} \ {"loop"})
  /\ UNCHANGED <<devices, events, serves, daemon, new>>

-----------------------------------------------------------------------------
(* The processes and the devices: external                                 *)

\* A client ends: killed, or by itself, also at once (a failed exec, a busy tty).
Ends(p) ==
  /\ proc[p] \in {"client", "killed"}
  /\ proc' = [proc EXCEPT ![p] = "zombie"]
  /\ sigchld' = TRUE
  /\ UNCHANGED <<devices, events, map, serves, daemon, new, interrupted>>

Plug(n) ==
  /\ n \notin plugged /\ plugs < MaxPlugs
  /\ plugged' = plugged \cup {n} /\ plugs' = plugs + 1
  /\ events' = Append(events, [action |-> "add", node |-> n])
  /\ UNCHANGED <<map, processes, daemon, new, sigchld, interrupted>>

Unplug(n) ==
  /\ n \in plugged
  /\ plugged' = plugged \ {n}
  /\ events' = Append(events, [action |-> "remove", node |-> n])
  /\ UNCHANGED <<plugs, map, processes, daemon, new, sigchld, interrupted>>

Receive == \E n \in Node : AddTty(n) \/ AddOther(n) \/ Fork(n) \/ ForkFails(n) \/ AddFull(n) \/ Remove(n)
Loop == Receive \/ NoteUsed \/ NotePid

Next == \/ Loop \/ child_exit_handler
        \/ \E p \in Pid : Ends(p)
        \/ \E n \in Node : Plug(n) \/ Unplug(n)

Spec == Init /\ [][Next]_vars

-----------------------------------------------------------------------------
(* Properties                                                              *)

Event == [action : {"add", "remove"}, node : Node]
Entry == [used : BOOLEAN, pid : Pid \cup {None}, key : Dongle \cup {None}]
DevicesOK == plugged \subseteq Node /\ plugs \in 0 .. MaxPlugs /\ events \in Seq(Event)
ProcessesOK ==
  /\ proc \in [Pid -> {"free", "client", "killed", "zombie"}]
  /\ serves \in [Pid -> Dongle \cup {None}]
DaemonOK ==
  /\ daemon \in {"loop", "forked", "used", "ended"}
  /\ sigchld \in BOOLEAN /\ interrupted \subseteq {"forked", "used"}
  /\ IF daemon \in {"forked", "used"}
     THEN new \in [slot : Slots, pid : Pid, node : Dongle] ELSE new = Nobody

\* Every variable keeps its type; a child is being noted between the fork and the last store.
TypeOK == DevicesOK /\ map \in [Slots -> Entry] /\ ProcessesOK /\ DaemonOK

Running(p) == proc[p] = "client"

\* A running client is in a slot in use, under its device, so that the device's removal can
\* find it; except for the child that is just being noted, and unless a signal came between
\* the stores of used and pid, when the slot still has the number of its last process.
Owned ==
  "used" \notin interrupted =>
    \A p \in Pid : Running(p) /\ p # new.pid =>
      \E i \in Slots : map[i].used /\ map[i].pid = p /\ map[i].key = serves[p]

\* A dongle that comes and goes never has two clients, which would share its serial line.
OneClient ==
  "used" \notin interrupted =>
    \A p, q \in Pid : Running(p) /\ Running(q) /\ serves[p] = serves[q] => p = q

\* The handler always finds a child that has ended: the daemon never blocks in wait3.
HandlerNeverBlocks == sigchld => Zombies # {}

\* The daemon kills a client only on the removal of the client's own dongle, although process
\* numbers are used again; unless a signal came while a child was being noted.
KillsOwn ==
  [][\A p \in Pid : Running(p) /\ proc'[p] = "killed" /\ interrupted = {} =>
       Head(events) = [action |-> "remove", node |-> serves[p]]]_vars

\* Once every report has been read, only dongles that are plugged in have a running client:
\* a quick removal and return, or a removal right after the fork, loses none.
NoClientLeft ==
  "used" \notin interrupted /\ daemon = "loop" /\ events = <<>> =>
    \A p \in Pid : Running(p) => serves[p] \in plugged
=============================================================================
