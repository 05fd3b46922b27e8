----------------------------- MODULE DaemonProofs -----------------------------
(* TLAPS proofs about Daemon, for every set of devices and process numbers,  *)
(* every size of the table and every order of reports and signals.           *)
EXTENDS Daemon, SequenceTheorems, TLAPS

-----------------------------------------------------------------------------
(* Type correctness                                                        *)

\* The slot of a child is one whose use and numbers can be written.
LEMMA EntryFields ==
  ASSUME NEW m \in [Slots -> Entry], NEW i \in Slots
  PROVE  /\ \A b \in BOOLEAN : [m EXCEPT ![i].used = b] \in [Slots -> Entry]
         /\ \A p \in Pid, k \in Dongle : [m EXCEPT ![i].pid = p, ![i].key = k] \in [Slots -> Entry]
BY DEF Entry

LEMMA InitType == Init => TypeOK
<1> SUFFICES ASSUME Init PROVE TypeOK  OBVIOUS
<1>1. DevicesOK  BY NodeAssumption, BoundsAssumption, EmptySeq DEF Init, DevicesOK
<1>2. map \in [Slots -> Entry]  BY DEF Init, Entry
<1>3. ProcessesOK /\ DaemonOK  BY DEF Init, ProcessesOK, DaemonOK
<1> QED  BY <1>1, <1>2, <1>3 DEF TypeOK

\* A report that is read.
LEMMA ReceivesType ==
  ASSUME TypeOK, NEW n \in Node, NEW action \in {"add", "remove"}, Receives(action, n),
         UNCHANGED devices
  PROVE  DevicesOK'
BY HeadTailProperties DEF TypeOK, DevicesOK, Receives, devices

LEMMA ReceiveType ==
  ASSUME TypeOK, NEW n \in Node,
         AddTty(n) \/ AddOther(n) \/ Fork(n) \/ ForkFails(n) \/ AddFull(n) \/ Remove(n)
  PROVE  TypeOK'
<1> USE DEF TypeOK, processes, devices
<1>1. DevicesOK'
  BY ReceivesType DEF AddTty, AddOther, Fork, ForkFails, AddFull, Remove
<1>2. CASE AddTty(n) \/ AddOther(n) \/ ForkFails(n) \/ AddFull(n)
  BY <1>1, <1>2 DEF AddTty, AddOther, ForkFails, AddFull, ProcessesOK, DaemonOK, Receives
<1>3. CASE Fork(n)
  <2>1. ProcessesOK'  BY <1>3 DEF Fork, ProcessesOK
  <2>2. DaemonOK'  BY <1>3 DEF Fork, DaemonOK, FreeSlot
  <2> QED  BY <1>1, <1>3, <2>1, <2>2 DEF Fork
<1>4. CASE Remove(n)
  <2>1. map' \in [Slots -> Entry]
    <3>1. \A i \in Slots : map[i] \in Entry /\ [map[i] EXCEPT !.used = FALSE] \in Entry
      BY DEF Entry
    <3> QED  BY <1>4, <3>1 DEF Remove
  <2>2. ProcessesOK'  BY <1>4 DEF Remove, ProcessesOK, Kill
  <2>3. DaemonOK'  BY <1>4 DEF Remove, DaemonOK
  <2> QED  BY <1>1, <2>1, <2>2, <2>3
<1> QED  BY <1>2, <1>3, <1>4

LEMMA TypeStep ==
  ASSUME TypeOK, [Next]_vars
  PROVE  TypeOK'
<1> USE DEF TypeOK, processes, devices
<1>1. CASE Receive  BY <1>1, ReceiveType DEF Receive
<1>2. CASE NoteUsed
  <2>1. map' \in [Slots -> Entry]  BY <1>2, EntryFields DEF NoteUsed, DaemonOK
  <2> QED  BY <1>2, <2>1 DEF NoteUsed, DevicesOK, ProcessesOK, DaemonOK
<1>3. CASE NotePid
  <2>1. map' \in [Slots -> Entry]  BY <1>3, EntryFields DEF NotePid, DaemonOK
  <2> QED  BY <1>3, <2>1 DEF NotePid, DevicesOK, ProcessesOK, DaemonOK
<1>4. CASE child_exit_handler
  <2>1. map' \in [Slots -> Entry]  BY <1>4 DEF child_exit_handler, GiveBack, Entry
  <2>2. ProcessesOK'  BY <1>4 DEF child_exit_handler, ProcessesOK, Zombies
  <2>3. DaemonOK'  BY <1>4 DEF child_exit_handler, DaemonOK
  <2> QED  BY <1>4, <2>1, <2>2, <2>3 DEF child_exit_handler, DevicesOK
<1>5. ASSUME NEW p \in Pid, Ends(p) PROVE TypeOK'
  BY <1>5 DEF Ends, DevicesOK, ProcessesOK, DaemonOK
<1>6. ASSUME NEW n \in Node, Plug(n) \/ Unplug(n) PROVE TypeOK'
  <2>1. [action |-> "add", node |-> n] \in Event /\ [action |-> "remove", node |-> n] \in Event
    BY DEF Event
  <2>2. events \in Seq(Event) /\ \E e \in Event : events' = Append(events, e)
    BY <1>6, <2>1 DEF Plug, Unplug, DevicesOK
  <2>3. events' \in Seq(Event)  BY <2>2, AppendProperties
  <2>4. DevicesOK'
    BY <1>6, <2>3, BoundsAssumption DEF Plug, Unplug, DevicesOK
  <2> QED  BY <1>6, <2>4 DEF Plug, Unplug, ProcessesOK, DaemonOK
<1>7. CASE UNCHANGED vars
  BY <1>7 DEF vars, DevicesOK, ProcessesOK, DaemonOK
<1> QED  BY <1>1, <1>2, <1>3, <1>4, <1>5, <1>6, <1>7 DEF Next, Loop

\* Every variable keeps its type, and a child is being noted exactly between the fork and the last
\* of the stores that note it.
THEOREM TypeCorrect == Spec => []TypeOK
BY InitType, TypeStep, PTL DEF Spec

-----------------------------------------------------------------------------
(* The signal handler                                                      *)

LEMMA HandlerStep ==
  ASSUME TypeOK, HandlerNeverBlocks, [Next]_vars
  PROVE  HandlerNeverBlocks'
<1> USE DEF HandlerNeverBlocks, Zombies, processes
<1>1. CASE Receive
  <2>1. \A p \in Pid : proc[p] = "zombie" => proc'[p] = "zombie"
    BY <1>1 DEF Receive, AddTty, AddOther, Fork, ForkFails, AddFull, Remove, Kill, TypeOK, ProcessesOK
  <2>2. sigchld' = sigchld
    BY <1>1 DEF Receive, AddTty, AddOther, Fork, ForkFails, AddFull, Remove
  <2> QED  BY <2>1, <2>2
<1>2. ASSUME NEW p \in Pid, Ends(p) PROVE HandlerNeverBlocks'
  BY <1>2 DEF Ends, TypeOK, ProcessesOK
<1>3. CASE child_exit_handler
  BY <1>3 DEF child_exit_handler
<1>4. CASE NoteUsed \/ NotePid \/ (\E n \in Node : Plug(n) \/ Unplug(n)) \/ UNCHANGED vars
  BY <1>4 DEF NoteUsed, NotePid, Plug, Unplug, vars
<1> QED  BY <1>1, <1>2, <1>3, <1>4 DEF Next, Loop

\* Whenever SIGCHLD is pending a child waits to be reaped, so wait3 in the handler returns at once:
\* signals that fall together leave children over, never a signal without one.
THEOREM HandlerFindsChild == Spec => []HandlerNeverBlocks
<1>1. Init => HandlerNeverBlocks  BY DEF Init, HandlerNeverBlocks
<1> QED  BY <1>1, TypeCorrect, HandlerStep, PTL DEF Spec

-----------------------------------------------------------------------------
(* The reports of udev                                                     *)

\* Two reports of one device with none of it in between are an addition and a removal, ...
Alternate(es) ==
  \A i, j \in DOMAIN es :
    /\ i < j /\ es[i].node = es[j].node
    /\ \A k \in DOMAIN es : i < k /\ k < j => es[k].node # es[i].node
    => es[i].action # es[j].action
\* ... the last one of a device tells whether it is plugged in ...
LastTells(es, in) ==
  \A j \in DOMAIN es :
    (\A k \in DOMAIN es : j < k => es[k].node # es[j].node) => (es[j].action = "add" <=> es[j].node \in in)
\* ... and of a device that the daemon knows of, the first one not read is its removal; if there is
\* none it is still plugged in.
Known(es, in, n) ==
  /\ \A j \in DOMAIN es :
       es[j].node = n /\ (\A k \in DOMAIN es : k < j => es[k].node # n) => es[j].action = "remove"
  /\ (\A j \in DOMAIN es : es[j].node # n) => n \in in

LEMMA TailReports ==
  ASSUME NEW es \in Seq(Event), es # <<>>
  PROVE  /\ Len(es) \in Nat \ {0} /\ DOMAIN es = 1 .. Len(es) /\ Head(es) = es[1]
         /\ DOMAIN Tail(es) = 1 .. Len(es) - 1
         /\ \A j \in 1 .. Len(es) - 1 : Tail(es)[j] = es[j + 1]
         /\ \A j \in DOMAIN es : es[j].action \in {"add", "remove"} /\ es[j].node \in Node
<1>1. \A j \in 1 .. Len(es) : es[j] \in Event  BY ElementOfSeq
<1> QED  BY <1>1, LenProperties, EmptySeq, HeadTailProperties DEF Event

LEMMA AppendReports ==
  ASSUME NEW es \in Seq(Event), NEW e \in Event
  PROVE  /\ Len(es) \in Nat /\ DOMAIN es = 1 .. Len(es)
         /\ DOMAIN Append(es, e) = 1 .. Len(es) + 1
         /\ \A j \in 1 .. Len(es) : Append(es, e)[j] = es[j]
         /\ Append(es, e)[Len(es) + 1] = e
         /\ \A j \in DOMAIN es : es[j].action \in {"add", "remove"} /\ es[j].node \in Node
         /\ e.action \in {"add", "remove"} /\ e.node \in Node
<1>1. \A j \in 1 .. Len(es) : es[j] \in Event  BY ElementOfSeq
<1> QED  BY <1>1, LenProperties, AppendProperties DEF Event

\* Reading a report keeps the others in order.
LEMMA OrderAfterTail ==
  ASSUME NEW es \in Seq(Event), es # <<>>, NEW in, Alternate(es), LastTells(es, in)
  PROVE  Alternate(Tail(es)) /\ LastTells(Tail(es), in)
<1> DEFINE t == Tail(es)
           n == Len(es)
<1>1. /\ n \in Nat \ {0} /\ DOMAIN es = 1 .. n /\ DOMAIN t = 1 .. n - 1
      /\ \A j \in 1 .. n - 1 : t[j] = es[j + 1]
  BY TailReports
<1> HIDE DEF t, n
<1>0. \A i, j \in 1 .. n :
        /\ i < j /\ es[i].node = es[j].node
        /\ \A k \in 1 .. n : i < k /\ k < j => es[k].node # es[i].node
        => es[i].action # es[j].action
  BY <1>1, ZenonT(30) DEF Alternate
<1>2. ASSUME NEW i \in 1 .. n - 1, NEW j \in 1 .. n - 1, i < j, t[i].node = t[j].node,
             \A k \in 1 .. n - 1 : i < k /\ k < j => t[k].node # t[i].node
      PROVE  t[i].action # t[j].action
  <2>1. i + 1 \in 1 .. n /\ j + 1 \in 1 .. n /\ i + 1 < j + 1  BY <1>1, <1>2
  <2>2. ASSUME NEW k \in 1 .. n, i + 1 < k, k < j + 1 PROVE es[k].node # es[i + 1].node
    <3>1. k - 1 \in 1 .. n - 1 /\ i < k - 1 /\ k - 1 < j /\ (k - 1) + 1 = k  BY <1>1, <1>2, <2>2
    <3>2. t[k - 1].node # t[i].node /\ t[k - 1] = es[(k - 1) + 1]  BY <1>1, <1>2, <3>1
    <3> QED  BY <1>1, <3>1, <3>2
  <2>3. es[i + 1].action # es[j + 1].action
    BY <1>0, <1>1, <1>2, <2>1, <2>2
  <2> QED  BY <1>1, <2>3
<1>3. ASSUME NEW j \in 1 .. n - 1, \A k \in 1 .. n - 1 : j < k => t[k].node # t[j].node
      PROVE  t[j].action = "add" <=> t[j].node \in in
  <2>1. j + 1 \in 1 .. n  BY <1>1
  <2>2. ASSUME NEW k \in 1 .. n, j + 1 < k PROVE es[k].node # es[j + 1].node
    <3>1. k - 1 \in 1 .. n - 1 /\ j < k - 1 /\ (k - 1) + 1 = k  BY <1>1, <2>2
    <3>2. t[k - 1].node # t[j].node /\ t[k - 1] = es[(k - 1) + 1]  BY <1>1, <1>3, <3>1
    <3> QED  BY <1>1, <3>1, <3>2
  <2>3. es[j + 1].action = "add" <=> es[j + 1].node \in in
    BY <1>1, <2>1, <2>2 DEF LastTells
  <2> QED  BY <1>1, <2>3
<1>4. Alternate(t) /\ LastTells(t, in)
  <2>1. Alternate(t)  BY <1>1, <1>2, ZenonT(30) DEF Alternate
  <2>2. LastTells(t, in)  BY <1>1, <1>3 DEF LastTells
  <2> QED  BY <2>1, <2>2
<1> QED  BY <1>4 DEF t

\* So does a new report of a device that comes or goes.
LEMMA OrderAfterAppend ==
  ASSUME NEW es \in Seq(Event), NEW e \in Event, NEW in, NEW in2, Alternate(es), LastTells(es, in),
         \/ e.action = "add" /\ e.node \notin in /\ in2 = in \cup {e.node}
         \/ e.action = "remove" /\ e.node \in in /\ in2 = in \ {e.node}
  PROVE  Alternate(Append(es, e)) /\ LastTells(Append(es, e), in2)
<1> DEFINE t == Append(es, e)
           n == Len(es)
<1>1. /\ n \in Nat /\ DOMAIN es = 1 .. n /\ DOMAIN t = 1 .. n + 1
      /\ \A j \in 1 .. n : t[j] = es[j]
      /\ t[n + 1] = e
      /\ \A j \in 1 .. n : es[j].action \in {"add", "remove"}
  BY AppendReports
<1> HIDE DEF t, n
<1>2. ASSUME NEW i \in 1 .. n + 1, NEW j \in 1 .. n + 1, i < j, t[i].node = t[j].node,
             \A k \in 1 .. n + 1 : i < k /\ k < j => t[k].node # t[i].node
      PROVE  t[i].action # t[j].action
  <2>1. i \in 1 .. n  BY <1>1, <1>2
  <2>2. CASE j \in 1 .. n
    <3>1. \A k \in 1 .. n : i < k /\ k < j => es[k].node # es[i].node
      BY <1>1, <1>2, <2>1
    <3> QED  BY <1>1, <1>2, <2>1, <2>2, <3>1 DEF Alternate
  <2>3. CASE j = n + 1
    <3>1. \A k \in 1 .. n : i < k => es[k].node # es[i].node
      BY <1>1, <1>2, <2>1, <2>3
    <3>2. es[i].action = "add" <=> es[i].node \in in
      BY <1>1, <2>1, <3>1 DEF LastTells
    <3>3. es[i].node = e.node /\ t[i] = es[i] /\ t[j] = e  BY <1>1, <1>2, <2>1, <2>3
    <3> QED  BY <1>1, <2>1, <3>2, <3>3
  <2> QED  BY <1>1, <2>2, <2>3
<1>3. ASSUME NEW j \in 1 .. n + 1, \A k \in 1 .. n + 1 : j < k => t[k].node # t[j].node
      PROVE  t[j].action = "add" <=> t[j].node \in in2
  <2>1. CASE j \in 1 .. n
    <3>1. e.node # es[j].node  BY <1>1, <1>3, <2>1
    <3>2. \A k \in 1 .. n : j < k => es[k].node # es[j].node  BY <1>1, <1>3, <2>1
    <3>3. es[j].action = "add" <=> es[j].node \in in  BY <1>1, <2>1, <3>2 DEF LastTells
    <3> QED  BY <1>1, <2>1, <3>1, <3>3
  <2>2. CASE j = n + 1  BY <1>1, <2>2
  <2> QED  BY <1>1, <2>1, <2>2
<1>4. Alternate(t) /\ LastTells(t, in2)
  <2>1. Alternate(t)  BY <1>1, <1>2 DEF Alternate
  <2>2. LastTells(t, in2)  BY <1>1, <1>3 DEF LastTells
  <2> QED  BY <2>1, <2>2
<1> QED  BY <1>4 DEF t

\* Once a device's addition has been read the daemon knows of it.
LEMMA KnownAfterAdd ==
  ASSUME NEW es \in Seq(Event), es # <<>>, NEW in, Alternate(es), LastTells(es, in),
         Head(es).action = "add"
  PROVE  Known(Tail(es), in, Head(es).node)
<1> DEFINE t == Tail(es)
           n == Len(es)
<1>1. /\ n \in Nat \ {0} /\ DOMAIN es = 1 .. n /\ DOMAIN t = 1 .. n - 1 /\ Head(es) = es[1]
      /\ \A j \in 1 .. n - 1 : t[j] = es[j + 1]
      /\ \A j \in 1 .. n : es[j].action \in {"add", "remove"}
  BY TailReports
<1> HIDE DEF t, n
<1>0. \A i, j \in 1 .. n :
        /\ i < j /\ es[i].node = es[j].node
        /\ \A k \in 1 .. n : i < k /\ k < j => es[k].node # es[i].node
        => es[i].action # es[j].action
  BY <1>1, SMTT(30) DEF Alternate
<1>2. ASSUME NEW j \in 1 .. n - 1, t[j].node = es[1].node,
             \A k \in 1 .. n - 1 : k < j => t[k].node # es[1].node
      PROVE  t[j].action = "remove"
  <2>1. 1 \in 1 .. n /\ j + 1 \in 1 .. n /\ 1 < j + 1  BY <1>1
  <2>2. ASSUME NEW k \in 1 .. n, 1 < k, k < j + 1 PROVE es[k].node # es[1].node
    <3>1. k - 1 \in 1 .. n - 1 /\ k - 1 < j /\ (k - 1) + 1 = k  BY <1>1, <2>2
    <3>2. t[k - 1].node # es[1].node /\ t[k - 1] = es[(k - 1) + 1]  BY <1>1, <1>2, <3>1
    <3> QED  BY <3>1, <3>2
  <2>3. es[1].action # es[j + 1].action  BY <1>0, <1>1, <1>2, <2>1, <2>2
  <2> QED  BY <1>1, <2>1, <2>3
<1>3. ASSUME \A j \in 1 .. n - 1 : t[j].node # es[1].node PROVE es[1].node \in in
  <2>1. ASSUME NEW k \in 1 .. n, 1 < k PROVE es[k].node # es[1].node
    <3>1. k - 1 \in 1 .. n - 1 /\ (k - 1) + 1 = k  BY <1>1, <2>1
    <3>2. t[k - 1].node # es[1].node /\ t[k - 1] = es[(k - 1) + 1]  BY <1>1, <1>3, <3>1
    <3> QED  BY <3>1, <3>2
  <2> QED  BY <1>1, <2>1 DEF LastTells
<1>4. Known(t, in, es[1].node)  BY <1>1, <1>2, <1>3 DEF Known
<1> QED  BY <1>1, <1>4 DEF t

\* A report of another device changes nothing, and the next one of a known device is its removal.
LEMMA KnownAfterTail ==
  ASSUME NEW es \in Seq(Event), es # <<>>, NEW in, NEW m, Known(es, in, m)
  PROVE  /\ Head(es).node # m => Known(Tail(es), in, m)
         /\ Head(es).node = m => Head(es).action = "remove"
<1> DEFINE t == Tail(es)
           n == Len(es)
<1>1. /\ n \in Nat \ {0} /\ DOMAIN es = 1 .. n /\ DOMAIN t = 1 .. n - 1 /\ Head(es) = es[1]
      /\ \A j \in 1 .. n - 1 : t[j] = es[j + 1]
  BY TailReports
<1> HIDE DEF t, n
<1>2. ASSUME es[1].node = m PROVE es[1].action = "remove"
  <2>1. 1 \in 1 .. n /\ \A k \in 1 .. n : ~(k < 1)  BY <1>1
  <2> QED  BY <1>1, <1>2, <2>1 DEF Known
<1>3. ASSUME es[1].node # m PROVE Known(t, in, m)
  <2>1. ASSUME NEW j \in 1 .. n - 1, t[j].node = m, \A k \in 1 .. n - 1 : k < j => t[k].node # m
        PROVE  t[j].action = "remove"
    <3>1. j + 1 \in 1 .. n  BY <1>1
    <3>2. ASSUME NEW k \in 1 .. n, k < j + 1 PROVE es[k].node # m
      <4>1. CASE k = 1  BY <1>3, <4>1
      <4>2. CASE k # 1
        <5>1. k - 1 \in 1 .. n - 1 /\ k - 1 < j /\ (k - 1) + 1 = k  BY <1>1, <3>2, <4>2
        <5>2. t[k - 1].node # m /\ t[k - 1] = es[(k - 1) + 1]  BY <1>1, <2>1, <5>1
        <5> QED  BY <5>1, <5>2
      <4> QED  BY <4>1, <4>2
    <3>3. es[j + 1].action = "remove"  BY <1>1, <2>1, <3>1, <3>2 DEF Known
    <3> QED  BY <1>1, <3>3
  <2>2. ASSUME \A j \in 1 .. n - 1 : t[j].node # m PROVE m \in in
    <3>1. ASSUME NEW k \in 1 .. n PROVE es[k].node # m
      <4>1. CASE k = 1  BY <1>3, <4>1
      <4>2. CASE k # 1
        <5>1. k - 1 \in 1 .. n - 1 /\ (k - 1) + 1 = k  BY <1>1, <4>2
        <5>2. t[k - 1].node # m /\ t[k - 1] = es[(k - 1) + 1]  BY <1>1, <2>2, <5>1
        <5> QED  BY <5>1, <5>2
      <4> QED  BY <4>1, <4>2
    <3> QED  BY <1>1, <3>1 DEF Known
  <2> QED  BY <1>1, <2>1, <2>2 DEF Known
<1> QED  BY <1>1, <1>2, <1>3 DEF t

\* A device that the daemon knows of and that goes, or comes again after it has gone.
LEMMA KnownAfterAppend ==
  ASSUME NEW es \in Seq(Event), NEW e \in Event, NEW in, NEW in2, NEW m, Known(es, in, m),
         \/ e.action = "add" /\ e.node \notin in /\ in2 = in \cup {e.node}
         \/ e.action = "remove" /\ e.node \in in /\ in2 = in \ {e.node}
  PROVE  Known(Append(es, e), in2, m)
<1> DEFINE t == Append(es, e)
           n == Len(es)
<1>1. /\ n \in Nat /\ DOMAIN es = 1 .. n /\ DOMAIN t = 1 .. n + 1
      /\ \A j \in 1 .. n : t[j] = es[j]
      /\ t[n + 1] = e
  BY AppendReports
<1> HIDE DEF t, n
<1>2. ASSUME NEW j \in 1 .. n + 1, t[j].node = m, \A k \in 1 .. n + 1 : k < j => t[k].node # m
      PROVE  t[j].action = "remove"
  <2>1. CASE j \in 1 .. n
    <3>1. \A k \in 1 .. n : k < j => es[k].node # m  BY <1>1, <1>2, <2>1
    <3> QED  BY <1>1, <1>2, <2>1, <3>1 DEF Known
  <2>2. CASE j = n + 1
    <3>1. \A k \in 1 .. n : es[k].node # m  BY <1>1, <1>2, <2>2
    <3>2. m \in in  BY <1>1, <3>1 DEF Known
    <3> QED  BY <1>1, <1>2, <2>2, <3>2
  <2> QED  BY <1>1, <2>1, <2>2
<1>3. ASSUME \A j \in 1 .. n + 1 : t[j].node # m PROVE m \in in2
  <2>1. \A k \in 1 .. n : es[k].node # m  BY <1>1, <1>3
  <2>2. m \in in /\ e.node # m  BY <1>1, <1>3, <2>1 DEF Known
  <2> QED  BY <2>2
<1>4. Known(t, in2, m)  BY <1>1, <1>2, <1>3 DEF Known
<1> QED  BY <1>4 DEF t

-----------------------------------------------------------------------------
(* The clients and their slots                                             *)

ReportsInOrder == Alternate(events) /\ LastTells(events, plugged)

Noted == daemon \in {"forked", "used"}

\* The child that is being noted was forked for new.node, into a slot that was free, and that is
\* taken between the two stores unless the handler gave it back.
BeingNoted ==
  Noted => /\ serves[new.pid] = new.node
           /\ daemon = "forked" => ~map[new.slot].used
           /\ daemon = "used" /\ "used" \notin interrupted => map[new.slot].used

\* A running client is in a slot that the child being noted does not overwrite ...
Held(p) == \E i \in Slots : /\ map[i].used /\ map[i].pid = p /\ map[i].key = serves[p]
                            /\ Noted => i # new.slot
\* ... and its device is one that the daemon knows of.
HeldAndKnown ==
  \A p \in Pid : Running(p) => /\ p # new.pid => Held(p)
                               /\ Known(events, plugged, serves[p])

DaemonInv ==
  /\ ReportsInOrder
  /\ BeingNoted
  /\ "used" \notin interrupted => HeldAndKnown /\ OneClient

\* While no signal has come between the steps of noting a child, a slot in use has the number of a
\* process not yet waited for, and the device that it serves.
SlotsTrue ==
  interrupted = {} =>
    /\ \A i \in Slots : map[i].used /\ ~(daemon = "used" /\ i = new.slot) =>
         map[i].pid \in Pid /\ proc[map[i].pid] # "free" /\ serves[map[i].pid] = map[i].key
    /\ Noted => proc[new.pid] # "free"

LEMMA InitDaemon == Init => DaemonInv /\ SlotsTrue
<1> SUFFICES ASSUME Init PROVE DaemonInv /\ SlotsTrue  OBVIOUS
<1>1. DOMAIN events = {}  BY DEF Init
<1>2. ReportsInOrder  BY <1>1 DEF ReportsInOrder, Alternate, LastTells
<1>3. BeingNoted /\ HeldAndKnown /\ OneClient  BY DEF Init, BeingNoted, Noted, HeldAndKnown, OneClient, Running
<1>4. SlotsTrue  BY DEF Init, SlotsTrue, Noted
<1> QED  BY <1>2, <1>3, <1>4 DEF DaemonInv

LEMMA OrderStep ==
  ASSUME TypeOK, ReportsInOrder, [Next]_vars
  PROVE  ReportsInOrder'
<1> USE DEF ReportsInOrder, TypeOK, DevicesOK, devices
<1>1. ASSUME NEW n \in Node,
             AddTty(n) \/ AddOther(n) \/ Fork(n) \/ ForkFails(n) \/ AddFull(n) \/ Remove(n)
      PROVE  ReportsInOrder'
  <2>1. events # <<>> /\ events' = Tail(events) /\ plugged' = plugged
    BY <1>1 DEF AddTty, AddOther, Fork, ForkFails, AddFull, Remove, Receives
  <2> QED  BY <2>1, OrderAfterTail
<1>2. ASSUME NEW n \in Node, Plug(n) PROVE ReportsInOrder'
  <2> DEFINE e == [action |-> "add", node |-> n]
  <2>1. e \in Event /\ e.action = "add" /\ e.node = n  BY DEF Event
  <2>2. events' = Append(events, e) /\ n \notin plugged /\ plugged' = plugged \cup {n}
    BY <1>2 DEF Plug
  <2> HIDE DEF e
  <2> QED  BY <2>1, <2>2, OrderAfterAppend
<1>3. ASSUME NEW n \in Node, Unplug(n) PROVE ReportsInOrder'
  <2> DEFINE e == [action |-> "remove", node |-> n]
  <2>1. e \in Event /\ e.action = "remove" /\ e.node = n  BY DEF Event
  <2>2. events' = Append(events, e) /\ n \in plugged /\ plugged' = plugged \ {n}
    BY <1>3 DEF Unplug
  <2> HIDE DEF e
  <2> QED  BY <2>1, <2>2, OrderAfterAppend
<1>4. CASE UNCHANGED <<events, plugged>>
  BY <1>4
<1>5. NoteUsed \/ NotePid \/ child_exit_handler \/ (\E p \in Pid : Ends(p)) \/ UNCHANGED vars
        => UNCHANGED <<events, plugged>>
  BY DEF NoteUsed, NotePid, child_exit_handler, Ends, vars
<1> QED  BY <1>1, <1>2, <1>3, <1>4, <1>5 DEF Next, Loop, Receive

\* What a step needs of the devices that have a running client.
ClientsKnown == \A p \in Pid : Running(p) => Known(events, plugged, serves[p])

LEMMA KnownReceived ==
  ASSUME TypeOK, ClientsKnown, NEW action \in {"add", "remove"}, NEW n \in Node, Receives(action, n),
         plugged' = plugged
  PROVE  \A p \in Pid : Running(p) =>
           /\ serves[p] # n => Known(events', plugged', serves[p])
           /\ serves[p] = n => action = "remove"
<1>1. /\ events \in Seq(Event) /\ events # <<>> /\ events' = Tail(events)
      /\ Head(events).action = action /\ Head(events).node = n
  BY DEF Receives, TypeOK, DevicesOK
<1> QED  BY <1>1, KnownAfterTail DEF ClientsKnown

\* Reports that the daemon does nothing about.
LEMMA DropStep ==
  ASSUME TypeOK, DaemonInv, NEW n \in Node, AddTty(n) \/ AddOther(n) \/ ForkFails(n) \/ AddFull(n)
  PROVE  DaemonInv'
<1>0. ReportsInOrder'
  BY OrderStep DEF DaemonInv, Next, Loop, Receive
<1>1. /\ Receives("add", n) /\ UNCHANGED <<plugged, map, proc, serves, new, interrupted>>
      /\ daemon = "loop" /\ daemon' \in {"loop", "ended"}
  BY DEF AddTty, AddOther, ForkFails, AddFull, Receives, devices, processes
<1>2. BeingNoted'  BY <1>1 DEF BeingNoted, Noted
<1> SUFFICES ASSUME "used" \notin interrupted PROVE HeldAndKnown' /\ OneClient'
  BY <1>0, <1>1, <1>2 DEF DaemonInv
<1>3. HeldAndKnown /\ OneClient  BY DEF DaemonInv
<1>4. ClientsKnown  BY <1>3 DEF HeldAndKnown, ClientsKnown
<1>5. \A p \in Pid : Running(p) => Known(events', plugged', serves[p])
  BY <1>1, <1>4, KnownReceived
<1>6. HeldAndKnown'  BY <1>1, <1>3, <1>5 DEF HeldAndKnown, Held, Noted, Running
<1>7. OneClient'  BY <1>1, <1>3 DEF OneClient, Running
<1> QED  BY <1>6, <1>7

LEMMA ForkStep ==
  ASSUME TypeOK, DaemonInv, NEW n \in Node, Fork(n)
  PROVE  DaemonInv'
<1>0. ReportsInOrder'
  BY OrderStep DEF DaemonInv, Next, Loop, Receive
<1>1. PICK i \in FreeSlot, p \in Pid :
        /\ proc[p] = "free"
        /\ proc' = [proc EXCEPT ![p] = "client"] /\ serves' = [serves EXCEPT ![p] = n]
        /\ new' = [slot |-> i, pid |-> p, node |-> n]
  BY DEF Fork
<1>2. /\ Receives("add", n) /\ UNCHANGED <<plugged, map, interrupted>>
      /\ daemon = "loop" /\ daemon' = "forked" /\ i \in Slots /\ ~map[i].used
  BY DEF Fork, Receives, FreeSlot, devices
<1>3. /\ \A q \in Pid : /\ proc'[q] = IF q = p THEN "client" ELSE proc[q]
                        /\ serves'[q] = IF q = p THEN n ELSE serves[q]
      /\ new'.slot = i /\ new'.pid = p /\ new'.node = n
  BY <1>1 DEF TypeOK, ProcessesOK
<1>4. BeingNoted'  BY <1>2, <1>3 DEF BeingNoted, Noted
<1> SUFFICES ASSUME "used" \notin interrupted PROVE HeldAndKnown' /\ OneClient'
  BY <1>0, <1>2, <1>4 DEF DaemonInv
<1>5. HeldAndKnown /\ OneClient /\ new.pid \notin Pid
  BY <1>2, NoneAssumption DEF DaemonInv, TypeOK, DaemonOK, Nobody
<1>6. ClientsKnown  BY <1>5 DEF HeldAndKnown, ClientsKnown
<1>7. \A q \in Pid : Running(q) => serves[q] # n /\ Known(events', plugged', serves[q])
  BY <1>2, <1>6, KnownReceived
<1>8. Known(events', plugged', n)
  <2>1. /\ events \in Seq(Event) /\ events # <<>> /\ events' = Tail(events)
        /\ Head(events).action = "add" /\ Head(events).node = n
    BY <1>2 DEF Receives, TypeOK, DevicesOK
  <2> QED  BY <1>2, <2>1, KnownAfterAdd DEF DaemonInv, ReportsInOrder
<1>9. HeldAndKnown'
  <2> SUFFICES ASSUME NEW q \in Pid, Running(q)'
               PROVE  /\ q # new'.pid => Held(q)'
                      /\ Known(events', plugged', serves'[q])
    BY DEF HeldAndKnown
  <2>1. CASE q = p  BY <1>3, <1>8, <2>1
  <2>2. CASE q # p
    <3>1. Running(q)  BY <1>3, <2>2 DEF Running
    <3>2. Held(q)  BY <1>5, <3>1 DEF HeldAndKnown
    <3>3. Held(q)'  BY <1>2, <1>3, <2>2, <3>2 DEF Held
    <3> QED  BY <1>3, <1>7, <2>2, <3>1, <3>3
  <2> QED  BY <2>1, <2>2
<1>10. OneClient'
  BY <1>3, <1>5, <1>7 DEF OneClient, Running
<1> QED  BY <1>9, <1>10

LEMMA RemoveStep ==
  ASSUME TypeOK, DaemonInv, NEW n \in Node, Remove(n)
  PROVE  DaemonInv'
<1> DEFINE his == { i \in Slots : map[i].used /\ map[i].key = n }
<1>0. ReportsInOrder'
  BY OrderStep DEF DaemonInv, Next, Loop, Receive
<1>1. /\ Receives("remove", n) /\ UNCHANGED <<plugged, serves, new, interrupted, daemon>>
      /\ daemon = "loop"
      /\ Kill({ map[i].pid : i \in his })
      /\ map' = [i \in Slots |-> IF i \in his THEN [map[i] EXCEPT !.used = FALSE] ELSE map[i]]
  BY DEF Remove, Receives, devices
<1>2. BeingNoted'  BY <1>1 DEF BeingNoted, Noted
<1> SUFFICES ASSUME "used" \notin interrupted PROVE HeldAndKnown' /\ OneClient'
  BY <1>0, <1>1, <1>2 DEF DaemonInv
<1>3. HeldAndKnown /\ OneClient /\ new.pid \notin Pid
  BY <1>1, NoneAssumption DEF DaemonInv, TypeOK, DaemonOK, Nobody
<1>4. ClientsKnown  BY <1>3 DEF HeldAndKnown, ClientsKnown
<1>5. \A q \in Pid : Running(q)' => Running(q)
  BY <1>1 DEF Running, Kill
<1>6. \A q \in Pid : Running(q)' => serves[q] # n
  <2> SUFFICES ASSUME NEW q \in Pid, Running(q)', serves[q] = n PROVE FALSE
    OBVIOUS
  <2>1. Running(q)  BY <1>5
  <2>2. PICK i \in Slots : map[i].used /\ map[i].pid = q /\ map[i].key = n
    BY <1>3, <2>1 DEF HeldAndKnown, Held
  <2>3. q \in { map[j].pid : j \in his }  BY <2>2
  <2> QED  BY <1>1, <2>1, <2>3 DEF Kill, Running
<1>7. \A q \in Pid : Running(q)' => Known(events', plugged', serves[q])
  BY <1>1, <1>4, <1>5, <1>6, KnownReceived
<1>8. \A i \in Slots : map[i].key # n => map'[i] = map[i]
  BY <1>1 DEF TypeOK
<1>9. HeldAndKnown'
  <2> SUFFICES ASSUME NEW q \in Pid, Running(q)' PROVE Held(q)'
    BY <1>1, <1>7 DEF HeldAndKnown
  <2>1. Held(q) /\ serves[q] # n  BY <1>3, <1>5, <1>6 DEF HeldAndKnown
  <2> QED  BY <1>1, <1>8, <2>1 DEF Held, Noted
<1>10. OneClient'  BY <1>1, <1>3, <1>5 DEF OneClient
<1> QED  BY <1>9, <1>10

LEMMA NoteStep ==
  ASSUME TypeOK, DaemonInv, NoteUsed \/ NotePid
  PROVE  DaemonInv'
<1>0. ReportsInOrder'
  BY OrderStep DEF DaemonInv, Next, Loop
<1>1. /\ UNCHANGED <<plugged, events, proc, serves, interrupted>> /\ Noted
      /\ new.slot \in Slots /\ new.pid \in Pid /\ new.node \in Dongle
      /\ map \in [Slots -> Entry]
  BY DEF NoteUsed, NotePid, devices, processes, Noted, TypeOK, DaemonOK
<1>2. CASE NoteUsed
  <2>1. /\ daemon = "forked" /\ daemon' = "used" /\ new' = new
        /\ \A i \in Slots \ {new.slot} : map'[i] = map[i]
        /\ map'[new.slot].used
    BY <1>1, <1>2 DEF NoteUsed, Entry
  <2>2. BeingNoted'  BY <1>1, <2>1 DEF DaemonInv, BeingNoted, Noted
  <2>3. ASSUME "used" \notin interrupted PROVE HeldAndKnown' /\ OneClient'
    <3>1. HeldAndKnown /\ OneClient  BY <2>3 DEF DaemonInv
    <3>2. \A p \in Pid : Held(p) => Held(p)'  BY <1>1, <2>1 DEF Held, Noted
    <3> QED  BY <1>1, <2>1, <3>1, <3>2 DEF HeldAndKnown, OneClient, Running
  <2> QED  BY <1>0, <1>1, <2>2, <2>3 DEF DaemonInv
<1>3. CASE NotePid
  <2>1. /\ daemon = "used" /\ daemon' = "loop" /\ new' = Nobody
        /\ \A i \in Slots \ {new.slot} : map'[i] = map[i]
        /\ map'[new.slot].used = map[new.slot].used
        /\ map'[new.slot].pid = new.pid /\ map'[new.slot].key = new.node
    BY <1>1, <1>3 DEF NotePid, Entry
  <2>2. BeingNoted'  BY <2>1 DEF BeingNoted, Noted
  <2>3. ASSUME "used" \notin interrupted PROVE HeldAndKnown' /\ OneClient'
    <3>1. HeldAndKnown /\ OneClient  BY <2>3 DEF DaemonInv
    <3>2. \A p \in Pid : Held(p) => Held(p)'  BY <1>1, <2>1 DEF Held, Noted
    <3>3. ASSUME NEW p \in Pid, p = new.pid PROVE Held(p)'
      <4>1. map[new.slot].used /\ serves[new.pid] = new.node
        BY <1>1, <2>1, <2>3 DEF DaemonInv, BeingNoted
      <4>2. map'[new.slot].used /\ map'[new.slot].key = serves'[p] /\ ~Noted'
        BY <1>1, <2>1, <3>3, <4>1 DEF Noted
      <4> QED  BY <1>1, <2>1, <3>3, <4>2 DEF Held
    <3>4. HeldAndKnown'  BY <1>1, <2>1, <3>1, <3>2, <3>3 DEF HeldAndKnown, Running
    <3>5. OneClient'  BY <1>1, <3>1 DEF OneClient, Running
    <3> QED  BY <3>4, <3>5
  <2> QED  BY <1>0, <1>1, <2>2, <2>3 DEF DaemonInv
<1> QED  BY <1>2, <1>3

LEMMA HandlerDaemonStep ==
  ASSUME TypeOK, DaemonInv, child_exit_handler
  PROVE  DaemonInv'
<1>0. ReportsInOrder'
  BY OrderStep DEF DaemonInv, Next
<1>1. PICK z \in Zombies : proc' = [proc EXCEPT ![z] = "free"] /\ GiveBack({z})
  BY DEF child_exit_handler
<1>2. /\ UNCHANGED <<plugged, events, serves, daemon, new>>
      /\ interrupted' = interrupted \cup ({daemon} \ {"loop"})
  BY DEF child_exit_handler, devices
<1>3. \A i \in Slots : /\ map[i].pid # z => map'[i] = map[i]
                       /\ map'[i].used => map[i].used
  <2>1. \A i \in Slots : map'[i] = IF map[i].pid = z THEN [map[i] EXCEPT !.used = FALSE] ELSE map[i]
    BY <1>1 DEF GiveBack
  <2>2. \A i \in Slots : map[i] \in Entry  BY DEF TypeOK
  <2> QED  BY <2>1, <2>2 DEF Entry
<1>4. \A p \in Pid : Running(p)' => Running(p) /\ p # z
  BY <1>1 DEF Running, Zombies, TypeOK, ProcessesOK
<1>5. BeingNoted'
  <2>1. Noted => new.slot \in Slots  BY DEF Noted, TypeOK, DaemonOK
  <2> QED  BY <1>2, <1>3, <2>1 DEF DaemonInv, BeingNoted, Noted
<1>6. ASSUME "used" \notin interrupted' PROVE HeldAndKnown' /\ OneClient'
  <2>1. HeldAndKnown /\ OneClient  BY <1>2, <1>6 DEF DaemonInv
  <2>2. \A p \in Pid : p # z /\ Held(p) => Held(p)'  BY <1>2, <1>3 DEF Held, Noted
  <2>3. HeldAndKnown'  BY <1>2, <1>4, <2>1, <2>2 DEF HeldAndKnown
  <2>4. OneClient'  BY <1>2, <1>4, <1>6, <2>1 DEF OneClient
  <2> QED  BY <2>3, <2>4
<1> QED  BY <1>0, <1>5, <1>6 DEF DaemonInv

LEMMA OutsideStep ==
  ASSUME TypeOK, DaemonInv, \/ \E p \in Pid : Ends(p)
                            \/ \E n \in Node : Plug(n) \/ Unplug(n)
                            \/ UNCHANGED vars
  PROVE  DaemonInv'
<1>0. ReportsInOrder'
  BY OrderStep DEF DaemonInv, Next
<1>1. UNCHANGED <<map, serves, daemon, new, interrupted>>
  BY DEF Ends, Plug, Unplug, vars, processes
<1>2. \A p \in Pid : Running(p)' => Running(p)
  BY DEF Ends, Plug, Unplug, vars, processes, Running, TypeOK, ProcessesOK
<1>3. ASSUME NEW m, Known(events, plugged, m) PROVE Known(events', plugged', m)
  <2>1. ASSUME NEW n \in Node, Plug(n) PROVE Known(events', plugged', m)
    <3> DEFINE e == [action |-> "add", node |-> n]
    <3>1. e \in Event /\ e.action = "add" /\ e.node = n  BY DEF Event
    <3>2. events' = Append(events, e) /\ n \notin plugged /\ plugged' = plugged \cup {n}
      BY <2>1 DEF Plug
    <3> HIDE DEF e
    <3> QED  BY <1>3, <3>1, <3>2, KnownAfterAppend DEF TypeOK, DevicesOK
  <2>2. ASSUME NEW n \in Node, Unplug(n) PROVE Known(events', plugged', m)
    <3> DEFINE e == [action |-> "remove", node |-> n]
    <3>1. e \in Event /\ e.action = "remove" /\ e.node = n  BY DEF Event
    <3>2. events' = Append(events, e) /\ n \in plugged /\ plugged' = plugged \ {n}
      BY <2>2 DEF Unplug
    <3> HIDE DEF e
    <3> QED  BY <1>3, <3>1, <3>2, KnownAfterAppend DEF TypeOK, DevicesOK
  <2>3. (\E p \in Pid : Ends(p)) \/ UNCHANGED vars => UNCHANGED <<events, plugged>>
    BY DEF Ends, vars, devices
  <2> QED  BY <1>3, <2>1, <2>2, <2>3
<1>4. BeingNoted'  BY <1>1 DEF DaemonInv, BeingNoted, Noted
<1>5. ASSUME "used" \notin interrupted PROVE HeldAndKnown' /\ OneClient'
  <2>1. HeldAndKnown /\ OneClient  BY <1>5 DEF DaemonInv
  <2>2. \A p \in Pid : Held(p) => Held(p)'  BY <1>1 DEF Held, Noted
  <2>3. HeldAndKnown'  BY <1>1, <1>2, <1>3, <2>1, <2>2 DEF HeldAndKnown
  <2>4. OneClient'  BY <1>1, <1>2, <2>1 DEF OneClient
  <2> QED  BY <2>3, <2>4
<1> QED  BY <1>0, <1>1, <1>4, <1>5 DEF DaemonInv

LEMMA DaemonStep ==
  ASSUME TypeOK, DaemonInv, [Next]_vars
  PROVE  DaemonInv'
BY DropStep, ForkStep, RemoveStep, NoteStep, HandlerDaemonStep, OutsideStep DEF Next, Loop, Receive

LEMMA DaemonAlways == Spec => []DaemonInv
BY TypeCorrect, InitDaemon, DaemonStep, PTL DEF Spec

\* A running client other than the child just being noted is in a slot in use, under its device,
\* unless a signal came between the stores that note a child.
THEOREM ClientsOwned == Spec => []Owned
<1>1. DaemonInv => Owned  BY DEF DaemonInv, HeldAndKnown, Held, Owned
<1> QED  BY <1>1, DaemonAlways, PTL

\* A dongle never has two clients, unless a signal came between the stores that note a child: what
\* udev has reported of a dongle with a running client begins with its removal, which kills that
\* client before a return can start another.
THEOREM ClientUnique == Spec => []OneClient
<1>1. DaemonInv => OneClient  BY DEF DaemonInv, OneClient
<1> QED  BY <1>1, DaemonAlways, PTL

\* When every report has been read only dongles that are plugged in have a running client, with the
\* same exception.
THEOREM ClientsPlugged == Spec => []NoClientLeft
<1>1. DaemonInv => NoClientLeft
  <2> SUFFICES ASSUME DaemonInv, "used" \notin interrupted, events = <<>>, NEW p \in Pid, Running(p)
               PROVE  serves[p] \in plugged
    BY DEF NoClientLeft
  <2>1. Known(<<>>, plugged, serves[p]) /\ DOMAIN <<>> = {}
    BY DEF DaemonInv, HeldAndKnown
  <2> QED  BY <2>1 DEF Known
<1> QED  BY <1>1, DaemonAlways, PTL

-----------------------------------------------------------------------------
(* Whom the daemon kills                                                   *)

LEMMA SlotsStep ==
  ASSUME TypeOK, DaemonInv, SlotsTrue, [Next]_vars
  PROVE  SlotsTrue'
<1> SUFFICES ASSUME interrupted' = {} PROVE SlotsTrue'
  BY DEF SlotsTrue
<1>0. interrupted = {}
  BY DEF Next, Loop, Receive, AddTty, AddOther, Fork, ForkFails, AddFull, Remove, NoteUsed, NotePid,
         child_exit_handler, Ends, Plug, Unplug, vars
<1>1. /\ \A i \in Slots : map[i].used /\ ~(daemon = "used" /\ i = new.slot) =>
           map[i].pid \in Pid /\ proc[map[i].pid] # "free" /\ serves[map[i].pid] = map[i].key
      /\ Noted => proc[new.pid] # "free"
  BY <1>0 DEF SlotsTrue
<1>2. map \in [Slots -> Entry] /\ (Noted => new.slot \in Slots /\ new.pid \in Pid)
  BY DEF TypeOK, DaemonOK, Noted
<1>3. ASSUME NEW n \in Node, AddTty(n) \/ AddOther(n) \/ ForkFails(n) \/ AddFull(n) PROVE SlotsTrue'
  BY <1>1, <1>3 DEF AddTty, AddOther, ForkFails, AddFull, Receives, processes, SlotsTrue, Noted
<1>4. ASSUME NEW n \in Node, Fork(n) PROVE SlotsTrue'
  <2>1. PICK i \in FreeSlot, p \in Pid :
          /\ proc[p] = "free"
          /\ proc' = [proc EXCEPT ![p] = "client"] /\ serves' = [serves EXCEPT ![p] = n]
          /\ new' = [slot |-> i, pid |-> p, node |-> n]
    BY <1>4 DEF Fork
  <2>2. /\ \A q \in Pid : /\ proc'[q] = IF q = p THEN "client" ELSE proc[q]
                          /\ serves'[q] = IF q = p THEN n ELSE serves[q]
        /\ new'.pid = p
    BY <2>1 DEF TypeOK, ProcessesOK
  <2>3. daemon = "loop" /\ daemon' = "forked" /\ map' = map  BY <1>4 DEF Fork, Receives
  <2> QED  BY <1>1, <2>1, <2>2, <2>3 DEF SlotsTrue, Noted
<1>5. ASSUME NEW n \in Node, Remove(n) PROVE SlotsTrue'
  <2>1. daemon = "loop" /\ UNCHANGED <<serves, daemon, new>>  BY <1>5 DEF Remove, Receives
  <2>2. \A q \in Pid : proc[q] # "free" => proc'[q] # "free"  BY <1>5 DEF Remove, Kill
  <2>3. \A i \in Slots : map'[i].used => map'[i] = map[i]
    BY <1>2, <1>5 DEF Remove, Entry
  <2> QED  BY <1>1, <2>1, <2>2, <2>3 DEF SlotsTrue, Noted
<1>6. CASE NoteUsed
  <2>1. /\ daemon = "forked" /\ daemon' = "used" /\ UNCHANGED <<new, proc, serves>>
        /\ \A i \in Slots \ {new.slot} : map'[i] = map[i]
    BY <1>2, <1>6 DEF NoteUsed, processes, Noted
  <2> QED  BY <1>1, <2>1 DEF SlotsTrue, Noted
<1>7. CASE NotePid
  <2>1. /\ daemon = "used" /\ daemon' = "loop" /\ UNCHANGED <<proc, serves>>
        /\ \A i \in Slots \ {new.slot} : map'[i] = map[i]
        /\ map'[new.slot].pid = new.pid /\ map'[new.slot].key = new.node
    BY <1>2, <1>7 DEF NotePid, processes, Noted, Entry
  <2>2. new.pid \in Pid /\ proc[new.pid] # "free" /\ serves[new.pid] = new.node
    BY <1>1, <1>2, <2>1 DEF Noted, DaemonInv, BeingNoted
  <2>3. \A i \in Slots : map'[i].used =>
          map'[i].pid \in Pid /\ proc'[map'[i].pid] # "free" /\ serves'[map'[i].pid] = map'[i].key
    BY <1>1, <2>1, <2>2
  <2> QED  BY <2>1, <2>3 DEF SlotsTrue, Noted
<1>8. CASE child_exit_handler
  <2>1. PICK z \in Zombies : proc' = [proc EXCEPT ![z] = "free"] /\ GiveBack({z})
    BY <1>8 DEF child_exit_handler
  <2>2. daemon = "loop" \/ ~Noted  BY <1>8 DEF child_exit_handler, Noted
  <2>3. ~Noted /\ UNCHANGED <<daemon, new, serves>>
    BY <1>8, <2>2 DEF child_exit_handler, Noted
  <2>4. \A i \in Slots : map'[i].used => map'[i] = map[i] /\ map[i].pid # z
    <3>1. \A i \in Slots : map'[i] = IF map[i].pid = z THEN [map[i] EXCEPT !.used = FALSE] ELSE map[i]
      BY <2>1 DEF GiveBack
    <3> QED  BY <1>2, <3>1 DEF Entry
  <2>5. \A q \in Pid : q # z => proc'[q] = proc[q]
    BY <2>1 DEF TypeOK, ProcessesOK
  <2> QED  BY <1>1, <2>3, <2>4, <2>5 DEF SlotsTrue, Noted
<1>9. CASE (\E p \in Pid : Ends(p)) \/ (\E n \in Node : Plug(n) \/ Unplug(n)) \/ UNCHANGED vars
  <2>1. UNCHANGED <<map, serves, daemon, new>>
    BY <1>9 DEF Ends, Plug, Unplug, vars, processes
  <2>2. \A q \in Pid : proc[q] # "free" => proc'[q] # "free"
    BY <1>9 DEF Ends, Plug, Unplug, vars, processes, TypeOK, ProcessesOK
  <2> QED  BY <1>1, <1>2, <2>1, <2>2 DEF SlotsTrue, Noted
<1> QED  BY <1>3, <1>4, <1>5, <1>6, <1>7, <1>8, <1>9 DEF Next, Loop, Receive

\* The one step that kills is the removal of a device.
LEMMA KillStep ==
  ASSUME TypeOK, SlotsTrue, [Next]_vars, NEW p \in Pid, Running(p), proc'[p] = "killed", interrupted = {}
  PROVE  Head(events) = [action |-> "remove", node |-> serves[p]]
<1>0. proc \in [Pid -> {"free", "client", "killed", "zombie"}] /\ proc[p] = "client"
  BY DEF TypeOK, ProcessesOK, Running
<1>1. ASSUME NEW n \in Node, Remove(n) PROVE Head(events) = [action |-> "remove", node |-> serves[p]]
  <2> DEFINE his == { i \in Slots : map[i].used /\ map[i].key = n }
  <2>1. Kill({ map[i].pid : i \in his }) /\ Receives("remove", n)  BY <1>1 DEF Remove
  <2>2. p \in { map[i].pid : i \in his }  BY <1>0, <2>1 DEF Kill
  <2>3. PICK i \in Slots : map[i].used /\ map[i].key = n /\ map[i].pid = p  BY <2>2
  <2>4. serves[p] = n  BY <2>1, <2>3 DEF SlotsTrue, Receives
  <2> QED  BY <2>1, <2>4 DEF Receives
<1>2. ASSUME NEW n \in Node, Fork(n) PROVE FALSE
  BY <1>0, <1>2 DEF Fork
<1>3. CASE NoteUsed \/ NotePid \/ UNCHANGED vars
           \/ \E n \in Node : AddTty(n) \/ AddOther(n) \/ ForkFails(n) \/ AddFull(n) \/ Plug(n) \/ Unplug(n)
  BY <1>0, <1>3 DEF NoteUsed, NotePid, vars, AddTty, AddOther, ForkFails, AddFull, Plug, Unplug, processes
<1>4. CASE child_exit_handler
  BY <1>0, <1>4 DEF child_exit_handler, Zombies
<1>5. ASSUME NEW q \in Pid, Ends(q) PROVE FALSE
  BY <1>0, <1>5 DEF Ends
<1> QED  BY <1>1, <1>2, <1>3, <1>4, <1>5 DEF Next, Loop, Receive

\* A client is killed only when its own dongle is removed, although process numbers are used again:
\* a slot in use never has a number that has been given to another.
THEOREM KillsOnlyOwn == Spec => KillsOwn
<1>1. TypeOK /\ SlotsTrue /\ [Next]_vars =>
        [\A p \in Pid : Running(p) /\ proc'[p] = "killed" /\ interrupted = {} =>
           Head(events) = [action |-> "remove", node |-> serves[p]]]_vars
  BY KillStep
<1> QED  BY <1>1, TypeCorrect, DaemonAlways, InitDaemon, SlotsStep, PTL DEF Spec, KillsOwn
=============================================================================
