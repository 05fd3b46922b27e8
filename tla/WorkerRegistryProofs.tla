------------------------ MODULE WorkerRegistryProofs ------------------------
(* TLAPS proofs about WorkerRegistry, for every set of dongles, FCGI        *)
(* threads and requests, and every choice of the clients that may leave;    *)
(* and that it implements RequestService.                                   *)
EXTENDS WorkerRegistry, TLAPS

-----------------------------------------------------------------------------
(* Type correctness                                                        *)

\* A thread that goes from one place to the next has a request in hand where it needs one.
LEMMA GotoType ==
  ASSUME ThreadsOK, NEW t \in Thread, NEW from, NEW to \in Place, Goto(t, from, to),
         NEW x \in Request \cup {None}, task' = [task EXCEPT ![t] = x],
         x # None <=> to \in Serving,
         goal' \in [Fcgi -> Goal], \A f \in Fcgi \ {t} : goal'[f] = goal[f],
         t \in Fcgi /\ to \in {"count", "lookup", "push"} => goal'[t] \in Worker
  PROVE  ThreadsOK'
<1>1. pc' = [pc EXCEPT ![t] = to]  BY DEF Goto
<1>2. pc' \in [Thread -> Place]  BY <1>1 DEF ThreadsOK
<1>3. task' \in [Thread -> Request \cup {None}]  BY DEF ThreadsOK
<1>4. \A u \in Thread : task'[u] # None <=> pc'[u] \in Serving  BY <1>1 DEF ThreadsOK
<1>5. \A f \in Fcgi : pc'[f] \in {"count", "lookup", "push"} => goal'[f] \in Worker
  BY <1>1 DEF ThreadsOK, Thread
<1> QED  BY <1>2, <1>3, <1>4, <1>5 DEF ThreadsOK

\* A thread that has given its request away.
LEMMA DoneType ==
  ASSUME ThreadsOK, NEW t \in Thread, NEW from, NEW to \in {"poll", "accept"}, Goto(t, from, to),
         task' = [task EXCEPT ![t] = None], goal' = goal
  PROVE  ThreadsOK'
<1> DEFINE x == None
<1>1. /\ to \in Place /\ x \in Request \cup {None} /\ (x # None <=> to \in Serving)
      /\ to \notin {"count", "lookup", "push"}
  BY DEF Place, Serving
<1>2. task' = [task EXCEPT ![t] = x] /\ goal' \in [Fcgi -> Goal]  BY DEF ThreadsOK
<1> HIDE DEF x
<1> QED  BY <1>1, <1>2, GotoType

\* A worker whose task stays as it is.
LEMMA WorkerGotoType ==
  ASSUME ThreadsOK, NEW w \in Worker, NEW from \in Place, NEW to \in Place, Goto(w, from, to),
         from \in Serving <=> to \in Serving, UNCHANGED <<task, goal>>
  PROVE  ThreadsOK'
<1>1. w \in Thread /\ w \notin Fcgi  BY ThreadAssumption DEF Thread
<1>2. task[w] \in Request \cup {None} /\ task' = [task EXCEPT ![w] = task[w]]
  BY <1>1 DEF ThreadsOK
<1>3. task[w] # None <=> to \in Serving  BY <1>1 DEF ThreadsOK, Goto
<1> QED  BY <1>1, <1>2, <1>3, GotoType DEF ThreadsOK

\* An FCGI thread that has a request in hand and goes on with it.
LEMMA HandlerGotoType ==
  ASSUME ThreadsOK, NEW f \in Fcgi, NEW from \in Serving, NEW to \in Serving, Goto(f, from, to),
         to \in {"count", "lookup", "push"} => goal[f] \in Worker, UNCHANGED <<task, goal>>
  PROVE  ThreadsOK'
<1>1. f \in Thread  BY DEF Thread
<1>2. task[f] \in Request \cup {None} /\ task' = [task EXCEPT ![f] = task[f]]
  BY <1>1 DEF ThreadsOK
<1>3. task[f] # None  BY <1>1 DEF ThreadsOK, Goto
<1> QED  BY <1>1, <1>2, <1>3, GotoType DEF ThreadsOK, Place

\* A queue stays one when a request is taken from it or put on it.
LEMMA QueueType ==
  ASSUME QueuesOK, NEW w \in Worker
  PROVE  /\ queue[w] \in Seq(Request) /\ Len(queue[w]) \in Nat
         /\ queue[w] # <<>> => /\ Head(queue[w]) \in Request
                               /\ queue' = [queue EXCEPT ![w] = Tail(@)] => QueuesOK'
         /\ \A r \in Request : queue' = [queue EXCEPT ![w] = Append(@, r)] => QueuesOK'
<1>1. queue[w] \in Seq(Request) /\ Len(queue[w]) \in Nat  BY DEF QueuesOK
<1>2. ASSUME queue[w] # <<>>
      PROVE  /\ Head(queue[w]) \in Request
             /\ queue' = [queue EXCEPT ![w] = Tail(@)] => QueuesOK'
  <2>1. Head(queue[w]) \in Request /\ Tail(queue[w]) \in Seq(Request)
    BY <1>1, <1>2
  <2> QED  BY <2>1 DEF QueuesOK
<1>3. ASSUME NEW r \in Request, queue' = [queue EXCEPT ![w] = Append(@, r)]
      PROVE  QueuesOK'
  <2>1. Append(queue[w], r) \in Seq(Request)  BY <1>1
  <2> QED  BY <1>3, <2>1 DEF QueuesOK
<1> QED  BY <1>1, <1>2, <1>3

LEMMA PostType ==
  ASSUME HistoryOK, NEW r \in Request, Post(r), UNCHANGED <<accepted, late>>
  PROVE  HistoryOK'
BY DEF HistoryOK, Post

LEMMA InitType == Init => TypeOK
<1> SUFFICES ASSUME Init PROVE TypeOK  OBVIOUS
<1>1. RegistryOK  BY DEF Init, RegistryOK
<1>2. QueuesOK
  <2>1. <<>> \in Seq(Request)  OBVIOUS
  <2> QED  BY <2>1 DEF Init, QueuesOK
<1>3. ThreadsOK  BY ThreadAssumption DEF Init, ThreadsOK, Thread, Place, Serving, Goal
<1>4. HistoryOK  BY DEF Init, HistoryOK
<1> QED  BY <1>1, <1>2, <1>3, <1>4 DEF TypeOK

\* ServerThread and the worker threads.
LEMMA ServeType ==
  ASSUME TypeOK, NEW w \in Worker, Connect(w) \/ Serve(w) \/ ClientEnds(w)
  PROVE  TypeOK'
<1> USE DEF TypeOK
<1>0. w \in Thread /\ w \notin Fcgi  BY ThreadAssumption DEF Thread
<1> USE DEF RegistryOK, dongles, history, threads, Place, Serving
<1>1. CASE Connect(w)
  BY <1>1, WorkerGotoType DEF Connect, QueuesOK, HistoryOK
<1>2. CASE InsertEntry(w)
  BY <1>2, WorkerGotoType DEF InsertEntry, QueuesOK, HistoryOK
<1>3. CASE AssignEntry(w)
  BY <1>3, WorkerGotoType DEF AssignEntry, QueuesOK, HistoryOK
<1>4. CASE PopRequest(w)
  <2>1. Head(queue[w]) \in Request /\ QueuesOK'  BY <1>4, QueueType DEF PopRequest
  <2>2. ThreadsOK'
    BY <1>0, <1>4, <2>1, GotoType, RequestAssumption DEF PopRequest, ThreadsOK
  <2> QED  BY <1>4, <2>1, <2>2 DEF PopRequest, HistoryOK
<1>5. CASE NoRequest(w)
  BY <1>5, WorkerGotoType DEF NoRequest, QueuesOK, HistoryOK
<1>6. CASE Execute(w)
  <2>1. task[w] \in Request  BY <1>0, <1>6 DEF Execute, Goto, ThreadsOK
  <2>2. HistoryOK'  BY <1>6, <2>1, PostType DEF Execute
  <2>3. ThreadsOK'
    <3>1. Goto(w, "execute", "poll") /\ task' = [task EXCEPT ![w] = None] /\ goal' = goal
      BY <1>6 DEF Execute
    <3> QED  BY <1>0, <3>1, DoneType
  <2> QED  BY <1>6, <2>2, <2>3 DEF Execute, QueuesOK
<1>7. CASE PollSocket(w)
  BY <1>7, WorkerGotoType DEF PollSocket, QueuesOK, HistoryOK
<1>8. CASE LeaveLoop(w)
  BY <1>8, WorkerGotoType DEF LeaveLoop, QueuesOK, HistoryOK
<1>9. CASE Remove(w)
  BY <1>9, WorkerGotoType DEF Remove, QueuesOK, HistoryOK
<1>10. CASE Drain(w)
  <2>1. Head(queue[w]) \in Request /\ QueuesOK'  BY <1>10, QueueType DEF Drain
  <2>2. HistoryOK'  BY <1>10, <2>1, PostType DEF Drain
  <2> QED  BY <1>10, <2>1, <2>2 DEF Drain, ThreadsOK
<1>11. CASE Drained(w)
  BY <1>11, WorkerGotoType DEF Drained, QueuesOK, HistoryOK
<1>12. CASE Close(w)
  BY <1>12, WorkerGotoType DEF Close, QueuesOK, HistoryOK
<1>13. CASE ClientEnds(w)
  BY <1>13 DEF ClientEnds, QueuesOK, ThreadsOK, HistoryOK
<1> QED
  BY <1>1, <1>2, <1>3, <1>4, <1>5, <1>6, <1>7, <1>8, <1>9, <1>10, <1>11, <1>12, <1>13 DEF Serve

\* The FCGI threads.
LEMMA HandleType ==
  ASSUME TypeOK, NEW f \in Fcgi, Handle(f)
  PROVE  TypeOK'
<1> USE DEF TypeOK
<1>0. f \in Thread  BY DEF Thread
<1> USE DEF RegistryOK, dongles, history, threads, Place, Serving
<1>1. ASSUME NEW from \in {"reject", "list"}, Done(f, from)
      PROVE  TypeOK'
  <2>1. task[f] \in Request  BY <1>0, <1>1 DEF Done, Goto, ThreadsOK
  <2>2. HistoryOK'  BY <1>1, <2>1, PostType DEF Done
  <2>3. ThreadsOK'
    <3>1. Goto(f, from, "accept") /\ task' = [task EXCEPT ![f] = None] /\ goal' = goal
      BY <1>1 DEF Done
    <3> QED  BY <1>0, <3>1, DoneType
  <2> QED  BY <1>1, <2>2, <2>3 DEF Done, QueuesOK
<1>2. CASE CountEntry(f)
  <2>1. goal[f] \in Worker  BY <1>2 DEF CountEntry, Goto, ThreadsOK
  <2>2. PICK to \in {"reject", "lookup"} : Goto(f, "count", to)  BY <1>2 DEF CountEntry
  <2>3. ThreadsOK'  BY <1>2, <2>1, <2>2, HandlerGotoType DEF CountEntry
  <2> QED  BY <1>2, <2>3 DEF CountEntry, QueuesOK, HistoryOK
<1>3. CASE LookupEntry(f)
  <2>1. goal[f] \in Worker  BY <1>3 DEF LookupEntry, Goto, ThreadsOK
  <2>2. ThreadsOK'  BY <1>3, <2>1, HandlerGotoType DEF LookupEntry
  <2> QED  BY <1>3, <2>2 DEF LookupEntry, QueuesOK, HistoryOK
<1>4. CASE LookupNull(f)
  BY <1>4 DEF LookupNull, QueuesOK, ThreadsOK, HistoryOK
<1>5. ASSUME pc[f] = "push",
             queue' = [queue EXCEPT ![goal[f]] = Append(@, task[f])],
             late' \in {late, late \cup {task[f]}},
             alive, pc' = [pc EXCEPT ![f] = "accept"], task' = [task EXCEPT ![f] = None],
             UNCHANGED <<alive, goal, workers, dongles, accepted, answers>>
      PROVE  TypeOK'
  <2>1. goal[f] \in Worker /\ task[f] \in Request  BY <1>0, <1>5 DEF ThreadsOK
  <2>2. QueuesOK'  BY <1>5, <2>1, QueueType
  <2>3. HistoryOK'  BY <1>5, <2>1 DEF HistoryOK
  <2>4. ThreadsOK'
    <3>1. Goto(f, "push", "accept")  BY <1>5 DEF Goto
    <3> QED  BY <1>0, <1>5, <3>1, DoneType
  <2> QED  BY <1>5, <2>2, <2>3, <2>4
<1>6. CASE Push(f)
  BY <1>5, <1>6 DEF Push, Goto
<1>7. CASE PushFreed(f)
  <2>1. CASE alive' = FALSE /\ UNCHANGED <<queue, threads, late>>
    BY <1>7, <2>1 DEF PushFreed, QueuesOK, ThreadsOK, HistoryOK
  <2> QED  BY <1>5, <1>7, <2>1 DEF PushFreed, Goto
<1> QED
  BY <1>1, <1>2, <1>3, <1>4, <1>6, <1>7 DEF Handle, Reject, ListWorkers

LEMMA AcceptType ==
  ASSUME TypeOK, NEW f \in Fcgi, NEW r \in Request, NEW g \in Goal, AcceptRequest(f, r, g)
  PROVE  TypeOK'
<1> USE DEF TypeOK
<1>0. f \in Thread /\ r # None  BY RequestAssumption DEF Thread
<1> DEFINE to == CASE g = "overview" -> "list" [] g = "malformed" -> "reject" [] OTHER -> "count"
<1>1. Goto(f, "accept", to) /\ task' = [task EXCEPT ![f] = r] /\ goal' = [goal EXCEPT ![f] = g]
  BY DEF AcceptRequest
<1>2. to \in {"list", "reject", "count"} /\ (to = "count" => g \in Worker)  BY DEF Goal
<1> HIDE DEF to
<1>3. /\ goal' \in [Fcgi -> Goal] /\ \A h \in Fcgi \ {f} : goal'[h] = goal[h]
      /\ goal'[f] = g
  BY <1>1 DEF ThreadsOK
<1>4. ThreadsOK'
  BY <1>0, <1>1, <1>2, <1>3, GotoType DEF Place, Serving
<1>5. HistoryOK'  BY DEF AcceptRequest, HistoryOK
<1> QED  BY <1>4, <1>5 DEF AcceptRequest, RegistryOK, QueuesOK, dongles

LEMMA TypeStep == TypeOK /\ [Next]_vars => TypeOK'
<1> SUFFICES ASSUME TypeOK, [Next]_vars PROVE TypeOK'  OBVIOUS
<1>1. CASE RaceCrash \/ ProcessEnds
  BY <1>1 DEF RaceCrash, ProcessEnds, TypeOK, RegistryOK, QueuesOK, ThreadsOK, HistoryOK,
              threads, dongles, history
<1>2. CASE UNCHANGED vars
  BY <1>2 DEF vars, TypeOK, RegistryOK, QueuesOK, ThreadsOK, HistoryOK, threads, dongles, history
<1> QED  BY <1>1, <1>2, ServeType, HandleType, AcceptType DEF Next, Over

\* Every variable keeps its type: whatever is pushed to a queue, or popped from it, is a
\* request, and a thread of the gateway has a request in hand exactly where it needs one.
THEOREM TypeCorrect == Spec => []TypeOK
BY InitType, TypeStep, PTL DEF Spec

-----------------------------------------------------------------------------
(* What a step does to the requests                                        *)

Keeps == UNCHANGED <<task, queue, accepted, answers>>

\* The worker takes the first request of its queue into its hand, ...
Pops(w) ==
  /\ task[w] = None /\ queue[w] # <<>>
  /\ task' = [task EXCEPT ![w] = Head(queue[w])]
  /\ queue' = [queue EXCEPT ![w] = Tail(@)]
  /\ UNCHANGED <<accepted, answers>>

\* ... or answers it right away.
Drains(w) ==
  /\ queue[w] # <<>>
  /\ Post(Head(queue[w]))
  /\ queue' = [queue EXCEPT ![w] = Tail(@)]
  /\ UNCHANGED <<task, accepted>>

\* A thread answers the request in its hand.
Finishes(t) ==
  /\ task[t] \in Request
  /\ Post(task[t])
  /\ task' = [task EXCEPT ![t] = None]
  /\ UNCHANGED <<queue, accepted>>

\* An FCGI thread takes a new request from the web server, ...
Accepts(f, r) ==
  /\ task[f] = None /\ r \notin accepted
  /\ accepted' = accepted \cup {r}
  /\ task' = [task EXCEPT ![f] = r]
  /\ UNCHANGED <<queue, answers>>

\* ... or puts the one in its hand on a queue.
Pushes(f, w) ==
  /\ task[f] \in Request
  /\ queue' = [queue EXCEPT ![w] = Append(@, task[f])]
  /\ task' = [task EXCEPT ![f] = None]
  /\ UNCHANGED <<accepted, answers>>

LEMMA StepKinds ==
  ASSUME TypeOK, [Next]_vars
  PROVE  \/ Keeps
         \/ \E w \in Worker : Pops(w) \/ Drains(w)
         \/ \E t \in Thread : Finishes(t)
         \/ \E f \in Fcgi : \E r \in Request : Accepts(f, r)
         \/ \E f \in Fcgi, w \in Worker : Pushes(f, w)
<1> DEFINE Kinds == \/ Keeps
                    \/ \E w \in Worker : Pops(w) \/ Drains(w)
                    \/ \E t \in Thread : Finishes(t)
                    \/ \E f \in Fcgi : \E r \in Request : Accepts(f, r)
                    \/ \E f \in Fcgi, w \in Worker : Pushes(f, w)
<1> USE DEF history, threads, dongles
<1>0. /\ \A t \in Thread : task[t] \in Request \cup {None} /\ (task[t] # None <=> pc[t] \in Serving)
      /\ \A f \in Fcgi : f \in Thread /\ (pc[f] \in {"count", "lookup", "push"} => goal[f] \in Worker)
      /\ \A w \in Worker : w \in Thread
  BY DEF TypeOK, ThreadsOK, Thread
<1>1. ASSUME NEW w \in Worker, Connect(w) \/ Serve(w) \/ ClientEnds(w) PROVE Kinds
  <2>1. CASE PopRequest(w)
    <3>1. Pops(w)  BY <1>0, <2>1 DEF PopRequest, Goto, Serving, Pops
    <3> QED  BY <3>1
  <2>2. CASE Execute(w)
    <3>1. Finishes(w)  BY <1>0, <2>2 DEF Execute, Goto, Serving, Finishes
    <3> QED  BY <1>0, <3>1
  <2>3. CASE Drain(w)
    <3>1. Drains(w)  BY <2>3 DEF Drain, Drains
    <3> QED  BY <3>1
  <2>4. CASE ~(PopRequest(w) \/ Execute(w) \/ Drain(w))
    <3>1. Keeps
      BY <1>1, <2>4 DEF Connect, Serve, ClientEnds, InsertEntry, AssignEntry, NoRequest, PollSocket,
                        LeaveLoop, Remove, Drained, Close, Keeps
    <3> QED  BY <3>1
  <2> QED  BY <2>1, <2>2, <2>3, <2>4
<1>2. ASSUME NEW f \in Fcgi, Handle(f) PROVE Kinds
  <2>1. CASE Reject(f) \/ ListWorkers(f)
    <3>1. Finishes(f)  BY <1>0, <2>1 DEF Reject, ListWorkers, Done, Goto, Serving, Finishes
    <3> QED  BY <1>0, <3>1
  <2>2. CASE CountEntry(f) \/ LookupEntry(f) \/ LookupNull(f)
    <3>1. Keeps  BY <2>2 DEF CountEntry, LookupEntry, LookupNull, Keeps
    <3> QED  BY <3>1
  <2>3. CASE Push(f) \/ PushFreed(f)
    <3>1. goal[f] \in Worker /\ task[f] \in Request
      BY <1>0, <2>3 DEF Push, PushFreed, Goto, Serving
    <3>2. Keeps \/ Pushes(f, goal[f])
      BY <2>3, <3>1 DEF Push, PushFreed, Pushes, Keeps
    <3> QED  BY <3>1, <3>2
  <2> QED  BY <1>2, <2>1, <2>2, <2>3 DEF Handle
<1>3. ASSUME NEW f \in Fcgi, NEW r \in Request, NEW g \in Goal, AcceptRequest(f, r, g) PROVE Kinds
  <2>1. pc[f] = "accept"  BY <1>3 DEF AcceptRequest, Goto
  <2>2. Accepts(f, r)  BY <1>0, <1>3, <2>1 DEF AcceptRequest, Accepts, Serving
  <2> QED  BY <2>2
<1>4. CASE RaceCrash \/ ProcessEnds \/ UNCHANGED vars
  <2>1. Keeps  BY <1>4 DEF RaceCrash, ProcessEnds, vars, Keeps
  <2> QED  BY <2>1
<1> QED  BY <1>1, <1>2, <1>3, <1>4 DEF Next, Over

-----------------------------------------------------------------------------
(* One owner                                                               *)

\* OneOwner, said of hands and positions: no two hands hold one request, ...
HandsApart ==
  \A s, t \in Thread : task[s] # None /\ task[s] = task[t] => s = t
\* ... no two positions of queues do, ...
QueuesApart ==
  \A v, w \in Worker : \A i \in DOMAIN queue[v], j \in DOMAIN queue[w] :
    queue[v][i] = queue[w][j] => v = w /\ i = j
\* ... and no hand and position.
HandsOffQueues ==
  \A t \in Thread, w \in Worker : \A i \in DOMAIN queue[w] : queue[w][i] # task[t]

\* A request that waits for its answer.
Waits(r) == r \in accepted /\ answers[r] = 0
AllWait ==
  /\ \A t \in Thread : task[t] # None => Waits(task[t])
  /\ \A w \in Worker : \A i \in DOMAIN queue[w] : Waits(queue[w][i])
AnsweredOnce == \A r \in Request : answers[r] <= 1 /\ (answers[r] = 1 => r \in accepted)

Exclusive == HandsApart /\ QueuesApart /\ HandsOffQueues /\ AllWait /\ AnsweredOnce

\* The positions of a queue from which a request is taken, or on which one is put.
LEMMA TailPositions ==
  ASSUME QueuesOK, NEW w \in Worker, queue[w] # <<>>, queue' = [queue EXCEPT ![w] = Tail(@)]
  PROVE  /\ \A v \in Worker \ {w} : queue'[v] = queue[v]
         /\ \A i \in DOMAIN queue'[w] : i \in Nat /\ i + 1 \in DOMAIN queue[w] /\ i + 1 # 1
                                        /\ queue'[w][i] = queue[w][i + 1]
         /\ 1 \in DOMAIN queue[w] /\ Head(queue[w]) = queue[w][1]
<1>1. queue[w] \in Seq(Request)  BY DEF QueuesOK
<1>2. queue'[w] = Tail(queue[w])  BY DEF QueuesOK
<1>3. \A v \in Worker \ {w} : queue'[v] = queue[v]  BY DEF QueuesOK
<1> DEFINE q == queue[w]
<1>4. /\ DOMAIN q = 1 .. Len(q) /\ Len(q) \in Nat \ {0}
      /\ DOMAIN Tail(q) = 1 .. Len(q) - 1
      /\ \A i \in 1 .. Len(q) - 1 : Tail(q)[i] = q[i + 1]
  <2>1. q \in Seq(Request) /\ q # <<>>  BY <1>1
  <2> HIDE DEF q
  <2>2. Len(q) \in Nat \ {0} /\ DOMAIN q = 1 .. Len(q)  BY <2>1
  <2>3. Tail(q) \in Seq(Request) /\ Len(Tail(q)) = Len(q) - 1  BY <2>1
  <2>4. \A i \in 1 .. Len(q) - 1 : Tail(q)[i] = q[i + 1]  BY <2>1
  <2> QED  BY <2>2, <2>3, <2>4
<1>5. Head(queue[w]) = queue[w][1]  BY <1>1
<1>6. 1 \in DOMAIN queue[w]  BY <1>4
<1>7. ASSUME NEW i \in DOMAIN queue'[w]
      PROVE  i \in Nat /\ i + 1 \in DOMAIN queue[w] /\ i + 1 # 1 /\ queue'[w][i] = queue[w][i + 1]
  <2>1. i \in 1 .. Len(q) - 1  BY <1>2, <1>4, <1>7
  <2>2. queue'[w][i] = q[i + 1]  BY <1>2, <1>4, <2>1
  <2>3. i \in Nat /\ i + 1 \in 1 .. Len(q) /\ i + 1 # 1  BY <1>4, <2>1
  <2> QED  BY <1>4, <2>2, <2>3
<1> QED  BY <1>3, <1>5, <1>6, <1>7

LEMMA AppendPositions ==
  ASSUME QueuesOK, NEW w \in Worker, NEW r \in Request, queue' = [queue EXCEPT ![w] = Append(@, r)]
  PROVE  /\ \A v \in Worker \ {w} : queue'[v] = queue[v]
         /\ \A i \in DOMAIN queue'[w] : \/ i \in DOMAIN queue[w] /\ queue'[w][i] = queue[w][i]
                                        \/ i = Len(queue[w]) + 1 /\ queue'[w][i] = r
         /\ Len(queue[w]) + 1 \notin DOMAIN queue[w]
<1>1. queue[w] \in Seq(Request)  BY DEF QueuesOK
<1>2. queue'[w] = Append(queue[w], r)  BY DEF QueuesOK
<1>3. \A v \in Worker \ {w} : queue'[v] = queue[v]  BY DEF QueuesOK
<1> QED  BY <1>1, <1>2, <1>3

LEMMA InitExclusive == Init => Exclusive
<1> SUFFICES ASSUME Init PROVE Exclusive  OBVIOUS
<1>1. \A w \in Worker : DOMAIN queue[w] = {}
  <2>1. DOMAIN <<>> = {}  OBVIOUS
  <2> QED  BY <2>1 DEF Init
<1>2. \A t \in Thread : task[t] = None  BY DEF Init
<1>3. AnsweredOnce  BY DEF Init, AnsweredOnce
<1> QED  BY <1>1, <1>2, <1>3 DEF Exclusive, HandsApart, QueuesApart, HandsOffQueues, AllWait, Init

LEMMA ExclusiveStep ==
  ASSUME TypeOK, Exclusive, [Next]_vars
  PROVE  Exclusive'
<1> USE DEF Exclusive, AllWait, Waits
<1>0. /\ task \in [Thread -> Request \cup {None}] /\ None \notin Request
      /\ QueuesOK /\ \A w \in Worker : w \in Thread /\ \A i \in DOMAIN queue[w] : queue[w][i] \in Request
      /\ \A f \in Fcgi : f \in Thread
      /\ answers \in [Request -> Nat]
  BY RequestAssumption DEF TypeOK, ThreadsOK, QueuesOK, HistoryOK, Thread
<1>1. CASE Keeps
  BY <1>1 DEF Keeps, HandsApart, QueuesApart, HandsOffQueues, AnsweredOnce
<1>2. ASSUME NEW w \in Worker, Pops(w) PROVE Exclusive'
  <2> USE <1>2 DEF Pops
  <2>0. /\ \A v \in Worker \ {w} : queue'[v] = queue[v]
        /\ \A i \in DOMAIN queue'[w] : i \in Nat /\ i + 1 \in DOMAIN queue[w] /\ i + 1 # 1
                                       /\ queue'[w][i] = queue[w][i + 1]
        /\ 1 \in DOMAIN queue[w] /\ Head(queue[w]) = queue[w][1]
    BY <1>0, TailPositions
  <2>1. task'[w] = queue[w][1] /\ \A t \in Thread \ {w} : task'[t] = task[t]
    BY <1>0, TailPositions
  <2>2. HandsApart'
    BY <1>0, <2>1, <2>0 DEF HandsApart, HandsOffQueues
  <2>3. QueuesApart'
    BY <1>0, <2>0 DEF QueuesApart
  <2>4. HandsOffQueues'
    BY <1>0, <2>1, <2>0 DEF QueuesApart, HandsOffQueues
  <2>5. AllWait'
    BY <1>0, <2>1, <2>0
  <2> QED  BY <2>2, <2>3, <2>4, <2>5 DEF AnsweredOnce
<1>3. ASSUME NEW w \in Worker, Drains(w) PROVE Exclusive'
  <2> USE <1>3 DEF Drains
  <2>0. /\ \A v \in Worker \ {w} : queue'[v] = queue[v]
        /\ \A i \in DOMAIN queue'[w] : i \in Nat /\ i + 1 \in DOMAIN queue[w] /\ i + 1 # 1
                                       /\ queue'[w][i] = queue[w][i + 1]
        /\ 1 \in DOMAIN queue[w] /\ Head(queue[w]) = queue[w][1]
    BY <1>0, TailPositions
  <2>1. /\ Head(queue[w]) = queue[w][1] /\ queue[w][1] \in Request
        /\ answers' = [answers EXCEPT ![queue[w][1]] = @ + 1]
    BY <1>0, <2>0 DEF Post
  <2>2. HandsApart'  BY DEF HandsApart
  <2>3. QueuesApart'  BY <1>0, <2>0 DEF QueuesApart
  <2>4. HandsOffQueues'  BY <1>0, <2>0 DEF HandsOffQueues
  <2>5. AllWait'
    BY <1>0, <2>1, <2>0 DEF QueuesApart, HandsOffQueues
  <2>6. AnsweredOnce'
    BY <1>0, <2>1, <2>0 DEF AnsweredOnce
  <2> QED  BY <2>2, <2>3, <2>4, <2>5, <2>6
<1>4. ASSUME NEW t \in Thread, Finishes(t) PROVE Exclusive'
  <2> USE <1>4 DEF Finishes
  <2>1. /\ task'[t] = None /\ \A s \in Thread \ {t} : task'[s] = task[s]
        /\ answers' = [answers EXCEPT ![task[t]] = @ + 1]
    BY <1>0 DEF Post
  <2>2. HandsApart'  BY <1>0, <2>1 DEF HandsApart
  <2>3. QueuesApart'  BY DEF QueuesApart
  <2>4. HandsOffQueues'  BY <1>0, <2>1 DEF HandsOffQueues
  <2>5. AllWait'
    BY <1>0, <2>1 DEF HandsApart, HandsOffQueues
  <2>6. AnsweredOnce'
    BY <1>0, <2>1 DEF AnsweredOnce
  <2> QED  BY <2>2, <2>3, <2>4, <2>5, <2>6
<1>5. ASSUME NEW f \in Fcgi, NEW r \in Request, Accepts(f, r) PROVE Exclusive'
  <2> USE <1>5 DEF Accepts
  <2>1. task'[f] = r /\ \A s \in Thread \ {f} : task'[s] = task[s]
    BY <1>0
  <2>2. HandsApart'  BY <1>0, <2>1 DEF HandsApart
  <2>3. QueuesApart'  BY DEF QueuesApart
  <2>4. HandsOffQueues'  BY <1>0, <2>1 DEF HandsOffQueues
  <2>5. AllWait'
    <3>1. answers[r] = 0  BY <1>0 DEF AnsweredOnce
    <3> QED  BY <1>0, <2>1, <3>1
  <2>6. AnsweredOnce'  BY DEF AnsweredOnce
  <2> QED  BY <2>2, <2>3, <2>4, <2>5, <2>6
<1>6. ASSUME NEW f \in Fcgi, NEW w \in Worker, Pushes(f, w) PROVE Exclusive'
  <2> USE <1>6 DEF Pushes
  <2>1. task'[f] = None /\ \A s \in Thread \ {f} : task'[s] = task[s]
    BY <1>0
  <2>2. HandsApart'  BY <1>0, <2>1 DEF HandsApart
  <2>3. QueuesApart'  BY <1>0, AppendPositions DEF QueuesApart, HandsOffQueues
  <2>4. HandsOffQueues'  BY <1>0, <2>1, AppendPositions DEF HandsApart, HandsOffQueues
  <2>5. AllWait'  BY <1>0, <2>1, AppendPositions
  <2> QED  BY <2>2, <2>3, <2>4, <2>5 DEF AnsweredOnce
<1> QED  BY <1>1, <1>2, <1>3, <1>4, <1>5, <1>6, StepKinds

LEMMA ExclusiveAlways == Spec => []Exclusive
BY TypeCorrect, InitExclusive, ExclusiveStep, PTL DEF Spec

\* Hands and positions are the places of OneOwner.
LEMMA ExclusivePlaces ==
  ASSUME TypeOK, Exclusive
  PROVE  OneOwner
<1> SUFFICES ASSUME NEW r \in Request
             PROVE  /\ \A p, q \in Places(r) : p = q
                    /\ Places(r) # {} => Waits(r)
  BY DEF OneOwner, Exclusive, AnsweredOnce, Waits
<1>1. r # None  BY RequestAssumption
<1>2. \A p \in Places(r) : \/ \E t \in Thread : p = <<t, 0>> /\ task[t] = r
                           \/ \E w \in Worker : \E i \in DOMAIN queue[w] :
                                p = <<w, i>> /\ queue[w][i] = r
  BY DEF Places
<1> QED
  BY <1>1, <1>2 DEF Exclusive, HandsApart, QueuesApart, HandsOffQueues, AllWait, Waits

\* A request is in one place at a time, in the hand of a thread or on a queue, and in none once
\* it has been answered: no interleaving of the threads, not even a push to the queue of a worker
\* that has gone, answers a request twice or touches it after FCGX_Finish_r has freed it.
THEOREM OwnerUnique == Spec => []OneOwner
<1>1. TypeOK /\ Exclusive => OneOwner  BY ExclusivePlaces
<1> QED  BY <1>1, TypeCorrect, ExclusiveAlways, PTL

-----------------------------------------------------------------------------
(* The refinement of RequestService                                        *)

LEMMA ServiceInit == Init => Service!Init
BY DEF Init, Service!Init

LEMMA ServiceStep ==
  ASSUME TypeOK, Exclusive, [Next]_vars
  PROVE  \/ Service!Next
         \/ UNCHANGED <<{r \in accepted : answers[r] = 0}, {r \in Request : answers[r] = 1}>>
<1> DEFINE waiting == {r \in accepted : answers[r] = 0}
           done == {r \in Request : answers[r] = 1}
<1>0. /\ accepted \subseteq Request /\ answers \in [Request -> Nat]
      /\ AnsweredOnce
  BY DEF TypeOK, HistoryOK, Exclusive
<1>1. ASSUME UNCHANGED <<accepted, answers>>
      PROVE  UNCHANGED <<waiting, done>>
  BY <1>1
<1>2. ASSUME NEW r \in Request, Waits(r), Post(r), accepted' = accepted
      PROVE  Service!Answer(r)
  <2>1. \A s \in Request : answers'[s] = IF s = r THEN 1 ELSE answers[s]
    BY <1>0, <1>2 DEF Post, Waits
  <2>2. r \in waiting  BY <1>2 DEF Waits
  <2>3. waiting' = waiting \ {r}  BY <1>0, <1>2, <2>1
  <2>4. done' = done \cup {r}  BY <1>0, <2>1
  <2> QED  BY <2>2, <2>3, <2>4 DEF Service!Answer
<1>3. ASSUME NEW w \in Worker, Drains(w)
      PROVE  \E r \in Request : Service!Answer(r)
  <2>1. /\ QueuesOK /\ Head(queue[w]) \in Request /\ 1 \in DOMAIN queue[w]
        /\ Head(queue[w]) = queue[w][1]
    BY <1>3, QueueType, TailPositions DEF Drains, TypeOK
  <2>2. Waits(Head(queue[w]))  BY <2>1 DEF Exclusive, AllWait
  <2> QED  BY <1>2, <1>3, <2>1, <2>2 DEF Drains
<1>4. ASSUME NEW t \in Thread, Finishes(t)
      PROVE  \E r \in Request : Service!Answer(r)
  <2>1. task[t] \in Request /\ Waits(task[t])
    BY <1>4, RequestAssumption DEF Finishes, Exclusive, AllWait
  <2> QED  BY <1>2, <1>4, <2>1 DEF Finishes
<1>5. ASSUME NEW f \in Fcgi, NEW r \in Request, Accepts(f, r)
      PROVE  Service!Accept(r)
  <2>1. r \notin accepted /\ answers[r] = 0  BY <1>0, <1>5 DEF Accepts, AnsweredOnce
  <2>2. waiting' = waiting \cup {r} /\ done' = done  BY <1>5, <2>1 DEF Accepts
  <2> QED  BY <2>1, <2>2 DEF Service!Accept
<1> QED
  BY <1>1, <1>3, <1>4, <1>5, StepKinds DEF Keeps, Pops, Pushes, Service!Next

\* The threads of the gateway, whatever their interleaving, give what RequestService promises:
\* a request comes in once, waits and is answered at most once, and nothing is answered that has
\* not come in.
THEOREM RegistryImplementsService == Spec => ImplementsService
<1> DEFINE waiting == {r \in accepted : answers[r] = 0}
           done == {r \in Request : answers[r] = 1}
<1>1. TypeOK /\ Exclusive /\ [Next]_vars => [Service!Next]_<<waiting, done>>
  BY ServiceStep
<1> QED
  BY <1>1, ServiceInit, TypeCorrect, ExclusiveAlways, PTL DEF Spec, ImplementsService, Service!Spec

-----------------------------------------------------------------------------
(* What a worker leaves behind                                             *)

\* The entry of a worker in the map is its own only while its loop runs: what is pushed while
\* the entry is found there is pushed before the queue is emptied.
SetMeansServing ==
  \A w \in Worker : workers[w] = "set" => pc[w] \in {"loop", "execute", "poll", "remove"}
Left == SetMeansServing /\ StrandedOnlyLate

\* An entry and what is left behind stay when neither the map nor the places of workers change
\* and what is pushed to a worker that has left counts as late.
LEMMA LeftKept ==
  ASSUME Left, UNCHANGED workers, late \subseteq late',
         \A w \in Worker : /\ pc'[w] = pc[w]
                           /\ pc[w] \in {"close", "gone"} => LeftBehind(w)' \subseteq LeftBehind(w) \cup late'
  PROVE  Left'
BY DEF Left, SetMeansServing, StrandedOnlyLate

\* What a worker has on its queue after a push.
LEMMA PushLeaves ==
  ASSUME QueuesOK, NEW w \in Worker, NEW r \in Request, queue' = [queue EXCEPT ![w] = Append(@, r)]
  PROVE  \A v \in Worker : LeftBehind(v)' \subseteq LeftBehind(v) \cup (IF v = w THEN {r} ELSE {})
BY AppendPositions DEF LeftBehind

LEMMA InitLeft == Init => Left
BY DEF Init, Left, SetMeansServing, StrandedOnlyLate, Thread

\* The workers: the queue of one that leaves is empty, and it changes only where its loop runs.
LEMMA ServeLeft ==
  ASSUME TypeOK, Left, NEW w \in Worker, Connect(w) \/ Serve(w) \/ ClientEnds(w)
  PROVE  Left'
<1> USE DEF Left, SetMeansServing
<1>0. /\ pc \in [Thread -> Place] /\ \A v \in Worker : v \in Thread
      /\ workers \in [Worker -> {"absent", "default", "set"}]
      /\ queue \in [Worker -> Seq(Request)]
  BY DEF TypeOK, ThreadsOK, RegistryOK, QueuesOK, Thread
<1>1. UNCHANGED late
  BY DEF Connect, Serve, InsertEntry, AssignEntry, PopRequest, NoRequest, Execute, PollSocket,
         LeaveLoop, Remove, Drain, Drained, Close, ClientEnds, history
<1>2. SetMeansServing'
  BY <1>0 DEF Connect, Serve, InsertEntry, AssignEntry, PopRequest, NoRequest, Execute, PollSocket,
         LeaveLoop, Remove, Drain, Drained, Close, ClientEnds, Goto, threads
<1>3. \A v \in Worker \ {w} : pc'[v] = pc[v] /\ queue'[v] = queue[v]
  BY <1>0 DEF Connect, Serve, InsertEntry, AssignEntry, PopRequest, NoRequest, Execute, PollSocket,
         LeaveLoop, Remove, Drain, Drained, Close, ClientEnds, Goto, threads
<1>4. pc'[w] \in {"close", "gone"} => \/ queue'[w] = <<>>
                                      \/ pc[w] \in {"close", "gone"} /\ queue'[w] = queue[w]
  BY <1>0 DEF Connect, Serve, InsertEntry, AssignEntry, PopRequest, NoRequest, Execute, PollSocket,
         LeaveLoop, Remove, Drain, Drained, Close, ClientEnds, Goto, threads
<1>5. queue'[w] = <<>> => LeftBehind(w)' = {}
  <2>1. DOMAIN <<>> = {}  OBVIOUS
  <2> QED  BY <2>1 DEF LeftBehind
<1>6. StrandedOnlyLate'
  BY <1>1, <1>3, <1>4, <1>5 DEF StrandedOnlyLate, LeftBehind
<1> QED  BY <1>2, <1>6

\* The handlers: what finds no entry any more is late.
LEMMA HandleLeft ==
  ASSUME TypeOK, Left, NEW f \in Fcgi, Handle(f) \/ \E r \in Request, g \in Goal : AcceptRequest(f, r, g)
  PROVE  Left'
<1>0. /\ pc \in [Thread -> Place] /\ f \in Thread /\ \A v \in Worker : v \in Thread /\ v # f
      /\ workers \in [Worker -> {"absent", "default", "set"}] /\ QueuesOK
  BY ThreadAssumption DEF TypeOK, ThreadsOK, RegistryOK, Thread
<1>1. \A v \in Worker : pc'[v] = pc[v]
  BY <1>0 DEF Handle, Reject, ListWorkers, Done, CountEntry, LookupEntry, LookupNull, Push,
              PushFreed, AcceptRequest, Goto, threads
<1>2. CASE LookupNull(f)
  <2>1. UNCHANGED <<queue, late>> /\ workers' = [workers EXCEPT ![goal[f]] = "default"]
    BY <1>2 DEF LookupNull, history
  <2> QED
    BY <1>0, <1>1, <2>1 DEF Left, SetMeansServing, StrandedOnlyLate, LeftBehind
<1>3. CASE Push(f) \/ PushFreed(f)
  <2>1. goal[f] \in Worker /\ task[f] \in Request
    BY <1>0, <1>3 DEF Push, PushFreed, Goto, TypeOK, ThreadsOK, Serving
  <2>2. UNCHANGED workers /\ late \subseteq late'
    BY <1>3 DEF Push, PushFreed
  <2>3. CASE UNCHANGED queue
    BY <1>1, <2>2, <2>3, LeftKept DEF LeftBehind
  <2>4. CASE queue' = [queue EXCEPT ![goal[f]] = Append(@, task[f])]
    <3>1. pc[goal[f]] \in {"close", "gone"} => task[f] \in late'
      <4>1. pc[goal[f]] \in {"close", "gone"} => workers[goal[f]] # "set"
        BY <2>1 DEF Left, SetMeansServing
      <4> QED  BY <1>3, <2>4, <4>1, <2>1, <1>0 DEF Push, PushFreed, QueuesOK
    <3>2. \A v \in Worker : LeftBehind(v)' \subseteq LeftBehind(v) \cup (IF v = goal[f] THEN {task[f]} ELSE {})
      <4> DEFINE w == goal[f]
                 r == task[f]
      <4>1. w \in Worker /\ r \in Request /\ QueuesOK /\ queue' = [queue EXCEPT ![w] = Append(@, r)]
        BY <1>0, <2>1, <2>4
      <4> HIDE DEF w, r
      <4>2. \A v \in Worker : LeftBehind(v)' \subseteq LeftBehind(v) \cup (IF v = w THEN {r} ELSE {})
        BY <4>1, PushLeaves
      <4> QED  BY <4>2 DEF w, r
    <3>3. \A v \in Worker : pc[v] \in {"close", "gone"} => LeftBehind(v)' \subseteq LeftBehind(v) \cup late'
      BY <3>1, <3>2
    <3> QED  BY <1>1, <2>2, <3>3, LeftKept
  <2> QED  BY <1>3, <2>3, <2>4 DEF Push, PushFreed
<1>4. CASE ~(LookupNull(f) \/ Push(f) \/ PushFreed(f))
  <2>1. UNCHANGED <<workers, queue, late>>
    BY <1>4 DEF Handle, Reject, ListWorkers, Done, CountEntry, LookupEntry, AcceptRequest,
                history
  <2> QED  BY <1>1, <2>1, LeftKept DEF LeftBehind
<1> QED  BY <1>2, <1>3, <1>4

LEMMA LeftStep ==
  ASSUME TypeOK, Left, [Next]_vars
  PROVE  Left'
<1>1. CASE RaceCrash \/ ProcessEnds \/ UNCHANGED vars
  <2>1. UNCHANGED <<workers, queue, pc, late>>
    BY <1>1 DEF RaceCrash, ProcessEnds, vars, threads, history
  <2> QED  BY <2>1, LeftKept DEF LeftBehind
<1> QED  BY <1>1, ServeLeft, HandleLeft DEF Next, Over

\* A worker that has emptied its queue leaves behind only requests that were pushed after it had
\* left the map: as its entry goes first and the queue is emptied after, nothing that a handler
\* pushed by way of the entry is lost.
THEOREM StrandedLate == Spec => []StrandedOnlyLate
<1>1. Left => StrandedOnlyLate  BY DEF Left
<1> QED  BY <1>1, TypeCorrect, InitLeft, LeftStep, PTL DEF Spec
=============================================================================
