--------------------------- MODULE WorkerRegistry ---------------------------
(***************************************************************************)
(* The threads of the gateway application (BLE_GATEWAY.cpp) around the map *)
(* "workers": a BLEWorker thread per dongle enters and removes itself and  *)
(* serves its queue, FCGIWorker threads look workers up and push requests. *)
(* Every function that touches the map declares its lock with defer_lock   *)
(* and never takes it, so all steps on the map interleave, and two that    *)
(* overlap, one of them writing, are a data race.                          *)
(*                                                                         *)
(* The commands of a worker's driver are in BledDriver; here a command is  *)
(* one step that answers its request.                                      *)
(***************************************************************************)
EXTENDS Integers, Sequences

CONSTANTS
  Worker,      \* dongle ids: each connection gets a fresh one (bid++)
  Fcgi,        \* FCGIWorker threads
  Request,     \* HTTP requests
  None,        \* no request
  Leaving      \* the workers whose client may end

ASSUME RequestAssumption == None \notin Request
ASSUME ThreadAssumption == Worker \cap Fcgi = {} /\ Worker \cap {"overview", "malformed"} = {}
ASSUME LeavingAssumption == Leaving \subseteq Worker

VARIABLES
  alive,      \* the process runs
  workers,    \* the map: no entry, a default one (null queue), or that of the worker
  queue,      \* the queue of each worker, a local of its thread
  pc,         \* where each thread is
  task,       \* the request each worker executes, or each FCGI thread handles
  goal,       \* what the request of each FCGI thread is for
  client,     \* the TCP connection of each worker stands
  isConnected,
  accepted, answers,   \* history: requests taken from the web server, answers to each
  late        \* history: requests pushed to a worker that had left the map

threads == <<pc, task, goal>>
dongles == <<client, isConnected>>
history == <<accepted, answers, late>>
vars == <<alive, workers, queue, threads, dongles, history>>

Thread == Worker \cup Fcgi
Goal == Worker \cup {"overview", "malformed"}

Init ==
  /\ alive = TRUE
  /\ workers = [w \in Worker |-> "absent"]
  /\ queue = [w \in Worker |-> <<>>]
  /\ pc = [t \in Thread |-> IF t \in Worker THEN "unborn" ELSE "accept"]
  /\ task = [t \in Thread |-> None]
  /\ goal = [f \in Fcgi |-> "overview"]
  /\ client = [w \in Worker |-> FALSE] /\ isConnected = [w \in Worker |-> FALSE]
  /\ accepted = {} /\ answers = [r \in Request |-> 0] /\ late = {}

Goto(t, from, to) == alive /\ pc[t] = from /\ pc' = [pc EXCEPT ![t] = to]

\* PostHTTPMessage and FCGX_Finish_r.
Post(r) == answers' = [answers EXCEPT ![r] = @ + 1]

-----------------------------------------------------------------------------
(* ServerThread and BLEWorker                                              *)

\* accept: a client connects, its worker is constructed and runs towards AddBLEWorker.
Connect(w) ==
  /\ Goto(w, "unborn", "insert")
  /\ client' = [client EXCEPT ![w] = TRUE]
  /\ isConnected' = [isConnected EXCEPT ![w] = TRUE]
  /\ UNCHANGED <<alive, workers, queue, task, goal, history>>

\* workers[bid] = wt inserts a default entry ...
InsertEntry(w) ==
  /\ Goto(w, "insert", "assign")
  /\ workers' = [workers EXCEPT ![w] = "default"]
  /\ UNCHANGED <<alive, queue, task, goal, dongles, history>>

\* ... and then copies the worker's into it.
AssignEntry(w) ==
  /\ Goto(w, "assign", "loop")
  /\ workers' = [workers EXCEPT ![w] = "set"]
  /\ UNCHANGED <<alive, queue, task, goal, dongles, history>>

\* Take at most one request.
PopRequest(w) ==
  /\ isConnected[w] /\ queue[w] # <<>>
  /\ Goto(w, "loop", "execute")
  /\ task' = [task EXCEPT ![w] = Head(queue[w])]
  /\ queue' = [queue EXCEPT ![w] = Tail(@)]
  /\ UNCHANGED <<alive, workers, goal, dongles, history>>

NoRequest(w) ==
  /\ isConnected[w] /\ queue[w] = <<>>
  /\ Goto(w, "loop", "poll")
  /\ UNCHANGED <<alive, workers, queue, task, goal, dongles, history>>

\* ExecuteWorkRequest; a command that meets the end of the connection remembers it.
Execute(w) ==
  /\ Goto(w, "execute", "poll")
  /\ Post(task[w])
  /\ task' = [task EXCEPT ![w] = None]
  /\ \E noticed \in BOOLEAN :
       /\ noticed => ~client[w]
       /\ isConnected' = [isConnected EXCEPT ![w] = @ /\ ~noticed]
  /\ UNCHANGED <<alive, workers, queue, goal, client, accepted, late>>

\* ProcessTCPMsgFromSocket: with messages left to read the end is noticed later.
PollSocket(w) ==
  /\ Goto(w, "poll", "loop")
  /\ \E noticed \in BOOLEAN :
       /\ noticed => ~client[w]
       /\ isConnected' = [isConnected EXCEPT ![w] = @ /\ ~noticed]
  /\ UNCHANGED <<alive, workers, queue, task, goal, client, history>>

LeaveLoop(w) ==
  /\ ~isConnected[w]
  /\ Goto(w, "loop", "remove")
  /\ UNCHANGED <<alive, workers, queue, task, goal, dongles, history>>

\* Mutant: the queue is given up without being emptied.
RemoveWithoutDrain(w) ==
  /\ Goto(w, "remove", "close")
  /\ workers' = [workers EXCEPT ![w] = "absent"]
  /\ UNCHANGED <<alive, queue, task, goal, dongles, history>>
\* RemoveBLEWorker
Remove(w) ==
  /\ Goto(w, "remove", "drain")
  /\ workers' = [workers EXCEPT ![w] = "absent"]
  /\ UNCHANGED <<alive, queue, task, goal, dongles, history>>

\* Mutant: the request answered last stays on the queue.
DrainPeeks(w) ==
  /\ pc[w] = "drain" /\ alive /\ queue[w] # <<>>
  /\ Post(Head(queue[w]))
  /\ UNCHANGED <<alive, workers, queue, threads, dongles, accepted, late>>
\* Answer what is still on the queue with 404 ...
Drain(w) ==
  /\ pc[w] = "drain" /\ alive /\ queue[w] # <<>>
  /\ Post(Head(queue[w]))
  /\ queue' = [queue EXCEPT ![w] = Tail(@)]
  /\ UNCHANGED <<alive, workers, threads, dongles, accepted, late>>

\* ... until a pop finds it empty.
Drained(w) ==
  /\ queue[w] = <<>>
  /\ Goto(w, "drain", "close")
  /\ UNCHANGED <<alive, workers, queue, task, goal, dongles, history>>

\* The thread ends, and with it the queue object.
Close(w) ==
  /\ Goto(w, "close", "gone")
  /\ UNCHANGED <<alive, workers, queue, task, goal, dongles, history>>

-----------------------------------------------------------------------------
(* FCGIWorker                                                              *)

\* FCGX_Accept_r and the first element of the URI.
AcceptRequest(f, r, g) ==
  /\ r \notin accepted
  /\ Goto(f, "accept", CASE g = "overview" -> "list" [] g = "malformed" -> "reject" [] OTHER -> "count")
  /\ accepted' = accepted \cup {r}
  /\ task' = [task EXCEPT ![f] = r]
  /\ goal' = [goal EXCEPT ![f] = g]
  /\ UNCHANGED <<alive, workers, queue, dongles, answers, late>>

\* Answer the request and go on to the next.
Done(f, from) ==
  /\ Goto(f, from, "accept")
  /\ Post(task[f])
  /\ task' = [task EXCEPT ![f] = None]
  /\ UNCHANGED <<alive, workers, queue, goal, dongles, accepted, late>>

\* A number that is none (400), a worker that is not there (404).
Reject(f) == Done(f, "reject")

\* GetConnectedDongleIDs and its answer.
ListWorkers(f) == Done(f, "list")

\* workers.count(bid)
CountEntry(f) ==
  /\ Goto(f, "count", IF workers[goal[f]] = "absent" THEN "reject" ELSE "lookup")
  /\ UNCHANGED <<alive, workers, queue, task, goal, dongles, history>>

\* workers[bid].workQueue
LookupEntry(f) ==
  /\ Goto(f, "lookup", "push")
  /\ workers[goal[f]] = "set"
  /\ UNCHANGED <<alive, workers, queue, task, goal, dongles, history>>

\* An entry that has gone since the count is inserted again, empty; its queue is a null
\* pointer, like that of an entry not assigned yet.
LookupNull(f) ==
  /\ alive /\ pc[f] = "lookup" /\ workers[goal[f]] # "set"
  /\ workers' = [workers EXCEPT ![goal[f]] = "default"]
  /\ alive' = FALSE
  /\ UNCHANGED <<queue, threads, dongles, history>>

\* Mutant: a request that was pushed is answered all the same.
PushAnswers(f) ==
  LET w == goal[f]
  IN  /\ Goto(f, "push", "reject") /\ pc[w] # "gone"
      /\ queue' = [queue EXCEPT ![w] = Append(@, task[f])]
      /\ late' = IF workers[w] = "set" THEN late ELSE late \cup {task[f]}
      /\ UNCHANGED <<alive, workers, task, goal, dongles, accepted, answers>>
\* Mutant: the thread keeps the request that it has put on the queue.
PushKeeps(f) ==
  LET w == goal[f]
  IN  /\ Goto(f, "push", "accept") /\ pc[w] # "gone"
      /\ queue' = [queue EXCEPT ![w] = Append(@, task[f])]
      /\ late' = IF workers[w] = "set" THEN late ELSE late \cup {task[f]}
      /\ UNCHANGED <<alive, workers, task, goal, dongles, accepted, answers>>
\* push: from here on the request belongs to the worker.  There is always room: WORKER_QUEUE_SZ
\* is what the queue allocates in advance, push allocates more.
Push(f) ==
  LET w == goal[f]
  IN  /\ Goto(f, "push", "accept") /\ pc[w] # "gone"
      /\ queue' = [queue EXCEPT ![w] = Append(@, task[f])]
      /\ late' = IF workers[w] = "set" THEN late ELSE late \cup {task[f]}
      /\ task' = [task EXCEPT ![f] = None]
      /\ UNCHANGED <<alive, workers, goal, dongles, accepted, answers>>

\* push on the queue of a thread that has returned is undefined: the process may die, or the
\* memory still holds a queue that takes the request.
PushFreed(f) ==
  LET w == goal[f]
  IN  /\ alive /\ pc[f] = "push" /\ pc[w] = "gone"
      /\ \/ alive' = FALSE /\ UNCHANGED <<queue, threads, late>>
         \/ /\ Goto(f, "push", "accept")
            /\ queue' = [queue EXCEPT ![w] = Append(@, task[f])]
            /\ late' = late \cup {task[f]}
            /\ task' = [task EXCEPT ![f] = None]
            /\ UNCHANGED <<alive, goal>>
      /\ UNCHANGED <<workers, dongles, accepted, answers>>

-----------------------------------------------------------------------------
(* Data races, the end of clients and of the process                       *)

Writes(t) == \/ pc[t] \in {"insert", "assign", "remove"}
             \/ pc[t] = "lookup" /\ workers[goal[t]] = "absent"
Reads(t) == pc[t] \in {"count", "lookup", "list"} \/ (pc[t] = "loop" /\ isConnected[t])

\* Two threads are in the map at once, one of them changing it.
Race == \E s, t \in Thread : s # t /\ Writes(s) /\ (Writes(t) \/ Reads(t))

\* A race may also crash the process; else it has the outcome of some order of its steps.
RaceCrash ==
  /\ alive /\ Race
  /\ alive' = FALSE
  /\ UNCHANGED <<workers, queue, threads, dongles, history>>

ClientEnds(w) ==
  /\ alive /\ client[w] /\ w \in Leaving
  /\ client' = [client EXCEPT ![w] = FALSE]
  /\ UNCHANGED <<alive, workers, queue, threads, isConnected, history>>

\* SIGINT ends the process, and so does an exception that the driver lets through when the
\* client has gone.
ProcessEnds ==
  /\ alive
  /\ alive' = FALSE
  /\ UNCHANGED <<workers, queue, threads, dongles, history>>

Over == ~alive /\ UNCHANGED vars

Serve(w) == \/ InsertEntry(w) \/ AssignEntry(w) \/ PopRequest(w) \/ NoRequest(w) \/ Execute(w)
            \/ PollSocket(w) \/ LeaveLoop(w) \/ Remove(w) \/ Drain(w) \/ Drained(w) \/ Close(w)
Handle(f) == \/ Reject(f) \/ ListWorkers(f) \/ CountEntry(f) \/ LookupEntry(f) \/ LookupNull(f)
             \/ Push(f) \/ PushFreed(f)

Next == \/ \E w \in Worker : Connect(w) \/ Serve(w) \/ ClientEnds(w)
        \/ \E f \in Fcgi : Handle(f) \/ \E r \in Request, g \in Goal : AcceptRequest(f, r, g)
        \/ RaceCrash \/ ProcessEnds \/ Over

Spec == Init /\ [][Next]_vars

\* Every thread keeps running; requests, clients and the end of clients are owed to nobody.
Fairness == /\ \A w \in Worker : WF_vars(Serve(w))
            /\ \A f \in Fcgi : WF_vars(Handle(f))
FairSpec == Spec /\ Fairness

-----------------------------------------------------------------------------
(* Properties                                                              *)

Serving == {"execute", "count", "lookup", "push", "list", "reject"}
Place == Serving \cup {"unborn", "insert", "assign", "loop", "poll", "remove",
                       "drain", "close", "gone", "accept"}
RegistryOK ==
  /\ alive \in BOOLEAN /\ workers \in [Worker -> {"absent", "default", "set"}]
  /\ client \in [Worker -> BOOLEAN] /\ isConnected \in [Worker -> BOOLEAN]
QueuesOK == queue \in [Worker -> Seq(Request)]
ThreadsOK ==
  /\ pc \in [Thread -> Place]
  /\ task \in [Thread -> Request \cup {None}]
  /\ \A t \in Thread : task[t] # None <=> pc[t] \in Serving
  /\ goal \in [Fcgi -> Goal]
  /\ \A f \in Fcgi : pc[f] \in {"count", "lookup", "push"} => goal[f] \in Worker
HistoryOK == accepted \subseteq Request /\ answers \in [Request -> Nat] /\ late \subseteq Request

\* Every variable keeps its type, a queue holds nothing but requests, and a thread has a request in
\* hand exactly where it will need one.
TypeOK == RegistryOK /\ QueuesOK /\ ThreadsOK /\ HistoryOK

\* Where a request is: in the hands of a thread, or at a position of a queue.
Places(r) == {p \in Thread \X {0} : task[p[1]] = r}
             \cup UNION {{<<w, i>> : i \in {j \in DOMAIN queue[w] : queue[w][j] = r}} : w \in Worker}

\* A request has one owner at a time, an FCGI thread, a queue or a worker, and none once it
\* has been answered: FCGX_Finish_r frees it, so it is never touched or answered again.
OneOwner ==
  \A r \in Request :
    /\ \A p, q \in Places(r) : p = q
    /\ Places(r) # {} => r \in accepted /\ answers[r] = 0
    /\ answers[r] <= 1 /\ (answers[r] = 1 => r \in accepted)

\* A worker that has emptied its queue leaves nothing behind but what was pushed after it had
\* left the map: "first remove from worker list, then finish all requests".
LeftBehind(w) == {queue[w][i] : i \in DOMAIN queue[w]}
StrandedOnlyLate ==
  \A w \in Worker : pc[w] \in {"close", "gone"} => LeftBehind(w) \subseteq late

\* The requests come in, wait and are answered as the abstract service allows: none twice, none
\* without having come in.  A request answered twice is in neither of the two sets.
Service == INSTANCE RequestService
             WITH waiting <- {r \in accepted : answers[r] = 0},
                  done    <- {r \in Request : answers[r] = 1}
ImplementsService == Service!Spec

\* An accepted request is answered, unless the process ends, or its worker had already left
\* the map when it was pushed.
RequestsAnswered ==
  \A r \in Request : r \in accepted ~> answers[r] = 1 \/ ~alive \/ r \in late

\* A worker that ends has answered everything on its queue.
NothingStranded == \A w \in Worker : pc[w] = "gone" => LeftBehind(w) = {}
=============================================================================
