# Verification of the IoT BLE gateway

TLA+ models of the gateway in `src/`, TLC runs that check them on small
instances, and TLAPS proofs of the properties that matter most. Each definition
is translated from the source lines that `PROJECT.json` gives under `map`.

## The system

A Linux host carries BLED112 dongles (Bluetooth LE radios on a USB serial
port). HTTP clients reach BLE devices through it:

    udev -> Daemon --fork/exec--> Client (one per dongle)
                                    | serial line (BGAPI)      dongle ~ BLE devices
                                    | TCP (tpl messages)
                                 Application: ServerThread, one BLEWorker thread
                                    | per-worker queues        per client connection
                                 FCGIWorker thread <- nginx <- HTTP

| part | state | operations | hard behaviour | correct when |
|---|---|---|---|---|
| **Driver** `BLEGatewayApplication/BLE_DRIVER.*` | connected and discovered devices, attribute tables, register of waits, `isConnected` | one blocking method per command; a callback per BGAPI message; timeouts of 200 s and 15 s | messages arrive in the middle of any command, late or unasked for; connections end and their handles are reused; the client dies | tables follow the dongle; a command's answer is its own; every command ends |
| **Gateway** `BLE_GATEWAY.*` | map of workers, one queue per worker, the "answered" flag of each request | ServerThread accepts, BLEWorker serves, FCGIWorker pushes and waits; add, remove, drain | the map is used by all threads without its lock being taken | every accepted request is answered exactly once, by a worker that exists |
| **HTTP helper** `HTTP_HELPER.*` | none that lasts | parse URI, query and Accept header; post results | numbers and preferences out of range | each request routed to one command; the best acceptable type chosen |
| **Helpers** `BLE_HELPER.*` | none | hex strings, MAC addresses, integers | odd lengths, bad digits | conversions agree with their inverse |
| **Attribute cache** (in the driver) | value, time stamp of each attribute | fill on discovery and reads, age test | time stamps without a value | a cached answer is a value not older than asked for |
| **Client** `BLEGatewayClient/*` | serial line, TCP socket, abort flag | two threads, one per direction | blocking reads without a timeout, partial reads, one thread failing | messages pass whole and in order; a failure ends the process |
| **Daemon** `BLEGatewayDaemon/ble_daemon.c` | 20 slots of device, pid | udev add: fork and exec a client; remove: kill it; SIGCHLD handler | signals between two steps, several children at once, full table | one client per plugged dongle, slots given back |
| `GATT_SPECIFICATIONS.*` | constant table | code to name | - | - |
| **Protocol** between driver and client | none | pack and unpack each message by a list of its fields | the lists are written twice, in different orders of arguments | each argument arrives where it was meant to |
| tpl, jsoncpp, BGLIB (`tpl.*`, `jsoncpp.cpp`, `cmd_def.*`, `apitypes.h`) | vendored | | | external |


### How the parts interact

The daemon and its clients share nothing but process numbers and signals. A
client and its BLEWorker exchange messages (a 4-byte size, then a tpl image) on
one TCP connection: commands one way, responses and events the other. Only the
worker's own thread reads that connection, while a command waits, or once
between two requests. FCGI threads reach a worker through the map `workers` and
its queue, and pass on the request with its ownership: whoever holds it must
answer and free it (`FCGX_Finish_r`).

## Modules

| module | models | written | composed of |
|---|---|---|---|
| `BledDriver` | one BLEWorker thread inside the driver, its two channels, the dongle behind them | done | `Scripts` |
| `Scripts` | the BGAPI commands and waits of each method of the driver | done | - |
| `BledDriverProofs` | theorems about the driver's state and its table of devices | four theorems | `BledDriver` |
| `BledAnswersProofs` | theorems about its commands, their answers and their devices | six theorems | `BledDriverProofs` |
| `AttributeCache` | the attribute values of one connection handle and their age | done | - |
| `AttributeCacheProofs` | theorems about it | three theorems | `AttributeCache` |
| `Parameters` | the numbers of a request: text, widths, the driver's checks | done | - |
| `Routing` | URI and method to command, Accept header to content type | done | `Parameters` |
| `Messages` | the fields of every message at both ends, its event and its size | done | - |
| `RequestPath` | a request through gateway, driver, protocol, client and dongle, and its answer | done | `Routing`, `Messages`, `Scripts` |
| `RequestPathProofs` | theorems about the checks of the parameters and about the whole path | thirteen theorems | `RequestPath` |
| `RequestService` | what the gateway promises to its HTTP side (abstract) | done | - |
| `WorkerRegistry` | all threads of the gateway around `workers` | done | implements `RequestService` |
| `WorkerRegistryProofs` | theorems about it, and the refinement | four theorems | `WorkerRegistry` |
| `ClientBridge` | the client process | done | - |
| `ClientBridgeProofs` | theorems about it | three theorems | `ClientBridge` |
| `Daemon` | the daemon and its signal handler | done | - |
| `DaemonProofs` | theorems about it | six theorems | `Daemon` |
| `Framing` | how either end of the TCP connection reads a message in pieces | done | - |
| `FramingProofs` | theorems about it | two theorems | `Framing` |
| `MC...` | constants of the instances TLC checks | done | one per module |

### BledDriver

`pc` is the place of the worker thread: `idle` (top of BLEWorker's loop),
`send` and `wait` inside a command, `scan` (Discover's display time), `return`,
`poll` (the one look at the socket per round), `closed`, `dead` (an uncaught
exception or SIGPIPE ended the process). A command is a script (`Scripts`): the
BGAPI commands the method sends and the completion events it then waits for,
one step per `WaitForCompletionEvent`. The locals a method keeps across its
waits are in `call`, above all the connection handle it looked up at its
start. `Receive` is ProcessTCPMsgFromSocket with the callback of the message:
what it does to the device tables, and `Post`, which releases the wait
registered for the event. `eventOccurred` and `errorCode` are the fields of the
wait's stack frame that the register points to.

The dongle is external and known by its interface alone: it answers every
command, in order, possibly with an error, and emits events at any time. A dead
client loses what it had not forwarded.

What is abstracted: the values and their age (an attribute is an identity, and
whether a cached value is young is a free choice; see `AttributeCache`), the
arguments of commands (see `RequestPath`), advertisement payloads, the contents
of dongle information.

### AttributeCache

`attributeMap` is the table of one connection handle: an entry is `known`, has
the second of its `stamp` and a `value`, told apart by the device it came from
and the second at which it came. `ReadAttribute` looks at the entry, which
inserts and stamps it when it is not there (`Looked`), answers from it or goes
through its three exchanges; the callbacks (`AttributeInfoFound`,
`AttributeValue`, ...) stamp, fill and erase entries whenever they come. The
history variable `touched` holds the attributes whose stamp is younger than
their value.

### Parameters, Routing, Messages and RequestPath

The other modules ask who may do what when; these ask what is said. `Parameters`
and `Routing` are functions: the checks of CheckConnectionParameters and
CheckDiscoverParameters one after the other, as each works on what the one
before has left, and the choice of command and content type. `Messages` has each
message twice, once for each end: the types given to `tpl_map` and what each
field is taken from or put into, from BLE_DRIVER.cpp at one end and client.c and
response_callbacks.c at the other. Nothing but these lists makes the two
programs agree. `RequestPath` sends requests through all of it, one after
another: `stage` is where the request is (`arrived` in the FCGI thread,
`worker`, `send`, `wait`, `scanning`, `answered`), `call` the driver's command,
`toClient` and `toDriver` the packed messages, `links` and `procedure` the
dongle. `asked` and `performed` record BGLIB's calls and what the dongle did,
for the properties. Texts are tokens: a number, digits too long for `std::stoi`,
an address, another word. A read may be answered without a command: `ReadAttribute`
compares the `LASTUPDATE` of the request with the seconds of the value's age, here
any number of `Seconds`, as the stamps are those of `AttributeCache`.

To keep the runs small, the concurrency of the other modules is left out here:
one dongle, one request at a time, no wait times out but the one for a
connection (`MayTimeOut`), and no message is cut.

### WorkerRegistry and RequestService

Each thread has a `pc`. The functions on the map are split at every access that
another thread can come between, because their locks are constructed with
`std::defer_lock` and never taken: inserting an entry and setting it are two
steps (`InsertEntry`, `AssignEntry`), a push is `CountEntry`, `LookupEntry`,
`Push`. Overlapping accesses of which one writes are undefined behaviour
(`RaceCrash`, or some order of their steps), as is a push to the queue of a
thread that has returned (`PushFreed`). A queue takes every request: the number
that its constructor gets is only what it sets aside at first. The command itself is one step; what it
answers is in `BledDriver`. `RequestService` accepts and answers requests, each
at most once. `WorkerRegistry` implements it (`Service`, an INSTANCE): a request
is `waiting` when it has been accepted and not been answered, `done` when it has
been answered once, and a second answer would take it out of both.

### ClientBridge

`main`, `command` and `response` are the places of the three threads. A message
is a `header` and a `payload` part that travel separately; `data_b` and `data`
are the stack buffers, which keep their contents, or hold `Garbage`, when a
read that brought nothing goes unnoticed. The history variable `cut` records in
which direction that has happened.

### Daemon

`map` is the table; a process is `client`, `killed` (signalled, not yet ended),
`zombie` or `free`. Fork, the store of `used` and the stores of `pid` and `key`
are three steps; `child_exit_handler` may run before each of them and at the
top of the loop. One pending SIGCHLD stands for any number of ended children.
The history variable `interrupted` records where the handler cut into the
noting of a child.

### Framing

Bytes have an identity, so that the buffer shows where each was stored.
`dataBuffer` is the offset of the loop's pointer; after a partial read it moves
by the bytes that are still missing, as the code does. `torn` records that a
header came in pieces.

## Runs

| run | question | properties | verdict |
|---|---|---|---|
| `driver_links` | any wait may time out, links come and go on two handles | `TypeOK` `RegisterDiscipline` `MirrorsLinks` `OneHandlePerDevice` | hold |
| `driver_requests` | all GATT and GAP commands, two connections, timely responses | `OneAnswer` `OwnProcedure` `ReplyIsForTarget` `WritesReachTarget` `ConnectSound` `GapProcedureOwned` | hold |
| `driver_live` | every command ends; a lost client ends its worker | `CommandsReturn` `LossNoticed` | hold |
| `driver_write_unconfirmed` | a write cut off by a disconnect | `WriteConfirmed` | violated |
| `attribute_cache` | two devices in turn, ages below and above a minute | `TypeOK` `FreshOrExcused` `CacheOfThisDevice` | hold |
| `registry` | two workers, two FCGI threads, requests that share a queue, lost clients | `TypeOK` `OneOwner` `StrandedOnlyLate` `ImplementsService` `RequestsAnswered` | hold |
| `registry_stranded` | a push after the worker's last pop | `NothingStranded` | violated |
| `client` | both directions, ends that vanish anywhere | `TypeOK` `CommandsCarried` `EventsCarried` `ClosedEnds` | hold |
| `daemon` | dongles come and go, signals anywhere | `TypeOK` `Owned` `OneClient` `HandlerNeverBlocks` `KillsOwn` `NoClientLeft` | hold |
| `request_path` | requests of every kind, parameters at and around each limit, a dongle that refuses, fails and loses links | `TypeOK` `ParametersLegal` `ArgumentsArrive` `ChangeReported` `StatusTruthful` `BestAccepted` `HeaderTellsSize` `EveryRequestAnswered` | hold |
| `framing` | payloads in pieces | `TypeOK` `Aligned` | hold |
| `framing_pieces` | a message in pieces | `MessageWhole` | violated |

The violated properties are disagreements between the code and its own
comments; `PROJECT.json` quotes them under `findings`.

### What the properties leave open, because the code does

- `driver_requests` needs its two assumptions. A response later than its 200 s
  passes for the next command's. A connection attempt that is given up after
  15 s may still succeed on the handle of a link lost meanwhile, and a write
  under way goes to that device: handles are looked up once per command.
- A notification releases a read, which then returns the older value.
- `FreshOrExcused` names three excuses. `stamped`: a first look at an attribute,
  or its description, stamps an entry without a value, and a read with
  `lastupdate` then returns the empty entry as young. `minute`: the age is
  `diff.seconds()`, so an hour-old value may pass, and with a `lastupdate` of 60
  or more every value does. The third is the notification above.
- `ArgumentsArrive` is about what 16 bits leave of a number: attribute 65537 is
  attribute 1, and a discovertime of 65536 is none.
- `ChangeReported` is about the numbers that their parameter has room for
  (`Room`). Larger ones are cut or replaced and the answer tells nothing of it:
  a connection interval from 65536 on, address type 257, which goes out as 1,
  a discover mode from 3 on, an `activescan` other than 0 and 1.
- A connection interval of 6 to 21, valid by the text that OPTIONS returns
  (HTTP_HELPER.cpp:168), is replaced, because the lower interval is 16 less.
  The answer tells of it.
- `StatusTruthful`: a read with a `lastupdate` above 0 may be a success without any
  command, also where the cache holds no value (see `FreshOrExcused`). A write or a disconnect that a lost link ends is answered
  with 200, as is a disconnect of a device that is not connected. The responses
  to set_scan_parameters and end_procedure are waited for by nobody.
- `BestAccepted` leaves out entries with a parameter besides q, whose q
  GetQualityParam does not see, and requests that the FCGI thread refuses itself,
  in HTML always: it takes the query for a part of the dongle's number in `/1?x=1`.
- The comment at BLE_GATEWAY.cpp:175, "fixed size, push returns false if full", is
  not what `boost::lockfree::queue` does without `fixed_sized` or a capacity: the
  queue grows, and nothing bounds the requests behind a slow command.
- `StrandedOnlyLate` and `RequestsAnswered` except requests pushed to a worker
  after it left the map. The map itself is accessed by several threads without
  its lock (`Race`), and a lookup between `count` and `operator[]` can enter a
  worker that has left again.
- `CommandsCarried` and `EventsCarried` hold until a payload fails to follow its
  header; then the client acts on what its stack still holds.
- If the response thread of a client fails while the gateway is silent, the
  command thread stays in its read: `ClosedEnds` is about the gateway's end only.
- `Owned`, `OneClient` and `NoClientLeft` hold unless a SIGCHLD falls between
  the stores of `used` and `pid`; `KillsOwn` unless one falls anywhere between
  fork and the last store. The loop sleeps 400 ms per event, so this takes a
  child that ends within microseconds, or an old one that takes long to end.
- `Aligned` needs each header to arrive whole, and `BledDriver` and
  `ClientBridge` send whole messages: `Framing` shows what else would happen.

### Bounds, and why they are enough

- Driver: `ChannelCap` 2 commands under way (the most one method sends before
  it waits), `EventCap` 1 or 2 unread messages when the dongle adds an event or
  time runs out; responses come on top. Two handles and two devices give every
  confusion of handle and device; a third adds only names. Discovery and
  GATT commands run together on both; connection parameters, losses and
  reconnections at any time. Liveness uses one handle, with requests and events
  without end: no counter bounds a run.
- Registry: two requests, so that one waits behind the other in a queue; two FCGI
  threads, which overlap in every function; two workers, so that a request meets
  a map with another entry. The theorems hold for any number of each.
- Client: two different messages each way, so order, loss and repetition show.
  `MaxRetry` 1 covers success at once, after a retry, and giving up.
- Daemon: two slots and three dongles, so the table can be full; two process
  numbers, so that numbers are used again; three plug-ins. A foreign USB tty is
  present from the start; the tty without USB parent ends the daemon.
- Attribute cache: a minute of three seconds with ages 0, 1, 2 and 5 on both
  sides of it, six seconds in all: a value can be younger than asked for, older,
  and a minute older than it seems. Two devices, so that one can follow another.
- Request path: `AllRequests` has a family for each part of the program, with
  every value at its limit and beside it, alone and in the combinations that one
  check decides together. One handle, so that two devices compete for it, and
  what an earlier request has left under way meets the next. `BGAPI_WRITE_PAYLOAD`
  is one byte, so that values are cut; two of an address's bytes tell its order.
  `EventCap` 0: the dongle adds an event of its own when none is unread.
- Framing: header of 4 bytes as in the code, payloads of 1, 2 and 4, three
  messages in any pieces.

Deadlock is not checked for the daemon (it ends on a tty without USB parent) and
for framing (all messages read); every other model must never stop unless its
thread or process has ended.

Symmetry is used over devices, dongles and process numbers, which no definition
tells apart, and in no run with liveness properties.

### Fairness

- `BledDriver`: the worker thread keeps running, its clock runs (a wait that may
  time out does so even if messages keep arriving: the deadline is compared in
  every round of the loop), and the dongle answers commands as long as it is
  connected. Devices, requests and the end of the client are owed to nobody.
- `WorkerRegistry`: weak fairness of every thread's step, as the threads are
  plain pthreads and no step waits for a lock. Requests, clients and the end of
  the process are not fair.
- `ClientBridge`: weak fairness of the three threads; a read without data is not
  enabled, except the serial line's, which has a timeout of 1 s.
- `RequestPath`: weak fairness of the FCGI thread, the worker and the client, of
  the clock that ends a wait or a scan, and of the dongle's answers and the end
  of its procedures, except that a device out of reach need never connect.
- `AttributeCache`, `Daemon` and `Framing` are checked for safety only.

## Proofs

Each theorem holds for every value of the constants that the named assumptions
of its module allow: any sets of handles, devices, requests or processes and
any bound. TLC checked every inductive invariant named here on
the constants of a run before it was proved.

### The driver (`BledDriverProofs`)

- `TypeCorrect`: `TypeOK` is inductive as it stands once it says that a command
  on a connection in `send` or `wait` has a handle of the dongle and a step of
  its script (`CallOK`), which the lemmas about scripts turn into well-formed
  commands and messages.
- `RegisterCorrect`: `RegisterDiscipline`, inductive together with `TypeOK`: a
  wait's entry is removed by whatever sets `eventOccurred`, and a wait that
  ends by its clock posts its own release.
- `MirrorCorrect`: `MirrorsLinks`, inductive together with `TypeOK`. Its two
  parts need each other: that the table agrees where no news is unread, and
  that the last unread message about a connection tells the dongle's state.
- `EntryUnique`: `OneHandlePerDevice` by `EntryInv`. That the table has no
  device twice now says nothing about the table after the next message. So
  `NewsDistinct` says it of every unread message: where one brings a device to
  a handle, each other handle is free of it by then (`FreeBefore`), in the table
  or by an unread message before. `LinksDistinct` says it of the dongle, and
  that it looks for no device it is connected to; it needs `GapAssumption`,
  that no device's address is the name of a state of the GAP procedure.

### Answers and devices (`BledAnswersProofs`)

These theorems are about `driver_requests` and need what that run needs. Both
hypotheses restrict `MayTimeOut`, the waits whose time may run out:

- `ResponsesInTime`: none for a response. BGAPI's responses do not say which
  command they answer, so after a wait of 200 s that was in vain the late
  response passes for the next one.
- `ConnectInTime`: nor the 15 s wait for a new connection. Needed by the last two
  theorems only; without it a connection given up comes to be on a handle that a
  later command has looked up.

The argument goes from the channels to the devices:

1. `AnswerInv`: of the commands whose responses are waited for, one at most is
   under way, as a command or as a response, and then it is the one that the
   driver waits for. Hence `AnswersMatch` (`OneAnswer`).
2. `AcceptedInv`: from the acceptance of a command on, wherever its response is
   (`AcceptedAt`, at a place in the unread messages or already read), what comes
   after that place is the command's own: one connection event at most, and of
   its device; one end of a procedure on its connection. The place is what makes
   this inductive: older events are read before the response. Hence
   `ProceduresMatch` (`OwnProcedure`).
3. `GapInv`: while the dongle's GAP procedure runs, `end_procedure` is under way,
   or an accepted command is, or the driver is at the step that sends
   `end_procedure`. Hence `GapProcedureEnds` (`GapProcedureOwned`).
4. `SoundInv`: a connect that was released without an error has its device in
   the table, by 2. Hence `ConnectTruthful` (`ConnectSound`).
5. `ConnectionInv`: the dongle looks for a device, and unread events report new
   connections, only for the accepted connect that waits for them. Here
   `ConnectInTime` is needed.
6. `Chain`: along the table, the unread news of a handle and the dongle's link,
   the device of a handle changes only to none, except at a new connection.
   With 5, a command on a connection meets the device it was given or none
   (`TargetInv`). Hence `ReplyOfTarget` (`ReplyIsForTarget`) and the action
   property `WriteReachesTarget` (`WritesReachTarget`), for which 1 tells that
   the write which the dongle executes is that of the command under way.

### Attribute cache (`AttributeCacheProofs`)

`CacheInv` adds to `TypeOK` that no stamp is in the future and that an entry not
in `touched` was stamped when its value came (`StampedByValue`): an age computed
from such a stamp is the age of the value, up to the minute that
`diff.seconds()` loses. From it `TypeCorrect`, `CacheFresh` (`FreshOrExcused`),
and `ValuesOfThisDevice` (`CacheOfThisDevice`), which is inductive with `TypeOK`.

### Gateway (`WorkerRegistryProofs`)

- `TypeCorrect`: `TypeOK` is inductive; a thread has a request in hand exactly
  at the places that use one.
- `OwnerUnique`: `OneOwner` by `Exclusive`, which says the same of hands and
  positions in queues, and in addition that what is in one of them waits for its
  answer: without this a request answered before could be answered again.
- `RegistryImplementsService`: `StepKinds` sorts all steps into acceptances,
  answers, emptyings of a queue and those that touch no request; under
  `Exclusive` each is a step of `RequestService` or a stutter.
- `StrandedLate`: `StrandedOnlyLate` by `Left`: a worker whose entry is set in
  the map is in its loop or on its way to remove the entry.

### Client (`ClientBridgeProofs`)

`TypeCorrect`, then for each direction an invariant that places the thread in the
stream it reads (`InStep`): the parts that are unread are those of the messages
sent from the one in hand on, and the buffer holds that message when it is about
to be passed on. From it `CommandsInOrder` (`CommandsCarried`) and
`EventsInOrder` (`EventsCarried`), one lemma per move of a part for both.

### Daemon (`DaemonProofs`)

- `TypeCorrect`, and `HandlerFindsChild` (`HandlerNeverBlocks`), inductive with it.
- `ClientsOwned`, `ClientUnique`, `ClientsPlugged` (`Owned`, `OneClient`,
  `NoClientLeft`) by `DaemonInv`: udev's unread reports of a dongle alternate and
  the last agrees with `plugged`; of a dongle with a running client the first
  unread one is its removal (`Known`), so a second addition never meets a running
  client; and the slot of a running client is not the one being written.
- `KillsOnlyOwn` (`KillsOwn`), an action property, by `SlotsTrue`: a slot in use
  has the number of a child not yet waited for, which the kernel does not use
  again. The exceptions for signals between the stores are the properties' own.

### Framing (`FramingProofs`)

`TypeCorrect`, and `ReaderAligned` (`Aligned`) for payloads of all sizes and all
ways to cut them. What has arrived and what is on its way form one sequence
(`Rest`); `Stretch` says of any such sequence that from each byte on its part
comes whole and is followed by the next part, and `InStep` which byte the reader
is at. `HeadersWhole` is the exception the property makes.

### Requests on their way (`RequestPathProofs`)

First the checks of the driver, for all 16-bit values:

- `ConnectionParametersLegal`: what CheckConnectionParameters leaves is within
  BGAPI's limits. Each check has a lemma that says what it establishes and keeps:
  the interval with 16 units of room, then the timeout, whose repair gives up the
  room but not the limits, then the latency, whose repair sets everything.
- `LegalConnectionKept`: legal parameters with that room are not touched, so a
  client that keeps to the limits gets what it asked for.
- `ScanParametersLegal`: both for CheckDiscoverParameters.

Then all of `RequestPath`, for every set of requests (any numbers, values and
Accept headers, also with any number of entries), devices and handles. The
invariants are stacked; each is inductive given the ones before it:

1. `PathInv` (`PathInvariant`): every value fits. A message under way has the
   fields and widths that the sending end packs, its parameters are legal, and
   the locals of the FCGI thread, of ExecuteWorkRequest and of the driver's
   command fit the stage of the request. The field lists of `Messages` enter
   here: what is unpacked is, field by field, what was packed. Hence
   `PathTypeOK`, `PathParametersLegal`, `PathHeaderTellsSize` and
   `PathBestAccepted`. For the last one the loop of ParseAcceptHeader is unrolled
   into the values that it goes through, and the best entry so far is the
   invariant of the loop: its first failure has a least index.
2. `OursInv` and `ToldInv` (`PathOurs`): what is under way belongs to the request
   in work, or ends a procedure; at most one awaited response is under way, and
   it is the one that the driver waits for; a success tells of what was changed.
   Hence `PathChangeReported` (`ChangeReported`).
3. `LinkInv` and `OnDeviceInv` (`PathLinks`): the dongle's links are what the
   driver's table becomes once it has read all that is unread, and at no point of
   that reading does a device other than the URI's come to the handle that a
   command on a connection has looked up. Hence `PathArgumentsArrive`
   (`ArgumentsArrive`), since the handle in a message then stands for the device.
4. `TruthInv` (`PathStatusTruthful`): `StatusTruthful` compares the end of a
   request with everything that happened to it, so the invariant says it of every
   moment before. `Progress`: what the responses and events under way say of the
   command in work is what has become of it at the dongle, and what the driver
   has noted is what it has read. `LossKnown`: of a link that was lost while it
   was worked on the dongle's record says so, and no loss is under way for one
   that stands. `StepsDone`: the earlier steps of a command were accepted and
   done, otherwise it would not have come to this step.

Two hypotheses restrict `MayTimeOut`, as for the driver; the constants of
`request_path` satisfy both:

- none for 1;
- `ResponsesInTime` for 2 and 3: no wait for a response runs out;
- `OthersInTime` for 4: none but the wait for a new connection does, which the
  code treats as a failed connect. BGAPI's completions do not say which command
  they complete, so a late one passes for that of a later command, whose success
  is then reported before it is done, or its failure though it succeeds.

### Only model-checked

- Liveness (`CommandsReturn`, `LossNoticed`, `RequestsAnswered`, `ClosedEnds`,
  `EveryRequestAnswered`): fairness needs ENABLED, which the provers do not do.
- The three violated properties, of course.

Every invariant and action property that a run finds to hold is proved, most of
them without a hypothesis; where there is one it is named above.

## Not modelled

- Parsing of advertisements and UUIDs, and the copies of link parameters: they
  decide nothing and are only printed. A scan response with an unknown type
  still enters an empty discovered device before its exception
  (BLE_DRIVER.cpp:2033).
- get_status, read_by_type and attribute_found, which have callbacks at both
  ends but are never sent.
- Output (JSON, XML, HTML), texts of answers, logging, the GATT table: no behaviour.
- tpl, jsoncpp, BGLIB, nginx: third-party, seen through their interface. They
  are two thirds of the repository's lines of code; of BLE_DRIVER.cpp,
  BLE_GATEWAY.cpp, BLE_HELPER.cpp and client.c, which hold the program's own
  logic, the models cover about four fifths.
- `start_daemon`, the opening of the serial line, and the signal handler that
  ends the gateway: each happens once, before or after all modelled state.

## Plan

What is left:

1. `BledDriver` and `RequestPath` without `ResponsesInTime`: which properties
   survive a response that comes late, and for which commands.
2. `RequestPath` with two requests in work at two dongles: `WorkerRegistry` shows
   that threads do not exchange requests, the path takes one at a time.
