# TLA+ models of the DLMS access point simulator

This directory holds TLA+ models of the simulators and of the Linux platform
layer in `src/src`, the TLC configurations that check them, and proofs about
them for TLAPS. Paths below are relative to `src/src` unless they start with
`src/`.

## The system

Three programs talk over TCP port 4059. A **meter** (`Metersim.cpp`) registers
once with the **head-end system** (`HESsim.cpp`) by sending it `R`, then serves
DLMS/COSEM. Every 1.5 s the head-end either reads each registered meter itself
(Mode 1, "route only") or sends the list of meters to the **Access Point**
(`APsim.cpp`, Mode 2), which reads them and prints the readings. A browser may
change the head-end's settings over a websocket (`websocket/`). All of them sit
on a thin platform layer (`core/`) that adapts asio to the interfaces of the
external DLMS-COSEM library, and the meter's data are COSEM objects (`server/`).

### Components, their state and what makes them correct

| component | state | operations and interaction | what must hold |
|---|---|---|---|
| Access Point, `APsim.cpp` | shared `Config` (size, list, mutex); main()'s copy of the list and its readings; the registration server's socket and one handler | main(): copy list, session per meter, print, `clear()`, sleep. regs(): accept, one read, `interpret()` | a round reads one request's list; sizes come from requests; a request is not lost; silent or broken peers do not stop the server |
| Client sessions, class `APsim`, class `HESsim`, `LinuxSocket.cpp` | one socket in `LinuxIP`'s list, the wrapper's and engine's state, `recent`, the process's `io_service` | constructor, `open`, `Get`, `Action`, `close`, destructor; each sleeps, then polls | a reading belongs to its meter; every session ends, or an unreliable meter ends the process; sockets are reclaimed; a meter that answers is read |
| Head-end, `HESsim.cpp` | global `std::set meters`, registration thread, main thread | accept, insert, blocking `receive()`; iterate and contact, or `multiRead()` | no registration is lost; complete registrations do not end the server; known meters are served |
| Meter, `Metersim.cpp`, server side of `LinuxSocket.cpp` | `reg`; one socket and engine per session | register once; listen; serve one client; start over | it is listening when it is on the list; a waiting client is served or turned away; clients do not see each other's data |
| `LinuxSerial` | port, read timer, stream buffer, list of sockets | asynchronous read with timeout, `Close`, `ReleaseSocket` with a posted removal | no byte lost; a timeout ends its own read; nothing runs on a removed socket |
| `HESConfig` and websocket server | two settings, a mutex only readers take | sessions that load JSON | a pass uses settings somebody sent |
| task runner | websocket sessions | answers with `ifstat` output | one answer per message |
| COSEM objects, `server/` | disconnect control, image transfer, ten data values | get, set, action | states agree with each other and with the documented methods |
| `LinuxSimpleTimer`, `LinuxSynchronization` | end tick and state; a semaphore | start, expire; take, give | correct over the wrap of the tick; mutual exclusion |
| base library, core, scheduler, memory, debug | none of their own | adapters | - |
| harness `Linux.cpp` | four menu pointers, an engine per connection, the sockets of both lists | a menu of connect, request and disconnect choices, posted like any handler | making and using connections is safe in every order, but for what a peer can do; nothing of a removed socket runs |
| dashboard, docker | none | browser code, deployment | - |

The hard behaviours are the interleaving of two threads over one `Config` or one
set; handlers of a session that run in a later session's `poll()`; an
`io_service` that stops when it runs out of work; the order of queued handlers,
timers and posted removals; exceptions that nobody catches; callbacks into deleted
objects; registrations that break off; restarts that forget;
handlers that wait, for a user or for another program, in the only thread.
`PROJECT.json` lists them one by one as hazards, each at its line.

## Modules

| module | models | checked by |
|---|---|---|
| `ReadingService` | abstract: what the Access Point promises to those who submit lists | refinement target |
| `AccessPoint` | both threads of `APsim.cpp` | `MCAccessPoint`, `AccessPoint.cfg`, `AccessPointForgets.cfg` |
| `AccessPointProofs` | theorems about `AccessPoint` | TLAPS |
| `ClientSession` | sessions over `LinuxTCPSocket` on one `io_service` | `MCClientSession`, `ClientSession.cfg` |
| `ClientSessionProofs` | theorems about `ClientSession` | TLAPS |
| `HeadEnd` | `HESsim.cpp` with the meters of `Metersim.cpp` | `MCHeadEnd`, `HeadEnd.cfg`, `HeadEndStops.cfg` |
| `SerialSocket` | one `LinuxSerialSocket` in asio's queue | `SerialSocket.cfg`, `SerialSocketStale.cfg` |
| `SerialSocketProofs` | theorems about `SerialSocket` | TLAPS |
| `HesConfig` | `HESConfig`, its websocket server and the main thread of `HESsim.cpp` | `MCHesConfig`, `HesConfig.cfg` |
| `HesSimProofs` | theorems about `HesConfig` and `HeadEnd` | TLAPS |
| `MeterService` | abstract: what a meter promises its clients | refinement target |
| `MeterServer` | the turns of `Metersim.cpp`, the listening socket, the objects of `server/` | `MCMeterServer`, `MeterServer.cfg` |
| `MeterServerProofs` | theorems about `MeterServer` | TLAPS |
| `DirectRead` | Mode 1 of `HESsim.cpp` together with the turns of its meters | `MCDirectRead`, `DirectRead.cfg` |
| `DirectReadProofs` | theorems about `DirectRead` | TLAPS |
| `Harness` | both menus of `Linux.cpp` over `LinuxTCPSocket` and `LinuxSerialSocket` | `MCHarness`, `Harness.cfg` |
| `HarnessProofs` | theorems about `Harness` | TLAPS |
| `TaskRunner` | `websocket/taskrunner.cpp` | `MCTaskRunner`, `TaskRunner.cfg` |
| `TaskRunnerProofs` | theorems about `TaskRunner` | TLAPS |

Each module also holds a few definitions marked "Fault:" in their comment. They
are plausible wrong versions of the definition that follows them and are not
part of any specification; put in its place, they make a property fail, which
shows that the property looks at that code.

### AccessPoint

`Config` is `payload_size_` and `meters_`. Each method of it holds the mutex for
one copy or swap, so each is one step; the interleaving is between steps. main()
is `CopyMeters`, then `OpenSession` and `ReadMeter` for each meter (the size is
read anew for each, as in the code), `PrintReadings`, `Clear`, `WakeUp`.
`Accept` is the accept handler with `start()`; `HandleRead` is `handle_read` with
`interpret()`. Because the handler is bound to the raw pointer of a connection
that dies with `start()`, what it sees is nondeterministic: the request, or
nothing (the read was aborted, or the freed bytes do not parse). A request that
does not fit into `data_` is cut, perhaps inside a name (`CutName`). Requests
come from head-ends that connect, send or not, and may reset. `log` and `taken`
are history variables: the requests interpreted, and how many there were when
the round began.

### ClientSession

One thread, so a step is either a step of the script or a handler inside
`poll()`. Outside of `poll()` nothing runs: that is why `pc` and `poll` are two
variables. What asio does is modelled from the code's use of it: handlers run
inside `poll()` only; `poll()` without outstanding work stops the service; a
stopped service runs nothing, and the repository never calls `reset()`. A
*reliable* meter accepts, and answers within the 100 ms sleep before each poll
(`SleepIsOver`); other meters refuse, do not resolve, answer late, with an error
or never, close, or reset. The removal of a released socket is posted and runs in the
next session's poll, and so does its aborted read.

Nothing catches what a handler throws, so the process ends (`pc` is `"thrown"`)
on a value that is not the string the engine takes it for (`RunRead`) and on a
connection that was reset after asio had looked at it and before
`remote_endpoint()` does (`RunConnect`). The aborted read of a released socket
calls the wrapper that the engine's destructor has deleted (`RunPosted`); of
that the model takes the outcomes of a build without checks: nothing happens,
the wrapper of the session that is now in its place is told, or the process
ends (`"undefined"`). Because handlers run in the order in which they were queued,
that wrapper has not connected yet, so a session of a reliable meter that goes
on is not harmed (`ReliableReadUntilFailure`).

### HeadEnd

A contact stands for a whole session, of which only the outcome matters here:
a refused connection stops the main thread's `io_service`. The set of meters is
changed by one thread while the other iterates; that is a data race, and the
model lets an iteration that raced with an insertion miss members. The Access
Point's absence makes `multiRead()` throw, which ends the process, and a session
may do so as well (`SessionThrows`; `ClientSession` says how). In the
registration thread a connection that closed or was reset makes `receive()` or
`remote_endpoint()` throw, which ends that thread alone and drops the
connections it held. `lost` is the history of what was dropped, meter by meter,
until the meter connects again, so that the properties excuse no other. The parts of
the specification are called `HeadEndInit`, `HeadEndNext`, `HeadEndSpec` and
`HeadEndTypeOK`, so that one module can have the theorems of both models of
`HESsim.cpp`.

### SerialSocket

The queue of the `io_service` is explicit, and the reactor's turn is an item of
it, as in asio: in its turn it appends the readable descriptor, then the timer.
Only what waits can be cancelled. A read of several bytes is several
`async_read_some` operations; between two of them there is nothing to cancel, so
`TimedReadsEnd` is stated for reads of one or two bytes. A read that is resumed
after the port was closed completes behind the removal, with an error its
handler ignores; so may an expiry, which is not harmless.

### HesConfig

A session of `websocket/server.cpp` is the chain of its handlers: `OnAccept`,
then `OnRead` and `OnWrite` by turns, with an action for each way they fail.
`on_read` only reports an error other than "closed": it goes on to load what
the buffer holds and to write it to the failed stream; the model does the same. A text
loads both settings, the size alone, or neither (`Loaded`): the JSON is no more
than that. `load()` stores without the mutex that the getters hold, so what the
main thread sees is a second copy of the settings, to which the stores are
published one by one at any later time (`Publish`). A pass of the main thread
reads whether to route (`BeginPass`) and then the size (`ReadSize`), once in
Mode 2 and once for each of the `Registered` meters in Mode 1. Sent and echoed texts are kept as history.

### MeterServer

Every turn of `main()` has a new `io_service`, a new listening socket and, in
`Listen`, a new engine with new objects (the one before is leaked, never used
again). The socket accepts once. Clients that come later wait in the kernel's
backlog until the turn ends and its acceptor is destroyed
(`TurnEveryoneAway`). The socket cannot tell a client that has closed from one that is slow, so
requests it sent before are read and answered first; a reset is seen at once.
`remote_endpoint()` throws when the accepted connection was reset while it
waited, and the meter's process is dead. A handler of an object is an operator
from the objects and a request to the objects and an answer. Only what the code
stores is stored: a control mode is acknowledged and dropped, as are blocks of
an image. `AnswersAreOwn` says nothing of the output once a client has set a
mode: that modes are dropped, and that the control state does not follow the
output, are disagreements with the design document (see below), which no property
takes for right.
The meter has registered when the model begins; `HeadEnd` has what
comes before. A client that resets while an answer is on its way, and a dead
meter that somebody starts again, are not distinguished from others. `MeterService` is what this comes to for the clients:
objects of its own for each connection, although there is one engine. Its `objects`
are the engine's for the client that is served and new ones for all others.

### DirectRead

The composition of a head-end in Mode 1 with its meters. `runScript` sends a
service connect and two reads to each meter, one behind the other: `Submit` is
`Action` or `Get`, which polls, and sends only if the association is open by
then; its result says that the request was sent, not that it was answered. One
step of the head-end is a sleep, a poll and what follows from its outcome
(`Polled`); the handlers inside the poll are the subject of `ClientSession`. A
meter is its turn and the queue of its connections, the first of which it
serves; the objects behind it are the subject of `MeterServer`. What only the
composition shows: a session that the head-end has closed may still occupy its
meter when the next pass comes, and a meter that ends a turn takes along those
who wait in its backlog. `result` is that of the pass; `complete` is the
history it is compared with. Because a service connect is skipped when the
association opens late, while the reads that follow are sent, `SuccessMeansAsked`
also says that such a pass fails.

### Harness

The menu is a handler like any other: `RunMenu` starts to read a choice, and the
line that was read is queued as a handler of its own kind, which runs the branch
of that choice. A branch that prompts reads `std::cin` inside its handler, so
`at` holds the choice while nothing else runs, until the user answers (`Answers`)
or the input ends (`EndsPrompt`). The operators on sockets (`OpenTcp`,
`CloseSocket`, `ReleaseTcp`, ...) take the sockets and the queue and return
them, so that a branch is the sequence of its calls. A socket keeps what waits
(`op`), the endpoints that are left to try, and the state of the layers above
it, which belong to the external library: they read when they are connected,
read again after each message, and are down after a close handler. Handlers
that find their socket destroyed are `RunStale`: harmless if they look at
nothing but their arguments. A peer may reset a connection before the handler
that asks for its address has run (`RunBroken`), and may answer a request with a
value of another type (`RunMistyped`); both throw. `m_pClientEngine` is always the engine made last,
because every connect choice makes one; the three other pointers change as in
the code, which is what lets them drift apart. The three pointers with
`parted`, `input` and the handler at the head of the queue decide whether the end
of the process was the user's doing or the peer's.

### TaskRunner

The session automaton of `HesConfig` on one thread that also waits for `ifstat`
(`fetching`): between `OnRead` of `{netstat}` and `Fetched` no handler runs. The
buffer is the sequence of its parts, so an echo, a command that broke off and the
error text can be told apart. `traffic` stands for what `ifstat` would report.
`AnswersFitMessages` says that answers are not mixed up, lost or out of date; what an
answer consists of is taken from `on_read`, with which the comment on its class
disagrees (see below).

## Runs and bounds

| run | instance | distinct states | shows |
|---|---|---|---|
| `access_point` | 3 meters, 3 requests, buffer of 2 names | about 98,000 | all invariants, refinement of `ReadingService`, progress of both threads |
| `ap_forgets` | 2 requests | stops at the violation | `clear()` loses a request |
| `client_session` | 2 meters, 3 sessions, 3 tries | about 72,700 | readings stay with their meter, sockets are reclaimed, sessions end unless an unreliable meter or a stale callback ends the process |
| `head_end` | 2 meters, 2 faults | about 132,000 | no registration lost, only a broken one ends the server, progress |
| `head_end_stops` | 2 meters, no fault | stops at the violation | the same without any fault, at start-up |
| `serial_socket` | 3 reads of 1 to 3 bytes, 4 bytes | about 172,000 | bytes, timeouts and removal in every order |
| `serial_stale_timeout` | 2 reads | stops at the violation | a late expiry aborts the next read |
| `hes_config` | 2 browsers, 3 kinds of message, 2 sent in all, 2 meters | about 252,000 | a pass uses settings somebody sent, in the end the latest; echoes are a client's own messages |
| `meter_server` | 2 clients, 3 connections, 3 requests at a time, 1 reset, 9 kinds of request | about 543,000 | an answer depends on the requests of its own connection alone; those who wait get on; only a reset kills the meter; refinement of `MeterService` |
| `direct_read` | 2 meters, 2 passes, 3 tries, 1 rival connection | about 81,000 | a pass that reports success asked everything; first contacts never stop the service; everyone gets on |
| `harness` | client and server, 2 connections, names of 1 and 2 endpoints | about 1,016,000 | what a released socket leaves in the queue; making connections is safe but for what peers do; later endpoints are tried |
| `task_runner` | 2 dashboards, 2 commands, 3 messages, 1 change of the statistics | about 235,000 | answers fit messages, in order; one client's command only delays others |

Why the bounds are enough. Three requests: one being read, one that arrives
during the round, one more that replaces it. A buffer of two names with a list
of three meters: a list that fits and one that is cut. Three sessions: one that fails,
the one in whose polls its handlers run, and one after. Three tries stand for
400: connected at once, after a failed try, and never. Two meters: one served
while the other registers, each of which can fail, with a second fault after the
first. Three reads: the read whose timer expires, its successor, and one beyond
which no expiry may reach; three bytes are the least for which a timeout can be
missed. Two browsers with two messages: one that is visible by half when the other is
loaded. Three
connections of two clients to a meter: one served, one that waits behind it, and
one to the turn after; three requests are a command of one client, one that
undoes it or another client's, and the question that tells them apart. Two
passes over two meters: a first contact with each, and a second one that finds the session
of the first, or the rival, still there. Two sockets in the harness: one that was failed,
dropped or replaced, and one the pointers moved on to; the next would meet nothing new, since the pointers hold
at most two sockets. Three messages to the task runner: two of one client, the second sent
before the first is answered, and one of another client. The
models cap connections, sessions, faults, reads, bytes, texts and resets by the
named constants `MaxRequests`, `MaxSessions`, `MaxFaults`, `MaxReads`,
`MaxBytes`, `MaxMessages`, `MaxConnections`, `MaxResets`, `MaxPasses`, `MaxRivals`,
`MaxSockets` and `MaxTraffic`;
deadlock is off where such a cap or the end of the process leaves nothing to do
(`ClientSession`, `SerialSocket`, `MeterServer`, `DirectRead`, `Harness`, `TaskRunner`).

### Fairness

Threads and `io_service::run()`/`poll()` loops are weakly fair: the operating
system schedules them and no step of theirs waits for a lock that is held for
long. A meter process is fair in `HeadEnd`. In `ClientSession` the network is
fair only towards a reliable meter; in `SerialSocket` the clock is fair and the
line is not. In `HesConfig` both threads run and a store becomes visible to the
other thread after finite time, as it does on any processor the code runs on. In `MeterServer`
the meter's process runs and a client leaves some day, as both `APsim` and
`HESsim` do (`SessionsEnd`); that it waits for its answers first is not assumed. In `DirectRead` that
departure is what the head-end itself does, and the rival too leaves some day. In
`Harness` handlers run, names resolve or fail, and attempts to connect end. In
`TaskRunner` handlers run, and `ifstat` ends once it was started.
Nothing is assumed of head-ends, unreliable meters, browsers, users or faults.

### Where code and words disagree

The first, the second and the fourth of these have a run whose property states the
words and is violated. Of the others the model does what the code does, and no
property claims that it is right.

- A request that arrives while a round runs is erased by `clear()`
  (`APsim.cpp:603`) although the manual describes it as a request that is read
  (`doc/03_using.md:32`).
- One refused connection stops the `io_service` (`core/LinuxSocket.cpp:167`) and
  with it all reading, although the manual says that every meter is read every
  1.5 seconds (`doc/03_using.md:26`). It needs no fault: a meter registers
  before it listens (`Metersim.cpp:159`). `DirectRead` shows that meters which
  do listen are safe from this at a first contact only (`FirstContactsWork`).
- The same line of the manual speaks of a service connect followed by a read. When
  the association opens late, the service connect is skipped and the reads are
  still sent (`HESsim.cpp:302`); such a pass prints `Failed!`.
- "Got Data, cancel any timeouts" (`core/LinuxSerial.cpp:163`): an expiry that
  is queued is not recalled.
- "Post to allow socket cleanup befor removal" (`core/LinuxSerial.cpp:106`,
  `core/LinuxSocket.cpp:107`): `Close()` of a serial port does not cancel the read
  timer (`core/LinuxSerial.cpp:343`), so an expiry may be queued behind the removal
  and run on the destroyed socket (`ReadsEndBeforeRemoval` says what may not);
  on a TCP socket a connection attempt or a read that was started on the closed
  socket may (`QuietAfterRemoval` says what else may not).
- "ATTR_CONTROL_MODE implemented" (`doc/05_design.md:71`): the store is commented
  out (`server/LinuxDisconnect.cpp:178`) and the answer is success.
- "ATTR_CONTROL_STATE implemented" (`doc/05_design.md:70`): a remote disconnect
  leaves it as it was (`server/LinuxDisconnect.cpp:199`), so it is `CONNECTED`
  while the output is not.
- "Echoes back all received WebSocket messages" (`websocket/taskrunner.h:84`):
  `{netstat}` is taken out of the buffer and only the statistics are sent
  (`websocket/taskrunner.cpp:187`). The websocket server of the head-end, of which
  `websocket/server.h:85` says the same, does echo.
- The comment in `websocket/taskrunner.cpp:190` says which line to uncomment in order to echo a
  faulty command; the command is echoed unless it is uncommented.
- The harness offers a choice V that no branch handles (`RunNothing`).

## Proofs

TLC checks the instances above. The following hold for all values of the
constants that satisfy the named assumptions of their module.

- `AccessPointProofs`: `TypeCorrect`, `RoundIsOneList`, `SizeIsRequested` and
  `QuietRoundLosesNothing` from one inductive invariant, and
  `ServiceIsImplemented`, the safety part of the refinement. The invariant adds
  to the types that `Config` is the latest request, except that its list may
  have been cleared, that the round's copy is the list of request `taken`, and that
  it is still the list in `Config` while no request has come since. Without the
  former nothing could be said of what `CopyMeters` copies; without the latter
  `Clear` could not be related to the round. The assumptions are that requests
  are over the meters and that `BufferNames` is a natural number.
- `ClientSessionProofs`: `ReadingsAreNeverMixed`, because what the engine holds
  is always nothing or its own session's; `SocketsStayFew`, because while the
  service runs every complete poll empties the posted handlers, so at most one
  removal is pending (`SocketInv`); `TypeCorrect` on top of that. `ReliableMetersAreRead` needs to know where a
  session with a reliable meter stands between any two steps (`Progress`): the
  first poll of `open()` resolves, the second connects (`Opening`), and then each
  poll begins with one request under way and ends with its answer read
  (`Exchange`), so that data have come, are coming, or are still to be asked for.
  The io_service goes on because an operation is always in flight. That holds
  while no unreliable meter has been met (`Sound`): a refusal may stop the
  service for all sessions after it. Assumed is that each script reads something,
  and that `open()` tries at least twice: with one try nobody would be read (the
  code has 400).
- `HesSimProofs`, about `HeadEnd`: `HeadEndTypeCorrect`, `NoRegistrationIsLost` and
  `ServerSurvivesRegistrations`, which needs that a connection in the queue broke
  off only if a meter did. The invariant that registrations need speaks of connections
  before they carry a registration: a meter that has connected is on the list or
  has an open connection in the queue, and the one in `receive()` is on the list
  already, because `regs()` inserts first (`OnTheWay`, `Queue`). Assumed is that
  the number of faults is a natural number.
- `SerialSocketProofs`: `TypeCorrect`, `NoByteIsLost`, `LateExpiryIsNear` and
  `RemovalComesLast` from one invariant about the queue: what each handler in it
  says of the state (`Fits`), and which handlers may stand behind which
  (`Before`). That is the real content of the component: an expiry is never
  behind the reactor, nothing that completes a read is behind another, and none
  but one that found the port closed behind a removal. `RemovalComesLast` has a
  second invariant on top of it (`Outstanding`): a read that was begun and not
  told is moving, waits, or has its completion in the queue. Assumed is that reads ask for at least one byte.
- `HesSimProofs`, about `HesConfig`: `TypeCorrect` and `EchoesAreInOrder` from `EchoInv`, which
  keeps the books of each client: what was sent is what was echoed, then what
  the session still holds, then what is on its way. `PassesUseWhatWasSent` from
  `SettingsInv`: what the websocket thread stored, and what the main thread sees
  of it, are the defaults or arrived in some text; the race can only choose
  among these.
- `MeterServerProofs`: `TypeCorrect`, which also says that only a reset
  connection ends the process, `ClientsAreApart` and `ServiceIsImplemented`.
  The invariant relates the objects to the log of the one client that is served
  (`Reflects`): each value is that of the last set that was answered with success, the output
  is connected unless the last of the two services was a disconnect, and the image is
  initiated if it was. While the meter listens its objects are new, and
  clients in the backlog have no answers (`Objects`). Since no set changes the
  control mode, it stays what the constructor made it, and both services always
  work. `ServiceIsImplemented` maps the meter to `MeterService` with the same invariant:
  `Serve` is `Answer`, the end of a turn is `End` of all connections, and `Accept`
  changes nothing there, because `Listen` has made the engine anew. Assumed is
  that requests are of the kinds the model knows.
- `TaskRunnerProofs`: `TypeCorrect` and `AnswersAreFit` from `IInv`, which keeps
  the books of each client: what it asked is what was answered, then what is
  being answered, then what waits in the inbox. `AnswersFitMessages` alone is not
  inductive, since it does not say which message the buffer of a session
  belongs to. When a session fails, or the process dies of an `ifstat` that
  cannot be started, its book is closed: no further answer is appended. Assumed
  is that `{netstat}` is a command and that `Nobody` is not a client.
- `DirectReadProofs`: `SuccessIsEarned` from `ScriptInv`: at each call of
  `runScript`, `result` is still true only if the session has sent exactly the
  requests of the calls before, and the association is open only after an
  answer. What the meters, the rival and the network do never changes what was
  sent, so their steps preserve it. `TypeCorrect` and `FirstPassWorks` need the meters too:
  who may be in a meter's queue (`Queue`), and that in the first pass without a
  rival each meter that is still to be contacted listens with an empty queue,
  while the one being contacted has nobody but this session (`FirstPass`). Meters are
  assumed to be listed once each.
- `HarnessProofs`: `TypeCorrect`, `RemovedSocketsAreQuiet`,
  `ConnectingIsHarmless` and the action property `RequestsGoThroughOwnSocket`
  from one invariant. None of the four is inductive: whether a handler may be
  queued for a destroyed socket depends on what was queued when it was closed, and
  whether a pointer may be followed depends on the removals that are queued. The
  invariant has a part for each socket with its handlers (`WInv`): one
  operation at a time (`OneOperation`); one removal at a time, behind which nothing
  comes that ends a read (`OneRemoval`); attempts to connect only on TCP
  sockets whose layers are down (`AttemptsAreTcp`); what a destroyed socket does
  not do any more (`Gone`); and what only the client or the server does (`Sides`).
  The other parts tie the menu to the sockets: a pointer is null or its
  socket has no removal waiting (`Pointers`); the engine is over the socket of
  `m_pSocket`, or over one on which nothing is under way (`Engine`), which is why
  two pointers that part are harmless for requests; what a choice has checked
  still holds while it prompts, because nothing else runs (`Prompt`); nothing
  is removed before the user parts with something (`Untouched`), so that until then
  only the end of the input and the peer are left to end the process; and the
  menu has one handler (`Menu`). Each operation on sockets and queue
  has a lemma that says what it does to them, so that a branch of the menu
  is proved by citing its calls in their order. Assumed is that names resolve to
  endpoints that accept or refuse. TLC has checked that this invariant holds on the
  instance of the run `harness`.

With that every invariant and every action property of a passing run is a
theorem, and so is the safety part of both refinements. Checked by TLC only:
liveness (`RequestsGetOn`, `SessionsEnd`, `RegistrationsAreServed`,
`TimedReadsEnd`, `MessagesTakeEffect`, `ClientsGetOn`, `EverybodyGetsOn`,
`FallbackWorks`, `MessagesAreAnswered`) and the fairness of the round that
`ReadingService` asks for, which are beyond the prover; and the three
properties that are violated, which a counterexample settles.

## Not modelled

The DLMS-COSEM library and asio, whose source is not here, except as the code
uses them; the contents of readings and the JSON around them; trace output and
what menus print; the dashboard and the containers. In `ClientSession` and
`DirectRead` a meter has one endpoint and resolving does not outlast a sleep;
names with several endpoints are in `Harness`. `DirectRead` leaves out the
exceptions that end a process inside a handler and the callback into a deleted
wrapper, which `ClientSession` and `MeterServer` have; its liveness is that of
programs that do not die so. In `SerialSocket` a user
reads only on an open port, one read at a time, and closes once; ports that
fail to open, and second closes, are in `Harness`. `Harness` has no read
timeouts on serial ports: the library decides when it asks for one. In `HesConfig`
a listener always binds and accepts, and the unused `save` and load from a file
are left out; that a missing Access Point ends the process is in `HeadEnd`. In
`MeterServer` the port can be bound (else the process exits) and parameters of
the image methods decode or are missing. `invokeNetem` of the task runner is
called by nobody. `LinuxSimpleTimer` and `LinuxSynchronization` are used by
nobody in this repository. Writes and synchronous reads of a serial port,
`Flush` and `SetOptions` are called by the library alone. Memory leaks are not visible in the models.

## What could follow

1. A composition of `HeadEnd` and `AccessPoint` for Mode 2, from registration to
   the printed reading, with the reading service as its abstraction.
2. Serial writes, and what a write that fails leaves behind.
3. Liveness, should a later prover reach it: the orderings of handlers that
   the invariants of `SerialSocket` and `Harness` state are what it would rest on.
