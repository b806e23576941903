# Homecontrol-Server in TLA+

Specifications of the concurrent core of Homecontrol-Server
(`src/homecontrol/`), the TLC runs that check them on small instances, and
machine-checked proofs of every safety property those runs find to hold: of the
message bus, the serializer, the life of the program, both halves of the TCP
interface, the HTTP requests, the lights, `ScheduleManager`, `TeslaManager`, the
reading of the configuration and the session of Sonos. Paths without a directory are relative
to `src/homecontrol/`.

Contents: [the system](#the-system) · [modules](#modules) ·
[module by module](#module-by-module) · [runs](#runs) · [bounds](#bounds) ·
[fairness](#fairness) · [proofs](#proofs) · [findings](#findings) ·
[seeded faults](#seeded-faults) · [not modelled](#not-modelled) · [plan](#plan)

## The system

The server connects sensors, lights, schedules and remote peers. Every part is
a *manager* plugged into a message bus; `ProgramManager` builds them and then
loops over the router in the main thread.

| Component | State | Operations | Threads that touch it |
|---|---|---|---|
| `Thread` (`Thread.cpp`, `Timer.cpp`, `Queue.h`), one per manager | `m_RxQueue`, `m_TxQueue`, the `Event` (mutex, condition variable), the timer | `SendMessage`, `ReceiveMessage`, `PushMessageToRuntimeHandler`, `TimerCallback`, `HandleNewMessage`, destructor | its handler thread, its timer thread, the main thread, every sender |
| `ThreadManager` | the list of `Thread`s | `ProcessMessages` | main |
| `Subscription` | the vector of (id, runtime) | `Subscribe`, `FindSubscribers` | main; the io thread (through `RemoteManager::receive`) |
| `seriealizeFunctions` (`PrintQueue`, the sends of a connection) | `m_Queue`, `m_Stop`, mutex, condition variable | `run`, destructor, `handler` | its thread, any caller |
| `connection` (`TCPHandler.cpp`) | socket, `m_SendHandler`, `m_SendOperations`, the outstanding read | `sendMessage`, the read handler, destructor | io thread, its send thread, one thread per write |
| `TCPHandlerImpl` (`TCPHandler.cpp`) | `m_Connections`, `m_DisconnectedConnections`, `m_StopFlag`, the coroutine's handle | `accept`, `disconnect`, `cleanupDisconnectedSessions`, `sendToAllConnections`, destructor | io thread, `RemoteManager`'s handler thread, main |
| `HTTPManager` | `m_RequestId`, `m_Map`, `m_RequestTaskQueue` | `get`, `HandleIncomingRequest`, the answer's function, `Callback` | the HTTP library's threads, its handler thread, `SensorManager`'s handler thread |
| `SensorManager` | `m_Sensors` | `Write`, `Read`, `ReadWithDirectAnswer`, `Sensors` | its handler thread |
| `RemoteManager` | two TCP servers | relay a bus message to all peers; put a peer's message on the bus, subscribe for it | its handler thread, io threads |
| `JSONManager`, `SendAndRead` | none; a promise on the stack | a question over the bus with a timeout of a second | io thread, handler threads |
| light managers (`HueManager`, `TelldusCommandLineManager`, `CommandLineManager`) | the lights and their recorded state | `Write`, `Read`, `Lights` messages | their handler threads |
| `ScheduleManager` | `m_Schedules`, each with `m_Handled` | `Callback`: fire the entries of this minute | its handler thread |
| `PresenceManager` | which devices are in range, whether anybody is at home | `Write` of a device, `Read`, `ReadWithDirectAnswer` | its handler thread |
| `TeslaManager`, `OneShotTimer` | `m_State`, `m_Rate`, the timer | `Callback`: one step of the state machine; the timer's function | its handler thread, the timer's thread; not instantiated by `ProgramManager` |
| `OAuth2` (`Oauth2Session`, `OAuth2CodeListener`), `SonosManager` and its clients | the token and when it was received, `m_TaskCompleted`, the listener | authenticate, `GetAccessToken` with its refresh, the two commands | main, the listener's threads, its handler thread; not instantiated by `ProgramManager` |
| `ProgramManager`, `main` | the managers in the order they are built, `m_Run` | construction, `Run`, Ctrl-C, destruction | main, the signal handler |
| `Configuration` | what was read of each section | read once, before the managers | main |
| `Message`, `JsonHelper`, `StringTools`, `Logging` | none | conversions | any |

How they interact: a manager calls `SendMessage`, which puts the message in its
own `m_TxQueue`. The main thread empties the `m_TxQueue`s in turn and pushes
each message to the `m_RxQueue` of every subscriber. The handler thread of the
subscriber wakes up, keeps the mutex of its `Event` *while it drains the queue*
and calls `HandleMessage`, or `Callback` for the `Cmd::Run` message of the
timer. A message can carry a function (`PreParseMsg`), with which `HTTPManager`
moves work from a library thread, or an answer from `SensorManager`'s thread,
to its own. TCP peers and HTTP clients come in over threads of `asio` and of
`cpprestsdk`.

What is hard about it:

- the router blocks on the mutex of every busy manager, and while it does no
  other manager gets anything; managers and library threads block on each other
  in the same way;
- a message passes two queues and three threads, an answer four queues, and
  finds its request by a number only;
- `seriealizeFunctions` notifies after it has released the mutex;
- a connection is destroyed with writes outstanding that hold its address, and
  handles of connections are reused while disconnects that name them wait in a
  queue;
- `m_Connections` and `m_Subscribers` are used by two threads without a lock;
- a reply fails, a peer vanishes, an answer comes after the timeout;
- a `Thread` calls its manager back before the manager is built and after it is
  destroyed, and its timer is joined while it may wait for the same mutex;
- a section of the configuration is unreadable half way, a token expires while
  it is used.

What makes each component correct, and where that is stated:

| Component | Promise | Stated as |
|---|---|---|
| bus | one order for all managers, in the senders' order, each message once, none lost or skipped, and progress | `TotalOrderMulticast`; `AgreedOrder`, `SenderOrder`, `NothingSkipped`, `NothingLost`, `EverythingHandled` |
| life of the program | a destroyed manager that stopped its timer is left alone but for the answers it is owed, any other timer is heard, Ctrl-C ends the program | `SilentAfterStop`, `CalledBackUntilStopped` |
| serializer | first-in first-out, complete before it is gone, no lost wakeup | `FifoExecutor`; `AllCalledBeforeDestroyed`, `EverythingCalled` |
| connection | everything sent before it goes, nothing of it used afterwards, sends and destruction end; whole messages in order (**violated**) | `AllSentBeforeDestruction`, `NoWriteAfterDestruction`, `SendsAndDestructionEnd`, `WholeMessagesInOrder` |
| TCP server | no client thrown out by another one's disconnect, no accepted client dropped, everybody served; a relay reaches all (**violated**) | `HandlesConsistent`, `OnlyClosedErased`, `WaitingIsServed`, `RelayReachesAll` |
| HTTP requests | one reply each, with its own sensor and fresh data, nothing left behind, no deadlock | `OneRightReply`, `Fresh`, `NoEntryForgotten`, `RequestsEnd` |
| lights, presence, questions | the last write wins over one hop or two, a question is answered from the state after its own write | `LampsFollowLastWrite`, `AnswerShowsWrite` |
| schedule | every entry fires once in its minute, every day | `FiresOncePerDay` |
| Tesla | no change of state is lost between the two threads, they keep apart, the car is read again and again | `WaitsForATimer`, `OneThreadAtATime`, `KeepsReading` |
| configuration | a manager gets its whole section or nothing of it | `AllOrNothing` |
| OAuth2, Sonos | a completed authentication leaves a token and its time; the start ends for a user who is asked, commands end | `AuthenticatedMeansToken`, `StartAndCommandsEnd` |

## Modules

```
TotalOrderMulticast      FifoExecutor                what the two base components promise
        ^                     ^                      (refined by)
   MessageBus          SerializeFunctions            the code's queues, mutexes, threads
        ^                     ^                      (proved about in)
 MessageBusProofs   SerializeFunctionsProofs         TLAPS
        ^                     ^                      (instantiated by)
  MCMessageBus       MCSerializeFunctions            TLC

 ProgramManager  construction, main loop and destruction around the Threads
 TcpConnection   uses the serializer as the first-in first-out executor it is shown to be
 TcpServer       the io thread, the coroutine, the sessions, the relay
 HttpRequests    HTTPManager and SensorManager composed with the router between them
 Lights          JSONManager, the light managers, the shell and PresenceManager over the multicast
 ScheduleManager when an entry fires; MCScheduleManager has its instances
 TeslaManager    a state machine and its one-shot timers
 Configuration   the readers of the configuration file, as functions
 SonosManager    extends Configuration: the session, its listener and the commands; MCSonosManager has its files
```

`TcpConnectionProofs`, `TcpServerProofs`, `HttpRequestsProofs`, `LightsProofs`
and `SonosManagerProofs` (with `Configuration`) have the theorems about the
module they are named after; `ManagersProofs` has those about `ScheduleManager`,
`TeslaManager` and `ProgramManager` and extends all three, which is why the names
they would have in common carry the manager's (`TeslaInit`, `ProgramSpec`).

Modules without an MC module need none: their constants are model values and
numbers, given by their cfg files.

`HttpRequests`, `Lights`, `TcpConnection` and `SonosManager` are compositions. They do not repeat the
steps of the bus and of the serializer they do not need: `TcpConnection` has the
serializer as one queue of functions (`FifoSpec` is why it may), `HttpRequests`
has only the two runtimes that take part, keeps their mutexes and takes one
step of the router per message. `Lights` has the bus as the multicast it is shown
to be: `Route` takes a message from a sending queue and gives it to all its
subscribers in one step (`MulticastSpec` is why it may).

## Module by module

### MessageBus

| TLA+ | Code |
|---|---|
| `rx`, `tx` | `m_RxQueue`, `m_TxQueue` of each `Thread` |
| `handler` | whether `HandleNewMessage` holds the `Event` mutex (`draining`) or waits |
| `subscribers` | `Subscription::m_Subscribers` |
| `cursor`, `todo` | the two loops of `ThreadManager::ProcessMessages`: the `Thread` in turn, the subscribers still to be pushed to |
| `log`, `handled`, `sent` | history, read by no guard |
| `SendMessage`, `Subscribe`, `TimerCallback` | the environment: managers, remote peers, timers |
| `WakeHandler`, `HandleNewMessage`, `QueueDrained` | a handler thread |
| `ReceiveMessage`, `PushMessageToRuntimeHandler`, `NextThread` | the main thread |

`Queue::Push` and `Pop` have a mutex of their own and are atomic. The handler
holds the `Event` mutex from its wakeup to the empty queue, so a push is one step
that waits for `handler = "waiting"`. `Subscribe` and `FindSubscribers` are
atomic in the model although the vector has no lock; see
[not modelled](#not-modelled).

### ProgramManager

| TLA+ | Code |
|---|---|
| `main`, `at` | where the main thread is: `RegisterRuntime` inside a constructor's initializer list, the rest of it, the loop of `Run`, a destructor of a manager, `~ThreadManager` |
| `m_Run`, `CtrlC` | `ProgramManager::m_Run`, `ConsoleHandler` (under `_WIN32`; elsewhere the signal ends the process where it stands, and there is no destruction to speak of) |
| `rx`, `handler`, `ending` | the receive queue of each `Thread`, where its handler stands, `Thread::m_Run` |
| `timer`, `m_StopThread` | the timer's thread and its flag |
| `get`, `ServerOpen` | a thread of the HTTP library in `HTTPManager::get`, while `HTTPServer` is there |
| `Answer` | `SensorManager`'s handler, in the function that came with a read, which pushes into `HTTPManager`'s queue |

A queue is filled by the manager's own timer, by main (the router, `~Thread`), and
past the bus by the two direct pushes of `HTTPManager.cpp:64` and
`HTTPManager.cpp:132`: `Readers` is `HTTPManager`, `Answerers` is `SensorManager`.

The managers are members of `ProgramManager` behind the `ThreadManager`: they are
built one after the other, each of them starts a handler and a timer before its
other members exist, and they are destroyed in reverse order while all the
`Thread`s live on. Only some destructors call `Stop` (`StopsTimer`), which joins
the timer's thread. `SilentAfterStop` says what that is good for, and what it
is not: `HTTPManager` goes before `SensorManager` (`ProgramManager.h:44-47`), which
may still have a read of it in its queue, or in its hands, and answers it with a
function that uses members of the destroyed `HTTPManager`. So no timer, no message
and no request reaches the queue any more (the router has stopped, `HTTPServer`
has closed before), but an answer to every read that is left does, and no new
reads come. A call on a manager that is not yet built (`UsesLater`) or no longer there may crash or may
not (`Crash`, `Return`). The first `~Thread` terminates the program, because its
handler's thread is not joined (`Terminate`). `CalledBackUntilStopped` is about
the waits in between: main waits for the mutex of handlers and for timers that
wait for the same mutex.

### SerializeFunctions

`run` is two steps, the push under the mutex and the notification after it.
`Sleep` releases the mutex and sleeps in one step, which is what a condition
variable does; `SpuriousWakeup` may wake the thread without a notification. The
destructor pushes the function that sets `m_Stop` and then joins. Its
precondition, that no other thread is inside `run`, is the language's. The
functions themselves are opaque: a pair of caller and number.

### TcpConnection

The owner sends and destroys, the send thread launches writes and reaps futures,
every write runs in a thread of its own and puts `Chunks` pieces on the wire,
the peer may go away. `m_SendOperations` is a queue of messages, a future is
ready when the write of its message is `done`. The wait of a microsecond in
`sendMessage` either finds the future ready (`Reap`) or gives up (`ReapDone`).
The order of destruction is that of the members: the send handler (which joins
its thread), the futures (a future of `std::async` waits), then the socket.

### TcpServer

One thread runs the coroutine and the read handlers, so a read handler runs only
where the coroutine is suspended: before it starts, in the `post` of the loop
that waits for a free slot, or in `async_accept` (`Suspended`). `handle` is the
coroutine's local variable, `callback[c]` the handle bound into the disconnect
callback of a client, `disconnected` the queue of handles to be cleaned up.
`sendToAllConnections` runs in another thread (`relay`, `missed`); when the map
changed under its iterator (`torn`) its next step may end at any later
connection or at the end, which are the benign outcomes of the race. A client
that `vanished` ends its read with an error that is neither end of file nor
reset: the code then neither reads on nor disconnects. `Run` covers the start:
`m_Handler` is started in the initializer list, before the coroutine is spawned.

### HttpRequests

A request's way: a library thread in `get` waits for `HTTPManager`'s mutex and
pushes a function; that registers the request under a number and sends a read
over the bus; `SensorManager`'s thread answers by pushing another function from
*its own* thread, holding its own mutex and waiting for `HTTPManager`'s; that
function replies and queues the reply's task; `Callback` (timer) waits for the
tasks, holding the mutex, until one fails or none is left. `Measurement` is a
`Write` from a peer through the same router. Every wait for a mutex is a guard
on the thread that may hold it, so a circle of waits would be a state in which
nothing moves. `since` records what `SensorManager` held when the request came.

### Lights

| TLA+ | Code |
|---|---|
| `tx`, `rx` | `m_TxQueue`, `m_RxQueue` of the managers that take part |
| `recorded` | `m_State` of every `Light` |
| `lamp` | the lamp itself, as the bridge or `tdtool` left it |
| `inRange`, `atHome` | `m_SomeOneAtHome`, `m_AtLeastOneAtHome` |
| `question`, `stage`, `answer` | a call of `JSONManager`, in a thread of its own, and the promise it waits for |
| `lastWrite`, `failed`, `handled`, `lastTaken` | history, read by no guard |
| `receive`, `HandleLightSwitches`, `TelldusCallback` | peers, the schedule, the five-minute timer |
| `setLightState`, `setBTDevPresent`, `get`, `SendAndRead`, `TimeOut` | `JSONManager` and the helper it asks with |
| `SetLamp`, `SetTelldusLight`, `ReadLight`, `AnswerLight`, `AnswerLights`, `ReadSensors`, `RunCommand`, `RunList`, `isAtLeastSomeoneAtHome`, `ReadPresence`, `AnswerPresence` | the branches of the `HandleMessage`s |

`UpdateState` records a state only when `SetLightState` returns true. The bridge
may take the request, refuse it, or take it and its answer is lost; of the last
two nothing is recorded. A Telldus light is switched over a second hop: a command
for `CommandLineManager`, which `tdtool` may fail unnoticed; and
`SetLightState` returns whether the light is *to be on*
(`TelldusCommandLineManager.cpp:193`), so that "off" is never recorded.

The function that answers a question refers to the frame of the thread that
asked. After the timeout that frame is gone, and calling it is undefined: in
`Answer` it does nothing, sets the promise of another question of the same type
that waits now, or ruins the program. `AnswerShowsWrite` speaks of the answers
that were meant for their question; with `stray` answers included it fails. No
request reaches `RESTApi`, and through it `JSONManager`, as `HTTPManager` is
written at this commit; the questions are modelled as `RESTApi` would ask them.

### ScheduleManager

`now` counts minutes, `polls` the callbacks in this minute, at least one and at
most `PollsPerMinute`: the timer's period is half a minute and `Callback` only
queues messages. `fired` is history. `IsDue` compares the hour of the day with
the hour of the entry plus the offset, without wrapping
(`ScheduleManager.cpp:57`): an entry the offset moves over midnight never fires.
`FiresOncePerDay` leaves those out by name and fails without that.

### TeslaManager

| TLA+ | Code |
|---|---|
| `m_State`, `m_Rate` | the members of that name |
| `m_OneShotTimer` | the latest timer: what its function does, how far its thread is, how often it has tried to wake the car |
| `replaced` | the timer before it, while the assignment joins its thread |
| `callback` | where the runtime's thread is: between two calls, in a read, in the join |
| `driving` | the `static` of `isCarDriving` |

A new timer is running before the old one is joined, and the old one is joined
before `m_State` is set (`Arm`, then `Joined`). `WaitsForATimer` is what could go
wrong here: a timer that has run by the time `m_State` is overwritten leaves the
machine waiting for good. It holds because a timer is armed only in states the
old one's function has set, as its last act, and because the period of the new
one is longer than the join (`PeriodPassed`). With a configured period of 0 it
would not. `WaitsForATimer` is also why `OneThreadAtATime` holds, although the
connection has no lock. What the timer's function throws is caught by nobody
(`TimerThrows`); `KeepsReading` excuses the end of the program by name.

### Configuration

A reader is a function from a section of the file to what the manager is given.
A section is `Nothing`, or has the fields whose value has the right type, those
of them that are blank, and the entries of its array; what the fields say is left
out. `AsGiven` and `ReadLoop` throw where `as_string`, `as_integer` or a missing
`optional` do, and `OrEmpty` is the `catch (...)` that falls back to an empty
configuration. `AllOrNothing` compares the result with `Whole` and `ShowsAll`,
which know nothing of exceptions: half a section never reaches a manager.
`ReadRemoteManagerConfiguration` is the only reader that does not ask whether its
section is there, and may crash without it (`Configuration.cpp:210`).

### SonosManager

| TLA+ | Code |
|---|---|
| `configuration` | `m_Configuration`; the first step reads the file |
| `main` | the constructors of `Configuration`, `Oauth2Session` and `SonosManager`; `asking` and `waiting` are both `Authorize().get()` |
| `listening`, `redirect`, `completed` | `OAuth2CodeListener`: `m_Listener`, the requests in work, `m_TaskCompleted` |
| `token`, `received` | `m_Config.token()` (what matters of it, `expires_in`), `m_ReceivedToken` |
| `now` | `std::chrono::steady_clock` |
| `handler` | `HandleMessage` down to `GetAccessToken` and `SendPost` |

`TokenFromRedirectedUri` stores the token, `TokenReceived` the time and completes
the authentication: two steps in the listener's threads that main and the handler
see one by one. `m_Resplock` is released before the request for the token ends,
so that several redirects may be in work (`Redirects`). A refresh replaces the
token only (`RefreshToken`), so that `AccessTokenExpired` goes on comparing with
the first one's time. `expires_in` is undefined, -1, for a token from the file,
and for one whose server does not say (`Issued`); the time a token from the file
was received is 0: `AccessTokenExpired` is true for it and the first command
refreshes it. A failed request ends a command (`CommandOver`), but in the
listener only an error of the token server does (`TokenRefused`); any other
exception there ends the program (`TokenServerFails`).

`StartAndCommandsEnd` is two statements with their limits in their names.
`Authorize` opens a browser under `_WIN32` and does nothing elsewhere
(`OAuth2.cpp:23`), where the address to visit is not logged either; which of the
two is left open (`OpenBrowserForAuthentication`). A user who is asked (`main` is
`"asking"`) gets the constructor to its end, if the listener could be opened
(`OAuth2.cpp:79` swallows that it could not); where nobody is asked (`"waiting"`)
main may wait for good, and with it the program. And a command ends, unless it
reaches the recursive call of `GetAccessToken` with a token it has just refreshed
and that counts as expired already (`FreshButExpired`): the time it is measured
from is that of the first token, or the server did not say how long it lasts.
Without any of these limits the property fails.

### TotalOrderMulticast and FifoExecutor

The two abstract specifications, without queues in transit, locks or threads.
`MessageBus` implements the first with `outbox <- tx`; a push, a wakeup, the
router's progress are stuttering. `SerializeFunctions` implements the second
with `pending <- handlerQueue \o queue`.

## Runs

| Run | Checks | Shows |
|---|---|---|
| `bus` | types, the four orders of the bus, `MulticastSpec`, `EverythingHandled` | two runtimes that send two messages each, timers that fire in between, a remote peer that subscribes at any moment; the bus implements the multicast, and under fair threads everything is handled although the router blocks |
| `serializer` | types, `AllCalledBeforeDestroyed`, `FifoSpec`, `EverythingCalled` | three callers with two functions each, and a destruction at any moment the language allows |
| `tcp_connection` | types, `NoWriteAfterDestruction`, `AllSentBeforeDestruction`, `SendsAndDestructionEnd` | three messages of two pieces, sent, destroyed and cut off at any moment |
| `tcp_wire` | `WholeMessagesInOrder` (violated) | finding 1 |
| `tcp_sessions` | types, `HandlesConsistent`, `OnlyClosedErased`, `WaitingIsServed` | three clients over two handles: handles wrap around and are reused, and the server is full |
| `tcp_relay` | `RelayReachesAll` (violated) | finding 2 |
| `http` | types, `OneRightReply`, `Fresh`, `NoEntryForgotten`, `RequestsEnd` | two requests with any query, a measurement, failing replies |
| `lights` | types, `LampsFollowLastWrite`, `AnswerShowsWrite` | a light at the bridge and one at the shell, two questions that write, read, time out, and an input from a peer, the schedule or the timer at any moment |
| `schedule` | types, `FiresOncePerDay` | two entries at any times, offsets from two hours behind to one ahead, two days and a bit |
| `tesla` | types, `WaitsForATimer`, `OneThreadAtATime`, `KeepsReading` | a car that sleeps, wakes, drives, charges, or does not answer, in any order |
| `program` | types, `SilentAfterStop`, `CalledBackUntilStopped` | two managers, one that stops its timer, is called by the HTTP library and reads from the other, which does not stop its timer and is destroyed after it; from the first constructor to the end of the program |
| `sonos` | types, `AllOrNothing`, `AuthenticatedMeansToken`, `StartAndCommandsEnd` | every file with one section, field, array or entry missing, then redirects, refreshes, commands and failures in any order |

Deadlock checking is off in all of them because all of them may stop: messages,
functions, clients and requests are bounded, an object is destroyed, a server is
stopped. That nothing stops too early is what the liveness properties say.

### Bounds

| Constant | Value | Why it is enough |
|---|---|---|
| `N`, `Ids` | 2, 1 | disagreement about an order needs two receivers and two messages; both runtimes subscribe to `light`, so the router pushes to the sender it took from as well. A second id would only leave receivers out. The proofs cover every number |
| `MaxSent` | 2 | two messages of one sender can overtake each other, and two in a queue can be dropped together |
| `MaxTicks` | 1 | timer messages waiting in one queue at a time, not in all: the timer goes on firing |
| `M`, `StopsTimer`, `UsesLater`, `Readers`, `Answerers` | 2, {2}, {2}, {2}, {1} | the second is `HTTPManager`, with the members of `TelldusCommandLineManager` that its callback uses too early; the first is `SensorManager`, which answers, and at the same time a manager that does not stop its timer, as `RemoteManager`, which can only add to what it may do; and its `Thread` alone is destroyed. The proof covers every choice |
| `MaxWaiting` | 1 | one entry waits while another is handled; the timer waits while the queue is full. With two the state space is fourteen times as large, and its liveness takes longer than a run should; an answer needs one read and one place |
| `Callers`, `MaxCalls` | 3, 2 | a batch that is being called while another grows behind it, with two callers between push and notify |
| `MaxMessages`, `Chunks` | 3, 2 | one write running, one ready and one not launched yet; two pieces to interleave |
| `MaxHandle`, `Clients` | 2, 3 | the third client needs a handle that was used before and finds the server full first; the code's maximum, `connectionHandleMAXValue`, is `UINT_MAX - 1`, and a small one stands for a server that has run long enough to wrap around |
| `MaxRelays` | 1 | the relay of one bus message; they come one after another in one thread |
| `Requests`, `MaxUpdates`, `PoolSize` | 2, 1, 2 | two numbers that can be mixed up, a state that can be stale; see `PoolAssumption` below |
| `HueLights`, `TelldusLights`, `Devices` | 1 each | the two ways to a light, one hop and two; lights do not influence each other |
| `Questions`, `MaxInputs` | 2, 1 | three writers to one light; a late answer and a question it can hit. A third question or a second input takes the run beyond its time |
| `HoursPerDay`, `MinutesPerHour`, `LastMinute` | 3, 2, 13 | hours and minutes differ from each other, and an entry that is due in the first minute is due again twice |
| `NumEntries`, `PollsPerMinute` | 2, 2 | entries do not influence each other, which the run shows; a minute with one callback and one with two |
| `Files` | 27 files | a good one, an empty one, and for every section one without it, without a field, without its array, or with a second entry that cannot be read (`MCFiles`) |
| `Lifetimes`, `MaxTime` | {1, 2}, 4 | a token that expires before a command and one that expires while it is used, one without a lifetime, and time for a refresh to be futile |
| `Redirects` | 2 | one redirect stores its token between the two steps of the other |
| `RetryWakeUps`, `MaxRate` | 2, 3 | the car wakes at the first try, at the second, or never; a rate that could rise twice |

No run uses symmetry: most of them check liveness, and the runtimes of
`bus` are not interchangeable. `lights` checks no liveness: over its two
million states that takes too long.

## Fairness

- *Threads run.* Weak fairness of each thread's next step, everywhere: the
  operating system schedules them preemptively.
- *A mutex that is free again and again is obtained.* Strong fairness of the
  steps that wait for the `Event` mutex (`PushMessageToRuntimeHandler`,
  `get`, `Route`, `Answer`, `Timer`, `TimerCallback`, `DestroyFirstThread`; nobody
  has to send a request in `ProgramManager`). A handler thread may take the mutex again
  before a waiting thread does, but it sleeps as soon as its queue is empty, and
  its queue is filled by those who wait.
- *The queue of an `io_context` is first-in first-out.* Strong fairness of
  `Disconnect`: the coroutine that posts itself over and over while the server is
  full does not starve a read handler.
- *A write and a reply end*, because the peer reads or TCP gives it up.
- *The timer calls back every second, and a one-shot timer's thread runs.* Weak
  fairness of `TeslaCallback` and of `Timer`, each as a whole: which way a read ends,
  whether the car wakes and whether a read throws is not up to fairness.
- *A turn of the main loop ends*, as managers do not send without a pause: strong
  fairness of `EndTurn`, because other messages may be routed in between.
- *A user whom a browser asks to authenticate does*: weak fairness of `Redirect`
  while main is `"asking"`. Where nobody is asked (`"waiting"`, elsewhere than under
  `_WIN32`) nothing says that a redirect ever comes.
- *Nobody has to act.* No fairness for sending, subscribing, connecting, leaving,
  measuring, commanding, destroying, stopping, pressing Ctrl-C, a failing peer or
  a spurious wakeup.

Four liveness properties are conditional on something the code does not ensure:

- `WaitingIsServed` excuses a server whose `io_context::run` returned before the
  coroutine was spawned (`TCPHandler.cpp:131`), and one whose handles are all
  held by clients that have not closed, among them those that vanished and whose
  connection is never cleaned up (`TCPHandler.cpp:108`). Without either excuse it
  fails.
- `RequestsEnd` holds under `PoolAssumption`, at least as many library threads as
  requests at a time. `Callback` waits for a reply while it holds the mutex, the
  reply needs a library thread, and the library threads wait for the mutex in
  `get`: with fewer threads than requests everybody waits. `cpprestsdk` starts 40
  threads.
- `KeepsReading` excuses a program that an exception in the timer's thread has
  ended (`TeslaManager.cpp:286`). Without the excuse it fails.
- `StartAndCommandsEnd` excuses a listener that could not be opened, a user who is
  not asked, and the state in which a token that the command has just refreshed
  counts as expired, as told [above](#sonosmanager).

## Proofs

`tlapm` checks every theorem of the `...Proofs` modules, for every value of
the constants that meets the named assumptions. These are weak: `N` is a positive
number, the bounds are numbers, `Remote` is a runtime, the configured
subscriptions have no pair twice (`Subscribe` drops duplicates), the owner of an
executor is not one of its callers, the number of retries is a number and the
limit of the rate a positive one; there is at least one manager, one handle, one
message, one request, and a library thread for every request; special values
differ from what they are special among (`None` of `Lights` from names, sets of
names, states and questions, `Thrown` of `Configuration` from what a reader
returns); and a file has in the array of a section the kind of entries a reader
of it finds there (`FilesAssumption`), any number of them. A run evaluates each of them.

**MessageBusProofs.** `IInv` is the conjunction of

| Part | Says |
|---|---|
| `TypeOK` | types |
| `SubscribersDistinct` | no pair is subscribed twice |
| `InHand` | while the router pushes, it pushes the last message of `log`, to those of its receivers it has not reached |
| `Addressed` | what is queued for or handled by a runtime was addressed to it |
| `Ordered` | what a runtime has handled, followed by what it has queued, increases in `log` |
| `Complete` | and has every message addressed to it, the one in hand excepted |
| `TxNumbered` | a sending queue holds the latest messages of its runtime, numbered in order |
| `LogNumbered` | `log` has the messages of one sender in their order |
| `LogComplete` | and all of those that have left its queue |

None of the checked orders is inductive: they speak of what was *handled*, and a
step that handles a message preserves them only because of what is still in the
queues. `Ordered` and `Complete` carry the order through the receive queues,
`InHand` through the router, `TxNumbered` and `LogNumbered` through the sending
queues. From `IInv` follow `OrderCorrect` (`AgreedOrder`, which with both runtimes the same says that nothing is
handled twice),
`SenderOrderCorrect`, `NothingSkippedCorrect`, `NothingLostCorrect`, and
`Refinement`: the handler's step is one of the abstract multicast because the
head of the receive queue is the first place in `log` addressed to the runtime
that it has not handled, which is `Ordered` and `Complete` again.

**SerializeFunctionsProofs.** `IInv` is `TypeOK`, `InOrder` (what was called,
followed by what is pending, is what was posted), `StopIsLast` (nothing is posted
behind the stop function) and `StopInOrder` (the flag is set exactly when it was
called). `TypeCorrect`, `DestructorCorrect` and `Refinement` follow: when the thread has ended
the last function posted has been called, so nothing is pending.

**ManagersProofs: ScheduleManager.** `ScheduleInv` is `TypeOK`, `FiresOncePerDay` and
`HandledInItsMinute`: after the first callback in a minute `m_Handled` tells
whether this is the entry's minute, and before it, it may still tell so of the
minute before. What makes it inductive is that no entry is due two minutes in a
row (`NotTwiceInARow`), so that a flag left from the minute before never keeps an
entry from firing; that is a fact about quotients and remainders (`ClockMoves`)
and needs a day of more than one minute, which is all the theorem assumes about
the clock. Only `LastMinute` ends the model; the theorem holds for every value.

**ManagersProofs: TeslaManager.** `TeslaInv` is `TypeOK` and `Turns`: between two callbacks the
machine waits exactly when the timer's function has yet to set its state; while
`Callback` reads there is no such timer; while it joins, the new timer sleeps and
the old one is on its way out. Neither `WaitsForATimer` nor `OneThreadAtATime` is
inductive alone: that a timer is armed only when the old one is done needs the
other direction of the equivalence, and the step after the join needs to know
that the new timer still sleeps. Both hold for every number of retries and every
limit of the rate, and under `PeriodPassed`, which is part of the model.

**ManagersProofs: ProgramManager.** `SilentAfterStop` speaks of every step after the
join, so what has to be kept is who is left to push. `EndedWhenDestroyed`, the
timer of a manager that stops it has ended once its destructor is past, is
inductive with `TypeOK` (`ProgramInv`). The rest follows from where main stands
(`LeftAloneStep`): the router is silent, so that no reads are queued and what is
answered was read before, and the HTTP server is closed while its manager is gone.
For any number of managers, any choice of those that stop their timer, and
whoever reads and answers; there is one reader at most (`ReadersAssumption`).

**TcpConnectionProofs.** `IInv` is the conjunction of

| Part | Says |
|---|---|
| `TypeOK` | types |
| `StopIsLast` | the send handler is told to end by the last function of all, and has ended before the connection goes on with its destruction |
| `RunningIsKept` | the future of a write at work is kept |
| `NoWriteAfterDestruction` | there is no write at work once the connection is gone |
| `WaitingIsQueued` | a message waits in the queue, once, exactly until its write starts |
| `Progress` | how much of a message is on the wire, by the state of its write |

The destructor waits for the futures it has, which is every write only because of
`RunningIsKept`; and everything was sent because the queue is empty when the
handler has ended (`StopIsLast`), so that nothing waits (`WaitingIsQueued`).

**TcpServerProofs.** `HandlesConsistent` names the three parts that carry it:
`ReaderInMap` (who is read from is in the map, under the handle its callback
has), `QueuedIsDead` (a handle that waits for its cleanup has a client that is
not read from any more, and waits once), `RoomForNext` (the coroutine's handle is
free). With `BacklogIsNew` (who waits to be accepted is neither) they are
inductive, and `OnlyClosedErased` follows: only `cleanupDisconnectedSessions`
erases, and it erases what `QueuedIsDead` speaks of. That the loop for the next
handle finds one is well-foundedness of the numbers.

**HttpRequestsProofs.** `IInv` is `TypeOK` and

| Part | Says |
|---|---|
| `Budget` | the numbers given out, and the requests that have none yet, fit together; so do measurements |
| `Stages` | a request is in one place on its way to its reply |
| `Unique` | and there once; no two numbers for one request |
| `Numbered` | a number not yet given out is in use nowhere |
| `Matched` | reads and answers underway under a request's number ask for its sensor, and what they carry is as fresh as the request |
| `EntriesUnderway` | for every entry of `m_Map` a read or an answer is underway |
| `Growing` | measurements are counted up |

and `OneRightReply`, `Fresh`. A reply finds its request by a number, so that it is
the right one follows from `Matched`, which needs `Numbered` when the next number
is given out; that there is no second one follows from `Stages` and `Unique`,
because replying removes the entry. `NoEntryForgotten` is `EntriesUnderway`.

**LightsProofs.** `IInv` is `TypeOK`, the types of everything else (`Domains`),
`AnswerShowsWrite` itself, and

| Part | Says |
|---|---|
| `Routed` | a queue has only messages its manager subscribed to |
| `HueFollows` | the last write for a lamp of the bridge in `rx["hue"]` is the write the bus took last; with none there, the lamp is as that write wants it, unless the bridge failed |
| `TelldusFollows` | the same through three queues: the last write in `rx["telldus"]`; without one, the last command in `tx["telldus"]`; without one, the last in `rx["shell"]`; without one, the lamp |
| `Asked`, `AllSay` | who has asked is past the start, and messages say what their question asked |
| `WritesFirst` | until the write of a question is handled, it is ahead of the question's read: in the sending queue, in the receiving queue, or one queue further |
| `TakenShows` | if the last write of an item was a question's, what is recorded is what the question wrote ("off" of a Telldus light excepted, which is never recorded) |
| `SomebodyInRange` | `m_AtLeastOneAtHome` is what the devices say |

`LampsFollowLastWrite` speaks of a system at rest only, and is far from
inductive: `HueFollows` and `TelldusFollows` carry it through every queue on the
way. A message of another kind or for another light leaves a queue `Alike`, which
is most of what a step does; what is left is a write that is placed (it becomes the last),
routed, turned into a command, and taken by the lamp. `AnswerShowsWrite` needs
`WritesFirst`, so that a direct read finds the write of its own question handled,
and `TakenShows` for the state it then reads. For any number of lights, devices,
questions and inputs; the bound `MaxInputs` plays no part.

**SonosManagerProofs.** Of the session, `IInv` is `TypeOK`,
`AuthenticatedMeansToken`, `NothingBeforeRead` (nobody listens while the file is
being read) and `StoredIsIssued` (between the two steps of a redirect the token
is one the server has issued): a refresh in between replaces the token by another
issued one. The listener is open before `SetTokenConfig` replaces the token by the
configured one, which no server has issued here: both say something only where no
token is configured. For any number of redirects at a time.

`AllOrNothing` holds in the initial state and is kept by `ReadConfiguration`
because of what every reader returns. An array may have any number of entries, so
that this is a statement about the loop, `FoldLeft`, and not about 27 files.
`FoldLeft` is defined by a `CHOOSE` of a recursive function on sets of indices, which
no installed prover unfolds: `FoldExtends` builds such a function for `1..k + 1`
from one for `1..k`, so that it exists for every length (`FoldExists`, by the
smallest length that would have none), and `LoopReturns` gets from it, in the same
way, that the loop returns `Thrown` if an entry throws and all entries in their
places otherwise. `EntriesRead`, `ScheduleRead` and `SchedulesRead` are that for
lights, sensors and ids, for one schedule with its array of ids, and for the array
of schedules; `PlainShown` and `SchedulerShown` compare with `Whole` and `ShowsAll`.

**Only model-checked**: all liveness (`EverythingHandled`, `EverythingCalled`,
`SendsAndDestructionEnd`, `WaitingIsServed`, `RequestsEnd`, `KeepsReading`,
`CalledBackUntilStopped`, `StartAndCommandsEnd`), since fairness and `ENABLED` are
out of the prover's reach; and of course what the two violated runs refute. The
invariants, the action property and the two refinements that the passing runs
check are all proved. The counterpart of a theorem in a run is a small instance,
so the two agree where both can be asked.

## Findings

1. **`tcp_wire`: messages of one connection are mixed on the wire.**
   `connection::sendMessage` (`TCPHandler.cpp:75`) starts a write in a thread of
   its own for every message, and waits at most a microsecond for the one before,
   where its comment says "ensure that previous operations are already handled"
   (`TCPHandler.cpp:80`). Two composed writes then share the socket; their pieces
   interleave, or the second message goes first.
2. **`tcp_relay`: a relay misses a connected peer.** `sendToAllConnections`
   (`TCPHandler.cpp:186`) iterates over `m_Connections` in `RemoteManager`'s
   handler thread while the io thread inserts and erases without a lock, where
   `RemoteManager.cpp:39` says "i received a msg, i will just relay the message
   to all the remote peer(s)". The model takes the mildest outcome of the race,
   an iterator that ends too early.

What else was seen is excused by a property by name or is an outcome the model
admits, each at its place in the module:

| Where | What |
|---|---|
| `Thread.cpp:69` | a timer calls back a manager whose members are not all there, and an entry that waits when the manager goes is handled afterwards |
| `HTTPManager.cpp:64` | an answer is handed to a destroyed `HTTPManager` |
| `Thread.cpp:27` | the handler's thread is not joined: the program ends in `std::terminate` |
| `MessageWithDirectAnswer.h:26` | the answer after the timeout uses a stack frame that is gone |
| `TelldusCommandLineManager.cpp:193` | a light that is switched off is recorded as on |
| `ScheduleManager.cpp:57` | an entry that the offset moves over midnight never fires |
| `TeslaManager.cpp:286` | an exception in a timer's thread ends the program |
| `TeslaManager.cpp:264` | `m_Rate` goes back to 1 whenever the car falls asleep, where the comment at `TeslaManager.cpp:289` says "next time not so often": the raised rate is never used |
| `TCPHandler.cpp:131`, `TCPHandler.cpp:108` | a server that never accepts; a connection that is never cleaned up |
| `Configuration.cpp:210` | a file without a section for `RemoteManager` |
| `OAuth2.cpp:23` | elsewhere than under `_WIN32` nobody is asked, where `SonosManager.cpp:31` says "request them from the user" |
| `OAuth2.cpp:79` | a listener that cannot be opened |
| `OAuth2.cpp:164` | "now i have a new token and can access it": it may count as expired, as the time it came is not stored (`OAuth2.cpp:58`) or it has none to last (`OAuth2.cpp:96`), and is refreshed again, without an end if that goes on |

## Seeded faults

Beside an action there may be a second version of it with a plausible bug, for
example `HandleNewestMessage` (a stack for a queue), `ForgetNotify`, `StopAtOnce`,
`LaunchDetached`, `BindNextHandle`, `ServerOutlivesManager`. No specification uses
them. `mutants` in `PROJECT.json` pairs each property with one that violates it
when it takes the action's place: that is how it is known that the property and
the bounds of its run can see such a bug.

## Not modelled

- The torn accesses to `m_Subscribers`: `Subscribe` in the io thread against
  `FindSubscribers` in the main thread (`Subscription.cpp:19`), the one hazard
  without a property. `MessageBus` takes each call as atomic. What a search in a
  vector that grows hands out depends on its allocator, and every property of the
  bus would fail under it; the same holds for the fields of the token that the
  listener, main and the handler share (`OAuth2.cpp:59`), each of which is read
  and written as one.
- `SynchronosThread` and its manager, which `ProgramManager` has commented out;
  `TelldusManager` and `RemoteTelldus`, an earlier version of
  `TelldusCommandLineManager`, which nothing builds.
- `JSONManager`'s reads of sensors and of the vehicle, which go the way its reads
  of lights go; `SensorManager`'s `Read` and `Sensors` messages, which nobody but
  they would send; the direct answer of `CommandLineManager`, which nobody asks
  for; `HTTPManager`'s `readData`, which nobody calls.
- `networkReceiveHandler`, which answers on the connection a message came from
  and has no state; `networkMessageHandler::receive`, which is not reached.
- `HTTPServer` and `RESTApi`: the first hands requests to `HTTPManager`, no
  request reaches the second; `TeslaConnection`: one request and its answer, whose
  outcomes `TeslaManager` has.
- The reading half of a connection beyond its end, `Message`, `JsonHelper`,
  `StringTools`, `Logging`: conversions without state of their own.
- An exception out of the coroutine (a failing `accept`), which ends the program.

## Plan

Done, in this order: `MessageBus` with `TotalOrderMulticast`,
`SerializeFunctions` with `FifoExecutor`, the proofs of both, `TcpConnection`,
`TcpServer`, `HttpRequests`, `Lights`, `ScheduleManager` and `TeslaManager` with
their proofs, `Configuration` and `SonosManager` with `OAuth2`, `ProgramManager`
with its proofs, the proofs of `TcpConnection`, `TcpServer` and `HttpRequests`,
those of `Lights`, and of `SonosManager` with the readers of `Configuration`.

What could follow: `TcpServer` and `HttpRequests` as implementations of abstract
specifications of their own, as the bus and the serializer are; and the accesses
to `m_Subscribers` step by step, once they have a lock whose place there is to
choose.
