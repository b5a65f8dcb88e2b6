# TLA+ models of QMI

QMI (Quantum Measurement Infrastructure) is a Python framework for laboratory
control. Programs run a *context*; contexts connect to each other over TCP;
instruments and tasks are *RPC objects* that live in a thread of their own in
some context and are called through *proxies* from any other. The framework is
built from threads, condition variables and messages, and most of what can go
wrong in it is an interleaving. This directory specifies its core in TLA+,
checks the specifications with TLC on small instances and proves their main
safety properties with TLAPS for instances of any size.

All paths below are relative to the root of the repository. `PROJECT.json` maps
every definition to the lines it models.

## 1. Inventory

| Component | State it keeps | Operations | Interacts with |
|---|---|---|---|
| **RPC objects** (`qmi/core/rpc.py`) | per call a future with state and result; per proxy its lock token; per object a request queue, a thread, the token that locks it; `_running` | blocking and non-blocking calls, `wait`, `lock`/`unlock`/`force_unlock`/`is_locked`, `handle_message`, `start`/`stop` | router (delivery), context (map of objects), user code (methods) |
| **Task runner** (`qmi/core/task.py`) | state of the task thread, stop flag, the condition the task waits on, a settings slot, "joined" | `start`, `stop`, `join`, `set_settings`, `release_rpc_object`; inside the task `sleep`, `stop_requested`, `update_settings`, `wait_for_condition` | is an RPC object; its task waits on signal receivers |
| **Loop task** (`qmi/core/task.py`) | next deadline, period, policy | `run`, with three policies for missed periods | runs in a task thread |
| **Signals** (`qmi/core/pubsub.py`) | receive queues; tables of local and remote subscribers; pending subscription requests | subscribe, unsubscribe, publish, removal of a publisher or of a peer | router (messages), context (existence of publishers) |
| **Messaging** (`qmi/core/messaging.py`) | map of handlers; event loop thread; peer connections with pending requests and receive buffers | register/unregister, deliver, send, connect, disconnect, `stop` | everything above |
| **Context** (`qmi/core/context.py`, `context_singleton.py`) | map of object names to managers, active flag | `start`, `stop`, make and remove objects, discovery, connect to peers | owns router and signal manager |
| **Threads** (`qmi/core/thread.py`) | shutdown flag | `shutdown`, `join` | base of all QMI threads |
| **Instruments** (`qmi/core/instrument.py`, `qmi/instruments/`) | open or closed | `open`, `close`, device commands | RPC objects over transports |
| **Transports** (`qmi/core/transport*.py`, `usbtmc.py`, `scpi_protocol.py`) | open flag, read buffer | `read`, `read_until`, `read_until_timeout`, `discard_read`, `write`, SCPI `ask` | sockets and drivers |
| **Threads of drivers** (`montana/cryostation.py`, `picoquant/support/_events.py`, ...) | a timer and the flag of a heater; pending events, filter state | set heater power, burst, timer; fetch, filter and return events | RPC thread of the driver, device |
| **Data** (`qmi/data/`) | data sets; a recorder thread with two buffers | record, set attribute, shutdown, store, load | files |
| **Tools, utilities, configuration, logging** (`qmi/tools`, `qmi/utils`, `qmi/core/config*.py`, ...) | little or none | start and stop processes, parse, convert | operating system |

What is hard here:

* *Interleaving.* A request passes through four threads (caller, socket thread
  on each side, RPC thread), each of which looks something up, lets go of a
  lock, and acts on what it saw.
* *Lost and late answers.* A connection may break at any moment; the caller
  then gets an error reply for a call that was, or still will be, executed.
* *Removal.* Objects are removed while requests for them are on the way.
* *Wake-ups.* A task may wait for a signal, a stop request and a timeout at the
  same time, on a condition variable that it chose itself.
* *Blocking.* One thread serves all calls of an object, and some calls block it.
* *Time.* A periodic loop has to recover when it is late.
* *Shutdown.* `stop()` of a router or a context meets messages, connections
  and objects that other threads are just about to add.
* *Methods that stop halfway.* A driver is sequential, but each of its steps may
  raise or time out, and the next call starts from what is left.

What makes the components correct: the lock of an object excludes others and
is where its owner thinks it is; each call takes effect at most once and is
answered; the first answer counts; requests of a proxy are executed in order;
removal completes and leaves neither queued requests nor threads; no stop
request and no signal is lost by a waiting task; the end of a task is final;
settings are not overtaken by older ones; iterations of a loop task start
before their deadline and keep their pace; a subscription exists on both sides
or on neither; a request posted in time is answered once, also when either
context stops; every object can be stopped, once; an instrument is open or
closed together with its transport; a reply belongs to the query it follows;
data read from a device or recorded to a file is neither lost nor duplicated.

The hazards at which these properties are aimed are listed in `PROJECT.json`,
each at the line where it bites.

## 2. Modules

| Module | Contents |
|---|---|
| `LockService` | What a lockable object promises: calls that take effect once, atomically |
| `RpcObject` | Proxies, futures, delivery, manager and thread of one RPC object; implements `LockService` |
| `RpcObject_proofs` | Theorems about `RpcObject`, the refinement of `LockService` among them |
| `TaskRunner` | A task runner, its task thread, the clients that call it and the receivers its task waits on |
| `TaskRunner_proofs` | Theorems about `TaskRunner` |
| `LoopTask` | The timed loop of `QMI_LoopTask.run` |
| `LoopTask_proofs` | Theorems about `LoopTask` |
| `PubSub` | One signal of one publisher: subscription and publishing between two contexts, and within the publisher's |
| `PubSub_proofs` | Theorems about `PubSub` |
| `MessageRouter` | Event loops, connections, requests and replies of a client and a server context, `stop()` and crash |
| `MessageRouter_proofs` | Theorems about `MessageRouter` |
| `Context` | `start()`, `stop()`, and the objects that threads make and remove |
| `Context_proofs` | Theorems about `Context` |
| `Transport` | What each transport does with the bytes that arrive: pure operators |
| `Programs` | The steps of which driver methods are made, SCPI and `QMI_Instrument` among them |
| `Instrument` | A driver at work: runs the programs of one driver over its transport |
| `DriverRules` | What the programs of a driver keep to, so that the properties of `Instrument` hold |
| `DriversScpi`, `DriversSerial`, `DriversMotion` | The methods of 43 drivers as programs |
| `PlatformHeater` | The heater of the Montana Cryostation and the timer that turns it off |
| `EventFetcher` | The thread that fetches and filters the events of a PicoQuant time tagger |
| `HDF5Recorder` | The writer thread of the HDF5 recorder |
| `MC...` | The same modules for TLC; constants are in the `.cfg` files |
| `EventFetcher_proofs` | Theorem about `EventFetcher`, and the lemmas on sequences it rests on |
| `MCInstrument_proofs` | Theorems about drivers that keep to the rules, their transports, the heater, the recorder and the time tagger, as parts of `MCInstrument` |

`MCTaskRunner` composes `TaskRunner` and `LoopTask`, the two halves of
`qmi/core/task.py`; `MCLoopTask` has the schedule alone.
`MCInstrument` composes `Instrument` with its rules, the three driver tables,
`PlatformHeater`, `EventFetcher` and `HDF5Recorder`: every behaviour has one of these parts (`part`), and the others
stand still; `MCTaskRunner` does the same. The parts share no state, so no interleaving of
theirs is left out. `MCInstrument` EXTENDS `EventFetcher`, so that what is proved of the time tagger is proved of
the run; the variable `tagger` is its call in the RPC thread. The constants
`DataSets` and `MaxCalls` are those of the recorder.

### RpcObject

One RPC object in one context; proxies in the same context and (`Remote`) in
another one. Calls are numbered in the order in which they are made.

| Specification | Code |
|---|---|
| `request`, `future`, `registered` | the request message, `QMI_RpcFuture._state/_result`, its registration as message handler |
| `outbox[p]` | requests sent by `p` that the manager has not received: none or one for a local proxy (the calling thread delivers it itself), any number for a remote one (event loop and socket, in order) |
| `located` | `deliver_message` has found the handler and released its lock, but not yet called `handle_message` |
| `mgr` | how far `make_rpc_object`/`remove_rpc_object`/`RpcObjectManager.stop` are; `_running`, the shutdown flag and the registration are functions of it |
| `pc`, `fifo`, `current`, `reply`, `lockingToken` | the RPC thread: position in `run()`, `_fifo`, the request in hand, its reply, `_locking_token` |
| `ownToken`, `trying` | `QMI_RpcProxy._lock_token` and the token of a `lock(timeout)` that is polling |
| `verdict`, `forced` | history only |

Steps are cut where the code releases a lock or could be preempted with an
effect: looking up the handler and pushing the request, unregistering, clearing
`_running`, setting the shutdown flag and joining, taking, executing and
answering a request are separate actions. What a method does, returns or raises
is data: value and exception are one kind of result. Each proxy has one client
thread. `ConnectionLost` covers the loss of the connection of a remote proxy at
any time: any suffix of the requests on the way is lost, all unanswered futures
get an error reply, and the real replies may still arrive.

`LockService` is the abstract specification. The refinement maps a call to
*applied* as soon as the thread has computed its verdict.

### TaskRunner

The RPC thread of a `QMI_TaskRunner` executes methods step by step (`step`),
because `stop_task()` and the task thread share four pieces of state under three
different locks. `tpc` is the position of the task thread, which may run user
code, sleep, read settings, wait on either of two receivers, stop itself,
return or raise. The steps of `wait_for_condition` are: register the condition
(under `_wait_cond_lock`), test the predicate and go to sleep (atomic, as the
lock of the condition is held), be woken or time out, decide, unregister.
`Holds(r)` is true while the task thread holds the lock of receiver `r`;
`Notify`, `Publish` and `DiscardAll` need that lock. A queue is its length; at
its bound either policy keeps the length and only the notification differs.
The check in `start()` and the one in `start_task()` are two steps.
That requests are served in order, and the RPC thread as such, are taken over
from `RpcObject`.

### LoopTask

Integer time. The clock advances while the task works or sleeps. `Jitter`
bounds how late a sleep ends and is smaller than every period. `first`,
`started` and `missedAt` are history. An iteration, with its settings, status
and signals, is work of any length; it may raise.

### PubSub

One signal, the context of its publisher and one peer context whose receivers
subscribe to it, each from a thread of its own.

| Specification | Code |
|---|---|
| `subs`, `pending` | in the subscriber context, `_local_subscriptions[signal]` and the entry of both `_pending_subscription_request_...` tables; a request gets a number as `request_id` |
| `thread[r]` | position of the caller: has to send the request, found no connection, waits |
| `link`, `peers` | the connection in the maps of the two socket managers; connections are numbered, as the publisher's context does with its `$client_n` aliases |
| `toSend`, `posted` | calls of `_SocketManager.send_message` posted to the two event loops |
| `unanswered` | `_PeerTcpConnection._pending_requests` |
| `up`, `down` | TCP in both directions |
| `remoteSubs`, `localSubs`, `handling` | in the publisher's context, the tables of subscribers and the request in the hands of the socket thread |
| `exists`, `remover`, `notify` | the publisher is in the map of RPC objects; how far its removal is; whom it has still to tell |
| `publishing` | a signal and the rest of the copied list of subscribers |
| `lastSeen`, `overtaken` | history |

A subscription request is handled in the steps check, add, check again, undo,
reply, since the thread that removes the publisher may come between any two of
them. The steps of one event loop are not interleaved with each other (`Free`,
`closing`). The connection may be lost at any moment; each side finds out by
itself, in any order, and the subscriber may connect again while the other side
still has the old connection. What is sent to a socket that the other side has
closed is lost or fails. A thread that finds no connection handles that itself
like an error reply (`GiveUp`). Signals are numbers; a local receiver is called
by the publishing thread, so for it there is nothing to be lost. One thread
publishes at a time.

### MessageRouter

| Specification | Code |
|---|---|
| `manager`, `stopping` | `MessageRouter._socket_manager`; progress of `stop()`: `close_all` posted and waited for, shutdown requested, joined |
| `loop`, `queue` | the event loop of `_EventDrivenThread` and the callbacks posted to it by `run_in_thread*` |
| `socket`, `managed`, `known`, `wire` | the two sockets of a connection, its place in `_socket_wrappers` and `_peer_context_map`, the handshake, TCP |
| `pending` | `_PeerTcpConnection._pending_requests` |
| `thread` | a thread in `send_message`, `connect_to_peer` (routing, greeting, adding) or `disconnect_from_peer` |
| `sent`, `answers` | history |

A callback of the event loop is one action, the callers' steps around it are
actions of their own. A closed socket resets the connection if there was unread
data, so that what is on its way to the other side may be lost. A message is
its kind and its request; one request is of the sort that `pickle` refuses.

### Context

Each thread is in one call and at one step of it: between two steps it holds no
lock. `table` is `_rpc_object_map` with its reserved names (`None`), `handler`
the router's map, `running` the managers with a live thread. `abandoned` is
history: managers that a call had in hand when it raised. `start()`
and `stop()` belong to one thread, as the code checks. `make_rpc_object` and
`remove_rpc_object` are used from any thread: the comment of `QMI_Context`
(`qmi/core/context.py:212`) promises less, but the code locks for it and
`_rpc_object_map_lock` would have no use otherwise.

### Transport, Programs, Instrument and the drivers

A driver method is a *program*, a sequence of steps such as `query`, `line`,
`verify`, `markOpen` (listed at the head of `Programs`) with its except block.
`Instrument` executes it: each step succeeds or raises, a reply comes in time,
late or not at all, in any portions the transport can deliver. `rbuf` is the
transport's `_read_buffer`, `line` what the device has sent and nobody has read;
a reply is a body and a terminator. A driver is a row of the table in
`DriversScpi`, `DriversSerial` or `DriversMotion`; a method that takes other
steps for other arguments or replies has several entries. Commands, parsing and
units are left out: a step says that a reply is checked, not what it contains.
`HalfOpen`, `Unclosable` and `LeavesReplies` name the drivers for which a
property does *not* hold; each is explained in 6.

`DriverRules` says what the other drivers have in common, as conditions on the
order of their steps. `OpenRule`: `open()` checks first and marks the instrument
last; what may fail while the transport is open is in a try block that closes it
again and raises. `CloseRule`: `close()` ends by marking the instrument closed
and then closing the transport, both outside of a try block. `MethodRule`: only
these two open and close. `LeaveRule`: what enters the CONFIGURATION state
leaves it on every path that returns. `ReplyRule`: a query is followed by the
reads of its reply before anything that may raise; the answer to a query that
takes minutes is looked for before the next such query. The rules are about
the text of a program, not about its runs, and TLC evaluates them for all 43
drivers (`RulesAssumption`). They describe the code as it is; of
`close()` the documentation asks for the opposite order (6).

### PlatformHeater

Power above the safe level is allowed for a while: a `threading.Timer` turns
the heater off, while the RPC thread serves other calls. Both send commands
over one connection, one at a time (`_command_lock` is `talking`). Any command
may be refused, or carried out and its answer come in time, late or not at all,
or it may end in an exception the driver does not expect.

`answers` are the answers on the way. `_execute_command()` drops those that
have arrived (`discard_read()`), sends its command and takes the first answer
that comes after that, whichever command it is the answer to (`Send`,
`Accepted`). So the OK of a command that timed out, when it is still on the way
as the next command is sent, is taken for the answer to that one. `heater` is
the power of the heater once all that was sent is dealt with; it does not depend
on what the driver believes (`heaterOn`). `done` says what the cryostat does
with the command under way. `wanted`, `doomed` and `misled` are history: the
power last set for good, whether the driver has given up, and whether it has
taken a late OK for that of a command that was refused and the heater is
therefore not as it thinks (`Believed`).

`HeaterIsWatched`, `SettingStands` and `BurstEnds` hold but for two cases, which
they name: `doomed`, which the driver reports, and `misled`, which it does not.
`NoBurstForgotten` leaves `misled` out; the run `heater_late` shows how it is
violated (6).

### EventFetcher

The fetching thread and the RPC thread work under one lock, so `Fetch` and
`GetAllEvents` are atomic; `start_measurement()` and `stop_measurement()` use the
device before they take it, and are two steps. `Chosen`, `Followed` and
`Withheld` are the numpy operations of `_EventFilter.process_events` with its
memory of the last SYNC: a boolean index into an array is the set of places
where it is true, and `Picked` the array of what stands there. Events are a
channel and a time. T3 differs in the decoder only.

`Wanted` says of the whole stream at once what passes (`Due`), by the rule that
`process_events()` itself states (`_events.py:420`): a SYNC that is filtered
passes when an event that passes *follows* it. The documentation of
`set_event_filter()` has "preceded or followed" (`_picoquant.py:750`), which is
not what the code does and not what is checked here (6). `EventsAreExact` says
that cutting the stream into batches and calls does not show: what is returned
is what one pass over the whole stream keeps.

`process_events()` asks for a single stream "without missing events", and the
thread does not always give it one: the stream goes on from one measurement to
the next, and events that come while they are blocked are left out. `breaks`
are the places where that happened. What passes by itself, within its stretch
between two breaks, is `Rightful`; what passes only for a SYNC or an event
beyond a break is a *stray*. The code returns strays, and nothing says whether
it should, so of them the property admits any.

### HDF5Recorder

`recordings` and `attributes` are the shared buffers, `taken`, `newAttributes`
and `pendingAttributes` the writer's. A round of the writer is the swap (under
the lock), one step per data set, and the end of the round. A datum is the number
of the call that recorded it. One thread records and closes.

## 3. Runs

| Run | Question | Outcome |
|---|---|---|
| `rpc_object` | Who owns the lock, where is each request, is it a lock service, does everything end? 1 local and 1 remote proxy, all operations, a custom token, removal, lost connections, 2 calls and the retry of a denied `lock()` | `OwnerHoldsLock`, `ExclusiveAccess`, `LockHasOwner`, `NoRequestLost`, `FirstResultIsFinal`, `ProgramOrder`, `EveryCallAnswered`, `RemovalCompletes` hold; refines `LockService` |
| `rpc_force` | Does `force_unlock()` return? | violated, see 6 |
| `task_runner` | Do stop requests and signals reach the task, and does it end? 2 clients, 3 calls, 2 receivers. And: do iterations of a loop task keep their times? periods 2, 3, 4 under each policy, 16 time units | `NoLostStop`, `NoLostSignal`, `AssertionsHold`, `SettingsKept`, `RemovedTaskHasEnded`, `StopEndsTask`, `RemovalCompletes`; `PhaseIsKept`, `StartsInTime`, `NoBurst` hold |
| `task_stop` | Does `stop()` return? | violated, see 6 |
| `loop_skip` | Does SKIP wait for the next period? | violated, see 6 |
| `pubsub_connections` | Does every call return, and every answer find its request, over lost and new connections? 2 receivers, 2 connections, 3 calls, 1 publisher | `AnswersAreExpected`, `SubscribeReturns` hold |
| `pubsub_signals` | Do both contexts agree while the publisher comes and goes? 2 remote and 1 local receiver, 1 connection that may break, 3 calls, 2 incarnations of the publisher, 2 signals | `SubscriptionsAgree`, `NoStaleSubscription`, `NoGap` hold |
| `pubsub_known` | Is a subscriber always known to the publisher's context? | violated, see 6 |
| `router` | Is every request answered once, whatever stops first? 2 client threads, 2 requests, 2 connections, either side may stop, the server may die | `NoRequestForgotten`, `AnsweredAtMostOnce`, `EveryRequestAnswered` hold |
| `context` | Is any object lost, stopped twice, any name lost? 3 threads, 2 names, 4 objects | `NoObjectLeftBehind`, `StoppedOnce`, `NamesAreResolved` hold |
| `instruments` | What does a driver leave behind when a method stops anywhere? 43 drivers, 6 bytes on the line. And: does the heater go off, are events and recordings complete? | `OpenIsAllOrNothing`, `CloseReleases`, `InSync`, `ConfigurationIsLeft`, `FailedReadKeepsBytes`; `HeaterIsWatched`, `SettingStands`, `BurstEnds`; `EventsAreExact`; `RecorderLosesNothing` hold |
| `heater_late` | Can a burst go on unnoticed when an answer of the cryostat is late? | violated, see 6 |

*Bounds.* Two calls of an object let every operation of one proxy meet every
operation of the other, or a second one of its own after a timeout; a third is
made only by a `lock()` that tries again (`MaxFree`); longer
histories are the business of the proofs, which hold for any number of calls
(section 4) and leave only liveness to the instance.
A queue of length one is empty and full with a single signal. Two receivers are needed
for a task that moves from one wait to the next while a `stop()` still holds
the condition of the first. Periods of up to four with overruns of up to 16
units reach every case of the division in policy SKIP, several times over.
In `PubSub` three calls let a receiver subscribe and leave and another one come
while the first one's request is pending, which is every way in which a request
can be joined; two connections are the old one and the new; a second
incarnation of the publisher meets requests and notices of the first; two
signals can be out of order or have a gap. The two runs divide what would be
too large together: one has a new connection, the other has signals. The
invariants are proved for both together (section 4). In `MessageRouter` two
connections are two threads that connect at once, or one that connects again;
the second request is needed for one that waits while another is sent. These
bounds, and those of `Context`, matter to liveness only: the invariants are
proved for any number of threads, requests, connections, names and objects. In
`Context` three threads are `stop()`, a make and a remove; four objects let both
names be used again. In `Instrument` six bytes are three replies: a
stale one, the one asked for and the next. In `EventFetcher` four events are a SYNC, an
event, and the same again in the next batch or measurement, at most three may
be pending and two are returned per call, so that calls split batches and
pending events overflow; two measurements. In `PlatformHeater` two answers may be
on the way at a time (`MaxAnswers`): a late one and the one that belongs to the
command under way. In `HDF5Recorder` four calls fill two
data sets twice, or set an attribute before its data set exists and again later.

*Deadlock* checking is off: calls are bounded, and a system whose calls are all
made and whose object is removed stops.

*Fairness.* `RpcObject`: weak fairness of the RPC thread, of the delivery of
each message and of the context thread once it has begun to remove (threads of
the operating system run; methods end). Clients, connection losses and
time-outs are not fair. `TaskRunner`: weak fairness of the runner's thread and
of the machinery of waiting; strong fairness of `SeeStop`, which says that a
task's code looks at `stop_requested()` again and again, as the documentation
demands of it; nothing else the user's code does is fair. In particular a
time-out or a signal is never needed for progress.
`PubSub`: the event loops serve what is posted and what arrives, a caller in
the middle of a call goes on, and a connection that the other side has closed is
found out once all data is read (the socket becomes readable). Nothing else is
fair: connections need neither end nor come back, the publisher need not be
removed, and the publisher's context need not notice that a connection is gone.
`MessageRouter`: one weak fairness condition for the threads in the middle of a
call, the event loops and the objects that serve requests. It is enough, and
weaker than one per thread, since requests and connections bound what each can
do. `Context`: a call that has begun goes on. `PlatformHeater`: weak fairness of the RPC
thread, whose reads time out, and strong fairness of the timer thread, which
competes for `_command_lock` with a caller that may take it again and again; a
lock that starves a waiting thread forever is not something the driver could
answer for. The other properties of the run `instruments` need no fairness.

## 4. Proofs

| Theorem | Property |
|---|---|
| `RpcObject_proofs!TypeCorrect` | `[]TypeOK` |
| `LockIsHeld`, `LockExcludes` | `[]OwnerHoldsLock`, `ExclusiveAccess` |
| `FirstReplyWins` | `FirstResultIsFinal` |
| `NothingLeftBehind`, `NoRequestIsLost` | `[]NothingQueuedAfterEnd`, `[]NoRequestLost` |
| `ServedInOrder`, `LockIsOwned` | `ProgramOrder`, `[]LockHasOwner` |
| `RefinesLockService` | `ImplementsLockService` |
| `TaskRunner_proofs!TypeCorrect` | `[]TypeOK` |
| `StopIsNotLost`, `SignalIsNotLost` | `[]NoLostStop`, `[]NoLostSignal` |
| `AssertionsAreTrue` | `[]AssertionsHold` |
| `NoTaskSurvives` | `[]RemovedTaskHasEnded` |
| `LatestSettingsKept`, `EndStaysFinal` | `[]SettingsKept`, `EndIsFinal` |
| `PubSub_proofs!TypeCorrect`, `AnswersExpected` | `[]TypeOK`, `[]AnswersAreExpected` |
| `BothSidesAgree`, `NoStaleEntry` | `[]SubscriptionsAgree`, `[]NoStaleSubscription` |
| `NothingIsMissed` | `NoGap` |
| `LoopTask_proofs!IterationsStartInTime`, `IterationsArePaced` | `StartsInTime`, `NoBurst` |
| `PhaseStaysKept` | `[]PhaseIsKept` |
| `MessageRouter_proofs!TypeCorrect` | `[]TypeOK` |
| `RequestsAreKept`, `AnswersAreUnique` | `[]NoRequestForgotten`, `[]AnsweredAtMostOnce` |
| `Context_proofs!TypeCorrect` | `[]TypeOK` |
| `NoObjectIsLost`, `ObjectsAreStoppedOnce` | `[]NoObjectLeftBehind`, `[]StoppedOnce` |
| `MCInstrument_proofs!BurstsAreWatched`, `PowerStands` | `[]HeaterIsWatched`, `[]SettingStands` |
| `NothingRecordedIsLost` | `[]RecorderLosesNothing` |
| `EventFetcher_proofs!FetcherIsExact`, `MCInstrument_proofs!MeasurementIsExact` | `[]EventsAreExact` |
| `BytesAreKept` | `FailedReadKeepsBytes` |
| `OpensOrNothing`, `ClosesOrAgrees` | `[]OpenIsAllOrNothing`, `[]CloseReleases` |
| `LeavesConfiguration` | `[]ConfigurationIsLeft` |
| `ReadsWhatItAsks` | `[]InSync` |

The assumptions are those on the constants, stated in the modules: proxies are
any set, calls and queue lengths any number, tokens differ from the
placeholders, the jitter is smaller than the period. In `PubSub` the receivers
are any set and each bound is any number; in `MessageRouter` and `Context` so
are threads, requests and names. The main thread is one of the threads. Of the
tables of drivers it is assumed that every program has a step, and consists of
the steps and the faults listed in `Programs`, and that its programs keep to the
rules of `DriverRules`; otherwise it does not matter which drivers there are, and
`BytesAreKept` needs no rule at all.

*RpcObject.* The inductive invariant `SafetyInv` has four parts. `BaseInv`
relates the positions of manager and thread (for example, the thread leaves its
loop only after `_running` was cleared, which is what makes the rejecting loop
complete). `IdentityInv` says that calls are numbered densely, and a unique
token belongs to one `lock()` of one proxy. `PlacedInv` says that a request is
in one place at most: in one outbox, in the queue, or in hand. `LockInv` says
what each reply means for the token at the object: a granted token that was not
released or broken *is* the locking token. `OwnerHoldsLock` alone is not
inductive, since nothing in it forbids a stale "granted" reply that arrives
after the token was released. `NoRequestLost` is proved from a stronger
statement about every registered future without a result.

Two more invariants follow. `ServedInv`: the calls of one proxy
never overtake each other in outbox and queue (`OrderInv`), what is still to be
handled has no verdict (`UndecidedInv`), and a caller is told the verdict or an
error (`ToldInv`). `ClientInv` follows the clients that use the lock. A client
waits for its own call only (`BlockedInv`), and the attempts of a polling
`lock()` follow each other, so that no old attempt can take or return the token
later (`AttemptInv`, `FreshTokenInv`). While a proxy has the token nobody has
decided to take it away, unless the proxy itself waits to be told
(`KeptTokenInv`); and an answer that grants the token is on its way to the
caller or has become an error (`HolderInv`), which is what makes
`LockHasOwner` inductive. The refinement is proved action by action: the verdict
of the thread is the step of `LockService`, a delivery, a reply or a lost
connection is a stutter or drops calls, and `UndecidedInv` with `OrderInv`
excludes that a call is applied twice.

*TaskRunner.* `TaskInv` is the conjunction of the type invariant, of what each
position of a thread says about the state of the task (`StateInv`, `PhaseInv`),
of what it says about the registered condition (`CondInv`), of the two halves
of release (`ReleaseInv`), and of the properties themselves. `NoLostStop` needs
`CondInv`: only because the task registers its condition before it tests the
flag must a `stop()` that reads no condition have set the flag before the test.

*PubSub.* `PubSubInv` has seven parts. `PeerInv`: what names a connection names
one that was made, and the publisher's entries belong to connections it still
has. `CallInv`: the pending request is with one caller, posted, or unanswered,
and while there is one nobody is subscribed. `WayInv`: an unanswered request is
in one place at most, on its way there, in the hands of the other side, among
its posted messages, or on its way back; with `CallInv` this is why every answer
is expected. `TableInv`: once a removed publisher was dropped, an entry for it
is one that the socket thread has yet to check again. `GrantInv` and
`NoEntryInv` relate the order of replies and notices of removal to the tables.
A positive reply is true when it is received since the entry is there, or the
notice that it is gone is *behind* the reply (`GrantInv`); while there is an
entry, a notice is *in front of* the reply (`NoEntryInv`). Neither property is
inductive without them: both only speak of the moment when nothing is on the
way. The proofs treat the queues once and for all (`PostedKept`, `DownKept`) and
then each action.

`NoGap` says what a receiver sees, and so what is on its way must be part of its
invariant. `Due(p, n)` says that signal `n` will be seen by those subscribed now,
or was the last one seen: at place `p` of the queue that consists of the last
one seen, the connection, the posted messages and the list that is being
published. `GapInv` says that the numbers that are due grow with their places,
that none between two of them is missing, and that they reach up to the signal
published last while the connection has its entry. Most actions move a signal
along this queue and leave `Due` as it is but for the places. When a receiver
unsubscribes while others stay, and when the last one leaves, fewer numbers are
due and at the same end.

*LoopTask.* `LoopInv` bounds the deadline by the clock at each position
(`DeadlineInv`) and the time since the last start (`PaceInv`). `PhaseIsKept`
needs the arithmetic of the code: the time that policy SKIP adds to the deadline
is a multiple of the period (`Skipped`), and a number keeps its remainder when a
multiple is added. The provers know little of division by a variable, so the
facts about remainders are lemmas.

*MessageRouter.* `RouterInv` says where a request can be. `QueueInv` and
`StopInv`: a callback is posted once, and what `stop()` posts to the event loop
comes after every request that was posted before; that is why a posted request
is served and not left in a stopped loop. `PlaceInv`: on one connection a
request is on the wire, with the object, among the posted replies or on the way
back, and in one of these at most. `WayInv`: as long as it is in any of them,
the client has it in `_pending_requests` of that connection, or has closed its
socket. `RequestInv`: a request in the queue was never sent, and one that is
pending is pending in one connection and has no answer. `AnsweredAtMostOnce`
follows because a reply is used only while the request is pending, and because
`close()` answers what is pending and nothing arrives afterwards.
`ThreadInv` and `ConnInv` keep the connection that a thread is making its own
until it is managed.

*Context.* `ContextInv`: a call in progress has the object that its position
says (`PositionInv`); a reserved name belongs to one call, and a published
object has one name (`NameInv`); a new object is newer than all there are
(`MadeInv`). The two properties are stated object by object (`KeptInv`,
`OnceInv`). Neither is inductive without `NameInv`: without it two calls might
put their objects under the same name, and one of them would be lost.

*PlatformHeater.* A call that sets the power has joined the timer thread before
it goes on, and no timer is left of a power set for good (`HeaterTimerInv`);
only a thread that has sent a command holds `_command_lock`, and a command that
was carried out without an answer has set the power it asked for
(`HeaterLockInv`); the driver takes a heater that is on for one that is off, or
for one that it has set, only when it is `misled` (`HeaterKnownInv`). The proof
looks at no answer: an OK, whichever command it belongs to, either finds the
command under way carried out, and then the heater is as `HeaterLockInv` says,
or makes the driver `misled`. So it holds for any number of answers on the way,
in any order.

*HDF5Recorder.* What the writer gives back is empty, and what it takes after
`close()` is the last there is (`WriterInv`); an attribute is pending only while
its data set does not exist (`PendingInv`); its last value stands in the last of
the four places it passes (`StandingInv`). Without `PendingInv` an old pending
value could replace a newer one in the file.

*EventFetcher.* `FilterInv` says what the filter remembers of the stream so far:
the time of the last SYNC, and, when SYNCs are selected by the window, whether
an event that passes has followed it. The rest of `FetcherInv` (`Exact`) is the property without its allowance for strays, which
the code does return: nothing is left out.
The step is `DueOfMore`: of a stream that goes on with one more batch, what is
due is what was due before and what the filter makes of that batch, in which the
last SYNC stands first again. A SYNC that was withheld becomes due by an event of
a later batch, behind everything that was due before it, and this is why `Wanted`
only ever grows at its end. Both sides pick elements of a sequence at a set of
places; `Lists` and `Picks` say so without counting, and that a set of places has
one list only (`ListsAgree`) makes two such sequences equal once their places
correspond. The prover has no induction over sequences; where one is needed the
proof takes the smallest counterexample (`Smallest`), which exists because `<` is
well founded on the naturals.

*Transports.* `BytesAreKept` needs `WireInv`: what is in the buffer and on the
line ends with a whole reply. Each read is shown to return the first bytes and
to keep the others in order (`Keeps`), or to give up with all of them.

*Drivers.* A rule speaks of a whole program, the invariant of what is left of it
(`todo`) and of its except block. Whatever a step does, the program goes on with
a part of what was left (`GoesOn`: behind the step, behind the end of an `if`, or
with the error queue read in front of it), or raises into the except block or
out of the method (`RaiseEffects`); so each rule is shown once to hold for every
such rest (`...Left`). `OpeningInv`: nothing has happened yet, or the transport
is open and what is left marks the instrument open without anything that may
fail, or in a try block, or is the one step that closes the transport before the
exception goes on. `ClosingInv`: nothing has happened yet, or only the transport
is left to close. Both need that an open instrument has an open transport
(`TransportInv`), which is true between the calls because methods do not close
(`MethodInv`). `LeavingInv`: a method in the CONFIGURATION state has a `leave`
ahead that no `if` jumps over. `ProgramInv` and `ReplyInv` are for `InSync`: what
the instrument has sent and nobody has read is nothing, one reply, two, or the
second byte of one, and the steps left begin with the reads of just that
(`Matches`). What a read takes is a prefix (`Cut`), for a line the first one, so
that the rest matches the steps after it. While a reply is awaited for minutes
it may be there at any moment, before or between the replies to other queries,
so that these may change places; but as many are read as were asked for
(`WaitsFor`), and the last of them is found by the next `poll`. Only a reply that
was lost or late (`clean` is false) ends this, until the line is empty again.

`NothingLeftBehind` (nothing in the queue of a thread that has ended),
`EndStaysFinal` (a state that stands for the end of a task is never left) and
the type theorems are stated for the reader and not checked by a run of their own.

Only model-checked:

- The liveness properties (`EveryCallAnswered`, `RemovalCompletes`,
  `StopEndsTask`, `SubscribeReturns`, `EveryRequestAnswered`,
  `NamesAreResolved`, `BurstEnds`). The prover does not support liveness under
  fairness.

That a driver keeps to the rules is looked up by TLC in the tables; a theorem
about the 43 programs themselves would be the same evaluation. The parts of these
invariants were checked as invariants of the 43 drivers before they were proved.

## 5. Mutants

Every property of a passing run has a mutant in `PROJECT.json`: a version of a
mapped definition with a plausible bug in it, defined next to the original
(`Acquire_Steals`, `RejectRequest_Silent`, `Follows_ReadFirst`, ...), which
makes TLC find the property violated.

## 6. Where the code and its documentation disagree

* `force_unlock()` of an object that is not locked (`qmi/core/rpc.py:1134`)
  leaves `return_token` unbound. The exception ends the RPC thread and the
  caller waits forever (`rpc_force`).
* `QMI_TaskRunner.stop()` "returns immediately" (`qmi/core/task.py:653`), but it
  is an RPC method like `join()`, which keeps the only thread that could serve
  it until the task ends (`task_stop`).
* Policy SKIP is said to "try again at the next period"
  (`qmi/core/task.py:131`); the code starts the next iteration at once
  (`loop_skip`).
* `subscribe_signal()` "blocks until the subscription is established"
  (`qmi/core/pubsub.py:668`). If the publisher is removed after the second check
  of `_handle_subscription_request()` and before the reply is posted
  (`qmi/core/pubsub.py:1003`), the notice of its removal arrives first and the
  positive reply second: the subscriber keeps a subscription that the
  publisher's context has dropped, and it stays silent when the publisher is
  made again (`pubsub_known`). `SubscriptionsAgree` shows that there is no
  other way to get one.
* "Discard any pending response that was meant for a previous command"
  (`cryostation.py:173`): `discard_read()` drops what has arrived and no more.
  A burst is carried out and its OK comes late; the driver turns the heater off
  "to ensure a safe situation" (`cryostation.py:647`), takes the late OK for the
  answer, and when the cryostat has refused to turn the heater off it is at 10 W
  with its flag cleared, no timer, and nothing reported but the time-out of the
  call (`heater_late`).

Met while modelling, and visible in the models, without a run of their own:

*Messages.*

* A request that is posted after `stop()` has begun is dropped without an answer
  (`late` in `MessageRouter`), although `send_message` is documented to raise an
  exception if a message cannot be routed (`qmi/core/messaging.py:1480`).
* A request whose arguments `pickle` refuses raises in the event loop
  (`qmi/core/messaging.py:1114` catches `ValueError` and `OSError` only) and its
  caller waits forever; one whose result is refused waits until the connection
  ends (`Unpicklable`).
* Of two threads that connect to the same peer at once the second one gets an
  `AssertionError` (`qmi/core/messaging.py:1052`).

*Context.*

* When a port is taken, `start()` raises and leaves the router running in a
  context that can neither be started again nor stopped
  (`qmi/core/context.py:531`).
* An object caught by `stop()` or `remove_rpc_object()` between its entry in the
  map and its registration (`qmi/core/context.py:898`) makes that call raise: the
  name stays reserved, or the objects that follow are not stopped
  (`abandoned`).

*Opening and closing instruments.*

* `QMI_Instrument` asks subclasses to call `super().close()` last
  (`qmi/core/instrument.py:126`). A driver that does so and whose transport
  fails to close remains open for good: the next `close()` is refused by the
  transport, the next `open()` by the instrument (`Unclosable`).
* The `open()` of several drivers talks to the device after the transport is
  open and without a rollback, or marks itself open first (`HalfOpen`).
  A second `open()` of a `K10CR1` or `K10CR2` that is open closes its transport
  and leaves it marked open.

*Replies that are read by somebody else.*

* A partial calibration of `SMBV100A` sends up to three queries and reads one
  reply. A method of `K10CRx`, `KDC101`, `MPC320` or `MFF10X` may meet a message the controller
  sent by itself; `SSA3000X` sends a welcome message that may come after it was
  discarded; `SDS1202XE` checks a reply before it has read the rest of it
  (`LeavesReplies`).
* The socket transports return a buffered message from `read_until()` although
  the transport is closed; `QMI_Vxi11Transport.read_until` returns a message
  from its buffer without its terminator.
* `TC200` decides whether to toggle an output by a status it may have read from
  an earlier reply; so do the power-safety checks of the Rohde & Schwarz drivers.
* `AWG5014.set_jump_target_definition` asks with a command that has no reply.
  `CPSC` waits for lines without a timeout. `AptProtocol._clear_buffer` keeps
  what is in `_read_buffer` when nothing waits in the port.
* `SMC100CC` and `SMC100PP` stay in the CONFIGURATION state when a step between
  entering and leaving raises; `SMC100PP` leaves in one method a DISABLE state
  that it has not entered.

*Threads of drivers.*

* Turning the heater off is repeated after `QMI_InstrumentException` and
  `QMI_TimeoutException` only (`cryostation.py:630`); any other exception ends
  the timer thread and leaves the heater on (`doomed`). That case the driver
  reports; the late answer above it does not.
* `activate()` resets the pending events of a time tagger but not its
  `_EventFilter`: the last SYNC of a measurement counts for the next one, and may
  be returned in it. While events are blocked the filter is not given any,
  although it needs "a single TTTR event stream, processed in order, without
  missing events" (`_events.py:353`).
  What is returned for an event beyond such a gap is a stray in `EventFetcher`,
  of which `EventsAreExact` claims nothing.
* A SYNC is kept when an event *follows* it (`_events.py:420`); the
  documentation of `set_event_filter` says "either preceded or followed by a
  non-SYNC event" (`_picoquant.py:749`). `EventsAreExact` is about the former;
  of the latter the code does only half.
* An error while reading the FIFO ends the fetching thread, and one while
  joining recorded arrays the writer of the recorder; no later call tells of
  it (`FetchFails`, `WriteFails`).
* Attributes set without any data are written when data comes or at `close()`,
  not after `write_interval`.

## 7. Not modelled

Signals other than the one in `PubSub`, which share no state with it; the
contents of receive queues. Float rounding in the loop task (the number of
missed periods is the integer part of a quotient of floats,
`qmi/core/task.py:861`); contents of messages, arguments and results, except
whether `pickle` accepts them; TCP buffers that are full: the wire of
`MessageRouter` holds any number of messages, and whether two event loops can
block each other in `sendall()` is not decided here. UDP discovery. The
construction of proxies and class descriptors; several client threads sharing
one proxy. In `LoopTask`, `loop_prepare()` raising leaves out
`loop_finalize()` (`qmi/core/task.py:828`); nothing says which is wanted.

Of the drivers: what is sent and how replies are parsed; settings of the
transports; the helper threads of other drivers; the decoding of time-tagger
records and the histograms; a filter that is changed during a measurement.
The drivers that call a vendor's library (Zurich Instruments, ADwin, Bristol,
Picotech, wlmData and others) are not modelled: their steps are in libraries
that are not in this repository. The components without a module are listed in
`PROJECT.json` with the reason.

## 8. Plan

Done: `RpcObject` with `LockService`, `TaskRunner`, `LoopTask`, `PubSub` and
their proofs; `MessageRouter`; `Context`; `Transport`, `Programs`, `Instrument`
and the drivers; `PlatformHeater`, `EventFetcher`, `HDF5Recorder`.

Proved: the invariants and action properties of the runs, and the refinement of
`LockService`.

Left, most important first:

1. The type invariant of `Instrument` for the message transports and VXI-11.
2. Two event loops that block each other in `sendall()`, with bounded sockets.
