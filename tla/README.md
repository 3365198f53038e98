# Slack in TLA+

Slack (`src/`) is a C++11 network library in the one-loop-per-thread style of
muduo: a reactor (`EventLoop`) per thread, TCP connections and clients on top of
it, timers, a small HTTP server, asynchronous logging, and the thread primitives
they need. This directory holds TLA+ specifications of the parts whose
correctness depends on the order of steps of several actors, TLC configurations
that check them, and theorems, in eight modules, about all components that have a module
with a specification of its own, checked by TLAPS.

All paths below are relative to the repository's code, `src/src/`.

## 1. The system

```
   user's threads        base loop's thread            IO loops' threads
   --------------        ------------------            -----------------
   runInLoop, quit  -->  EventLoop                     EventLoop (EventLoopThread)
   send, shutdown   --------------------------------->   |-- wakeupChannel_ (eventfd)
   runAt, cancel    -->    |-- TimerQueue (timerfd)      |-- TimerQueue (timerfd)
   connect, stop    -->    |-- Acceptor -> TcpServer --> |-- TcpConnection, Channel
                           |-- Connector <- TcpClient    |-- EpollPoller
   LOG_x -> AsyncLogging::append -> back-end thread -> LogFile
   run   -> ThreadPool queue -> worker threads
```

### Inventory

| Component | State it keeps | Operations | Interacts through | What is hard about it | What makes it correct |
|---|---|---|---|---|---|
| `net/EventLoop` | `looping_`, `quit_`, `pendingFunctos_`, `callingPendingFunctos_`, `activeChannels_`, the eventfd | `loop`, `quit`, `runInLoop`, `queueInLoop`, `wakeup`, `handleRead`, `doPendingFunctors` | any thread queues functors; the eventfd ends `epoll_wait` | the decision in `queueInLoop` not to wake the loop; a quit between test and poll; functors that queue functors | no functor or quit is slept on; functors are first in, first out, run once; channels are not starved |
| `net/EventLoopThread` | `loop_`, the thread | `startLoop`, `threadFunc`, destructor | condition variable with the owner; `loop_` points to the thread's stack | a `loop_` that dies under the destructor, a quit that comes before `loop()` | `loop_` never dangles; `startLoop` and the destructor return |
| `net/TimerQueue` | `timers_`, `activeTimers_`, `cancelingTimers_`, `callingExpiredTimers_`, the timerfd | `addTimer`, `cancel`, `handleRead`, `getExpired`, `reset`, `insert` | functors from other threads; callbacks that add and cancel | a callback cancels itself or a timer that expired with it; an expiration already past | the sets agree; every `Timer` has one owner; the timerfd is armed; a cancel is final |
| `net/TcpConnection` | `state_`, `reading_`, `outputBuffer_`, its `Channel` | `connectEstablished`, `send`, `shutdown`, `forceClose[WithDelay]`, `startRead`, `stopRead`, `handleRead/Write/Close`, `connectDestroyed` | its IO loop, the server's loop, the user's threads, the peer | partial writes, half-close, several reasons to close at once, the last reference dropped anywhere | callbacks once and in order; output before the FIN; closed once, removed from the poller, then destroyed |
| `net/Channel`, `net/poller/EpollPoller` | `events_`, `revents_`, `index_`, `channels_` | `update`, `remove`, `handleEvent`, `poll` | one per file descriptor, in the loop's thread | the three-valued index | `index_` agrees with the kernel's set |
| `net/TcpServer`, `Acceptor`, `EventLoopThreadPool` | `connections_`, the loops, `next_` | `start`, `newConnection`, `removeConnection`, destructor | functors between base loop and IO loops | destruction while connections live in other loops | the map holds exactly the open connections; every connection is destroyed in its own loop |
| `net/Connector`, `net/TcpClient` | `connect_`, `state_`, `channel_`, `retryDelayMs_`; `connection_`, `retry_` | `start`, `stop`, `restart`, `retry`, `handleWrite/Error`; `connect`, `disconnect`, `stop`, `newConnection`, `removeConnection`, destructor | timers, functors, other threads | retry timers that outlive what scheduled them, stop against an attempt under way, raw `this` | one attempt at a time, one under way as long as it is wanted, stop and destruction final |
| `base/ThreadPool` | `queue_`, `running_`, two conditions | `run`, `take`, `runInThread`, `stop` | producers and workers share a mutex | one `notify` per task and per place; `stop` against waits | nobody sleeps on work or room; bound and order kept; `stop` returns |
| `base/BlockingQueue`, `BoundedBlockingQueue`, `CountDownLatch` | a queue or counter, conditions | `put`, `take`; `wait`, `countDown` | threads | as ThreadPool | as ThreadPool |
| `base/Mutex`, `Condition`, `Thread` | pthread objects, `started_`, `joined_`, `tid_` | `lock`, `wait`, `waitForSeconds`, `start`, `join` | threads | arithmetic of the timed wait | the deadline is what was asked for |
| `log/AsyncLogging` | `currentBuffer_`, `nextBuffer_`, `buffers_`, `running_`; the back end's two spare buffers | `append`, `start`, `stop`, `threadFunc` | front-end threads and one back end exchange buffers | order over four places, dropping when the disk is slow, stop | no line lost, doubled or overtaken unless its loss is announced; there is always a buffer to give |
| `log/LogFile`, `LogStream`, `Logging` | file, `count_`, times of the last roll and flush; a fixed buffer; the global level | `append`, `rollFile`, `flush`; `<<` | one thread each | rolling twice in a second, a full buffer | every line goes to one file; a record is cut, never overrun |
| `net/Buffer` | `buffer_`, `readerIndex_`, `writerIndex_` | `append`, `retrieve`, `prepend`, `makeSpace`, `readFd` | one thread | three areas that move | contents are a queue of bytes, indices ordered |
| `net/http` | the parser's state and request | `parseRequest`, `onMessage`, `onRequest` | a connection's callbacks | requests in pieces, several in one piece | every request answered once, in order |

Every component is listed in `PROJECT.json` with what is and what is not
modelled, and under `hazards` the lines where each can go wrong.

## 2. The modules

| Module | Models | Built on |
|---|---|---|
| `FunctorQueue` | what `queueInLoop` promises: a first-in first-out queue of functors, executed one at a time | - |
| `EventLoop` | `EventLoop.{h,cc}` | implements `FunctorQueue` |
| `EventLoop_proofs` | theorems about `EventLoop` and `EventLoopThread` | `EventLoopThread` |
| `EventLoopThread` | `EventLoopThread.{h,cc}` around a whole `EventLoop` | extends `EventLoop` |
| `TimerQueue`, `MCTimerQueue` | `TimerQueue.{h,cc}`, `Timer` | uses of the loop what `FunctorQueue` says |
| `TimerQueue_proofs` | theorems about `TimerQueue` | `TimerQueue` |
| `TcpConnection`, `MCTcpConnection` | `TcpConnection.{h,cc}` with `Channel`, `EpollPoller` and `TcpServer` as far as one connection meets them | the loop's passes as in `EventLoop` |
| `TcpConnection_proofs` | theorems about `TcpConnection` | `TcpConnection` |
| `Connector` | `Connector.{h,cc}` | the loop's passes as in `EventLoop` |
| `TcpClient`, `MCTcpClient` | `TcpClient.{h,cc}` composed with `Connector` | extends `Connector`; of the connection uses what `TcpConnection`'s `CallbacksInOrder` says |
| `TcpClient_proofs` | theorems about `TcpClient` with its `Connector` | `TcpClient` |
| `EpollPoller` | `EpollPoller.cc` and what `Channel` keeps for it, as operators on a poller | - |
| `TcpServer`, `MCTcpServer` | `TcpServer.cc`, `Acceptor`, `EventLoopThreadPool`, with several connections, loops and descriptors | instantiates `EpollPoller`; the loop's passes as in `EventLoop`; of `TcpConnection` what decides a connection's life |
| `TcpServer_proofs` | theorems about `TcpServer` with its pollers | `TcpServer` |
| `Buffer` | `Buffer.{h,cc}`, as operators on a buffer | - |
| `HttpServer`, `MCHttpServer` | `net/http`: `HttpServer`, `HttpContext`, `HttpRequest` | extends `Buffer` |
| `HttpServer_proofs` | theorems about `Buffer` and `HttpServer` | `HttpServer` |
| `LogStream` | `LogStream`, `FixedBuffer`, `Logger`: what a log statement writes | - |
| `LogFile` | `LogFile.cc`, as operators on a log file | - |
| `AsyncLogging`, `MCAsyncLogging` | `AsyncLogging.{h,cc}` | extends `LogStream`, instantiates `LogFile` |
| `AsyncLogging_proofs` | theorems about `AsyncLogging` with its `LogFile` | `AsyncLogging` |
| `ThreadPool` | `ThreadPool.{h,cc}` | - |
| `BlockingQueue` | `BlockingQueue.h`, `BoundedBlockingQueue.h`, `CountDownLatch.cc`, `Thread.cc`, as the queues' unit tests use them | - |
| `Monitors_proofs` | theorems about `ThreadPool` and `BlockingQueue` | extends `ThreadPool`, instantiates `BlockingQueue` |

The correspondence of every definition to lines of code is `PROJECT.json`'s
`map`. The conventions shared by all modules:

* **Atomicity.** A section under a mutex is one step, and so is the code of one
  thread between two points where it touches what another thread may see. Where
  the code reads shared state and acts on it later without a lock, the two are
  two steps: the push in `queueInLoop` and the write to the eventfd; `quit_ =
  true` and its write; the test of `state_` in `TcpConnection::shutdown` and the
  assignment (variable `foreign`); `connect_ = true` and the functor in
  `Connector::start` (variable `calls`); `addTimer`'s call of `runInLoop` and
  its read of `timer->sequence()` (variable `adding`).
* **Callbacks.** User code runs inside a callback: the model enters it, lets it
  make any of the calls of the chosen program, and leaves it.
* **Assertions.** A failed `assert` ends the process (the default build is `Debug`,
  `CMakeLists.txt:5-6`). `TcpConnection`, `Connector` and `HttpServer` do not take the
  step that would fail; the properties `AssertionsHold`, `StartFindsIdle` (a conjunct of
  `AttemptInv`) and `OpenSetsMethodOnce` say that no such step is waiting to be taken,
  and name the cases in which one is. `TcpServer` does not guard its steps, and its
  `AssertionsHold` says that what they assert is true whenever one is next; except for
  the steps of the destructor, which stop where an assertion fails, and `Fails` says where.
* **Mutants.** Above several definitions stands the form a plausible mistake
  would give them, marked `Mutant:`. No specification uses them; they record,
  for each property, a mistake in the code it finds.

### EventLoop

`loc` is the place of the loop thread in `loop()`: at the test of `quit_`, in
`epoll_wait`, in the callbacks, before `doPendingFunctors`' critical section, in
its loop over the swapped vector. `pending` and `batch` are the two vectors. A
thread is in `caller = "wakeup"` between its push and its `write` to the
eventfd, a counter that saturates at `EventfdMax` as the kernel's does. `Poll`
returns the wakeup channel when the counter is not zero, any other channels that
are ready, or, with nothing, the timeout.

`FunctorQueue` has one sequence `todo`; `EventLoop` implements it with
`todo <- batch \o pending`, and the swap is a stuttering step.

The variable `early` marks functors the loop thread queued before it called
`loop()`: `queueInLoop` (`EventLoop.cc:187`) writes to the eventfd only for
another thread or while functors run, so nothing wakes the loop for these before
the first poll times out (10 s). `NoLostWakeup` and `PromptExecution` speak of
all others. The library itself queues from the loop thread outside `loop()` only
through `runInLoop`, which runs the functor at once.

### EventLoopThread

Adds the owner (`startLoop`, the destructor) and the thread's life around
`loop()`. The loop is any behaviour of `EventLoop` restricted to the time the
thread is in it. `otherQuit` records a `quit()` called by a functor.

The owner's wait for `loop_` is that of a condition variable. It tests `loop_`
(`testing`), and joins the wait set as it lets go of the mutex (`StartLoopWait`); a
notification takes it out of the set, and is gone when nobody is in it (`Notify`), and so
may a spurious wakeup; `woken`, it tests again. The thread sets `loop_` and notifies in one
critical section (`Publish`), before or after the owner has come to wait.

### TimerQueue

Timer objects are model values; one stands for the pointer and its sequence
number, so that `obj` can say whether it is allocated. Time is a counter of
ticks of 100 microseconds, the least delay `howMuchTimeFromNow` returns. `fd` is
the time the timerfd is armed for. `mailbox` is the loop's functor queue.
`handleRead` is one step up to its first callback (read the timerfd, `getExpired`,
clear `cancelingTimers_`), one entry and one return per callback, in which timers
may be added and cancelled, and `Reset`, which is `reset` and what follows.

### TcpConnection

Data are units: a message is `MessageLen` of them, and `write` takes any number,
or fails. `interest`, `index` are the channel's; the IO loop polls, deals with
the events one after the other in the order `Channel::handleEvent` has
(`revents` is what it has still to deal with), then runs the functors `mail`
held at the swap. `setup` is the program that uses the connection, chosen at the
start from `Setups`: whether there is one loop or two, whether the server is
destroyed, and what the user's code calls in the IO loop's callbacks and in
other threads. `holders` are the threads that hold a `TcpConnectionPtr`, and
`Alive` says whether any reference is left; `Shared` functors hold one, `Raw`
functors are bound to a bare `this`. `reading_` is not initialised
(`TcpConnection.h:185`), so it starts with what `setup` says its memory holds.

`~TcpServer` with IO threads is three steps, between which the IO loop and other threads go on.
`ServerDestroyed` clears the map and queues `connectDestroyed` in the IO loop. `QuitLoop` is
what the thread pool's destructor (`TcpServer.h:111`) comes to: the IO loop's thread object
tells it to quit. Then it joins it, and `LoopEnds` is the loop's leaving: at the test of
`quit_`, after the pass it is in, with the functors and timers it still holds, and the
references in them, dropped unrun. `connectDestroyed` is run or not, depending on where the loop
was. The base loop's thread is busy meanwhile, so `removeConnectionInLoop` is not run
(`RemoveConnection` needs `server = "up"`); what is left of it in the base loop when the server
is dead would use a destroyed object, and is no step of the model, nor is a call of another
thread that meets a loop that has ended (`ForeignCall`).

### Connector and TcpClient

`state`, `connect`, `channel`, `delay` are the members. Each outcome of
`connect(2)` that the `switch` in `Connector::connect` tells apart is a disjunct
of `Connect`: under way, to be retried, logged and given up. Timers cannot be
cancelled and are counted. `TcpClient` adds its own `connect_`, `retry_`, the
connection and the destructor, whose second-long timer is `keeper`.

### EpollPoller and TcpServer

`EpollPoller` is a module of operators: a poller is the record of `channels_`, the
kernel's set, and each channel's `index_` and `events_`; `UpdateChannel` and
`RemoveChannel` follow `Channel::update` and `remove` through the poller, and
`CanUpdate`, `CanRemove` are their assertions. The kernel's set maps a descriptor to
the channel `epoll_ctl` was given, as the code does with `data.ptr`.

`TcpServer` has one of them per loop. A loop polls, deals with the active channels
one by one (`active` is what is left), takes the pending functors, runs them
(`running`, `ran`) and drops them at the end; it is then that the references they
hold go, which may be the last ones, so `Alive` counts functors that have run.
`Accept` and `Refuse` are `Acceptor::handleRead` with and without a free descriptor:
the second closes `idleFd_`, accepts and closes, and takes it back. A closed
descriptor is the next to be given out, the lowest first. `setup` chooses the number
of IO loops, the limit of descriptors, what the message callback calls, how many clients
come, and whether the server may be destroyed, which is looked at without IO threads.

The destructor asks only for the loop's thread (`TcpServer.cc:43`). It may run in a functor or
in a callback of a timer or of a channel of somebody else's (`Destroy`, in any place among
the events and functors of a pass), and in the message callback of one of its connections
(`HandleMessage`; `handling` is that connection, which `handleEvent`'s guard keeps
alive). `polled` is all of `activeChannels_`, of which `active` is what has still to be handled:
`removeChannel` asserts that while events are handled a channel is removed only if it is the
one being handled or not in that list (`CanRemoveChannel`), and `Channel::remove` that it has
no events, which `connectDestroyed` does not see to for a half-closed connection. Where either
is not so, `Fails`, and the process ends; where both are, the connections and then the acceptor
are destroyed, the loop goes on with the rest of its pass, and nothing in it may be left of the
server.

### Buffer and HttpServer

A buffer is its cells and the two indexes, which count from 0 as in the code; cells
not yet written hold `Unset`. `MakeSpace` has the two cases of the code, growth and
compaction. The integer helpers are those of one width `n`, in network order and two's
complement.

`HttpServer` is one connection: a stream of lines, each of two units of which the
second carries the CRLF, is read in any pieces (`HandleRead`, one `handleRead` of
`TcpConnection` with `readFd` and the whole of `onMessage`). `ParseLine` is one turn of
`parseRequest`'s loop. A request line that is refused stays in the buffer, as in the
code, and is parsed again when more data come; when its method is known, that second parse
fails the assertion of `HttpRequest.h:54`, which ends the process, so such a read is no step
(`SetMethodFails`). Whether the connection is shut down after an answer is decided as in
`onRequest`: the response is constructed with `close` (`Closes`), the application's
`httpCallback_` may change that, and `response.closeConnection()` is tested after it
(`CloseConnection`). What the callback leaves there is a constant `HttpCallback`, a function of
the request's path and the value it was given: the default callback (`HttpServer.cc:25-30`)
always sets it, that of the test's program for paths it does not know. `Expected` is
the reference: the reply to the
stream's whole lines that have arrived (`Replies`, a recursive function of their number),
wherever it is cut. A client that waits for answers sends requests, one after the other
(`RequestsAssumption`). `AnswersFollowStream` compares the two; since a message handles
at most one request, the answers may lag, and `NothingLeftBehind` says for which
clients they do not.

### LogStream, LogFile and AsyncLogging

`LogStream` says what a log statement writes: the items of the header, the user's, and
those of `finish`, inserted one by one into a buffer of `SmallBuffer` bytes; a text that
does not fit is left out as a whole, and so is a number when fewer than
`MaxNumericSize` bytes are left. `Convert` and `ConvertHex` are the loops of `convert`
and `convertHex`, with the rounding of C++ and the table that has its zero in the
middle. The texts of header and tail (time, level, names) count one byte each.

`LogFile` is a module of operators on the record of a log file: the files rolled so
far, the open one, what stdio still holds of it (`buffer`), what is on disk under each name
(`disk`), and the members `count_`, `startOfPeriod_`, `lastRoll_`, `lastFlush_`. A file's name
is what `LocalTime` makes of the second it is opened in, and is not unique: when the local
clock goes back, the same name comes again, and `fopen` with `"ae"` continues the file that is there
(`Opened`). `append` reads the clock (`LogFile.cc:153`) and `rollFile` reads it again (`:200`); they are two
parameters, and the clock may be set, forwards or back, between any two reads. The next file
is opened before `reset` closes the old one and flushes it (`NextFile`).

In `AsyncLogging` a line is a number, that of the statement it comes from and so of
its size; a buffer is a sequence of lines, a moved-from pointer `NoBuffer`, which is none
(`NoBufferAssumption`). `InFlight` is every line and notice from the files to the current
buffer; `LinesInOrder` says that the lines in it ascend and are exactly those appended and
not dropped. `Swap` is the whole critical section of `threadFunc`; `Drop`, `Write` and `Recycle` are the back
end's own steps; `waitForSeconds` may end at any time. What a crash leaves is
what is on `disk`: `FilesInv` compares it with all that was written in every state, so a crash
need not be a step.

### ThreadPool

A thread inside `Condition::wait` is `waiting`; a notification, chosen among all
waiters, or a spurious wakeup makes it `woken`; with the mutex it tests its
condition again. `Take` and `TakeNothing` are `take()` with and without a task.

### BlockingQueue

The program of the two unit tests: `Main` starts the workers, each of which its
`Thread` waits for with a latch of its own; waits on the latch all workers count
down; puts messages, then one stop for each worker; joins. `capacity` is chosen at
the start, and with one that is never reached the bounded queue is the unbounded one.

## 3. What is checked

| Run | Module, bounds | What it shows |
|---|---|---|
| `eventloop` | `EventLoop`: two other threads, two functors, one more channel, eventfd up to 2 | no sleep on a functor or quit; implements `FunctorQueue`; functors and quit take effect without the poll timeout; channels not starved |
| `loopthread` | `EventLoopThread`: the owner, two functors, functors may quit, spurious wakeups | `loop_` valid whenever set, nothing destroyed is used, `startLoop` returns, with a loop, whichever of notification and wait comes first, and, once the loop runs, the destructor returns |
| `loopthread_dtor` | the same | **violated**: the destructor always returns (finding 1) |
| `timerqueue` | `TimerQueue`: loop thread and another, one repeating timer and one that does not, three times | sets agree, one owner, armed, cancel is final, due timers run |
| `timerqueue_add` | the same | **violated**: `addTimer` reads a live `Timer` (finding 2) |
| `tcp` | `TcpConnection`: five programs, messages of two units, high-water mark 2, at most 3 units of output, at most 2 functors of the user's | callbacks, assertions, output and FIN, closing, also under a server that is destroyed and ends the IO loop |
| `tcpclient` | `TcpClient`: three programs, delays up to 3 units | one attempt, always under way, assertions, stop, destructor, connects in the end |
| `server` | `TcpServer`: four programs with two, one and no IO loops, up to three clients, as many descriptors as they need or fewer, the server destroyed in any callback in one of them | assertions of server and pollers with descriptors used again; no pointer to what is destroyed, in pollers and lists of active channels; closed connections are freed; every client served or refused |
| `http` | `HttpServer`: every pair of eight requests, waiting client or not, every cut into pieces, a callback that sets, clears and leaves the close flag, a buffer that must move and grow | answers follow the stream and end with the one whose response closes, none is missing for a client that waits, every request starts with a fresh context, the buffer holds exactly what is not consumed, and integers put before or behind it read back |
| `asynclogging` | `AsyncLogging`: six lines of several sizes, buffers of one line or two, more than two buffers are dropped, files rolled after one or two writes, clock of three seconds set at will between any two reads, the third of which has the local time of the first | order through buffers and files, announced losses, buffers suffice, files opened one after the other and, under a name that comes twice, all that was written to both, records cut properly, lines get to disk, stop returns |
| `threadpool` | `ThreadPool`: two producers, two workers, four tasks, queue of two | order, bound, nobody oversleeps, stop returns |
| `queues` | `BlockingQueue`: three workers, three messages, capacities 1, 2 and unlimited | nobody sleeps on a message, place or count; messages are put when all run; the program ends |

### Why the bounds are enough

* `eventloop`: a lost wakeup needs one thread between push and write, one
  functor in each vector and the loop in any place; a second thread lets writes
  merge in the counter, and an `EventfdMax` of 2 lets one find it full. Functors
  queue each other, so two of them keep the loop busy for ever.
* `loopthread`: the object has one owner by its interface, and so the wait set one
  waiter.
* `timerqueue`: self-cancel, a cancel of a timer that expired in the same read,
  and adding inside a callback each need at most two timers; three times are an
  expiration in the past, present and future, and let the repeating one fire twice.
* `asynclogging`: the front end can fill current, next, and new buffers beyond
  both; more than `DropAbove` of them (2 here, 25 in the code, the least value for
  which what is kept refills the two spares) are dropped, and lines written after a
  drop are needed to see that it is announced: six lines, of which most fill a
  buffer, give five buffers. The four statements have numbers of both signs, a
  record without room for its line's number, one with `errno`, and a text too long to be
  inserted. A clock of three seconds, with `Day` 3, has rolls refused within a second,
  by a clock set back, and at a new day; two of the seconds have one local time, so that a
  file is opened that is there, also the one that is still open.
* `threadpool`: the classic failures (a notification to the wrong thread, an
  `if` for a `while`, two producers woken for one place) need two of each side and
  more tasks than places.
* `tcp`: partial writes need messages of more than one unit; an output that
  crosses the high-water mark and drains again needs 3; two functors of the user's
  beside the library's own overtake each other in all ways. The first program has
  a server that may be destroyed at any moment, and with it the IO loop at any place of its
  pass; the second has a loop of its own for the connection, the third shares the server's,
  and the last two switch reading off and on and close from another thread.
* `tcpclient`: the delay of 3 is reached through 1 and 2, so the back-off doubles,
  is cut, and stays.
* `server`: round robin needs two IO loops and three clients; a descriptor is used
  again while its former owner is still being destroyed with one client more than
  descriptors. With three clients without IO threads the destructor meets, in one pass, events of
  the acceptor and of connections, some handled and some not, closed connections whose
  `connectDestroyed` is queued, and half-closed ones.
* `http`: two requests are the least for pipelining, for `reset` to matter, and for a
  request behind one that closed; the eight have each way to close by version, header
  and callback, and each way to be refused. The buffer's three cells behind two for prepending
  are less than one request needs, so it is compacted and grown in most behaviours, and
  `extraBuf` of 4 is used.
* `queues`: three workers, a capacity of one: notifications to a worker that is not the
  one that takes, and spurious wakeups, between two waiters and one awake.

### Fairness

Safety properties are checked under specifications whose fairness does not
matter to them. The liveness properties assume:

* `EventLoop`: the loop thread runs, callbacks and functors return, a thread
  that pushed goes on to `write`, `epoll_wait` returns when the eventfd is readable
  (it is level-triggered). Nothing is assumed of the 10 s timeout, so no property
  waits for it.
* `EventLoopThread`: both threads run; the owner need not start or destroy. Nothing is
  assumed of spurious wakeups, so an owner in the wait set comes out only by the notification.
* `TimerQueue`: the clock advances, and the loop runs as above.
* `AsyncLogging`: the back end runs; its wait ends by itself (`waitForSeconds`).
* `ThreadPool`, `BlockingQueue`: threads that are not in a wait run, tasks return;
  nothing is assumed of which waiter a notification picks, nor of spurious wakeups.
* `TcpServer`: every loop's thread runs, through the destructor too. Nothing is assumed of
  the clients.
* `HttpServer` has safety properties only, and no fairness.
* `TcpConnection`: loops run, the delay timer fires, a destructor of the server goes on to
  make the loop quit and waits for its end; strong fairness says that a
  peer takes data in the end from a socket that is reported writable again and again.
* `TcpClient`: loops run, timers fire; strong fairness says that a server that
  refuses again and again accepts in the end, which only `ConnectsInTheEnd` uses.

`CHECK_DEADLOCK FALSE` stands where the system may stop: the thread, pool or program
has ended, the connection is closed or destroyed, the client stopped, the last client
served and the server idle or destroyed.

## 4. What is proved

For every value of the constants allowed by the named assumptions
(`ThreadAssumption`, `FunctorAssumption`, ... in `EventLoop`;
`WorkersAssumption`, ... in `ThreadPool`; `SizeAssumption` in `Buffer`; ...), which TLC also
evaluates on every run.

`EventLoop_proofs`:

* `TypeCorrect`, and `LoopInvariantHolds`: `NoLostWakeup` is not inductive, as it
  says nothing of the places between two polls. `LoopInvariant` does: from the
  swap of one iteration to the poll of the next, every pending functor that is not
  `early` has a wakeup under way, because it was pushed by another thread (which is
  still to write, or has written, and the loop does not read between the swap and the
  poll), or by a functor while `callingPendingFunctos_` was set; between the poll and
  the swap none is needed. That the flag is set exactly in the loop over the batch is
  part of the invariant.
* `NoWakeupIsLost` follows at once. `NoQuitIsMissed`: `NoMissedQuit` is inductive given
  `LoopInvariant`, since the loop reaches the poll only through a test that found
  `quit_` false, what is set after it is followed by a write, and only `handleRead`,
  which comes after the poll, takes a write away.
* `EventLoopImplementsFunctorQueue`: initial states and steps map.

`Monitors_proofs` is about two monitors that do not meet, the thread pool and the queues. It
extends `ThreadPool` and instantiates `BlockingQueue` as `Queue`. Of the pool:

* `TypeCorrect` by the invariant `PoolInv`, which adds that a producer inside `run`
  has its task and that no worker waits once `running_` is false.
* `TasksStartInOrder`, `QueueKeepsBound`, together `QueueIsKept` (`QueueKept` of run
  `threadpool`): no assumption on the number of producers or workers.
* `NoWorkerOversleeps`, `NoProducerOversleeps`: `notify` (not `notifyAll`) suffices
  on both conditions. Each is inductive together with `PoolInv`: a task added wakes
  one worker, so tasks and awake workers grow together (`QueuedIsAnswered`); a worker
  leaves the awake ones only with a task or on finding the queue empty; and likewise
  a place freed wakes one producer, and a woken producer sleeps again only on a full
  queue. The proofs count with the library's facts on `Cardinality`, so both sets of
  threads are assumed finite.

* `PoolNeverOversleeps` puts the two together as the `NobodyOversleeps` of run
  `threadpool`.

Of the queues, for any number of workers and messages and any capacities (the assumptions of
`BlockingQueue`, which are hypotheses here: `QueueAssumption`): `QueueHandsOver`, its
`QueueInv`. The inductive `BlockingInv` says where `Main` and the workers can be together
(`Places`, `Starting`), that the latch counts the workers that have not counted down
(`LatchInv`), and that there are at least as many workers about to take as messages while any
worker waits (`WorkersAwake`): `notify` wakes one, and one is awake for each.

`HttpServer_proofs`, of buffers of any content and size whose indexes are in order
(`WellFormed`) and whose readable cells have been written (`Unset` is not a byte):

* `AppendAddsAtTheEnd`, `ReadFdAddsAtTheEnd`, `RetrieveTakesFromFront`, `PrependPutsInFront`,
  `ShrinkKeepsBytes`: the buffer is a queue of bytes, and every operation leaves it well-formed. They rest on
  `MakeSpaceKeepsBytes`, whose two cases, growth and compaction, are the lemmas on copied
  and on grown cells; that in the second the bytes are moved forward, which its assertion says
  (`Buffer.h:399`), and to where they fit is the arithmetic of `makeSpace`'s condition, and
  needs nothing of what was prepended.
* `IntegersKeepTheirSign`, for every integer of 1, 2, 4 and 8 bytes: its bytes are the
  remainders of its quotients by 256, the first is a signed byte, and what they add up to is
  the integer again. `IntegersAreReadBack` puts one in front of or behind any content.

Of `HttpServer`, for all streams of lines, sizes of the buffer, ways the stream is cut, and
callbacks that decide by path and by what the request asked for whether the response closes:
`AnswersInOrder` (`AnswersFollowStream`), `AllAnswered` (`NothingLeftBehind`), `FreshContexts`
(`OpenSetsMethodOnce`) and `BufferHoldsTheRest` (`BufferInv`), from the inductive `HttpInv`.
That the answers are a prefix of the expected ones says nothing of where the parser is.
`HttpInv` does: the connection has consumed the first `p` lines, its buffer holds the rest of
what arrived (`Consumed`), and, while it is open, the context and the answers are those of the
reply to these `p` lines (`Agrees`, `OpenInv`); when it is closing or closed, the answers are
those of some number of lines, which end with the one whose response closes, or that was
refused, if the server closes it (`ClosedInv`). Between requests of an open connection the
context is a new one, and so no request has its method before its line is parsed
(`FreshContexts`); after a refusal it may, as section 5 says. `parseRequest`'s loop keeps this
turn by turn (`Follows`), and ends with what its caller asks for. A longer stream only adds
answers (`RepliesGrow`), hence the prefix. A client that waits has as many answers as the lines
consumed have ends of requests, so nothing has been sent behind a complete request
(`AllIsRead`). `RequestsAssumption` is needed there: the answer to a client that sends a header
where a request belongs is a refusal it has not waited for.

`TimerQueue_proofs`, for any threads, timers, intervals and times: `TimersKept` (`TimerInv`:
the sets agree, one owner, armed) and `CancelSticks` (`CancelIsFinal`), from the inductive
`TimerQueueInv`. That a timer has one owner says nothing yet of an addition that is queued
twice or of a cancel that meets a timer being called back, so the invariant adds who may have
a hold of a timer (`Created`), that an addition is queued once and that what this iteration
has still to run is there (`MailboxInv`), that `callingExpiredTimers_` and the list of expired
timers are those of the `handleRead` being executed (`ReadInv`), and where a cancelled timer
can be: nowhere, or expired and in `cancelingTimers_` (`CancelInv`). Timers cancelled before
their addition was executed (`tooEarly`) are excepted, as they are in the code.

`EventLoop_proofs`, of `EventLoopThread`: `ThreadRunsEventLoop` says that thread and owner do to
the loop only what `EventLoop` allows its users, so that all that is proved of `EventLoop`
holds of it. `OwnerIsSafe` (`OwnerInv`) rests on `LoopOutlives`: until the destructor has
read `loop_`, and when nobody else calls `quit()`, the loop has not been told to end. That
`startLoop` does not return without a loop is its test after every wakeup.

`AsyncLogging_proofs`, for any statements, sizes of buffers, `DropAbove` of at least 2, file
sizes and clocks. `CapacityAssumption` says that a record's buffer is no larger than one of
`AsyncLogging` (`kSmallBuffer`, `kLargeBuffer`), and `NumericSizeAssumption` that
`kMaxNumericSize` holds any number inserted, which the code asserts when it is compiled
(`LogStream.cc:116-126`):

* `BuffersAreEnough` (`BuffersInv`). `RoundInv` follows what the back end gave away: it gives
  its first spare always and its second only when the front end lacked one, which it does
  only when two buffers at least are full (`SpareUnlessFull`); so what it keeps after a drop
  replaces both.
* `LinesKeepOrder` (`LinesInOrder`), which is inductive with `RoundInv`: each step either
  regroups the same lines or takes out the lines of whole buffers, and the lines of the files
  are those of `File!Contents`, whatever is rolled.
* `FilesAreRolled` (`FilesInv`), by `FileInv`, which is kept by every operation of `LogFile`,
  for any `LocalTime` and any times in the two reads of the clock. Names may repeat: what is on
  disk under one is what was written to all files of that name, in order, but for what stdio
  holds of the open one, also when the file opened next is the one being closed.
* `RecordsAreWhole` (`RecordsInv`). `convert` and `convertHex` are read back by an induction on
  the size of the number (`DecimalReadBack`, `HexReadBack`); a record and what it would be
  without a limit agree item by item for as long as a longest number still fits (`RecordCut`); and
  no buffer is full because `append` looks at the room before it adds a line to one with
  lines, and any line fits in an empty one (`AppendFits`).
* `DropsAreAnnounced` (`DropsAnnounced`). The property is about the files only and so not
  inductive: `DropsInv` says of all lines in flight that a line dropped has a notice before its
  gap, also when the gap is at the end (`Told`), that the front end's lines are newer than any
  dropped, and that a buffer holds less than `Capacity`, so the two buffers kept hold less than
  twice that. A second drop before the first gap is closed puts its notice nearer.

`TcpConnection_proofs`, for every program of `Setups`, sizes and initial values of `reading_`:

* `OutputIsNotForgotten` (`OutputInv`) holds for every program, also for those that close from
  other threads. It is inductive with what there is before `connectEstablished` (`Pristine`)
  and what `state_` says of the callbacks made (`History`).
* `CallbacksComeInOrder` and `AssertionsNeverFail` for programs that are `Confined`. The invariant
  is the life of a connection as phases (`Phases`), each with who will destroy it (the map, a
  functor that is queued exactly once, or nobody any more), which events its channel has and
  what the poller has of it, and that only an open connection has events left that may close
  it (`EventsOfOpen`). A server that is destroyed hands each phase to the same phase with a queued
  `connectDestroyed`, and a loop that ends takes it to one in which nothing is left to run.
  `AssertionsHold` excepts three situations, all with a server that is destroyed, in which the
  code does fail (section 5): a connection it finds half closed, one whose loop ends before
  `connectDestroyed`, and a `removeConnectionInLoop` that is left for a dead server.

`TcpClient_proofs`, for any programs, threads and `MaxDelay`:

* `OneAtATime` (`AttemptInv`). To count attempts is not inductive: `Places` says instead where
  the one attempt is (a start called or queued, a timer, a channel, a connection) or that there
  is none, and what `state_` and the channel are there; that the reset of a removed channel is
  queued exactly once is `ResetQueued`. A start finds the connector idle because a
  channel that was removed is reset before the next poll unless nothing is to be connected
  (`ResetInv`).
* `StopsAreFinal` (`StopIsFinal`): from the call of `stop` on, `connect_` stays false and the
  connection will not be made again (`StopInv`). `DestroyedIsLeftAlone`
  (`DestroyedIsNotCalled`): a client is destroyed with no connection, which clears `connect_`,
  or with one, whose close callback it replaces (`Orphaned`).

`TcpServer_proofs`, for any number of IO loops, descriptors and clients: `Lifetime`
(`LifetimeInv`) and `Assertions` (`AssertionsHold`). Whether a channel outlives its connection
depends on every reference there is, so `ServerInv` says, of each connection, how far it is and
which of its functors are queued where and how often (`StageOf`, `FunctorsInv`); of each poller,
that map, kernel's set and `index_` are those of the connections of its loop at their stages
(`PollerOf`), which is where `EpollPoller`'s operators are used; that an event still to be dealt
with is of a channel that is open now (`ActiveInv`), although it was polled before others were
handled; and that no two living connections have a descriptor in common (`FdsInv`), so one that is
used again meets nothing of its former owner. The destructor may run in any callback and for any
setup. That the events left are of living channels then rests on `EventLoop.cc:235-240`: what is
removed is not active (`LoopInv` says that what is `active` is among `polled`, and that a
connection being handled is alive and no longer active). `AssertionsHold` leaves out the two
assertions that the destructor itself can fail: there the process ends (`Fails`), and nothing
is claimed of what would follow without assertions.

The inductions these proofs need are over sets of natural numbers: one that is not empty has
a least member (`LeastNatural`, from the well-foundedness of strict inclusion on finite sets),
since the library's induction theorems take an operator as a parameter, which no backend
instantiates. `AsyncLogging_proofs` uses it also to show that the recursive function inside
`FlattenSeq` exists and is unique (`FlatExists`, `FlatUnique`), and from that how `FlattenSeq`
meets concatenation; it and `HttpServer_proofs` show the same of the recursive functions of
their models (`Recursion`). Every inductive invariant was checked by TLC on instances like those of
the runs before it was proved.

The type invariants of `EventLoop` and `ThreadPool` are proved and so left out of their
runs; those of the others are conjuncts of invariants the runs check (`OwnerInv`,
`TimerInv`, `BuffersInv`, `AttemptInv`, `QueueInv`, `LifetimeInv`, and `AssertionsHold` in
run `tcp`), which are proved too. `LoopInvariant` is proved as well and
not part of a run any more.

Only model-checked are the liveness properties: fairness and `ENABLED` are beyond the prover.
Every invariant of the runs that are to pass is stated by a theorem.

## 5. Findings

Runs that are expected to be violated, each against a line of the repository:

1. `~EventLoopThread` may never return: `loop()` sets `quit_ = false`
   (`EventLoop.cc:119`) after a destructor that ran between the publication of
   `loop_` and `loop()` set it.
2. `addTimer` in another thread reads `timer->sequence()` after the loop may have run
   and deleted the timer (`TimerQueue.cc:136`).

Seen while modelling, without a run of their own. Where a property has an exception for one of
these, TLC shows a trace to it as soon as the exception is taken out:

* `EventLoop.cc:187`: the loop thread's `queueInLoop` before `loop()` wakes nobody
  (`early`).
* `EventLoopThread.cc:49-52, 77-78`: a functor that quits the loop before the owner
  looks leaves `loop_` null, and `startLoop` waits for ever (`StartLoopReturns`
  excepts it).
* `TimerQueue.cc:158`, `EventLoop.h:88-89`: a cancel in the loop thread overtakes the
  addition of its timer by another thread and is forgotten (`tooEarly`).
* `ThreadPool.cc:63, 144`: `stop` leaves the tasks queued; a producer blocked in
  `run` at that time stays there.
* `TcpConnection.cc:209-235` (the header, `:88`, calls it not thread safe): a
  `shutdown` or `forceClose` of another thread may set `kDisconnecting` on a closed
  connection. The properties that rest on `state_` are stated for programs that close
  in the IO loop (`Confined`).
* `TcpConnection.cc:329`, `Channel.cc:62`: `connectDestroyed` leaves the channel's events alone
  when `state_` is not `kConnected`, so a server destroyed while one of its connections is
  half-closed fails the assertion that the channel has none. TLC finds it in both `TcpConnection`
  and `TcpServer` when the exception is taken out of `DestroyFindsNoEvents`, or the first
  conjunct of `CanDestroyConnection` is asserted.
* `TcpConnection.cc:78`: with IO threads, `~TcpServer` queues `connectDestroyed`
  (`TcpServer.cc:52`), and then the thread pool's destructor makes the IO loop quit and joins it. A
  loop that was running functors, or about to test `quit_`, leaves at `EventLoop.cc:123`
  without another pass: the connection is destroyed in `kConnecting` or `kConnected`, with its
  channel in the poller (`DestroyedClean` excepts it).
* `TcpServer.cc:104, 111, 121`: the closing callbacks bind a bare `this`. A connection that closes
  in its IO loop before or while the server is destroyed leaves `removeConnectionInLoop` in the base
  loop, which runs it, if it goes on, for a server that is dead (`RemovalFindsConnection`
  speaks of a server that is up).
* `TcpServer.cc:43`, `EventLoop.cc:235-240`: the destructor asks for no more than the loop's
  thread. In a callback, while the acceptor or a connection is among the channels the same poll
  reported, `removeChannel` fails its assertion; without assertions the loop goes on to the
  destroyed channel (`EventLoop.cc:135-139`). `Fails` describes it.
* `TcpConnection.cc:405`, `EpollPoller.cc:121-138`: after `stopRead` with no output
  the channel is `kDeleted`; closing then adds it again with no events, and a hang-up,
  which is always reported, closes a second time. `startRead` after the close adds the
  descriptor again. Such programs are run, without the properties of `Confined`.
* `TcpClient.cc:167`: a `stop` of another thread between the test in
  `removeConnection` and `restart` is undone: `connect_` is true again, and the start may
  find the channel of the attempt that was stopped. `StopIsFinal` and `StartFindsIdle` are
  stated for programs in which no other thread stops a client that reconnects (`Ordered`).
* `Connector.cc:47, 68` (marked `FIXME: unsafe`): functors bound to a bare `this`
  outlive the connector when the client is destroyed right after `stop`, or in the pass
  that made the connection. The model lets such a functor do nothing (`ConnectorAlive`).
* `Connector.cc:64-81`: `stop` during an attempt whose `connect_` another call has set
  again retries; `TcpClient::connect` after a connection has ended without retry, or
  after `stop`, finds `state_` not idle, or a channel, and fails the assertion at `:53` or
  `:141`.
* `AsyncLogging.cc:82`: `stop` sets `running_`, and the loop ends without another exchange:
  lines appended since the last one are never written. `StopJoins` says only that `stop`
  returns, and `LinesReachDisk` speaks of a logging that runs.
* `Logging.cc:181-184`: `LOG_FATAL` calls `g_flush`, which flushes `stdout` unless it is set,
  and aborts; with `AsyncLogging` as the output the fatal line itself is still in a buffer.
* `Logging.h:124-128`: the macros compare `Logger::LogLevel()`, a value of the
  enumeration that is always `TRACE`, where `logLevel()` is meant: `setLogLevel` has no
  effect on them.
* `LogStream.cc:147-151`: `operator<<(unsigned short)` calls itself. The unit test that would
  call it is commented out (`LogStream_unittest.cc:83`, `FIXME: error`).
* `LogStream.h:43`, `LogStream.cc:132`: an item that does not fit is left out as a whole, and
  shorter ones after it are not: a record may lack its line's number or its end of line.
* `LogFile.cc:137-189`: the day and the flush interval are looked at every `checkEveryN`
  appends only; names are in local time (`:202`), so that an hour's names may come again
  when clocks go back, and the lines of that hour are then appended to the files of the last.
* `TcpConnection.cc:112`: `send` of another thread binds a bare `this`, which may outlive the
  connection; the model lets the functor of a dead connection do nothing.
* `TcpServer.cc:63` says `start` may be called in other threads, while the thread pool's
  `start`, which it calls, asserts the loop's thread (`EventLoopThreadPool.cc:35`).
* `HttpContext.cc:79-82`, `HttpRequest.h:54`: a request line with a known method that is refused
  for its version stays in the buffer, with the method set and the context not reset. `shutdown`
  closes only the write side, so when the client sends anything more the line is parsed again and
  the assertion that no method is set ends the process. `OpenSetsMethodOnce` speaks of connections
  nothing was refused on; its `MethodSetOnce` alone is violated by a refused request and one
  more read.
* `HttpServer.cc:64-97`: a message handles at most one request; the next one of a
  pipelined pair waits for further data.
* `Condition.cc:13-23`: the deadline adds `tv_nsec` twice and reads `CLOCK_MONOTONIC` for a
  condition that waits on the realtime clock, so the wait ends at once as a rule.
* `Thread.cc:137`: the assertion that a thread id prints as six characters fails for ids of
  more than five digits.

## 6. Not modelled

* `TcpServer`'s destructor with several connections in IO loops: one is modelled in
  `TcpConnection`. The destructor in a connection callback, which always fails: the callback
  goes on with the `closeCallback_` of the dead server, or destroys the acceptor's channel while
  it is being handled (`Channel.cc:39`). Whoever keeps the `shared_ptr`
  `TcpServer::threadPool()` returns keeps the IO loops; nobody in the repository does. What is
  done with a dead server or a loop that has ended is undefined, and no step of a model.
  `getLoopForHash` and `getAllLoops` change no state and have no caller.
* `LogStream`'s doubles (`snprintf`), the formatting of the time, the global level.
* A failing `fwrite`; in `LogFile` a line is then lost. stdio's buffer of 64K
  (`LogFile.cc:29`) is emptied by a flush or a close only: the model has no spills when it is
  full, which move lines from the buffer to the disk, between the two terms `FilesInv` adds up.
* An HTTP callback whose decision to close depends on more than the request's path and its
  `close`, such as a state of its own.
* `TimerQueue`'s destructor; the owner a `MutexLock` keeps for assertions; detached threads and
  exceptions in `Thread`; the arithmetic of `waitForSeconds`, since the model lets the wait
  end at any time.
* `Socket`, `SocketsOps`, `InetAddress`: thin wrappers of system calls.
* `Timestamp`, `FileUtil`, `ProcessInfo`, `Singleton`, `ThreadLocal`, `Atomic`,
  `StringPiece`, `any`: value types, wrappers and reading of `/proc`, without a protocol of
  steps to check.
* `third/catch.hpp` is the vendored test framework: 15003 of the repository's 25151 lines.
  With the tests and the utilities above that bounds what share of the lines a model of
  this system can stand for.
* `quit_` and `AsyncLogging::running_` are atomic; `TcpConnection::state_` and, in the
  test of its worker loop, `ThreadPool::running_` are plain members read without the
  lock. The builds cannot keep such a read in a register across the system calls and
  mutex operations around it, and a value that is late by a store buffer is the same
  read made earlier, which is another interleaving of the model; so each such read is a
  step that sees the current value. Nothing worse (a torn value) is modelled.
* Failed allocation, failed `pthread` calls and the abort paths of `LOG_FATAL`.

## 7. Plan

All modules planned are written, and the invariants the runs check are proved. What is left,
in the order of what a reader of the code would miss: `TcpServer`'s destructor with several
connections in several IO loops, as `TcpConnection` has it for one; a callback of `HttpServer` with a
state; and `LogStream`'s doubles.
