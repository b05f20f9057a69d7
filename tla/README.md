# TinyWebs in TLA+

Specifications of the servers in this repository, model-checked with TLC and,
for the parts where a result for every size is worth having, proved with TLAPS.

    tlc -workers 2 -config MCEventLoopThread.cfg MCEventLoopThread     one run
    tlapm EventLoop_proofs.tla                                         one proof module

Below, `M/` is `src/mutlithread/multiThread/`, `O/` is
`src/mutlithread-6.27/multiThread/` and `W/` is `src/web-5.11-pressure/`.

## 1. The system

The repository holds three generations of one web server:

* `W/`, the first: a main thread that does all input and output, and a pool of
  workers that parse and answer (a simulated proactor);
* `M/`, the last: a reactor library after muduo (event loops, timers,
  connections, a client) with an HTTP server on top;
* `src/mutlithread-6.27/`, an earlier snapshot of `M/` (`O/` below), which
  differs from it in a few places that matter and otherwise stands in both word for word.

Each of the three brings a copy of WebBench, a load generator.

The build files set no build type, so assertions are live: a failed assertion is
an observable outcome, and several properties are about them.

### 1.1 Inventory

| component | state | operations | talks to | what is hard | what makes it correct |
|---|---|---|---|---|---|
| EventLoop (`M/net/EventLoop`) | `pendingFunctors_`, `quit_`, `callingPendingFuntors_`, `wakeupFd_`, active channels | `loop`, `quit`, `runInLoop`, `queueInLoop`, `wakeup`, `handleRead`, `doPendingFunctors` | every other component of `M/net`, by functors | functors and quits from other threads against the swap, the poll and the eventfd | no sleep on queued work; FIFO, once each; functors that queue functors do not starve the descriptors; quit ends the loop |
| EventLoopThread | `loop_`, `thread_`, `cond_` | `startThread`, `threadFunction`, destructor | EventLoop | publication of a loop on another thread's stack; destruction at any time | `startThread` returns a loop that exists; the destructor's join returns |
| EventLoopThreadPool | `loops_`, `next_` | `start`, `getNextLoop` | TcpServer | - (base loop's thread only) | every loop is handed out in turn |
| Channel, Epoll | mask, `statusInEpoll_`, `revents_`, `tied_` | `enable…`, `disable…`, `update`, `remove`, `handleEvent` | epoll, connections | removal while its event is handled; life of the owner | in epoll exactly while it asks for something |
| TimerQueue, Timer, TimerId | `timers_`, `activeTimers_`, `cancelingTimers_`, timerfd | `addTimer`, `cancel`, `handleRead`, `getExpired`, `reset`, `insert` | EventLoop | callbacks that add and cancel timers while a batch runs; weak pointers of other threads; a single timerfd | both sets agree, a cancelled timer stays out, the timerfd is set for the earliest |
| TcpConnection | `state_`, `outputBuffer_`, channel | establish, read, write, `send`, `shutdown`, close, destroy | Channel, EventLoop, TcpServer, its user | partial writes; closing that crosses two loops; calls of foreign threads | whole messages in order, shutdown after the flush, destroyed once, closed and out of epoll |
| TcpServer, Acceptor, Socket | `connectionMap_`, `nextConnectionId_`, the listening socket | `start`, `newConnection`, `removeConnection`, `removeConnectionInLoop`, `hadleRead`, `accept` | TcpConnection, Epoll, pool | the map belongs to one thread, its connections to others; descriptors are given out again at once; `accept(2)` fails while clients wait; more events than the array holds | no loop keeps a pointer to a freed connection; ended connections are freed; waiting clients are accepted |
| HttpServer, HttpContext, HttpRequest, HttpResponse | parser state, request | `onMessage`, `onRequest`, `parseRequest`, `reset` | TcpConnection, Buffer | requests in pieces cut anywhere, a parser that keeps its place between calls, what a failed line leaves behind | the replies are those to the requests sent, each as soon as its request is whole |
| Buffer | a vector and two indices | `append`, `retrieve`, `readFd`, `makeSpace`, `findCRLF` | connections, parser | growth and compaction at the boundary, `extrabuf` | what is read is what was appended |
| Connector, TcpClient | `connect_`, `state_`, `channel_`, `retryDelayMs_` | `start`, `stop`, `restart`, `connect`, `retry`, `handleWrite`, `handleError` | EventLoop, TimerQueue | stop at any moment; retries against functors still queued | the socket is owned; an attempt wanted is not forgotten; stop ends attempts |
| ThreadPool (`M/base`) | `running_`, `dequeue_`, `cond_` | `start`, `stop`, `run`, `take`, `runInThread` | any thread | lost notifications, stop against wait | no task is left to a sleeper; stop returns |
| Thread, MutexLock, Condition (`M/base`) | `holder_`, `started_`, `joined_` | `lock`, `unlock`, `wait`, `notify`, `notifyAll`, `start`, `join` | everything with a lock | `wait()` gives the mutex away and does not tell `holder_` | `holder_` names the one who has the mutex, or waits |
| BlockingQueue, CountDownLatch | `queue_`, `count_` | `put`, `take`, `wait`, `countDown` | Monitor | a notification against takers that come late | nobody sleeps beside an element; the latch lets everybody go |
| BoundedBlockingQueue | circular buffer of two indices | `put`, `take` | nobody uses it | index arithmetic: an array of c, indices up to c + 1 | it holds the last c elements, in order |
| LogStream | `data_`, `cur_` | `operator<<` of numbers, pointers, texts | AsyncLogging | lengths nobody knows before writing; the least integer | nothing behind the array; the number can be read back |
| AsyncLogging, LogFile | two spare buffers, a current one, full ones | `append`, `start`, `stop`, `threadFunction` | any thread | buffers that go round between two sides | every buffer has one owner |
| Half-sync server (`W/`) | `users[fd]`, request queue, timer list, one-shot events | accept, read, write, hang-up, tick; worker: take, process | main thread and workers share `users[fd]` with no lock | EPOLLONESHOT as the only fence; timers that close connections in use; descriptors used again | one handler per connection, answers to their asker, timers and connections match; each request has its response |
| WebBench | options, the request, a pipe; per client `speed`, `failed`, `bytes`, `timerexpired` | `main`, `build_request`, `bench`, `benchcore`, `alarm_handler` | the server, its clients through the pipe | the alarm between any two statements; fork, connect and read that fail; a client that is killed | every request counted once; the sums of all clients or nothing; it ends |

### 1.2 Where each part is modelled

| module | code | what a step is |
|---|---|---|
| `TaskQueue` | the promise of `EventLoop.h` | abstract: submit, run, return, close |
| `EventLoop` | `M/net/EventLoop.cpp` | a critical section or a system call |
| `EventLoopThread` (extends `EventLoop`) | `M/net/EventLoopThread.cpp` | the same, for both threads |
| `TcpConnection` | `M/net/TcpConnection.cpp`, `Channel`, `Epoll`, `TcpServer`, `HttpServer` | a callback of the channel, a functor, an unlocked test of a foreign thread, an act of the peer |
| `TcpServer` | `M/net` and `O/net`: `TcpServer.cpp`, `Acceptor.cpp`, `Socket.cpp`, `EventLoopThreadPool.cpp`, `Epoll.cpp` | a callback or functor of one of the loops, a turn of the Acceptor's loop |
| `TimerQueue` | `M/net/TimerQueue.cpp`, `Timer.cpp` | a functor, the two halves of `handleRead()`, one callback |
| `Connector` | `M/net/Connector.cpp`, `TcpClient.cpp` | a callback, a functor, one retry, a call |
| `Buffer` | `M/net/Buffer.cpp` | operators, one per member function |
| `HttpServer` (extends `Buffer`) | `M/http/*.cpp`, `TcpConnection::handleRead()`, `main.cpp` | one `readv(2)`, one turn of the parser's loop, the end of `onMessage()` |
| `ThreadPool` | `M/base/ThreadPool.cpp`, `ThreadPool_cpp11.cpp` | a critical section |
| `Monitor` | `M/base/MutexLock.h`, `Condition.h` | lock, unlock, the two halves of a wait |
| `BaseThreads` (extends `Monitor`) | `M/base/Thread.cpp`, `BlockingQueue.h`, `CountDownLatch.cpp` | one of those, or a body between them |
| `BoundedQueue` | `M/base/BoundedBlockingQueue.h` | operators, one per member function |
| `LogStream` | `M/base/LogStream.cpp` | one `operator<<` |
| `AsyncLogging` | `M/base/AsyncLogging.cpp` | a critical section, a stretch of `threadFunction()` |
| `TimerList` | `W/lst_timer.cpp` | operators on a doubly linked list |
| `Proactor` (extends `TimerList`) | `W/main.cpp`, `http_conn.cpp`, `threadpool.h` | an event of the main loop; a worker's access to its connection |
| `HttpConn` | `W/http_conn.cpp` | a `read()`, a line of the parser, a `writev(2)` |
| `WebBench` | `WebBench/webbench.c`, `socket.c`, in all copies | a statement of `bench()` or `benchcore()` that another process or the alarm can come before |

`MC*.tla` instantiate these for TLC, `*_proofs.tla` hold the theorems. Variables
and actions keep the names of the fields and functions they stand for (a
trailing underscore is the code's own). Definitions under a comment "Mutant"
are plausible mistakes; they are not part of any next-state relation and are
there to see that each property can fail.

Programs that have nothing to do with each other share a run: `MCConnector`,
`MCHttpServer` and `MCThreadPool` extend several of these modules and a variable
(`program`, `part`) says, from the start, which of them is the one that runs.

Where `M/` and `O/` have the same text, `PROJECT.json` names lines of `O/` for
some definitions whose lines in `M/` other definitions stand for too; what is
said of the one holds for the other.

### 1.3 How the parts interact

* Threads reach an event loop in one way: a functor in `pendingFunctors_` and a
  write to the eventfd. `TaskQueue` states what that gives the other components,
  `EventLoop` is shown to implement it, and `TcpConnection`, `TimerQueue` and
  `Connector` model their loops by that promise: a FIFO queue whose head is run.
  A poll may come between any two functors there, while the code runs a batch
  first; that only adds behaviours. `Connector` keeps the batches, because what
  it does depends on them (a Channel is reset by a functor of the same round).
* A connection is accepted in the server's base loop, lives in the loop the pool
  gives it, and is removed from the map in the base loop again; closing one
  therefore crosses loops twice. `TcpConnection` has both loops, or one, as
  `pooled` says; `TcpServer` has several connections and up to three loops, and
  leaves out what is in the connections' buffers.
* In the half-sync server the main thread and the workers share everything in
  `users[fd]`; `Proactor` is one module because no part of it has an interface.
  It shows that at most one thread is in a connection unless a timer closed it
  there; `HttpConn` has one connection on that footing, and every byte of it.

## 2. The models, one by one

### EventLoop, TaskQueue, EventLoopThread

The IO thread walks through `enter`, `test`, `poll`, `events`, `run`, as
`EventLoop::loop()` does (EventLoop.cpp:82-103). The swap of
`doPendingFunctors()` is one step, each functor another, and while a callback or
functor runs (`body`) the IO thread may queue functors or quit. A foreign
thread's `queueInLoop()` and `quit()` are two steps each: the change, and the
write to the eventfd. `quit_` is a plain bool, modelled as an atomic one. A
functor is queued at most once at a time (a bound on the state, not on the
number of runs). Channels other than the eventfd are one channel that may be
ready at any moment.

`EventLoopThread` adds the owner's steps (`startThread()`'s wait with spurious
wakeups, the destructor's quit and join) and those of `threadFunction()`. Its
loop is a local variable of the thread, so `quit()` on a loop that has returned
touches a dead object; the header acknowledges that and the model leaves the
quit without effect there.

### TcpConnection

One connection from `newConnection()` to its destruction, with the epoll entry
and the map. `HttpServer` is its user: what arrives is no request, a request
that is answered, or one that is answered and followed by `shutdown()`. Message
contents are numbered units; `write(2)` takes any prefix. The peer sends,
closes and resets at any moment. A second write to a reset socket raises
SIGPIPE, which the program does not ignore (`failed = "SIGPIPE"`), and properties
say where they stop at that. One foreign thread may hold the connection and call
`send()` and `shutdown()`, whose unlocked test of `state_` is a step of its own.
`writeCompleteCallback_` is left out: `TcpServer` never sets it.

`IoThreadUseIsSafe` is stated for the IO thread's own calls (`calls = 0`), which
is how `HttpServer` uses a connection. With foreign calls it does not hold:
`sendInLoop()` is queued with a raw pointer (TcpConnection.cpp:70) and
`shutdown()` may overwrite `kDisconnected` (lines 81-86). The other properties
of the run hold with foreign calls as well.

### TcpServer

Loop 0 is the server's, loops 1..`numThreads` are the pool's; `channels_`,
`events_` and `activeChannels_` are the descriptor map, the event array and the
result of the last poll of each loop's `Epoll`. `epoll_wait()` reports any of
the ready descriptors up to the array's size, which doubles when it is full.
Descriptors are given out lowest first and again as soon as they are closed; a
connection's life crosses two loops by `connectionEstablished`,
`removeConnectionInLoop` and `connectionDestroyed`, each a functor. A shared
pointer held by a functor, by the map or by a `handleEvent()` under way keeps
the object (`HeldElsewhere`, `MayBeDestroyed`); when none is left it is freed in
that step.

`acceptsOnce`, chosen at the start, is the earlier server `O/`: one `accept()`
per event, and a `Socket::accept()` that runs past its end without a `return`
when `accept(2)` fails, so that anything may follow (`AcceptReturnsAnything`).
There the model ends and nothing is claimed.

`DestroyServer` is the end of `~TcpServer`. For a server with a pool it fails:
connections of other loops are told to die by raw pointers while the map lets
them go (TcpServer.cpp:34-46). The constant `TeardownPools` says for which pools
the run takes that step; the run takes it where there is none, and `main()`
never does.

### TimerQueue

Timers are added and cancelled by other threads (as functors) and by callbacks;
`handleRead()` is a step up to its first callback, one per callback, and one for
`reset()`. Time counts in the clock's unit, and the 100 microseconds below which
`resetTimerfd()` never goes are one unit. `slow`, chosen at the start, says
whether time passes while callbacks run. `failed` stands for the assertions of
lines 124 (a cancel that finds its timer freed) and 169 (an expiry that is
exactly now). The clock stops at `MaxTime` except while a timer is overdue and
the timerfd is still to expire, so no timer is overdue merely for want of time.

### Connector

One `Connector` driven by a `TcpClient`'s `connect()` and `stop()`, in and out of
the loop's thread, and by the network, which may let any attempt begin, be
refused for now or for good, succeed, fail, or connect to itself. `retry()`
passes milliseconds / 1000 to `runAfter()`, which counts microseconds, so the
delay is at most 30 of them and a retry timer may be due whenever the timerfd is
looked at. `others` says whether the loop has timers of other users, which may
make the timerfd readable before the retry's own time: then a retry can run in
the round that asked for it, before the functor that resets the old Channel, and
`assert(!channel_)` fails (Connector.cpp:138). The model has that failure;
`OneStartIsSafe` is stated without such timers.

`TcpClient::newConnection()` keeps no reference to the `TcpConnection` it makes
(TcpClient.cpp:98-120): it is destroyed at the end of the function, in a state
its destructor asserts it is not in. What it does with the socket is outside the
Connector; the model hands the socket over, and `Restart` is the `restart()` a
user would call once its connection has closed, as `removeConnection()` is
written to. `~TcpClient` queues a functor on a Connector it then frees, which is
not modelled.

### Buffer, HttpServer

`Buffer` has the vector, both indices and one operator per member function; a
place of the vector is a place of a sequence, so a byte copied to the wrong
place, or lost when the vector grows, is visible. Integers go in and come out
byte by byte in network order. TLC's own integers do not reach 2^31, so those of
32 bits are not evaluated, only proved about. `shrink()` loses what could be read, as the code does:
it appends to the new buffer and swaps, but ensures the room before
(`ShrinkForgets`).

`HttpServer` feeds the buffer: `stream` is what the peer sends in the
connection's life, each `readv(2)` takes any number of its next characters, and
`parseRequest()` runs turn by turn with `FindCRLF` and `Retrieve`. The text
between two CRLFs is one character that says what the parser makes of it: a good
request line, one whose method is taken and whose version is not (what HTTP/1.0
clients send), a Connection header of either kind, or a word without space and
colon. CR and LF are characters of their own, so a line may be cut between them.
A reply is its kind and its header lines, as `appendToBuffer()` writes them. After
`shutdown()` the bytes under way may still be read, as the socket allows, and
then `send()` does nothing.

Three things the code does that a reader may not expect, all in the model: a
header line without a colon ends the headers as an empty line does
(HttpContext.cpp:46-53); one `onMessage()` takes one request, so a second that
came with it waits for more input (HttpServer.cpp:54); and a request line that
failed stays in the buffer with `method_` set, so that more input after the 400
fails the assertion of HttpRequest.cpp:17 (`SetMethodAsserts`).

### ThreadPool, Monitor, BaseThreads

`ThreadPool`: owner, workers and callers of `run()`. A critical section is a
step; `cond_` is the set of workers waiting on it, `notify()` wakes any one of
them, and any may wake spuriously. `running_` is tested twice, as in the code:
without the lock at line 68 and under it in `take()`. `run()` before `start()` is
a plain call of the task and has no step.

In `Monitor` the mutex of pthread and MutexLock's `holder_` are two variables,
because `Condition::wait()` hands the first over and does not touch the second.
`BaseThreads` has any number of threads that put, take, count down and wait, a
lock, a body and an unlock each. `holder_` is wrong after a wait, which
`HolderHasTheMutexOrWaits` says precisely. `Condition::waitForSecond()` computes
its deadline from `clock_getres(2)`, a point in the past, and so times out at
once.

### BoundedQueue

The circular buffer of `BoundedBlockingQueue.h` as operators on a record. Made
for c elements it has `capacity_` c + 1, counts modulo c + 2, and allocates c
places: with more than c elements put it writes behind its array
(`InsideArray`), and the model goes on as if the array did. `push_back()` drops
the oldest element when it has filled the buffer, so that the buffer is never
full and `put()` never waits; `size()` of an empty one is c + 2. `take()` cannot be
instantiated, as `front() const` calls `empty()`, which is not const; and the
`put()` that copies would wait on the wrong condition. So there is no state
machine, only operators.

### LogStream, AsyncLogging

`LogStream` has `convert()` digit by digit, in a base and a width the
configuration chooses, and the room that is asked for before a number's length
is known. `FixedBuffer::append()` has an empty body (LogStream.h:25): texts leave
no trace. `AsyncLogging` therefore only says which buffer is whose: the current
and the next one of those who log, the two spare ones of the thread, those that
are full and those being written. With assertions the thread aborts at its first
statement, `assert(running_ = false)` (AsyncLogging.cpp:66); `withAsserts`
chooses the build. `currentBuffer_->reset()` empties a buffer that has just been
handed over (lines 42 and 84): what it held is never written.

### Proactor, TimerList

`users[fd]` for each descriptor, the one-shot interest epoll holds for it, the
request queue, the workers and the timer list. One event of the main loop is a
step; `process()` of a worker is three, because the main thread may close the
connection, and `accept()` give its descriptor away, between them. Time counts
in alarms. `TimerList` is the doubly linked list, with the pointers that
`del_timer()` and `tick()` leave behind in freed nodes and in `tail`. A worker's
`close_conn()` and the test of `m_user_count` against `MAX_FD` cannot be reached
and are left out; `write()` with a full socket buffer leaves all as it was. Timers
are never moved back, though main.cpp:20 announces it: `adjust_timer()` has no
caller.

### HttpConn

One connection of the same server with its two buffers: `read()` until there is
nothing more, `process_read()` line by line over `m_checked_idx` and
`m_start_line`, `process_write()`, `write()` and `init()`. The client waits for
each response before it asks again. Facts of the code that are in the model:
`Content-Length` is compared without its colon and never found, so a request has
no content (http_conn.cpp:217); `write()` is done when as many bytes are sent as
the header has, the file's not counted (line 358), so that a partial `writev(2)`
may end a response early (`shortened`); `unmap()` tests its pointer the wrong way
and never unmaps (line 324), which no behaviour shows. A text between two line ends is
one element of a request and counts as one byte, and a request ends with its
first empty line (`RequestsAssumption`): nothing reads a body, see above.

### WebBench

`main()` with its options, `build_request()`, the parent of `bench()` and its
clients in `benchcore()`, a process each; the alarm comes between any two
statements. `keep_alive` chooses between the copy of `M/` and `O/`, which keeps
connections and from which no option turns back, and the other. What the code
does and a reader may not expect: under HTTP/1.0 no Connection header is sent;
`bench()` returns the last client's `failed`, not the sum; the loops that connect
again do not look at `timerexpired`; a read error closes the socket and counts
two failures where the next round finds it closed; the parent has the pipe's
write end open itself, so that a client killed by SIGPIPE makes it wait for ever
(`BenchEnds` says so).

## 3. The runs

| run | module, configuration | bounds | outcome |
|---|---|---|---|
| `event_loop` | `MCEventLoopThread`, `MCEventLoopThread.cfg` | the owner and one thread more, 3 functors | passes |
| `lost_quit` | `MCEventLoopThread`, `MCLostQuit.cfg` | the same with 2 functors | violated |
| `tcp_connection` | `MCTcpConnection`, `MCTcpConnection.cfg` | messages of 2 units, 2 requests, 2 foreign calls | passes |
| `lost_reply` | `MCTcpConnection`, `MCLostReply.cfg` | the same without foreign calls | violated |
| `tcp_server` | `MCTcpServer`, `MCTcpServer.cfg` | no, one and two loops in the pool, 3 connections, 2 descriptors, an event array of 1 | passes |
| `timer_queue` | `MCTimerQueue`, `MCTimerQueue.cfg` | 2 timers, intervals 1 and 2, time 5 | passes |
| `timer_stuck` | `MCTimerQueue`, `MCTimerStuck.cfg` | the same | violated |
| `proactor` | `MCProactor`, `MCProactor.cfg` | 2 descriptors, 2 workers, 2 connections, room for one request | passes |
| `proactor_two_workers` | `MCProactor`, `MCTwoWorkers.cfg` | the same, longer timers and queue | violated |
| `thread_pool` | `MCThreadPool`, `MCThreadPool.cfg` | 3 workers, 3 tasks; 3 threads of 2 calls; a line of 9 characters, numerals of 2 digits; 2 full buffers | passes |
| `connector` | `MCConnector`, `MCConnector.cfg` | 2 starts, 2 stops, delays 500 to 1500; 2 clients of WebBench, 2 rounds and 2 reads each | passes |
| `http_request` | `MCHttpServer`, `MCHttpServer.cfg` | every stream of up to 4 lines of 6 kinds, a vector of 1 + 3 places, `extrabuf` of 2; 2 requests of 7 kinds, a read buffer of 11 words | passes |

All runs have `CHECK_DEADLOCK FALSE`: an event loop that has returned, a pool
that was stopped, a process that has aborted and a server whose bounded input is
used up have no next step and need none.

### What each run shows

**event_loop, lost_quit.** `NoLostWakeup`: in `poll()` with a functor queued or a
quit pending, the eventfd is readable or a thread is about to write it.
`ImplementsTaskQueue`: the swap and the walk over the swapped vector are a FIFO
queue, each functor run once, none after the loop has returned (refinement, with
the queue mapped to what is left of the vector followed by `pendingFunctors_`).
`FunctorsLetTheLoopPoll`: functors that queue functors cannot keep the loop from
polling. `JoinReturnsOnceLooping` holds without the 10 s time-out of `poll()`,
whose action has no fairness. `StartHandsOutTheLoop`: `startThread()` returns a
loop that exists. The owner and one other thread can both be between push and
write while the IO thread queues a third functor from a running one: a third
thread adds no new position to be in. `lost_quit`: a quit before `loop()` has been
entered is lost, since it sets `quit_ = false` (EventLoop.cpp:88), and the
destructor joins for ever.

**tcp_connection, lost_reply.** Messages go out whole and in order; the channel
asks for write events exactly while output is pending; the socket is shut down
after the flush; a connection that shuts down or whose peer has gone is freed.
Messages of two units make a write partial; two requests let one arrive while the
reply to the other is pending; two foreign calls let a `send()` and a `shutdown()`
race a close. `lost_reply`: `sendInLoop()` does nothing at all when output is
pending (TcpConnection.cpp:258), so the reply to a second request disappears
while the shutdown it asked for takes place.

**tcp_server.** `EpollHoldsLiveChannels`: what `Epoll::updateChannel()` asserts
holds, and no map and no list of active channels has a pointer to a connection
that is gone, though its descriptor is another's by then; this is what
`queueInLoop()` instead of `runInLoop()` in `removeConnectionInLoop()` is for.
`EndedConnectionsAreFreed` and `WaitingClientsAreAccepted`: whatever the poll
reports first, and with `accept(2)` failing in between. Three connections over
two descriptors are the least for one to be turned away, wait, and get the
descriptor of another; an array of one is full at once and doubles.

**timer_queue, timer_stuck.** `timers_` and `activeTimers_` agree, a cancelled
timer never becomes pending again, and with callbacks that take no time the
timerfd is set for the earliest timer and every due timer is taken. Two timers
suffice for one to expire, cancel or add the other while it is handled; time 5
leaves a repeating timer a second round. `timer_stuck`: once callbacks take time
`reset()` finds the earliest timer not `isValid()` and leaves the timerfd unset
for good (TimerQueue.cpp:200-205).

**proactor, proactor_two_workers.** The list holds the timers of the open
connections, well linked and sorted; a connection that is queued or processed is
so once, with epoll silent about it; a response is written once and to the
connection that asked; an open connection nobody has is watched, unless
`append()` refused it; all connections end. Where these need that `tick()` has
not closed a connection under a worker, they say so with `overtaken`. Two
descriptors allow both two connections at once and one descriptor used twice;
`MaxWaiting = 0` lets one request wait and turns the next away.
`proactor_two_workers`: `tick()` does close one under a worker, `accept()` reuses
the descriptor, and two workers have the same `http_conn`.

**thread_pool.** `NoWorkerSleepsInVain`: a worker waits only while each queued
task has another worker on its way to it, and none waits once `stop()` has lowered
`running_`; `QueuedTaskRuns` unless the pool is stopped. Three workers: one in a
task, one woken, one waiting. `HolderHasTheMutexOrWaits`,
`ElementsAreTakenInOrder`, `LatchOpens`: three threads of two calls, so that two
wait when the third puts twice or counts down to zero. `BuffersHaveOneOwner`: two
full buffers and the current one are more than the two that are written here (25
in the code). `LineHoldsTheNumber`: nothing is written behind the array and the
last number reads back, the least integer too; a line of 9 with 5 kept free has
room for several numbers and then for a short one only.

**connector.** One socket with a watched Channel while an attempt is under way
and none otherwise (`SocketIsOwned`); an attempt that is wanted is under way or
has a timer or functor that will begin it (`NotForgotten`); `stop()` ends attempts
and their timers (`StopEndsAttempts`); for a client that starts once and stops
last, in a loop without other timers, no assertion fails (`OneStartIsSafe`). Two
starts and two stops are what lets a stop be overtaken by a start and that by a
stop. For WebBench: the request suits its version whatever options came in
whatever order (`RequestSuitsItsVersion`); every request is counted once, whatever
the alarm interrupts, and what is printed is the sum over all clients
(`ResultIsTheRequests`); it ends unless a client was killed (`BenchEnds`). Two
clients report in either order; two rounds let the alarm find a client in a
request that failed after one that did not.

**http_request.** `ReadableIsTheRest`: whatever the cuts, the growth and the
compaction, the parser reads what was sent. `RepliesAreTheStreams`: the replies
are those to the requests of the stream, in order and without gaps, each with the
close its last Connection header asks for, and a 400 only for a line that is no
request line. What a request is is defined there on pieces of the stream,
without a parser. `WholeRequestIsAnswered`: each `onMessage()` on a connection in
use returns, and has answered exactly if a whole request had arrived; the failing
assertion needs a connection that was refused before. Four lines hold two
requests, or one with two headers of which the second counts. The vector of 4
places with an `extrabuf` of 2 makes every stream take all paths of `readFd()`
and `makeSpace()`: it fits, grows, is compacted, and is read twice.
`ResponsesAreTheRequests` and `FittingRequestIsAnswered` say the same of `W/`: the
responses are those to the requests, cut anywhere, and the parser's indices keep
their order, whatever `writev(2)` takes; a request that leaves the
read buffer a byte is answered; a buffer of 11 words is filled by the longest of
the seven requests and by no other.

TLC also evaluates, as assumptions of the `MC` modules: `Int8ComesBack` and
`FindsFromWhereItStarts` of `Buffer`, and `BoundedQueueHoldsTheLast` over every
sequence of eight calls on a queue for one to three elements.

### Fairness

Liveness is stated under weak fairness of each thread: the IO thread's own steps,
a worker's steps, a thread that has begun a call, a process of WebBench. That is
what an operating system gives a thread that is not blocked, and callbacks,
functors and tasks are taken to return. Nothing is assumed of calls by users, of
peers closing, of spurious wakeups or of time-outs of `poll()`. Strong fairness
appears three times. `TcpConnection` and `HttpConn`: the peer, while it is there,
keeps reading, so the socket becomes writable again and again and then takes
something, and now and then a whole response. `Connector`: while a retry timer
exists its timerfd becomes readable and gets its turn among the other
descriptors. `Proactor` and WebBench assume that alarms keep coming, WebBench
also that the server answers or closes and takes connections again; `TimerQueue`
that time passes, and `MaxTime` does not stop it while a timer is overdue.
`LogStream` and `AsyncLogging` have no liveness property and no fairness.

## 4. The proofs

TLAPS checks these for every value of the constants, under the assumptions the
modules name. The third column says what had to be added to the property to make
it inductive, and why that is so.

| theorem | statement | argument |
|---|---|---|
| `EventLoop_proofs!TypeCorrect` | `[]TypeOK` | inductive as it stands: the phases are part of it (callbacks only in `events`, functors and the flag only in `run`) |
| `EventLoop_proofs!WakeupCorrect` | `[]NoLostWakeup` | not inductive alone: outside the phase in which the loop handles events and runs functors, a queue that is not empty must have its wakeup written or on the way, and in `poll()` a quit likewise; the invariant `WakeupInv` says so for every phase |
| `EventLoop_proofs!RefinesTaskQueue` | every step is a `TaskQueue` step or a stutter | from `TypeOK`; the swap keeps `functors \o pendingFunctors_` because `functors` is empty before it |
| `EventLoop_proofs!ThreadUsesTheLoop`, `ThreadWakeupCorrect`, `ThreadRefinesTaskQueue` | a loop in its thread is a loop, so both results hold there too | step by step: the thread's actions are the loop's, or leave its variables alone; the two results are then those of the loop |
| `EventLoop_proofs!HandsOutCorrect` | `[]StartHandsOutTheLoop` | `HandedOut` adds that no thread runs before `startThread()`, and that the owner who waits has started one |
| `TcpConnection_proofs!TypeCorrect` | `[]TypeOK` | inductive with `NumbersLeft`: requests and calls to come still have a message number each |
| `TcpConnection_proofs!WriteInterestCorrect` | `[]WriteInterestIsPendingOutput` | `WriteInv` adds the time before `connectionEstablished()`, in which nothing that could send has the connection: reading begins with no output and no interest |
| `TcpConnection_proofs!ShutdownAfterFlushCorrect` | `ShutdownAfterFlush`, an action property | by `WriteInv` before and after each step: whoever shuts the socket down has seen no write interest, so there is no output |
| `TcpConnection_proofs!IoThreadUseCorrect` | `[]IoThreadUseIsSafe` | `Lifecycle`: a connection that only its thread uses is not made, made, open or closed, each with exactly the functors that lead to the next; the asserted states and the epoll status are read off |
| `TcpConnection_proofs!WireCorrect` | `[]WireIsWholeMessages` | the property reads messages off the units; the invariant `Wired` says where they came from: the k-th whole message of wire and buffer is `handed[f[k]]` for an increasing `f` |
| `TcpServer_proofs!ServerInvCorrect`, `EpollCorrect` | `[]ServerInv`, `[]EpollHoldsLiveChannels` | `ServerInv` says for each `state_` of a connection what the server's map, epoll's table, its channel and descriptor and the active channels of its loop hold (`StageOK`, `ChannelsOK`, `ActiveOK`), that a functor finds what it relies on when its turn comes (`DueFor`), and that no connection has two functors to run (`OnceEach`). A connection that left the map lives on a queued `connectionDestroyed()`, which takes it out of epoll before its descriptor can be another's |
| `TimerQueue_proofs!TypeCorrect` | `[]TypeOK` | inductive, durations being naturals |
| `TimerQueue_proofs!SetsInvCorrect`, `CancelledCorrect` | `[]SetsInv`, `[]CancelledStaysOut` | a timer is at one place only: pending, expired, or with a functor that will add it. Without the functors the property is not inductive, for one run twice would insert its timer again |
| `TimerQueue_proofs!ArmingCorrect` | `[]PendingTimerIsArmed` | while callbacks run the timerfd may be unset for the entries after `now`, and `reset()` will see to them; this is what `Arming` adds |
| `Proactor_proofs!QuietCorrect` | `[]HandledConnectionIsQuiet` | with `TypeOK` and `QuietInv`, by counting hands: queue entries and workers that have a connection are one at most, it is open then, and its one-shot event is off; a closed connection has no event either |
| `Proactor_proofs!WatchedCorrect` | `[]LeftConnectionIsWatched` | `WatchedInv`: an open connection with no hands on it has interest or was turned away |
| `Proactor_proofs!AnswersCorrect` | `[]AnswersGoHome` | while `tick()` has closed none under a worker, a worker's connection is the one it took, and an output is empty while somebody is at it |
| `Proactor_proofs!TimersCorrect` | `[]TimersAreOfOpenConnections` | the links of `TimerList`: `IsList(lst, s)` says that `s` is what the `next` pointers follow from the head and the `prev` pointers from the tail. `add_timer()`, `del_timer()`, the new time of a timer and the removal of due nodes by `tick()` each turn one such `s` into another (`AddTimerCorrect`, `DelTimerCorrect`, `AgedCorrect`, `UnlinkDueCorrect`). That a sequence of nodes exists at all is an induction, done by taking a least counterexample |
| `Base_proofs!TypeCorrect` | `[]TypeOK` of `ThreadPool` | inductive; it includes that every thread started is kept |
| `Base_proofs!NoWorkerSleepsInVainCorrect` | `[]NoWorkerSleepsInVain` | inductive with `TypeOK`, by counting: `run()` adds a task and a ready worker, `take()` removes one of each, a worker begins to wait only on an empty deque and under `running_` |
| `Base_proofs!HolderCorrect` | `[]HolderHasTheMutexOrWaits` | with the places at which a thread has the mutex (`Inside`), and that the members of a condition are the threads that sleep on it (`Sleepers`) |
| `Base_proofs!ElementsCorrect` | `[]ElementsAreTakenInOrder` | order alone is inductive; that nobody sleeps beside an element is a count of the takers that are awake, which `notify()` keeps level with the queue |
| `Base_proofs!BuffersCorrect` | `[]BuffersHaveOneOwner` | `OwnersInv` has all buffers different, place by place; `PhaseInv` has how many there are at each turn of `threadFunction()`, so that the two taken to write leave it two spare ones |
| `Base_proofs!LineCorrect` | `[]LineHoldsTheNumber` | `LineInv` adds where the last number is, which later texts leave alone. The rest is induction over data, done without the library's theorems on it: `AllNaturals` is induction for a set, `IteratesExist` says that any step can be iterated for ever, so that `Backwards` and `Value` are what their definitions say; each digit found adds one to the numeral (`BackwardsIsGood`), and a number below `Base^k` has at most `k` (`BackwardsIsShort`) |
| `Base_proofs!PutNeverWaits` | no buffer made by `push_back()` is full | `front_` moves on exactly when `rear_` comes next to it; the indices stay below `capacity_ + 1` |
| `Connector_proofs!TypeCorrect`, `SocketIsOwnedCorrect` | `[]TypeOK`, `[]SocketIsOwned` | one invariant: a socket count that is closed down to a natural number needs to know that there was a socket, and the delay stays between its bounds |
| `Connector_proofs!NotForgottenCorrect` | `[]NotForgotten` | every end of an attempt either lowers nothing or makes a timer; functors move from one queue to the other |
| `Connector_proofs!OneStartIsSafeCorrect` | `[]OneStartIsSafe` | `Safe`: each functor is queued at most once, `startInLoop()` or a retry timer exist only without an attempt, and `resetChannel()` runs before the retry whose `connecting()` asserts that the channel is gone |
| `Connector_proofs!ResultCorrect` | `[]ResultIsTheRequests` | `BenchInv`: per client the requests counted and the one under way are all there are (`Counted`); the clients that are done are those summed up (`R`) and those in the pipe (`q`), each once (`Summed`), and as many as the parent's counter says (`Awaited`). Sums over sets are shown to grow by a member's number (`SumOfMore`), by a smallest counterexample |
| `Connector_proofs!RequestCorrect` | `[]RequestSuitsItsVersion` | a request exists only between `build_request()` and the first connection; `LinesSuit` goes through its six parts |
| `HttpServer_proofs!AppendCorrect`, `RetrieveCorrect`, `ReadFdCorrect`, `PrependCorrect` | what the operations of `Buffer` do to the characters that can be read | place by place: `CopyTo` and `Resize` keep what they do not write; `MakeSpaceCorrect` has the two ways to make room and the assertions of Buffer.cpp:161 and 289 |
| `HttpServer_proofs!ShrinkForgets` | a shrunk buffer has room and nothing to read | the new buffer is only asked for room |
| `HttpServer_proofs!Int16ComesBack`, `Int32ComesBack` | integers survive the network order | two's complement over two bytes, and over four: dividing by 256 twice is dividing by 65536, and a number that fits its width is above it by 0 or by one whole range |
| `HttpServer_proofs!TypeCorrect`, `ReadableIsTheRestCorrect` | `[]TypeOK`, `[]ReadableIsTheRest` | one invariant, `Holds`: the buffer holds the last of the characters received. Reading on extends it, consuming shortens it; `findCRLF()` points into it because a set of places has a least one |
| `HttpServer_proofs!RepliesCorrect` | `[]RepliesAreTheStreams` | `ParseInv`, of a connection in use: what was taken since the last reply (`Taken`) is nothing, the beginning of a request whose headers so far ask what the context says (`InHeaders`), or a request; what is left (`Left`) has no line end when the parser waits, and begins with no request line when it failed. A line taken extends what was taken by one line (`TakenGrows`, `LineAdded`), and the piecewise definitions `LineEnds`, `LineEndingAt`, `IsRequest` and `AsksFor` follow: no recursion over the stream is needed. Replies sent stay right as more arrives, because the first line of a piece stays its first line |
| `HttpServer_proofs!AnsweredCorrect` | `WholeRequestIsAnswered` | the same invariant: when `onMessage()` returns without a reply, no piece of what has arrived is a request (`NoRequestYet`, `NoRequestThere`); `setMethod()` finds the method unset because the context is new whenever a request line is due |
| `HttpServer_proofs!ResponsesCorrect` | `[]ResponsesAreTheRequests` | `ConnInv`: the order of the indices always holds. As long as every `writev(2)` took all, either all requests are answered and `init()` left nothing behind (`Idle`), or the last one lies in buffer, socket and client one after the other (`Pending`) and the parser stands behind a line end, with what the lines so far say (`Parsing`), or it has read the request and holds the response that is owed (`Writing`); the connection lingers only then, so `init()` wipes nothing of another request. `parse_line()` finds the next line of the whole request (`ParseLineIs`): its branch for an LF alone is not taken, because the CR before it would have been passed. What is owed is a concatenation by the library's recursive `FlattenSeq`, which is shown to grow at its end (by a smallest counterexample) and needs no other induction |

Each module's theorems stand together in one module of proofs; `Base_proofs` has
those of `ThreadPool`, `BaseThreads`, `AsyncLogging`, `LogStream` and
`BoundedQueue`,
`Connector_proofs` also those of `WebBench`, `HttpServer_proofs` also those of
`Buffer` and `HttpConn`.

The assumptions are those of the modules: `Callback` and `Nobody` are no
functors or threads; the sets of threads, workers, descriptors and clients are
finite, and a null pointer is no descriptor; the initial delay is positive and
not above the largest, the sizes of a buffer are naturals and `extrabuf` is not
empty, `AsyncLogging` writes at least two buffers at a time, numbers have a base
of two or more and `kMaxNumericSize` has room for the longest with three
characters more, streams are sequences of characters in which a text stands
between two line ends: at the start or behind CR LF, and before CR LF as far as
the stream goes, which is what it means that a text is one character. The requests of `HttpConn`
are such sequences too, and each ends with its first empty line. The two theorems of `TcpServer_proofs` have one more,
`TeardownPools \subseteq {0}`: the server of a pool is not destroyed while the
program runs. `main()` never does, such an end does fail (section 2), and the run
has the same restriction.

Only model-checked:

* All liveness, and with it the fairness part of the refinement: out of this
  prover's reach, as ENABLED is.
* `TcpServer` once the server of a pool is being destroyed.

## 5. Not modelled

* **AsyncLogger, LogFile, FileUtil.** The first does not link: it declares
  functions nobody defines. The others pass what they get to stdio.
* **Client connections.** `TcpClient::newConnection()` drops its connection at
  once, and its destructor's assertion fails.
* **`~TcpClient`, `~Connector`** while loops run; **`~TcpServer`** of a server with
  a pool is modelled up to its failure.
* **The timers of `O/`.** `getExpired()` there deletes a pointer it has made up
  (TimerQueue.cpp:168), so the first timer that expires ends the program.
* **Logger, `any`, Singleton, ObjectPool, ThreadLocal, Atomic**: values and
  console output without a protocol; three of them are used by nothing.
* **InternetAddress**, socket options and other wrappers of system calls, the
  texts of messages, the pages of WebBench's usage and its parsing of a URL.
* **`adjust_timer()`** of `W/lst_timer.cpp`, which nothing calls.

## 6. Plan

Done: the functor queue and its promise, the threads around it, one connection
and a whole server of them, timers, the connector, the worker pool and the
primitives of `base/`, logging, the half-sync server with its list and its
parser, the buffer and the parser on it, WebBench; proofs of every safety
property the passing runs check.

What would come next:

1. A client's connection, once `TcpClient` keeps one.
2. `TcpConnection` refined by the connections of `TcpServer`, so that what is
   shown of one connection's bytes carries over to several.
