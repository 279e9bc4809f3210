# ConcurNet: a TLA+ development of its reactor

ConcurNet (`src/reactorEcho`) is a small TCP server library in the main/sub
reactor style. This directory holds TLA+ models of its concurrent core, the TLC
configurations that check them, and TLAPS proofs.

## Inventory of the system

| component | state | operations | talks to |
|---|---|---|---|
| `Acceptor`, main `EventLoop` | listening socket | `newconnection`: accept one client | calls `TcpServer::newconnection` |
| `TcpServer` | `conns_` (fd -> connection, under `mutex_`), sub loops, IO `ThreadPool` | `newconnection` (main thread), `closeconnection`, `errorconnection`, `removeconn` (IO threads), `stop` | builds `Connection`s, lists them in both maps |
| `EventLoop` (one IO thread each) | its own `conns_` (`mmutex_`), `taskqueue_` (`mutex_`), eventfd, timerfd, `stop_` | `run`, `handletimer`, `handlewakeup`, `queueinloop`, `newconnection`, `stop` | dispatches `Channel`s, calls `removeconn` |
| `Epoll`, `Channel` | epoll tree, `events_`, `inepoll_`, the list of ready raw `Channel*` | `updatechannel`, `removechannel`, `loop`, `handleevent`, `remove` | calls back `Connection` |
| `Connection` | socket, buffers, `disconnect_`, `lastime_`, `flag_`, four callbacks | `onmessage`, `writecallback`, `closecallback`, `errorcallback`, `send`, `sendinloop`, `timeout` | `TcpServer` through callbacks, `EventLoop::queueinloop` |
| `ThreadPool` | `taskqueue_`, `mutex_`, `condition_`, `stop_` | `addtask`, worker loop, `stop` | runs `EventLoop::run` (IO) or `EchoServer::OnMessage` (workers) |
| `EchoServer` | worker `ThreadPool` | `HandleMessage`, `OnMessage`, `Stop` | `Connection::send` |
| `Buffer` | `buf_`, `sep_` | `append`, `appendwithsep`, `pickmessge`, `erase` | inside `Connection` |
| `Logger` | `logQueue`, `logMutex`, `cv`, file | `asyncLog`, log thread, destructor | called from everywhere |
| `echoserver.cpp` | the pointer `echoserver` | `main`; `Stop`, the handler of two signals: stop workers, loops, IO threads, delete, exit | `EchoServer`, and through it all of the above |

`InetAddress`, `Timestamp`, most of `Socket`, `client.cpp` and `logtest.cpp` are
conversions, setters and demo programs without logic of their own.

What is hard here:

* a `Connection` is referred to by two maps keyed by fd, which three kinds of
  thread change under different mutexes (or none), and by raw pointers in the
  ready list of `epoll_wait` and in queued `sendinloop`s; its destructor closes
  the fd, whose number the kernel gives to the next client;
* the constructor registers the fd with epoll before it says so (`setinepoll`),
  and before the object is owned by a `shared_ptr`, has callbacks or is in a map;
  the IO thread is off at once, and the main thread keeps a reference of its own
  until `newconnectioncb_` has returned;
* closing takes the connection out of one map only; the other keeps it until the
  idle sweep finds it;
* two hand-written wakeup protocols: condition variable and eventfd;
* stopping, from a signal handler, everything above in some order.

What makes each component correct: *lifecycle* -- no removal hits another
connection, both maps agree, live connections are held, closed ones are
released, nothing destroyed is used, the process ends for a known
cause only; *pool and loop queue* -- each task once, in
order, none slept over, stop stops; *data path* -- each complete request is
answered or its connection closed; *logger* -- each record written once, in
order, before exit; *shutdown* -- it ends, with every thread joined before what
the thread uses is deleted.

## Modules

| module | models | |
|---|---|---|
| `Reactor` | lifecycle of connections: main thread, IO threads, workers, clients, clock | one action per atomic piece of a handler |
| `ThreadPool` | `ThreadPool.cpp` | every step between two points where another thread may intervene |
| `EventLoopQueue` | `queueinloop`, `wakeup`, `handlewakeup`, `run`, `stop` | same |
| `TaskService` | what both of these promise | abstract FIFO task service |
| `Buffer` | `Buffer.cpp`: the three framings as operators on byte sequences | no state of its own |
| `EdgeIO` | `onmessage`, `writecallback`, the echo, `send`, `sendinloop`, the workers and edge-triggered epoll for one connection, in bytes | one action per system call, picked message or queued reply |
| `Logger` | `Logger.cpp`: `asyncLog`, the log thread, rotation, the destructor | every step between two points where another thread may intervene |
| `Shutdown` | `echoserver.cpp`: building the server and `Stop()` as a signal handler, with two instances of `ThreadPool`, the loops and the mutexes they share | one action per lock, unlock and step of a pool or of `Stop()` |
| `MCReactor`, `MCEdgeIO`, `MCLogger` | symmetry, a view and constant values for TLC | |
| `ReactorProofs`, `ThreadPoolProofs`, `EventLoopQueueProofs`, `BufferProofs`, `StreamProofs`, `EdgeIOProofs`, `LoggerProofs`, `ShutdownProofs` | theorems and proofs | `StreamProofs` is about the framed stream of `EdgeIO`, whatever its state |

Operators commented `Mutant:` are variants of the definition that follows them,
each with a bug the code could plausibly have. Substituting one for its original
makes TLC report the property it is paired with in `PROJECT.json`, which shows
that the property is about the code and not a consequence of the model's shape.

### Reactor

State: `stage` is how far `TcpServer::newconnection` has got with a client
(`waiting` in the backlog; `added` after `EPOLL_CTL_ADD`, `registered` after
`setinepoll()`, `built` after `flag_ = true`, `bound` after the callbacks are set,
`listed` after the insertion into `TcpServer::conns_`, `announced` after the
insertion into `EventLoop::conns_`, `served` when `newconnectioncb_` has returned
and main's local `spConnection` is gone).
`serverconns` and `loopconns` are the two maps (the maps of all loops in one
function: the loop of an fd is `fd % threadnum_`). `Alive(c)` is the reference
count being positive: the local variable of the main thread (any stage before
`served`), a map, a queued or running worker task. Raw pointers do not count.
`expired` is a history variable: the connections a sweep found timed out and took
out of the maps. An fd is free when no alive
connection has it. `batch[l]` is the ready list of loop `l`, with the callback
`handleevent` will choose; `lpc`, `todo` and `victim` are the position inside
`handletimer` and `handlewakeup`.

Grain: a handler that touches only state of its own thread is one action;
`handletimer` is split per map entry and between its two erasures,
`newconnection` between its stages, `send` between the test of `disconnect_` and
the queueing, because other threads act in between. The end of the process is
part of the model: `status` records how (`noloop`: an index outside `subloops_`;
`dangling`: a destroyed connection used; `addexit` and `modexit`: `exit(-1)` in
`Epoll` after a failed `EPOLL_CTL_ADD` or `EPOLL_CTL_MOD`; `terminate`: an
uncaught exception; `sigpipe`), and then nothing happens any more.

Abstractions: requests are counted, not represented; `Pending` is level
triggered, which lets the model see every event an edge-triggered epoll reports
and more (lost edges are `EdgeIO`'s subject); the order inside a ready
list is arbitrary; a partial `send` leaves the reply pending; clients that fail
do so once; `handletimer` walking its map while `newconnection` inserts is a data
race, whose outcome in the node-based `std::unordered_map` is that the walk may
miss entries, or meet the new one or old ones again (`ListInLoop`). The functions
queued for a loop are a count per connection here; their order and the wakeup
are `EventLoopQueue`'s subject, the workers' queue `ThreadPool`'s.

`EndsForAReason` names the only ways in which the server, as shipped, goes down
by itself, each with what must have happened before: `accept4` found every fd
in use; a client left between `EPOLL_CTL_ADD` and `setinepoll()`, so that the close
adds its fd a second time; it left before the callbacks were set; a reply met a
reset; or a connection was destroyed while a round still had to dispatch it, which
happens only to one the sweep had found timed out. Either the sweep itself destroys
it (the finding below), or the main thread does, when the sweep came while
`newconnectioncb_` was waiting for `logMutex` and main lets go of the last reference
afterwards (`Announce`). In the second case the connection need not be idle any
more: it was out of both maps but alive and in the epoll tree, and was served. An
`EPOLL_CTL_MOD` of a removed fd needs a worker.

`ServedIsHeld` is the other side of that: from its insertion to its close a
connection is in both maps, with workers or without, except that the sweep may have
found it timed out (`expired`). After that a reference of main or of a worker's task
may keep it alive, open and served in neither map, as `TcpServer.cpp:82` and
`EchoServer.cpp:79` have it.

`SweepFinds` relates the two maps the other way round from `MapsAgree`. Only the
idle sweep releases a connection for good, and it walks the loop's map: an entry
of `TcpServer::conns_` that is not there would stay for ever, with its fd. The one
exception is a connection the main thread has put in the first map and not yet in
the second.

### ThreadPool, EventLoopQueue, TaskService

In `ThreadPool` what a thread does under `mutex_` is one step, with one
exception: a worker that has found its predicate false still holds `mutex_` and
is not yet asleep (`park`). `addtask` cannot come in between but `stop`, which
takes no mutex, can. `OneMoreEach` says what `stop` leaves of the queue:
each thread starts at most the one task it was about to take, and what remains
queued is never run (`ThreadPool.cpp:17`), which the comment on the joins denies
(`StopAwaitsTasks`, the run `pool_left`). In `EventLoopQueue` the push, the write to
the eventfd, its read, the draining of the queue (`mutex_` held throughout,
`Locked`) and the test of `stop_` are separate steps. Both, and `Logger`, state
`ImplementsService`: under the mapping given there every behaviour is one of
`TaskService`.

### Buffer, EdgeIO

`Buffer` says what `appendwithsep` and `pickmessge` make of a sequence of bytes,
with the details that matter: the header is the low four bytes of a `size_t`, it
is read as a signed `int` before four bytes are known to be there (behind a short
`std::string` lie its NUL and stale storage, the parameter `stale`), and
`len + 4` is a sum of `int`s, compared as a `size_t`: of the four greatest lengths
it overflows, and in the build wraps to a number no buffer reaches (`MaxLen` is the
greatest length for which it does not). `Connection` only uses `sep_` 1; `sep_` 2 is
checked by an assumption of `MCEdgeIO` over all short texts.

`EdgeIO` composes it with the kernel, the IO thread and the workers. Epoll's part
is `ready` (on the ready list) and `nospace` (`SOCK_NOSPACE`: freed space is only
announced after the socket was found full). One `epoll_wait` reports the
connection and the eventfd together, in either order (`batch`); `pc` is the
position in `onmessage`, `writecallback` or `handlewakeup`. Input and output
events, `EPOLL_CTL_MOD` and partial reads and writes interleave with a client
that sends, ends its stream and reads as it likes. `read` and `send` take as much
as they can; socket errors and the sweep are `Reactor`'s.

With `size` workers each request is a task of its own: `jobs` and `taskqueue_` are
the queues of pool and loop, first in first out as `TaskService` says; between its
test of `disconnect_` and its `queueinloop` a worker is at `queue`. Two workers may
answer the requests of a client that does not wait in either order, and a reply
that is queued when the client closes ends the process (`exited`, the subject of
`reactor_send`).

`Echoed` relates the whole way of the bytes: client, both socket buffers, both
`Buffer`s, both queues and the workers' hands. There is an order of replies,
ascending unless two workers may overtake each other, such that what is on its way
back is exactly those replies framed; the requests that are still in a queue or a
hand are exactly the other ones, unless a close dropped some (`InTime`).

`NeverSleepsOwing` says what it means that the IO thread is in `epoll_wait`, nothing
is reported and no worker has a task (`Resting`): the requests that were sent
completely, and no others, have their replies on the way back, and a reply that
has not left yet waits for space the kernel will announce, unless there is an
incomplete request in `inputbuffer_`. That exception is the finding `edge_lost`.
`Answered` and `Sent` say under fairness that the server gets there.

### Logger

`Locked` is the time the log thread holds `logMutex`: from the test of its
predicate to its sleep, or to the emptied queue. The destructor sets its flag
under the mutex, unlike `ThreadPool::stop`, which is why `JoinReturns` holds here
and `StopReturns` does not there. Opening a file may fail at any time (`failed`
remembers that it did), rotation is due when `tellp()` says so, which is a choice.
Calls may overlap the destructor (`exit(-1)` in an IO thread runs it while other
threads are alive) but take no step on a destroyed logger: what they would do is
undefined. `ImplementsService` maps it to `TaskService` of width one, a
record being "running" between the write and the pop. That a record was dealt with
does not say that it was written: `FiledOnce` says what the files hold, each pushed
record that is no longer waiting, once, unless a file could not be opened.

### Shutdown

`frames` is the list of the calls of `Stop()`, in the order of their signals, each
with the thread it runs `on`, its position `at` and whether it holds `logMutex`
for a log line (`logging`). A thread with a frame does nothing else any more
(`Busy`), and of two frames on one thread only the younger runs (`At`): that is what
makes a signal handler different from a thread. `owner` says who holds `logMutex`,
the `mutex_` of `TcpServer::conns_` and the `mmutex_` of each loop; none of them is
recursive, so a handler on the thread that owns what it needs waits for ever. The
pools `IO` and `Work` are instances of `ThreadPool`: their steps, the missed
notification of `stop` included, are taken unchanged, and the tasks of the IO pool
are the loops themselves.

`Signal` follows `signal()`: the kernel gives a signal to the main thread unless
that one runs the handler of the same signal. The second signal hence interrupts
the first handler (the other number), or runs on another thread (the same
number). `stop()` of a pool tests `stop_` and sets it in two steps
(`StopWorkers`, `SetWorkers`): it returns at once when somebody else has set it, and
two calls that both got past the test both join, of which one throws (`JoinThrows`).
`status` says how the process ended: `exited`, `null` (a signal before
`echoserver` was assigned), `dangling` (a deleted server used), `terminated` (a
thread that is joined by itself or twice, or destroyed without having been joined).

`NoCircle` is about who waits for whom (`WaitsFor`, `StopWaitsFor`): as long as none
of the exceptions of `StopEnds` below applies, whatever `Stop()` waits for, the owner of
`logMutex` or the threads it joins, can go on by itself or waits for a thread that
can. So nobody waits in a circle, for a sleeper, or for a thread that has gone with
a mutex in its hands.

Abstractions: `Requests` bounds what the loops hand to the workers, later messages
leave no trace; of the loops' handlers only the mutexes are left, in the order in
which they are taken; a round has one event; the moment for which a worker takes
the mutex of the loop's queue, where no handler waits for it, is left out. The log
thread gets no signal here, and its join in `~Logger` is `Logger`'s subject.
`malloc` and stdio, which are not safe in a handler either, are left out.

## Runs

| run | instance | shows |
|---|---|---|
| `reactor_shipped` | 2 clients, one fd, one loop, no workers (as `echoserver.cpp` ships), with fairness, 0.27 million states | `MapsAgree`, `EndsForAReason`, `RemovesOnlyItsOwn`, `Released` |
| `reactor_workers` | 2 clients, one fd, one loop, one worker, 0.4 million states (2.3 without the view) | `TypeOK`, `MapsAgree`, `SweepFinds`, `ServedIsHeld`, `RemovesOnlyItsOwn` with references that outlive both maps |
| `reactor_dangling` | as `reactor_shipped` | counterexample to `NoDangling` |
| `reactor_send` | fds 4 and 5, 2 loops, one worker | counterexample to `SendReturns` |
| `pool` | 2 workers, 3 tasks, `stop` at any time, with fairness | `NoTaskSleptOver`, `ImplementsService`, `Executed`, `OneMoreEach` |
| `pool_stop` | 2 workers, 1 task, with fairness | counterexample to `StopReturns` |
| `pool_left` | 2 workers, 1 task, with fairness | counterexample to `StopAwaitsTasks` |
| `loop_queue` | 3 functions, `stop` at any time, with fairness | `NoTaskSleptOver`, `ImplementsService`, `Executed`, `StopsPromptly`, `WakeupsSettle` |
| `edge_io` | requests of 0, 1 and 2 bytes, reads of 3, a socket buffer of 5, none, one or two workers, with fairness, 0.2 million states | `Echoed`, `NeverThrows`, `NoEmptySend`, `NeverSleepsOwing`, `Answered`, `Sent` |
| `edge_lost` | as `edge_io`, without workers | counterexample to `WriteEventComes` |
| `shutdown` | one IO thread with its loop, one worker, one request, up to two signals, with fairness, 0.32 million states | `OneSignalIsClean`, `DeletedAlone`, `ExitedAlone`, `LoopsOutliveWorkers`, `NoCircle`, `StopEnds` |
| `logger` | 3 records on 2 levels, with fairness, 58 thousand states | `NoRecordSleptOver`, `FiledOnce`, `ImplementsService`, `Written`, `JoinReturns` |

Bounds. Two clients and one fd suffice for what the maps can get wrong: an fd that
changes hands while somebody acts on its previous owner, which the second client
can get at the first moment it is free. What two fds add, two connections side by
side, and two loops, which share nothing but `TcpServer::conns_`, is left to the
theorems: each of these safety properties is proved for every number of clients,
fds, loops and workers. `MaxMsgs` = 1 request of a client under way at a time (a
connection may have any number in its life); a second one adds nothing to who
refers to what. The pool's interesting cases need a worker about to sleep while
another one takes the task it will be notified of: two workers, and one task more
than workers. No frame of `edge_io` fits in one read, and no reply but the
shortest in the socket buffer, so both ends of a header get cut; `Stale` = {0,
255} gives the smallest and the most negative lengths; one byte stands for `"reply
"`. Texts have no NUL (`TextAssumption`, as `client.cpp` sends). Two workers are
what it takes for replies to overtake each other, three requests what it takes for
a third one to follow them. In `shutdown` every kind of thread is there once: the
handlers ask of the others only which mutex they hold and whether they have ended,
and a second loop or worker of the same kind adds other holders of the same
mutexes. The invariants were also checked with two IO threads, loops and requests
and one signal (1.6 million states); with two signals that is beyond 20 million
states. There are no state constraints; clients and workers permute, so the runs of
`Reactor` use symmetry over them, but for `reactor_shipped`, which checks liveness.
Deadlock is checked in all of them but `shutdown`, where the process may end and
its handlers may wait for each other: `StopEnds` says what can cause that. `reactor_workers`
also has a `VIEW` (`MCReactor`), under which states count as one that differ only in
the clock, client and buffers of a connection already destroyed, or in anything once
the process has ended: no later step, and none of its properties, reads those.

Fairness. Weak fairness for each thread that runs (IO loop, main, worker, a call
that has begun), for the clock (`GoIdle`) and for the timerfd (`Ring`): the
kernel schedules threads and expires timers. Strong fairness only for a queued
task being taken while tasks of other connections compete, which the FIFO of the
pool gives. None for clients, for beginning a call, for spurious wakeups, and
none for the timeout of `epoll_wait`. In `EdgeIO` the client goes on reading
(`Sent` and `Answered` need nothing else of it), and of the workers one at a time
has to go on, which asks less than each of them; in `Shutdown` a handler that waits
for `logMutex`, which others take and release again and again, gets it in the end
(strong fairness), the others run like all threads; `Logger` also assumes that a
`notify_one` that is due is made and that the destructor goes on.

### What the violated properties mean

* `reactor_dangling`: a connection is reported readable and the timer rings in
  the same round of `epoll_wait`; the sweep destroys the connection as idle
  (`EventLoop.cpp:157-159`), then `run` calls `handleevent` through its freed
  `Channel` (`EventLoop.cpp:51-55`).
* `reactor_send`: `send()` sees `disconnect_` false and queues `sendinloop`; the
  loop closes the connection before `handlewakeup` runs it; `enablewriting` makes
  `EPOLL_CTL_MOD` fail, because `inepoll_` is never reset, and `Epoll` exits.
* `pool_stop`: a worker has just found `stop_` false and the queue empty; `stop()`
  sets `stop_`, notifies nobody, and joins; the worker goes to sleep.
* `pool_left`: a task is queued, `stop()` sets `stop_`, the threads test
  `while (stop_ == false)` and leave, the joins return, and the task is still queued.
* `edge_lost`: part of a reply waits for space; the client reads and sends a piece
  of a request; both are reported at once and `handleevent` calls only
  `onmessage`, which finds no complete request and hence makes no
  `EPOLL_CTL_MOD`. No further edge comes from reading on. `Sent` is what remains
  true: it excludes an incomplete request in `inputbuffer_`.

The model also reaches `terminate` (close before the callbacks are set), `addexit`
(close before `setinepoll()`, or no fd left with one loop), `sigpipe` and `noloop` (no
fd left for `accept4`); no comment or test says
otherwise, so they are hazards in `PROJECT.json`, whose causes `EndsForAReason`
states. Likewise `StopEnds` has three exceptions, all of which occur in
`shutdown`, so that Ctrl-C may leave the server hanging: the signal met the main
thread inside a critical section (`Interrupted`: `Stop()` itself waits for
`logMutex`, or for an IO thread that waits for a map the main thread was changing);
a thread of a pool missed the notification of `stop` (`Missed`, as in `pool_stop`);
or a second signal ran a second `Stop()`, which can interrupt the first one while
that holds `logMutex`, or overtake its joins and delete the server under it.

## Proofs

For every value of the constants that meets the named assumptions
(`ReactorAssumption`: fds are naturals, at least one loop, `None` is no client
and no fd; `PoolAssumption`: finitely many workers and tasks;
`QueueAssumption`: `None` is no task; `EdgeAssumption`: sizes of at least one
byte, any number of workers, any requests made of bytes; `TextAssumption`: no NUL in
them; `LengthAssumption`: the length of a request plus 4 is an `int`, as `pickmessge`
needs it; `LogAssumption`: finitely many records;
`ShutdownAssumption`: finitely many threads, loops and requests, the three kinds
of threads distinct):

* `ReactorProofs`: `TypeCorrect`; `MapsAlwaysAgree`; `RemovalsAreOwn`. Neither
  property is inductive: agreeing maps do not exclude that `accept4` hands out a
  number some map still has. The strengthening `Held` says that referenced
  connections were accepted (`AliveAccepted`), that an entry names its own fd
  (`EntriesOwn`) and that no two referenced connections share one (`FdsUnique`).
  `FewerHeld` covers all steps that only drop references; `MainHeld`, `LoopHeld`
  and `WorkerHeld` go through the threads. The action property follows because
  whatever is erased under an fd is alive and has that fd, so it is the connection
  on whose behalf it is erased. `SweepsFind` adds `Swept`: between its two
  erasures a sweep has the entry in the loop's map only, and nobody is listed
  under that number meanwhile, because the connection still has it.
  `ServedAlwaysHeld`, for any workers, needs two more invariants: `LoopsOwn`, that
  what a loop dispatches and sweeps belongs to it, and `Kept`: what its sweep is
  about to erase there is expired and already out of the first map, and a
  connection between its two insertions is in the first one unless it was
  disconnected. `AlwaysEndsForAReason` rests on `ReadyOwn`: without workers a
  connection a round still has to dispatch is in the epoll tree, has one event in
  one loop's list, whose cause has not gone away, and is alive or expired. So a
  close takes an fd out once, and what is dispatched after its destruction had
  been found timed out. Main's letting go keeps `ReadyOwn` because a connection
  that was disconnected is out of the tree for good (`Left`), and every other one
  is held by the maps or expired (`Kept`).
* `ThreadPoolProofs`: `TypeCorrect`; `NeverSleptOver`, by counting: a push adds a
  task and a notification, a notification wakes a sleeper while there is one, a
  worker that takes a task was awake, and a worker goes to sleep only with the
  queue empty (`ParkedEmpty`, because it holds `mutex_` since it looked);
  `Refinement`, with `Once` (queued and running tasks are distinct and were handed
  over) and `RoomToRun` (a worker that takes a task runs none, so there is room);
  `OneMoreTask`, by a second count: a task that is started after `stop_` costs one
  of the threads that may still start one (`Willing`).
* `EventLoopQueueProofs`: `TypeCorrect`; `NeverSleptOver`, for functions and for
  `stop` alike; `Refinement`, that the
  queue implements `TaskService`, with `Once` as the strengthening.
* `BufferProofs`: `PicksWhole`, for messages of every length up to `MaxLen` (2^31
  - 5); `PicksNoneTooLong`, that of the four lengths beyond no message is ever
  picked; `PicksNothing`, for incomplete messages of any length. The last rests on
  `HarmlessLength`: with a NUL among bytes 2 to 4 a header is no length of -4 to
  -1, the ones with which a short buffer would be accepted and `substr` throw.
* `StreamProofs`: `Wire`, the messages framed one behind the other, is a recursive
  function over their number. Induction over naturals is derived there
  (`Induction`) from the library's fact that `<` is well founded, as a statement
  about a set of naturals, and gives `Wire` of a concatenation (`WireConcat`);
  `PicksFirst`, that `pickmessge` takes exactly the first message off any wire, and
  `WireInjective`, that the framing is unambiguous, follow.
* `EdgeIOProofs`: `TypeCorrect` and `NeverSendsNothing`. `OutWanted` (`EPOLLOUT` is
  on only while `outputbuffer_` is not empty) is not enough, because the event is
  reported before it is dispatched and `handlewakeup` may run in between:
  `OutReported` says that a reported event still finds something to send.
  `EchoesExactly` and `NeverThrown`: `Echoed` says that there is an order of replies,
  but not that it still fits what is in the queues and in the workers' hands, nor
  where in the stream `inputbuffer_` begins. `EchoInv` does: the frames
  of the first n requests, `inputbuffer_` and the socket are together what was sent
  (`InputRest`), the jobs are the last of these n requests (`Begun`), each busy
  worker has another one of its own (`Working`), and these and the ones in the
  order are all n (`Counted`). Picking is then `PicksWhole` or
  `PicksNothing`, whatever lies behind a short buffer, and never throws.
  `NeverOwing` needs `EdgeInv`: unread input is on the ready list, reported or being
  read (`ReadEdge`); an unsent reply has its write event announced or reported, or
  something is under way that will register it again (`WriteEdge`); and
  `onmessage` returns only when nothing complete is left (`AllPicked`), which for
  one content of the stale storage means for any (`NoneForAny`).
* `LoggerProofs`: `TypeCorrect`; `NeverSleptOver`, with `ParkedIdle` (what the
  predicate found is still so while `logMutex` is held); `Refinement`, where
  writing a record, or skipping it because no file is open, starts the service's
  task and popping it ends it; `FilesOnce`, which needs `Once` (the record that is
  written does not wait in the queue a second time) and `OpenOrFailed` (the log
  thread finds no file only after an attempt to open one failed, because `~Logger`
  closes the file when the thread has ended).
* `ShutdownProofs`: `TypeCorrect`, from the types of the two pools' steps
  (`IOStepType`, `WorkStepType`). `ExitsAlone` holds for any number of signals: by
  `Joins`, a `Stop()` has got past the deletion of a pool only if somebody joined
  it, and joined threads have ended for good (`IOStepEnds`, `WorkStepEnds`).
  `OneSignalEndsCleanly`, `DeletesAlone` and `WorkersEndFirst` follow from
  `OneStop`: before the first signal nothing is stopped (`Untouched`), and the
  position of the only `Stop()`, which runs on the main thread and therefore joins
  no thread it is itself, says what has been stopped, joined and deleted
  (`Progress`). `NeverCircular` needs to know of every mutex who may own it: with
  one signal (`Owners`) that is the main thread, an IO thread at the very step of
  its loop that lets go of it (`IOOwners`), or, for `logMutex`, a worker that is
  still in its task (`WorkOwners`); and `Stop()` owns one only while it logs
  (`Logs`). A step of a loop needs one mutex at a time (`LoopLocksOne`), so an
  owner waits for nobody (`OwnerGoesOn`), and nor does who has the mutex of a pool
  (`ParkedGoesOn`).

Every safety invariant and action property of the passing runs is a theorem, and
so are the three refinements. Model-checked only: everything under fairness
(`Released`, `Executed`, `StopsPromptly`, `WakeupsSettle`, `Answered`, `Sent`,
`Written`, `JoinReturns`, `StopEnds`), which the prover cannot handle.
`SweepsFind`, `NeverOwing`, `NeverCircular`, `FilesOnce` and the three
`NeverSleptOver` are the safety halves of some of them: nothing gets lost, or into
a state in which nobody would go on with it.

## Plan

Done, in this order: the lifecycle (`Reactor`), the two wakeup protocols with
their common abstract specification, the data path, the logger; then the shutdown
(`Shutdown`, which composes the two pools, the loops and the handlers), the data
path with workers, the causes of the process' ends, and the proofs above, the
three refinements of `TaskService` and the way of the bytes from request to reply
included. What comes next:

1. Proofs about a second signal, of which only `ExitsAlone` speaks today: which of two
   calls of `Stop()` may find the server deleted, and what the first one has done then.
2. The composition of `Shutdown` with the connections of `Reactor`, so that the
   order of destruction (maps, connections, sockets) can be told apart; today
   `DeletedAlone` says that nobody is left to see it.

## Not modelled

The text of log records, addresses and socket options, `Timestamp`'s formatting,
the demo programs, `TcpServer`'s statistic (`recvInfo`); system calls beyond their
effect on what is named above. A failing `epoll_create`, `eventfd` or `timerfd_create`
ends the process before anything runs; an `epoll_wait` interrupted by `SIGSTOP` and
`SIGCONT` ends it later (`Epoll.cpp:77`), which adds no state. The unspecified order
of evaluation in `TcpServer.cpp:64` is fixed by the compiler and out of the models'
reach.
