------------------------------ MODULE Reactor ------------------------------
(***************************************************************************)
(* The life of a client connection in the main/sub reactor: who holds a    *)
(* Connection object, which map names its fd, and which thread may touch   *)
(* it when.                                                                *)
(*                                                                         *)
(*   main thread   Acceptor::newconnection -> TcpServer::newconnection     *)
(*   IO thread l   EventLoop::run of subloops_[l]: epoll_wait, dispatch,   *)
(*                 handletimer, handlewakeup                               *)
(*   worker w      EchoServer::OnMessage -> Connection::send               *)
(*                                                                         *)
(* A Connection is kept by shared_ptr: it is alive exactly while somebody  *)
(* refers to it (Alive below), and its destructor closes the fd, which     *)
(* frees the number and takes it out of the epoll tree.  Channel pointers  *)
(* handed out by epoll_wait and the `this' bound into sendinloop are raw   *)
(* and keep nothing alive.                                                 *)
(***************************************************************************)
EXTENDS Integers, FiniteSets

CONSTANTS Conns,      \* the client connections that ever arrive
          Fds,        \* the file descriptor numbers left for clients
          ThreadNum,  \* threadnum_: the number of sub reactors
          Workers,    \* the worker threads; {} is the shipped configuration
          MaxMsgs,    \* bound: requests of one client under way at once
          None        \* no connection, no fd

ASSUME ReactorAssumption ==
    /\ Fds \subseteq Nat
    /\ ThreadNum \in Nat \ {0}
    /\ MaxMsgs \in Nat
    /\ None \notin Conns /\ None \notin Fds

VARIABLES
    status,       \* "up", or how the process came to its end
    stage,        \* how far TcpServer::newconnection has got with a client
    fd,           \* the fd a connection was given by accept4
    serverconns,  \* TcpServer::conns_, fd -> connection
    loopconns,    \* the conns_ of all sub loops, fd -> connection
    expired,      \* history: connections handletimer found timed out
    intree,       \* connections whose fd was added to epoll and not deleted
    disconnect_,  \* connections whose disconnect_ flag is set
    idle,         \* connections whose lastime_ is older than timeout_
    out,          \* connections with unsent replies: EPOLLOUT is enabled
    msgs,         \* requests waiting in a connection's kernel buffer
    peer,         \* the kernel's view of the client: "open", "fin" or "err"
    timer,        \* the timerfd of a loop: "armed" or "rung"
    lpc,          \* what an IO thread is in: "loop", "sweep" or "drain"
    batch,        \* events of the last epoll_wait not dispatched yet
    todo,         \* entries of conns_ handletimer has not looked at yet
    victim,       \* the entry handletimer is between its two erasures of
    jobs,         \* OnMessage tasks queued in the worker pool, per connection
    wk,           \* where a worker is: <<step, connection>>
    sends         \* sendinloop tasks in the queue of a connection's loop

connVars   == <<stage, fd, intree, disconnect_, idle, out, msgs, peer>>
mapVars    == <<serverconns, loopconns, expired>>
loopVars   == <<timer, lpc, batch, todo, victim>>
workVars   == <<jobs, wk, sends>>
vars       == <<status, connVars, mapVars, loopVars, workVars>>

Loops    == 0 .. ThreadNum - 1
Building == {"added", "registered", "built", "bound", "listed", "announced"}
Stages   == {"waiting", "served"} \cup Building
Failures == {"noloop", "dangling", "addexit", "modexit", "terminate",
             "sigpipe"}

(* The sub loop of a connection: fd % threadnum_.                          *)
LoopOf(c) == fd[c] % ThreadNum

(* The main thread refers to a connection through its local spConnection   *)
(* (before the shared_ptr exists, through the object under construction);  *)
(* the maps and the tasks bound for the workers hold shared_ptr copies.    *)
Alive(c) ==
    \/ stage[c] \in Building
    \/ \E f \in Fds : serverconns[f] = c \/ loopconns[f] = c
    \/ jobs[c] > 0
    \/ \E w \in Workers : wk[w][2] = c

(* Mutants: the fd is closed as soon as closeconnection has erased it; the *)
(* fd is closed although a worker still holds the connection.              *)
FdInServerMap(f) == serverconns[f] # None
FdInMaps(f) == serverconns[f] # None \/ loopconns[f] # None
                   \/ \E c \in Conns : stage[c] \in Building /\ fd[c] = f

(* A number stays taken until ~Socket closes it with the Connection.       *)
FdInUse(f) == \E c \in Conns : Alive(c) /\ fd[c] = f

(* Mutant: the callbacks are set after the connection was listed.          *)
CallableLate(c) == stage[c] \in {"listed", "announced", "served"}

(* Callbacks and shared_from_this() work once the constructor has          *)
(* returned into a spConnection and TcpServer has set the callbacks.       *)
Callable(c) == stage[c] \in {"bound", "listed", "announced", "served"}

Init ==
    /\ status = "up"
    /\ stage = [c \in Conns |-> "waiting"]
    /\ fd = [c \in Conns |-> None]
    /\ serverconns = [f \in Fds |-> None]
    /\ loopconns = [f \in Fds |-> None]
    /\ expired = {}
    /\ intree = {} /\ disconnect_ = {} /\ idle = {} /\ out = {}
    /\ msgs = [c \in Conns |-> 0]
    /\ peer = [c \in Conns |-> "open"]
    /\ timer = [l \in Loops |-> "armed"]
    /\ lpc = [l \in Loops |-> "loop"]
    /\ batch = [l \in Loops |-> {}]
    /\ todo = [l \in Loops |-> {}]
    /\ victim = [l \in Loops |-> None]
    /\ jobs = [c \in Conns |-> 0]
    /\ wk = [w \in Workers |-> <<"idle", None>>]
    /\ sends = [c \in Conns |-> 0]

(* The process dies; nothing else is observed of that step.                *)
Fail(how) ==
    /\ status' = how
    /\ UNCHANGED <<connVars, mapVars, loopVars, workVars>>

---------------------------------------------------------------------------
(* Clients, the clock and the kernel                                       *)

(* A client may send as soon as the kernel has completed its handshake,    *)
(* before accept4 has been called for it.                                  *)
ClientSend(c) ==
    /\ status = "up"
    /\ peer[c] = "open"
    /\ stage[c] = "waiting" \/ Alive(c)
    /\ msgs[c] + jobs[c] + sends[c] < MaxMsgs
    /\ msgs' = [msgs EXCEPT ![c] = @ + 1]
    /\ UNCHANGED <<status, stage, fd, intree, disconnect_, idle, out, peer,
                   mapVars, loopVars, workVars>>

(* The stream ends, by a close or a reset, which read() reports as 0 in    *)
(* the end ("fin"), or the kernel reports an error without EPOLLIN         *)
(* ("err").                                                                *)
ClientGone(c, how) ==
    /\ status = "up"
    /\ peer[c] = "open"
    /\ stage[c] = "waiting" \/ Alive(c)
    /\ peer' = [peer EXCEPT ![c] = how]
    /\ UNCHANGED <<status, stage, fd, intree, disconnect_, idle, out, msgs,
                   mapVars, loopVars, workVars>>

(* timeout_ seconds pass since the last request.                           *)
GoIdle(c) ==
    /\ status = "up"
    /\ Alive(c) /\ c \notin idle
    /\ idle' = idle \cup {c}
    /\ UNCHANGED <<status, stage, fd, intree, disconnect_, out, msgs, peer,
                   mapVars, loopVars, workVars>>

Ring(l) ==
    /\ status = "up"
    /\ timer[l] = "armed"
    /\ timer' = [timer EXCEPT ![l] = "rung"]
    /\ UNCHANGED <<status, connVars, mapVars, lpc, batch, todo, victim,
                   workVars>>

---------------------------------------------------------------------------
(* The main thread                                                         *)

(* accept4, then the Connection constructor as far as the EPOLL_CTL_ADD in *)
(* enablereading(): from there on the sub loop sees the connection.  With  *)
(* no fd left accept4 answers -1: -1 % threadnum_ indexes no loop at all,  *)
(* or (one loop only) EPOLL_CTL_ADD fails.                                 *)
Accept(c) ==
    /\ status = "up"
    /\ stage[c] = "waiting"
    /\ \A d \in Conns : stage[d] \notin Building
    /\ \/ /\ \A f \in Fds : FdInUse(f)
          /\ Fail(IF ThreadNum = 1 THEN "addexit" ELSE "noloop")
       \/ /\ \E f \in Fds : ~FdInUse(f) /\ fd' = [fd EXCEPT ![c] = f]
          /\ stage' = [stage EXCEPT ![c] = "added"]
          /\ intree' = intree \cup {c}
          /\ UNCHANGED <<status, disconnect_, idle, out, msgs, peer, mapVars,
                         loopVars, workVars>>

(* setinepoll() ("registered"); flag_ = true ends the constructor          *)
(* ("built"); then the object is handed to the spConnection and the four   *)
(* callbacks are set ("bound").                                            *)
Construct(c) ==
    /\ status = "up"
    /\ \/ stage[c] = "added" /\ stage' = [stage EXCEPT ![c] = "registered"]
       \/ stage[c] = "registered" /\ stage' = [stage EXCEPT ![c] = "built"]
       \/ stage[c] = "built" /\ stage' = [stage EXCEPT ![c] = "bound"]
    /\ UNCHANGED <<status, fd, intree, disconnect_, idle, out, msgs, peer,
                   mapVars, loopVars, workVars>>

ListInServer(c) ==
    /\ status = "up"
    /\ stage[c] = "bound"
    /\ stage' = [stage EXCEPT ![c] = "listed"]
    /\ serverconns' = [serverconns EXCEPT ![fd[c]] = c]
    /\ UNCHANGED <<status, fd, intree, disconnect_, idle, out, msgs, peer,
                   loopconns, expired, loopVars, workVars>>

(* EventLoop::newconnection.                                               *)
(* handletimer walks the same map without mmutex_: when it is doing so,    *)
(* the insertion, or the rehash it causes, relinks the nodes under it, and *)
(* the walk may go on with any of the entries.                             *)
ListInLoop(c) ==
    /\ status = "up"
    /\ stage[c] = "listed"
    /\ stage' = [stage EXCEPT ![c] = "announced"]
    /\ loopconns' = [loopconns EXCEPT ![fd[c]] = c]
    /\ IF lpc[LoopOf(c)] = "sweep"
       THEN \E seen \in SUBSET {f \in Fds : f % ThreadNum = LoopOf(c)
                                                /\ loopconns'[f] # None} :
                todo' = [todo EXCEPT ![LoopOf(c)] = seen]
       ELSE UNCHANGED todo
    /\ UNCHANGED <<status, fd, intree, disconnect_, idle, out, msgs, peer,
                   serverconns, expired, timer, lpc, batch, victim, workVars>>

(* newconnectioncb_, which waits for logMutex, ends the block, and with it *)
(* the local spConnection goes away.  Had the sweep erased the connection  *)
(* from both maps meanwhile, it is destroyed here, by the main thread: no  *)
(* matter whether its loop is about to dispatch it or in the middle of it, *)
(* which is taken for the former.                                          *)
Announce(c) ==
    /\ status = "up"
    /\ stage[c] = "announced"
    /\ stage' = [stage EXCEPT ![c] = "served"]
    /\ UNCHANGED <<status, fd, intree, disconnect_, idle, out, msgs, peer,
                   mapVars, loopVars, workVars>>

Main == \E c \in Conns : \/ Accept(c) \/ Construct(c) \/ ListInServer(c)
                          \/ ListInLoop(c) \/ Announce(c)

---------------------------------------------------------------------------
(* The IO thread of sub loop l                                             *)

(* What epoll reports of c, in the order handleevent tests revents: input  *)
(* first (end of stream is input too), then output, and anything else is   *)
(* an error.                                                               *)
Event(c) == CASE msgs[c] > 0 \/ peer[c] = "fin" -> "in"
              [] ~(msgs[c] > 0 \/ peer[c] = "fin") /\ c \in out -> "out"
              [] OTHER -> "err"

Pending(c) == msgs[c] > 0 \/ peer[c] # "open" \/ c \in out

Ready(l) ==
    {<<c, Event(c)>> : c \in {d \in intree :
                                 Alive(d) /\ LoopOf(d) = l /\ Pending(d)}}
    \cup {<<None, "timer">> : t \in {k \in {l} : timer[k] = "rung"}}
    \cup {<<None, "wake">> : d \in {e \in Conns :
                                       sends[e] > 0 /\ LoopOf(e) = l}}

(* Epoll::loop: the ready list holds raw Channel pointers.                 *)
Poll(l) ==
    /\ status = "up"
    /\ lpc[l] = "loop" /\ batch[l] = {} /\ Ready(l) # {}
    /\ batch' = [batch EXCEPT ![l] = Ready(l)]
    /\ UNCHANGED <<status, connVars, mapVars, timer, lpc, todo, victim,
                   workVars>>

Dispatching(l, e) ==
    /\ status = "up"
    /\ lpc[l] = "loop" /\ e \in batch[l]

Dispatched(l, e) == batch' = [batch EXCEPT ![l] = @ \ {e}]

(* The connection of a ready Channel was destroyed since epoll_wait.       *)
DispatchDangling(l, c) ==
    /\ \E ev \in {"in", "out", "err"} : Dispatching(l, <<c, ev>>)
    /\ ~Alive(c)
    /\ Fail("dangling")

(* Mutant: disconnect_ is not set.                                         *)
CloseUnmarked(c) ==
    /\ Callable(c) /\ c \in intree
    /\ UNCHANGED disconnect_
    /\ intree' = intree \ {c}
    /\ out' = out \ {c}
    /\ serverconns' = [serverconns EXCEPT ![fd[c]] = None]

(* closecallback and errorcallback differ in the log line only: both set   *)
(* disconnect_, take the fd out of epoll and have TcpServer erase          *)
(* conns_[fd].                                                             *)
Close(c) ==
    /\ Callable(c) /\ c \in intree
    /\ disconnect_' = disconnect_ \cup {c}
    /\ intree' = intree \ {c}
    /\ out' = out \ {c}
    /\ serverconns' = [serverconns EXCEPT ![fd[c]] = None]

(* Before setinepoll() the close takes the fd for a new one, and a second  *)
(* EPOLL_CTL_ADD of it ends in exit(-1), as EPOLL_CTL_MOD does of an fd    *)
(* that is not in the tree.  Before the callbacks are set the call throws, *)
(* nobody catches it and the process terminates.                           *)
CloseFails(c) ==
    \/ stage[c] = "added" /\ Fail("addexit")
    \/ stage[c] # "added" /\ c \notin intree /\ Fail("modexit")
    \/ /\ stage[c] # "added" /\ c \in intree /\ ~Callable(c)
       /\ Fail("terminate")

(* onmessage reads up to end of stream: the requests read before it are    *)
(* left in inputbuffer_ and the connection is closed.                      *)
ReadEof(l, c) ==
    /\ Dispatching(l, <<c, "in">>) /\ Alive(c)
    /\ peer[c] = "fin"
    /\ \/ /\ Close(c)
          /\ Dispatched(l, <<c, "in">>)
          /\ msgs' = [msgs EXCEPT ![c] = 0]
          /\ UNCHANGED <<status, stage, fd, idle, peer, loopconns, expired,
                         timer, lpc, todo, victim, workVars>>
       \/ CloseFails(c)

(* onmessage reads whole requests.  It waits for flag_; when the callback  *)
(* is not set yet the call throws and the request is gone.  Otherwise the  *)
(* request goes to the workers, or is answered here: the reply is put in   *)
(* outputbuffer_ and EPOLLOUT enabled.                                     *)
ReadMessages(l, c) ==
    /\ Dispatching(l, <<c, "in">>) /\ Alive(c)
    /\ peer[c] # "fin" /\ stage[c] \notin {"added", "registered"}
    /\ Dispatched(l, <<c, "in">>)
    /\ msgs' = [msgs EXCEPT ![c] = 0]
    /\ idle' = idle \ {c}
    /\ IF Callable(c) /\ Workers # {}
       THEN jobs' = [jobs EXCEPT ![c] = @ + msgs[c]]
       ELSE UNCHANGED jobs
    /\ out' = IF Callable(c) /\ Workers = {} THEN out \cup {c} ELSE out
    /\ UNCHANGED <<status, stage, fd, intree, disconnect_, peer, mapVars,
                   timer, lpc, todo, victim, wk, sends>>

(* writecallback: all is sent and EPOLLOUT disabled, or the socket takes   *)
(* no more for now; once the client is gone send may fail, which closes    *)
(* the connection, or raise SIGPIPE, which nothing handles.                *)
WriteReplies(l, c) ==
    /\ Dispatching(l, <<c, "out">>) /\ Alive(c)
    /\ Dispatched(l, <<c, "out">>)
    /\ out' \in {out, out \ {c}}
    /\ UNCHANGED <<status, stage, fd, intree, disconnect_, idle, msgs, peer,
                   mapVars, timer, lpc, todo, victim, workVars>>

WriteFails(l, c) ==
    /\ Dispatching(l, <<c, "out">>) /\ Alive(c)
    /\ peer[c] # "open"
    /\ \/ /\ Close(c)
          /\ Dispatched(l, <<c, "out">>)
          /\ UNCHANGED <<status, stage, fd, idle, msgs, peer, loopconns,
                         expired, timer, lpc, todo, victim, workVars>>
       \/ CloseFails(c)
       \/ peer[c] = "fin" /\ Fail("sigpipe")

ErrorCallback(l, c) ==
    /\ Dispatching(l, <<c, "err">>) /\ Alive(c)
    /\ \/ /\ Close(c)
          /\ Dispatched(l, <<c, "err">>)
          /\ UNCHANGED <<status, stage, fd, idle, msgs, peer, loopconns,
                         expired, timer, lpc, todo, victim, workVars>>
       \/ CloseFails(c)

(* Mutant: the timer is not armed again.                                   *)
TimerEventOnce(l) ==
    /\ Dispatching(l, <<None, "timer">>)
    /\ Dispatched(l, <<None, "timer">>)
    /\ timer' = [timer EXCEPT ![l] = "off"]
    /\ lpc' = [lpc EXCEPT ![l] = "sweep"]
    /\ todo' = [todo EXCEPT ![l] =
                  {f \in Fds : f % ThreadNum = l /\ loopconns[f] # None}]
    /\ UNCHANGED <<status, connVars, mapVars, victim, workVars>>

(* handletimer re-arms the timer and walks the conns_ of this loop.        *)
TimerEvent(l) ==
    /\ Dispatching(l, <<None, "timer">>)
    /\ Dispatched(l, <<None, "timer">>)
    /\ timer' = [timer EXCEPT ![l] = "armed"]
    /\ lpc' = [lpc EXCEPT ![l] = "sweep"]
    /\ todo' = [todo EXCEPT ![l] =
                  {f \in Fds : f % ThreadNum = l /\ loopconns[f] # None}]
    /\ UNCHANGED <<status, connVars, mapVars, victim, workVars>>

SweepSkip(l, f) ==
    /\ status = "up"
    /\ lpc[l] = "sweep" /\ victim[l] = None /\ f \in todo[l]
    /\ loopconns[f] \notin idle
    /\ todo' = [todo EXCEPT ![l] = @ \ {f}]
    /\ UNCHANGED <<status, connVars, mapVars, timer, lpc, batch, victim,
                   workVars>>

(* Mutant: every connection looked at counts as timed out.                 *)
SweepRemoveAny(l, f) ==
    /\ status = "up"
    /\ lpc[l] = "sweep" /\ victim[l] = None /\ f \in todo[l]
    /\ serverconns' = [serverconns EXCEPT ![f] = None]
    /\ expired' = expired \cup {loopconns[f]}
    /\ victim' = [victim EXCEPT ![l] = f]
    /\ UNCHANGED <<status, connVars, loopconns, timer, lpc, batch, todo,
                   workVars>>

(* Mutant: only the loop's own entry is erased.                            *)
SweepRemoveOwn(l, f) ==
    /\ status = "up"
    /\ lpc[l] = "sweep" /\ victim[l] = None /\ f \in todo[l]
    /\ loopconns[f] \in idle
    /\ victim' = [victim EXCEPT ![l] = f]
    /\ UNCHANGED <<status, connVars, mapVars, timer, lpc, batch, todo,
                   workVars>>

(* timercallback_ = TcpServer::removeconn, by fd, comes first ...          *)
SweepRemove(l, f) ==
    /\ status = "up"
    /\ lpc[l] = "sweep" /\ victim[l] = None /\ f \in todo[l]
    /\ loopconns[f] \in idle
    /\ serverconns' = [serverconns EXCEPT ![f] = None]
    /\ expired' = expired \cup {loopconns[f]}
    /\ victim' = [victim EXCEPT ![l] = f]
    /\ UNCHANGED <<status, connVars, loopconns, timer, lpc, batch, todo,
                   workVars>>

(* ... and then the loop's own entry is erased, which may destroy the      *)
(* connection and close its fd.                                            *)
SweepErase(l) ==
    /\ status = "up"
    /\ victim[l] # None
    /\ loopconns' = [loopconns EXCEPT ![victim[l]] = None]
    /\ todo' = [todo EXCEPT ![l] = @ \ {victim[l]}]
    /\ victim' = [victim EXCEPT ![l] = None]
    /\ UNCHANGED <<status, connVars, serverconns, expired, timer, lpc, batch,
                   workVars>>

SweepDone(l) ==
    /\ status = "up"
    /\ lpc[l] = "sweep" /\ victim[l] = None /\ todo[l] = {}
    /\ lpc' = [lpc EXCEPT ![l] = "loop"]
    /\ UNCHANGED <<status, connVars, mapVars, timer, batch, todo, victim,
                   workVars>>

(* handlewakeup runs the queued sendinloop tasks with the queue's mutex_   *)
(* held (lpc "drain").  The task has a raw `this', and EPOLL_CTL_MOD of an *)
(* fd that is no longer in the tree ends the process.                      *)
WakeEvent(l) ==
    /\ Dispatching(l, <<None, "wake">>)
    /\ Dispatched(l, <<None, "wake">>)
    /\ lpc' = [lpc EXCEPT ![l] = "drain"]
    /\ UNCHANGED <<status, connVars, mapVars, timer, todo, victim, workVars>>

SendInLoop(l, c) ==
    /\ status = "up"
    /\ lpc[l] = "drain" /\ sends[c] > 0 /\ LoopOf(c) = l
    /\ \/ ~Alive(c) /\ Fail("dangling")
       \/ Alive(c) /\ c \notin intree /\ Fail("modexit")
       \/ /\ Alive(c) /\ c \in intree
          /\ sends' = [sends EXCEPT ![c] = @ - 1]
          /\ out' = out \cup {c}
          /\ UNCHANGED <<status, stage, fd, intree, disconnect_, idle, msgs,
                         peer, mapVars, loopVars, jobs, wk>>

DrainDone(l) ==
    /\ status = "up"
    /\ lpc[l] = "drain"
    /\ \A c \in Conns : sends[c] > 0 => LoopOf(c) # l
    /\ lpc' = [lpc EXCEPT ![l] = "loop"]
    /\ UNCHANGED <<status, connVars, mapVars, timer, batch, todo, victim,
                   workVars>>

IOLoop(l) ==
    \/ Poll(l)
    \/ \E c \in Conns :
          \/ DispatchDangling(l, c) \/ ReadEof(l, c) \/ ReadMessages(l, c)
          \/ WriteReplies(l, c) \/ WriteFails(l, c) \/ ErrorCallback(l, c)
          \/ SendInLoop(l, c)
    \/ \E f \in Fds : SweepSkip(l, f) \/ SweepRemove(l, f)
    \/ TimerEvent(l) \/ SweepErase(l) \/ SweepDone(l)
    \/ WakeEvent(l) \/ DrainDone(l)

---------------------------------------------------------------------------
(* A worker thread                                                         *)

(* Mutant: a task is taken without looking whether there is one.           *)
TakeJobBlind(w, c) ==
    /\ status = "up"
    /\ wk[w][1] = "idle" /\ stage[c] = "served"
    /\ jobs' = [jobs EXCEPT ![c] = @ - 1]
    /\ wk' = [wk EXCEPT ![w] = <<"send", c>>]
    /\ UNCHANGED <<status, connVars, mapVars, loopVars, sends>>

(* The task moved out of the pool's queue holds the spConnection.          *)
TakeJob(w, c) ==
    /\ status = "up"
    /\ wk[w][1] = "idle" /\ jobs[c] > 0
    /\ jobs' = [jobs EXCEPT ![c] = @ - 1]
    /\ wk' = [wk EXCEPT ![w] = <<"send", c>>]
    /\ UNCHANGED <<status, connVars, mapVars, loopVars, sends>>

(* send() reads disconnect_ ...                                            *)
CheckDisconnect(w) ==
    /\ status = "up"
    /\ wk[w][1] = "send"
    /\ wk' = [wk EXCEPT ![w] =
                <<IF wk[w][2] \in disconnect_ THEN "return" ELSE "queue",
                  wk[w][2]>>]
    /\ UNCHANGED <<status, connVars, mapVars, loopVars, jobs, sends>>

(* ... and a moment later queues sendinloop, when it gets mutex_.          *)
QueueInLoop(w) ==
    /\ status = "up"
    /\ wk[w][1] = "queue" /\ lpc[LoopOf(wk[w][2])] # "drain"
    /\ sends' = [sends EXCEPT ![wk[w][2]] = @ + 1]
    /\ wk' = [wk EXCEPT ![w] = <<"return", wk[w][2]>>]
    /\ UNCHANGED <<status, connVars, mapVars, loopVars, jobs>>

(* The finished task is destroyed and lets go of the connection.           *)
FinishJob(w) ==
    /\ status = "up"
    /\ wk[w][1] = "return"
    /\ wk' = [wk EXCEPT ![w] = <<"idle", None>>]
    /\ UNCHANGED <<status, connVars, mapVars, loopVars, jobs, sends>>

Worker(w) == \/ \E c \in Conns : TakeJob(w, c)
             \/ CheckDisconnect(w) \/ QueueInLoop(w) \/ FinishJob(w)

---------------------------------------------------------------------------

(* A process that has died stays dead.                                     *)
Dead == status # "up" /\ UNCHANGED vars

Next ==
    \/ \E c \in Conns : \/ ClientSend(c) \/ GoIdle(c)
                        \/ \E how \in {"fin", "err"} : ClientGone(c, how)
    \/ Main
    \/ \E l \in Loops : Ring(l) \/ IOLoop(l)
    \/ \E w \in Workers : Worker(w)
    \/ Dead

Spec == Init /\ [][Next]_vars

(* The threads run, the clock advances and every timer rings.  The pool's  *)
(* queue is first in, first out, so no task waits behind others for ever.  *)
Fairness ==
    /\ WF_vars(Main)
    /\ \A l \in Loops : WF_vars(IOLoop(l)) /\ WF_vars(Ring(l))
    /\ \A c \in Conns : WF_vars(GoIdle(c))
    /\ \A w \in Workers : WF_vars(Worker(w))
    /\ \A c \in Conns : SF_vars(\E w \in Workers : TakeJob(w, c))

FairSpec == Spec /\ Fairness

---------------------------------------------------------------------------
(* Properties                                                              *)

TypeOK ==
    /\ status \in {"up"} \cup Failures
    /\ stage \in [Conns -> Stages]
    /\ fd \in [Conns -> Fds \cup {None}]
    /\ \A c \in Conns : stage[c] # "waiting" => fd[c] \in Fds
    /\ serverconns \in [Fds -> Conns \cup {None}]
    /\ loopconns \in [Fds -> Conns \cup {None}]
    /\ expired \subseteq Conns
    /\ intree \subseteq Conns /\ disconnect_ \subseteq Conns
    /\ idle \subseteq Conns /\ out \subseteq Conns
    /\ msgs \in [Conns -> Nat]
    /\ peer \in [Conns -> {"open", "fin", "err"}]
    /\ timer \in [Loops -> {"armed", "rung"}]
    /\ lpc \in [Loops -> {"loop", "sweep", "drain"}]
    /\ batch \in [Loops -> SUBSET ((Conns \X {"in", "out", "err"})
                                    \cup ({None} \X {"timer", "wake"}))]
    /\ todo \in [Loops -> SUBSET Fds]
    /\ victim \in [Loops -> Fds \cup {None}]
    /\ jobs \in [Conns -> Nat]
    /\ wk \in [Workers -> {"idle", "send", "queue", "return"}
                             \X (Conns \cup {None})]
    /\ sends \in [Conns -> Nat]

(* TcpServer::conns_ and EventLoop::conns_ are keyed by a number that the  *)
(* kernel reuses: an fd both maps name belongs to one connection in both.  *)
MapsAgree ==
    \A f \in Fds : \/ serverconns[f] = None \/ loopconns[f] = None
                   \/ serverconns[f] = loopconns[f]

(* Only the sweep of a loop lets go of an idle connection, and it looks at *)
(* its own conns_ alone: whatever TcpServer::conns_ holds is there as well *)
(* (or about to be inserted by the main thread), so that no entry, and no  *)
(* fd, is left behind that nothing would ever release.                     *)
SweepFinds ==
    \A f \in Fds :
        serverconns[f] # None => \/ loopconns[f] = serverconns[f]
                                \/ stage[serverconns[f]] = "listed"

(* closeconnection, errorconnection and removeconn erase conns_[fd] by     *)
(* number, the last one on behalf of another map: none ever throws out a   *)
(* connection that is neither disconnected nor idle, however fds are       *)
(* reused and however the threads interleave.                              *)
OwnRemoval ==
    \A f \in Fds :
        serverconns[f] # None /\ serverconns'[f] # serverconns[f]
            => serverconns[f] \in disconnect_' \cup idle
RemovesOnlyItsOwn == [][OwnRemoval]_vars

(* From its insertion on, a connection is in both maps, so that its object *)
(* exists and its fd number is its own, unless it was disconnected or the  *)
(* sweep found it timed out: it never loses its place by an fd number that *)
(* two connections have had, or to another thread.                         *)
ServedIsHeld ==
    \A c \in {d \in Conns : stage[d] \in {"announced", "served"}} :
        c \notin disconnect_ \cup expired
            => serverconns[fd[c]] = c /\ loopconns[fd[c]] = c

(* Without workers there are five ways for the server to go down, each     *)
(* with its cause: accept4 found no fd left; a connection that the sweep   *)
(* had timed out was destroyed, by the sweep or by main's letting go of    *)
(* it, between epoll_wait and its dispatch; a client left before           *)
(* setinepoll(), or before the callbacks were set; or a reply went to one  *)
(* that had left.  A close within a round never destroys what the round    *)
(* still dispatches, and no EPOLL_CTL_MOD meets an fd that an earlier      *)
(* close took out.                                                         *)
EndsForAReason ==
    Workers = {} =>
        /\ status # "modexit"
        /\ status = "noloop" => \A f \in Fds : FdInUse(f)
        /\ status = "addexit" =>
              \/ \A f \in Fds : FdInUse(f)
              \/ \E c \in Conns : stage[c] = "added" /\ peer[c] # "open"
        /\ status = "dangling" =>
              \E l \in Loops, c \in expired, ev \in {"in", "out", "err"} :
                  <<c, ev>> \in batch[l] /\ ~Alive(c)
        /\ status = "terminate" =>
              \E c \in Conns : stage[c] \in {"registered", "built"}
                                  /\ peer[c] # "open"
        /\ status = "sigpipe" => \E c \in out : peer[c] = "fin"

(* Nothing erases a closed connection from its loop's conns_ but the idle  *)
(* sweep: still, every disconnected connection is destroyed in the end and *)
(* its fd closed.                                                          *)
Released ==
    \A c \in Conns : c \in disconnect_ ~> (~Alive(c) \/ status # "up")

(* Readme.md:20, smart pointers manage the resources: the loop never       *)
(* dispatches to, or runs a task of, a destroyed Connection.               *)
NoDangling == status # "dangling"

(* Connection.cpp:177, sending to a disconnected client just returns: a    *)
(* send never brings the server down.                                      *)
SendReturns == status # "modexit"
=============================================================================
