------------------------------ MODULE Shutdown ------------------------------
(***************************************************************************)
(* echoserver.cpp: the start of the server and Stop(), which runs as a     *)
(* signal handler on top of whatever its thread was doing and never        *)
(* returns.  It stops and joins the workers, stops the loops, stops and    *)
(* joins the IO threads, deletes the server and exits.  Both pools are     *)
(* those of ThreadPool; the tasks of the IO pool are the loops.            *)
(*                                                                         *)
(* What matters of the interrupted code is which mutex it holds: logMutex, *)
(* TcpServer's mutex_ for conns_, and the mmutex_ of a loop.  The kernel   *)
(* gives a signal to the main thread unless that is in Stop() on behalf of *)
(* the same signal, which blocks it; then to some other thread.            *)
(***************************************************************************)
EXTENDS Integers, Sequences, FiniteSets

CONSTANTS Main,       \* the main thread
          IOThreads,  \* threads_ of TcpServer's pool
          Loops,      \* subloops_
          Workers,    \* threads_ of EchoServer's pool
          Requests,   \* requests that IO threads hand to the workers
          MaxSignals, \* bound: signals that arrive
          None        \* no thread, no task

ASSUME ShutdownAssumption ==
    /\ IsFiniteSet(IOThreads) /\ IsFiniteSet(Workers)
    /\ IsFiniteSet(Loops) /\ IsFiniteSet(Requests)
    /\ MaxSignals \in Nat
    /\ Main \notin IOThreads \cup Workers /\ IOThreads \cap Workers = {}
    /\ None \notin {Main} \cup IOThreads \cup Workers \cup Loops \cup Requests
    /\ {"log", "conns"} \cap Loops = {}

VARIABLES
    status,     \* "up", or how the process came to its end
    server,     \* echoserver: "none", "up", "deleted"
    owner,      \* who holds logMutex ("log"), mutex_ ("conns"), mmutex_
    mpc,        \* where the main thread is, when no handler runs on it
    lpc,        \* where EventLoop::run of a loop is
    loopstop,   \* the loops whose stop_ is set
    frames,     \* the calls of Stop(), in the order of their signals
    ioqueue, iostop, iomutex, iopc, iotask, ioadd, iostopper,
    wqueue, wstop, wmutex, wpc, wtask, wadd, wstopper

IO == INSTANCE ThreadPool WITH
    Workers <- IOThreads, Tasks <- Loops,
    taskqueue_ <- ioqueue, stop_ <- iostop, mutex_ <- iomutex, pc <- iopc,
    task <- iotask, add <- ioadd, stopper <- iostopper

Work == INSTANCE ThreadPool WITH
    Tasks <- Requests,
    taskqueue_ <- wqueue, stop_ <- wstop, mutex_ <- wmutex, pc <- wpc,
    task <- wtask, add <- wadd, stopper <- wstopper

mainVars == <<status, server, mpc>>
loopVars == <<lpc, loopstop>>
ioVars   == <<ioqueue, iostop, iomutex, iopc, iotask, ioadd, iostopper>>
workVars == <<wqueue, wstop, wmutex, wpc, wtask, wadd, wstopper>>
vars     == <<mainVars, owner, loopVars, frames, ioVars, workVars>>

Threads == {Main} \cup IOThreads \cup Workers
Locks   == {"log", "conns"} \cup Loops

Init ==
    /\ status = "up" /\ server = "none" /\ mpc = "create"
    /\ owner = [k \in Locks |-> None]
    /\ lpc = [l \in Loops |-> "check"] /\ loopstop = {}
    /\ frames = <<>>
    /\ IO!Init /\ Work!Init

(* A thread on which a handler runs does nothing else any more.            *)
Busy(t)  == \E i \in DOMAIN frames : frames[i].on = t
Runs(t)  == status = "up" /\ ~Busy(t)

Lock(t, k)   == owner[k] = None /\ owner' = [owner EXCEPT ![k] = t]
Unlock(t, k) == owner[k] = t /\ owner' = [owner EXCEPT ![k] = None]

---------------------------------------------------------------------------
(* The main thread                                                         *)

(* The constructor of TcpServer queues run() of every loop; ...            *)
Create(l) ==
    /\ Runs(Main) /\ mpc = "create"
    /\ IO!Push(l) \/ IO!Notify(l)
    /\ UNCHANGED <<mainVars, owner, loopVars, frames, workVars>>

(* ... when all is built, echoserver is assigned and main logs a line.     *)
Created ==
    /\ Runs(Main) /\ mpc = "create"
    /\ \A l \in Loops : ioadd[l] = "added"
    /\ server' = "up" /\ mpc' = "log"
    /\ UNCHANGED <<status, owner, loopVars, frames, ioVars, workVars>>

(* TcpServer::newconnection: the client is put in conns_, then in the      *)
(* conns_ of its loop, and HandleNewConnection logs it.                    *)
Accept ==
    /\ Runs(Main) /\ mpc = "poll"
    /\ mpc' = "conns"
    /\ UNCHANGED <<status, server, owner, loopVars, frames, ioVars, workVars>>

MainLocks == CASE mpc = "conns" -> {"conns"}
               [] mpc = "loop"  -> Loops
               [] mpc = "log"   -> {"log"}
               [] OTHER         -> {}

MainLock ==
    /\ Runs(Main)
    /\ \A k \in MainLocks : owner[k] # Main
    /\ \E k \in MainLocks : Lock(Main, k)
    /\ UNCHANGED <<mainVars, loopVars, frames, ioVars, workVars>>

MainUnlock ==
    /\ Runs(Main)
    /\ \E k \in MainLocks : Unlock(Main, k)
    /\ mpc' = CASE mpc = "conns" -> "loop"
                [] mpc = "loop"  -> "log"
                [] mpc = "log"   -> "poll"
    /\ UNCHANGED <<status, server, loopVars, frames, ioVars, workVars>>

MainThread == (\E l \in Loops : Create(l)) \/ Created \/ Accept
                  \/ MainLock \/ MainUnlock

---------------------------------------------------------------------------
(* An IO thread: its pool, and run() of the loop it has taken              *)

IOPool(w) ==
    /\ Runs(w)
    /\ \/ IO!Enter(w) \/ IO!Take(w) \/ IO!Leave(w)
       \/ IO!Park(w) \/ IO!Sleep(w)
    /\ UNCHANGED <<mainVars, owner, loopVars, frames, workVars>>

InLoop(w, l, at) == Runs(w) /\ iotask[w] = l /\ lpc[l] = at
Step(l, at)      == lpc' = [lpc EXCEPT ![l] = at]

(* while (!stop_)                                                          *)
LoopCheck(w, l) ==
    /\ InLoop(w, l, "check") /\ l \notin loopstop
    /\ Step(l, "poll")
    /\ UNCHANGED <<mainVars, owner, loopstop, frames, ioVars, workVars>>

(* Mutant: the thread ends with run() and keeps its task.                  *)
LoopOverLeaving(w, l) ==
    /\ InLoop(w, l, "check") /\ l \in loopstop
    /\ iopc' = [iopc EXCEPT ![w] = "exit"]
    /\ UNCHANGED <<ioqueue, iostop, iomutex, iotask, ioadd, iostopper>>
    /\ UNCHANGED <<mainVars, owner, loopVars, frames, workVars>>

LoopOver(w, l) ==
    /\ InLoop(w, l, "check") /\ l \in loopstop
    /\ IO!Finish(w)
    /\ UNCHANGED <<mainVars, owner, loopVars, frames, workVars>>

(* epoll_wait returns with a connection that was closed or failed, with a  *)
(* timer at which one has been idle, with a request for the workers, or    *)
(* with what concerns none of the mutexes, a timeout included.             *)
LoopEvent(w, l) ==
    /\ InLoop(w, l, "poll")
    /\ \E at \in {"closing", "remove", "message", "check"} : Step(l, at)
    /\ UNCHANGED <<mainVars, owner, loopstop, frames, ioVars, workVars>>

(* closeconnection and errorconnection log, then erase from conns_;        *)
(* handletimer erases from conns_ (removeconn), then from its own map.     *)
LoopLocks(l) == CASE lpc[l] = "closing"           -> {"log"}
                  [] lpc[l] \in {"erase", "remove"} -> {"conns"}
                  [] lpc[l] = "sweep"             -> {l}
                  [] OTHER                        -> {}

LoopLock(w, l) ==
    /\ InLoop(w, l, lpc[l])
    /\ \E k \in LoopLocks(l) : Lock(w, k)
    /\ UNCHANGED <<mainVars, loopVars, frames, ioVars, workVars>>

LoopUnlock(w, l) ==
    /\ InLoop(w, l, lpc[l])
    /\ \E k \in LoopLocks(l) : Unlock(w, k)
    /\ Step(l, CASE lpc[l] = "closing" -> "erase"
                 [] lpc[l] = "remove"  -> "sweep"
                 [] OTHER              -> "check")
    /\ UNCHANGED <<mainVars, loopstop, frames, ioVars, workVars>>

(* HandleMessage with workers: addtask(), for as many as Requests are.     *)
LoopMessage(w, l) ==
    /\ InLoop(w, l, "message")
    /\ \/ (\E r \in Requests : Work!Push(r)) /\ Step(l, "notify")
       \/ /\ \A r \in Requests : wadd[r] # "new"
          /\ Step(l, "check") /\ UNCHANGED workVars
    /\ UNCHANGED <<mainVars, owner, loopstop, frames, ioVars>>

LoopNotify(w, l) ==
    /\ InLoop(w, l, "notify")
    /\ \E r \in Requests : Work!Notify(r)
    /\ Step(l, "check")
    /\ UNCHANGED <<mainVars, owner, loopstop, frames, ioVars>>

Loop(w, l) == \/ LoopCheck(w, l) \/ LoopOver(w, l) \/ LoopEvent(w, l)
              \/ LoopLock(w, l) \/ LoopUnlock(w, l)
              \/ LoopMessage(w, l) \/ LoopNotify(w, l)

---------------------------------------------------------------------------
(* A worker thread: its pool and OnMessage                                 *)

WorkPool(w) ==
    /\ Runs(w)
    /\ \/ Work!Enter(w) \/ Work!Take(w) \/ Work!Leave(w)
       \/ Work!Park(w) \/ Work!Sleep(w)
    /\ UNCHANGED <<mainVars, owner, loopVars, frames, ioVars>>

(* send() queues the reply for the loop, ...                               *)
Reply(w) ==
    /\ Runs(w) /\ owner["log"] # w
    /\ Work!Finish(w)
    /\ UNCHANGED <<mainVars, owner, loopVars, frames, ioVars>>

(* ... or logs that the client is gone.                                    *)
ReplyLog(w) ==
    /\ Runs(w) /\ wpc[w] = "run"
    /\ Lock(w, "log")
    /\ UNCHANGED <<mainVars, loopVars, frames, ioVars, workVars>>

(* Mutant: a worker goes on to its next task with logMutex held.           *)
ReplyLoggedKeeping(w) ==
    /\ Runs(w) /\ owner["log"] = w
    /\ Work!Finish(w)
    /\ UNCHANGED <<mainVars, owner, loopVars, frames, ioVars>>

ReplyLogged(w) ==
    /\ Runs(w)
    /\ Unlock(w, "log")
    /\ Work!Finish(w)
    /\ UNCHANGED <<mainVars, loopVars, frames, ioVars>>

Worker(w) == WorkPool(w) \/ Reply(w) \/ ReplyLog(w) \/ ReplyLogged(w)

---------------------------------------------------------------------------
(* Stop(), as the handler of the i-th signal                               *)

(* Mutants: TcpServer is stopped before the workers; the IO threads are    *)
(* joined before the loops are stopped.                                    *)
ServerFirst == [sig  |-> "loops",   llog |-> "pool",  plog |-> "workers",
                wlog |-> "delete",  dlog |-> "unjoin"]
PoolFirst   == [sig  |-> "workers", wlog |-> "pool",  plog |-> "loops",
                llog |-> "delete",  dlog |-> "unjoin"]

(* The log lines, and what Stop() does after each; lines that follow one   *)
(* another are one.                                                        *)
AfterLog == [sig  |-> "workers", wlog |-> "loops", llog |-> "pool",
             plog |-> "delete",  dlog |-> "unjoin"]
Positions == DOMAIN AfterLog
                 \cup {"workers", "wset", "wjoin", "loops", "pool", "set",
                       "join", "delete", "unjoin", "exit"}

Exited(t) == \/ t \in IOThreads /\ iopc[t] = "exit"
             \/ t \in Workers /\ wpc[t] = "exit"
Handled(t) == Cardinality({i \in DOMAIN frames : frames[i].on = t})

(* SIGTERM or SIGINT.  signal() blocks a signal while its handler runs on  *)
(* a thread: the main thread may still get the other one, every other      *)
(* thread what the main thread cannot take.                                *)
Signal(t) ==
    /\ status = "up" /\ Len(frames) < MaxSignals
    /\ ~Exited(t) /\ Handled(t) < 2
    /\ t # Main => Busy(Main)
    /\ frames' = Append(frames, [on |-> t, at |-> "sig", logging |-> FALSE])
    /\ UNCHANGED <<mainVars, owner, loopVars, ioVars, workVars>>

(* A handler runs unless another one has interrupted it.                   *)
At(i, at) ==
    /\ status = "up" /\ i \in DOMAIN frames
    /\ \A j \in DOMAIN frames : j > i => frames[j].on # frames[i].on
    /\ frames[i].at = at
Go(i, at) == frames' = [frames EXCEPT ![i].at = at]

Fail(how) ==
    /\ status' = how
    /\ UNCHANGED <<server, mpc, owner, loopVars, frames, ioVars, workVars>>

LogLock(i) ==
    /\ \E at \in DOMAIN AfterLog : At(i, at)
    /\ ~frames[i].logging
    /\ Lock(frames[i].on, "log")
    /\ frames' = [frames EXCEPT ![i].logging = TRUE]
    /\ UNCHANGED <<mainVars, loopVars, ioVars, workVars>>

LogUnlock(i) ==
    /\ \E at \in DOMAIN AfterLog : At(i, at)
    /\ frames[i].logging
    /\ Unlock(frames[i].on, "log")
    /\ frames' = [frames EXCEPT ![i].logging = FALSE,
                                ![i].at = AfterLog[frames[i].at]]
    /\ UNCHANGED <<mainVars, loopVars, ioVars, workVars>>

(* echoserver is used while it is null, or after it was deleted.           *)
NoServer(i) ==
    /\ \E at \in {"workers", "wset", "wjoin", "loops", "pool", "set", "join",
                   "delete"} : At(i, at)
    /\ server # "up"
    /\ Fail(IF server = "none" THEN "null" ELSE "dangling")

(* EchoServer::Stop: stop() of the workers, which returns at once if       *)
(* somebody has called it before; ...                                      *)
StopWorkers(i) ==
    /\ At(i, "workers") /\ server = "up"
    /\ Go(i, IF wstop THEN "wlog" ELSE "wset")
    /\ UNCHANGED <<mainVars, owner, loopVars, ioVars, workVars>>

(* ... else it sets stop_, and so may a Stop() that has tested it as well. *)
SetWorkers(i) ==
    /\ At(i, "wset") /\ server = "up"
    /\ \/ Work!SetStop
       \/ wstop /\ UNCHANGED workVars
    /\ Go(i, "wjoin")
    /\ UNCHANGED <<mainVars, owner, loopVars, ioVars>>

(* join() throws, and nobody catches it, when a thread joins itself, or    *)
(* one that another Stop() has joined or is waiting for.                   *)
JoinThrows(i, threads, stopper) ==
    /\ threads # {} /\ stopper \in {"join", "stopped"}
    /\ \/ frames[i].on \in threads
       \/ stopper = "stopped"
       \/ \E j \in DOMAIN frames : j # i /\ frames[j].at = frames[i].at

(* Mutant: the workers are detached.                                       *)
DetachWorkers(i) ==
    /\ At(i, "wjoin")
    /\ wstopper' = "stopped" /\ Go(i, "wlog")
    /\ UNCHANGED <<wqueue, wstop, wmutex, wpc, wtask, wadd>>
    /\ UNCHANGED <<mainVars, owner, loopVars, ioVars>>

(* Then it notifies all (what the notify_all of a second Stop() does       *)
(* besides, SpuriousWakeup does too) and joins them.                       *)
JoinWorkers(i) ==
    /\ At(i, "wjoin")
    /\ \/ /\ Work!NotifyAll
          /\ UNCHANGED <<mainVars, owner, loopVars, frames, ioVars>>
       \/ /\ \/ Work!Joined
             \/ Workers = {} /\ wstopper = "stopped" /\ UNCHANGED workVars
          /\ Go(i, "wlog")
          /\ UNCHANGED <<mainVars, owner, loopVars, ioVars>>
       \/ JoinThrows(i, Workers, wstopper) /\ Fail("terminated")

(* TcpServer::stop: stop() of the loops, one by one.  The main loop's has  *)
(* no effect: the main thread is in a handler.                             *)
StopLoops(i) ==
    /\ At(i, "loops") /\ server = "up"
    /\ \/ \E l \in Loops \ loopstop :
             loopstop' = loopstop \cup {l} /\ UNCHANGED frames
       \/ loopstop = Loops /\ Go(i, "llog") /\ UNCHANGED loopstop
    /\ UNCHANGED <<mainVars, owner, lpc, ioVars, workVars>>

StopPool(i) ==
    /\ At(i, "pool") /\ server = "up"
    /\ Go(i, IF iostop THEN "plog" ELSE "set")
    /\ UNCHANGED <<mainVars, owner, loopVars, ioVars, workVars>>

SetPool(i) ==
    /\ At(i, "set") /\ server = "up"
    /\ \/ IO!SetStop
       \/ iostop /\ UNCHANGED ioVars
    /\ Go(i, "join")
    /\ UNCHANGED <<mainVars, owner, loopVars, workVars>>

(* Mutants: the IO threads are notified and not joined; they are detached. *)
NotifyPool(i) ==
    /\ At(i, "join")
    /\ IO!NotifyAll /\ Go(i, "plog")
    /\ UNCHANGED <<mainVars, owner, loopVars, workVars>>
DetachPool(i) ==
    /\ At(i, "join")
    /\ iostopper' = "stopped" /\ Go(i, "plog")
    /\ UNCHANGED <<ioqueue, iostop, iomutex, iopc, iotask, ioadd>>
    /\ UNCHANGED <<mainVars, owner, loopVars, workVars>>

JoinPool(i) ==
    /\ At(i, "join")
    /\ \/ /\ IO!NotifyAll
          /\ UNCHANGED <<mainVars, owner, loopVars, frames, workVars>>
       \/ /\ \/ IO!Joined
             \/ IOThreads = {} /\ iostopper = "stopped" /\ UNCHANGED ioVars
          /\ Go(i, "plog")
          /\ UNCHANGED <<mainVars, owner, loopVars, workVars>>
       \/ JoinThrows(i, IOThreads, iostopper) /\ Fail("terminated")

(* delete echoserver destroys the workers' pool, then TcpServer, which     *)
(* logs, and its pool.  The destructor of a thread that was not joined     *)
(* ends the process, if the IO threads have not run into a destroyed       *)
(* conns_ before.                                                          *)
Delete(i) ==
    /\ At(i, "delete") /\ server = "up"
    /\ IF Workers # {} /\ wstopper # "stopped"
       THEN Fail("terminated")
       ELSE /\ server' = "deleted" /\ Go(i, "dlog")
            /\ UNCHANGED <<status, mpc, owner, loopVars, ioVars, workVars>>

Unjoin(i) ==
    /\ At(i, "unjoin")
    /\ IF IOThreads # {} /\ iostopper # "stopped"
       THEN Fail("terminated") \/ Fail("dangling")
       ELSE /\ Go(i, "exit")
            /\ UNCHANGED <<mainVars, owner, loopVars, ioVars, workVars>>

(* exit() destroys the logger, which takes logMutex and joins its thread.  *)
Exit(i) ==
    /\ At(i, "exit") /\ owner["log"] = None
    /\ Fail("exited")

Handler(i) ==
    \/ LogLock(i) \/ LogUnlock(i) \/ NoServer(i)
    \/ StopWorkers(i) \/ SetWorkers(i) \/ JoinWorkers(i)
    \/ StopLoops(i) \/ StopPool(i) \/ SetPool(i) \/ JoinPool(i)
    \/ Delete(i) \/ Unjoin(i) \/ Exit(i)

---------------------------------------------------------------------------

(* A condition variable may wake up without a notification.                *)
SpuriousWakeup ==
    /\ \/ /\ \E w \in IOThreads : Runs(w) /\ IO!SpuriousWakeup(w)
          /\ UNCHANGED workVars
       \/ /\ \E w \in Workers : Runs(w) /\ Work!SpuriousWakeup(w)
          /\ UNCHANGED ioVars
    /\ UNCHANGED <<mainVars, owner, loopVars, frames>>

Next ==
    \/ MainThread
    \/ \E w \in IOThreads : IOPool(w) \/ \E l \in Loops : Loop(w, l)
    \/ \E w \in Workers : Worker(w)
    \/ SpuriousWakeup
    \/ \E t \in Threads : Signal(t)
    \/ \E i \in 1 .. MaxSignals : Handler(i)

Spec == Init /\ [][Next]_vars

(* Every thread runs on when it can.  A handler that waits for a mutex     *)
(* others take and release again and again gets it in the end.  No signal  *)
(* and no spurious wakeup has to come.                                     *)
Fairness ==
    /\ WF_vars(MainThread)
    /\ \A w \in IOThreads : WF_vars(IOPool(w) \/ \E l \in Loops : Loop(w, l))
    /\ \A w \in Workers : WF_vars(Worker(w))
    /\ \A i \in 1 .. MaxSignals : SF_vars(Handler(i))

FairSpec == Spec /\ Fairness

---------------------------------------------------------------------------
(* Properties                                                              *)

TypeOK ==
    /\ status \in {"up", "null", "dangling", "terminated", "exited"}
    /\ server \in {"none", "up", "deleted"}
    /\ owner \in [Locks -> Threads \cup {None}]
    /\ mpc \in {"create", "poll", "conns", "loop", "log"}
    /\ lpc \in [Loops -> {"check", "poll", "closing", "erase", "remove",
                            "sweep", "message", "notify"}]
    /\ loopstop \subseteq Loops
    /\ frames \in Seq([on : Threads, at : Positions, logging : BOOLEAN])
    /\ Len(frames) <= MaxSignals
    /\ IO!TypeOK /\ Work!TypeOK

(* A single signal brings the server down in order: from the moment it has *)
(* been built, Stop() never uses it after its deletion, and never deletes  *)
(* it while a thread of one of its pools was not joined.                   *)
OneSignalIsClean ==
    server # "none" /\ Len(frames) <= 1 => status \in {"up", "exited"}

(* When TcpServer and its maps go away nobody else is left who could look  *)
(* at them, unless a second signal has had a second Stop() run ahead of    *)
(* the joins of the first.                                                 *)
DeletedAlone ==
    server = "deleted" /\ Len(frames) <= 1 =>
        \A t \in IOThreads \cup Workers : Exited(t)

(* However many signals arrive: exit(0) is reached only when every thread  *)
(* of both pools has ended.                                                *)
ExitedAlone ==
    status = "exited" => \A t \in IOThreads \cup Workers : Exited(t)

(* The workers are stopped before the loops: while a worker computes a     *)
(* reply, the loops it is for go on, unless a second Stop() overtakes.     *)
LoopsOutliveWorkers ==
    (\E w \in Workers : wpc[w] = "run") /\ Len(frames) <= 1 => loopstop = {}

(* echoserver.cpp:21, the program ends by itself after a signal, with      *)
(* three exceptions: the signal met the main thread in a critical section  *)
(* that Stop() or an IO thread waits for; a thread of a pool missed the    *)
(* notification of stop(); or a second signal came.                        *)
Interrupted ==
    \E k \in Locks :
        /\ owner[k] = Main /\ \A i \in DOMAIN frames : ~frames[i].logging
        /\ \/ k = "log"
           \/ \E w \in IOThreads : iotask[w] # None /\ k \in LoopLocks(iotask[w])
Missed == \/ iostopper = "join" /\ IO!Sleepers # {}
          \/ wstopper = "join" /\ Work!Sleepers # {}
StopEnds ==
    frames # <<>> ~>
        (status # "up" \/ Interrupted \/ Missed \/ Len(frames) > 1)

(* Why it does not hang otherwise: nobody waits in a circle, nor for one   *)
(* who sleeps or is gone.  A thread waits for the owner of a mutex, and    *)
(* Stop() for the threads it joins: each of these can go on by itself, or  *)
(* waits for others that can.  No thread of a pool keeps a mutex while it  *)
(* waits for another one, and only the main thread, on top of which Stop() *)
(* runs, can be waited for in vain.                                        *)
WaitsFor(t) ==
    {u \in Threads :
        \/ t \in Workers /\ wpc[t] = "lock" /\ wmutex = u
        \/ t \in IOThreads /\ iopc[t] = "lock" /\ iomutex = u
        \/ /\ t \in IOThreads /\ iopc[t] = "run"
           /\ \/ lpc[iotask[t]] = "message" /\ wmutex = u
              \/ u # t /\ \E k \in LoopLocks(iotask[t]) : owner[k] = u}
StopWaitsFor ==
    {u \in Threads :
        \/ /\ frames[1].at \in DOMAIN AfterLog \cup {"exit"}
           /\ ~frames[1].logging /\ owner["log"] = u
        \/ /\ frames[1].at = "wjoin" /\ wstopper = "join"
           /\ u \in Workers /\ wpc[u] # "exit"
        \/ /\ frames[1].at = "join" /\ iostopper = "join"
           /\ u \in IOThreads /\ iopc[u] # "exit"}
GoesOn(t) ==
    /\ \/ t \in Workers /\ wpc[t] \notin {"wait", "exit"}
       \/ t \in IOThreads /\ iopc[t] \notin {"wait", "exit"}
    /\ WaitsFor(t) = {}
NoCircle ==
    Len(frames) = 1 /\ status = "up" /\ ~Interrupted /\ ~Missed =>
        \A t \in StopWaitsFor :
            \/ GoesOn(t)
            \/ WaitsFor(t) # {} /\ \A u \in WaitsFor(t) : GoesOn(u)
=============================================================================
