--------------------------- MODULE ShutdownProofs ---------------------------
(***************************************************************************)
(* For any finite sets of threads, loops and requests and any number of    *)
(* signals: the types of Shutdown; that exit(0) finds no thread of a pool  *)
(* alive; and that a single signal brings the server down in order.        *)
(***************************************************************************)
EXTENDS Shutdown, SequenceTheorems, TLAPS

---------------------------------------------------------------------------
(* The steps of the two pools, as Shutdown takes them                      *)

IOStep ==
    \/ \E l \in Loops : IO!Push(l) \/ IO!Notify(l)
    \/ \E w \in IOThreads : \/ IO!Enter(w) \/ IO!Take(w) \/ IO!Leave(w)
                            \/ IO!Park(w) \/ IO!Sleep(w) \/ IO!Finish(w)
                            \/ IO!SpuriousWakeup(w)
    \/ IO!SetStop \/ IO!NotifyAll \/ IO!Joined
    \/ UNCHANGED ioVars

WorkStep ==
    \/ \E r \in Requests : Work!Push(r) \/ Work!Notify(r)
    \/ \E w \in Workers : \/ Work!Enter(w) \/ Work!Take(w) \/ Work!Leave(w)
                          \/ Work!Park(w) \/ Work!Sleep(w) \/ Work!Finish(w)
                          \/ Work!SpuriousWakeup(w)
    \/ Work!SetStop \/ Work!NotifyAll \/ Work!Joined
    \/ UNCHANGED workVars

LEMMA IOStepType == ASSUME IO!TypeOK, IOStep PROVE IO!TypeOK'
<1> USE ShutdownAssumption DEF IO!TypeOK
<1>1. ASSUME NEW l \in Loops, IO!Push(l) PROVE IO!TypeOK'
  BY <1>1, AppendProperties DEF IO!Push
<1>2. ASSUME NEW l \in Loops, IO!Notify(l) PROVE IO!TypeOK'
  BY <1>2 DEF IO!Notify, IO!Sleepers
<1>3. ASSUME NEW w \in IOThreads, IO!Take(w) PROVE IO!TypeOK'
  <2>1. Head(ioqueue) \in Loops /\ Tail(ioqueue) \in Seq(Loops)
    BY <1>3, HeadTailProperties DEF IO!Take
  <2> QED
    BY <1>3, <2>1 DEF IO!Take
<1>4. ASSUME NEW w \in IOThreads,
             \/ IO!Enter(w) \/ IO!Leave(w) \/ IO!Finish(w)
             \/ IO!SpuriousWakeup(w)
      PROVE  IO!TypeOK'
  BY <1>4 DEF IO!Enter, IO!Leave, IO!Finish, IO!SpuriousWakeup
<1>5. ASSUME NEW w \in IOThreads, IO!Park(w) \/ IO!Sleep(w) PROVE IO!TypeOK'
  BY <1>5 DEF IO!Park, IO!Sleep
<1>6. CASE IO!SetStop
  <2>1. iostop' \in BOOLEAN
    BY <1>6 DEF IO!SetStop
  <2> QED
    BY <1>6, <2>1 DEF IO!SetStop
<1>7. CASE IO!NotifyAll \/ IO!Joined
  BY <1>7 DEF IO!NotifyAll, IO!Joined
<1>8. CASE UNCHANGED ioVars
  BY <1>8 DEF ioVars
<1> QED
  BY <1>1, <1>2, <1>3, <1>4, <1>5, <1>6, <1>7, <1>8 DEF IOStep

LEMMA WorkStepType == ASSUME Work!TypeOK, WorkStep PROVE Work!TypeOK'
<1> USE ShutdownAssumption DEF Work!TypeOK
<1>1. ASSUME NEW r \in Requests, Work!Push(r) PROVE Work!TypeOK'
  BY <1>1, AppendProperties DEF Work!Push
<1>2. ASSUME NEW r \in Requests, Work!Notify(r) PROVE Work!TypeOK'
  BY <1>2 DEF Work!Notify, Work!Sleepers
<1>3. ASSUME NEW w \in Workers, Work!Take(w) PROVE Work!TypeOK'
  <2>1. Head(wqueue) \in Requests /\ Tail(wqueue) \in Seq(Requests)
    BY <1>3, HeadTailProperties DEF Work!Take
  <2> QED
    BY <1>3, <2>1 DEF Work!Take
<1>4. ASSUME NEW w \in Workers,
             \/ Work!Enter(w) \/ Work!Leave(w) \/ Work!Finish(w)
             \/ Work!SpuriousWakeup(w)
      PROVE  Work!TypeOK'
  BY <1>4 DEF Work!Enter, Work!Leave, Work!Finish, Work!SpuriousWakeup
<1>5. ASSUME NEW w \in Workers, Work!Park(w) \/ Work!Sleep(w)
      PROVE  Work!TypeOK'
  BY <1>5 DEF Work!Park, Work!Sleep
<1>6. CASE Work!SetStop
  <2>1. wstop' \in BOOLEAN
    BY <1>6 DEF Work!SetStop
  <2> QED
    BY <1>6, <2>1 DEF Work!SetStop
<1>7. CASE Work!NotifyAll \/ Work!Joined
  BY <1>7 DEF Work!NotifyAll, Work!Joined
<1>8. CASE UNCHANGED workVars
  BY <1>8 DEF workVars
<1> QED
  BY <1>1, <1>2, <1>3, <1>4, <1>5, <1>6, <1>7, <1>8 DEF WorkStep

(* A thread that has ended stays ended, and a pool that was stopped stays  *)
(* so; only Joined, when all have ended, says so.                          *)
IOEnded   == \A w \in IOThreads : iopc[w] = "exit"
WorkEnded == \A w \in Workers : wpc[w] = "exit"

LEMMA IOStepEnds ==
  ASSUME IO!TypeOK, IOStep
  PROVE  /\ IOEnded => IOEnded'
         /\ iostopper = "stopped" => iostopper' = "stopped"
         /\ iostopper' = "stopped" => iostopper = "stopped" \/ IOEnded'
<1> USE DEF IO!TypeOK, IOEnded
<1>1. CASE \E l \in Loops : IO!Push(l) \/ IO!Notify(l)
  BY <1>1 DEF IO!Push, IO!Notify, IO!Sleepers
<1>2. ASSUME NEW w \in IOThreads,
             \/ IO!Enter(w) \/ IO!Take(w) \/ IO!Leave(w)
             \/ IO!Park(w) \/ IO!Sleep(w) \/ IO!Finish(w)
             \/ IO!SpuriousWakeup(w)
      PROVE  ~IOEnded /\ UNCHANGED iostopper
  BY <1>2 DEF IO!Enter, IO!Take, IO!Leave, IO!Park, IO!Sleep, IO!Finish,
              IO!SpuriousWakeup
<1>3. CASE IO!SetStop \/ IO!NotifyAll \/ IO!Joined \/ UNCHANGED ioVars
  BY <1>3 DEF IO!SetStop, IO!NotifyAll, IO!Joined, ioVars
<1> QED
  BY <1>1, <1>2, <1>3 DEF IOStep

LEMMA WorkStepEnds ==
  ASSUME Work!TypeOK, WorkStep
  PROVE  /\ WorkEnded => WorkEnded'
         /\ wstopper = "stopped" => wstopper' = "stopped"
         /\ wstopper' = "stopped" => wstopper = "stopped" \/ WorkEnded'
<1> USE DEF Work!TypeOK, WorkEnded
<1>1. CASE \E r \in Requests : Work!Push(r) \/ Work!Notify(r)
  BY <1>1 DEF Work!Push, Work!Notify, Work!Sleepers
<1>2. ASSUME NEW w \in Workers,
             \/ Work!Enter(w) \/ Work!Take(w) \/ Work!Leave(w)
             \/ Work!Park(w) \/ Work!Sleep(w) \/ Work!Finish(w)
             \/ Work!SpuriousWakeup(w)
      PROVE  ~WorkEnded /\ UNCHANGED wstopper
  BY <1>2 DEF Work!Enter, Work!Take, Work!Leave, Work!Park, Work!Sleep,
              Work!Finish, Work!SpuriousWakeup
<1>3. CASE Work!SetStop \/ Work!NotifyAll \/ Work!Joined \/ UNCHANGED workVars
  BY <1>3 DEF Work!SetStop, Work!NotifyAll, Work!Joined, workVars
<1> QED
  BY <1>1, <1>2, <1>3 DEF WorkStep

---------------------------------------------------------------------------
(* The calls of Stop()                                                     *)

Frame == [on : Threads, at : Positions, logging : BOOLEAN]

(* A step of the i-th handler: where it is, and whether it logs.           *)
Moved(i, f) ==
    /\ i \in DOMAIN frames /\ f \in Frame /\ f.on = frames[i].on
    /\ frames' = [frames EXCEPT ![i] = f]

LEMMA FrameAt ==
  ASSUME frames \in Seq(Frame), NEW i \in DOMAIN frames
  PROVE  frames[i] \in Frame /\ frames[i].on \in Threads
<1>1. frames[i] \in Frame
  BY LenProperties, ElementOfSeq
<1> QED
  BY <1>1 DEF Frame

LEMMA MovedFrame ==
  ASSUME frames \in Seq(Frame), NEW i, NEW f, Moved(i, f)
  PROVE  /\ frames' \in Seq(Frame) /\ Len(frames') = Len(frames)
         /\ DOMAIN frames' = DOMAIN frames /\ frames'[i] = f
         /\ \A j \in DOMAIN frames : j # i => frames'[j] = frames[j]
BY ExceptSeq, LenProperties DEF Moved

LEMMA GoMoves ==
  ASSUME frames \in Seq(Frame), NEW i \in DOMAIN frames, NEW at \in Positions,
         Go(i, at)
  PROVE  Moved(i, [frames[i] EXCEPT !.at = at])
<1>1. frames[i] \in Frame
  BY LenProperties, ElementOfSeq
<1> QED
  BY <1>1 DEF Go, Moved, Frame

LEMMA LoggingMoves ==
  ASSUME frames \in Seq(Frame), NEW i, LogLock(i)
  PROVE  Moved(i, [frames[i] EXCEPT !.logging = TRUE])
<1>1. i \in DOMAIN frames
  BY DEF LogLock, At
<1>2. frames[i] \in Frame
  BY <1>1, LenProperties, ElementOfSeq
<1> QED
  BY <1>1, <1>2 DEF LogLock, Moved, Frame

LEMMA LoggedMoves ==
  ASSUME frames \in Seq(Frame), NEW i, LogUnlock(i)
  PROVE  /\ frames[i].at \in DOMAIN AfterLog
         /\ Moved(i, [frames[i] EXCEPT !.logging = FALSE,
                                       !.at = AfterLog[frames[i].at]])
<1>1. i \in DOMAIN frames /\ frames[i].at \in DOMAIN AfterLog
  BY DEF LogUnlock, At
<1>2. frames[i] \in Frame
  BY <1>1, LenProperties, ElementOfSeq
<1>3. AfterLog[frames[i].at] \in Positions
  BY <1>1 DEF AfterLog, Positions
<1> QED
  BY <1>1, <1>2, <1>3 DEF LogUnlock, Moved, Frame

(* What a step of a handler may be: a log line begins or ends, the process *)
(* ends, or Stop() goes from one of its calls to the next.                 *)
HandlerGoes(i) ==
    /\ status' = status /\ mpc' = mpc /\ owner' = owner /\ lpc' = lpc
    /\ \/ /\ At(i, "workers") /\ server = "up" /\ wstop /\ Go(i, "wlog")
          /\ UNCHANGED <<server, loopstop, ioVars, workVars>>
       \/ /\ At(i, "workers") /\ server = "up" /\ ~wstop /\ Go(i, "wset")
          /\ UNCHANGED <<server, loopstop, ioVars, workVars>>
       \/ /\ At(i, "wset") /\ server = "up" /\ Go(i, "wjoin")
          /\ \/ Work!SetStop
             \/ wstop /\ UNCHANGED workVars
          /\ UNCHANGED <<server, loopstop, ioVars>>
       \/ /\ At(i, "wjoin") /\ Go(i, "wlog")
          /\ \/ Work!Joined
             \/ Workers = {} /\ wstopper = "stopped" /\ UNCHANGED workVars
          /\ UNCHANGED <<server, loopstop, ioVars>>
       \/ /\ At(i, "loops") /\ server = "up" /\ Go(i, "llog")
          /\ UNCHANGED <<server, loopstop, ioVars, workVars>>
       \/ /\ At(i, "pool") /\ server = "up" /\ iostop /\ Go(i, "plog")
          /\ UNCHANGED <<server, loopstop, ioVars, workVars>>
       \/ /\ At(i, "pool") /\ server = "up" /\ ~iostop /\ Go(i, "set")
          /\ UNCHANGED <<server, loopstop, ioVars, workVars>>
       \/ /\ At(i, "set") /\ server = "up" /\ Go(i, "join")
          /\ \/ IO!SetStop
             \/ iostop /\ UNCHANGED ioVars
          /\ UNCHANGED <<server, loopstop, workVars>>
       \/ /\ At(i, "join") /\ Go(i, "plog")
          /\ \/ IO!Joined
             \/ IOThreads = {} /\ iostopper = "stopped" /\ UNCHANGED ioVars
          /\ UNCHANGED <<server, loopstop, workVars>>
       \/ /\ At(i, "delete") /\ server = "up" /\ server' = "deleted"
          /\ Workers = {} \/ wstopper = "stopped"
          /\ Go(i, "dlog") /\ UNCHANGED <<loopstop, ioVars, workVars>>
       \/ /\ At(i, "unjoin") /\ Go(i, "exit")
          /\ IOThreads = {} \/ iostopper = "stopped"
          /\ UNCHANGED <<server, loopstop, ioVars, workVars>>

HandlerWorks(i) ==
    /\ UNCHANGED <<mainVars, owner, lpc, frames>>
    /\ \/ /\ At(i, "wjoin") /\ Work!NotifyAll
          /\ UNCHANGED <<loopstop, ioVars>>
       \/ /\ At(i, "join") /\ IO!NotifyAll
          /\ UNCHANGED <<loopstop, workVars>>
       \/ /\ At(i, "loops") /\ loopstop' \subseteq Loops
          /\ UNCHANGED <<ioVars, workVars>>

HandlerFails(i) ==
    \/ /\ \E at \in {"workers", "wset", "wjoin", "loops", "pool", "set",
                      "join", "delete"} : At(i, at)
       /\ server # "up"
       /\ Fail(IF server = "none" THEN "null" ELSE "dangling")
    \/ /\ At(i, "wjoin") /\ JoinThrows(i, Workers, wstopper)
       /\ Fail("terminated")
    \/ /\ At(i, "join") /\ JoinThrows(i, IOThreads, iostopper)
       /\ Fail("terminated")
    \/ /\ At(i, "delete") /\ Workers # {} /\ wstopper # "stopped"
       /\ Fail("terminated")
    \/ /\ At(i, "unjoin") /\ IOThreads # {} /\ iostopper # "stopped"
       /\ Fail("terminated") \/ Fail("dangling")
    \/ At(i, "exit") /\ Fail("exited")

LEMMA HandlerSteps ==
  ASSUME NEW i, Handler(i), loopstop \subseteq Loops
  PROVE  \/ LogLock(i) \/ LogUnlock(i) \/ HandlerGoes(i)
         \/ HandlerWorks(i) \/ HandlerFails(i)
<1> USE DEF mainVars, loopVars
<1>1. CASE NoServer(i)
  BY <1>1 DEF NoServer, HandlerFails
<1>2. CASE StopWorkers(i)
  BY <1>2 DEF StopWorkers, HandlerGoes
<1>3. CASE JoinWorkers(i)
  BY <1>3 DEF JoinWorkers, HandlerGoes, HandlerWorks, HandlerFails
<1>4. CASE StopLoops(i)
  BY <1>4 DEF StopLoops, HandlerGoes, HandlerWorks
<1>5. CASE StopPool(i)
  BY <1>5 DEF StopPool, HandlerGoes
<1>6. CASE JoinPool(i)
  BY <1>6 DEF JoinPool, HandlerGoes, HandlerWorks, HandlerFails
<1>7. CASE Delete(i)
  BY <1>7 DEF Delete, HandlerGoes, HandlerFails
<1>8. CASE Unjoin(i)
  BY <1>8 DEF Unjoin, HandlerGoes, HandlerFails
<1>9. CASE Exit(i)
  BY <1>9 DEF Exit, HandlerFails
<1>10. CASE SetWorkers(i)
  BY <1>10 DEF SetWorkers, HandlerGoes
<1>11. CASE SetPool(i)
  BY <1>11 DEF SetPool, HandlerGoes
<1> QED
  BY <1>1, <1>2, <1>3, <1>4, <1>5, <1>6, <1>7, <1>8, <1>9, <1>10, <1>11
  DEF Handler

LEMMA HandlerLen ==
  ASSUME frames \in Seq(Frame), NEW i,
         \/ LogLock(i) \/ LogUnlock(i) \/ HandlerGoes(i)
         \/ HandlerWorks(i) \/ HandlerFails(i)
  PROVE  Len(frames') = Len(frames)
<1>1. CASE LogLock(i)
  <2>1. Moved(i, [frames[i] EXCEPT !.logging = TRUE])
    BY <1>1, LoggingMoves
  <2> QED
    BY <2>1, MovedFrame
<1>2. CASE LogUnlock(i)
  <2>1. Moved(i, [frames[i] EXCEPT !.logging = FALSE,
                                   !.at = AfterLog[frames[i].at]])
    BY <1>2, LoggedMoves
  <2> QED
    BY <2>1, MovedFrame
<1>3. CASE HandlerGoes(i)
  <2>1. PICK at \in Positions : i \in DOMAIN frames /\ Go(i, at)
    BY <1>3 DEF HandlerGoes, At, Positions, AfterLog
  <2>2. Moved(i, [frames[i] EXCEPT !.at = at])
    BY <2>1, GoMoves
  <2> QED
    BY <2>2, MovedFrame
<1>4. CASE HandlerWorks(i) \/ HandlerFails(i)
  BY <1>4 DEF HandlerWorks, HandlerFails, Fail
<1> QED
  BY <1>1, <1>2, <1>3, <1>4

---------------------------------------------------------------------------
(* What the steps of the threads leave alone                               *)

LEMMA ThreadSteps ==
  ASSUME \/ MainThread
         \/ \E w \in IOThreads : IOPool(w) \/ \E l \in Loops : Loop(w, l)
         \/ \E w \in Workers : Worker(w)
         \/ SpuriousWakeup \/ UNCHANGED vars
  PROVE  /\ IOStep /\ WorkStep
         /\ UNCHANGED <<status, loopstop, frames>>
         /\ server' # server => server' = "up" /\ Runs(Main)
<1> USE DEF IOStep, WorkStep, mainVars, loopVars
<1>1. CASE \E l \in Loops : Create(l)
  BY <1>1 DEF Create
<1>2. CASE Created \/ Accept \/ MainLock \/ MainUnlock
  BY <1>2 DEF Created, Accept, MainLock, MainUnlock
<1>3. CASE \E w \in IOThreads : IOPool(w)
  BY <1>3 DEF IOPool
<1>4. ASSUME NEW w \in IOThreads, NEW l \in Loops,
             \/ LoopCheck(w, l) \/ LoopEvent(w, l)
             \/ LoopLock(w, l) \/ LoopUnlock(w, l)
      PROVE  /\ IOStep /\ WorkStep
             /\ UNCHANGED <<status, server, loopstop, frames>>
  BY <1>4 DEF LoopCheck, LoopEvent, LoopLock, LoopUnlock
<1>5. ASSUME NEW w \in IOThreads, NEW l \in Loops,
             LoopOver(w, l) \/ LoopMessage(w, l) \/ LoopNotify(w, l)
      PROVE  /\ IOStep /\ WorkStep
             /\ UNCHANGED <<status, server, loopstop, frames>>
  BY <1>5 DEF LoopOver, LoopMessage, LoopNotify
<1>6. CASE \E w \in Workers : Worker(w)
  BY <1>6 DEF Worker, WorkPool, Reply, ReplyLog, ReplyLogged
<1>7. CASE SpuriousWakeup
  BY <1>7 DEF SpuriousWakeup
<1>8. CASE UNCHANGED vars
  BY <1>8 DEF vars
<1> QED
  BY <1>1, <1>2, <1>3, <1>4, <1>5, <1>6, <1>7, <1>8 DEF MainThread, Loop

LEMMA HandlerPools ==
  ASSUME NEW i, \/ LogLock(i) \/ LogUnlock(i) \/ HandlerGoes(i)
                \/ HandlerWorks(i) \/ HandlerFails(i)
  PROVE  IOStep /\ WorkStep
BY DEF LogLock, LogUnlock, HandlerGoes, HandlerWorks, HandlerFails, Fail,
       IOStep, WorkStep

LEMMA OwnerType ==
  ASSUME owner \in [Locks -> Threads \cup {None}], NEW k, NEW t \in Threads,
         Lock(t, k) \/ Unlock(t, k)
  PROVE  owner' \in [Locks -> Threads \cup {None}]
BY DEF Lock, Unlock

(* Every step of a thread, a handler or the kernel keeps the types.        *)
THEOREM TypeCorrect == Spec => []TypeOK
<1>1. Init => TypeOK
  <2> SUFFICES ASSUME Init PROVE TypeOK
    OBVIOUS
  <2>1. IO!TypeOK
    BY EmptySeq, ShutdownAssumption DEF Init, IO!Init, IO!TypeOK
  <2>2. Work!TypeOK
    BY EmptySeq, ShutdownAssumption DEF Init, Work!Init, Work!TypeOK
  <2>3. frames \in Seq(Frame) /\ Len(frames) <= MaxSignals
    BY EmptySeq, ShutdownAssumption DEF Init
  <2> QED
    BY <2>1, <2>2, <2>3 DEF Init, TypeOK, Frame
<1>2. TypeOK /\ [Next]_vars => TypeOK'
  <2> SUFFICES ASSUME TypeOK, [Next]_vars PROVE TypeOK'
    OBVIOUS
  <2> DEFINE Own == owner' \in [Locks -> Threads \cup {None}]
             Lpc == lpc' \in [Loops -> {"check", "poll", "closing", "erase",
                               "remove", "sweep", "message", "notify"}]
             Main0 == /\ server' \in {"none", "up", "deleted"}
                      /\ mpc' \in {"create", "poll", "conns", "loop", "log"}
             Pools == (IO!TypeOK /\ Work!TypeOK)'
             Frames0 == /\ frames' \in Seq(Frame)
                        /\ Len(frames') <= MaxSignals
             Rest == /\ status' \in {"up", "null", "dangling", "terminated",
                                     "exited"}
                     /\ loopstop' \subseteq Loops
  <2>0. /\ owner \in [Locks -> Threads \cup {None}]
        /\ frames \in Seq(Frame) /\ Len(frames) \in Nat
        /\ IO!TypeOK /\ Work!TypeOK /\ MaxSignals \in Nat
    BY ShutdownAssumption, LenProperties DEF TypeOK, Frame
  <2>1. ASSUME \/ MainThread
               \/ \E w \in IOThreads : IOPool(w) \/ \E l \in Loops : Loop(w, l)
               \/ \E w \in Workers : Worker(w)
               \/ SpuriousWakeup \/ UNCHANGED vars
        PROVE  TypeOK'
    <3>1. Pools /\ Frames0 /\ Rest
      BY <2>0, <2>1, ThreadSteps, IOStepType, WorkStepType DEF TypeOK, Frame
    <3>2. Own /\ Lpc /\ Main0
      <4> USE DEF mainVars, loopVars, ioVars
      <4>1. CASE \E l \in Loops : Create(l)
        BY <4>1 DEF Create, TypeOK
      <4>2. CASE Created \/ Accept
        BY <4>2 DEF Created, Accept, TypeOK
      <4>3. CASE MainLock
        BY <4>3, <2>0, OwnerType DEF MainLock, Threads, TypeOK
      <4>4. CASE MainUnlock
        <5>1. Own
          BY <4>4, <2>0, OwnerType DEF MainUnlock, Threads
        <5>2. mpc \in {"conns", "loop", "log"}
          BY <4>4 DEF MainUnlock, MainLocks, TypeOK
        <5> QED
          BY <4>4, <5>1, <5>2 DEF MainUnlock, TypeOK
      <4>5. ASSUME NEW w \in IOThreads, IOPool(w) PROVE Own /\ Lpc /\ Main0
        BY <4>5 DEF IOPool, TypeOK
      <4>6. ASSUME NEW w \in IOThreads, NEW l \in Loops, Loop(w, l)
            PROVE  Own /\ Lpc /\ Main0
        <5>1. Main0
          BY <4>6 DEF TypeOK, Loop, LoopCheck, LoopOver, LoopEvent, LoopLock,
                      LoopUnlock, LoopMessage, LoopNotify
        <5>2. Own
          <6>1. CASE LoopLock(w, l) \/ LoopUnlock(w, l)
            BY <6>1, <2>0, OwnerType DEF LoopLock, LoopUnlock, Threads
          <6>2. CASE ~(LoopLock(w, l) \/ LoopUnlock(w, l))
            BY <4>6, <6>2, <2>0 DEF Loop, LoopCheck, LoopOver, LoopEvent,
                                    LoopMessage, LoopNotify
          <6> QED
            BY <6>1, <6>2
        <5>3. Lpc
          BY <4>6 DEF TypeOK, Step, Loop, LoopCheck, LoopOver, LoopEvent,
                      LoopLock, LoopUnlock, LoopMessage, LoopNotify
        <5> QED
          BY <5>1, <5>2, <5>3
      <4>7. ASSUME NEW w \in Workers, Worker(w) PROVE Own /\ Lpc /\ Main0
        <5>1. Own
          BY <4>7, <2>0, OwnerType
          DEF Worker, WorkPool, Reply, ReplyLog, ReplyLogged, Threads
        <5> QED
          BY <4>7, <5>1
          DEF Worker, WorkPool, Reply, ReplyLog, ReplyLogged, TypeOK
      <4>8. CASE SpuriousWakeup \/ UNCHANGED vars
        BY <4>8 DEF SpuriousWakeup, vars, TypeOK
      <4> QED
        BY <2>1, <4>1, <4>2, <4>3, <4>4, <4>5, <4>6, <4>7, <4>8 DEF MainThread
    <3> QED
      BY <3>1, <3>2 DEF TypeOK, Frame
  <2>2. ASSUME NEW t \in Threads, Signal(t) PROVE TypeOK'
    <3>1. IOStep /\ WorkStep
      BY <2>2 DEF Signal, IOStep, WorkStep
    <3>2. [on |-> t, at |-> "sig", logging |-> FALSE] \in Frame
      BY DEF Frame, Positions, AfterLog
    <3>3. Frames0
      BY <2>0, <2>2, <3>2, AppendProperties DEF Signal
    <3>4. Pools
      BY <2>0, <3>1, IOStepType, WorkStepType
    <3> QED
      BY <2>2, <3>3, <3>4 DEF Signal, TypeOK, Frame, mainVars, loopVars
  <2>3. ASSUME NEW i \in 1 .. MaxSignals, Handler(i) PROVE TypeOK'
    <3>0. \/ LogLock(i) \/ LogUnlock(i) \/ HandlerGoes(i)
          \/ HandlerWorks(i) \/ HandlerFails(i)
      BY <2>3, HandlerSteps DEF TypeOK
    <3>1. Pools
      BY <2>0, <3>0, HandlerPools, IOStepType, WorkStepType
    <3>2. ASSUME NEW at \in Positions, i \in DOMAIN frames, Go(i, at)
          PROVE  Frames0
      <4>1. Moved(i, [frames[i] EXCEPT !.at = at])
        BY <2>0, <3>2, GoMoves
      <4>2. frames' \in Seq(Frame) /\ Len(frames') = Len(frames)
        BY <2>0, <4>1, MovedFrame
      <4> QED
        BY <4>2 DEF TypeOK
    <3>3. CASE LogLock(i)
      <4>0. Moved(i, [frames[i] EXCEPT !.logging = TRUE])
        BY <2>0, <3>3, LoggingMoves
      <4>1. Frames0
        BY <2>0, <4>0, MovedFrame DEF TypeOK
      <4>2. frames[i].on \in Threads
        BY <2>0, <3>3, FrameAt DEF LogLock, At
      <4>3. Own
        BY <2>0, <3>3, <4>2, OwnerType DEF LogLock
      <4> QED
        BY <3>1, <3>3, <4>1, <4>3
        DEF LogLock, TypeOK, Frame, mainVars, loopVars
    <3>4. CASE LogUnlock(i)
      <4>0. Moved(i, [frames[i] EXCEPT !.logging = FALSE,
                                     !.at = AfterLog[frames[i].at]])
        BY <2>0, <3>4, LoggedMoves
      <4>1. Frames0
        BY <2>0, <4>0, MovedFrame DEF TypeOK
      <4>2. frames[i].on \in Threads
        BY <2>0, <3>4, FrameAt DEF LogUnlock, At
      <4>3. Own
        BY <2>0, <3>4, <4>2, OwnerType DEF LogUnlock
      <4> QED
        BY <3>1, <3>4, <4>1, <4>3
        DEF LogUnlock, TypeOK, Frame, mainVars, loopVars
    <3>5. CASE HandlerGoes(i)
      <4>1. \E at \in Positions : i \in DOMAIN frames /\ Go(i, at)
        BY <3>5 DEF HandlerGoes, At, Positions, AfterLog
      <4>2. Frames0
        BY <3>2, <4>1
      <4>3. server' \in {"none", "up", "deleted"} /\ loopstop' = loopstop
        BY <3>5 DEF HandlerGoes, TypeOK
      <4> QED
        BY <3>1, <3>5, <4>2, <4>3 DEF HandlerGoes, TypeOK, Frame
    <3>6. CASE HandlerWorks(i)
      <4>1. loopstop' \subseteq Loops
        BY <3>6 DEF HandlerWorks, TypeOK
      <4> QED
        BY <3>1, <3>6, <4>1 DEF HandlerWorks, TypeOK, mainVars
    <3>7. CASE HandlerFails(i)
      <4>1. status' \in {"null", "dangling", "terminated", "exited"}
        BY <3>7 DEF HandlerFails, Fail
      <4>2. UNCHANGED <<server, mpc, owner, loopVars, frames>>
        BY <3>7 DEF HandlerFails, Fail
      <4> QED
        BY <3>1, <4>1, <4>2 DEF TypeOK, loopVars
    <3> QED
      BY <3>0, <3>3, <3>4, <3>5, <3>6, <3>7
  <2> QED
    BY <2>1, <2>2, <2>3 DEF Next
<1> QED
  BY <1>1, <1>2, PTL DEF Spec

---------------------------------------------------------------------------
(* Why exit(0) finds nobody: Stop() gets past the deletion of a pool only  *)
(* when somebody has joined it, and joined threads have ended for good.    *)
Joins ==
    /\ iostopper = "stopped" => IOEnded
    /\ wstopper = "stopped" => WorkEnded
    /\ \A i \in DOMAIN frames :
          /\ frames[i].at \in {"dlog", "unjoin", "exit"} => WorkEnded
          /\ frames[i].at = "exit" => IOEnded
    /\ status = "exited" => IOEnded /\ WorkEnded

LEMMA StepJoins == TypeOK /\ Joins /\ [Next]_vars => Joins'
<1> SUFFICES ASSUME TypeOK, Joins, [Next]_vars PROVE Joins'
  OBVIOUS
<1>0. /\ frames \in Seq(Frame) /\ IO!TypeOK /\ Work!TypeOK
      /\ loopstop \subseteq Loops
  BY DEF TypeOK, Frame
<1>1. ASSUME IOStep, WorkStep
      PROVE  /\ IOEnded => IOEnded'
             /\ WorkEnded => WorkEnded'
             /\ iostopper' = "stopped" => IOEnded'
             /\ wstopper' = "stopped" => WorkEnded'
  <2>1. /\ IOEnded => IOEnded'
        /\ iostopper' = "stopped" => iostopper = "stopped" \/ IOEnded'
    BY <1>0, <1>1, IOStepEnds
  <2>2. /\ WorkEnded => WorkEnded'
        /\ wstopper' = "stopped" => wstopper = "stopped" \/ WorkEnded'
    BY <1>0, <1>1, WorkStepEnds
  <2> QED
    BY <2>1, <2>2 DEF Joins
<1>2. ASSUME IOStep, WorkStep, UNCHANGED <<status, frames>> PROVE Joins'
  BY <1>1, <1>2 DEF Joins
<1>3. CASE \/ MainThread
           \/ \E w \in IOThreads : IOPool(w) \/ \E l \in Loops : Loop(w, l)
           \/ \E w \in Workers : Worker(w)
           \/ SpuriousWakeup \/ UNCHANGED vars
  BY <1>2, <1>3, ThreadSteps
<1>4. ASSUME NEW t \in Threads, Signal(t) PROVE Joins'
  <2>1. IOStep /\ WorkStep /\ status' = status
    BY <1>4 DEF Signal, IOStep, WorkStep, mainVars
  <2>2. [on |-> t, at |-> "sig", logging |-> FALSE] \in Frame
    BY DEF Frame, Positions, AfterLog
  <2>3. /\ Len(frames) \in Nat /\ DOMAIN frames = 1 .. Len(frames)
        /\ DOMAIN frames' = 1 .. Len(frames) + 1
        /\ \A j \in DOMAIN frames : frames'[j] = frames[j]
        /\ frames'[Len(frames) + 1].at = "sig"
    <3>1. frames' = Append(frames, [on |-> t, at |-> "sig", logging |-> FALSE])
      BY <1>4 DEF Signal
    <3>2. /\ frames' \in Seq(Frame) /\ Len(frames') = Len(frames) + 1
          /\ \A j \in 1 .. Len(frames) : frames'[j] = frames[j]
          /\ frames'[Len(frames) + 1] =
                 [on |-> t, at |-> "sig", logging |-> FALSE]
      BY <1>0, <2>2, <3>1, AppendProperties
    <3> QED
      BY <1>0, <3>2, LenProperties
  <2>4. \A j \in DOMAIN frames' : j \in DOMAIN frames \/ frames'[j].at = "sig"
    BY <2>3
  <2> QED
    BY <1>1, <2>1, <2>3, <2>4 DEF Joins
<1>5. ASSUME NEW i \in 1 .. MaxSignals, Handler(i) PROVE Joins'
  <2>0. \/ LogLock(i) \/ LogUnlock(i) \/ HandlerGoes(i)
        \/ HandlerWorks(i) \/ HandlerFails(i)
    BY <1>0, <1>5, HandlerSteps
  <2>1. IOStep /\ WorkStep
    BY <2>0, HandlerPools
  <2>2. ASSUME NEW f, Moved(i, f), status' = status,
               f.at \in {"dlog", "unjoin", "exit"} => WorkEnded,
               f.at = "exit" => IOEnded
        PROVE  Joins'
    <3>1. /\ DOMAIN frames' = DOMAIN frames /\ frames'[i] = f
          /\ \A j \in DOMAIN frames : j # i => frames'[j] = frames[j]
      BY <1>0, <2>2, MovedFrame
    <3> QED
      BY <1>1, <2>1, <2>2, <3>1 DEF Joins
  <2>3. CASE LogLock(i)
    <3>1. Moved(i, [frames[i] EXCEPT !.logging = TRUE])
      BY <1>0, <2>3, LoggingMoves
    <3>2. i \in DOMAIN frames /\ frames[i] \in Frame
      BY <1>0, <3>1, FrameAt DEF Moved
    <3>3. [frames[i] EXCEPT !.logging = TRUE].at = frames[i].at
      BY <3>2 DEF Frame
    <3> QED
      BY <2>2, <2>3, <3>1, <3>2, <3>3 DEF LogLock, Joins, mainVars
  <2>4. CASE LogUnlock(i)
    <3> DEFINE f == [frames[i] EXCEPT !.logging = FALSE,
                                      !.at = AfterLog[frames[i].at]]
    <3>1. Moved(i, f) /\ frames[i].at \in DOMAIN AfterLog
      BY <1>0, <2>4, LoggedMoves
    <3>2. i \in DOMAIN frames /\ frames[i] \in Frame
      BY <1>0, <3>1, FrameAt DEF Moved
    <3>3. f.at = AfterLog[frames[i].at]
      BY <3>2 DEF Frame
    <3>4. /\ f.at \in {"dlog", "unjoin", "exit"} => frames[i].at = "dlog"
          /\ f.at # "exit"
      BY <3>1, <3>3 DEF AfterLog
    <3>5. status' = status
      BY <2>4 DEF LogUnlock, mainVars
    <3> HIDE DEF f
    <3> QED
      BY <2>2, <3>1, <3>2, <3>4, <3>5 DEF Joins
  <2>5. CASE HandlerGoes(i)
    <3>1. PICK at \in Positions :
             /\ i \in DOMAIN frames /\ Go(i, at)
             /\ at \in {"dlog", "unjoin", "exit"} =>
                   \/ at = "dlog" /\ (Workers = {} \/ wstopper = "stopped")
                   \/ /\ at = "exit" /\ frames[i].at = "unjoin"
                      /\ IOThreads = {} \/ iostopper = "stopped"
      BY <2>5 DEF HandlerGoes, At, Positions, AfterLog
    <3>2. frames[i] \in Frame
      BY <1>0, <3>1, FrameAt
    <3>3. [frames[i] EXCEPT !.at = at].at = at
      BY <3>2 DEF Frame
    <3>4. Moved(i, [frames[i] EXCEPT !.at = at])
      BY <1>0, <3>1, GoMoves
    <3>5. at \in {"dlog", "unjoin", "exit"} => WorkEnded
      BY <3>1 DEF Joins, WorkEnded
    <3>6. at = "exit" => IOEnded
      BY <3>1 DEF Joins, IOEnded
    <3>7. status' = status
      BY <2>5 DEF HandlerGoes
    <3> QED
      BY <2>2, <3>3, <3>4, <3>5, <3>6, <3>7
  <2>6. CASE HandlerWorks(i)
    BY <1>2, <2>1, <2>6 DEF HandlerWorks, mainVars
  <2>7. CASE HandlerFails(i)
    <3>1. UNCHANGED frames
      BY <2>7 DEF HandlerFails, Fail
    <3>2. status' = "exited" => IOEnded /\ WorkEnded
      BY <2>7 DEF HandlerFails, Fail, At, Joins
    <3> QED
      BY <1>1, <2>1, <3>1, <3>2 DEF Joins
  <2> QED
    BY <2>0, <2>3, <2>4, <2>5, <2>6, <2>7
<1> QED
  BY <1>3, <1>4, <1>5 DEF Next

(* However many signals arrive, and on whatever threads: exit(0) is        *)
(* reached only when every thread of both pools has ended.                 *)
THEOREM ExitsAlone == Spec => []ExitedAlone
<1>1. Init => Joins
  <2> SUFFICES ASSUME Init PROVE Joins
    OBVIOUS
  <2>1. DOMAIN frames = {}
    BY EmptySeq DEF Init
  <2> QED
    BY <2>1 DEF Init, IO!Init, Work!Init, Joins
<1>2. Joins => ExitedAlone
  BY ShutdownAssumption
  DEF Joins, ExitedAlone, Exited, IOEnded, WorkEnded
<1> QED
  BY <1>1, <1>2, StepJoins, TypeCorrect, PTL DEF Spec

---------------------------------------------------------------------------
(* How far a single Stop() has got, and what that says of the server: the  *)
(* first signal finds the main thread in no handler, so Stop() runs there  *)
(* and joins no thread it is itself.                                       *)
Untouched == /\ server # "deleted" /\ ~wstop /\ ~iostop /\ loopstop = {}
             /\ wstopper # "stopped" /\ iostopper # "stopped"

Progress ==
    /\ frames[1].on = Main
    /\ frames[1].at \in {"sig", "workers", "wset"} => Untouched
    /\ frames[1].at \notin {"sig", "workers"} => server # "none"
    /\ frames[1].at = "wjoin" => loopstop = {} /\ wstopper # "stopped"
    /\ frames[1].at \in {"wjoin", "wlog", "loops", "llog", "pool", "set"} =>
           ~iostop
    /\ frames[1].at \in {"wjoin", "wlog", "loops", "llog", "pool", "set",
                         "join"} => iostopper # "stopped"
    /\ frames[1].at \notin {"sig", "workers", "wset", "wjoin"} =>
           wstopper = "stopped" /\ WorkEnded
    /\ frames[1].at \in {"plog", "delete", "dlog", "unjoin", "exit"} =>
           iostopper = "stopped" /\ IOEnded
    /\ frames[1].at \in {"dlog", "unjoin", "exit"} <=> server = "deleted"

OneStop ==
    Len(frames) <= 1 =>
        /\ status \in {"up", "exited"} \/ server = "none"
        /\ IF frames = <<>> THEN status = "up" /\ Untouched
                            ELSE Progress

(* The flags of the two pools are set by SetWorkers and SetPool only.       *)
LEMMA PoolFlags ==
  ASSUME TypeOK,
         \/ MainThread
         \/ \E w \in IOThreads : IOPool(w) \/ \E l \in Loops : Loop(w, l)
         \/ \E w \in Workers : Worker(w)
         \/ SpuriousWakeup \/ UNCHANGED vars
  PROVE  UNCHANGED <<iostop, iostopper, wstop, wstopper>>
<1> USE DEF ioVars, workVars
<1>1. CASE MainThread
  BY <1>1 DEF MainThread, Create, IO!Push, IO!Notify, Created, Accept, MainLock,
              MainUnlock
<1>2. CASE \E w \in IOThreads : IOPool(w)
  BY <1>2 DEF IOPool, IO!Enter, IO!Take, IO!Leave, IO!Park, IO!Sleep
<1>3. ASSUME NEW w \in IOThreads, NEW l \in Loops, Loop(w, l)
      PROVE  UNCHANGED <<iostop, iostopper, wstop, wstopper>>
  BY <1>3 DEF Loop, LoopCheck, LoopOver, LoopEvent, LoopLock, LoopUnlock,
              LoopMessage, LoopNotify, IO!Finish, Work!Push, Work!Notify
<1>4. CASE \E w \in Workers : Worker(w)
  BY <1>4 DEF Worker, WorkPool, Reply, ReplyLog, ReplyLogged, Work!Enter,
              Work!Take, Work!Leave, Work!Park, Work!Sleep, Work!Finish
<1>5. CASE SpuriousWakeup
  BY <1>5 DEF SpuriousWakeup, IO!SpuriousWakeup, Work!SpuriousWakeup
<1>6. CASE UNCHANGED vars
  BY <1>6 DEF vars
<1> QED
  BY <1>1, <1>2, <1>3, <1>4, <1>5, <1>6

LEMMA StepOneStop == TypeOK /\ OneStop /\ [Next]_vars => OneStop'
<1> SUFFICES ASSUME TypeOK, OneStop, [Next]_vars, Len(frames') <= 1
             PROVE  /\ status' \in {"up", "exited"} \/ server' = "none"
                    /\ IF frames' = <<>> THEN status' = "up" /\ Untouched'
                                         ELSE Progress'
  BY DEF OneStop
<1>0. /\ frames \in Seq(Frame) /\ IO!TypeOK /\ Work!TypeOK
      /\ loopstop \subseteq Loops /\ Len(frames) \in Nat
      /\ DOMAIN frames = 1 .. Len(frames)
  BY LenProperties DEF TypeOK, Frame
<1>1. CASE \/ MainThread
           \/ \E w \in IOThreads : IOPool(w) \/ \E l \in Loops : Loop(w, l)
           \/ \E w \in Workers : Worker(w)
           \/ SpuriousWakeup \/ UNCHANGED vars
  <2>1. /\ IOStep /\ WorkStep
        /\ UNCHANGED <<status, loopstop, frames>>
        /\ UNCHANGED <<iostop, iostopper, wstop, wstopper>>
        /\ server' # server => server' = "up" /\ Runs(Main)
    BY <1>1, ThreadSteps, PoolFlags
  <2>2. (IOEnded => IOEnded') /\ (WorkEnded => WorkEnded')
    BY <1>0, <2>1, IOStepEnds, WorkStepEnds
  <2>3. CASE frames = <<>>
    BY <2>1, <2>3, EmptySeq DEF OneStop, Untouched, Runs
  <2>4. CASE frames # <<>>
    <3>1. 1 \in DOMAIN frames /\ Progress
      BY <1>0, <2>1, <2>4, EmptySeq DEF OneStop
    <3>2. ~Runs(Main)
      BY <3>1 DEF Progress, Runs, Busy
    <3> QED
      BY <2>1, <2>2, <2>4, <3>1, <3>2 DEF OneStop, Progress, Untouched
  <2> QED
    BY <2>3, <2>4
<1>2. ASSUME NEW t \in Threads, Signal(t)
      PROVE  frames' # <<>> /\ status' = "up" /\ Progress'
  <2> DEFINE f == [on |-> t, at |-> "sig", logging |-> FALSE]
  <2>1. f \in Frame
    BY DEF Frame, Positions, AfterLog
  <2>2. /\ frames' = Append(frames, f) /\ status = "up"
        /\ UNCHANGED <<status, server, loopstop, wstop, iostop, wstopper,
                       iostopper>>
        /\ t # Main => Busy(Main)
    BY <1>2 DEF Signal, mainVars, loopVars, ioVars, workVars
  <2> HIDE DEF f
  <2>3. Len(frames') = Len(frames) + 1 /\ frames'[Len(frames) + 1] = f
    BY <1>0, <2>1, <2>2, AppendProperties
  <2>4. Len(frames) = 0 /\ frames'[1] = f
    BY <1>0, <2>3
  <2>5. frames = <<>> /\ ~Busy(Main)
    BY <1>0, <2>4, EmptySeq DEF Busy
  <2>6. frames' # <<>>
    BY <1>0, <2>3, EmptySeq
  <2>7. Untouched
    BY <2>4, <2>5 DEF OneStop
  <2>8. f.on = Main /\ f.at = "sig"
    BY <2>2, <2>5 DEF f
  <2> QED
    BY <2>2, <2>4, <2>6, <2>7, <2>8 DEF Progress, Untouched
<1>3. ASSUME NEW i \in 1 .. MaxSignals, Handler(i)
      PROVE  /\ status' \in {"up", "exited"} \/ server' = "none"
             /\ frames' # <<>> /\ Progress'
  <2>0. \/ LogLock(i) \/ LogUnlock(i) \/ HandlerGoes(i)
        \/ HandlerWorks(i) \/ HandlerFails(i)
    BY <1>0, <1>3, HandlerSteps
  <2>1. IOStep /\ WorkStep
    BY <2>0, HandlerPools
  <2>2. /\ IOEnded => IOEnded'
        /\ iostopper = "stopped" => iostopper' = "stopped"
        /\ iostopper' = "stopped" => iostopper = "stopped" \/ IOEnded'
        /\ WorkEnded => WorkEnded'
        /\ wstopper = "stopped" => wstopper' = "stopped"
        /\ wstopper' = "stopped" => wstopper = "stopped" \/ WorkEnded'
    BY <1>0, <2>1, IOStepEnds, WorkStepEnds
  <2>3. i \in DOMAIN frames /\ status = "up"
    BY <2>0 DEF LogLock, LogUnlock, HandlerGoes, HandlerWorks, HandlerFails, At
  <2>4. Len(frames') = Len(frames)
    BY <1>0, <2>0, HandlerLen
  <2>5. i = 1 /\ Len(frames) = 1 /\ frames # <<>>
    BY <1>0, <2>3, <2>4, EmptySeq
  <2>6. Progress /\ frames[1] \in Frame
    BY <1>0, <2>3, <2>5, FrameAt DEF OneStop
  <2>7. ASSUME NEW f, Moved(i, f) PROVE frames' # <<>> /\ frames'[1] = f
    BY <1>0, <2>4, <2>5, <2>7, MovedFrame, EmptySeq
  <2>8. CASE LogLock(i)
    <3>1. frames' # <<>> /\ frames'[1] = [frames[1] EXCEPT !.logging = TRUE]
      BY <1>0, <2>5, <2>7, <2>8, LoggingMoves
    <3>2. frames'[1].on = frames[1].on /\ frames'[1].at = frames[1].at
      BY <2>6, <3>1 DEF Frame
    <3>3. UNCHANGED <<status, server, loopstop, wstop, iostop, wpc, iopc,
                      wstopper, iostopper>>
      BY <2>8 DEF LogLock, mainVars, loopVars, ioVars, workVars
    <3> QED
      BY <2>2, <2>3, <2>6, <3>1, <3>2, <3>3 DEF Progress, Untouched
  <2>9. CASE LogUnlock(i)
    <3>1. /\ frames' # <<>> /\ frames[1].at \in DOMAIN AfterLog
          /\ frames'[1] = [frames[1] EXCEPT !.logging = FALSE,
                                            !.at = AfterLog[frames[1].at]]
      BY <1>0, <2>5, <2>7, <2>9, LoggedMoves
    <3>2. /\ frames'[1].on = frames[1].on
          /\ frames'[1].at = AfterLog[frames[1].at]
      BY <2>6, <3>1 DEF Frame
    <3>3. UNCHANGED <<status, server, loopstop, wstop, iostop, wpc, iopc,
                      wstopper, iostopper>>
      BY <2>9 DEF LogUnlock, mainVars, loopVars, ioVars, workVars
    <3>4. \/ frames[1].at = "sig" /\ frames'[1].at = "workers"
          \/ frames[1].at = "wlog" /\ frames'[1].at = "loops"
          \/ frames[1].at = "llog" /\ frames'[1].at = "pool"
          \/ frames[1].at = "plog" /\ frames'[1].at = "delete"
          \/ frames[1].at = "dlog" /\ frames'[1].at = "unjoin"
      BY <3>1, <3>2 DEF AfterLog
    <3> QED
      BY <2>2, <2>3, <2>6, <3>1, <3>2, <3>3, <3>4 DEF Progress, Untouched
  <2>10. CASE HandlerGoes(i)
    <3> DEFINE at == frames'[1].at
    <3>1. ASSUME NEW to \in Positions, Go(1, to)
          PROVE  frames' # <<>> /\ at = to /\ frames'[1].on = Main
      <4>1. frames' # <<>> /\ frames'[1] = [frames[1] EXCEPT !.at = to]
        BY <1>0, <2>3, <2>5, <2>7, <3>1, GoMoves
      <4> QED
        BY <2>6, <4>1 DEF Frame, Progress
    <3>2. status' = "up"
      BY <2>3, <2>10 DEF HandlerGoes
    <3> HIDE DEF at
    <3>3. \/ /\ frames[1].at = "workers" /\ wstop /\ at = "wlog"
          \/ /\ frames[1].at = "workers" /\ at = "wset" /\ server = "up"
             /\ UNCHANGED <<server, loopstop, wstop, iostop, wstopper,
                            iostopper>>
          \/ /\ frames[1].at = "wset" /\ at = "wjoin"
             /\ wstopper' # "stopped" \/ wstop
             /\ UNCHANGED <<server, loopstop, iostop, iostopper>>
          \/ /\ frames[1].at = "wjoin" /\ at = "wlog" /\ wstopper' = "stopped"
             /\ WorkEnded' /\ UNCHANGED <<server, loopstop, iostop, iostopper>>
          \/ /\ frames[1].at = "loops" /\ at = "llog"
             /\ UNCHANGED <<server, loopstop, iostop, iostopper>>
          \/ /\ frames[1].at = "pool" /\ iostop /\ at = "plog"
          \/ /\ frames[1].at = "pool" /\ at = "set"
             /\ UNCHANGED <<server, loopstop, iostop, iostopper>>
          \/ /\ frames[1].at = "set" /\ at = "join"
             /\ iostopper' # "stopped" \/ iostop
             /\ UNCHANGED <<server, loopstop>>
          \/ /\ frames[1].at = "join" /\ at = "plog" /\ iostopper' = "stopped"
             /\ IOEnded' /\ UNCHANGED <<server, loopstop>>
          \/ /\ frames[1].at = "delete" /\ at = "dlog" /\ server' = "deleted"
          \/ /\ frames[1].at = "unjoin" /\ at = "exit" /\ UNCHANGED server
      <4> USE DEF At, ioVars, workVars
      <4>1. ASSUME NEW to \in Positions, Go(i, to) PROVE at = to
        BY <2>5, <3>1, <4>1
      <4>2. /\ "wlog" \in Positions /\ "wset" \in Positions
            /\ "wjoin" \in Positions /\ "llog" \in Positions
            /\ "plog" \in Positions /\ "set" \in Positions
            /\ "join" \in Positions /\ "dlog" \in Positions
            /\ "exit" \in Positions
        BY DEF Positions, AfterLog
      <4>3. Work!Joined => wstopper' = "stopped" /\ WorkEnded'
        BY DEF Work!Joined, WorkEnded
      <4>4. IO!Joined => iostopper' = "stopped" /\ IOEnded'
        BY DEF IO!Joined, IOEnded
      <4>5. Workers = {} => WorkEnded'
        BY DEF WorkEnded
      <4>6. IOThreads = {} => IOEnded'
        BY DEF IOEnded
      <4>7. Work!SetStop => wstopper' = "set"
        BY DEF Work!SetStop
      <4>8. IO!SetStop => iostopper' = "set"
        BY DEF IO!SetStop
      <4> HIDE DEF Positions
      <4> QED
        BY <2>5, <2>10, <4>1, <4>2, <4>3, <4>4, <4>5, <4>6, <4>7, <4>8
        DEF HandlerGoes
    <3>4. frames' # <<>> /\ frames'[1].on = Main
      BY <2>5, <2>10, <3>1 DEF HandlerGoes, Positions, AfterLog
    <3>5. frames[1].at \in {"workers", "wset"} => Untouched
      BY <2>6 DEF Progress
    <3>6. /\ frames[1].at \in {"pool", "set"} => ~iostop
          /\ frames[1].at = "wset" => server # "none"
      BY <2>6 DEF Progress
    <3>7. Progress'
      <4>1. CASE at \in {"wset", "wjoin"}
        BY <2>2, <2>6, <3>3, <3>4, <3>5, <3>6, <4>1 DEF Progress, Untouched, at
      <4>2. CASE at \in {"wlog", "llog", "set", "join"}
        BY <2>2, <2>6, <3>3, <3>4, <3>5, <3>6, <4>2 DEF Progress, Untouched, at
      <4>3. CASE at \in {"plog", "dlog", "exit"}
        BY <2>2, <2>6, <3>3, <3>4, <3>5, <3>6, <4>3 DEF Progress, at
      <4> QED
        BY <3>3, <4>1, <4>2, <4>3
    <3> QED
      BY <3>2, <3>4, <3>7
  <2>11. CASE HandlerWorks(i)
    <3>1. /\ UNCHANGED <<status, server, frames>>
          /\ \/ frames[1].at \in {"wjoin", "join"} /\ loopstop' = loopstop
             \/ frames[1].at = "loops"
      BY <2>5, <2>11 DEF HandlerWorks, mainVars, At
    <3>2. /\ iostop' = iostop
          /\ wstopper' = "stopped" => wstopper = "stopped"
          /\ iostopper' = "stopped" => iostopper = "stopped"
      BY <2>11 DEF HandlerWorks, IO!NotifyAll, Work!NotifyAll, ioVars, workVars
    <3> QED
      BY <2>2, <2>3, <2>5, <2>6, <3>1, <3>2 DEF Progress
  <2>12. CASE HandlerFails(i)
    <3>1. UNCHANGED <<server, frames, loopstop, wstop, iostop, iopc, wpc,
                      iostopper, wstopper>>
      BY <2>12 DEF HandlerFails, Fail, loopVars, ioVars, workVars
    <3>2. status' = "exited" \/ server = "none"
      <4>1. server # "up" /\ frames[1].at \in
                  {"workers", "wset", "wjoin", "loops", "pool", "set", "join",
                   "delete"} => server = "none"
        BY <2>6 DEF Progress, Untouched, TypeOK
      <4>2. /\ frames[1].at = "wjoin" => ~JoinThrows(1, Workers, wstopper)
            /\ frames[1].at = "join" => ~JoinThrows(1, IOThreads, iostopper)
        BY <1>0, <2>5, <2>6, ShutdownAssumption DEF JoinThrows, Progress
      <4>3. frames[1].at = "delete" => wstopper = "stopped"
        BY <2>6 DEF Progress
      <4>4. frames[1].at = "unjoin" => iostopper = "stopped"
        BY <2>6 DEF Progress
      <4> QED
        BY <2>5, <2>12, <4>1, <4>2, <4>3, <4>4 DEF HandlerFails, Fail, At
    <3> QED
      BY <2>2, <2>5, <2>6, <3>1, <3>2 DEF Progress, Untouched
  <2> QED
    BY <2>0, <2>8, <2>9, <2>10, <2>11, <2>12
<1> QED
  BY <1>1, <1>2, <1>3 DEF Next

LEMMA OneStopCorrect == Spec => []OneStop
<1>1. Init => OneStop
  BY DEF Init, IO!Init, Work!Init, OneStop, Untouched
<1> QED
  BY <1>1, StepOneStop, TypeCorrect, PTL DEF Spec

(* What a single signal does, by the position of its Stop().               *)
LEMMA OneStopShows ==
  ASSUME TypeOK, OneStop
  PROVE  OneSignalIsClean /\ DeletedAlone /\ LoopsOutliveWorkers
<1>1. OneSignalIsClean
  BY DEF OneStop, OneSignalIsClean
<1>2. ASSUME Len(frames) <= 1, server = "deleted" PROVE IOEnded /\ WorkEnded
  BY <1>2 DEF OneStop, Untouched, Progress
<1>3. DeletedAlone
  BY <1>2, ShutdownAssumption DEF DeletedAlone, Exited, IOEnded, WorkEnded
<1>4. ASSUME Len(frames) <= 1, loopstop # {} PROVE WorkEnded
  BY <1>4 DEF OneStop, Untouched, Progress
<1>5. LoopsOutliveWorkers
  BY <1>4 DEF LoopsOutliveWorkers, WorkEnded
<1> QED
  BY <1>1, <1>3, <1>5

(* With one signal the process ends with exit(0) or goes on: no member of  *)
(* a deleted server is used and no thread is destroyed unjoined.           *)
THEOREM OneSignalEndsCleanly == Spec => []OneSignalIsClean
BY TypeCorrect, OneStopCorrect, OneStopShows, PTL

(* With one signal no thread of a pool is left when the server goes away.  *)
THEOREM DeletesAlone == Spec => []DeletedAlone
BY TypeCorrect, OneStopCorrect, OneStopShows, PTL

(* With one signal the loops go on as long as a worker computes a reply.   *)
THEOREM WorkersEndFirst == Spec => []LoopsOutliveWorkers
BY TypeCorrect, OneStopCorrect, OneStopShows, PTL

---------------------------------------------------------------------------
(* Why nobody waits in a circle: with one signal, who owns a mutex is the  *)
(* main thread, or is where it will let go of it next.                     *)
IOOwners ==
    \A k \in Locks, w \in IOThreads : owner[k] = w =>
        /\ iopc[w] = "run"
        /\ \E l \in Loops : iotask[w] = l /\ k \in LoopLocks(l)
WorkOwners ==
    \A k \in Locks, w \in Workers : owner[k] = w =>
        k = "log" /\ wpc[w] = "run"
Logs == \A i \in DOMAIN frames :
            frames[i].logging => frames[i].at \in DOMAIN AfterLog
Owners == Len(frames) <= 1 => IOOwners /\ WorkOwners /\ Logs

(* A loop needs one mutex at a time.                                       *)
LEMMA LoopLocksOne ==
  ASSUME NEW l \in Loops
  PROVE  /\ LoopLocks(l) \subseteq Locks
         /\ \A j, k \in LoopLocks(l) : j = k
         /\ lpc[l] \in {"check", "poll", "message", "notify"}
                => LoopLocks(l) = {}
<1> DEFINE p == lpc[l]
<1>1. CASE p = "closing"
  BY <1>1 DEF LoopLocks, Locks
<1>2. CASE p \in {"erase", "remove"}
  BY <1>2 DEF LoopLocks, Locks
<1>3. CASE p = "sweep"
  BY <1>3 DEF LoopLocks, Locks
<1>4. CASE p \notin {"closing", "erase", "remove", "sweep"}
  BY <1>4 DEF LoopLocks
<1> QED
  BY <1>1, <1>2, <1>3, <1>4

LEMMA LoopLocksSame ==
  ASSUME NEW l \in Loops, lpc'[l] = lpc[l]
  PROVE  LoopLocks(l)' = LoopLocks(l)
BY DEF LoopLocks

(* No thread gets a mutex, and none that runs a task changes it.           *)
LEMMA SameIOOwners ==
  ASSUME TypeOK, IOOwners, UNCHANGED lpc,
         \A k \in Locks : owner'[k] \in IOThreads => owner'[k] = owner[k],
         \A w \in IOThreads : iopc[w] = "run" =>
                                 iopc'[w] = "run" /\ iotask'[w] = iotask[w]
  PROVE  IOOwners'
<1> SUFFICES ASSUME NEW k \in Locks, NEW w \in IOThreads, owner'[k] = w
             PROVE  /\ iopc'[w] = "run"
                    /\ \E l \in Loops : iotask'[w] = l /\ k \in LoopLocks(l)'
  BY DEF IOOwners
<1>1. owner[k] = w
  OBVIOUS
<1>2. PICK l \in Loops : iotask[w] = l /\ k \in LoopLocks(l)
  BY <1>1 DEF IOOwners
<1>3. iopc[w] = "run"
  BY <1>1 DEF IOOwners
<1>4. iopc'[w] = "run" /\ iotask'[w] = l
  BY <1>2, <1>3
<1>5. k \in LoopLocks(l)'
  BY <1>2, LoopLocksSame
<1> QED
  BY <1>4, <1>5

LEMMA SameWorkOwners ==
  ASSUME WorkOwners,
         \A k \in Locks : owner'[k] \in Workers => owner'[k] = owner[k],
         \A w \in Workers : wpc[w] = "run" => wpc'[w] = "run"
  PROVE  WorkOwners'
BY DEF WorkOwners

(* The steps of the pools that are not the end of a task.                  *)
LEMMA IORunsOn ==
  ASSUME TypeOK,
         \/ \E l \in Loops : IO!Push(l) \/ IO!Notify(l)
         \/ \E w \in IOThreads : \/ IO!Enter(w) \/ IO!Take(w) \/ IO!Leave(w)
                                 \/ IO!Park(w) \/ IO!Sleep(w)
                                 \/ IO!SpuriousWakeup(w)
         \/ IO!SetStop \/ IO!NotifyAll \/ IO!Joined
         \/ UNCHANGED ioVars
  PROVE  \A w \in IOThreads : iopc[w] = "run" =>
            iopc'[w] = "run" /\ iotask'[w] = iotask[w]
<1> USE DEF TypeOK, IO!TypeOK
<1>1. ASSUME NEW l \in Loops, IO!Push(l) \/ IO!Notify(l)
      PROVE  \A w \in IOThreads : iopc[w] = "run" =>
                iopc'[w] = "run" /\ iotask'[w] = iotask[w]
  BY <1>1 DEF IO!Push, IO!Notify, IO!Sleepers
<1>2. ASSUME NEW w \in IOThreads,
             \/ IO!Enter(w) \/ IO!Take(w) \/ IO!Leave(w)
             \/ IO!Park(w) \/ IO!Sleep(w) \/ IO!SpuriousWakeup(w)
      PROVE  \A v \in IOThreads : iopc[v] = "run" =>
                iopc'[v] = "run" /\ iotask'[v] = iotask[v]
  BY <1>2 DEF IO!Enter, IO!Take, IO!Leave, IO!Park, IO!Sleep,
              IO!SpuriousWakeup
<1>3. CASE IO!SetStop \/ IO!NotifyAll \/ IO!Joined \/ UNCHANGED ioVars
  BY <1>3 DEF IO!SetStop, IO!NotifyAll, IO!Joined, ioVars
<1> QED
  BY <1>1, <1>2, <1>3

LEMMA WorkRunsOn ==
  ASSUME TypeOK,
         \/ \E r \in Requests : Work!Push(r) \/ Work!Notify(r)
         \/ \E w \in Workers : \/ Work!Enter(w) \/ Work!Take(w)
                               \/ Work!Leave(w) \/ Work!Park(w)
                               \/ Work!Sleep(w) \/ Work!SpuriousWakeup(w)
         \/ Work!SetStop \/ Work!NotifyAll \/ Work!Joined
         \/ UNCHANGED workVars
  PROVE  \A w \in Workers : wpc[w] = "run" => wpc'[w] = "run"
<1> USE DEF TypeOK, Work!TypeOK
<1>1. ASSUME NEW r \in Requests, Work!Push(r) \/ Work!Notify(r)
      PROVE  \A w \in Workers : wpc[w] = "run" => wpc'[w] = "run"
  BY <1>1 DEF Work!Push, Work!Notify, Work!Sleepers
<1>2. ASSUME NEW w \in Workers,
             \/ Work!Enter(w) \/ Work!Take(w) \/ Work!Leave(w)
             \/ Work!Park(w) \/ Work!Sleep(w) \/ Work!SpuriousWakeup(w)
      PROVE  \A v \in Workers : wpc[v] = "run" => wpc'[v] = "run"
  BY <1>2 DEF Work!Enter, Work!Take, Work!Leave, Work!Park, Work!Sleep,
              Work!SpuriousWakeup
<1>3. CASE Work!SetStop \/ Work!NotifyAll \/ Work!Joined \/ UNCHANGED workVars
  BY <1>3 DEF Work!SetStop, Work!NotifyAll, Work!Joined, workVars
<1> QED
  BY <1>1, <1>2, <1>3

(* The main thread owns what no thread of a pool owns.                     *)
LEMMA MainOwners ==
  ASSUME TypeOK, IOOwners, WorkOwners, MainThread
  PROVE  IOOwners' /\ WorkOwners'
<1>1. UNCHANGED <<lpc, workVars>>
  BY DEF MainThread, Create, Created, Accept, MainLock, MainUnlock, loopVars
<1>2. UNCHANGED ioVars \/ \E l \in Loops : IO!Push(l) \/ IO!Notify(l)
  BY DEF MainThread, Create, Created, Accept, MainLock, MainUnlock
<1>3. \A k \in Locks : owner'[k] \in {owner[k], Main, None}
  BY DEF MainThread, Create, Created, Accept, MainLock, MainUnlock, Lock,
         Unlock, TypeOK
<1>4. Main \notin IOThreads \cup Workers /\ None \notin IOThreads \cup Workers
  BY ShutdownAssumption
<1>5. \A w \in IOThreads : iopc[w] = "run" =>
         iopc'[w] = "run" /\ iotask'[w] = iotask[w]
  BY <1>2, IORunsOn
<1>6. IOOwners'
  BY <1>1, <1>3, <1>4, <1>5, SameIOOwners
<1>7. WorkOwners'
  BY <1>1, <1>3, <1>4, SameWorkOwners DEF workVars
<1> QED
  BY <1>6, <1>7

(* A loop changes its position when it owns nothing, or lets go of it.     *)
LEMMA LoopOwners ==
  ASSUME TypeOK, IOOwners, WorkOwners, NEW w \in IOThreads, NEW l \in Loops,
         Loop(w, l)
  PROVE  IOOwners' /\ WorkOwners'
<1> USE DEF mainVars, loopVars
<1>0. /\ iotask[w] = l /\ iopc[w] = "run" /\ w \notin Workers
      /\ None \notin IOThreads \cup Workers
  BY ShutdownAssumption
  DEF Loop, LoopCheck, LoopOver, LoopEvent, LoopLock, LoopUnlock, LoopMessage,
      LoopNotify, InLoop, TypeOK, IO!TypeOK
<1>1. WorkOwners'
  <2>1. \A k \in Locks : owner'[k] \in {owner[k], w, None}
    BY DEF Loop, LoopCheck, LoopOver, LoopEvent, LoopLock, LoopUnlock,
           LoopMessage, LoopNotify, Lock, Unlock, TypeOK
  <2>2. \/ \E r \in Requests : Work!Push(r) \/ Work!Notify(r)
        \/ UNCHANGED workVars
    BY DEF Loop, LoopCheck, LoopOver, LoopEvent, LoopLock, LoopUnlock,
           LoopMessage, LoopNotify
  <2>3. \A v \in Workers : wpc[v] = "run" => wpc'[v] = "run"
    BY <2>2, WorkRunsOn
  <2> QED
    BY <1>0, <2>1, <2>3, SameWorkOwners
<1>2. ASSUME LoopLocks(l) = {}, UNCHANGED <<owner, iopc, iotask>>,
             \A m \in Loops : m # l => lpc'[m] = lpc[m]
      PROVE  IOOwners'
  <2> SUFFICES ASSUME NEW k \in Locks, NEW v \in IOThreads, owner[k] = v
               PROVE  /\ iopc[v] = "run"
                      /\ \E m \in Loops : iotask[v] = m /\ k \in LoopLocks(m)'
    BY <1>2 DEF IOOwners
  <2>1. PICK m \in Loops : iotask[v] = m /\ k \in LoopLocks(m)
    BY DEF IOOwners
  <2>2. m # l
    BY <1>2, <2>1
  <2>3. LoopLocks(m)' = LoopLocks(m)
    BY <1>2, <2>2, LoopLocksSame
  <2> QED
    BY <2>1, <2>3 DEF IOOwners
<1>3. CASE LoopCheck(w, l) \/ LoopEvent(w, l) \/ LoopMessage(w, l)
               \/ LoopNotify(w, l)
  <2>1. /\ lpc[l] \in {"check", "poll", "message", "notify"}
        /\ UNCHANGED <<owner, iopc, iotask>>
        /\ \E at : Step(l, at)
    BY <1>3 DEF LoopCheck, LoopEvent, LoopMessage, LoopNotify, InLoop, ioVars
  <2>2. LoopLocks(l) = {}
    BY <2>1, LoopLocksOne
  <2>3. \A m \in Loops : m # l => lpc'[m] = lpc[m]
    BY <2>1 DEF Step, TypeOK
  <2> QED
    BY <1>1, <1>2, <2>1, <2>2, <2>3
<1>4. CASE LoopOver(w, l)
  <2>1. /\ lpc[l] = "check" /\ UNCHANGED <<owner, lpc>>
        /\ iopc' = [iopc EXCEPT ![w] = "loop"]
        /\ iotask' = [iotask EXCEPT ![w] = None]
    BY <1>4 DEF LoopOver, InLoop, IO!Finish
  <2>2. LoopLocks(l) = {}
    BY <2>1, LoopLocksOne
  <2>3. \A k \in Locks : owner[k] # w
    BY <1>0, <2>2 DEF IOOwners
  <2>4. \A v \in IOThreads : v # w =>
           iopc'[v] = iopc[v] /\ iotask'[v] = iotask[v]
    BY <2>1 DEF TypeOK, IO!TypeOK
  <2>5. \A k \in Locks, v \in IOThreads : owner'[k] = v =>
           v # w /\ owner[k] = v
    BY <2>1, <2>3
  <2>6. \A m \in Loops : LoopLocks(m)' = LoopLocks(m)
    BY <2>1, LoopLocksSame
  <2> QED
    BY <1>1, <2>4, <2>5, <2>6 DEF IOOwners
<1>5. CASE LoopLock(w, l)
  <2>1. PICK j \in LoopLocks(l) : Lock(w, j)
    BY <1>5 DEF LoopLock
  <2>2. UNCHANGED <<lpc, iopc, iotask>>
    BY <1>5 DEF LoopLock, ioVars
  <2>3. /\ j \in Locks
        /\ \A k \in Locks : owner'[k] = IF k = j THEN w ELSE owner[k]
    BY <2>1, LoopLocksOne DEF Lock, TypeOK
  <2>4. \A m \in Loops : LoopLocks(m)' = LoopLocks(m)
    BY <2>2, LoopLocksSame
  <2>5. \A k \in Locks, v \in IOThreads : owner'[k] = v =>
           (k = j /\ v = w) \/ owner[k] = v
    BY <2>3
  <2> QED
    BY <1>0, <1>1, <2>1, <2>2, <2>4, <2>5 DEF IOOwners
<1>6. CASE LoopUnlock(w, l)
  <2>1. PICK j \in LoopLocks(l) : Unlock(w, j)
    BY <1>6 DEF LoopUnlock
  <2>2. UNCHANGED <<iopc, iotask>> /\ \E at : Step(l, at)
    BY <1>6 DEF LoopUnlock, ioVars
  <2>3. \A m \in Loops : m # l => lpc'[m] = lpc[m]
    BY <2>2 DEF Step, TypeOK
  <2>4. /\ j \in Locks
        /\ \A k \in Locks : owner'[k] = IF k = j THEN None ELSE owner[k]
    BY <2>1, LoopLocksOne DEF Unlock, TypeOK
  <2> SUFFICES ASSUME NEW k \in Locks, NEW v \in IOThreads, owner'[k] = v
               PROVE  /\ iopc[v] = "run"
                      /\ \E m \in Loops : iotask[v] = m /\ k \in LoopLocks(m)'
    BY <1>1, <2>2 DEF IOOwners
  <2>5. k # j /\ owner[k] = v
    BY <1>0, <2>4
  <2>6. PICK m \in Loops : iotask[v] = m /\ k \in LoopLocks(m)
    BY <2>5 DEF IOOwners
  <2>7. m # l
    BY <2>1, <2>5, <2>6, LoopLocksOne
  <2>8. LoopLocks(m)' = LoopLocks(m)
    BY <2>3, <2>7, LoopLocksSame
  <2>9. iopc[v] = "run"
    BY <2>5 DEF IOOwners
  <2> QED
    BY <2>6, <2>8, <2>9
<1> QED
  BY <1>3, <1>4, <1>5, <1>6 DEF Loop

(* A worker takes logMutex for a line and lets go of it.                   *)
LEMMA WorkerOwners ==
  ASSUME TypeOK, IOOwners, WorkOwners, NEW w \in Workers, Worker(w)
  PROVE  IOOwners' /\ WorkOwners'
<1> USE DEF mainVars, loopVars
<1>0. w \notin IOThreads /\ None \notin IOThreads \cup Workers
  BY ShutdownAssumption
<1>1. IOOwners'
  <2>1. UNCHANGED <<lpc, iopc, iotask>>
    BY DEF Worker, WorkPool, Reply, ReplyLog, ReplyLogged, ioVars
  <2>2. \A k \in Locks : owner'[k] \in {owner[k], w, None}
    BY DEF Worker, WorkPool, Reply, ReplyLog, ReplyLogged, Lock, Unlock, TypeOK
  <2> QED
    BY <1>0, <2>1, <2>2, SameIOOwners
<1>2. CASE WorkPool(w)
  <2>1. owner' = owner
    BY <1>2 DEF WorkPool
  <2>2. \A v \in Workers : wpc[v] = "run" => wpc'[v] = "run"
    BY <1>2, WorkRunsOn DEF WorkPool
  <2> QED
    BY <1>1, <2>1, <2>2, SameWorkOwners
<1>3. CASE ReplyLog(w)
  <2>1. /\ wpc[w] = "run" /\ wpc' = wpc
        /\ owner' = [owner EXCEPT !["log"] = w]
    BY <1>3 DEF ReplyLog, Lock, workVars
  <2>2. \A k \in Locks : \/ k = "log" /\ owner'[k] = w
                         \/ owner'[k] = owner[k]
    BY <2>1 DEF TypeOK
  <2> QED
    BY <1>1, <2>1, <2>2 DEF WorkOwners
<1>4. CASE Reply(w) \/ ReplyLogged(w)
  <2>1. wpc' = [wpc EXCEPT ![w] = "loop"]
    BY <1>4 DEF Reply, ReplyLogged, Work!Finish
  <2>2. "log" \in Locks /\ owner'["log"] # w
    BY <1>0, <1>4 DEF Reply, ReplyLogged, Unlock, Locks, TypeOK
  <2>3. \A k \in Locks : owner'[k] \in {owner[k], None}
    BY <1>4 DEF Reply, ReplyLogged, Unlock, TypeOK
  <2>4. \A v \in Workers : v # w => wpc'[v] = wpc[v]
    BY <2>1 DEF TypeOK, Work!TypeOK
  <2>5. \A k \in Locks, v \in Workers : owner'[k] = v => owner[k] = v
    BY <1>0, <2>3
  <2> QED
    BY <1>1, <2>2, <2>4, <2>5 DEF WorkOwners
<1> QED
  BY <1>2, <1>3, <1>4 DEF Worker

(* Stop(), which runs on the main thread.                                  *)
LEMMA HandlerOwners ==
  ASSUME TypeOK, OneStop, IOOwners, WorkOwners, Logs, Len(frames) <= 1,
         NEW i \in 1 .. MaxSignals, Handler(i)
  PROVE  IOOwners' /\ WorkOwners' /\ Logs'
<1> USE DEF mainVars, loopVars
<1>0. /\ frames \in Seq(Frame) /\ loopstop \subseteq Loops
      /\ DOMAIN frames = 1 .. Len(frames) /\ Len(frames) \in Nat
  BY LenProperties DEF TypeOK, Frame
<1>1. \/ LogLock(i) \/ LogUnlock(i) \/ HandlerGoes(i)
      \/ HandlerWorks(i) \/ HandlerFails(i)
  BY <1>0, HandlerSteps
<1>2. i \in DOMAIN frames /\ i = 1 /\ frames # <<>>
  <2>1. i \in DOMAIN frames
    BY <1>1
    DEF LogLock, LogUnlock, HandlerGoes, HandlerWorks, HandlerFails, At
  <2> QED
    BY <1>0, <2>1, EmptySeq
<1>3. frames[i].on = Main /\ frames[i] \in Frame
  BY <1>0, <1>2, FrameAt DEF OneStop, Progress
<1>4. Main \notin IOThreads \cup Workers /\ None \notin IOThreads \cup Workers
  BY ShutdownAssumption
<1>5. lpc' = lpc
  BY <1>1 DEF LogLock, LogUnlock, HandlerGoes, HandlerWorks, HandlerFails, Fail
<1>6. \A k \in Locks : owner'[k] \in {owner[k], Main, None}
  <2>1. CASE LogLock(i) \/ LogUnlock(i)
    BY <1>3, <2>1 DEF LogLock, LogUnlock, Lock, Unlock, TypeOK
  <2>2. CASE HandlerGoes(i) \/ HandlerWorks(i) \/ HandlerFails(i)
    BY <2>2 DEF HandlerGoes, HandlerWorks, HandlerFails, Fail
  <2> QED
    BY <1>1, <2>1, <2>2
<1>7. /\ IO!SetStop \/ IO!NotifyAll \/ IO!Joined \/ UNCHANGED ioVars
      /\ Work!SetStop \/ Work!NotifyAll \/ Work!Joined \/ UNCHANGED workVars
  BY <1>1
  DEF LogLock, LogUnlock, HandlerGoes, HandlerWorks, HandlerFails, Fail
<1>8. IOOwners' /\ WorkOwners'
  <2>1. /\ \A w \in IOThreads : iopc[w] = "run" =>
              iopc'[w] = "run" /\ iotask'[w] = iotask[w]
        /\ \A w \in Workers : wpc[w] = "run" => wpc'[w] = "run"
    BY <1>7, IORunsOn, WorkRunsOn
  <2>2. IOOwners'
    BY <1>4, <1>5, <1>6, <2>1, SameIOOwners
  <2>3. WorkOwners'
    BY <1>4, <1>6, <2>1, SameWorkOwners
  <2> QED
    BY <2>2, <2>3
<1>9. Logs'
  <2>1. ASSUME NEW f, Moved(i, f), f.logging => f.at \in DOMAIN AfterLog
        PROVE  Logs'
    BY <1>0, <2>1, MovedFrame DEF Logs
  <2>2. CASE LogLock(i)
    <3>1. Moved(i, [frames[i] EXCEPT !.logging = TRUE])
      BY <1>0, <2>2, LoggingMoves
    <3>2. frames[i].at \in DOMAIN AfterLog
      BY <2>2 DEF LogLock, At
    <3>3. [frames[i] EXCEPT !.logging = TRUE].at = frames[i].at
      BY <1>3 DEF Frame
    <3> QED
      BY <2>1, <3>1, <3>2, <3>3
  <2>3. CASE LogUnlock(i)
    <3> DEFINE f == [frames[i] EXCEPT !.logging = FALSE,
                                      !.at = AfterLog[frames[i].at]]
    <3>1. Moved(i, f)
      BY <1>0, <2>3, LoggedMoves
    <3>2. f.logging = FALSE
      BY <1>3 DEF Frame
    <3> HIDE DEF f
    <3> QED
      BY <2>1, <3>1, <3>2
  <2>4. CASE HandlerGoes(i)
    <3>1. PICK at \in Positions : Go(i, at)
      BY <2>4 DEF HandlerGoes, Positions, AfterLog
    <3>2. frames[i].at \notin DOMAIN AfterLog
      BY <2>4 DEF HandlerGoes, At, AfterLog
    <3>3. ~frames[i].logging
      BY <1>2, <3>2 DEF Logs
    <3>4. Moved(i, [frames[i] EXCEPT !.at = at])
      BY <1>0, <1>2, <3>1, GoMoves
    <3>5. [frames[i] EXCEPT !.at = at].logging = frames[i].logging
      BY <1>3 DEF Frame
    <3> QED
      BY <2>1, <3>3, <3>4, <3>5
  <2>5. CASE HandlerWorks(i) \/ HandlerFails(i)
    BY <2>5 DEF HandlerWorks, HandlerFails, Fail, Logs
  <2> QED
    BY <1>1, <2>2, <2>3, <2>4, <2>5
<1> QED
  BY <1>8, <1>9

LEMMA StepOwners == TypeOK /\ OneStop /\ Owners /\ [Next]_vars => Owners'
<1> SUFFICES ASSUME TypeOK, OneStop, Owners, [Next]_vars, Len(frames') <= 1
             PROVE  IOOwners' /\ WorkOwners' /\ Logs'
  BY DEF Owners
<1> USE DEF mainVars, loopVars
<1>0. frames \in Seq(Frame) /\ Len(frames) \in Nat
  BY LenProperties DEF TypeOK, Frame
<1>1. ASSUME UNCHANGED frames, IOOwners' /\ WorkOwners'
      PROVE  IOOwners' /\ WorkOwners' /\ Logs'
  BY <1>1 DEF Owners, Logs
<1>2. CASE MainThread
  <2>1. UNCHANGED frames
    BY <1>2, ThreadSteps
  <2> QED
    BY <1>1, <1>2, <2>1, MainOwners DEF Owners
<1>3. ASSUME NEW w \in IOThreads, NEW l \in Loops, Loop(w, l)
      PROVE  IOOwners' /\ WorkOwners' /\ Logs'
  <2>1. UNCHANGED frames
    BY <1>3, ThreadSteps
  <2> QED
    BY <1>1, <1>3, <2>1, LoopOwners DEF Owners
<1>4. ASSUME NEW w \in Workers, Worker(w)
      PROVE  IOOwners' /\ WorkOwners' /\ Logs'
  <2>1. UNCHANGED frames
    BY <1>4, ThreadSteps
  <2> QED
    BY <1>1, <1>4, <2>1, WorkerOwners DEF Owners
<1>5. CASE SpuriousWakeup \/ \E w \in IOThreads : IOPool(w)
  <2>1. UNCHANGED <<owner, lpc, frames>>
    BY <1>5 DEF SpuriousWakeup, IOPool
  <2>2. /\ \/ \E w \in IOThreads : \/ IO!Enter(w) \/ IO!Take(w) \/ IO!Leave(w)
                                   \/ IO!Park(w) \/ IO!Sleep(w)
                                   \/ IO!SpuriousWakeup(w)
           \/ UNCHANGED ioVars
        /\ \/ \E w \in Workers : Work!SpuriousWakeup(w)
           \/ UNCHANGED workVars
    BY <1>5 DEF SpuriousWakeup, IOPool
  <2>3. /\ \A w \in IOThreads : iopc[w] = "run" =>
              iopc'[w] = "run" /\ iotask'[w] = iotask[w]
        /\ \A w \in Workers : wpc[w] = "run" => wpc'[w] = "run"
    BY <2>2, IORunsOn, WorkRunsOn
  <2>4. IOOwners'
    BY <2>1, <2>3, SameIOOwners DEF Owners
  <2>5. WorkOwners'
    BY <2>1, <2>3, SameWorkOwners DEF Owners
  <2> QED
    BY <1>1, <2>1, <2>4, <2>5
<1>6. CASE UNCHANGED vars
  BY <1>1, <1>6 DEF vars, Owners, IOOwners, WorkOwners, LoopLocks, ioVars,
                    workVars
<1>7. ASSUME NEW t \in Threads, Signal(t)
      PROVE  IOOwners' /\ WorkOwners' /\ Logs'
  <2> DEFINE f == [on |-> t, at |-> "sig", logging |-> FALSE]
  <2>1. f \in Frame /\ f.logging = FALSE
    BY DEF Frame, Positions, AfterLog
  <2>2. frames' = Append(frames, f)
    BY <1>7 DEF Signal
  <2> HIDE DEF f
  <2>3. /\ Len(frames') = Len(frames) + 1 /\ frames' \in Seq(Frame)
        /\ frames'[Len(frames) + 1] = f
    BY <1>0, <2>1, <2>2, AppendProperties
  <2>4. Len(frames) = 0 /\ DOMAIN frames' = {1} /\ frames'[1] = f
    BY <1>0, <2>3, LenProperties
  <2>5. Logs'
    BY <2>1, <2>4 DEF Logs
  <2>6. UNCHANGED <<owner, lpc, iopc, iotask, wpc>>
    BY <1>7 DEF Signal, ioVars, workVars
  <2>7. IOOwners' /\ WorkOwners'
    BY <2>4, <2>6 DEF Owners, IOOwners, WorkOwners, LoopLocks
  <2> QED
    BY <2>5, <2>7
<1>8. ASSUME NEW i \in 1 .. MaxSignals, Handler(i)
      PROVE  IOOwners' /\ WorkOwners' /\ Logs'
  <2>1. Len(frames) <= 1
    <3>1. loopstop \subseteq Loops
      BY DEF TypeOK
    <3>2. \/ LogLock(i) \/ LogUnlock(i) \/ HandlerGoes(i)
          \/ HandlerWorks(i) \/ HandlerFails(i)
      BY <1>8, <3>1, HandlerSteps
    <3>3. Len(frames') = Len(frames)
      BY <1>0, <3>2, HandlerLen
    <3> QED
      BY <3>3
  <2> QED
    BY <1>8, <2>1, HandlerOwners DEF Owners
<1> QED
  BY <1>2, <1>3, <1>4, <1>5, <1>6, <1>7, <1>8 DEF Next

LEMMA OwnersCorrect == Spec => []Owners
<1>1. Init => Owners
  <2> SUFFICES ASSUME Init PROVE Owners
    OBVIOUS
  <2>1. DOMAIN frames = {}
    BY EmptySeq DEF Init
  <2>2. \A k \in Locks : owner[k] = None
    BY DEF Init
  <2> QED
    BY <2>1, <2>2, ShutdownAssumption DEF Owners, IOOwners, WorkOwners, Logs
<1> QED
  BY <1>1, StepOwners, OneStopCorrect, TypeCorrect, PTL DEF Spec

(* A thread of a pool that owns a mutex waits for nobody.                  *)
LEMMA OwnerGoesOn ==
  ASSUME TypeOK, IOOwners, WorkOwners, NEW k \in Locks,
         NEW t \in IOThreads \cup Workers, owner[k] = t
  PROVE  GoesOn(t)
<1>0. IOThreads \cap Workers = {}
  BY ShutdownAssumption
<1>1. CASE t \in IOThreads
  <2>1. PICK l \in Loops : iotask[t] = l /\ k \in LoopLocks(l)
    BY <1>1 DEF IOOwners
  <2>2. iopc[t] = "run" /\ t \notin Workers
    BY <1>0, <1>1 DEF IOOwners
  <2>3. lpc[l] # "message" /\ \A j \in LoopLocks(l) : owner[j] = t
    BY <2>1, LoopLocksOne
  <2>4. WaitsFor(t) = {}
    BY <2>1, <2>2, <2>3 DEF WaitsFor
  <2> QED
    BY <1>1, <2>2, <2>4 DEF GoesOn
<1>2. CASE t \in Workers
  <2>1. wpc[t] = "run" /\ t \notin IOThreads
    BY <1>0, <1>2 DEF WorkOwners
  <2>2. WaitsFor(t) = {}
    BY <2>1 DEF WaitsFor
  <2> QED
    BY <1>2, <2>1, <2>2 DEF GoesOn
<1> QED
  BY <1>1, <1>2

(* Nor does one that holds the mutex of its pool.                          *)
LEMMA ParkedGoesOn ==
  ASSUME TypeOK, NEW t \in Threads, t = iomutex \/ t = wmutex
  PROVE  GoesOn(t)
<1>1. t # None /\ IOThreads \cap Workers = {}
  BY ShutdownAssumption DEF Threads
<1>2. CASE t = iomutex
  <2>1. t \in IOThreads /\ t \notin Workers /\ iopc[t] = "park"
    BY <1>1, <1>2 DEF TypeOK, IO!TypeOK
  <2> QED
    BY <2>1 DEF GoesOn, WaitsFor
<1>3. CASE t = wmutex
  <2>1. t \in Workers /\ t \notin IOThreads /\ wpc[t] = "park"
    BY <1>1, <1>3 DEF TypeOK, Work!TypeOK
  <2> QED
    BY <2>1 DEF GoesOn, WaitsFor
<1> QED
  BY <1>2, <1>3

LEMMA OwnersShow ==
  ASSUME TypeOK, OneStop, Owners PROVE NoCircle
<1> SUFFICES ASSUME Len(frames) = 1, ~Interrupted, ~Missed,
                    NEW t \in StopWaitsFor
             PROVE  \/ GoesOn(t)
                    \/ WaitsFor(t) # {} /\ \A u \in WaitsFor(t) : GoesOn(u)
  BY DEF NoCircle
<1>0. /\ IOOwners /\ WorkOwners /\ Logs /\ DOMAIN frames = {1}
      /\ t \in Threads /\ IOThreads \cap Workers = {}
      /\ Main \notin IOThreads \cup Workers
  <2>1. DOMAIN frames = {1}
    BY LenProperties DEF TypeOK
  <2> QED
    BY <2>1, ShutdownAssumption DEF Owners, StopWaitsFor
<1>1. ~frames[1].logging
  BY <1>0 DEF StopWaitsFor, Logs, AfterLog
<1>2. \A k \in Locks : owner[k] = Main =>
         /\ k # "log"
         /\ \A w \in IOThreads : iotask[w] # None
                                    => k \notin LoopLocks(iotask[w])
  BY <1>0, <1>1 DEF Interrupted
<1>3. CASE owner["log"] = t
  <2>1. "log" \in Locks
    BY DEF Locks
  <2>2. t \in IOThreads \cup Workers
    BY <1>0, <1>2, <1>3, <2>1 DEF Threads
  <2> QED
    BY <1>0, <1>3, <2>1, <2>2, OwnerGoesOn
<1>4. CASE wstopper = "join" /\ t \in Workers /\ wpc[t] # "exit"
  <2>1. wpc[t] # "wait" /\ t \notin IOThreads
    BY <1>0, <1>4 DEF Missed, Work!Sleepers
  <2>2. \A u \in WaitsFor(t) : u \in Threads /\ u = wmutex
    BY <2>1 DEF WaitsFor
  <2>3. CASE WaitsFor(t) = {}
    BY <1>4, <2>1, <2>3 DEF GoesOn
  <2> QED
    BY <2>2, <2>3, ParkedGoesOn
<1>5. CASE iostopper = "join" /\ t \in IOThreads /\ iopc[t] # "exit"
  <2>1. iopc[t] # "wait" /\ t \notin Workers
    BY <1>0, <1>5 DEF Missed, IO!Sleepers
  <2>2. CASE WaitsFor(t) = {}
    BY <1>5, <2>1, <2>2 DEF GoesOn
  <2>3. ASSUME NEW u \in WaitsFor(t) PROVE GoesOn(u)
    <3>1. /\ u \in Threads
          /\ \/ u = iomutex \/ u = wmutex
             \/ /\ iopc[t] = "run"
                /\ \E k \in LoopLocks(iotask[t]) : owner[k] = u
      BY <2>1, <2>3 DEF WaitsFor
    <3>2. CASE u = iomutex \/ u = wmutex
      BY <3>1, <3>2, ParkedGoesOn
    <3>3. ASSUME iopc[t] = "run", NEW k \in LoopLocks(iotask[t]), owner[k] = u
          PROVE  GoesOn(u)
      <4>1. iotask[t] \in Loops /\ iotask[t] # None
        BY <1>5, <3>3 DEF TypeOK, IO!TypeOK
      <4>2. k \in Locks
        BY <4>1, LoopLocksOne
      <4>3. u # Main
        BY <1>2, <1>5, <3>3, <4>1, <4>2
      <4>4. u \in IOThreads \cup Workers
        BY <3>1, <4>3 DEF Threads
      <4> QED
        BY <1>0, <3>3, <4>2, <4>4, OwnerGoesOn
    <3> QED
      BY <3>1, <3>2, <3>3
  <2> QED
    BY <2>2, <2>3
<1> QED
  BY <1>3, <1>4, <1>5 DEF StopWaitsFor

(* A Stop() that interrupted no critical section and missed no sleeper     *)
(* never waits in a circle, nor for a thread that sleeps or has ended.     *)
THEOREM NeverCircular == Spec => []NoCircle
BY TypeCorrect, OneStopCorrect, OwnersCorrect, OwnersShow, PTL

=============================================================================
