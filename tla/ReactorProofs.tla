--------------------------- MODULE ReactorProofs ---------------------------
(***************************************************************************)
(* For any number of clients, fds, loops and workers: the state of Reactor *)
(* keeps its types, and a reused fd never makes the two maps of the server *)
(* disagree or lets one connection's removal throw out another; a listed   *)
(* connection stays in both maps until it is disconnected or timed out.    *)
(***************************************************************************)
EXTENDS Reactor, TLAPS

(* Every update of the reactor keeps every variable in its type.           *)
THEOREM TypeCorrect == Spec => []TypeOK
<1>1. Init => TypeOK
  BY ReactorAssumption DEF Init, TypeOK, Stages, Building
<1>2. TypeOK /\ [Next]_vars => TypeOK'
  <2> SUFFICES ASSUME TypeOK, [Next]_vars PROVE TypeOK'
    OBVIOUS
  <2> USE DEF TypeOK, connVars, mapVars, loopVars, workVars
  <2>0. ASSUME NEW how \in Failures, Fail(how) PROVE TypeOK'
    BY <2>0 DEF Fail
  <2>1. ASSUME NEW c \in Conns, ClientSend(c) PROVE TypeOK'
    BY <2>1 DEF ClientSend
  <2>2. ASSUME NEW c \in Conns, GoIdle(c) PROVE TypeOK'
    BY <2>2 DEF GoIdle
  <2>3. ASSUME NEW c \in Conns, NEW how \in {"fin", "err"}, ClientGone(c, how)
        PROVE TypeOK'
    BY <2>3 DEF ClientGone
  <2>4. ASSUME NEW c \in Conns, Accept(c) PROVE TypeOK'
    <3>1. CASE Fail("addexit") \/ Fail("noloop")
      BY <3>1, <2>0 DEF Failures
    <3>2. CASE ~Fail("addexit") /\ ~Fail("noloop")
      <4>1. PICK f \in Fds : /\ fd' = [fd EXCEPT ![c] = f]
                             /\ stage' = [stage EXCEPT ![c] = "added"]
                             /\ intree' = intree \cup {c}
        BY <2>4, <3>2 DEF Accept
      <4>2. UNCHANGED <<status, disconnect_, idle, out, msgs, peer, mapVars,
                        loopVars, workVars>>
        BY <2>4, <3>2 DEF Accept
      <4> QED
        BY <4>1, <4>2 DEF Stages, Building
    <3> QED
      BY <3>1, <3>2
  <2>5. ASSUME NEW c \in Conns, Construct(c) PROVE TypeOK'
    BY <2>5 DEF Construct, Stages, Building
  <2>6. ASSUME NEW c \in Conns, ListInServer(c) PROVE TypeOK'
    BY <2>6 DEF ListInServer, Stages, Building
  <2>7. ASSUME NEW c \in Conns, ListInLoop(c) PROVE TypeOK'
    BY <2>7 DEF ListInLoop, Stages, Building
  <2>c. ASSUME NEW c \in Conns, Announce(c) PROVE TypeOK'
    BY <2>c DEF Announce, Stages, Building
  <2>8. ASSUME NEW l \in Loops, Ring(l) PROVE TypeOK'
    BY <2>8 DEF Ring
  <2>9. ASSUME NEW l \in Loops, Poll(l) PROVE TypeOK'
    BY <2>9 DEF Poll, Ready, Event
  <2>10. ASSUME NEW l \in Loops, NEW c \in Conns, DispatchDangling(l, c)
         PROVE TypeOK'
    BY <2>10, <2>0 DEF DispatchDangling, Failures
  <2>11. ASSUME NEW c \in Conns, CloseFails(c) PROVE TypeOK'
    BY <2>11, <2>0 DEF CloseFails, Failures
  <2>a. ASSUME NEW l \in Loops, NEW e, Dispatched(l, e)
         PROVE batch' \in [Loops -> SUBSET ((Conns \X {"in", "out", "err"})
                               \cup ({None} \X {"timer", "wake"}))]
    BY <2>a DEF Dispatched
  <2>b. ASSUME NEW c \in Conns, Close(c), UNCHANGED loopconns
         PROVE /\ disconnect_' \subseteq Conns /\ intree' \subseteq Conns
               /\ out' \subseteq Conns
               /\ serverconns' \in [Fds -> Conns \cup {None}]
               /\ loopconns' \in [Fds -> Conns \cup {None}]
    BY <2>b DEF Close
  <2>12. ASSUME NEW l \in Loops, NEW c \in Conns, ReadEof(l, c) PROVE TypeOK'
    <3>1. CASE CloseFails(c)
      BY <3>1, <2>11
    <3>2. CASE Close(c) /\ ~CloseFails(c)
      <4>1. msgs' \in [Conns -> Nat]
        BY <2>12, <3>2 DEF ReadEof
      <4> QED
        BY <2>12, <3>2, <4>1, <2>a, <2>b DEF ReadEof
    <3> QED
      BY <2>12, <3>1, <3>2 DEF ReadEof
  <2>13. ASSUME NEW l \in Loops, NEW c \in Conns, ReadMessages(l, c)
         PROVE TypeOK'
    BY <2>13 DEF ReadMessages, Dispatched
  <2>14. ASSUME NEW l \in Loops, NEW c \in Conns, WriteReplies(l, c)
         PROVE TypeOK'
    BY <2>14 DEF WriteReplies, Dispatched
  <2>15. ASSUME NEW l \in Loops, NEW c \in Conns, WriteFails(l, c)
         PROVE TypeOK'
    <3>1. CASE CloseFails(c) \/ Fail("sigpipe")
      BY <3>1, <2>11, <2>0 DEF Failures
    <3>2. CASE Close(c) /\ ~CloseFails(c) /\ ~Fail("sigpipe")
      BY <2>15, <3>2, <2>a, <2>b DEF WriteFails
    <3> QED
      BY <2>15, <3>1, <3>2 DEF WriteFails
  <2>16. ASSUME NEW l \in Loops, NEW c \in Conns, ErrorCallback(l, c)
         PROVE TypeOK'
    <3>1. CASE CloseFails(c)
      BY <3>1, <2>11
    <3>2. CASE Close(c) /\ ~CloseFails(c)
      BY <2>16, <3>2, <2>a, <2>b DEF ErrorCallback
    <3> QED
      BY <2>16, <3>1, <3>2 DEF ErrorCallback
  <2>17. ASSUME NEW l \in Loops, NEW c \in Conns, SendInLoop(l, c)
         PROVE TypeOK'
    BY <2>17, <2>0 DEF SendInLoop, Failures
  <2>18. ASSUME NEW l \in Loops, TimerEvent(l) PROVE TypeOK'
    BY <2>18 DEF TimerEvent, Dispatched
  <2>19. ASSUME NEW l \in Loops, NEW f \in Fds,
                SweepSkip(l, f) \/ SweepRemove(l, f)
         PROVE TypeOK'
    <3>1. CASE SweepSkip(l, f)
      BY <3>1 DEF SweepSkip
    <3>2. CASE SweepRemove(l, f)
      BY <3>2 DEF SweepRemove
    <3> QED
      BY <2>19, <3>1, <3>2
  <2>20. ASSUME NEW l \in Loops, SweepErase(l) \/ SweepDone(l) PROVE TypeOK'
    <3>1. CASE SweepErase(l)
      BY <3>1 DEF SweepErase
    <3>2. CASE SweepDone(l)
      BY <3>2 DEF SweepDone
    <3> QED
      BY <2>20, <3>1, <3>2
  <2>21. ASSUME NEW l \in Loops, WakeEvent(l) \/ DrainDone(l) PROVE TypeOK'
    <3>1. CASE WakeEvent(l)
      BY <3>1 DEF WakeEvent, Dispatched
    <3>2. CASE DrainDone(l)
      BY <3>2 DEF DrainDone
    <3> QED
      BY <2>21, <3>1, <3>2
  <2>22. ASSUME NEW w \in Workers, NEW c \in Conns, TakeJob(w, c)
         PROVE TypeOK'
    BY <2>22 DEF TakeJob
  <2>23. ASSUME NEW w \in Workers, CheckDisconnect(w) PROVE TypeOK'
    BY <2>23 DEF CheckDisconnect
  <2>24. ASSUME NEW w \in Workers, QueueInLoop(w) \/ FinishJob(w)
         PROVE TypeOK'
    <3>1. CASE QueueInLoop(w)
      <4>1. PICK s \in {"idle", "send", "queue", "return"},
                 d \in Conns \cup {None} : wk[w] = <<s, d>>
        BY DEF TypeOK
      <4>2. /\ sends' = [sends EXCEPT ![d] = @ + 1]
            /\ wk' = [wk EXCEPT ![w] = <<"return", d>>]
        BY <3>1, <4>1 DEF QueueInLoop
      <4>3. sends' \in [Conns -> Nat]
        <5>1. CASE d = None
          BY <4>2, <5>1, ReactorAssumption
        <5>2. CASE d \in Conns
          BY <4>2, <5>2
        <5> QED
          BY <5>1, <5>2
      <4>4. wk' \in [Workers -> {"idle", "send", "queue", "return"}
                                 \X (Conns \cup {None})]
        BY <4>1, <4>2
      <4> QED
        BY <3>1, <4>3, <4>4 DEF QueueInLoop
    <3>2. CASE FinishJob(w)
      BY <3>2 DEF FinishJob
    <3> QED
      BY <2>24, <3>1, <3>2
  <2>25. CASE UNCHANGED vars
    BY <2>25 DEF vars
  <2> QED
    BY <2>1, <2>2, <2>3, <2>4, <2>5, <2>6, <2>7, <2>8, <2>9, <2>10, <2>12,
       <2>13, <2>14, <2>15, <2>16, <2>17, <2>18, <2>19, <2>20, <2>21, <2>22,
       <2>23, <2>24, <2>25, <2>c
    DEF Next, Main, IOLoop, Worker, Dead
<1> QED
  BY <1>1, <1>2, PTL DEF Spec

---------------------------------------------------------------------------
(* The strengthening: a referenced connection has been accepted, a map     *)
(* entry names its own fd, and no two referenced connections share one.    *)
(* MapsAgree alone is not inductive: it does not say that the fd given out *)
(* by accept4 is not one that a map still holds for an older connection.   *)
EntriesOwn ==
    /\ \A f \in Fds : serverconns[f] # None =>
           /\ fd[serverconns[f]] = f
           /\ stage[serverconns[f]] \in {"listed", "announced", "served"}
    /\ \A f \in Fds : loopconns[f] # None =>
           /\ fd[loopconns[f]] = f
           /\ stage[loopconns[f]] \in {"announced", "served"}

AliveAccepted == \A c \in Conns : Alive(c) => stage[c] # "waiting"

FdsUnique ==
    \A c, d \in Conns : Alive(c) /\ Alive(d) /\ fd[c] = fd[d] => c = d

Held == EntriesOwn /\ AliveAccepted /\ FdsUnique

LEMMA HeldMapsAgree == TypeOK /\ Held => MapsAgree
  BY DEF TypeOK, Held, EntriesOwn, FdsUnique, MapsAgree, Alive

LEMMA InitHeld == Init => Held
  BY ReactorAssumption
  DEF Init, Held, EntriesOwn, AliveAccepted, FdsUnique, Alive, Building

(* A step that makes no connection referenced, accepts none and gives out  *)
(* no fd keeps the parts of Held about referenced connections.             *)
LEMMA FewerHeld ==
  ASSUME TypeOK, AliveAccepted, FdsUnique, fd' = fd,
         \A c \in Conns : Alive(c)' => Alive(c),
         \A c \in Conns : stage[c] # "waiting" => stage'[c] # "waiting"
  PROVE  AliveAccepted' /\ FdsUnique'
  BY DEF AliveAccepted, FdsUnique

(* A step that leaves alone everything that refers to a connection.        *)
LEMMA SameHeld ==
  ASSUME TypeOK, Held, UNCHANGED <<stage, fd, serverconns, loopconns, jobs>>,
         \A w \in Workers : wk'[w][2] = wk[w][2]
  PROVE  Held'
<1>1. \A c \in Conns : Alive(c)' => Alive(c)
  BY DEF Alive
<1>2. AliveAccepted' /\ FdsUnique'
  BY <1>1, FewerHeld DEF Held
<1>3. EntriesOwn'
  BY DEF Held, EntriesOwn
<1> QED
  BY <1>2, <1>3 DEF Held

(* closecallback and errorcallback erase one entry.                        *)
LEMMA CloseHeld ==
  ASSUME TypeOK, Held, NEW c \in Conns, Close(c),
         UNCHANGED <<stage, fd, loopconns, workVars>>
  PROVE  Held'
<1>1. \A f \in Fds : serverconns'[f] \in {serverconns[f], None}
  BY DEF Close, TypeOK
<1>2. \A d \in Conns : Alive(d)' => Alive(d)
  BY <1>1, ReactorAssumption DEF Alive, workVars
<1>3. AliveAccepted' /\ FdsUnique'
  BY <1>2, FewerHeld DEF Held
<1>4. EntriesOwn'
  BY <1>1 DEF Held, EntriesOwn
<1> QED
  BY <1>3, <1>4 DEF Held

LEMMA FailHeld == ASSUME TypeOK, Held, NEW how, Fail(how) PROVE Held'
  BY SameHeld DEF Fail, connVars, mapVars, workVars

LEMMA CloseFailsHeld ==
  ASSUME TypeOK, Held, NEW c, CloseFails(c) PROVE Held'
  BY FailHeld DEF CloseFails

(* The main thread: accept4 gives out a number no referenced connection    *)
(* has, and a connection is listed under its own.                          *)
LEMMA MainHeld ==
  ASSUME TypeOK, Held, NEW c \in Conns,
         \/ Accept(c) \/ Construct(c) \/ ListInServer(c) \/ ListInLoop(c)
         \/ Announce(c)
  PROVE  Held'
<1> USE DEF mapVars, workVars
<1>1. ASSUME NEW f \in Fds, ~FdInUse(f), fd' = [fd EXCEPT ![c] = f],
             stage[c] = "waiting", stage' = [stage EXCEPT ![c] = "added"],
             UNCHANGED <<mapVars, workVars>>
      PROVE  Held'
  <2>1. ~Alive(c)
    BY <1>1 DEF Held, AliveAccepted
  <2>2. \A d \in Conns : d # c => (Alive(d)' <=> Alive(d))
    BY <1>1 DEF Alive, TypeOK
  <2>3. \A d \in Conns : d # c => fd'[d] = fd[d] /\ stage'[d] = stage[d]
    BY <1>1 DEF TypeOK
  <2>4. fd'[c] = f /\ stage'[c] = "added"
    BY <1>1 DEF TypeOK
  <2>5. AliveAccepted'
    BY <2>2, <2>3, <2>4 DEF Held, AliveAccepted
  <2>6. FdsUnique'
    BY <1>1, <2>2, <2>3, <2>4 DEF Held, FdsUnique, FdInUse
  <2>7. EntriesOwn'
    <3>1. \A g \in Fds : serverconns[g] # c /\ loopconns[g] # c
      BY <2>1 DEF Alive
    <3> QED
      BY <1>1, <2>3, <3>1 DEF Held, EntriesOwn, TypeOK
  <2> QED
    BY <2>5, <2>6, <2>7 DEF Held
<1>2. CASE Accept(c)
  BY <1>2, <1>1, FailHeld DEF Accept
<1>3. CASE Construct(c)
  <2>1. \A d \in Conns : Alive(d)' => Alive(d)
    BY <1>3 DEF Construct, Alive, Building, TypeOK
  <2>2. AliveAccepted' /\ FdsUnique'
    BY <1>3, <2>1, FewerHeld DEF Construct, Held, TypeOK
  <2>3. EntriesOwn'
    BY <1>3 DEF Construct, Held, EntriesOwn, TypeOK
  <2> QED
    BY <2>2, <2>3 DEF Held
<1>4. CASE ListInServer(c)
  <2>1. \A d \in Conns : Alive(d)' => Alive(d)
    BY <1>4 DEF ListInServer, Alive, Building, TypeOK
  <2>2. AliveAccepted' /\ FdsUnique'
    BY <1>4, <2>1, FewerHeld DEF ListInServer, Held, TypeOK
  <2>3. EntriesOwn'
    BY <1>4 DEF ListInServer, Held, EntriesOwn, TypeOK
  <2> QED
    BY <2>2, <2>3 DEF Held
<1>5. CASE ListInLoop(c)
  <2>1. \A d \in Conns : Alive(d)' => Alive(d)
    BY <1>5 DEF ListInLoop, Alive, Building, TypeOK
  <2>2. AliveAccepted' /\ FdsUnique'
    BY <1>5, <2>1, FewerHeld DEF ListInLoop, Held, TypeOK
  <2>3. EntriesOwn'
    BY <1>5 DEF ListInLoop, Held, EntriesOwn, TypeOK
  <2> QED
    BY <2>2, <2>3 DEF Held
<1>6. CASE Announce(c)
  <2>1. \A d \in Conns : Alive(d)' => Alive(d)
    BY <1>6 DEF Announce, Alive, Building, TypeOK
  <2>2. AliveAccepted' /\ FdsUnique'
    BY <1>6, <2>1, FewerHeld DEF Announce, Held, TypeOK
  <2>3. EntriesOwn'
    BY <1>6 DEF Announce, Held, EntriesOwn, TypeOK
  <2> QED
    BY <2>2, <2>3 DEF Held
<1> QED
  BY <1>2, <1>3, <1>4, <1>5, <1>6

(* The IO threads: dispatching, and the sweep that erases from both maps.  *)
LEMMA LoopHeld ==
  ASSUME TypeOK, Held, NEW l \in Loops, IOLoop(l) PROVE Held'
<1> USE DEF connVars, mapVars, loopVars, workVars
<1>1. ASSUME NEW c \in Conns, DispatchDangling(l, c) PROVE Held'
  BY <1>1, FailHeld DEF DispatchDangling
<1>2. ASSUME NEW c \in Conns, ReadEof(l, c) PROVE Held'
  BY <1>2, CloseHeld, CloseFailsHeld DEF ReadEof
<1>3. ASSUME NEW c \in Conns, WriteFails(l, c) PROVE Held'
  BY <1>3, CloseHeld, CloseFailsHeld, FailHeld DEF WriteFails
<1>4. ASSUME NEW c \in Conns, ErrorCallback(l, c) PROVE Held'
  BY <1>4, CloseHeld, CloseFailsHeld DEF ErrorCallback
<1>5. ASSUME NEW c \in Conns, SendInLoop(l, c) PROVE Held'
  BY <1>5, FailHeld, SameHeld DEF SendInLoop
<1>6. ASSUME NEW c \in Conns, ReadMessages(l, c) PROVE Held'
  <2>1. \A d \in Conns : Alive(d)' => Alive(d)
    BY <1>6 DEF ReadMessages, Alive, TypeOK
  <2>2. AliveAccepted' /\ FdsUnique'
    BY <1>6, <2>1, FewerHeld DEF ReadMessages, Held
  <2>3. EntriesOwn'
    BY <1>6 DEF ReadMessages, Held, EntriesOwn
  <2> QED
    BY <2>2, <2>3 DEF Held
<1>7. ASSUME NEW c \in Conns, WriteReplies(l, c) PROVE Held'
  BY <1>7, SameHeld DEF WriteReplies
<1>8. ASSUME NEW f \in Fds, SweepSkip(l, f) PROVE Held'
  BY <1>8, SameHeld DEF SweepSkip
<1>9. ASSUME NEW f \in Fds, SweepRemove(l, f) PROVE Held'
  <2>1. \A g \in Fds : serverconns'[g] \in {serverconns[g], None}
    BY <1>9 DEF SweepRemove, TypeOK
  <2>2. \A d \in Conns : Alive(d)' => Alive(d)
    BY <1>9, <2>1, ReactorAssumption DEF SweepRemove, Alive
  <2>3. AliveAccepted' /\ FdsUnique'
    BY <1>9, <2>2, FewerHeld DEF SweepRemove, Held
  <2>4. EntriesOwn'
    BY <1>9, <2>1 DEF SweepRemove, Held, EntriesOwn
  <2> QED
    BY <2>3, <2>4 DEF Held
<1>10. ASSUME SweepErase(l) PROVE Held'
  <2>1. \A g \in Fds : loopconns'[g] \in {loopconns[g], None}
    BY <1>10 DEF SweepErase, TypeOK
  <2>2. \A d \in Conns : Alive(d)' => Alive(d)
    BY <1>10, <2>1, ReactorAssumption DEF SweepErase, Alive
  <2>3. AliveAccepted' /\ FdsUnique'
    BY <1>10, <2>2, FewerHeld DEF SweepErase, Held
  <2>4. EntriesOwn'
    BY <1>10, <2>1 DEF SweepErase, Held, EntriesOwn
  <2> QED
    BY <2>3, <2>4 DEF Held
<1>11. ASSUME Poll(l) \/ TimerEvent(l) \/ SweepDone(l) \/ WakeEvent(l)
                 \/ DrainDone(l)
       PROVE Held'
  BY <1>11, SameHeld DEF Poll, TimerEvent, SweepDone, WakeEvent, DrainDone
<1> QED
  BY <1>1, <1>2, <1>3, <1>4, <1>5, <1>6, <1>7, <1>8, <1>9, <1>10, <1>11
  DEF IOLoop

(* The worker threads: a task keeps the connection it was queued with.     *)
LEMMA WorkerHeld ==
  ASSUME TypeOK, Held, NEW w \in Workers, Worker(w) PROVE Held'
<1> USE DEF connVars, mapVars, loopVars
<1>1. ASSUME NEW c \in Conns, TakeJob(w, c) PROVE Held'
  <2>1. \A d \in Conns : Alive(d)' => Alive(d)
    BY <1>1 DEF TakeJob, Alive, TypeOK
  <2>2. AliveAccepted' /\ FdsUnique'
    BY <1>1, <2>1, FewerHeld DEF TakeJob, Held
  <2>3. EntriesOwn'
    BY <1>1 DEF TakeJob, Held, EntriesOwn
  <2> QED
    BY <2>2, <2>3 DEF Held
<1>2. CASE CheckDisconnect(w)
  BY <1>2, SameHeld DEF CheckDisconnect, TypeOK
<1>3. CASE QueueInLoop(w)
  BY <1>3, SameHeld DEF QueueInLoop, TypeOK
<1>4. CASE FinishJob(w)
  <2>1. \A d \in Conns : Alive(d)' => Alive(d)
    BY <1>4, ReactorAssumption DEF FinishJob, Alive, TypeOK
  <2>2. AliveAccepted' /\ FdsUnique'
    BY <1>4, <2>1, FewerHeld DEF FinishJob, Held
  <2>3. EntriesOwn'
    BY <1>4 DEF FinishJob, Held, EntriesOwn
  <2> QED
    BY <2>2, <2>3 DEF Held
<1> QED
  BY <1>1, <1>2, <1>3, <1>4 DEF Worker

LEMMA StepHeld == TypeOK /\ Held /\ [Next]_vars => Held'
<1> SUFFICES ASSUME TypeOK, Held, [Next]_vars PROVE Held'
  OBVIOUS
<1>1. ASSUME NEW c \in Conns,
             \/ ClientSend(c) \/ GoIdle(c)
             \/ \E how \in {"fin", "err"} : ClientGone(c, how)
      PROVE  Held'
  BY <1>1, SameHeld DEF ClientSend, GoIdle, ClientGone, mapVars, workVars
<1>2. ASSUME NEW l \in Loops, Ring(l) PROVE Held'
  BY <1>2, SameHeld DEF Ring, connVars, mapVars, workVars
<1>3. CASE UNCHANGED vars
  BY <1>3, SameHeld DEF vars, connVars, mapVars, workVars
<1> QED
  BY <1>1, <1>2, <1>3, MainHeld, LoopHeld, WorkerHeld DEF Next, Main, Dead

THEOREM HeldCorrect == Spec => []Held
  BY InitHeld, StepHeld, TypeCorrect, PTL DEF Spec

(* However fds are reused, the maps of TcpServer and of the loops never    *)
(* name different connections under one fd.                                *)
THEOREM MapsAlwaysAgree == Spec => []MapsAgree
  BY HeldMapsAgree, HeldCorrect, TypeCorrect, PTL

LEMMA CloseRemovesOwn ==
  ASSUME TypeOK, Held, NEW c \in Conns, Alive(c), Close(c) PROVE OwnRemoval
<1>1. fd[c] \in Fds /\ stage[c] # "waiting"
  BY DEF TypeOK, Held, AliveAccepted
<1>2. \A f \in Fds : f # fd[c] => serverconns'[f] = serverconns[f]
  BY DEF Close, TypeOK
<1>3. serverconns[fd[c]] \in {c, None}
  BY <1>1 DEF Held, EntriesOwn, FdsUnique, Alive, TypeOK
<1> QED
  BY <1>1, <1>2, <1>3 DEF Close, OwnRemoval

LEMMA StepRemovesOwn == TypeOK /\ Held /\ [Next]_vars => OwnRemoval
<1> SUFFICES ASSUME TypeOK, Held, [Next]_vars PROVE OwnRemoval
  OBVIOUS
<1> USE DEF connVars, mapVars, loopVars, workVars
<1>1. CASE UNCHANGED serverconns
  BY <1>1 DEF OwnRemoval
<1>2. ASSUME NEW c \in Conns, ListInServer(c) PROVE OwnRemoval
  <2>1. Alive(c) /\ stage[c] = "bound"
    BY <1>2 DEF ListInServer, Alive, Building
  <2>2. fd[c] \in Fds
    BY <2>1 DEF TypeOK
  <2>3. serverconns[fd[c]] = None
    BY <2>1, <2>2 DEF Held, EntriesOwn, FdsUnique, Alive, TypeOK
  <2> QED
    BY <1>2, <2>2, <2>3 DEF ListInServer, OwnRemoval, TypeOK
<1>3. ASSUME NEW l \in Loops, NEW c \in Conns,
             ReadEof(l, c) \/ WriteFails(l, c) \/ ErrorCallback(l, c)
      PROVE  OwnRemoval
  <2>1. Alive(c) /\ (Close(c) \/ UNCHANGED serverconns)
    BY <1>3 DEF ReadEof, WriteFails, ErrorCallback, CloseFails, Fail
  <2> QED
    BY <2>1, CloseRemovesOwn DEF OwnRemoval
<1>4. ASSUME NEW l \in Loops, NEW f \in Fds, SweepRemove(l, f)
      PROVE  OwnRemoval
  <2>1. loopconns[f] \in idle /\ loopconns[f] \in Conns
    BY <1>4 DEF SweepRemove, TypeOK
  <2>2. serverconns[f] \in {loopconns[f], None}
    BY <2>1, HeldMapsAgree, ReactorAssumption DEF MapsAgree, TypeOK
  <2> QED
    BY <1>4, <2>1, <2>2 DEF SweepRemove, OwnRemoval, TypeOK
<1>5. ASSUME NEW c \in Conns,
             \/ ClientSend(c) \/ GoIdle(c)
             \/ \E how \in {"fin", "err"} : ClientGone(c, how)
             \/ Accept(c) \/ Construct(c) \/ ListInLoop(c) \/ Announce(c)
      PROVE  UNCHANGED serverconns
  BY <1>5 DEF ClientSend, GoIdle, ClientGone, Accept, Construct, ListInLoop,
              Announce, Fail
<1>6. ASSUME NEW l \in Loops, NEW c \in Conns,
             \/ DispatchDangling(l, c) \/ ReadMessages(l, c)
             \/ WriteReplies(l, c) \/ SendInLoop(l, c)
      PROVE  UNCHANGED serverconns
  BY <1>6 DEF DispatchDangling, ReadMessages, WriteReplies, SendInLoop, Fail
<1>7. ASSUME NEW l \in Loops,
             \/ Ring(l) \/ Poll(l) \/ TimerEvent(l) \/ SweepErase(l)
             \/ SweepDone(l) \/ WakeEvent(l) \/ DrainDone(l)
             \/ \E f \in Fds : SweepSkip(l, f)
      PROVE  UNCHANGED serverconns
  BY <1>7 DEF Ring, Poll, TimerEvent, SweepErase, SweepDone, WakeEvent,
              DrainDone, SweepSkip
<1>8. ASSUME NEW w \in Workers, Worker(w) PROVE UNCHANGED serverconns
  BY <1>8 DEF Worker, TakeJob, CheckDisconnect, QueueInLoop, FinishJob
<1>9. CASE UNCHANGED vars
  BY <1>1, <1>9 DEF vars
<1> QED
  BY <1>1, <1>2, <1>3, <1>4, <1>5, <1>6, <1>7, <1>8, <1>9
  DEF Next, Main, IOLoop, Dead

(* However fds are reused and the threads interleave, TcpServer::conns_    *)
(* only ever loses connections that are disconnected or idle.              *)
THEOREM RemovalsAreOwn == Spec => RemovesOnlyItsOwn
<1>1. Spec => [][TypeOK /\ Held /\ [Next]_vars]_vars
  BY TypeCorrect, HeldCorrect, PTL DEF Spec
<1> QED
  BY <1>1, StepRemovesOwn, PTL DEF RemovesOnlyItsOwn
---------------------------------------------------------------------------
(* Whose an IO thread's bookkeeping is: it sweeps fds of its own loop only, *)
(* is between two erasures only while it sweeps, and its ready list names  *)
(* accepted connections of its own.                                        *)
LoopsOwn ==
    \A l \in Loops :
        /\ victim[l] # None => lpc[l] = "sweep" /\ victim[l] % ThreadNum = l
        /\ \A f \in todo[l] : f % ThreadNum = l
        /\ \A c \in Conns, ev \in {"in", "out", "err"} :
              <<c, ev>> \in batch[l] => stage[c] # "waiting" /\ LoopOf(c) = l

(* A step that adds nothing to that bookkeeping.                           *)
LEMMA LessOwn ==
  ASSUME TypeOK, LoopsOwn,
         \A l \in Loops :
            /\ victim'[l] \in {victim[l], None}
            /\ lpc'[l] = lpc[l] \/ victim'[l] = None
            /\ todo'[l] \subseteq todo[l] /\ batch'[l] \subseteq batch[l],
         \A c \in Conns : stage[c] # "waiting" =>
                             stage'[c] # "waiting" /\ fd'[c] = fd[c]
  PROVE  LoopsOwn'
BY DEF LoopsOwn, LoopOf

LEMMA StepLoopsOwn == TypeOK /\ Held /\ LoopsOwn /\ [Next]_vars => LoopsOwn'
<1> SUFFICES ASSUME TypeOK, Held, LoopsOwn, [Next]_vars PROVE LoopsOwn'
  OBVIOUS
<1> USE DEF connVars, mapVars, loopVars, workVars
<1>1. ASSUME UNCHANGED <<stage, fd, lpc, victim, todo>>,
             \A l \in Loops : batch'[l] \subseteq batch[l]
      PROVE  LoopsOwn'
  BY <1>1, LessOwn
<1>2. ASSUME NEW c \in Conns,
             \/ ClientSend(c) \/ GoIdle(c)
             \/ \E how \in {"fin", "err"} : ClientGone(c, how)
      PROVE  LoopsOwn'
  BY <1>1, <1>2 DEF ClientSend, GoIdle, ClientGone
<1>3. ASSUME NEW c \in Conns,
             Accept(c) \/ Construct(c) \/ ListInServer(c) \/ Announce(c)
      PROVE  LoopsOwn'
  <2>1. UNCHANGED <<lpc, victim, todo, batch>>
    BY <1>3 DEF Accept, Construct, ListInServer, Announce, Fail
  <2>2. \A d \in Conns : stage[d] # "waiting" =>
                            stage'[d] # "waiting" /\ fd'[d] = fd[d]
    BY <1>3 DEF Accept, Construct, ListInServer, Announce, Fail, TypeOK
  <2> QED
    BY <2>1, <2>2, LessOwn
<1>4. ASSUME NEW c \in Conns, ListInLoop(c) PROVE LoopsOwn'
  <2>1. /\ UNCHANGED <<fd, lpc, victim, batch>> /\ stage[c] = "listed"
        /\ stage' = [stage EXCEPT ![c] = "announced"]
    BY <1>4 DEF ListInLoop
  <2>2. \A d \in Conns : stage[d] # "waiting" => stage'[d] # "waiting"
    BY <2>1 DEF TypeOK
  <2>3. \A l \in Loops : \A f \in todo'[l] : f \in todo[l] \/ f % ThreadNum = l
    <3>1. CASE lpc[LoopOf(c)] = "sweep"
      <4>1. PICK seen \in SUBSET {f \in Fds : f % ThreadNum = LoopOf(c)
                                                /\ loopconns'[f] # None} :
                    todo' = [todo EXCEPT ![LoopOf(c)] = seen]
        BY <1>4, <3>1 DEF ListInLoop
      <4>2. \A f \in seen : f % ThreadNum = LoopOf(c)
        OBVIOUS
      <4> QED
        BY <4>1, <4>2 DEF TypeOK
    <3>2. CASE lpc[LoopOf(c)] # "sweep"
      BY <1>4, <3>2 DEF ListInLoop
    <3> QED
      BY <3>1, <3>2
  <2> QED
    BY <2>1, <2>2, <2>3 DEF LoopsOwn, LoopOf
<1>5. ASSUME NEW l \in Loops, NEW c \in Conns,
             \/ DispatchDangling(l, c) \/ ReadEof(l, c) \/ ReadMessages(l, c)
             \/ WriteReplies(l, c) \/ WriteFails(l, c) \/ ErrorCallback(l, c)
             \/ SendInLoop(l, c)
      PROVE  LoopsOwn'
  <2>1. UNCHANGED <<stage, fd, lpc, victim, todo>>
    BY <1>5 DEF DispatchDangling, ReadEof, ReadMessages, WriteReplies,
                WriteFails, ErrorCallback, SendInLoop, CloseFails, Fail
  <2>2. batch' = batch \/ \E e : Dispatched(l, e)
    BY <1>5 DEF DispatchDangling, ReadEof, ReadMessages, WriteReplies,
                WriteFails, ErrorCallback, SendInLoop, CloseFails, Fail
  <2>3. \A k \in Loops : batch'[k] \subseteq batch[k]
    BY <2>2 DEF Dispatched, TypeOK
  <2> QED
    BY <1>1, <2>1, <2>3
<1>6. ASSUME NEW l \in Loops, Poll(l) PROVE LoopsOwn'
  <2>1. /\ UNCHANGED <<stage, fd, lpc, victim, todo>>
        /\ batch' = [batch EXCEPT ![l] = Ready(l)]
    BY <1>6 DEF Poll
  <2>2. \A c \in Conns, ev \in {"in", "out", "err"} : <<c, ev>> \in Ready(l)
            => stage[c] # "waiting" /\ LoopOf(c) = l
    BY ReactorAssumption DEF Ready, Held, AliveAccepted
  <2> QED
    BY <2>1, <2>2 DEF LoopsOwn, LoopOf, TypeOK
<1>7. ASSUME NEW l \in Loops, TimerEvent(l) PROVE LoopsOwn'
  <2>1. /\ UNCHANGED <<stage, fd, victim>> /\ Dispatched(l, <<None, "timer">>)
        /\ lpc' = [lpc EXCEPT ![l] = "sweep"]
        /\ todo' = [todo EXCEPT ![l] =
                      {f \in Fds : f % ThreadNum = l /\ loopconns[f] # None}]
    BY <1>7 DEF TimerEvent
  <2>2. \A k \in Loops : /\ batch'[k] \subseteq batch[k]
                         /\ lpc'[k] \in {lpc[k], "sweep"}
                         /\ \A f \in todo'[k] : f \in todo[k] \/ f % ThreadNum = k
    BY <2>1 DEF Dispatched, TypeOK
  <2> QED
    BY <2>1, <2>2 DEF LoopsOwn, LoopOf
<1>8. ASSUME NEW l \in Loops, NEW f \in Fds, SweepSkip(l, f) PROVE LoopsOwn'
  BY <1>8, LessOwn DEF SweepSkip, TypeOK
<1>9. ASSUME NEW l \in Loops, NEW f \in Fds, SweepRemove(l, f) PROVE LoopsOwn'
  BY <1>9 DEF SweepRemove, LoopsOwn, LoopOf, TypeOK
<1>10. ASSUME NEW l \in Loops, SweepErase(l) \/ SweepDone(l) PROVE LoopsOwn'
  BY <1>10, LessOwn DEF SweepErase, SweepDone, TypeOK
<1>11. ASSUME NEW l \in Loops, WakeEvent(l) \/ DrainDone(l) PROVE LoopsOwn'
  <2>1. UNCHANGED <<stage, fd, victim, todo>> /\ lpc[l] # "sweep"
    BY <1>11 DEF WakeEvent, DrainDone, Dispatching
  <2>2. \A k \in Loops : /\ batch'[k] \subseteq batch[k]
                         /\ k # l => lpc'[k] = lpc[k]
    BY <1>11 DEF WakeEvent, DrainDone, Dispatched, TypeOK
  <2>3. victim[l] = None
    BY <2>1 DEF LoopsOwn
  <2> QED
    BY <2>1, <2>2, <2>3, LessOwn
<1>12. ASSUME \/ \E l \in Loops : Ring(l)
              \/ \E w \in Workers : Worker(w)
              \/ UNCHANGED vars
       PROVE  LoopsOwn'
  BY <1>1, <1>12 DEF Ring, Worker, TakeJob, CheckDisconnect, QueueInLoop,
                     FinishJob, vars
<1> QED
  BY <1>2, <1>3, <1>4, <1>5, <1>6, <1>7, <1>8, <1>9, <1>10, <1>11, <1>12
  DEF Next, Main, IOLoop, Dead

LEMMA LoopsOwnCorrect == Spec => []LoopsOwn
<1>1. Init => LoopsOwn
  BY DEF Init, LoopsOwn
<1> QED
  BY <1>1, StepLoopsOwn, HeldCorrect, TypeCorrect, PTL DEF Spec

---------------------------------------------------------------------------
(* No entry of the maps has the fd of a connection that the main thread is *)
(* still to insert there.                                                  *)
LEMMA EntryIs ==
  ASSUME TypeOK, Held, NEW c \in Conns, stage[c] \in {"bound", "listed"}
  PROVE  /\ serverconns[fd[c]] \in {c, None}
         /\ loopconns[fd[c]] = None
         /\ fd[c] \in Fds
<1>1. fd[c] \in Fds /\ Alive(c)
  BY DEF TypeOK, Alive, Building
<1>2. serverconns[fd[c]] \in {c, None}
  BY <1>1 DEF Held, EntriesOwn, FdsUnique, Alive, TypeOK
<1>3. loopconns[fd[c]] \in {c, None}
  BY <1>1 DEF Held, EntriesOwn, FdsUnique, Alive, TypeOK
<1>4. loopconns[fd[c]] # None
         => stage[loopconns[fd[c]]] \in {"announced", "served"}
  BY <1>1 DEF Held, EntriesOwn
<1>5. stage[c] \notin {"announced", "served"} /\ c # None
  BY ReactorAssumption
<1>6. loopconns[fd[c]] # c
  BY <1>4, <1>5
<1> QED
  BY <1>1, <1>2, <1>3, <1>6

(* SweepFinds is not inductive: the entry the sweep erases from the loop's *)
(* conns_ must be gone from TcpServer::conns_ by then, and the main thread *)
(* must not have listed another connection under its number in between.    *)
Swept ==
    \A l \in Loops : victim[l] # None =>
        serverconns[victim[l]] = None /\ loopconns[victim[l]] # None

(* A step that erases from TcpServer::conns_, or from none of the maps.    *)
LEMMA FewerFound ==
  ASSUME SweepFinds, Swept, UNCHANGED <<loopconns, victim>>,
         \A f \in Fds : serverconns'[f] \in {serverconns[f], None},
         \A c \in Conns : stage[c] = "listed" => stage'[c] = "listed",
         victim \in [Loops -> Fds \cup {None}],
         serverconns \in [Fds -> Conns \cup {None}]
  PROVE  SweepFinds' /\ Swept'
<1>1. SweepFinds'
  BY DEF SweepFinds
<1>2. Swept'
  BY DEF Swept
<1> QED
  BY <1>1, <1>2

(* The insertions of the main thread: the fd of the connection is in no    *)
(* entry of a loop, and hence nothing a sweep is between the erasures of.  *)
LEMMA MainFound ==
  ASSUME TypeOK, Held, SweepFinds, Swept, NEW c \in Conns,
         ListInServer(c) \/ ListInLoop(c)
  PROVE  SweepFinds' /\ Swept'
<1>1. /\ stage[c] \in {"bound", "listed"}
      /\ UNCHANGED <<fd, victim>>
  BY DEF ListInServer, ListInLoop, loopVars
<1>2. /\ serverconns[fd[c]] \in {c, None}
      /\ loopconns[fd[c]] = None
      /\ fd[c] \in Fds
  BY <1>1, EntryIs
<1>3. \A l \in Loops : victim[l] # fd[c]
  BY <1>2, ReactorAssumption DEF Swept
<1>4. CASE ListInServer(c)
  <2>1. /\ serverconns' = [serverconns EXCEPT ![fd[c]] = c]
        /\ stage' = [stage EXCEPT ![c] = "listed"]
        /\ UNCHANGED loopconns
    BY <1>4 DEF ListInServer
  <2>2. serverconns'[fd[c]] = c /\ stage'[c] = "listed"
    BY <2>1, <1>2 DEF TypeOK
  <2>3. \A f \in Fds : f # fd[c] => serverconns'[f] = serverconns[f]
    BY <2>1 DEF TypeOK
  <2>4. \A d \in Conns : stage[d] = "listed" => stage'[d] = "listed"
    BY <2>1 DEF TypeOK
  <2>5. SweepFinds'
    BY <2>1, <2>2, <2>3, <2>4 DEF SweepFinds, TypeOK
  <2>6. Swept'
    BY <1>1, <1>3, <2>1, <2>3 DEF Swept, TypeOK
  <2> QED
    BY <2>5, <2>6
<1>5. CASE ListInLoop(c)
  <2>1. /\ loopconns' = [loopconns EXCEPT ![fd[c]] = c]
        /\ stage' = [stage EXCEPT ![c] = "announced"]
        /\ UNCHANGED serverconns
    BY <1>5 DEF ListInLoop
  <2>2. loopconns'[fd[c]] = c
    BY <2>1, <1>2 DEF TypeOK
  <2>3. \A f \in Fds : f # fd[c] => loopconns'[f] = loopconns[f]
    BY <2>1 DEF TypeOK
  <2>4. \A d \in Conns : d # c => stage'[d] = stage[d]
    BY <2>1 DEF TypeOK
  <2>5. \A f \in Fds : serverconns[f] = c => f = fd[c]
    BY ReactorAssumption DEF Held, EntriesOwn
  <2>6. SweepFinds'
    BY <1>2, <2>1, <2>2, <2>3, <2>4, <2>5 DEF SweepFinds, TypeOK
  <2>7. Swept'
    BY <1>1, <1>3, <2>1, <2>3 DEF Swept, TypeOK
  <2> QED
    BY <2>6, <2>7
<1> QED
  BY <1>4, <1>5

(* The sweep: one loop's two erasures, and nobody else's are of its fds.   *)
LEMMA SweepFound ==
  ASSUME TypeOK, LoopsOwn, SweepFinds, Swept, NEW l \in Loops,
         SweepErase(l) \/ \E f \in Fds : SweepRemove(l, f)
  PROVE  SweepFinds' /\ Swept'
<1>1. ASSUME NEW f \in Fds, SweepRemove(l, f) PROVE SweepFinds' /\ Swept'
  <2>1. /\ loopconns[f] \in idle
        /\ serverconns' = [serverconns EXCEPT ![f] = None]
        /\ victim' = [victim EXCEPT ![l] = f]
        /\ UNCHANGED <<stage, loopconns>>
    BY <1>1 DEF SweepRemove, connVars
  <2>2. loopconns[f] # None
    BY <2>1, ReactorAssumption DEF TypeOK
  <2>3. /\ serverconns'[f] = None
        /\ \A g \in Fds : g # f => serverconns'[g] = serverconns[g]
    BY <2>1 DEF TypeOK
  <2>4. victim'[l] = f /\ \A k \in Loops : k # l => victim'[k] = victim[k]
    BY <2>1 DEF TypeOK
  <2>5. SweepFinds'
    BY <2>1, <2>3 DEF SweepFinds
  <2>6. Swept'
    BY <2>1, <2>2, <2>3, <2>4 DEF Swept, TypeOK
  <2> QED
    BY <2>5, <2>6
<1>2. CASE SweepErase(l)
  <2>1. /\ victim[l] # None
        /\ loopconns' = [loopconns EXCEPT ![victim[l]] = None]
        /\ victim' = [victim EXCEPT ![l] = None]
        /\ UNCHANGED <<stage, serverconns>>
    BY <1>2 DEF SweepErase, connVars
  <2>2. victim[l] \in Fds /\ serverconns[victim[l]] = None
    BY <2>1 DEF Swept, TypeOK
  <2>3. \A g \in Fds : g # victim[l] => loopconns'[g] = loopconns[g]
    BY <2>1 DEF TypeOK
  <2>4. victim'[l] = None /\ \A k \in Loops : k # l => victim'[k] = victim[k]
    BY <2>1 DEF TypeOK
  <2>5. \A k \in Loops : k # l => victim[k] = None \/ victim[k] # victim[l]
    BY <2>1 DEF LoopsOwn
  <2>6. SweepFinds'
    BY <2>1, <2>2, <2>3 DEF SweepFinds
  <2>7. Swept'
    BY <2>1, <2>3, <2>4, <2>5 DEF Swept, TypeOK
  <2> QED
    BY <2>6, <2>7
<1> QED
  BY <1>1, <1>2

LEMMA StepFound ==
  ASSUME TypeOK, Held, LoopsOwn, SweepFinds, Swept, [Next]_vars
  PROVE  SweepFinds' /\ Swept'
<1> USE DEF connVars, mapVars, loopVars, workVars
<1>1. ASSUME UNCHANGED <<loopconns, victim>>,
             \A f \in Fds : serverconns'[f] \in {serverconns[f], None},
             \A d \in Conns : stage[d] = "listed" => stage'[d] = "listed"
      PROVE  SweepFinds' /\ Swept'
  BY <1>1, FewerFound DEF TypeOK
<1>2. ASSUME NEW c \in Conns,
             \/ ClientSend(c) \/ GoIdle(c)
             \/ \E how \in {"fin", "err"} : ClientGone(c, how)
             \/ Accept(c) \/ Construct(c) \/ Announce(c)
      PROVE  SweepFinds' /\ Swept'
  <2>1. UNCHANGED <<serverconns, loopconns, victim>>
    BY <1>2 DEF ClientSend, GoIdle, ClientGone, Accept, Construct, Announce,
                Fail
  <2>2. \A d \in Conns : stage[d] = "listed" => stage'[d] = "listed"
    BY <1>2 DEF ClientSend, GoIdle, ClientGone, Accept, Construct, Announce,
                Fail, TypeOK
  <2> QED
    BY <1>1, <2>1, <2>2
<1>3. ASSUME NEW l \in Loops, NEW c \in Conns,
             ReadEof(l, c) \/ WriteFails(l, c) \/ ErrorCallback(l, c)
      PROVE  SweepFinds' /\ Swept'
  <2>1. /\ UNCHANGED <<stage, loopconns, victim>>
        /\ Close(c) \/ UNCHANGED serverconns
    BY <1>3 DEF ReadEof, WriteFails, ErrorCallback, CloseFails, Fail
  <2>2. \A f \in Fds : serverconns'[f] \in {serverconns[f], None}
    BY <2>1 DEF Close, TypeOK
  <2> QED
    BY <1>1, <2>1, <2>2
<1>4. ASSUME NEW l \in Loops, NEW c \in Conns,
             \/ DispatchDangling(l, c) \/ ReadMessages(l, c)
             \/ WriteReplies(l, c) \/ SendInLoop(l, c)
      PROVE  SweepFinds' /\ Swept'
  <2>1. UNCHANGED <<stage, serverconns, loopconns, victim>>
    BY <1>4 DEF DispatchDangling, ReadMessages, WriteReplies, SendInLoop, Fail
  <2> QED
    BY <1>1, <2>1
<1>5. ASSUME NEW l \in Loops,
             \/ Ring(l) \/ Poll(l) \/ TimerEvent(l) \/ SweepDone(l)
             \/ WakeEvent(l) \/ DrainDone(l) \/ \E f \in Fds : SweepSkip(l, f)
      PROVE  SweepFinds' /\ Swept'
  <2>1. UNCHANGED <<stage, serverconns, loopconns, victim>>
    BY <1>5 DEF Ring, Poll, TimerEvent, SweepDone, WakeEvent, DrainDone,
                SweepSkip
  <2> QED
    BY <1>1, <2>1
<1>6. ASSUME (\E w \in Workers : Worker(w)) \/ UNCHANGED vars
      PROVE  SweepFinds' /\ Swept'
  <2>1. UNCHANGED <<stage, serverconns, loopconns, victim>>
    BY <1>6 DEF Worker, TakeJob, CheckDisconnect, QueueInLoop, FinishJob, vars
  <2> QED
    BY <1>1, <2>1
<1>7. ASSUME NEW c \in Conns, ListInServer(c) \/ ListInLoop(c)
      PROVE  SweepFinds' /\ Swept'
  BY <1>7, MainFound
<1>8. ASSUME NEW l \in Loops, SweepErase(l) \/ \E f \in Fds : SweepRemove(l, f)
      PROVE  SweepFinds' /\ Swept'
  BY <1>8, SweepFound
<1>9. ASSUME NEW l \in Loops, IOLoop(l) PROVE SweepFinds' /\ Swept'
  <2>1. CASE \E f \in Fds : SweepSkip(l, f)
    BY <2>1, <1>5
  <2>2. CASE \E f \in Fds : SweepRemove(l, f)
    BY <2>2, <1>8
  <2>3. CASE \E c \in Conns :
                \/ DispatchDangling(l, c) \/ ReadEof(l, c)
                \/ ReadMessages(l, c) \/ WriteReplies(l, c)
                \/ WriteFails(l, c) \/ ErrorCallback(l, c)
                \/ SendInLoop(l, c)
    BY <2>3, <1>3, <1>4
  <2>4. CASE \/ Poll(l) \/ TimerEvent(l) \/ SweepDone(l) \/ WakeEvent(l)
             \/ DrainDone(l)
    BY <2>4, <1>5
  <2>5. CASE SweepErase(l)
    BY <2>5, <1>8
  <2> QED
    BY <1>9, <2>1, <2>2, <2>3, <2>4, <2>5 DEF IOLoop
<1> QED
  BY <1>2, <1>5, <1>6, <1>7, <1>9 DEF Next, Main, Dead

(* Whatever TcpServer::conns_ holds, the sweep of its loop finds.          *)
THEOREM SweepsFind == Spec => []SweepFinds
<1>1. Init => SweepFinds /\ Swept
  BY DEF Init, SweepFinds, Swept
<1>2. TypeOK /\ Held /\ LoopsOwn /\ SweepFinds /\ Swept /\ [Next]_vars
         => SweepFinds' /\ Swept'
  BY StepFound
<1> QED
  BY <1>1, <1>2, TypeCorrect, HeldCorrect, LoopsOwnCorrect, PTL DEF Spec

---------------------------------------------------------------------------
(* Why a connection keeps its places: what is erased from TcpServer::conns_ *)
(* first is erased from the loop's conns_ next, has been found timed out,   *)
(* and no insertion of the main thread falls between the two.               *)
Kept ==
    /\ \A l \in Loops : victim[l] # None =>
           serverconns[victim[l]] = None /\ loopconns[victim[l]] \in expired
    /\ \A c \in Conns : stage[c] = "listed" /\ c \notin disconnect_ =>
           serverconns[fd[c]] = c
    /\ ServedIsHeld

(* A step that keeps maps and stages.                                      *)
LEMMA SameKept ==
  ASSUME Kept, UNCHANGED <<stage, fd, serverconns, loopconns, victim>>,
         disconnect_ \subseteq disconnect_', expired \subseteq expired'
  PROVE  Kept'
BY DEF Kept, ServedIsHeld

LEMMA FailKept == ASSUME Kept, NEW how, Fail(how) PROVE Kept'
  BY SameKept DEF Fail, connVars, mapVars, loopVars

(* closecallback and errorcallback mark the connection they take out.      *)
LEMMA CloseKept ==
  ASSUME TypeOK, Held, Kept, NEW c \in Conns, Close(c), Alive(c),
         UNCHANGED <<stage, fd, loopconns, expired, victim>>
  PROVE  Kept'
<1>1. fd[c] \in Fds
  BY DEF TypeOK, Held, AliveAccepted
<1>2. /\ disconnect_' = disconnect_ \cup {c}
      /\ serverconns' = [serverconns EXCEPT ![fd[c]] = None]
  BY DEF Close
<1>3. \A f \in Fds : serverconns'[f] \in {serverconns[f], None}
  BY <1>2 DEF TypeOK
<1>4. ASSUME NEW d \in Conns, d # c, stage[d] # "waiting",
             serverconns[fd[d]] = d
      PROVE  serverconns'[fd[d]] = d
  <2>1. fd[d] \in Fds
    BY <1>4 DEF TypeOK
  <2>2. Alive(d)
    BY <1>4, <2>1 DEF Alive
  <2>3. fd[d] # fd[c]
    BY <1>4, <2>2 DEF Held, FdsUnique
  <2> QED
    BY <1>2, <1>4, <2>1, <2>3 DEF TypeOK
<1>5. \A l \in Loops : victim'[l] # None =>
         serverconns'[victim'[l]] = None /\ loopconns'[victim'[l]] \in expired'
  BY <1>3 DEF Kept, TypeOK
<1>6. \A d \in Conns : stage'[d] = "listed" /\ d \notin disconnect_' =>
                          serverconns'[fd'[d]] = d
  BY <1>2, <1>4 DEF Kept
<1>7. ServedIsHeld'
  BY <1>2, <1>4 DEF Kept, ServedIsHeld
<1> QED
  BY <1>5, <1>6, <1>7 DEF Kept

(* The main thread, whose connection shares its fd with nobody.            *)
LEMMA MainKept ==
  ASSUME TypeOK, Held, Kept, NEW c \in Conns,
         \/ Accept(c) \/ Construct(c) \/ ListInServer(c) \/ ListInLoop(c)
         \/ Announce(c)
  PROVE  Kept'
<1> USE DEF mapVars, loopVars
<1>1. CASE Accept(c)
  <2>1. CASE stage' = [stage EXCEPT ![c] = "added"]
    <3>1. PICK f \in Fds : fd' = [fd EXCEPT ![c] = f]
      BY <1>1, <2>1 DEF Accept, Fail, connVars, TypeOK
    <3>2. UNCHANGED <<disconnect_, serverconns, loopconns, expired, victim>>
      BY <1>1, <2>1 DEF Accept, Fail, connVars
    <3>3. \A d \in Conns : d # c => fd'[d] = fd[d] /\ stage'[d] = stage[d]
      BY <2>1, <3>1 DEF TypeOK
    <3>4. stage'[c] = "added"
      BY <2>1 DEF TypeOK
    <3> QED
      BY <3>2, <3>3, <3>4 DEF Kept, ServedIsHeld
  <2>2. CASE stage' # [stage EXCEPT ![c] = "added"]
    BY <1>1, <2>2, FailKept DEF Accept
  <2> QED
    BY <2>1, <2>2
<1>2. CASE Construct(c)
  <2>1. /\ UNCHANGED <<fd, disconnect_, serverconns, loopconns, expired,
                       victim>>
        /\ \A d \in Conns : stage'[d] = stage[d]
                              \/ stage'[d] \in {"registered", "built", "bound"}
    BY <1>2 DEF Construct, TypeOK
  <2> QED
    BY <2>1 DEF Kept, ServedIsHeld
<1>3. CASE Announce(c)
  <2>1. /\ UNCHANGED <<fd, disconnect_, serverconns, loopconns, expired,
                       victim>>
        /\ stage[c] = "announced" /\ stage' = [stage EXCEPT ![c] = "served"]
    BY <1>3 DEF Announce
  <2>2. \A d \in Conns : \/ stage'[d] = stage[d]
                         \/ stage[d] = "announced" /\ stage'[d] = "served"
    BY <2>1 DEF TypeOK
  <2> QED
    BY <2>1, <2>2 DEF Kept, ServedIsHeld
<1>4. CASE ListInServer(c)
  <2>1. /\ UNCHANGED <<fd, disconnect_, loopconns, expired, victim>>
        /\ stage[c] = "bound" /\ stage' = [stage EXCEPT ![c] = "listed"]
        /\ serverconns' = [serverconns EXCEPT ![fd[c]] = c]
    BY <1>4 DEF ListInServer
  <2>2. /\ serverconns[fd[c]] \in {c, None} /\ loopconns[fd[c]] = None
        /\ fd[c] \in Fds
    BY <2>1, EntryIs
  <2>3. \A f \in Fds : f # fd[c] => serverconns'[f] = serverconns[f]
    BY <2>1 DEF TypeOK
  <2>4. serverconns'[fd[c]] = c /\ stage'[c] = "listed"
    BY <2>1, <2>2 DEF TypeOK
  <2>5. \A d \in Conns : d # c => stage'[d] = stage[d]
    BY <2>1 DEF TypeOK
  <2>6. \A d \in Conns : d # c /\ stage[d] # "waiting" /\ serverconns[fd[d]] = d
                          => serverconns'[fd[d]] = d
    BY <2>2, <2>3, ReactorAssumption DEF TypeOK
  <2>7. \A l \in Loops : victim[l] # None => victim[l] # fd[c]
    BY <2>2, ReactorAssumption DEF Kept, TypeOK
  <2>8. \A l \in Loops : victim'[l] # None =>
          serverconns'[victim'[l]] = None /\ loopconns'[victim'[l]] \in expired'
    BY <2>1, <2>3, <2>7 DEF Kept, TypeOK
  <2>9. \A d \in Conns : stage'[d] = "listed" /\ d \notin disconnect_' =>
                            serverconns'[fd'[d]] = d
    BY <2>1, <2>4, <2>5, <2>6 DEF Kept
  <2>10. ServedIsHeld'
    BY <2>1, <2>4, <2>5, <2>6 DEF Kept, ServedIsHeld
  <2> QED
    BY <2>8, <2>9, <2>10 DEF Kept
<1>5. CASE ListInLoop(c)
  <2>1. /\ UNCHANGED <<fd, disconnect_, serverconns, expired, victim>>
        /\ stage[c] = "listed" /\ stage' = [stage EXCEPT ![c] = "announced"]
        /\ loopconns' = [loopconns EXCEPT ![fd[c]] = c]
    BY <1>5 DEF ListInLoop
  <2>2. loopconns[fd[c]] = None /\ fd[c] \in Fds
    BY <2>1, EntryIs
  <2>3. \A f \in Fds : f # fd[c] => loopconns'[f] = loopconns[f]
    BY <2>1 DEF TypeOK
  <2>4. loopconns'[fd[c]] = c /\ stage'[c] = "announced"
    BY <2>1, <2>2 DEF TypeOK
  <2>5. \A d \in Conns : d # c => stage'[d] = stage[d]
    BY <2>1 DEF TypeOK
  <2>6. \A d \in Conns : d # c /\ stage[d] # "waiting" /\ loopconns[fd[d]] = d
                          => loopconns'[fd[d]] = d
    BY <2>2, <2>3, ReactorAssumption DEF TypeOK
  <2>7. \A l \in Loops : victim[l] # None => victim[l] # fd[c]
    BY <2>2, ReactorAssumption DEF Kept, TypeOK
  <2>8. \A l \in Loops : victim'[l] # None =>
          serverconns'[victim'[l]] = None /\ loopconns'[victim'[l]] \in expired'
    BY <2>1, <2>3, <2>7 DEF Kept, TypeOK
  <2>9. \A d \in Conns : stage'[d] = "listed" /\ d \notin disconnect_' =>
                            serverconns'[fd'[d]] = d
    BY <2>1, <2>4, <2>5 DEF Kept
  <2>10. c \notin disconnect_ => serverconns[fd[c]] = c
    BY <2>1 DEF Kept
  <2>11. ServedIsHeld'
    BY <2>1, <2>4, <2>5, <2>6, <2>10 DEF Kept, ServedIsHeld
  <2> QED
    BY <2>8, <2>9, <2>11 DEF Kept
<1> QED
  BY <1>1, <1>2, <1>3, <1>4, <1>5

(* The sweep: the connection of the entry it removes has timed out, and it *)
(* is one that the main thread has inserted in the loop's map already.     *)
LEMMA SweepKept ==
  ASSUME TypeOK, Held, LoopsOwn, Kept, NEW l \in Loops,
         SweepErase(l) \/ \E f \in Fds : SweepRemove(l, f)
  PROVE  Kept'
<1> USE DEF connVars
<1>1. ASSUME NEW f \in Fds, SweepRemove(l, f) PROVE Kept'
  <2>1. /\ UNCHANGED <<stage, fd, loopconns, disconnect_>>
        /\ loopconns[f] \in idle
        /\ serverconns' = [serverconns EXCEPT ![f] = None]
        /\ expired' = expired \cup {loopconns[f]}
        /\ victim' = [victim EXCEPT ![l] = f]
    BY <1>1 DEF SweepRemove
  <2>2. loopconns[f] \in Conns /\ loopconns[f] # None
    BY <2>1, ReactorAssumption DEF TypeOK
  <2>3. serverconns[f] \in {loopconns[f], None}
    BY <2>2, HeldMapsAgree DEF MapsAgree
  <2>4. stage[loopconns[f]] # "listed"
    BY <2>2 DEF Held, EntriesOwn
  <2>5. \A g \in Fds : g # f => serverconns'[g] = serverconns[g]
    BY <2>1 DEF TypeOK
  <2>6. serverconns'[f] = None /\ victim'[l] = f
    BY <2>1 DEF TypeOK
  <2>7. \A k \in Loops : k # l => victim'[k] = victim[k]
    BY <2>1 DEF TypeOK
  <2>8. \A k \in Loops : victim'[k] # None =>
          serverconns'[victim'[k]] = None /\ loopconns'[victim'[k]] \in expired'
    <3>1. \A g \in Fds : serverconns[g] = None => serverconns'[g] = None
      BY <2>5, <2>6
    <3> QED
      BY <2>1, <2>6, <2>7, <3>1 DEF Kept, TypeOK
  <2>9. ASSUME NEW d \in Conns, d # loopconns[f], stage[d] # "waiting",
               serverconns[fd[d]] = d
        PROVE  serverconns'[fd[d]] = d
    <3>1. fd[d] \in Fds /\ d # None
      BY <2>9, ReactorAssumption DEF TypeOK
    <3> QED
      BY <2>3, <2>5, <2>9, <3>1
  <2>10. \A d \in Conns : stage'[d] = "listed" /\ d \notin disconnect_' =>
                             serverconns'[fd'[d]] = d
    BY <2>1, <2>4, <2>9 DEF Kept
  <2>11. ServedIsHeld'
    BY <2>1, <2>9 DEF Kept, ServedIsHeld
  <2> QED
    BY <2>8, <2>10, <2>11 DEF Kept
<1>2. CASE SweepErase(l)
  <2> DEFINE f == victim[l]
  <2>1. /\ UNCHANGED <<stage, fd, serverconns, expired, disconnect_>>
        /\ f # None /\ victim' = [victim EXCEPT ![l] = None]
        /\ loopconns' = [loopconns EXCEPT ![f] = None]
    BY <1>2 DEF SweepErase
  <2>2. f \in Fds /\ loopconns[f] \in expired
    BY <2>1 DEF Kept, TypeOK
  <2>3. \A k \in Loops : k # l /\ victim[k] # None => victim[k] # f
    BY <2>1 DEF LoopsOwn
  <2> HIDE DEF f
  <2>4. \A g \in Fds : g # f => loopconns'[g] = loopconns[g]
    BY <2>1 DEF TypeOK
  <2>5. /\ \A k \in Loops : k # l => victim'[k] = victim[k]
        /\ victim'[l] = None
    BY <2>1 DEF TypeOK
  <2>6. \A k \in Loops : victim'[k] # None =>
          serverconns'[victim'[k]] = None /\ loopconns'[victim'[k]] \in expired'
    BY <2>1, <2>3, <2>4, <2>5 DEF Kept, TypeOK
  <2>7. ASSUME NEW d \in Conns, d \notin expired, stage[d] # "waiting",
               loopconns[fd[d]] = d
        PROVE  loopconns'[fd[d]] = d
    <3>1. fd[d] \in Fds /\ fd[d] # f
      BY <2>2, <2>7 DEF TypeOK
    <3> QED
      BY <2>4, <2>7, <3>1
  <2>8. ServedIsHeld'
    BY <2>1, <2>7 DEF Kept, ServedIsHeld
  <2> QED
    BY <2>1, <2>6, <2>8 DEF Kept
<1> QED
  BY <1>1, <1>2

(* The IO threads.                                                         *)
LEMMA LoopKept ==
  ASSUME TypeOK, Held, LoopsOwn, Kept, NEW l \in Loops, IOLoop(l)
  PROVE  Kept'
<1> USE DEF connVars, mapVars, loopVars
<1>1. ASSUME NEW c \in Conns, DispatchDangling(l, c) PROVE Kept'
  BY <1>1, FailKept DEF DispatchDangling
<1>2. ASSUME NEW c \in Conns, ReadEof(l, c) PROVE Kept'
  BY <1>2, CloseKept, FailKept DEF ReadEof, CloseFails
<1>3. ASSUME NEW c \in Conns, WriteFails(l, c) PROVE Kept'
  BY <1>3, CloseKept, FailKept DEF WriteFails, CloseFails
<1>4. ASSUME NEW c \in Conns, ErrorCallback(l, c) PROVE Kept'
  BY <1>4, CloseKept, FailKept DEF ErrorCallback, CloseFails
<1>5. ASSUME NEW c \in Conns,
             SendInLoop(l, c) \/ ReadMessages(l, c) \/ WriteReplies(l, c)
      PROVE  Kept'
  BY <1>5, FailKept, SameKept DEF SendInLoop, ReadMessages, WriteReplies
<1>6. ASSUME \/ Poll(l) \/ TimerEvent(l) \/ SweepDone(l) \/ WakeEvent(l)
             \/ DrainDone(l) \/ \E f \in Fds : SweepSkip(l, f)
      PROVE  Kept'
  BY <1>6, SameKept DEF Poll, TimerEvent, SweepDone, WakeEvent, DrainDone,
                        SweepSkip
<1> QED
  BY <1>1, <1>2, <1>3, <1>4, <1>5, <1>6, SweepKept DEF IOLoop

LEMMA StepKept ==
  ASSUME TypeOK, Held, LoopsOwn, Kept, [Next]_vars PROVE Kept'
<1> USE DEF connVars, mapVars, loopVars, workVars
<1>1. ASSUME NEW c \in Conns,
             \/ ClientSend(c) \/ GoIdle(c)
             \/ \E how \in {"fin", "err"} : ClientGone(c, how)
      PROVE  Kept'
  BY <1>1, SameKept DEF ClientSend, GoIdle, ClientGone
<1>2. CASE (\E l \in Loops : Ring(l)) \/ UNCHANGED vars
  BY <1>2, SameKept DEF Ring, vars
<1>3. ASSUME NEW w \in Workers, Worker(w) PROVE Kept'
  BY <1>3, SameKept DEF Worker, TakeJob, CheckDisconnect, QueueInLoop,
                        FinishJob
<1> QED
  BY <1>1, <1>2, <1>3, MainKept, LoopKept DEF Next, Main, Dead

LEMMA KeptCorrect == Spec => []Kept
<1>1. Init => Kept
  BY DEF Init, Kept, ServedIsHeld
<1>2. TypeOK /\ Held /\ LoopsOwn /\ Kept /\ [Next]_vars => Kept'
  BY StepKept
<1> QED
  BY <1>1, <1>2, TypeCorrect, HeldCorrect, LoopsOwnCorrect, PTL DEF Spec

(* Workers or none: once inserted, a connection that is neither            *)
(* disconnected nor found timed out is in both maps.                       *)
THEOREM ServedAlwaysHeld == Spec => []ServedIsHeld
<1>1. Kept => ServedIsHeld
  BY DEF Kept
<1> QED
  BY <1>1, KeptCorrect, PTL

---------------------------------------------------------------------------
(* A disconnected connection has left the epoll tree for good.             *)
Left == \A c \in disconnect_ : c \notin intree /\ stage[c] # "waiting"

LEMMA StepLeft == TypeOK /\ Held /\ Left /\ [Next]_vars => Left'
<1> SUFFICES ASSUME TypeOK, Held, Left, [Next]_vars PROVE Left'
  OBVIOUS
<1> USE DEF connVars
<1>1. ASSUME UNCHANGED <<stage, intree, disconnect_>> PROVE Left'
  BY <1>1 DEF Left
<1>2. ASSUME NEW c \in Conns,
             \/ Accept(c) \/ Construct(c) \/ ListInServer(c) \/ ListInLoop(c)
             \/ Announce(c)
      PROVE  Left'
  <2>1. /\ UNCHANGED disconnect_
        /\ \/ UNCHANGED intree
           \/ stage[c] = "waiting" /\ intree' = intree \cup {c}
    BY <1>2 DEF Accept, Construct, ListInServer, ListInLoop, Announce, Fail
  <2>2. \A d \in Conns : stage[d] # "waiting" => stage'[d] # "waiting"
    BY <1>2 DEF Accept, Construct, ListInServer, ListInLoop, Announce, Fail,
                TypeOK
  <2> QED
    BY <2>1, <2>2 DEF Left, TypeOK
<1>3. ASSUME NEW l \in Loops, NEW c \in Conns,
             ReadEof(l, c) \/ WriteFails(l, c) \/ ErrorCallback(l, c)
      PROVE  Left'
  <2>1. \/ UNCHANGED <<stage, intree, disconnect_>>
        \/ Alive(c) /\ Close(c) /\ UNCHANGED stage
    BY <1>3 DEF ReadEof, WriteFails, ErrorCallback, CloseFails, Fail
  <2> QED
    BY <1>1, <2>1 DEF Left, Close, Held, AliveAccepted
<1>4. ASSUME NEW l \in Loops, NEW c \in Conns,
             \/ DispatchDangling(l, c) \/ ReadMessages(l, c)
             \/ WriteReplies(l, c) \/ SendInLoop(l, c)
      PROVE  Left'
  BY <1>1, <1>4 DEF DispatchDangling, ReadMessages, WriteReplies, SendInLoop,
                    Fail
<1>5. ASSUME NEW l \in Loops,
             \/ Ring(l) \/ Poll(l) \/ TimerEvent(l) \/ SweepErase(l)
             \/ SweepDone(l) \/ WakeEvent(l) \/ DrainDone(l)
             \/ \E f \in Fds : SweepSkip(l, f) \/ SweepRemove(l, f)
      PROVE  Left'
  BY <1>1, <1>5 DEF Ring, Poll, TimerEvent, SweepErase, SweepDone, WakeEvent,
                    DrainDone, SweepSkip, SweepRemove
<1>6. ASSUME \/ \E w \in Workers : Worker(w)
             \/ UNCHANGED vars
             \/ \E c \in Conns : \/ ClientSend(c) \/ GoIdle(c)
                                 \/ \E how \in {"fin", "err"} :
                                       ClientGone(c, how)
      PROVE  Left'
  BY <1>1, <1>6 DEF Worker, TakeJob, CheckDisconnect, QueueInLoop, FinishJob,
                    ClientSend, GoIdle, ClientGone, vars
<1> QED
  BY <1>2, <1>3, <1>4, <1>5, <1>6 DEF Next, Main, IOLoop, Dead

LEMMA LeftCorrect == Spec => []Left
<1>1. Init => Left
  BY DEF Init, Left
<1> QED
  BY <1>1, StepLeft, TypeCorrect, HeldCorrect, PTL DEF Spec

---------------------------------------------------------------------------
(* Why the shipped server goes down for a reason: what a round still has   *)
(* to dispatch of a connection is one event, whose cause and whose epoll   *)
(* registration last until it is dispatched.  Only a connection that the   *)
(* idle sweep found is destroyed while it is in the ready list, by the     *)
(* sweep itself or by the main thread as it lets go of it, and nothing is  *)
(* ever sent from another thread.                                          *)
Events == {"in", "out", "err"}

ReadyOwn ==
    /\ \A c \in Conns : jobs[c] = 0 /\ sends[c] = 0
    /\ \A c \in out : Callable(c)
    /\ \A l \in Loops : \A c \in Conns, ev \in Events :
          <<c, ev>> \in batch[l] =>
             /\ c \in intree
             /\ Alive(c) \/ c \in expired
             /\ ev = "out" => c \in out
             /\ ev = "err" => peer[c] # "open"
             /\ \A other \in Events : <<c, other>> \in batch[l] => other = ev

(* A step that takes from no ready list's connection what it relies on.    *)
LEMMA LessReady ==
  ASSUME TypeOK, ReadyOwn, UNCHANGED <<jobs, sends>>,
         \A c \in out' : Callable(c)',
         \A l \in Loops : batch'[l] \subseteq batch[l],
         \A l \in Loops : \A c \in Conns, ev \in Events :
            <<c, ev>> \in batch'[l] =>
               /\ c \in intree'
               /\ Alive(c) \/ c \in expired => Alive(c)' \/ c \in expired'
               /\ c \in out => c \in out'
               /\ peer[c] # "open" => peer'[c] # "open"
  PROVE  ReadyOwn'
<1>1. \A c \in Conns : jobs'[c] = 0 /\ sends'[c] = 0
  BY DEF ReadyOwn
<1>2. ASSUME NEW l \in Loops, NEW c \in Conns, NEW ev \in Events,
             <<c, ev>> \in batch'[l]
      PROVE  /\ c \in intree'
             /\ Alive(c)' \/ c \in expired'
             /\ ev = "out" => c \in out'
             /\ ev = "err" => peer'[c] # "open"
             /\ \A other \in Events : <<c, other>> \in batch'[l] => other = ev
  <2>1. <<c, ev>> \in batch[l]
    BY <1>2
  <2>2. /\ Alive(c) \/ c \in expired
        /\ ev = "out" => c \in out
        /\ ev = "err" => peer[c] # "open"
        /\ \A other \in Events : <<c, other>> \in batch[l] => other = ev
    BY <2>1 DEF ReadyOwn
  <2> QED
    BY <1>2, <2>2
<1> QED
  BY <1>1, <1>2 DEF ReadyOwn

(* An event is dispatched, and with it the only one of its connection.     *)
LEMMA DispatchedGone ==
  ASSUME TypeOK, LoopsOwn, ReadyOwn, NEW l \in Loops, NEW c \in Conns,
         NEW ev \in Events, <<c, ev>> \in batch[l], Dispatched(l, <<c, ev>>)
  PROVE  \A k \in Loops : /\ batch'[k] \subseteq batch[k]
                          /\ \A e \in Events : <<c, e>> \notin batch'[k]
<1>1. /\ batch'[l] = batch[l] \ {<<c, ev>>}
      /\ \A k \in Loops : k # l => batch'[k] = batch[k]
  BY DEF Dispatched, TypeOK
<1>2. \A e \in Events : <<c, e>> \in batch[l] => e = ev
  BY DEF ReadyOwn
<1>3. \A k \in Loops, e \in Events : <<c, e>> \in batch[k] => k = l
  BY DEF LoopsOwn, Events
<1> QED
  BY <1>1, <1>2, <1>3

(* A step in which nothing lets go of a connection.                        *)
LEMMA SameAlive ==
  ASSUME UNCHANGED <<stage, serverconns, loopconns, jobs, wk>>, NEW c
  PROVE  Alive(c)' <=> Alive(c)
BY DEF Alive

LEMMA CloseReady ==
  ASSUME TypeOK, Held, LoopsOwn, ReadyOwn, NEW l \in Loops,
         NEW c \in Conns, NEW ev \in Events, <<c, ev>> \in batch[l],
         Dispatched(l, <<c, ev>>), Close(c), Alive(c),
         UNCHANGED <<stage, peer, loopconns, expired, workVars>>
  PROVE  ReadyOwn'
<1>1. \A k \in Loops : /\ batch'[k] \subseteq batch[k]
                       /\ \A e \in Events : <<c, e>> \notin batch'[k]
  BY DispatchedGone
<1>2. /\ intree' = intree \ {c} /\ out' = out \ {c}
      /\ serverconns' = [serverconns EXCEPT ![fd[c]] = None]
  BY DEF Close
<1>3. fd[c] \in Fds /\ serverconns[fd[c]] \in {c, None}
  <2>1. fd[c] \in Fds
    BY DEF TypeOK, Held, AliveAccepted
  <2> QED
    BY <2>1 DEF Held, EntriesOwn, FdsUnique, Alive, TypeOK
<1>4. ASSUME NEW d \in Conns, d # c, Alive(d) PROVE Alive(d)'
  <2>1. \A f \in Fds : serverconns[f] = d => serverconns'[f] = d
    BY <1>2, <1>3, <1>4, ReactorAssumption DEF TypeOK
  <2> QED
    BY <1>4, <2>1 DEF Alive, workVars
<1>5. \A d \in out' : Callable(d)'
  BY <1>2 DEF ReadyOwn, Callable
<1>6. \A k \in Loops : \A d \in Conns, e \in Events : <<d, e>> \in batch'[k]
         => d # c /\ d \in intree
  BY <1>1 DEF ReadyOwn
<1> QED
  BY <1>1, <1>2, <1>4, <1>5, <1>6, LessReady DEF workVars

LEMMA FailReady ==
  ASSUME TypeOK, ReadyOwn, NEW how, Fail(how) PROVE ReadyOwn'
BY DEF Fail, ReadyOwn, Alive, Callable, connVars, mapVars, loopVars, workVars

(* The main thread gives a reference more to the connections it lists; the *)
(* one it lets go of is in both maps still, or the sweep had found it.     *)
LEMMA MainReady ==
  ASSUME TypeOK, Held, LoopsOwn, Kept, Left, ReadyOwn, Workers = {},
         NEW c \in Conns,
         \/ Accept(c) \/ Construct(c) \/ ListInServer(c) \/ ListInLoop(c)
         \/ Announce(c)
  PROVE  ReadyOwn'
<1> USE DEF mapVars, workVars, loopVars
<1>1. CASE \E how : Fail(how)
  BY <1>1, FailReady
<1>2. CASE ~ \E how : Fail(how)
  <2>1. /\ UNCHANGED <<sends, out, batch, peer, jobs, wk, expired>>
        /\ intree \subseteq intree'
    BY <1>2 DEF Accept, Construct, ListInServer, ListInLoop, Announce
  <2>2. \A d \in Conns : Callable(d) => Callable(d)'
    BY <1>2 DEF Accept, Construct, ListInServer, ListInLoop, Announce,
                Callable, TypeOK
  <2>3. ASSUME NEW d \in Conns, stage[d] # "waiting", d \in intree, Alive(d)
        PROVE  Alive(d)' \/ d \in expired
    <3>1. CASE Accept(c) \/ Construct(c)
      <4>1. UNCHANGED mapVars
        BY <1>2, <3>1 DEF Accept, Construct
      <4>2. stage[d] \in Building => stage'[d] \in Building
        BY <1>2, <2>3, <3>1 DEF Accept, Construct, TypeOK, Building
      <4> QED
        BY <2>1, <2>3, <4>1, <4>2 DEF Alive
    <3>2. CASE ListInServer(c)
      <4>1. /\ stage[c] = "bound" /\ stage' = [stage EXCEPT ![c] = "listed"]
            /\ serverconns' = [serverconns EXCEPT ![fd[c]] = c]
            /\ UNCHANGED loopconns
        BY <3>2 DEF ListInServer
      <4>2. serverconns[fd[c]] \in {c, None} /\ fd[c] \in Fds
        BY <4>1, EntryIs
      <4>3. \A f \in Fds : serverconns[f] = d => serverconns'[f] = d
        BY <4>1, <4>2, ReactorAssumption DEF TypeOK
      <4>4. stage[d] \in Building => stage'[d] \in Building
        BY <4>1 DEF TypeOK, Building
      <4> QED
        BY <2>1, <2>3, <4>1, <4>3, <4>4 DEF Alive
    <3>3. CASE ListInLoop(c)
      <4>1. /\ stage[c] = "listed" /\ stage' = [stage EXCEPT ![c] = "announced"]
            /\ loopconns' = [loopconns EXCEPT ![fd[c]] = c]
            /\ UNCHANGED serverconns
        BY <3>3 DEF ListInLoop
      <4>2. loopconns[fd[c]] = None /\ fd[c] \in Fds
        BY <4>1, EntryIs
      <4>3. \A f \in Fds : loopconns[f] = d => loopconns'[f] = d
        BY <4>1, <4>2, ReactorAssumption DEF TypeOK
      <4>4. stage[d] \in Building => stage'[d] \in Building
        BY <4>1 DEF TypeOK, Building
      <4> QED
        BY <2>1, <2>3, <4>1, <4>3, <4>4 DEF Alive
    <3>4. CASE Announce(c)
      <4>1. /\ stage[c] = "announced" /\ stage' = [stage EXCEPT ![c] = "served"]
            /\ UNCHANGED <<serverconns, loopconns>>
        BY <3>4 DEF Announce
      <4>2. CASE d = c
        <5>1. d \notin disconnect_ /\ fd[d] \in Fds
          BY <2>3 DEF Left, TypeOK
        <5>2. d \in expired \/ serverconns[fd[d]] = d
          BY <4>1, <4>2, <5>1 DEF Kept, ServedIsHeld
        <5> QED
          BY <4>1, <5>1, <5>2 DEF Alive
      <4>3. CASE d # c
        <5>1. stage'[d] = stage[d]
          BY <4>1, <4>3 DEF TypeOK
        <5> QED
          BY <2>1, <2>3, <4>1, <5>1 DEF Alive
      <4> QED
        BY <4>2, <4>3
    <3> QED
      BY <3>1, <3>2, <3>3, <3>4
  <2>4. \A l \in Loops : \A d \in Conns, ev \in Events :
           <<d, ev>> \in batch[l] => stage[d] # "waiting" /\ d \in intree
    BY DEF LoopsOwn, ReadyOwn, Events
  <2>5. \A d \in out' : Callable(d)'
    BY <2>1, <2>2 DEF ReadyOwn, TypeOK
  <2> QED
    BY <2>1, <2>3, <2>4, <2>5, LessReady
<1> QED
  BY <1>1, <1>2

(* The IO threads: an event polled has its cause, and one dispatched takes *)
(* nothing from the others.                                                *)
LEMMA LoopReady ==
  ASSUME TypeOK, Held, LoopsOwn, Kept, ReadyOwn, Workers = {},
         NEW l \in Loops, IOLoop(l)
  PROVE  ReadyOwn'
<1> USE DEF connVars, mapVars, loopVars, workVars
<1>1. ASSUME NEW c \in Conns, DispatchDangling(l, c) PROVE ReadyOwn'
  BY <1>1, FailReady DEF DispatchDangling
<1>2. ASSUME NEW c \in Conns, ReadEof(l, c) PROVE ReadyOwn'
  BY <1>2, CloseReady, FailReady DEF ReadEof, CloseFails, Dispatching, Events
<1>3. ASSUME NEW c \in Conns, WriteFails(l, c) PROVE ReadyOwn'
  BY <1>3, CloseReady, FailReady
  DEF WriteFails, CloseFails, Dispatching, Events
<1>4. ASSUME NEW c \in Conns, ErrorCallback(l, c) PROVE ReadyOwn'
  BY <1>4, CloseReady, FailReady
  DEF ErrorCallback, CloseFails, Dispatching, Events
<1>5. ASSUME NEW c \in Conns, SendInLoop(l, c) PROVE ReadyOwn'
  BY <1>5 DEF SendInLoop, ReadyOwn
<1>6. ASSUME NEW c \in Conns, ReadMessages(l, c) PROVE ReadyOwn'
  <2>1. /\ <<c, "in">> \in batch[l] /\ Dispatched(l, <<c, "in">>)
        /\ Alive(c) /\ idle' = idle \ {c}
        /\ out' = IF Callable(c) THEN out \cup {c} ELSE out
        /\ UNCHANGED <<stage, intree, peer, mapVars, wk, sends, jobs>>
    BY <1>6 DEF ReadMessages, Dispatching
  <2>2. \A k \in Loops : /\ batch'[k] \subseteq batch[k]
                         /\ \A e \in Events : <<c, e>> \notin batch'[k]
    BY <2>1, DispatchedGone DEF Events
  <2>3. \A d \in Conns : Alive(d)' <=> Alive(d)
    BY <2>1, SameAlive
  <2>4. \A d \in out' : Callable(d)'
    BY <2>1 DEF ReadyOwn, Callable
  <2>5. \A k \in Loops : \A d \in Conns, e \in Events :
           <<d, e>> \in batch'[k] => d # c /\ d \in intree
    BY <2>2 DEF ReadyOwn
  <2> QED
    BY <2>1, <2>2, <2>3, <2>4, <2>5, LessReady
<1>7. ASSUME NEW c \in Conns, WriteReplies(l, c) PROVE ReadyOwn'
  <2>1. /\ <<c, "out">> \in batch[l] /\ Dispatched(l, <<c, "out">>)
        /\ out \ {c} \subseteq out' /\ out' \subseteq out
        /\ UNCHANGED <<stage, intree, idle, peer, mapVars, wk, sends, jobs>>
    BY <1>7 DEF WriteReplies, Dispatching
  <2>2. \A k \in Loops : /\ batch'[k] \subseteq batch[k]
                         /\ \A e \in Events : <<c, e>> \notin batch'[k]
    BY <2>1, DispatchedGone DEF Events
  <2>3. \A d \in Conns : Alive(d)' <=> Alive(d)
    BY <2>1, SameAlive
  <2>4. \A d \in out' : Callable(d)'
    BY <2>1 DEF ReadyOwn, Callable
  <2>5. \A k \in Loops : \A d \in Conns, e \in Events :
           <<d, e>> \in batch'[k] => d # c /\ d \in intree
    BY <2>2 DEF ReadyOwn
  <2> QED
    BY <2>1, <2>2, <2>3, <2>4, <2>5, LessReady
<1>8. ASSUME Poll(l) PROVE ReadyOwn'
  <2>1. /\ batch' = [batch EXCEPT ![l] = Ready(l)]
        /\ UNCHANGED <<stage, intree, idle, out, peer, mapVars, wk, sends,
                       jobs>>
    BY <1>8 DEF Poll
  <2>2. ASSUME NEW c \in Conns, NEW ev \in Events, <<c, ev>> \in Ready(l)
        PROVE  /\ c \in intree /\ Alive(c) /\ Pending(c) /\ ev = Event(c)
    BY <2>2, ReactorAssumption DEF Ready
  <2>3. ASSUME NEW c \in Conns, Pending(c)
        PROVE  /\ Event(c) = "out" => c \in out
               /\ Event(c) = "err" => peer[c] # "open"
    BY <2>3 DEF Pending, Event
  <2>4. ASSUME NEW c \in Conns, NEW ev \in Events, <<c, ev>> \in batch'[l]
        PROVE  /\ c \in intree' /\ Alive(c)'
               /\ ev = "out" => c \in out'
               /\ ev = "err" => peer'[c] # "open"
               /\ \A other \in Events : <<c, other>> \in batch'[l] => other = ev
    <3>1. batch'[l] = Ready(l)
      BY <2>1 DEF TypeOK
    <3>2. Alive(c)' <=> Alive(c)
      BY <2>1, SameAlive
    <3> QED
      BY <2>1, <2>2, <2>3, <2>4, <3>1, <3>2
  <2>5. ASSUME NEW k \in Loops, k # l, NEW c \in Conns, NEW ev \in Events,
               <<c, ev>> \in batch'[k]
        PROVE  /\ c \in intree'
               /\ Alive(c)' \/ c \in expired'
               /\ ev = "out" => c \in out'
               /\ ev = "err" => peer'[c] # "open"
               /\ \A other \in Events : <<c, other>> \in batch'[k] => other = ev
    <3>1. batch'[k] = batch[k]
      BY <2>1, <2>5 DEF TypeOK
    <3>2. Alive(c)' <=> Alive(c)
      BY <2>1, SameAlive
    <3> QED
      BY <2>1, <2>5, <3>1, <3>2 DEF ReadyOwn
  <2>6. /\ \A c \in Conns : jobs'[c] = 0 /\ sends'[c] = 0
        /\ \A c \in out' : Callable(c)'
    BY <2>1 DEF ReadyOwn, Callable
  <2> QED
    BY <2>4, <2>5, <2>6 DEF ReadyOwn
<1>9. ASSUME NEW f \in Fds, SweepRemove(l, f) PROVE ReadyOwn'
  <2>1. /\ UNCHANGED <<stage, intree, idle, out, peer, batch, loopconns, wk,
                       sends, jobs>>
        /\ f \in todo[l] /\ loopconns[f] \in idle
        /\ serverconns' = [serverconns EXCEPT ![f] = None]
        /\ expired \subseteq expired'
    BY <1>9 DEF SweepRemove
  <2>2. serverconns[f] \in {loopconns[f], None}
    BY <2>1, HeldMapsAgree, ReactorAssumption DEF MapsAgree, TypeOK
  <2>3. ASSUME NEW d \in Conns, Alive(d) PROVE Alive(d)'
    <3>1. \A g \in Fds : serverconns[g] = d
                            => serverconns'[g] = d \/ loopconns'[g] = d
      BY <2>1, <2>2, ReactorAssumption DEF TypeOK
    <3> QED
      BY <2>1, <2>3, <3>1 DEF Alive
  <2>4. \A d \in out' : Callable(d)'
    BY <2>1 DEF ReadyOwn, Callable
  <2>5. \A k \in Loops : \A d \in Conns, e \in Events :
           <<d, e>> \in batch[k] => d \in intree
    BY DEF ReadyOwn
  <2> QED
    BY <2>1, <2>3, <2>4, <2>5, LessReady
<1>10. ASSUME SweepErase(l) PROVE ReadyOwn'
  <2>1. /\ UNCHANGED <<stage, intree, out, peer, batch, serverconns, expired,
                       wk, sends, jobs>>
        /\ victim[l] # None
        /\ loopconns' = [loopconns EXCEPT ![victim[l]] = None]
    BY <1>10 DEF SweepErase
  <2>2. victim[l] \in Fds /\ loopconns[victim[l]] \in expired
    BY <2>1 DEF Kept, TypeOK
  <2>3. ASSUME NEW d \in Conns, Alive(d) PROVE Alive(d)' \/ d \in expired'
    <3>1. \A g \in Fds : loopconns[g] = d => loopconns'[g] = d \/ d \in expired
      BY <2>1, <2>2 DEF TypeOK
    <3> QED
      BY <2>1, <2>3, <3>1 DEF Alive
  <2>4. \A d \in out' : Callable(d)'
    BY <2>1 DEF ReadyOwn, Callable
  <2>5. \A k \in Loops : \A d \in Conns, e \in Events :
           <<d, e>> \in batch[k] => d \in intree
    BY DEF ReadyOwn
  <2> QED
    BY <2>1, <2>3, <2>4, <2>5, LessReady
<1>11. ASSUME \/ TimerEvent(l) \/ SweepDone(l) \/ WakeEvent(l)
              \/ DrainDone(l) \/ \E f \in Fds : SweepSkip(l, f)
       PROVE  ReadyOwn'
  <2>1. UNCHANGED <<stage, intree, idle, out, peer, mapVars, wk, sends, jobs>>
    BY <1>11 DEF TimerEvent, SweepDone, WakeEvent, DrainDone, SweepSkip
  <2>2. \A k \in Loops : batch'[k] \subseteq batch[k]
    <3>1. batch' = batch \/ \E e : Dispatched(l, e)
      BY <1>11 DEF TimerEvent, SweepDone, WakeEvent, DrainDone, SweepSkip
    <3>2. ASSUME NEW e, Dispatched(l, e), NEW k \in Loops
          PROVE  batch'[k] \subseteq batch[k]
      BY <3>2 DEF Dispatched, TypeOK
    <3> QED
      BY <3>1, <3>2
  <2>3. \A d \in Conns : Alive(d)' <=> Alive(d)
    BY <2>1, SameAlive
  <2>4. \A d \in out' : Callable(d)'
    BY <2>1 DEF ReadyOwn, Callable
  <2>5. \A k \in Loops : \A d \in Conns, e \in Events :
           <<d, e>> \in batch'[k] => d \in intree
    BY <2>2 DEF ReadyOwn
  <2> QED
    BY <2>1, <2>2, <2>3, <2>4, <2>5, LessReady
<1> QED
  BY <1>1, <1>2, <1>3, <1>4, <1>5, <1>6, <1>7, <1>8, <1>9, <1>10, <1>11
  DEF IOLoop

LEMMA StepReady ==
  ASSUME TypeOK, Held, LoopsOwn, Kept, Left, ReadyOwn, Workers = {},
         [Next]_vars
  PROVE  ReadyOwn'
<1> USE DEF connVars, mapVars, loopVars, workVars
<1>1. ASSUME NEW c \in Conns,
             \/ ClientSend(c) \/ GoIdle(c)
             \/ \E how \in {"fin", "err"} : ClientGone(c, how)
      PROVE  ReadyOwn'
  <2>1. UNCHANGED <<stage, intree, out, mapVars, wk, sends, jobs, batch>>
    BY <1>1 DEF ClientSend, GoIdle, ClientGone
  <2>2. \A d \in Conns : peer[d] # "open" => peer'[d] # "open"
    BY <1>1 DEF ClientSend, GoIdle, ClientGone, TypeOK
  <2>3. \A d \in Conns : Alive(d)' <=> Alive(d)
    BY <2>1, SameAlive
  <2>4. \A d \in out' : Callable(d)'
    BY <2>1 DEF ReadyOwn, Callable
  <2>5. \A k \in Loops : \A d \in Conns, e \in Events :
           <<d, e>> \in batch[k] => d \in intree
    BY DEF ReadyOwn
  <2> QED
    BY <2>1, <2>2, <2>3, <2>4, <2>5, LessReady
<1>2. CASE (\E l \in Loops : Ring(l)) \/ UNCHANGED vars
  <2>1. UNCHANGED <<connVars, mapVars, batch, workVars>>
    BY <1>2 DEF Ring, vars
  <2> QED
    BY <2>1 DEF ReadyOwn, Alive, Callable
<1> QED
  BY <1>1, <1>2, MainReady, LoopReady DEF Next, Main, Dead

(* EndsForAReason of a state that has the status how.                      *)
Reason(how) ==
    /\ how # "modexit"
    /\ how = "noloop" => \A f \in Fds : FdInUse(f)
    /\ how = "addexit" =>
          \/ \A f \in Fds : FdInUse(f)
          \/ \E c \in Conns : stage[c] = "added" /\ peer[c] # "open"
    /\ how = "dangling" =>
          \E l \in Loops, c \in expired, ev \in Events :
              <<c, ev>> \in batch[l] /\ ~Alive(c)
    /\ how = "terminate" =>
          \E c \in Conns : stage[c] \in {"registered", "built"}
                              /\ peer[c] # "open"
    /\ how = "sigpipe" => \E c \in out : peer[c] = "fin"

LEMMA FailReason ==
  ASSUME NEW how, Fail(how), Reason(how) PROVE EndsForAReason'
BY DEF Fail, Reason, EndsForAReason, Events, FdInUse, Alive, connVars,
       mapVars, loopVars, workVars

(* No close fails but of a client that leaves while it is being accepted.  *)
LEMMA CloseFailsReason ==
  ASSUME TypeOK, Held, LoopsOwn, ReadyOwn, NEW l \in Loops, NEW c \in Conns,
         NEW ev \in Events, <<c, ev>> \in batch[l], peer[c] # "open",
         CloseFails(c)
  PROVE  EndsForAReason'
<1>1. c \in intree /\ stage[c] # "waiting"
  BY DEF ReadyOwn, LoopsOwn, Events
<1>2. CASE stage[c] = "added"
  <2>1. Fail("addexit")
    BY <1>1, <1>2 DEF CloseFails
  <2>2. Reason("addexit")
    BY <1>2 DEF Reason
  <2> QED
    BY <2>1, <2>2, FailReason
<1>3. CASE stage[c] # "added"
  <2>1. ~Callable(c) /\ Fail("terminate")
    BY <1>1, <1>3 DEF CloseFails
  <2>2. stage[c] \in {"registered", "built"}
    BY <1>1, <1>3, <2>1 DEF Callable, TypeOK, Stages, Building
  <2>3. Reason("terminate")
    BY <2>2 DEF Reason
  <2> QED
    BY <2>1, <2>3, FailReason
<1> QED
  BY <1>2, <1>3

LEMMA StepReason ==
  ASSUME TypeOK, Held, LoopsOwn, ReadyOwn, Workers = {}, EndsForAReason,
         [Next]_vars
  PROVE  EndsForAReason'
<1> USE DEF connVars, mapVars, loopVars, workVars
<1>1. CASE UNCHANGED vars
  <2>1. UNCHANGED <<status, connVars, mapVars, loopVars, workVars>>
    BY <1>1 DEF vars
  <2>2. \A c \in Conns : Alive(c)' <=> Alive(c)
    BY <2>1 DEF Alive
  <2> QED
    BY <2>1, <2>2 DEF EndsForAReason, FdInUse, TypeOK
<1>2. CASE status' = "up"
  BY <1>2 DEF EndsForAReason
<1>3. ASSUME NEW c \in Conns, Accept(c), status' # "up" PROVE EndsForAReason'
  <2>1. /\ \A f \in Fds : FdInUse(f)
        /\ Fail("addexit") \/ Fail("noloop")
    BY <1>3 DEF Accept
  <2>2. Reason("addexit") /\ Reason("noloop")
    BY <2>1 DEF Reason
  <2> QED
    BY <2>1, <2>2, FailReason
<1>4. ASSUME NEW l \in Loops, NEW c \in Conns, DispatchDangling(l, c)
      PROVE  EndsForAReason'
  <2>1. PICK ev \in Events : <<c, ev>> \in batch[l]
    BY <1>4 DEF DispatchDangling, Dispatching, Events
  <2>2. ~Alive(c) /\ c \in expired /\ Fail("dangling")
    BY <1>4, <2>1 DEF DispatchDangling, ReadyOwn
  <2>3. Reason("dangling")
    BY <2>1, <2>2 DEF Reason
  <2> QED
    BY <2>2, <2>3, FailReason
<1>5. ASSUME NEW l \in Loops, NEW c \in Conns, ReadEof(l, c), status' # "up"
      PROVE  EndsForAReason'
  BY <1>5, CloseFailsReason DEF ReadEof, Dispatching, Events
<1>6. ASSUME NEW l \in Loops, NEW c \in Conns, WriteFails(l, c), status' # "up"
      PROVE  EndsForAReason'
  <2>1. <<c, "out">> \in batch[l] /\ peer[c] # "open"
    BY <1>6 DEF WriteFails, Dispatching
  <2>2. c \in out
    BY <2>1 DEF ReadyOwn, Events
  <2>3. CloseFails(c) \/ (peer[c] = "fin" /\ Fail("sigpipe"))
    BY <1>6 DEF WriteFails, Dispatching
  <2>4. peer[c] = "fin" => Reason("sigpipe")
    BY <2>2 DEF Reason
  <2> QED
    BY <2>1, <2>3, <2>4, CloseFailsReason, FailReason DEF Events
<1>7. ASSUME NEW l \in Loops, NEW c \in Conns, ErrorCallback(l, c),
             status' # "up"
      PROVE  EndsForAReason'
  <2>1. <<c, "err">> \in batch[l] /\ CloseFails(c)
    BY <1>7 DEF ErrorCallback, Dispatching
  <2>2. peer[c] # "open"
    BY <2>1 DEF ReadyOwn, Events
  <2> QED
    BY <2>1, <2>2, CloseFailsReason DEF Events
<1>8. ASSUME NEW l \in Loops, NEW c \in Conns, SendInLoop(l, c) PROVE FALSE
  BY <1>8 DEF SendInLoop, ReadyOwn
<1>9. ASSUME NEW c \in Conns,
             \/ ClientSend(c) \/ GoIdle(c)
             \/ \E how \in {"fin", "err"} : ClientGone(c, how)
             \/ Construct(c) \/ ListInServer(c) \/ ListInLoop(c)
             \/ Announce(c)
      PROVE  status' = "up"
  BY <1>9 DEF ClientSend, GoIdle, ClientGone, Construct, ListInServer,
              ListInLoop, Announce
<1>10. ASSUME NEW l \in Loops, NEW c \in Conns,
              ReadMessages(l, c) \/ WriteReplies(l, c)
       PROVE  status' = "up"
  BY <1>10 DEF ReadMessages, WriteReplies, Dispatching
<1>11. ASSUME NEW l \in Loops,
              \/ Ring(l) \/ Poll(l) \/ TimerEvent(l) \/ SweepErase(l)
              \/ SweepDone(l) \/ WakeEvent(l) \/ DrainDone(l)
              \/ \E f \in Fds : SweepSkip(l, f) \/ SweepRemove(l, f)
       PROVE  status' = "up"
  BY <1>11 DEF Ring, Poll, TimerEvent, SweepErase, SweepDone, WakeEvent,
               DrainDone, SweepSkip, SweepRemove, Dispatching
<1> QED
  BY <1>1, <1>2, <1>3, <1>4, <1>5, <1>6, <1>7, <1>8, <1>9, <1>10, <1>11
  DEF Next, Main, IOLoop, Dead

(* As shipped, the server goes down for the five reasons of                *)
(* EndsForAReason only: no close within a round destroys what the round    *)
(* still dispatches, and no EPOLL_CTL_MOD meets an fd taken out before.    *)
THEOREM AlwaysEndsForAReason == Spec => []EndsForAReason
<1>1. ASSUME Workers = {} PROVE Spec => []EndsForAReason
  <2>1. Init => ReadyOwn /\ EndsForAReason
    BY <1>1 DEF Init, ReadyOwn, EndsForAReason
  <2>2. TypeOK /\ Held /\ LoopsOwn /\ Kept /\ Left /\ ReadyOwn /\ [Next]_vars
           => ReadyOwn'
    BY <1>1, StepReady
  <2>3. TypeOK /\ Held /\ LoopsOwn /\ ReadyOwn /\ EndsForAReason
           /\ [Next]_vars => EndsForAReason'
    BY <1>1, StepReason
  <2> QED
    BY <2>1, <2>2, <2>3, TypeCorrect, HeldCorrect, LoopsOwnCorrect,
       KeptCorrect, LeftCorrect, PTL
    DEF Spec
<1>2. ASSUME Workers # {} PROVE Spec => []EndsForAReason
  <2>1. EndsForAReason
    BY <1>2 DEF EndsForAReason
  <2> QED
    BY <2>1, PTL
<1> QED
  BY <1>1, <1>2

=============================================================================
