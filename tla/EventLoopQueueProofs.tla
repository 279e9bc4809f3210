------------------------ MODULE EventLoopQueueProofs ------------------------
(***************************************************************************)
(* For any set of tasks: the types of EventLoopQueue, neither a function   *)
(* nor stop() is ever slept over, and every behaviour of the queue is one  *)
(* of TaskService.                                                         *)
(***************************************************************************)
EXTENDS EventLoopQueue, SequenceTheorems, FiniteSetTheorems, TLAPS

(* Every step of the loop, of its producers and of stop() keeps the types. *)
THEOREM TypeCorrect == Spec => []TypeOK
<1>1. Init => TypeOK
  <2> SUFFICES ASSUME Init PROVE TypeOK
    OBVIOUS
  <2>1. taskqueue_ \in Seq(Tasks)
    BY EmptySeq DEF Init
  <2>2. stop_ \in BOOLEAN
    BY DEF Init
  <2> QED
    BY <2>1, <2>2, QueueAssumption DEF Init, TypeOK
<1>2. TypeOK /\ [Next]_vars => TypeOK'
  <2> SUFFICES ASSUME TypeOK, [Next]_vars PROVE TypeOK'
    OBVIOUS
  <2> USE QueueAssumption DEF TypeOK
  <2>1. ASSUME NEW t \in Tasks, Push(t) PROVE TypeOK'
    BY <2>1, AppendProperties DEF Push
  <2>2. ASSUME NEW t \in Tasks, Wakeup(t) PROVE TypeOK'
    BY <2>2 DEF Wakeup
  <2>3. CASE SetStop \/ StopWakeup
    <3>1. stop_' \in BOOLEAN
      BY <2>3 DEF SetStop, StopWakeup
    <3> QED
      BY <2>3, <3>1 DEF SetStop, StopWakeup
  <2>4. CASE CheckStop \/ WakeEvent \/ ReadWakeup \/ Drained \/ OtherEvents
    BY <2>4 DEF CheckStop, WakeEvent, ReadWakeup, Drained, OtherEvents
  <2>5. CASE RunNext
    <3>1. Head(taskqueue_) \in Tasks /\ Tail(taskqueue_) \in Seq(Tasks)
      BY <2>5, HeadTailProperties DEF RunNext
    <3> QED
      BY <2>5, <3>1 DEF RunNext
  <2>6. CASE RunDone
    BY <2>6 DEF RunDone
  <2>7. CASE UNCHANGED vars
    BY <2>7 DEF vars
  <2> QED
    BY <2>1, <2>2, <2>3, <2>4, <2>5, <2>6, <2>7 DEF Next, Loop, Finished
<1> QED
  BY <1>1, <1>2, PTL DEF Spec

---------------------------------------------------------------------------
(* NoTaskSleptOver is inductive together with the types: the only steps    *)
(* that take a wakeup away leave the loop in "drain", which it leaves with *)
(* the queue empty and for the test of stop_.                              *)
THEOREM NeverSleptOver == Spec => []NoTaskSleptOver
<1>1. Init => NoTaskSleptOver
  BY DEF Init, NoTaskSleptOver
<1>2. TypeOK /\ NoTaskSleptOver /\ [Next]_vars => NoTaskSleptOver'
  <2> SUFFICES ASSUME TypeOK, NoTaskSleptOver, [Next]_vars
               PROVE  NoTaskSleptOver'
    OBVIOUS
  <2> USE DEF TypeOK, NoTaskSleptOver
  <2>1. ASSUME NEW t \in Tasks, Push(t) PROVE NoTaskSleptOver'
    BY <2>1 DEF Push
  <2>2. ASSUME NEW t \in Tasks, Wakeup(t) PROVE NoTaskSleptOver'
    BY <2>2 DEF Wakeup
  <2>3. CASE SetStop \/ StopWakeup
    BY <2>3 DEF SetStop, StopWakeup
  <2>4. CASE Loop \/ OtherEvents
    BY <2>4 DEF Loop, CheckStop, WakeEvent, ReadWakeup, RunNext, RunDone,
                Drained, OtherEvents
  <2>5. CASE UNCHANGED vars
    BY <2>5 DEF vars
  <2> QED
    BY <2>1, <2>2, <2>3, <2>4, <2>5 DEF Next, Finished
<1> QED
  BY <1>1, <1>2, TypeCorrect, PTL DEF Spec

---------------------------------------------------------------------------
(* The functions queued or running are different ones, all of them handed  *)
(* over: without this a finished function could still be in the queue.     *)
Queued == {taskqueue_[i] : i \in DOMAIN taskqueue_}

Once ==
    /\ \A i, j \in 1 .. Len(taskqueue_) :
           taskqueue_[i] = taskqueue_[j] => i = j
    /\ fn \notin Queued
    /\ \A t \in Queued \cup Running : add[t] # "new"

LEMMA QueuedTasks == TypeOK => Queued \subseteq Tasks
  BY LenProperties, ElementOfSeq DEF TypeOK, Queued

LEMMA QueuedPush ==
  ASSUME TypeOK, NEW t \in Tasks, Push(t) PROVE Queued' = Queued \cup {t}
<1>1. /\ Len(taskqueue_) \in Nat /\ taskqueue_' \in Seq(Tasks)
      /\ DOMAIN taskqueue_ = 1 .. Len(taskqueue_)
      /\ DOMAIN taskqueue_' = 1 .. Len(taskqueue_) + 1
      /\ \A i \in 1 .. Len(taskqueue_) : taskqueue_'[i] = taskqueue_[i]
      /\ taskqueue_'[Len(taskqueue_) + 1] = t
  BY AppendProperties, LenProperties DEF TypeOK, Push
<1> QED
  BY <1>1 DEF Queued

LEMMA QueuedRunNext ==
  ASSUME TypeOK, RunNext
  PROVE  /\ Queued = Queued' \cup {Head(taskqueue_)}
         /\ Len(taskqueue_) \in Nat \ {0}
         /\ Head(taskqueue_) = taskqueue_[1]
         /\ Len(taskqueue_') = Len(taskqueue_) - 1
         /\ \A i \in 1 .. Len(taskqueue_') : taskqueue_'[i] = taskqueue_[i + 1]
         /\ DOMAIN taskqueue_' = 1 .. Len(taskqueue_')
<1>1. /\ Len(taskqueue_) \in Nat \ {0} /\ taskqueue_' \in Seq(Tasks)
      /\ DOMAIN taskqueue_ = 1 .. Len(taskqueue_)
      /\ Head(taskqueue_) = taskqueue_[1]
      /\ Len(taskqueue_') = Len(taskqueue_) - 1
      /\ DOMAIN taskqueue_' = 1 .. Len(taskqueue_')
      /\ \A i \in 1 .. Len(taskqueue_') : taskqueue_'[i] = taskqueue_[i + 1]
  BY HeadTailProperties, LenProperties, EmptySeq DEF TypeOK, RunNext
<1>2. \A i \in 1 .. Len(taskqueue_) :
         i = 1 \/ (i - 1 \in 1 .. Len(taskqueue_') /\ (i - 1) + 1 = i)
  BY <1>1
<1>3. Queued \subseteq Queued' \cup {Head(taskqueue_)}
  <2> SUFFICES ASSUME NEW i \in 1 .. Len(taskqueue_)
               PROVE  taskqueue_[i] \in Queued' \cup {Head(taskqueue_)}
    BY <1>1 DEF Queued
  <2>1. CASE i = 1
    BY <1>1, <2>1
  <2>2. CASE i # 1
    <3>1. taskqueue_'[i - 1] = taskqueue_[i]
      BY <1>1, <1>2, <2>2
    <3> QED
      BY <1>1, <1>2, <2>2, <3>1 DEF Queued
  <2> QED
    BY <2>1, <2>2
<1>4. Queued' \cup {Head(taskqueue_)} \subseteq Queued
  BY <1>1 DEF Queued
<1> QED
  BY <1>1, <1>3, <1>4

LEMMA StepOnce == TypeOK /\ Once /\ [Next]_vars => Once'
<1> SUFFICES ASSUME TypeOK, Once, [Next]_vars PROVE Once'
  OBVIOUS
<1> USE QueueAssumption DEF TypeOK, Once
<1>1. ASSUME NEW t \in Tasks, Push(t) PROVE Once'
  <2>1. Queued' = Queued \cup {t}
    BY <1>1, QueuedPush
  <2>2. t \notin Queued \cup Running /\ t # fn
    BY <1>1 DEF Push, Running
  <2>3. /\ Len(taskqueue_) \in Nat
        /\ Len(taskqueue_') = Len(taskqueue_) + 1
        /\ \A i \in 1 .. Len(taskqueue_) : taskqueue_'[i] = taskqueue_[i]
        /\ taskqueue_'[Len(taskqueue_) + 1] = t
    BY <1>1, AppendProperties, LenProperties DEF Push
  <2>4. \A i \in 1 .. Len(taskqueue_) : taskqueue_[i] \in Queued
    BY LenProperties DEF Queued
  <2>5. \A i, j \in 1 .. Len(taskqueue_') :
           taskqueue_'[i] = taskqueue_'[j] => i = j
    BY <2>2, <2>3, <2>4
  <2>6. \A u \in (Queued \cup Running)' : add'[u] # "new"
    BY <1>1, <2>1, QueuedTasks DEF Push, Running
  <2> QED
    BY <1>1, <2>1, <2>2, <2>5, <2>6 DEF Push
<1>2. ASSUME NEW t \in Tasks, Wakeup(t) PROVE Once'
  BY <1>2, QueuedTasks DEF Wakeup, Queued, Running
<1>3. CASE RunNext
  <2>1. Head(taskqueue_) \notin Queued'
    BY <1>3, QueuedRunNext DEF Queued
  <2>2. \A i, j \in 1 .. Len(taskqueue_') :
           taskqueue_'[i] = taskqueue_'[j] => i = j
    BY <1>3, QueuedRunNext
  <2>3. \A u \in (Queued \cup Running)' : add'[u] # "new"
    BY <1>3, QueuedRunNext DEF RunNext, Running
  <2> QED
    BY <1>3, <2>1, <2>2, <2>3 DEF RunNext
<1>4. CASE RunDone
  <2>1. Queued' = Queued /\ None \notin Queued
    BY <1>4, QueuedTasks DEF RunDone, Queued
  <2> QED
    BY <1>4, <2>1 DEF RunDone, Running
<1>5. CASE SetStop \/ StopWakeup \/ CheckStop \/ WakeEvent \/ ReadWakeup
             \/ Drained \/ OtherEvents \/ UNCHANGED vars
  <2>1. UNCHANGED <<taskqueue_, add, fn>>
    BY <1>5 DEF SetStop, StopWakeup, CheckStop, WakeEvent, ReadWakeup,
                Drained, OtherEvents, vars
  <2> QED
    BY <2>1 DEF Queued, Running
<1> QED
  BY <1>1, <1>2, <1>3, <1>4, <1>5 DEF Next, Loop, Finished

THEOREM OnceCorrect == Spec => []Once
<1>1. Init => Once
  <2> SUFFICES ASSUME Init PROVE Once
    OBVIOUS
  <2>1. Len(taskqueue_) = 0 /\ DOMAIN taskqueue_ = {}
    BY EmptySeq DEF Init
  <2> QED
    BY <2>1 DEF Init, Once, Queued, Running
<1> QED
  BY <1>1, StepOnce, TypeCorrect, PTL DEF Spec

(* Every step of the loop and its producers is a Submit, a Start or a      *)
(* Finish of the abstract service, or changes nothing it shows.            *)
LEMMA StepRefines ==
  TypeOK /\ Once /\ [Next]_vars => [Service!Next]_(Service!vars)
<1> SUFFICES ASSUME TypeOK, Once, [Next]_vars
             PROVE  [Service!Next]_(Service!vars)
  OBVIOUS
<1>0. Over = {t \in Tasks : add[t] # "new"} \ (Running \cup Queued)
  BY DEF Over, Queued
<1>00. Over' = {t \in Tasks : add'[t] # "new"} \ (Running' \cup Queued')
  BY DEF Over, Queued
<1>1. ASSUME NEW t \in Tasks, Push(t) PROVE Service!Submit(t)
  <2>1. Queued' = Queued \cup {t} /\ Running' = Running
    BY <1>1, QueuedPush DEF Push, Running
  <2>2. t \notin Queued \cup Running \cup Over
    BY <1>1, <1>0 DEF Push, Once
  <2>3. Over' = Over
    BY <1>1, <1>0, <1>00, <2>1, <2>2 DEF Push, TypeOK
  <2> QED
    BY <1>1, <2>1, <2>2, <2>3 DEF Push, Service!Submit, Service!Waiting, Queued
<1>2. CASE RunNext
  <2>1. Running = {} /\ Running' = {Head(taskqueue_)}
    <3>1. Head(taskqueue_) \in Tasks /\ fn = None
      BY <1>2, HeadTailProperties DEF RunNext, TypeOK
    <3> QED
      BY <1>2, <3>1, QueueAssumption DEF RunNext, Running
  <2>2. Over' = Over
    BY <1>2, <1>0, <1>00, <2>1, QueuedRunNext DEF RunNext
  <2>3. Service!Cardinality(Running) = Cardinality(Running)
    BY DEF Cardinality, Service!Cardinality
  <2>4. Cardinality(Running) < 1
    BY <2>1, FS_EmptySet
  <2>5. Service!Start
    BY <1>2, <2>1, <2>2, <2>3, <2>4 DEF RunNext, Service!Start
  <2> QED
    BY <2>5 DEF Service!Next
<1>3. CASE RunDone
  <2>1. fn \in Tasks /\ Running = {fn} /\ Running' = {} /\ Queued' = Queued
    BY <1>3, QueueAssumption DEF RunDone, Running, TypeOK, Queued
  <2>2. Over' = Over \cup {fn}
    BY <1>3, <1>0, <1>00, <2>1 DEF RunDone, Once
  <2>3. Service!Finish(fn)
    BY <1>3, <2>1, <2>2 DEF RunDone, Service!Finish
  <2> QED
    BY <2>1, <2>3 DEF Service!Next
<1>4. ASSUME NEW t \in Tasks, Wakeup(t) PROVE UNCHANGED Service!vars
  <2>1. \A u \in Tasks : add'[u] # "new" <=> add[u] # "new"
    BY <1>4 DEF Wakeup, TypeOK
  <2>2. Running' = Running /\ Queued' = Queued /\ taskqueue_' = taskqueue_
    BY <1>4 DEF Wakeup, Running, Queued
  <2> QED
    BY <1>0, <1>00, <2>1, <2>2 DEF Service!vars
<1>5. CASE SetStop \/ StopWakeup \/ CheckStop \/ WakeEvent \/ ReadWakeup
             \/ Drained \/ OtherEvents \/ UNCHANGED vars
  <2>1. UNCHANGED <<taskqueue_, add, fn>>
    BY <1>5 DEF SetStop, StopWakeup, CheckStop, WakeEvent, ReadWakeup,
                Drained, OtherEvents, vars
  <2> QED
    BY <2>1 DEF Service!vars, Running, Over
<1> QED
  BY <1>1, <1>2, <1>3, <1>4, <1>5
  DEF Next, Loop, Finished, Service!Next

(* The queue of the loop implements the abstract task service: each        *)
(* function runs once, in the order queued, one at a time.                 *)
THEOREM Refinement == Spec => ImplementsService
<1>1. Init => Service!Init
  <2> SUFFICES ASSUME Init PROVE Service!Init
    OBVIOUS
  <2>1. Running = {} /\ Over = {} /\ taskqueue_ = <<>>
    BY DEF Init, Running, Over
  <2> QED
    BY <2>1 DEF Service!Init
<1> QED
  BY <1>1, StepRefines, TypeCorrect, OnceCorrect, PTL
  DEF Spec, ImplementsService, Service!Spec
=============================================================================
