-------------------------- MODULE ThreadPoolProofs --------------------------
(***************************************************************************)
(* For any finite sets of workers and tasks: the types of ThreadPool; that *)
(* no queued task is slept over, although addtask() notifies outside       *)
(* mutex_ and stop() does everything outside it; that the pool implements  *)
(* TaskService; and what its threads still start after stop().             *)
(***************************************************************************)
EXTENDS ThreadPool, SequenceTheorems, FiniteSetTheorems, TLAPS

(* Every step of a worker, of addtask() and of stop() keeps the types, the *)
(* owner of mutex_ and the tasks of the busy workers included.             *)
THEOREM TypeCorrect == Spec => []TypeOK
<1>1. Init => TypeOK
  <2> SUFFICES ASSUME Init PROVE TypeOK
    OBVIOUS
  <2>1. taskqueue_ \in Seq(Tasks) /\ stop_ \in BOOLEAN
    BY EmptySeq DEF Init
  <2> QED
    BY <2>1, PoolAssumption DEF Init, TypeOK
<1>2. TypeOK /\ [Next]_vars => TypeOK'
  <2> SUFFICES ASSUME TypeOK, [Next]_vars PROVE TypeOK'
    OBVIOUS
  <2> USE PoolAssumption DEF TypeOK
  <2>1. ASSUME NEW t \in Tasks, Push(t) PROVE TypeOK'
    BY <2>1, AppendProperties DEF Push
  <2>2. ASSUME NEW t \in Tasks, Notify(t) PROVE TypeOK'
    BY <2>2 DEF Notify, Sleepers
  <2>3. ASSUME NEW w \in Workers, Take(w) PROVE TypeOK'
    <3>1. Head(taskqueue_) \in Tasks /\ Tail(taskqueue_) \in Seq(Tasks)
      BY <2>3, HeadTailProperties DEF Take
    <3> QED
      BY <2>3, <3>1 DEF Take
  <2>4. ASSUME NEW w \in Workers,
               Enter(w) \/ Leave(w) \/ SpuriousWakeup(w) \/ Finish(w)
        PROVE  TypeOK'
    BY <2>4 DEF Enter, Leave, SpuriousWakeup, Finish
  <2>5. ASSUME NEW w \in Workers, Park(w) \/ Sleep(w) PROVE TypeOK'
    BY <2>5 DEF Park, Sleep
  <2>6. CASE SetStop
    <3>1. stop_' \in BOOLEAN
      BY <2>6 DEF SetStop
    <3> QED
      BY <2>6, <3>1 DEF SetStop
  <2>7. CASE NotifyAll \/ Joined
    BY <2>7 DEF NotifyAll, Joined
  <2>8. CASE UNCHANGED vars
    BY <2>8 DEF vars
  <2> QED
    BY <2>1, <2>2, <2>3, <2>4, <2>5, <2>6, <2>7, <2>8
    DEF Next, Worker, Finished
<1> QED
  BY <1>1, <1>2, PTL DEF Spec

---------------------------------------------------------------------------
(* Why NoTaskSleptOver is inductive: a worker goes to sleep only with the  *)
(* queue empty, because it parked so and held mutex_ ever since.           *)
ParkedEmpty == \A w \in Workers : pc[w] = "park" => taskqueue_ = <<>>

SleepInv == ParkedEmpty /\ NoTaskSleptOver

(* The sets that are counted are finite.                                   *)
LEMMA Counts ==
  /\ IsFiniteSet(Notifying) /\ Cardinality(Notifying) \in Nat
  /\ IsFiniteSet(Awake) /\ Cardinality(Awake) \in Nat
<1>1. Notifying \subseteq Tasks /\ Awake \subseteq Workers
  BY DEF Notifying, Awake
<1> QED
  BY <1>1, PoolAssumption, FS_Subset, FS_CardinalityType

LEMMA StepParkedEmpty == TypeOK /\ ParkedEmpty /\ [Next]_vars => ParkedEmpty'
<1> SUFFICES ASSUME TypeOK, ParkedEmpty, [Next]_vars PROVE ParkedEmpty'
  OBVIOUS
<1> USE PoolAssumption DEF TypeOK, ParkedEmpty
<1>1. ASSUME NEW t \in Tasks, Push(t) PROVE ParkedEmpty'
  BY <1>1 DEF Push
<1>2. ASSUME NEW t \in Tasks, Notify(t) PROVE ParkedEmpty'
  BY <1>2 DEF Notify, Sleepers
<1>3. ASSUME NEW w \in Workers, Worker(w) \/ SpuriousWakeup(w)
      PROVE  ParkedEmpty'
  BY <1>3 DEF Worker, Enter, Take, Leave, Park, Sleep, Finish, SpuriousWakeup
<1>4. CASE SetStop \/ NotifyAll \/ Joined
  BY <1>4 DEF SetStop, NotifyAll, Joined
<1>5. CASE UNCHANGED vars
  BY <1>5 DEF vars
<1> QED
  BY <1>1, <1>2, <1>3, <1>4, <1>5 DEF Next, Finished

LEMMA StepNotSleptOver == TypeOK /\ SleepInv /\ [Next]_vars => NoTaskSleptOver'
<1> SUFFICES ASSUME TypeOK, SleepInv, [Next]_vars, Sleepers' # {}
             PROVE  Len(taskqueue_') <= Cardinality(Notifying')
                                            + Cardinality(Awake')
  BY DEF NoTaskSleptOver
<1>0. /\ Len(taskqueue_) \in Nat
      /\ Cardinality(Notifying) \in Nat /\ Cardinality(Awake) \in Nat
      /\ Cardinality(Notifying)' \in Nat /\ Cardinality(Awake)' \in Nat
  <2>1. Cardinality(Notifying) \in Nat /\ Cardinality(Awake) \in Nat
    BY Counts
  <2>2. /\ Notifying' \subseteq Tasks /\ Awake' \subseteq Workers
    BY DEF Notifying, Awake
  <2>3. Cardinality(Notifying)' \in Nat /\ Cardinality(Awake)' \in Nat
    BY <2>2, PoolAssumption, FS_Subset, FS_CardinalityType
  <2> QED
    BY <2>1, <2>3, LenProperties DEF TypeOK
<1>1. Sleepers # {} => Len(taskqueue_) <= Cardinality(Notifying)
                                              + Cardinality(Awake)
  BY DEF SleepInv, NoTaskSleptOver
<1>2. ASSUME taskqueue_' = <<>>
      PROVE  Len(taskqueue_') <= Cardinality(Notifying') + Cardinality(Awake')
  BY <1>2, <1>0, EmptySeq
<1>3. ASSUME NEW t \in Tasks, Push(t)
      PROVE  Len(taskqueue_') <= Cardinality(Notifying') + Cardinality(Awake')
  <2>1. Sleepers' = Sleepers /\ Awake' = Awake
    BY <1>3 DEF Push, Sleepers, Awake
  <2>2. Notifying' = Notifying \cup {t} /\ t \notin Notifying
    BY <1>3 DEF Push, Notifying, TypeOK
  <2>3. Cardinality(Notifying') = Cardinality(Notifying) + 1
    BY <2>2, Counts, FS_AddElement
  <2>4. Len(taskqueue_') = Len(taskqueue_) + 1
    BY <1>3, AppendProperties DEF Push, TypeOK
  <2> QED
    BY <1>0, <1>1, <2>1, <2>3, <2>4
<1>4. ASSUME NEW t \in Tasks, Notify(t)
      PROVE  Len(taskqueue_') <= Cardinality(Notifying') + Cardinality(Awake')
  <2>1. Notifying' = Notifying \ {t} /\ t \in Notifying
    BY <1>4 DEF Notify, Notifying, TypeOK
  <2>2. Cardinality(Notifying') = Cardinality(Notifying) - 1
    BY <2>1, Counts, FS_RemoveElement
  <2>3. Sleepers # {}
    BY <1>4 DEF Notify, Sleepers
  <2>4. PICK w \in Sleepers : pc' = [pc EXCEPT ![w] = "lock"]
    BY <1>4, <2>3 DEF Notify
  <2>5. Awake' = Awake \cup {w} /\ w \notin Awake
    BY <2>4 DEF Awake, Sleepers, TypeOK
  <2>6. Cardinality(Awake') = Cardinality(Awake) + 1
    BY <2>5, Counts, FS_AddElement
  <2>7. taskqueue_' = taskqueue_
    BY <1>4 DEF Notify
  <2> QED
    BY <1>0, <1>1, <2>2, <2>3, <2>6, <2>7
<1>5. ASSUME NEW w \in Workers, Take(w)
      PROVE  Len(taskqueue_') <= Cardinality(Notifying') + Cardinality(Awake')
  <2>1. Awake' = Awake \ {w} /\ w \in Awake /\ Sleepers' = Sleepers
    BY <1>5 DEF Take, Awake, Sleepers, TypeOK
  <2>2. Cardinality(Awake') = Cardinality(Awake) - 1
    BY <2>1, Counts, FS_RemoveElement
  <2>3. Len(taskqueue_') = Len(taskqueue_) - 1 /\ Notifying' = Notifying
    BY <1>5, HeadTailProperties DEF Take, TypeOK, Notifying
  <2> QED
    BY <1>0, <1>1, <2>1, <2>2, <2>3
<1>6. ASSUME NEW w \in Workers, pc[w] \in {"loop", "wait"},
             pc' = [pc EXCEPT ![w] = "lock"], UNCHANGED <<taskqueue_, add>>
      PROVE  Len(taskqueue_') <= Cardinality(Notifying') + Cardinality(Awake')
  <2>1. Awake' = Awake \cup {w} /\ w \notin Awake /\ Notifying' = Notifying
    BY <1>6 DEF Awake, Notifying, TypeOK
  <2>2. Sleepers # {}
    BY <1>6 DEF Sleepers, TypeOK
  <2>3. Cardinality(Awake') = Cardinality(Awake) + 1
    BY <2>1, Counts, FS_AddElement
  <2> QED
    BY <1>0, <1>1, <1>6, <2>1, <2>2, <2>3
<1>7. ASSUME UNCHANGED <<taskqueue_, add>>, Awake' = Awake,
             Sleepers' = Sleepers
      PROVE  Len(taskqueue_') <= Cardinality(Notifying') + Cardinality(Awake')
  BY <1>7, <1>1 DEF Notifying
<1>8. ASSUME NEW w \in Workers, Worker(w) \/ SpuriousWakeup(w)
      PROVE  Len(taskqueue_') <= Cardinality(Notifying') + Cardinality(Awake')
  <2>1. CASE Enter(w)
    BY <2>1, <1>6, <1>7 DEF Enter, Awake, Sleepers, TypeOK
  <2>2. CASE Leave(w) \/ Park(w)
    BY <2>2, <1>2 DEF Leave, Park
  <2>3. CASE Sleep(w)
    BY <2>3, <1>2 DEF Sleep, SleepInv, ParkedEmpty
  <2>4. CASE Finish(w)
    BY <2>4, <1>7 DEF Finish, Awake, Sleepers, TypeOK
  <2>5. CASE SpuriousWakeup(w)
    BY <2>5, <1>6 DEF SpuriousWakeup
  <2> QED
    BY <1>5, <1>8, <2>1, <2>2, <2>3, <2>4, <2>5 DEF Worker
<1>9. CASE SetStop \/ Joined \/ UNCHANGED vars
  BY <1>9, <1>7 DEF SetStop, Joined, vars, Awake, Sleepers
<1>10. ~NotifyAll
  BY DEF NotifyAll, Sleepers, TypeOK
<1> QED
  BY <1>3, <1>4, <1>8, <1>9, <1>10 DEF Next, Finished

(* As long as a worker sleeps, every queued task has a notification under  *)
(* way or an awake worker of its own.                                      *)
THEOREM NeverSleptOver == Spec => []NoTaskSleptOver
<1>1. Init => SleepInv
  BY DEF Init, SleepInv, ParkedEmpty, NoTaskSleptOver, Sleepers
<1>2. TypeOK /\ SleepInv /\ [Next]_vars => SleepInv'
  BY StepParkedEmpty, StepNotSleptOver DEF SleepInv
<1>3. SleepInv => NoTaskSleptOver
  BY DEF SleepInv
<1> QED
  BY <1>1, <1>2, <1>3, TypeCorrect, PTL DEF Spec
---------------------------------------------------------------------------
(* Why the pool implements the task service: a task is in one place only,  *)
(* in the queue once or with one worker, and was handed over.              *)
Queued == {taskqueue_[i] : i \in DOMAIN taskqueue_}

Once ==
    /\ \A i, j \in 1 .. Len(taskqueue_) :
           taskqueue_[i] = taskqueue_[j] => i = j
    /\ \A v, w \in Workers : task[v] = task[w] /\ task[v] # None => v = w
    /\ Queued \cap Running = {}
    /\ \A t \in Queued \cup Running : add[t] # "new"

LEMMA QueuedTasks ==
  TypeOK => /\ Queued \subseteq Tasks /\ Running \subseteq Tasks
            /\ Running = {task[w] : w \in Workers} \ {None}
BY LenProperties, PoolAssumption DEF TypeOK, Queued, Running

LEMMA QueuedPush ==
  ASSUME TypeOK, NEW t \in Tasks, Push(t)
  PROVE  /\ Queued' = Queued \cup {t}
         /\ Len(taskqueue_) \in Nat
         /\ Len(taskqueue_') = Len(taskqueue_) + 1
         /\ \A i \in 1 .. Len(taskqueue_) :
                taskqueue_'[i] = taskqueue_[i] /\ taskqueue_[i] \in Queued
         /\ taskqueue_'[Len(taskqueue_) + 1] = t
BY AppendProperties, LenProperties DEF TypeOK, Push, Queued

LEMMA QueuedTake ==
  ASSUME TypeOK, NEW w \in Workers, Take(w)
  PROVE  /\ Queued = Queued' \cup {Head(taskqueue_)}
         /\ Head(taskqueue_) \in Tasks
         /\ Len(taskqueue_) \in Nat \ {0}
         /\ Head(taskqueue_) = taskqueue_[1]
         /\ Len(taskqueue_') = Len(taskqueue_) - 1
         /\ \A i \in 1 .. Len(taskqueue_') : taskqueue_'[i] = taskqueue_[i + 1]
         /\ DOMAIN taskqueue_' = 1 .. Len(taskqueue_')
<1>1. /\ Len(taskqueue_) \in Nat \ {0} /\ taskqueue_' \in Seq(Tasks)
      /\ DOMAIN taskqueue_ = 1 .. Len(taskqueue_)
      /\ Head(taskqueue_) \in Tasks /\ Head(taskqueue_) = taskqueue_[1]
      /\ Len(taskqueue_') = Len(taskqueue_) - 1
      /\ DOMAIN taskqueue_' = 1 .. Len(taskqueue_')
      /\ \A i \in 1 .. Len(taskqueue_') : taskqueue_'[i] = taskqueue_[i + 1]
  BY HeadTailProperties, LenProperties, EmptySeq DEF TypeOK, Take
<1>2. \A i \in 1 .. Len(taskqueue_) :
         i = 1 \/ (i - 1 \in 1 .. Len(taskqueue_') /\ (i - 1) + 1 = i)
  BY <1>1
<1>3. Queued \subseteq Queued' \cup {Head(taskqueue_)}
  <2> SUFFICES ASSUME NEW i \in 1 .. Len(taskqueue_)
               PROVE  taskqueue_[i] \in Queued' \cup {Head(taskqueue_)}
    BY <1>1 DEF Queued
  <2>1. CASE i = 1
    BY <1>1, <2>1
  <2>2. CASE i # 1
    <3>1. taskqueue_'[i - 1] = taskqueue_[i]
      BY <1>1, <1>2, <2>2
    <3> QED
      BY <1>1, <1>2, <2>2, <3>1 DEF Queued
  <2> QED
    BY <2>1, <2>2
<1>4. Queued' \cup {Head(taskqueue_)} \subseteq Queued
  BY <1>1 DEF Queued
<1> QED
  BY <1>1, <1>3, <1>4

(* What a worker runs is added to Running when it takes and leaves it when *)
(* it is over.                                                             *)
LEMMA RunningTake ==
  ASSUME TypeOK, NEW w \in Workers, Take(w)
  PROVE  Running' = Running \cup {Head(taskqueue_)}
<1>1. Head(taskqueue_) \in Tasks
  BY QueuedTake
<1>2. \A v \in Workers \ {w} : pc'[v] = pc[v] /\ task'[v] = task[v]
  BY DEF Take, TypeOK
<1>3. pc[w] # "run" /\ pc'[w] = "run" /\ task'[w] = Head(taskqueue_)
  BY DEF Take, TypeOK
<1> QED
  BY <1>2, <1>3 DEF Running

LEMMA RunningFinish ==
  ASSUME TypeOK, Once, NEW w \in Workers, Finish(w)
  PROVE  /\ task[w] \in Running /\ task[w] \in Tasks
         /\ Running' = Running \ {task[w]}
<1>1. \A v \in Workers \ {w} : pc'[v] = pc[v] /\ task'[v] = task[v]
  BY DEF Finish, TypeOK
<1>2. pc[w] = "run" /\ pc'[w] # "run" /\ task[w] # None
  BY DEF Finish, TypeOK
<1>3. \A v \in Workers \ {w} : task[v] # task[w]
  BY <1>2 DEF Once
<1> QED
  BY <1>1, <1>2, <1>3 DEF Running, TypeOK

(* Every other step of a worker leaves queue and tasks alone.              *)
LEMMA OtherSteps ==
  ASSUME TypeOK,
         \/ \E t \in Tasks : Notify(t)
         \/ \E w \in Workers : \/ Enter(w) \/ Leave(w) \/ Park(w) \/ Sleep(w)
                               \/ SpuriousWakeup(w)
         \/ SetStop \/ NotifyAll \/ Joined \/ Finished \/ UNCHANGED vars
  PROVE  /\ UNCHANGED <<taskqueue_, task, Running, Queued>>
         /\ \A u \in Tasks : add'[u] # "new" <=> add[u] # "new"
<1>1. /\ UNCHANGED <<taskqueue_, task>>
      /\ \A w \in Workers : pc'[w] = "run" <=> pc[w] = "run"
  BY DEF TypeOK, Notify, Sleepers, Enter, Leave, Park, Sleep, SpuriousWakeup,
         SetStop, NotifyAll, Joined, Finished, vars
<1>2. \A u \in Tasks : add'[u] # "new" <=> add[u] # "new"
  BY DEF TypeOK, Notify, Enter, Leave, Park, Sleep, SpuriousWakeup,
         SetStop, NotifyAll, Joined, Finished, vars
<1> QED
  BY <1>1, <1>2 DEF Running, Queued

LEMMA StepOnce == TypeOK /\ Once /\ [Next]_vars => Once'
<1> SUFFICES ASSUME TypeOK, Once, [Next]_vars PROVE Once'
  OBVIOUS
<1> USE PoolAssumption
<1>1. ASSUME NEW t \in Tasks, Push(t) PROVE Once'
  <2>1. Running' = Running /\ task' = task
    BY <1>1 DEF Push, Running
  <2>2. t \notin Queued \cup Running
    BY <1>1 DEF Push, Once
  <2>3. \A i, j \in 1 .. Len(taskqueue_') :
           taskqueue_'[i] = taskqueue_'[j] => i = j
    BY <1>1, <2>2, QueuedPush DEF Once
  <2>4. \A u \in Queued' \cup Running' : add'[u] # "new"
    <3>1. /\ Queued' = Queued \cup {t} /\ Queued \subseteq Tasks
          /\ Running \subseteq Tasks
      BY <1>1, QueuedPush, QueuedTasks
    <3>2. add \in [Tasks -> {"new", "notify", "added"}]
      BY DEF TypeOK
    <3> QED
      BY <1>1, <2>1, <3>1, <3>2 DEF Push, Once
  <2> QED
    BY <1>1, <2>1, <2>2, <2>3, <2>4, QueuedPush DEF Once
<1>2. ASSUME NEW w \in Workers, Take(w) PROVE Once'
  <2>1. Head(taskqueue_) \notin Queued'
    <3> SUFFICES ASSUME NEW i \in 1 .. Len(taskqueue_')
                 PROVE  taskqueue_'[i] # Head(taskqueue_)
      BY <1>2, QueuedTake DEF Queued
    <3>1. /\ taskqueue_'[i] = taskqueue_[i + 1]
          /\ i + 1 \in 1 .. Len(taskqueue_) /\ i + 1 # 1
          /\ 1 \in 1 .. Len(taskqueue_) /\ Head(taskqueue_) = taskqueue_[1]
      BY <1>2, QueuedTake
    <3> QED
      BY <3>1 DEF Once
  <2>2. ASSUME NEW i \in 1 .. Len(taskqueue_'), NEW j \in 1 .. Len(taskqueue_'),
               taskqueue_'[i] = taskqueue_'[j]
        PROVE  i = j
    <3>1. /\ taskqueue_[i + 1] = taskqueue_[j + 1]
          /\ i + 1 \in 1 .. Len(taskqueue_) /\ j + 1 \in 1 .. Len(taskqueue_)
      BY <1>2, <2>2, QueuedTake
    <3>2. i + 1 = j + 1
      BY <3>1 DEF Once
    <3> QED
      BY <1>2, <3>2, QueuedTake
  <2>3. Head(taskqueue_) \notin Running
    BY <1>2, QueuedTake DEF Once
  <2>4. \A v \in Workers : task[v] # Head(taskqueue_)
    BY <1>2, <2>3, QueuedTasks, QueuedTake
  <2>5. \A u, v \in Workers : task'[u] = task'[v] /\ task'[u] # None => u = v
    BY <1>2, <2>4 DEF Take, TypeOK, Once
  <2>6. \A u \in Queued' \cup Running' : add'[u] # "new"
    BY <1>2, QueuedTake, RunningTake DEF Take, Once
  <2> QED
    BY <1>2, <2>1, <2>2, <2>5, <2>6, QueuedTake, RunningTake DEF Once
<1>3. ASSUME NEW w \in Workers, Finish(w) PROVE Once'
  <2>1. Queued' = Queued /\ Running' \subseteq Running
    BY <1>3, RunningFinish DEF Finish, Queued
  <2>2. \A u, v \in Workers : task'[u] = task'[v] /\ task'[u] # None => u = v
    BY <1>3 DEF Finish, TypeOK, Once
  <2> QED
    BY <1>3, <2>1, <2>2 DEF Finish, Once
<1>4. CASE \/ \E t \in Tasks : Notify(t)
           \/ \E w \in Workers : \/ Enter(w) \/ Leave(w) \/ Park(w) \/ Sleep(w)
                                 \/ SpuriousWakeup(w)
           \/ SetStop \/ NotifyAll \/ Joined \/ Finished \/ UNCHANGED vars
  BY <1>4, OtherSteps, QueuedTasks DEF Once
<1> QED
  BY <1>1, <1>2, <1>3, <1>4 DEF Next, Worker

LEMMA OnceCorrect == Spec => []Once
<1>1. Init => Once
  <2> SUFFICES ASSUME Init PROVE Once
    OBVIOUS
  <2>1. Len(taskqueue_) = 0 /\ Queued = {}
    BY EmptySeq DEF Init, Queued
  <2>2. Running = {} /\ \A w \in Workers : task[w] = None
    BY DEF Init, Running
  <2> QED
    BY <2>1, <2>2 DEF Once
<1> QED
  BY <1>1, StepOnce, TypeCorrect, PTL DEF Spec

(* A worker that takes a task is not running one: fewer tasks run than     *)
(* there are workers.                                                      *)
LEMMA RoomToRun ==
  ASSUME TypeOK, NEW w \in Workers, Take(w)
  PROVE  Cardinality(Running) < Cardinality(Workers)
<1> DEFINE Busy == {v \in Workers : pc[v] = "run"}
           Others == Workers \ {w}
           Tsk == [v \in Busy |-> task[v]]
<1>1. IsFiniteSet(Others) /\ Cardinality(Others) = Cardinality(Workers) - 1
  BY PoolAssumption, FS_RemoveElement
<1>2. Busy \subseteq Others
  BY DEF Take
<1>3. IsFiniteSet(Busy) /\ Cardinality(Busy) <= Cardinality(Others)
  BY <1>1, <1>2, FS_Subset
<1>4. Running = {task[v] : v \in Busy}
  BY DEF Running
<1>5. Tsk \in Surjection(Busy, Running)
  BY <1>4 DEF Surjection
<1>6. Cardinality(Running) <= Cardinality(Busy) /\ IsFiniteSet(Running)
  BY <1>3, <1>5, FS_Surjection
<1>7. /\ Cardinality(Workers) \in Nat /\ Cardinality(Busy) \in Nat
      /\ Cardinality(Running) \in Nat
  BY <1>3, <1>6, PoolAssumption, FS_CardinalityType
<1> HIDE DEF Busy, Others
<1> QED
  BY <1>1, <1>3, <1>6, <1>7

(* Every step of the pool is a Submit, a Start or a Finish of the abstract *)
(* service, or changes nothing it shows.                                   *)
LEMMA StepRefines ==
  TypeOK /\ Once /\ [Next]_vars => [Service!Next]_(Service!vars)
<1> SUFFICES ASSUME TypeOK, Once, [Next]_vars
             PROVE  [Service!Next]_(Service!vars)
  OBVIOUS
<1>0. /\ Over = {t \in Tasks : add[t] # "new"} \ (Running \cup Queued)
      /\ Over' = {t \in Tasks : add'[t] # "new"} \ (Running' \cup Queued')
  BY DEF Over, Queued
<1>1. ASSUME NEW t \in Tasks, Push(t) PROVE Service!Submit(t)
  <2>1. Queued' = Queued \cup {t} /\ Running' = Running
    BY <1>1, QueuedPush DEF Push, Running
  <2>2. t \notin Queued \cup Running \cup Over
    BY <1>1, <1>0 DEF Push, Once
  <2>3. Over' = Over
    BY <1>1, <1>0, <2>1, <2>2 DEF Push, TypeOK
  <2> QED
    BY <1>1, <2>1, <2>2, <2>3 DEF Push, Service!Submit, Service!Waiting, Queued
<1>2. ASSUME NEW w \in Workers, Take(w) PROVE Service!Start
  <2>1. Over' = Over
    BY <1>2, <1>0, RunningTake, QueuedTake DEF Take
  <2>2. /\ Service!Cardinality(Running) = Cardinality(Running)
        /\ Service!Cardinality(Workers) = Cardinality(Workers)
    BY DEF Cardinality, Service!Cardinality
  <2> QED
    BY <1>2, <2>1, <2>2, RunningTake, RoomToRun DEF Take, Service!Start
<1>3. ASSUME NEW w \in Workers, Finish(w) PROVE Service!Finish(task[w])
  <2>1. Queued' = Queued /\ add' = add /\ taskqueue_' = taskqueue_
    BY <1>3 DEF Finish, Queued
  <2>2. Over' = Over \cup {task[w]}
    BY <1>3, <1>0, <2>1, RunningFinish DEF Once
  <2> QED
    BY <1>3, <2>1, <2>2, RunningFinish DEF Service!Finish
<1>4. CASE \/ \E t \in Tasks : Notify(t)
           \/ \E w \in Workers : \/ Enter(w) \/ Leave(w) \/ Park(w) \/ Sleep(w)
                                 \/ SpuriousWakeup(w)
           \/ SetStop \/ NotifyAll \/ Joined \/ Finished \/ UNCHANGED vars
  BY <1>0, <1>4, OtherSteps DEF Service!vars
<1>5. ASSUME NEW w \in Workers, Finish(w)
      PROVE  \E t \in Tasks : Service!Finish(t)
  BY <1>3, <1>5, RunningFinish
<1> QED
  BY <1>1, <1>2, <1>4, <1>5 DEF Next, Worker, Service!Next

(* The pool implements the abstract task service: each task is started     *)
(* once, in the order added, with never more running than there are        *)
(* workers, whenever stop() comes.                                         *)
THEOREM Refinement == Spec => ImplementsService
<1>1. Init => Service!Init
  <2> SUFFICES ASSUME Init PROVE Service!Init
    OBVIOUS
  <2>1. Running = {} /\ Over = {} /\ taskqueue_ = <<>>
    BY DEF Init, Running, Over
  <2> QED
    BY <2>1 DEF Service!Init
<1> QED
  BY <1>1, StepRefines, TypeCorrect, OnceCorrect, PTL
  DEF Spec, ImplementsService, Service!Spec
---------------------------------------------------------------------------
(* Why stop() leaves one task to each thread at most: a task once started  *)
(* is never queued again, and only a thread past its test of stop_ can     *)
(* start another, for which it gives up being one.                         *)
Started == {t \in Tasks : add[t] # "new"} \ Queued

LEMMA StartedTasks == TypeOK /\ Once => Over \cup Running = Started
  BY QueuedTasks DEF Once, Over, Started, Queued

LEMMA BoundCounts ==
  ASSUME TypeOK, Once
  PROVE  /\ Bound = Cardinality(Started) + Cardinality(Willing)
         /\ IsFiniteSet(Started) /\ Cardinality(Started) \in Nat
         /\ IsFiniteSet(Willing) /\ Cardinality(Willing) \in Nat
<1>1. Started \subseteq Tasks /\ Willing \subseteq Workers
  BY DEF Started, Willing
<1>2. /\ IsFiniteSet(Started) /\ Cardinality(Started) \in Nat
      /\ IsFiniteSet(Willing) /\ Cardinality(Willing) \in Nat
  BY <1>1, PoolAssumption, FS_Subset, FS_CardinalityType
<1> QED
  BY <1>2, StartedTasks DEF Bound

LEMMA StepBound ==
  ASSUME TypeOK, Once, TypeOK', Once', [Next]_vars, stop_
  PROVE  Bound' <= Bound
<1>0. /\ Bound = Cardinality(Started) + Cardinality(Willing)
      /\ IsFiniteSet(Started) /\ Cardinality(Started) \in Nat
      /\ IsFiniteSet(Willing) /\ Cardinality(Willing) \in Nat
  BY BoundCounts
<1>00. Bound' = Cardinality(Started') + Cardinality(Willing')
  <2>1. (TypeOK /\ Once => Over \cup Running = Started)'
    BY StartedTasks, PTL
  <2> QED
    BY <2>1 DEF Bound
<1>1. ASSUME Started' = Started, Willing' = Willing PROVE Bound' <= Bound
  BY <1>0, <1>00, <1>1
<1>2. ASSUME NEW t \in Tasks, Push(t) PROVE Bound' <= Bound
  <2>1. Queued' = Queued \cup {t} /\ Willing' = Willing
    BY <1>2, QueuedPush DEF Push, Willing
  <2>2. Started' = Started
    BY <1>2, <2>1 DEF Push, Started, TypeOK
  <2> QED
    BY <1>1, <2>1, <2>2
<1>3. ASSUME NEW w \in Workers, Take(w) PROVE Bound' <= Bound
  <2>1. Queued = Queued' \cup {Head(taskqueue_)} /\ Head(taskqueue_) \in Tasks
    BY <1>3, QueuedTake
  <2>2. add' = add /\ add[Head(taskqueue_)] # "new"
    BY <1>3, <2>1 DEF Take, Once
  <2>3. Head(taskqueue_) \notin Queued'
    BY <1>3, RunningTake DEF Once
  <2>4. /\ Started' = Started \cup {Head(taskqueue_)}
        /\ Head(taskqueue_) \notin Started
    BY <2>1, <2>2, <2>3 DEF Started
  <2>5. Cardinality(Started') = Cardinality(Started) + 1
    BY <1>0, <2>4, FS_AddElement
  <2>6. Willing' = Willing \ {w} /\ w \in Willing
    BY <1>3 DEF Take, Willing, TypeOK
  <2>7. Cardinality(Willing') = Cardinality(Willing) - 1
    BY <1>0, <2>6, FS_RemoveElement
  <2> QED
    BY <1>0, <1>00, <2>5, <2>7
<1>4. ASSUME NEW w \in Workers, Leave(w) PROVE Bound' <= Bound
  <2>1. Started' = Started
    BY <1>4 DEF Leave, Started, Queued
  <2>2. Willing' = Willing \ {w} /\ w \in Willing
    BY <1>4 DEF Leave, Willing, TypeOK
  <2>3. Cardinality(Willing') = Cardinality(Willing) - 1
    BY <1>0, <2>2, FS_RemoveElement
  <2> QED
    BY <1>0, <1>00, <2>1, <2>3
<1>5. ASSUME NEW w \in Workers,
             \/ Enter(w) \/ Park(w) \/ Sleep(w) \/ Finish(w)
             \/ SpuriousWakeup(w)
      PROVE  Bound' <= Bound
  <2>1. Started' = Started
    BY <1>5 DEF Enter, Park, Sleep, Finish, SpuriousWakeup, Started, Queued
  <2>2. pc \in [Workers -> {"loop", "lock", "park", "wait", "run", "exit"}]
    BY DEF TypeOK
  <2>3. \A v \in Workers : pc'[v] \in {"lock", "park", "wait"}
                             <=> pc[v] \in {"lock", "park", "wait"}
    <3>1. CASE Enter(w) \/ Finish(w)
      BY <2>2, <3>1 DEF Enter, Finish
    <3>2. CASE Park(w) \/ Sleep(w) \/ SpuriousWakeup(w)
      BY <2>2, <3>2 DEF Park, Sleep, SpuriousWakeup
    <3> QED
      BY <1>5, <3>1, <3>2
  <2>4. Willing' = Willing
    BY <2>3 DEF Willing
  <2> QED
    BY <1>1, <2>1, <2>4
<1>6. CASE \/ \E t \in Tasks : Notify(t)
           \/ SetStop \/ NotifyAll \/ Joined \/ Finished \/ UNCHANGED vars
  <2>1. Queued' = Queued /\ \A u \in Tasks : add'[u] # "new" <=> add[u] # "new"
    BY <1>6, OtherSteps
  <2>2. Started' = Started
    BY <2>1 DEF Started
  <2>3. pc \in [Workers -> {"loop", "lock", "park", "wait", "run", "exit"}]
    BY DEF TypeOK
  <2>4. \A v \in Workers : pc'[v] \in {"lock", "park", "wait"}
                             <=> pc[v] \in {"lock", "park", "wait"}
    <3>1. CASE \E t \in Tasks : Notify(t)
      BY <2>3, <3>1 DEF Notify, Sleepers
    <3>2. CASE SetStop \/ NotifyAll \/ Joined \/ Finished \/ UNCHANGED vars
      BY <2>3, <3>2 DEF SetStop, NotifyAll, Joined, Finished, vars
    <3> QED
      BY <1>6, <3>1, <3>2
  <2>5. Willing' = Willing
    BY <2>4 DEF Willing
  <2> QED
    BY <1>1, <2>2, <2>5
<1> QED
  BY <1>2, <1>3, <1>4, <1>5, <1>6 DEF Next, Worker

(* After stop() each thread executes one more task at most, whatever is    *)
(* queued or still being added.                                            *)
THEOREM OneMoreTask == Spec => OneMoreEach
<1>1. /\ TypeOK /\ Once /\ TypeOK' /\ Once' /\ [Next]_vars
      => [stop_ => Bound' <= Bound]_vars
  BY StepBound
<1> QED
  BY <1>1, TypeCorrect, OnceCorrect, PTL DEF Spec, OneMoreEach
=============================================================================
