----------------------------- MODULE ThreadPool -----------------------------
(***************************************************************************)
(* ThreadPool.cpp: worker threads that wait on a condition variable for    *)
(* tasks, and stop().                                                      *)
(*                                                                         *)
(* What happens under mutex_ in one go is one step, except that a worker   *)
(* which found its wait predicate false still holds mutex_ and is not in   *)
(* the wait set yet ("park"): stop() changes stop_ and notifies without    *)
(* mutex_ and may come in between.  The same class serves the IO threads   *)
(* (tasks: EventLoop::run) and the workers (tasks: EchoServer::OnMessage). *)
(***************************************************************************)
EXTENDS Integers, Sequences, FiniteSets

CONSTANTS Workers,  \* threads_
          Tasks,    \* the tasks, each added by one addtask() call
          None      \* nobody holds mutex_; a worker has no task

ASSUME PoolAssumption ==
    /\ IsFiniteSet(Workers) /\ IsFiniteSet(Tasks)
    /\ None \notin Workers /\ None \notin Tasks

VARIABLES
    taskqueue_,  \* the tasks not taken yet
    stop_,       \* the flag stop() sets
    mutex_,      \* the parking worker that holds mutex_, or None
    pc,          \* where each worker is
    task,        \* the task a worker is executing
    add,         \* where each addtask() call is: "new", "notify", "added"
    stopper      \* where stop() is: "up", "set", "join", "stopped"

vars == <<taskqueue_, stop_, mutex_, pc, task, add, stopper>>

Init ==
    /\ taskqueue_ = <<>> /\ stop_ = FALSE /\ mutex_ = None
    /\ pc = [w \in Workers |-> "loop"]
    /\ task = [w \in Workers |-> None]
    /\ add = [t \in Tasks |-> "new"]
    /\ stopper = "up"

Sleepers == {w \in Workers : pc[w] = "wait"}
---------------------------------------------------------------------------
(* addtask()                                                               *)

(* Mutant: the newest task is put in front.                                *)
PushFront(t) ==
    /\ add[t] = "new" /\ mutex_ = None
    /\ taskqueue_' = <<t>> \o taskqueue_
    /\ add' = [add EXCEPT ![t] = "notify"]
    /\ UNCHANGED <<stop_, mutex_, pc, task, stopper>>

(* push under mutex_; nothing asks whether the pool was stopped.           *)
Push(t) ==
    /\ add[t] = "new" /\ mutex_ = None
    /\ taskqueue_' = Append(taskqueue_, t)
    /\ add' = [add EXCEPT ![t] = "notify"]
    /\ UNCHANGED <<stop_, mutex_, pc, task, stopper>>

(* Mutant: nobody is notified.                                             *)
NotifyNobody(t) ==
    /\ add[t] = "notify"
    /\ add' = [add EXCEPT ![t] = "added"]
    /\ UNCHANGED <<taskqueue_, stop_, mutex_, pc, task, stopper>>

(* notify_one, after mutex_ was released: one sleeper, if there is any.    *)
Notify(t) ==
    /\ add[t] = "notify"
    /\ add' = [add EXCEPT ![t] = "added"]
    /\ \/ Sleepers = {} /\ UNCHANGED pc
       \/ \E w \in Sleepers : pc' = [pc EXCEPT ![w] = "lock"]
    /\ UNCHANGED <<taskqueue_, stop_, mutex_, task, stopper>>

---------------------------------------------------------------------------
(* A worker thread                                                         *)

(* Mutant: while (true), for the tasks still queued.                       *)
EnterAlways(w) ==
    /\ pc[w] = "loop"
    /\ pc' = [pc EXCEPT ![w] = "lock"]
    /\ UNCHANGED <<taskqueue_, stop_, mutex_, task, add, stopper>>

(* while (stop_ == false)                                                  *)
Enter(w) ==
    /\ pc[w] = "loop"
    /\ pc' = [pc EXCEPT ![w] = IF stop_ THEN "exit" ELSE "lock"]
    /\ UNCHANGED <<taskqueue_, stop_, mutex_, task, add, stopper>>

(* A worker that gets mutex_, first or after a wakeup, takes a task ...    *)
Take(w) ==
    /\ pc[w] = "lock" /\ mutex_ = None
    /\ taskqueue_ # <<>>
    /\ task' = [task EXCEPT ![w] = Head(taskqueue_)]
    /\ taskqueue_' = Tail(taskqueue_)
    /\ pc' = [pc EXCEPT ![w] = "run"]
    /\ UNCHANGED <<stop_, mutex_, add, stopper>>

(* ... or leaves, when there is none and the pool was stopped, ...         *)
Leave(w) ==
    /\ pc[w] = "lock" /\ mutex_ = None
    /\ taskqueue_ = <<>> /\ stop_
    /\ pc' = [pc EXCEPT ![w] = "exit"]
    /\ UNCHANGED <<taskqueue_, stop_, mutex_, task, add, stopper>>

(* Mutant: wait() is entered without mutex_ being held.                    *)
ParkUnlocked(w) ==
    /\ pc[w] = "lock" /\ mutex_ = None
    /\ taskqueue_ = <<>> /\ ~stop_
    /\ pc' = [pc EXCEPT ![w] = "park"]
    /\ UNCHANGED <<taskqueue_, stop_, mutex_, task, add, stopper>>

(* ... or found the predicate false and is going to sleep.                 *)
Park(w) ==
    /\ pc[w] = "lock" /\ mutex_ = None
    /\ taskqueue_ = <<>> /\ ~stop_
    /\ mutex_' = w
    /\ pc' = [pc EXCEPT ![w] = "park"]
    /\ UNCHANGED <<taskqueue_, stop_, task, add, stopper>>

(* Mutant: wait() goes to sleep with mutex_ still held.                    *)
SleepLocked(w) ==
    /\ pc[w] = "park"
    /\ pc' = [pc EXCEPT ![w] = "wait"]
    /\ UNCHANGED <<taskqueue_, stop_, mutex_, task, add, stopper>>

(* wait() releases mutex_ and sleeps.                                      *)
Sleep(w) ==
    /\ pc[w] = "park"
    /\ mutex_' = None
    /\ pc' = [pc EXCEPT ![w] = "wait"]
    /\ UNCHANGED <<taskqueue_, stop_, task, add, stopper>>

(* A condition variable may wake up without a notification.                *)
SpuriousWakeup(w) ==
    /\ pc[w] = "wait"
    /\ pc' = [pc EXCEPT ![w] = "lock"]
    /\ UNCHANGED <<taskqueue_, stop_, mutex_, task, add, stopper>>

(* The task is over.                                                       *)
Finish(w) ==
    /\ pc[w] = "run"
    /\ task' = [task EXCEPT ![w] = None]
    /\ pc' = [pc EXCEPT ![w] = "loop"]
    /\ UNCHANGED <<taskqueue_, stop_, mutex_, add, stopper>>

Worker(w) == \/ Enter(w) \/ Take(w) \/ Leave(w) \/ Park(w) \/ Sleep(w)
             \/ Finish(w)

---------------------------------------------------------------------------
(* stop()                                                                  *)

SetStop ==
    /\ stopper = "up"
    /\ stop_' = TRUE /\ stopper' = "set"
    /\ UNCHANGED <<taskqueue_, mutex_, pc, task, add>>

NotifyAll ==
    /\ stopper = "set"
    /\ pc' = [w \in Workers |-> IF pc[w] = "wait" THEN "lock" ELSE pc[w]]
    /\ stopper' = "join"
    /\ UNCHANGED <<taskqueue_, stop_, mutex_, task, add>>

(* Every thread was joined.  The destructor calls stop() once more, which  *)
(* then returns at once.                                                   *)
Joined ==
    /\ stopper = "join"
    /\ \A w \in Workers : pc[w] = "exit"
    /\ stopper' = "stopped"
    /\ UNCHANGED <<taskqueue_, stop_, mutex_, pc, task, add>>

Finished ==
    /\ stopper = "stopped" /\ \A t \in Tasks : add[t] = "added"
    /\ UNCHANGED vars

Next ==
    \/ \E t \in Tasks : Push(t) \/ Notify(t)
    \/ \E w \in Workers : Worker(w) \/ SpuriousWakeup(w)
    \/ SetStop \/ NotifyAll \/ Joined
    \/ Finished

Spec == Init /\ [][Next]_vars

(* Every thread runs on when it can, and a call of addtask() or stop()     *)
(* that has begun goes on.  Nobody has to begin one, and no spurious       *)
(* wakeup has to come.                                                     *)
Fairness ==
    /\ \A t \in Tasks : WF_vars(Notify(t))
    /\ \A w \in Workers : WF_vars(Worker(w))
    /\ WF_vars(NotifyAll) /\ WF_vars(Joined)

FairSpec == Spec /\ Fairness

---------------------------------------------------------------------------
(* Properties                                                              *)

TypeOK ==
    /\ taskqueue_ \in Seq(Tasks)
    /\ stop_ \in BOOLEAN
    /\ mutex_ \in Workers \cup {None}
    /\ \A w \in Workers : mutex_ = w <=> pc[w] = "park"
    /\ pc \in [Workers -> {"loop", "lock", "park", "wait", "run", "exit"}]
    /\ task \in [Workers -> Tasks \cup {None}]
    /\ \A w \in Workers : task[w] # None <=> pc[w] = "run"
    /\ add \in [Tasks -> {"new", "notify", "added"}]
    /\ stopper \in {"up", "set", "join", "stopped"}

(* addtask() notifies after it has let go of mutex_ and the notification   *)
(* may find nobody asleep: still, as long as a worker sleeps, every queued *)
(* task has a notification under way or an awake worker of its own.        *)
Notifying == {t \in Tasks : add[t] = "notify"}
Awake == {w \in Workers : pc[w] = "lock"}
NoTaskSleptOver ==
    Sleepers # {} =>
        Len(taskqueue_) <= Cardinality(Notifying) + Cardinality(Awake)

(* Tasks are started in the order they were added, each at most once, and  *)
(* finished before their worker takes another.                             *)
Running == {task[w] : w \in {v \in Workers : pc[v] = "run"}}
Over == {t \in Tasks : add[t] # "new"}
            \ (Running \cup {taskqueue_[i] : i \in DOMAIN taskqueue_})
Service == INSTANCE TaskService WITH
    queue <- taskqueue_, running <- Running, done <- Over,
    Width <- Cardinality(Workers)
ImplementsService == Service!Spec

(* A task that was added gets executed unless the pool is stopped.         *)
Executed ==
    \A t \in Tasks : add[t] # "new" ~> (t \in Over \/ stop_)

(* Tasks still queued when stop_ is set are left behind, except that a     *)
(* thread past its test of stop_ takes one more: from then on, the tasks   *)
(* started and the threads that may still start one never become more.     *)
Willing == {w \in Workers : pc[w] \in {"lock", "park", "wait"}}
Bound   == Cardinality(Over \cup Running) + Cardinality(Willing)
OneMoreEach == [][stop_ => Bound' <= Bound]_vars

(* ThreadPool.cpp:70, stop() waits until all tasks have been executed: a   *)
(* task added before stop_ was set is over once stop() has returned.       *)
StopAwaitsTasks ==
    \A t \in Tasks :
        [](add[t] # "new" /\ ~stop_ => [](stopper = "stopped" => t \in Over))

(* ThreadPool.h:29, once stop_ is true all threads exit: stop() returns.   *)
StopReturns == stop_ ~> stopper = "stopped"
=============================================================================
