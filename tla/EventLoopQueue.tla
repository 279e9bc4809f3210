--------------------------- MODULE EventLoopQueue ---------------------------
(***************************************************************************)
(* EventLoop.cpp: the way into a loop from other threads, queueinloop()    *)
(* and stop(), which wake epoll_wait through an eventfd, and run() with    *)
(* handlewakeup() on the loop's own thread.                                *)
(*                                                                         *)
(* The eventfd is registered level triggered: epoll_wait reports it while  *)
(* its counter is not 0, and read() takes the whole counter.  Of the other *)
(* events of the loop only their effect on this path is kept: epoll_wait   *)
(* may return with or without the wakeup event.                            *)
(***************************************************************************)
EXTENDS Naturals, Sequences, FiniteSets

CONSTANTS Tasks,  \* the functions queued, each by one queueinloop() call
          None

ASSUME QueueAssumption == None \notin Tasks

VARIABLES
    taskqueue_,  \* functions queued for the loop's thread
    wakeupfd_,   \* the counter of the eventfd
    stop_,       \* the flag stop() sets
    add,         \* each queueinloop() call: "new", "wakeup", "queued"
    stopper,     \* the stop() call: "up", "wakeup", "stopped"
    pc,          \* where run() is
    fn           \* the function the loop's thread is executing

vars == <<taskqueue_, wakeupfd_, stop_, add, stopper, pc, fn>>

Init ==
    /\ taskqueue_ = <<>> /\ wakeupfd_ = 0 /\ stop_ = FALSE
    /\ add = [t \in Tasks |-> "new"]
    /\ stopper = "up"
    /\ pc = "check" /\ fn = None

(* handlewakeup() holds mutex_ while it empties the queue, through the     *)
(* execution of every function.                                            *)
Locked == pc \in {"drain", "run"}
---------------------------------------------------------------------------
(* queueinloop(), from any other thread                                    *)

(* Mutant: the newest function is put in front.                            *)
PushFront(t) ==
    /\ add[t] = "new" /\ ~Locked
    /\ taskqueue_' = <<t>> \o taskqueue_
    /\ add' = [add EXCEPT ![t] = "wakeup"]
    /\ UNCHANGED <<wakeupfd_, stop_, stopper, pc, fn>>

Push(t) ==
    /\ add[t] = "new" /\ ~Locked
    /\ taskqueue_' = Append(taskqueue_, t)
    /\ add' = [add EXCEPT ![t] = "wakeup"]
    /\ UNCHANGED <<wakeupfd_, stop_, stopper, pc, fn>>

(* wakeup(), after mutex_ was released.                                    *)
Wakeup(t) ==
    /\ add[t] = "wakeup"
    /\ wakeupfd_' = wakeupfd_ + 1
    /\ add' = [add EXCEPT ![t] = "queued"]
    /\ UNCHANGED <<taskqueue_, stop_, stopper, pc, fn>>

---------------------------------------------------------------------------
(* stop()                                                                  *)

SetStop ==
    /\ stopper = "up"
    /\ stop_' = TRUE /\ stopper' = "wakeup"
    /\ UNCHANGED <<taskqueue_, wakeupfd_, add, pc, fn>>

(* Mutant: stop() without the wakeup.                                      *)
StopQuietly ==
    /\ stopper = "wakeup"
    /\ stopper' = "stopped"
    /\ UNCHANGED <<taskqueue_, wakeupfd_, stop_, add, pc, fn>>

StopWakeup ==
    /\ stopper = "wakeup"
    /\ wakeupfd_' = wakeupfd_ + 1
    /\ stopper' = "stopped"
    /\ UNCHANGED <<taskqueue_, stop_, add, pc, fn>>

---------------------------------------------------------------------------
(* run() on the loop's thread                                              *)

(* Mutant: the eventfd is read once more after mutex_ was released.        *)
CheckStopAndRead ==
    /\ pc = "check"
    /\ wakeupfd_' = 0
    /\ pc' = IF stop_ THEN "exit" ELSE "epoll"
    /\ UNCHANGED <<taskqueue_, stop_, add, stopper, fn>>

(* while (!stop_)                                                          *)
CheckStop ==
    /\ pc = "check"
    /\ pc' = IF stop_ THEN "exit" ELSE "epoll"
    /\ UNCHANGED <<taskqueue_, wakeupfd_, stop_, add, stopper, fn>>

(* epoll_wait reports the eventfd; handlewakeup is called.                 *)
WakeEvent ==
    /\ pc = "epoll" /\ wakeupfd_ > 0
    /\ pc' = "read"
    /\ UNCHANGED <<taskqueue_, wakeupfd_, stop_, add, stopper, fn>>

(* Nothing for 10 seconds, or events of other channels only.               *)
OtherEvents ==
    /\ pc = "epoll" /\ wakeupfd_ = 0
    /\ pc' = "check"
    /\ UNCHANGED <<taskqueue_, wakeupfd_, stop_, add, stopper, fn>>

(* Mutant: the eventfd is never read.                                      *)
IgnoreWakeup ==
    /\ pc = "read"
    /\ pc' = "drain"
    /\ UNCHANGED <<taskqueue_, wakeupfd_, stop_, add, stopper, fn>>

(* read() of the eventfd comes first, then mutex_ is taken.                *)
ReadWakeup ==
    /\ pc = "read"
    /\ wakeupfd_' = 0
    /\ pc' = "drain"
    /\ UNCHANGED <<taskqueue_, stop_, add, stopper, fn>>

RunNext ==
    /\ pc = "drain" /\ taskqueue_ # <<>>
    /\ fn' = Head(taskqueue_)
    /\ taskqueue_' = Tail(taskqueue_)
    /\ pc' = "run"
    /\ UNCHANGED <<wakeupfd_, stop_, add, stopper>>

(* Mutant: the function is kept.                                           *)
RunDoneKeep ==
    /\ pc = "run"
    /\ pc' = "drain"
    /\ UNCHANGED <<taskqueue_, wakeupfd_, stop_, add, stopper, fn>>

(* Mutant: one function per wakeup, the queue is not emptied.              *)
RunDoneOnce ==
    /\ pc = "run"
    /\ fn' = None /\ pc' = "check"
    /\ UNCHANGED <<taskqueue_, wakeupfd_, stop_, add, stopper>>

RunDone ==
    /\ pc = "run"
    /\ fn' = None /\ pc' = "drain"
    /\ UNCHANGED <<taskqueue_, wakeupfd_, stop_, add, stopper>>

Drained ==
    /\ pc = "drain" /\ taskqueue_ = <<>>
    /\ pc' = "check"
    /\ UNCHANGED <<taskqueue_, wakeupfd_, stop_, add, stopper, fn>>

Loop == CheckStop \/ WakeEvent \/ ReadWakeup \/ RunNext \/ RunDone \/ Drained

Finished ==
    /\ pc = "exit" /\ stopper = "stopped"
    /\ \A t \in Tasks : add[t] = "queued"
    /\ UNCHANGED vars

Next ==
    \/ \E t \in Tasks : Push(t) \/ Wakeup(t)
    \/ SetStop \/ StopWakeup
    \/ Loop \/ OtherEvents
    \/ Finished

Spec == Init /\ [][Next]_vars

(* The loop's thread runs, and a call that has begun goes on.  No fairness *)
(* for OtherEvents: neither the timeout of epoll_wait nor another event is *)
(* needed for anything below.                                              *)
Fairness ==
    /\ WF_vars(Loop) /\ WF_vars(StopWakeup)
    /\ \A t \in Tasks : WF_vars(Wakeup(t))

FairSpec == Spec /\ Fairness

---------------------------------------------------------------------------
(* Properties                                                              *)

TypeOK ==
    /\ taskqueue_ \in Seq(Tasks)
    /\ wakeupfd_ \in Nat
    /\ stop_ \in BOOLEAN
    /\ add \in [Tasks -> {"new", "wakeup", "queued"}]
    /\ stopper \in {"up", "wakeup", "stopped"}
    /\ pc \in {"check", "epoll", "read", "drain", "run", "exit"}
    /\ fn \in Tasks \cup {None} /\ (fn # None <=> pc = "run")

(* The loop never goes into epoll_wait with a function queued and no       *)
(* wakeup in the eventfd or on its way there: producers write after the    *)
(* push, the loop reads before it takes mutex_.  Nor does it after stop()  *)
(* has set stop_: the loop reads the wakeup of stop() only on a way to the *)
(* test of stop_.                                                          *)
NoTaskSleptOver ==
    /\ taskqueue_ # <<>> =>
           \/ wakeupfd_ > 0
           \/ \E t \in Tasks : add[t] = "wakeup"
           \/ pc \in {"drain", "run"}
    /\ stop_ /\ pc = "epoll" => wakeupfd_ > 0 \/ stopper = "wakeup"

(* Functions run on the loop's thread one by one, in the order queued.     *)
Running == {fn} \ {None}
Over == {t \in Tasks : add[t] # "new"}
            \ (Running \cup {taskqueue_[i] : i \in DOMAIN taskqueue_})
Service == INSTANCE TaskService WITH
    queue <- taskqueue_, running <- Running, done <- Over, Width <- 1
ImplementsService == Service!Spec

(* A queued function is executed, unless the loop is stopped.              *)
Executed == \A t \in Tasks : add[t] # "new" ~> (t \in Over \/ stop_)

(* EventLoop.cpp:63: thanks to the wakeup the loop stops without waiting   *)
(* for the timer or for the timeout of epoll_wait.                         *)
StopsPromptly == stop_ ~> pc = "exit"

(* EventLoop.cpp:118: the wakeup event is read, so it does not fire for    *)
(* ever once there is nothing left to wake up for.                         *)
WakeupsSettle == <>[](wakeupfd_ = 0 \/ pc = "exit")
=============================================================================
