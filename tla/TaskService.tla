---------------------------- MODULE TaskService ----------------------------
(***************************************************************************)
(* What ThreadPool::addtask and EventLoop::queueinloop promise alike: a    *)
(* task handed over is started once, in the order of the handing over, by  *)
(* one of Width threads, and is over before its thread starts another.     *)
(* ThreadPool and EventLoopQueue implement this specification, and so does *)
(* the logger, whose tasks are its records.                                *)
(***************************************************************************)
EXTENDS Naturals, Sequences, FiniteSets

CONSTANTS Tasks,  \* the tasks, each handed over at most once
          Width   \* how many may run at the same time

VARIABLES queue,    \* tasks handed over and not started, oldest first
          running,  \* tasks started and not finished
          done      \* tasks finished

vars == <<queue, running, done>>

Init == queue = <<>> /\ running = {} /\ done = {}

Waiting == {queue[i] : i \in DOMAIN queue}

Submit(t) ==
    /\ t \notin Waiting \cup running \cup done
    /\ queue' = Append(queue, t)
    /\ UNCHANGED <<running, done>>

Start ==
    /\ queue # <<>> /\ Cardinality(running) < Width
    /\ queue' = Tail(queue)
    /\ running' = running \cup {Head(queue)}
    /\ UNCHANGED done

Finish(t) ==
    /\ t \in running
    /\ running' = running \ {t}
    /\ done' = done \cup {t}
    /\ UNCHANGED queue

Next == Start \/ \E t \in Tasks : Submit(t) \/ Finish(t)

Spec == Init /\ [][Next]_vars
=============================================================================
