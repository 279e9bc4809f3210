------------------------------- MODULE Logger -------------------------------
(***************************************************************************)
(* Logger.cpp: callers put records into a queue, a thread writes them to a *)
(* file, the destructor has it write what is left and joins it.            *)
(*                                                                         *)
(* The log thread holds logMutex from the test of its wait predicate until *)
(* it sleeps or has emptied the queue (Locked); whatever the others do     *)
(* under logMutex is one step.                                             *)
(***************************************************************************)
EXTENDS Naturals, Sequences, FiniteSets

CONSTANTS Records,  \* what is logged, each record by one call of log()
          Level     \* the LogLevel of each record: 0 INFO .. 2 ERROR

ASSUME LogAssumption == IsFiniteSet(Records) /\ Level \in [Records -> 0 .. 2]

VARIABLES
    logLevel,           \* records below it are not logged
    logQueue,           \* records not written yet, oldest first
    exitLoggingThread,  \* set by the destructor
    isopen,             \* logFile.is_open()
    file,               \* what was written to the log files
    call,               \* log(): "new", "push", "notify", "logged", "skipped"
    pc,                 \* where the log thread is
    dtor,               \* where ~Logger is: "up", "join", "gone"
    failed              \* history: a log file could once not be opened

callers == <<logLevel, call, dtor>>
vars    == <<logQueue, exitLoggingThread, isopen, file, pc, failed, callers>>

(* openNewLogFile closes the file, whether or not it can open another.     *)
openNewLogFile ==
    \E ok \in BOOLEAN : isopen' = ok /\ failed' = (failed \/ ~ok)

(* The constructor opens a file before it starts the thread.               *)
Init ==
    /\ logLevel = 0 /\ logQueue = <<>> /\ exitLoggingThread = FALSE
    /\ isopen \in BOOLEAN /\ failed = ~isopen
    /\ file = <<>>
    /\ call = [r \in Records |-> "new"]
    /\ pc = "lock" /\ dtor = "up"

Locked == pc \in {"park", "drain", "pop"}
---------------------------------------------------------------------------
(* The callers.  Calls may go on during the destructor, but not after it.  *)

setLogLevel(level) ==
    /\ dtor # "gone" /\ logLevel' = level
    /\ UNCHANGED <<logQueue, exitLoggingThread, isopen, file, pc, failed,
                   call, dtor>>

setOutputDirectory ==
    /\ dtor # "gone" /\ ~Locked
    /\ openNewLogFile
    /\ UNCHANGED <<logQueue, exitLoggingThread, file, pc, callers>>

(* log() looks at the level before it takes logMutex.                      *)
CheckLevel(r) ==
    /\ dtor # "gone" /\ call[r] = "new"
    /\ call' = [call EXCEPT ![r] =
                   IF Level[r] >= logLevel THEN "push" ELSE "skipped"]
    /\ UNCHANGED <<logLevel, logQueue, exitLoggingThread, isopen, file, pc,
                   dtor, failed>>

(* Mutant: the newest record is put in front.                              *)
PushFront(r) ==
    /\ dtor # "gone" /\ call[r] = "push" /\ ~Locked
    /\ logQueue' = <<r>> \o logQueue
    /\ call' = [call EXCEPT ![r] = "notify"]
    /\ UNCHANGED <<logLevel, exitLoggingThread, isopen, file, pc, dtor, failed>>

(* asyncLog: the record is put into the queue, ...                         *)
Push(r) ==
    /\ dtor # "gone" /\ call[r] = "push" /\ ~Locked
    /\ logQueue' = Append(logQueue, r)
    /\ call' = [call EXCEPT ![r] = "notify"]
    /\ UNCHANGED <<logLevel, exitLoggingThread, isopen, file, pc, dtor, failed>>

Woken == IF pc = "wait" THEN "lock" ELSE pc

(* ... and the thread is notified, after logMutex was released.            *)
Notify(r) ==
    /\ dtor # "gone" /\ call[r] = "notify"
    /\ call' = [call EXCEPT ![r] = "logged"]
    /\ pc' = Woken
    /\ UNCHANGED <<logLevel, logQueue, exitLoggingThread, isopen, file, dtor,
                   failed>>

(* Mutant: the flag is set without logMutex.                               *)
DestroyUnlocked ==
    /\ dtor = "up"
    /\ exitLoggingThread' = TRUE /\ pc' = Woken
    /\ dtor' = "join"
    /\ UNCHANGED <<logLevel, logQueue, isopen, file, call, failed>>

(* ~Logger sets the flag and notifies under logMutex, ...                  *)
Destroy ==
    /\ dtor = "up" /\ ~Locked
    /\ exitLoggingThread' = TRUE /\ pc' = Woken
    /\ dtor' = "join"
    /\ UNCHANGED <<logLevel, logQueue, isopen, file, call, failed>>

(* ... waits for the thread to end, and closes the file.                   *)
Joined ==
    /\ dtor = "join" /\ pc = "exited"
    /\ dtor' = "gone" /\ isopen' = FALSE
    /\ UNCHANGED <<logLevel, logQueue, exitLoggingThread, file, call, pc,
                   failed>>

---------------------------------------------------------------------------
(* logThreadFunction                                                       *)

(* Mutant: the predicate does not ask for the queue.                       *)
LockExitOnly ==
    /\ pc = "lock"
    /\ pc' = IF exitLoggingThread THEN "drain" ELSE "park"
    /\ UNCHANGED <<logQueue, exitLoggingThread, isopen, file, failed, callers>>

(* logMutex is taken, first or after a wakeup, and the predicate tested.   *)
Lock ==
    /\ pc = "lock"
    /\ pc' = IF logQueue # <<>> \/ exitLoggingThread THEN "drain" ELSE "park"
    /\ UNCHANGED <<logQueue, exitLoggingThread, isopen, file, failed, callers>>

Sleep ==
    /\ pc = "park" /\ pc' = "wait"
    /\ UNCHANGED <<logQueue, exitLoggingThread, isopen, file, failed, callers>>

SpuriousWakeup ==
    /\ pc = "wait" /\ pc' = "lock"
    /\ UNCHANGED <<logQueue, exitLoggingThread, isopen, file, failed, callers>>

(* Mutant: a do-while loop, which pops before it asks for the queue.       *)
WriteUnasked ==
    /\ pc = "drain"
    /\ \/ isopen /\ openNewLogFile
       \/ UNCHANGED <<isopen, failed>>
    /\ file' = IF isopen' /\ logQueue # <<>>
               THEN Append(file, Head(logQueue)) ELSE file
    /\ pc' = "pop"
    /\ UNCHANGED <<logQueue, exitLoggingThread, callers>>

(* Mutant: the record that finds the file too large is not written.        *)
WriteOrRotate ==
    /\ pc = "drain" /\ logQueue # <<>>
    /\ \/ isopen /\ openNewLogFile /\ UNCHANGED file
       \/ /\ file' = IF isopen THEN Append(file, Head(logQueue)) ELSE file
          /\ UNCHANGED <<isopen, failed>>
    /\ pc' = "pop"
    /\ UNCHANGED <<logQueue, exitLoggingThread, callers>>

(* checkLogRotation opens another file when an open one has become too     *)
(* large (tellp() is a choice); the oldest record is written if there is   *)
(* a file after that, ...                                                  *)
Write ==
    /\ pc = "drain" /\ logQueue # <<>>
    /\ \/ isopen /\ openNewLogFile
       \/ UNCHANGED <<isopen, failed>>
    /\ file' = IF isopen' THEN Append(file, Head(logQueue)) ELSE file
    /\ pc' = "pop"
    /\ UNCHANGED <<logQueue, exitLoggingThread, callers>>

(* ... and popped in either case.                                          *)
Pop ==
    /\ pc = "pop"
    /\ logQueue' = Tail(logQueue) /\ pc' = "drain"
    /\ UNCHANGED <<exitLoggingThread, isopen, file, failed, callers>>

(* Mutant: the thread leaves without a look at the queue.                  *)
DrainedOrLeft ==
    /\ pc = "drain" /\ (logQueue = <<>> \/ exitLoggingThread)
    /\ pc' = IF exitLoggingThread THEN "exited" ELSE "lock"
    /\ UNCHANGED <<logQueue, exitLoggingThread, isopen, file, failed, callers>>

(* The queue is empty: logMutex is released.                               *)
Drained ==
    /\ pc = "drain" /\ logQueue = <<>>
    /\ pc' = IF exitLoggingThread THEN "exited" ELSE "lock"
    /\ UNCHANGED <<logQueue, exitLoggingThread, isopen, file, failed, callers>>

logThread == Lock \/ Sleep \/ Write \/ Pop \/ Drained

Gone == dtor = "gone" /\ UNCHANGED vars

Next ==
    \/ \E level \in 0 .. 2 : setLogLevel(level)
    \/ setOutputDirectory
    \/ \E r \in Records : CheckLevel(r) \/ Push(r) \/ Notify(r)
    \/ Destroy \/ Joined
    \/ logThread \/ SpuriousWakeup
    \/ Gone

Spec == Init /\ [][Next]_vars

(* The log thread and a notify_one that is due go on, and the destructor   *)
(* once it has begun.                                                      *)
Fairness == /\ WF_vars(logThread) /\ WF_vars(Joined)
            /\ \A r \in Records : WF_vars(Notify(r))

FairSpec == Spec /\ Fairness
---------------------------------------------------------------------------
(* Properties                                                              *)

TypeOK ==
    /\ logLevel \in 0 .. 2
    /\ logQueue \in Seq(Records)
    /\ exitLoggingThread \in BOOLEAN
    /\ isopen \in BOOLEAN /\ failed \in BOOLEAN
    /\ file \in Seq(Records)
    /\ call \in [Records -> {"new", "push", "notify", "logged", "skipped"}]
    /\ pc \in {"lock", "park", "wait", "drain", "pop", "exited"}
    /\ pc = "pop" => logQueue # <<>>
    /\ dtor \in {"up", "join", "gone"}
    /\ exitLoggingThread <=> dtor # "up"

(* The thread never sleeps with a record in the queue unless the notify of *)
(* some asyncLog is still to come, and never once the destructor has begun.*)
NoRecordSleptOver ==
    pc = "wait" => /\ logQueue # <<>> => \E r \in Records : call[r] = "notify"
                   /\ ~exitLoggingThread

(* Records are dealt with in the order of the pushes, each once.           *)
Pushed  == {r \in Records : call[r] \in {"notify", "logged"}}
Current == IF pc = "pop" THEN {Head(logQueue)} ELSE {}
Later   == IF pc = "pop" THEN Tail(logQueue) ELSE logQueue
Service == INSTANCE TaskService WITH
    Tasks <- Records, Width <- 1, queue <- Later, running <- Current,
    done <- Pushed \ (Current \cup {Later[i] : i \in DOMAIN Later})
ImplementsService == Service!Spec

(* No record gets into the files twice, none is both there and still to be *)
(* dealt with, and none is lost between the queue and the files, across    *)
(* every rotation and the destructor, unless a file could not be opened.   *)
Filed   == {file[i] : i \in DOMAIN file}
Waiting == {Later[i] : i \in DOMAIN Later}
FiledOnce ==
    /\ \A i, j \in DOMAIN file : file[i] = file[j] => i = j
    /\ Filed \cap Waiting = {} /\ Filed \cup Waiting \subseteq Pushed
    /\ failed \/ Pushed = Filed \cup Waiting

(* What was pushed before the destructor gets into a file, across every    *)
(* rotation and although the destructor ends the thread, as long as files  *)
(* can be opened.                                                          *)
Written == \A r \in Records :
    (r \in Pushed /\ ~exitLoggingThread) ~>
        (failed \/ r \in Filed)

(* ~Logger does not wait for ever.                                         *)
JoinReturns == dtor = "join" ~> dtor = "gone"
=============================================================================
