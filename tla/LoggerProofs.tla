---------------------------- MODULE LoggerProofs ----------------------------
(***************************************************************************)
(* For any finite set of records, whatever their levels: the types of      *)
(* Logger, that its thread never sleeps over a record or over the          *)
(* destructor, that it implements TaskService, and that the files get each *)
(* record once.                                                            *)
(***************************************************************************)
EXTENDS Logger, SequenceTheorems, FiniteSetTheorems, TLAPS

(* Every step of the callers, the log thread and ~Logger keeps the types.  *)
THEOREM TypeCorrect == Spec => []TypeOK
<1>1. Init => TypeOK
  <2> SUFFICES ASSUME Init PROVE TypeOK
    OBVIOUS
  <2>1. <<>> \in Seq(Records) /\ 0 \in 0 .. 2
    BY SMT, EmptySeq
  <2>2. failed \in BOOLEAN /\ exitLoggingThread \in BOOLEAN
    BY DEF Init
  <2> QED
    BY <2>1, <2>2 DEF Init, TypeOK
<1>2. TypeOK /\ [Next]_vars => TypeOK'
  <2> SUFFICES ASSUME TypeOK, [Next]_vars PROVE TypeOK'
    OBVIOUS
  <2> USE DEF TypeOK, callers
  <2>1. CASE \E level \in 0 .. 2 : setLogLevel(level)
    BY <2>1 DEF setLogLevel
  <2>2. CASE setOutputDirectory
    <3>1. isopen' \in BOOLEAN /\ failed' \in BOOLEAN
      BY <2>2 DEF setOutputDirectory, openNewLogFile
    <3> QED
      BY <2>2, <3>1 DEF setOutputDirectory
  <2>3. ASSUME NEW r \in Records, CheckLevel(r) \/ Notify(r) PROVE TypeOK'
    BY <2>3 DEF CheckLevel, Notify, Woken
  <2>4. ASSUME NEW r \in Records, Push(r) PROVE TypeOK'
    BY <2>4, AppendProperties DEF Push, Locked
  <2>5. CASE Destroy
    <3>1. exitLoggingThread' = TRUE /\ dtor' = "join"
      BY <2>5 DEF Destroy
    <3> QED
      BY <2>5, <3>1 DEF Destroy, Woken
  <2>6. CASE Joined
    <3>1. isopen' \in BOOLEAN /\ (exitLoggingThread' <=> dtor' # "up")
      BY <2>6 DEF Joined
    <3> QED
      BY <2>6, <3>1 DEF Joined
  <2>7. CASE Lock \/ Sleep \/ Drained \/ SpuriousWakeup
    BY <2>7 DEF Lock, Sleep, Drained, SpuriousWakeup
  <2>8. CASE Write
    <3>1. isopen' \in BOOLEAN /\ failed' \in BOOLEAN
      BY <2>8 DEF Write, openNewLogFile
    <3>2. Head(logQueue) \in Records
      BY <2>8, HeadTailProperties DEF Write
    <3>3. file' \in Seq(Records)
      BY <2>8, <3>2, AppendProperties DEF Write
    <3> QED
      BY <2>8, <3>1, <3>3 DEF Write
  <2>9. CASE Pop
    BY <2>9, HeadTailProperties DEF Pop
  <2>10. CASE UNCHANGED vars \/ Gone
    BY <2>10 DEF vars, Gone
  <2> QED
    BY <2>1, <2>2, <2>3, <2>4, <2>5, <2>6, <2>7, <2>8, <2>9, <2>10
    DEF Next, logThread
<1> QED
  BY <1>1, <1>2, PTL DEF Spec

---------------------------------------------------------------------------
(* Between the test of the predicate and the sleep logMutex is held: what  *)
(* the test found is still so.                                             *)
ParkedIdle == pc = "park" => logQueue = <<>> /\ ~exitLoggingThread

(* The log thread never sleeps with a record in the queue for which no     *)
(* notification is to come, nor after ~Logger has begun.                   *)
THEOREM NeverSleptOver == Spec => []NoRecordSleptOver
<1> DEFINE IInv == NoRecordSleptOver /\ ParkedIdle
<1>1. Init => IInv
  BY DEF Init, NoRecordSleptOver, ParkedIdle
<1>2. TypeOK /\ IInv /\ [Next]_vars => IInv'
  <2> SUFFICES ASSUME TypeOK, IInv, [Next]_vars PROVE IInv'
    OBVIOUS
  <2> USE DEF TypeOK, NoRecordSleptOver, ParkedIdle, callers
  <2>1. CASE \/ \E level \in 0 .. 2 : setLogLevel(level)
             \/ setOutputDirectory \/ UNCHANGED vars \/ Gone
    BY <2>1 DEF setLogLevel, setOutputDirectory, vars, Gone
  <2>2. ASSUME NEW r \in Records, CheckLevel(r) PROVE IInv'
    BY <2>2 DEF CheckLevel
  <2>3. ASSUME NEW r \in Records, Push(r) PROVE IInv'
    BY <2>3 DEF Push, Locked
  <2>4. ASSUME NEW r \in Records, Notify(r) PROVE IInv'
    BY <2>4 DEF Notify, Woken
  <2>5. CASE Destroy \/ Joined
    BY <2>5 DEF Destroy, Joined, Woken, Locked
  <2>6. CASE logThread \/ SpuriousWakeup
    BY <2>6 DEF logThread, Lock, Sleep, Write, Pop, Drained, SpuriousWakeup
  <2> QED
    BY <2>1, <2>2, <2>3, <2>4, <2>5, <2>6 DEF Next
<1>3. IInv => NoRecordSleptOver
  OBVIOUS
<1> QED
  BY <1>1, <1>2, <1>3, TypeCorrect, PTL DEF Spec
---------------------------------------------------------------------------
(* Why the logger implements the task service: a record is in the queue    *)
(* once, and was pushed.                                                   *)
Queued == {logQueue[i] : i \in DOMAIN logQueue}

Once ==
    /\ \A i, j \in 1 .. Len(logQueue) : logQueue[i] = logQueue[j] => i = j
    /\ Queued \subseteq Pushed

LEMMA QueuedPush ==
  ASSUME TypeOK, NEW r \in Records, Push(r)
  PROVE  /\ Queued' = Queued \cup {r} /\ Pushed' = Pushed \cup {r}
         /\ r \notin Pushed
         /\ Len(logQueue) \in Nat /\ Len(logQueue') = Len(logQueue) + 1
         /\ \A i \in 1 .. Len(logQueue) :
                logQueue'[i] = logQueue[i] /\ logQueue[i] \in Queued
         /\ logQueue'[Len(logQueue) + 1] = r
<1>1. /\ Len(logQueue) \in Nat /\ Len(logQueue') = Len(logQueue) + 1
      /\ DOMAIN logQueue = 1 .. Len(logQueue)
      /\ DOMAIN logQueue' = 1 .. Len(logQueue) + 1
      /\ \A i \in 1 .. Len(logQueue) : logQueue'[i] = logQueue[i]
      /\ logQueue'[Len(logQueue) + 1] = r
  <2>1. logQueue \in Seq(Records) /\ logQueue' = Append(logQueue, r)
    BY DEF TypeOK, Push
  <2>2. logQueue' \in Seq(Records)
    BY <2>1, AppendProperties
  <2> QED
    BY <2>1, <2>2, AppendProperties, LenProperties
<1>3. Queued' = Queued \cup {r}
  BY <1>1 DEF Queued
<1>4. \A i \in 1 .. Len(logQueue) : logQueue[i] \in Queued
  BY <1>1 DEF Queued
<1>5. Pushed' = Pushed \cup {r} /\ r \notin Pushed
  BY DEF TypeOK, Push, Pushed
<1> QED
  BY <1>1, <1>3, <1>4, <1>5

(* The oldest record, and the others.                                      *)
LEMMA QueuedTail ==
  ASSUME TypeOK, logQueue # <<>>
  PROVE  /\ Queued = {Head(logQueue)}
                \cup {Tail(logQueue)[i] : i \in DOMAIN Tail(logQueue)}
         /\ Len(logQueue) \in Nat \ {0} /\ Head(logQueue) = logQueue[1]
         /\ Len(Tail(logQueue)) = Len(logQueue) - 1
         /\ DOMAIN Tail(logQueue) = 1 .. Len(logQueue) - 1
         /\ \A i \in 1 .. Len(logQueue) - 1 : Tail(logQueue)[i] = logQueue[i + 1]
<1> DEFINE rest == Tail(logQueue)
<1>1. /\ Len(logQueue) \in Nat \ {0} /\ rest \in Seq(Records)
      /\ DOMAIN logQueue = 1 .. Len(logQueue)
      /\ Head(logQueue) = logQueue[1] /\ Len(rest) = Len(logQueue) - 1
      /\ DOMAIN rest = 1 .. Len(logQueue) - 1
      /\ \A i \in 1 .. Len(logQueue) - 1 : rest[i] = logQueue[i + 1]
  BY HeadTailProperties, LenProperties, EmptySeq DEF TypeOK
<1> HIDE DEF rest
<1>2. ASSUME NEW i \in 1 .. Len(logQueue), i # 1
      PROVE  i - 1 \in DOMAIN rest /\ rest[i - 1] = logQueue[i]
  <2>1. i - 1 \in 1 .. Len(logQueue) - 1 /\ (i - 1) + 1 = i
    BY <1>1, <1>2
  <2> QED
    BY <1>1, <2>1
<1>3. Queued \subseteq {Head(logQueue)} \cup {rest[i] : i \in DOMAIN rest}
  BY <1>1, <1>2 DEF Queued
<1>4. {Head(logQueue)} \cup {rest[i] : i \in DOMAIN rest} \subseteq Queued
  BY <1>1 DEF Queued
<1> QED
  BY <1>1, <1>3, <1>4 DEF rest

LEMMA StepOnce == TypeOK /\ Once /\ [Next]_vars => Once'
<1> SUFFICES ASSUME TypeOK, Once, [Next]_vars PROVE Once'
  OBVIOUS
<1>1. ASSUME NEW r \in Records, Push(r) PROVE Once'
  <2>1. \A i, j \in 1 .. Len(logQueue') : logQueue'[i] = logQueue'[j] => i = j
    BY <1>1, QueuedPush DEF Once
  <2>2. Queued' \subseteq Pushed'
    BY <1>1, QueuedPush DEF Once
  <2> QED
    BY <2>1, <2>2 DEF Once
<1>2. CASE Pop
  <2>1. logQueue # <<>> /\ logQueue' = Tail(logQueue) /\ Pushed' = Pushed
    BY <1>2 DEF Pop, TypeOK, callers, Pushed
  <2>2. Queued' \subseteq Queued
    BY <2>1, QueuedTail DEF Queued
  <2>3. ASSUME NEW i \in 1 .. Len(logQueue'), NEW j \in 1 .. Len(logQueue'),
               logQueue'[i] = logQueue'[j]
        PROVE  i = j
    <3>1. /\ logQueue[i + 1] = logQueue[j + 1]
          /\ i + 1 \in 1 .. Len(logQueue) /\ j + 1 \in 1 .. Len(logQueue)
      BY <2>1, <2>3, QueuedTail
    <3>2. i + 1 = j + 1
      BY <3>1 DEF Once
    <3> QED
      BY <2>1, <3>2, QueuedTail
  <2> QED
    BY <2>1, <2>2, <2>3 DEF Once
<1>3. ASSUME logQueue' = logQueue, Pushed' = Pushed PROVE Once'
  BY <1>3 DEF Once, Queued
<1>4. ASSUME NEW r \in Records, CheckLevel(r) \/ Notify(r) PROVE Once'
  <2>1. logQueue' = logQueue /\ Pushed' = Pushed
    BY <1>4 DEF CheckLevel, Notify, Pushed, TypeOK
  <2> QED
    BY <1>3, <2>1
<1>5. CASE \/ \E level \in 0 .. 2 : setLogLevel(level)
           \/ setOutputDirectory \/ Destroy \/ Joined \/ Lock \/ Sleep \/ Write
           \/ Drained \/ SpuriousWakeup \/ Gone \/ UNCHANGED vars
  <2>1. logQueue' = logQueue /\ Pushed' = Pushed
    BY <1>5 DEF setLogLevel, setOutputDirectory, Destroy, Joined, Lock, Sleep,
                Write, Drained, SpuriousWakeup, Gone, vars, callers, Pushed
  <2> QED
    BY <1>3, <2>1
<1> QED
  BY <1>1, <1>2, <1>4, <1>5 DEF Next, logThread

LEMMA OnceCorrect == Spec => []Once
<1>1. Init => Once
  <2> SUFFICES ASSUME Init PROVE Once
    OBVIOUS
  <2>1. Len(logQueue) = 0 /\ Queued = {}
    BY EmptySeq DEF Init, Queued
  <2> QED
    BY <2>1 DEF Once
<1> QED
  BY <1>1, StepOnce, TypeCorrect, PTL DEF Spec

Finished == Pushed \ (Current \cup {Later[i] : i \in DOMAIN Later})

(* Every step is a Submit (a record is pushed), a Start (it is written), a *)
(* Finish (it is popped), or changes nothing the abstract service shows.   *)
LEMMA StepRefines ==
  TypeOK /\ Once /\ [Next]_vars => [Service!Next]_(Service!vars)
<1> SUFFICES ASSUME TypeOK, Once, [Next]_vars
             PROVE  [Service!Next]_(Service!vars)
  OBVIOUS
<1> USE DEF Finished
<1>1. ASSUME NEW r \in Records, Push(r) PROVE Service!Submit(r)
  <2>1. pc # "pop" /\ pc' = pc /\ logQueue' = Append(logQueue, r)
    BY <1>1 DEF Push, Locked
  <2>2. /\ Later = logQueue /\ Later' = logQueue'
        /\ Current = {} /\ Current' = {}
    BY <2>1 DEF Later, Current
  <2>3. Finished = Pushed \ Queued /\ Finished' = Pushed' \ Queued'
    BY <2>2 DEF Queued
  <2>4. Finished' = Finished /\ r \notin Queued \cup Finished
    BY <1>1, <2>3, QueuedPush DEF Once
  <2> QED
    BY <2>1, <2>2, <2>4 DEF Service!Submit, Service!Waiting, Queued
<1>2. CASE Write
  <2>1. /\ pc = "drain" /\ pc' = "pop" /\ logQueue # <<>>
        /\ logQueue' = logQueue /\ Pushed' = Pushed
    BY <1>2 DEF Write, callers, Pushed
  <2>2. /\ Later = logQueue /\ Later' = Tail(logQueue)
        /\ Current = {} /\ Current' = {Head(logQueue)}
    BY <2>1 DEF Later, Current
  <2>3. Finished' = Finished
    BY <2>1, <2>2, QueuedTail DEF Queued
  <2>4. Service!Cardinality(Current) = 0
    <3>1. Service!Cardinality(Current) = Cardinality(Current)
      BY DEF Cardinality, Service!Cardinality
    <3> QED
      BY <2>2, <3>1, FS_EmptySet
  <2>5. Service!Start
    BY <2>1, <2>2, <2>3, <2>4 DEF Service!Start
  <2> QED
    BY <2>5 DEF Service!Next
<1>3. CASE Pop
  <2>1. /\ pc = "pop" /\ pc' = "drain" /\ logQueue # <<>>
        /\ logQueue' = Tail(logQueue) /\ Pushed' = Pushed
    BY <1>3 DEF Pop, callers, Pushed, TypeOK
  <2>2. /\ Later = Tail(logQueue) /\ Later' = Tail(logQueue)
        /\ Current = {Head(logQueue)} /\ Current' = {}
    BY <2>1 DEF Later, Current
  <2>3. Head(logQueue) \in Records /\ Head(logQueue) \in Pushed
    BY <2>1, QueuedTail, HeadTailProperties DEF TypeOK, Once
  <2>4. \A i \in DOMAIN Tail(logQueue) : Tail(logQueue)[i] # Head(logQueue)
    <3> SUFFICES ASSUME NEW i \in DOMAIN Tail(logQueue)
                 PROVE  Tail(logQueue)[i] # Head(logQueue)
      OBVIOUS
    <3>1. /\ Tail(logQueue)[i] = logQueue[i + 1] /\ i + 1 # 1
          /\ i + 1 \in 1 .. Len(logQueue) /\ 1 \in 1 .. Len(logQueue)
          /\ Head(logQueue) = logQueue[1]
      BY <2>1, QueuedTail
    <3> QED
      BY <3>1 DEF Once
  <2>5. Finished' = Finished \cup {Head(logQueue)}
    <3> DEFINE first == Head(logQueue)
               rest  == {Tail(logQueue)[i] : i \in DOMAIN Tail(logQueue)}
    <3>1. Finished = Pushed \ ({first} \cup rest) /\ Finished' = Pushed \ rest
      BY <2>1, <2>2
    <3>2. first \in Pushed /\ first \notin rest
      BY <2>3, <2>4
    <3> HIDE DEF rest, Finished
    <3> QED
      BY <3>1, <3>2
  <2>6. PICK r \in Records : r = Head(logQueue)
    BY <2>3
  <2>7. Service!Finish(r)
    BY <2>2, <2>5, <2>6 DEF Service!Finish
  <2> QED
    BY <2>7 DEF Service!Next
<1>4. ASSUME UNCHANGED <<logQueue, Pushed>>, pc = "pop" <=> pc' = "pop"
      PROVE  UNCHANGED Service!vars
  BY <1>4 DEF Service!vars, Later, Current
<1>5. ASSUME NEW r \in Records, CheckLevel(r) \/ Notify(r)
      PROVE  UNCHANGED Service!vars
  <2>1. UNCHANGED <<logQueue, Pushed>> /\ (pc = "pop" <=> pc' = "pop")
    BY <1>5 DEF CheckLevel, Notify, Woken, Pushed, TypeOK
  <2> QED
    BY <1>4, <2>1
<1>6. CASE \/ \E level \in 0 .. 2 : setLogLevel(level)
           \/ setOutputDirectory \/ Destroy \/ Joined \/ Lock \/ Sleep
           \/ Drained \/ SpuriousWakeup \/ Gone \/ UNCHANGED vars
  <2>1. UNCHANGED <<logQueue, Pushed>> /\ (pc = "pop" <=> pc' = "pop")
    BY <1>6 DEF setLogLevel, setOutputDirectory, Destroy, Joined, Lock, Sleep,
                Drained, SpuriousWakeup, Gone, vars, callers, Pushed, Woken
  <2> QED
    BY <1>4, <2>1
<1> QED
  BY <1>1, <1>2, <1>3, <1>5, <1>6 DEF Next, logThread, Service!Next

(* The logger implements the task service: each record is dealt with once, *)
(* in the order of the pushes, across rotations and the destructor.        *)
THEOREM Refinement == Spec => ImplementsService
<1>1. Init => Service!Init
  <2> SUFFICES ASSUME Init PROVE Service!Init
    OBVIOUS
  <2>1. Later = <<>> /\ Current = {} /\ Pushed = {}
    BY DEF Init, Later, Current, Pushed
  <2> QED
    BY <2>1 DEF Service!Init
<1> QED
  BY <1>1, StepRefines, TypeCorrect, OnceCorrect, PTL
  DEF Spec, ImplementsService, Service!Spec

---------------------------------------------------------------------------
(* A file is open whenever the log thread looks for one, unless the last   *)
(* attempt to open one failed; ~Logger closes it when the thread is gone.  *)
OpenOrFailed == isopen \/ failed \/ pc = "exited"

LEMMA StepOpen == TypeOK /\ OpenOrFailed /\ [Next]_vars => OpenOrFailed'
<1> SUFFICES ASSUME TypeOK, OpenOrFailed, [Next]_vars PROVE OpenOrFailed'
  OBVIOUS
<1> USE DEF TypeOK, OpenOrFailed, callers
<1>1. CASE setOutputDirectory
  BY <1>1 DEF setOutputDirectory, openNewLogFile
<1>2. CASE Write
  BY <1>2 DEF Write, openNewLogFile
<1>3. CASE Lock \/ Sleep \/ SpuriousWakeup \/ Pop \/ Drained
  BY <1>3 DEF Lock, Sleep, SpuriousWakeup, Pop, Drained
<1>4. CASE Destroy \/ Joined
  BY <1>4 DEF Destroy, Joined, Woken
<1>5. ASSUME NEW r \in Records, CheckLevel(r) \/ Push(r) \/ Notify(r)
      PROVE  OpenOrFailed'
  BY <1>5 DEF CheckLevel, Push, Notify, Woken
<1>6. CASE (\E level \in 0 .. 2 : setLogLevel(level)) \/ Gone \/ UNCHANGED vars
  BY <1>6 DEF setLogLevel, Gone, vars
<1> QED
  BY <1>1, <1>2, <1>3, <1>4, <1>5, <1>6 DEF Next, logThread

(* The record that is written is not among those that stay in the queue.   *)
LEMMA HeadOnce ==
  ASSUME TypeOK, Once, logQueue # <<>>
  PROVE  /\ Head(logQueue) \notin {Tail(logQueue)[i] : i \in DOMAIN Tail(logQueue)}
         /\ Head(logQueue) \in Records
<1>1. ASSUME NEW i \in DOMAIN Tail(logQueue)
      PROVE  Tail(logQueue)[i] # Head(logQueue)
  <2>1. /\ Tail(logQueue)[i] = logQueue[i + 1] /\ i + 1 # 1
        /\ i + 1 \in 1 .. Len(logQueue) /\ 1 \in 1 .. Len(logQueue)
        /\ Head(logQueue) = logQueue[1]
    BY QueuedTail
  <2> QED
    BY <2>1 DEF Once
<1> QED
  BY <1>1, HeadTailProperties DEF TypeOK

(* Every step keeps FiledOnce: only Push adds a record, only Write moves   *)
(* one, the oldest, from the queue to a file.                              *)
LEMMA StepFiled ==
  TypeOK /\ Once /\ OpenOrFailed /\ FiledOnce /\ [Next]_vars => FiledOnce'
<1> SUFFICES ASSUME TypeOK, Once, OpenOrFailed, FiledOnce, [Next]_vars
             PROVE  FiledOnce'
  OBVIOUS
<1>1. ASSUME UNCHANGED <<Pushed, Waiting, file>>, failed => failed'
      PROVE  FiledOnce'
  BY <1>1 DEF FiledOnce, Filed
<1>2. ASSUME NEW r \in Records, Push(r) PROVE FiledOnce'
  <2>1. pc # "pop" /\ pc' = pc /\ file' = file /\ failed' = failed
    BY <1>2 DEF Push, Locked
  <2>2. Waiting = Queued /\ Waiting' = Queued'
    BY <2>1 DEF Waiting, Later, Queued
  <2>3. Filed' = Filed
    BY <2>1 DEF Filed
  <2>4. /\ Waiting' = Waiting \cup {r} /\ Pushed' = Pushed \cup {r}
        /\ r \notin Pushed
    BY <1>2, <2>2, QueuedPush
  <2> QED
    BY <2>1, <2>3, <2>4 DEF FiledOnce
<1>3. CASE Write
  <2> DEFINE r == Head(logQueue)
  <2>1. /\ pc = "drain" /\ pc' = "pop" /\ logQueue # <<>>
        /\ logQueue' = logQueue /\ Pushed' = Pushed
    BY <1>3 DEF Write, callers, Pushed
  <2>2. Waiting = Queued /\ Waiting' = {Tail(logQueue)[i] : i \in DOMAIN Tail(logQueue)}
    BY <2>1 DEF Waiting, Later, Queued
  <2>3. Waiting = {r} \cup Waiting' /\ r \notin Waiting' /\ r \in Records
    BY <2>1, <2>2, QueuedTail, HeadOnce
  <2>4. CASE isopen'
    <3>0. failed => failed'
      BY <1>3 DEF Write, openNewLogFile
    <3>1. file' = Append(file, r)
      BY <1>3, <2>4 DEF Write
    <3>2. file \in Seq(Records) /\ file' \in Seq(Records)
      BY <2>3, <3>1, AppendProperties DEF TypeOK
    <3> HIDE DEF r
    <3>3. /\ Len(file) \in Nat /\ DOMAIN file = 1 .. Len(file)
          /\ DOMAIN file' = 1 .. Len(file) + 1
          /\ \A i \in 1 .. Len(file) : file'[i] = file[i]
          /\ file'[Len(file) + 1] = r
      BY <2>3, <3>1, <3>2, AppendProperties, LenProperties
    <3>4. \A i \in 1 .. Len(file) + 1 : i \in 1 .. Len(file) \/ i = Len(file) + 1
      BY <3>3
    <3>5. Filed' = Filed \cup {r}
      BY <3>3, <3>4 DEF Filed
    <3>6. r \notin Filed
      BY <2>3 DEF FiledOnce
    <3>7. \A i, j \in DOMAIN file' : file'[i] = file'[j] => i = j
      BY <3>3, <3>4, <3>6 DEF FiledOnce, Filed
    <3> QED
      BY <2>1, <2>3, <3>0, <3>5, <3>6, <3>7 DEF FiledOnce
  <2>5. CASE ~isopen'
    <3>0. failed'
      <4>1. CASE openNewLogFile
        <5>1. PICK ok \in BOOLEAN :
                 isopen' = ok /\ failed' = (failed \/ ~ok)
          BY <4>1, Zenon DEF openNewLogFile
        <5>2. ~ok
          BY <2>5, <5>1
        <5> QED
          BY <5>1, <5>2, Zenon
      <4>2. CASE UNCHANGED <<isopen, failed>>
        BY <2>1, <2>5, <4>2 DEF OpenOrFailed
      <4> QED
        BY <1>3, <4>1, <4>2 DEF Write
    <3>1. file' = file
      BY <1>3, <2>5 DEF Write
    <3> HIDE DEF r
    <3>2. Filed' = Filed
      BY <3>1 DEF Filed
    <3> QED
      BY <2>1, <2>3, <3>0, <3>1, <3>2 DEF FiledOnce
  <2> QED
    BY <2>4, <2>5
<1>4. CASE Pop
  <2>1. UNCHANGED <<Pushed, Later, file, failed>>
    BY <1>4 DEF Pop, callers, Pushed, Later
  <2> QED
    BY <1>1, <2>1 DEF Waiting
<1>5. ASSUME NEW r \in Records, CheckLevel(r) \/ Notify(r)
      PROVE  FiledOnce'
  <2>1. /\ UNCHANGED <<logQueue, Pushed, file, failed>>
        /\ pc = "pop" <=> pc' = "pop"
    BY <1>5 DEF CheckLevel, Notify, Woken, Pushed, TypeOK
  <2> QED
    BY <1>1, <2>1 DEF Waiting, Later
<1>6. CASE \/ \E level \in 0 .. 2 : setLogLevel(level)
           \/ setOutputDirectory \/ Destroy \/ Joined \/ Lock \/ Sleep
           \/ Drained \/ SpuriousWakeup \/ Gone \/ UNCHANGED vars
  <2>1. UNCHANGED <<logQueue, Pushed, file>> /\ (pc = "pop" <=> pc' = "pop")
    BY <1>6 DEF setLogLevel, setOutputDirectory, Destroy, Joined, Lock, Sleep,
                Drained, SpuriousWakeup, Gone, vars, callers, Pushed, Woken
  <2>2. failed => failed'
    BY <1>6 DEF setLogLevel, setOutputDirectory, openNewLogFile, Destroy,
                Joined, Lock, Sleep, Drained, SpuriousWakeup, Gone, vars,
                callers
  <2> QED
    BY <1>1, <2>1, <2>2 DEF Waiting, Later
<1> QED
  BY <1>2, <1>3, <1>4, <1>5, <1>6 DEF Next, logThread

(* The files and what is left of the queue hold every record that was      *)
(* pushed exactly once, for any number of rotations.                       *)
THEOREM FilesOnce == Spec => []FiledOnce
<1>1. Init => OpenOrFailed /\ FiledOnce
  <2> SUFFICES ASSUME Init PROVE OpenOrFailed /\ FiledOnce
    OBVIOUS
  <2>1. DOMAIN file = {} /\ Filed = {} /\ Waiting = {} /\ Pushed = {}
    BY EmptySeq DEF Init, Filed, Waiting, Later, Pushed
  <2> QED
    BY <2>1 DEF Init, OpenOrFailed, FiledOnce
<1>2. Spec => []OpenOrFailed
  BY <1>1, StepOpen, TypeCorrect, PTL DEF Spec
<1> QED
  BY <1>1, <1>2, StepFiled, TypeCorrect, OnceCorrect, PTL DEF Spec
=============================================================================
