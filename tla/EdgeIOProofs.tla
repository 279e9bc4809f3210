---------------------------- MODULE EdgeIOProofs ----------------------------
(***************************************************************************)
(* For any requests, read size, socket buffer and number of workers: the   *)
(* types of the data path; that writecallback is never called with nothing *)
(* to send; that pickmessge never throws; and that what comes back is the  *)
(* replies to what was sent, byte for byte.                                *)
(***************************************************************************)
EXTENDS StreamProofs

(* A buffer to which a message was added is not empty.                     *)
LEMMA AppendTyped ==
    ASSUME NEW buf \in Seq(Byte), NEW data \in Seq(Byte)
    PROVE  /\ appendwithsep(1, buf, data) \in Seq(Byte)
           /\ appendwithsep(1, buf, data) # <<>>
<1> DEFINE h == HeaderOf(Len(data))
<1>1. h \in Seq(Byte) /\ Len(h) = 4
  BY HeaderTyped
<1> HIDE DEF h
<1>2. h \o data \in Seq(Byte) /\ Len(h \o data) = Len(h) + Len(data)
  BY <1>1, ConcatProperties
<1>3. /\ buf \o (h \o data) \in Seq(Byte)
      /\ Len(buf \o (h \o data)) = Len(buf) + Len(h \o data)
  BY <1>2, ConcatProperties
<1>4. Len(buf \o (h \o data)) # 0
  BY SMT, <1>1, <1>2, <1>3
<1>5. buf \o (h \o data) # <<>>
  BY <1>4, EmptySeq
<1>6. appendwithsep(1, buf, data) = buf \o (h \o data)
  BY SMT DEF appendwithsep, h
<1>7. QED
  BY <1>3, <1>5, <1>6

LEMMA PickTyped ==
    ASSUME NEW buf \in Seq(Byte), NEW stale \in [1 .. 4 -> Byte],
           pickmessge(1, buf, stale).got = "message"
    PROVE  /\ pickmessge(1, buf, stale).ss \in Seq(Byte)
           /\ pickmessge(1, buf, stale).rest \in Seq(Byte)
<1> DEFINE p   == pickmessge(1, buf, stale)
           len == LenOf(Header(buf, stale))
           upto == IF len < 0 THEN Len(buf) ELSE 4 + len
<1>1. None(buf).got # "message" /\ Throws(buf).got # "message"
  BY DEF None, Throws
<1>2. buf # <<>>
  BY <1>1 DEF pickmessge
<1>3. p = PickLength(buf, len)
  BY SMT, <1>2 DEF pickmessge
<1>4. /\ len \in -4 .. MaxLen /\ ~(Len(buf) - 4 < len)
      /\ p = Message(SubSeq(buf, 5, upto), SubSeq(buf, 5 + len, Len(buf)))
  BY <1>1, <1>3 DEF PickLength
<1>5. p.ss = SubSeq(buf, 5, upto) /\ p.rest = SubSeq(buf, 5 + len, Len(buf))
  BY <1>4 DEF Message
<1> HIDE DEF p
<1>6. len \in Int
  BY HeaderBytes, LengthTyped
<1> HIDE DEF len
<1>7. Len(buf) \in Nat
  BY SMT
<1>8. /\ upto \in Int /\ upto <= Len(buf) /\ 5 \in Nat /\ 1 <= 5
      /\ 5 + len \in Nat /\ 1 <= 5 + len
      /\ Len(buf) \in Int /\ Len(buf) <= Len(buf)
  BY SMT, <1>4, <1>6, <1>7
<1> HIDE DEF upto
<1>9. /\ SubSeq(buf, 5, upto) \in Seq(Byte)
      /\ SubSeq(buf, 5 + len, Len(buf)) \in Seq(Byte)
  BY <1>8, PieceTyped
<1>10. QED
  BY <1>5, <1>9 DEF p

LEMMA CStringTyped ==
    ASSUME NEW s \in Seq(Byte)
    PROVE  CString(s) \in Seq(Byte)
<1> DEFINE k == Cardinality(BeforeNul(s))
<1>1. Len(s) \in Nat
  BY SMT
<1>2. BeforeNul(s) \subseteq 1 .. Len(s)
  BY DEF BeforeNul
<1>3. /\ IsFiniteSet(1 .. Len(s))
      /\ Cardinality(1 .. Len(s)) = IF 1 <= Len(s) THEN Len(s) - 1 + 1 ELSE 0
  BY SMT, <1>1, FS_Interval
<1>4. /\ IsFiniteSet(BeforeNul(s)) /\ k <= Cardinality(1 .. Len(s))
  BY <1>2, <1>3, FS_Subset
<1>5. k \in Nat
  BY <1>4, FS_CardinalityType
<1> HIDE DEF k
<1>6. k \in Int /\ k <= Len(s) /\ 1 \in Nat /\ 1 <= 1
  BY SMT, <1>1, <1>3, <1>4, <1>5
<1>7. QED
  BY <1>6, PieceTyped DEF CString, k

LEMMA ReplyTyped ==
    ASSUME NEW message \in Seq(Byte)
    PROVE  Reply(message) \in Seq(Byte)
<1>1. Prefix \o message \in Seq(Byte)
  BY EdgeAssumption, ConcatProperties
<1>2. QED
  BY <1>1, CStringTyped DEF Reply

(* EPOLLOUT is wanted only while there is something to send, and a write   *)
(* event that was reported finds it still there: only writecallback takes  *)
(* bytes out, and it is called once in a round.                            *)
OutWanted == "out" \in events_ => outputbuffer_ # <<>>
OutReported ==
    "out" \in batch => /\ outputbuffer_ # <<>> /\ "in" \notin batch
                       /\ pc \in {"wait", "drain", "exited"}

(* NoEmptySend is not inductive: that a write event finds something to     *)
(* send rests on OutWanted, kept up by sendinloop and writecallback, and   *)
(* on OutReported.                                                         *)
SendInv == OutWanted /\ OutReported /\ NoEmptySend
IInv    == TypeOK /\ SendInv

LEMMA InitInv == Init => IInv
<1> SUFFICES ASSUME Init PROVE IInv
  OBVIOUS
<1>1. Len(Stream) \in Nat /\ <<>> \in Seq(Byte) /\ Len(<<>>) = 0
  BY SMT, StreamTyped
<1>2. SndCap \in Nat
  BY EdgeAssumption
<1>3. sent \in 0 .. Len(Stream) /\ Len(snd) <= SndCap
  BY SMT, <1>1, <1>2 DEF Init
<1>4. <<>> \in Seq(Seq(Byte))
  BY EmptySeq
<1>5. TypeOK
  BY <1>1, <1>3, <1>4 DEF Init, TypeOK
<1>6. SendInv
  BY DEF Init, SendInv, OutWanted, OutReported, NoEmptySend
<1>7. QED
  BY <1>5, <1>6 DEF IInv

(* What leaves all of this alone.                                          *)
LEMMA SameSend ==
    ASSUME SendInv, UNCHANGED <<events_, outputbuffer_, pc, batch>>
    PROVE  SendInv'
  BY DEF SendInv, OutWanted, OutReported, NoEmptySend

(* What the client does leaves the buffers of the connection alone.        *)
LEMMA ClientInv ==
    ASSUME IInv, \/ \E n \in 1 .. Len(Stream) : ClientSend(n)
                 \/ ClientFin
                 \/ \E n \in 1 .. SndCap : ClientRead(n)
    PROVE  IInv'
<1> USE DEF IInv, connVars, workVars
<1>1. Len(Stream) \in Nat /\ SndCap \in Nat /\ Stream \in Seq(Byte)
  BY SMT, StreamTyped, EdgeAssumption
<1>2. ASSUME NEW n \in 1 .. Len(Stream), ClientSend(n) PROVE TypeOK'
  <2>1. /\ sent + 1 \in Nat /\ 1 <= sent + 1 /\ sent + n \in Int
        /\ sent + n <= Len(Stream) /\ sent + n \in 0 .. Len(Stream)
    BY SMT, <1>1, <1>2 DEF ClientSend, TypeOK
  <2>2. SubSeq(Stream, sent + 1, sent + n) \in Seq(Byte)
    BY <1>1, <2>1, PieceTyped
  <2>3. rcv' \in Seq(Byte)
    BY <1>2, <2>2, ConcatProperties DEF ClientSend, TypeOK
  <2>4. QED
    BY <1>2, <2>1, <2>3 DEF ClientSend, TypeOK
<1>3. ASSUME ClientFin PROVE TypeOK'
  BY <1>3 DEF ClientFin, TypeOK
<1>4. ASSUME NEW n \in 1 .. SndCap, ClientRead(n) PROVE TypeOK'
  <2>1. /\ n \in 0 .. Len(snd) /\ n \in Int /\ n <= Len(snd)
        /\ 1 \in Nat /\ 1 <= 1
    BY SMT, <1>1, <1>4 DEF ClientRead, TypeOK
  <2>2. SubSeq(snd, 1, n) \in Seq(Byte)
    BY <2>1, PieceTyped DEF TypeOK
  <2>3. Drop(snd, n) \in Seq(Byte) /\ Len(Drop(snd, n)) = Len(snd) - n
    BY <2>1, DropTyped DEF TypeOK
  <2>4. got' \in Seq(Byte)
    BY <1>4, <2>2, ConcatProperties DEF ClientRead, TypeOK
  <2>5. snd' \in Seq(Byte) /\ Len(snd') <= SndCap
    <3>1. snd' = Drop(snd, n)
      BY <1>4 DEF ClientRead
    <3>2. Len(snd) - n <= SndCap
      BY SMT, <1>1, <2>1 DEF TypeOK
    <3>3. QED
      BY <2>3, <3>1, <3>2
  <2>6. ready' \in BOOLEAN /\ nospace' \in BOOLEAN
    BY <1>4 DEF ClientRead, TypeOK
  <2>7. QED
    BY <1>4, <2>4, <2>5, <2>6 DEF ClientRead, TypeOK
<1>5. UNCHANGED <<events_, outputbuffer_, pc, batch>>
  BY DEF ClientSend, ClientFin, ClientRead
<1>6. SendInv'
  BY <1>5, SameSend
<1>7. QED
  BY <1>2, <1>3, <1>4, <1>6

(* epoll_wait reports output only when it is wanted.                       *)
LEMMA DispatchInv ==
    ASSUME IInv, EpollWait \/ \E e \in batch : Dispatch(e)
    PROVE  IInv'
<1> USE DEF IInv, SendInv
<1>1. CASE EpollWait
  <2> DEFINE revents == IF ready THEN Poll(events_, rcv, snd) ELSE {}
  <2>1. /\ pc = "wait" /\ ready' = FALSE
        /\ nospace' = (nospace \/ (ready /\ Full))
        /\ batch' = (IF "in" \in revents THEN {"in"} ELSE revents)
                        \cup (IF taskqueue_ # <<>> THEN {"wake"} ELSE {})
        /\ UNCHANGED <<sent, fin, rcv, snd, got, connVars, pc, workVars>>
    BY <1>1 DEF EpollWait
  <2>2. revents \subseteq events_
    BY DEF Poll
  <2> HIDE DEF revents
  <2>3. batch' \subseteq {"in", "out", "wake"}
    BY <2>1, <2>2 DEF TypeOK
  <2>4. TypeOK'
    BY <2>1, <2>3 DEF TypeOK, connVars, workVars
  <2>5. "out" \in batch' => "out" \in events_
    BY <2>1, <2>2
  <2>6. SendInv'
    BY <2>1, <2>5 DEF connVars, OutWanted, OutReported, NoEmptySend
  <2>7. QED
    BY <2>4, <2>6
<1>2. ASSUME NEW e \in batch, Dispatch(e) PROVE IInv'
  <2>1. TypeOK'
    BY <1>2 DEF Dispatch, TypeOK, kernelVars, connVars, workVars
  <2>2. CASE e = "out"
    BY <1>2, <2>1, <2>2 DEF Dispatch, connVars, OutWanted, OutReported, NoEmptySend
  <2>3. CASE e # "out"
    <3>1. e = "in" \/ e = "wake"
      BY <1>2, <2>3 DEF TypeOK
    <3>2. /\ pc' \in {"read", "drain"} /\ (pc' = "read" => e = "in")
          /\ batch' \subseteq batch
          /\ UNCHANGED <<events_, outputbuffer_>>
      BY <1>2, <3>1 DEF Dispatch, connVars
    <3>3. QED
      BY <1>2, <2>1, <3>2 DEF OutWanted, OutReported, NoEmptySend
  <2>4. QED
    BY <2>1, <2>2, <2>3
<1>3. QED
  BY <1>1, <1>2

LEMMA ReadInv ==
    ASSUME IInv, Read \/ ReadAgain \/ ReadEof
    PROVE  IInv'
<1> USE DEF IInv
<1>1. CASE Read
  <2> DEFINE n == IF Len(rcv) < ReadSize THEN Len(rcv) ELSE ReadSize
  <2>1. /\ n \in 0 .. Len(rcv) /\ n \in Int /\ n <= Len(rcv)
        /\ 1 \in Nat /\ 1 <= 1
    BY SMT, EdgeAssumption DEF TypeOK
  <2>2. /\ inputbuffer_' = inputbuffer_ \o SubSeq(rcv, 1, n)
        /\ rcv' = Drop(rcv, n)
        /\ UNCHANGED <<sent, fin, snd, got, ready, nospace, events_,
                       outputbuffer_, disconnect_, pc, batch, workVars>>
    BY <1>1 DEF Read
  <2> HIDE DEF n
  <2>3. SubSeq(rcv, 1, n) \in Seq(Byte)
    BY <2>1, PieceTyped DEF TypeOK
  <2>4. inputbuffer_' \in Seq(Byte) /\ rcv' \in Seq(Byte)
    BY <2>1, <2>2, <2>3, DropTyped, ConcatProperties DEF TypeOK
  <2>5. TypeOK'
    BY <2>2, <2>4 DEF TypeOK, workVars
  <2>6. SendInv'
    BY <2>2, SameSend
  <2>7. QED
    BY <2>5, <2>6
<1>2. CASE ReadAgain
  <2>1. TypeOK'
    BY <1>2 DEF ReadAgain, kernelVars, connVars, workVars, TypeOK
  <2>2. SendInv'
    BY <1>2 DEF ReadAgain, connVars, SendInv, OutWanted, OutReported,
                NoEmptySend
  <2>3. QED
    BY <2>1, <2>2
<1>3. CASE ReadEof
  <2>1. TypeOK'
    BY <1>3 DEF ReadEof, kernelVars, workVars, TypeOK
  <2>2. SendInv'
    BY <1>3 DEF ReadEof, SendInv, OutWanted, OutReported, NoEmptySend
  <2>3. QED
    BY <2>1, <2>2
<1>4. QED
  BY <1>1, <1>2, <1>3

(* A reply in outputbuffer_ is something to send, and EPOLLOUT is on.      *)
LEMMA ReplyInv ==
    ASSUME IInv, NEW text \in Seq(Byte),
           outputbuffer_' = appendwithsep(1, outputbuffer_, text),
           Modify(enablewriting, snd), UNCHANGED <<pc, batch>>
    PROVE  /\ outputbuffer_' \in Seq(Byte)
           /\ events_' \subseteq {"in", "out"}
           /\ ready' \in BOOLEAN /\ nospace' \in BOOLEAN
           /\ SendInv'
<1>1. outputbuffer_' \in Seq(Byte) /\ outputbuffer_' # <<>>
  BY AppendTyped DEF IInv, TypeOK
<1>2. /\ events_' \subseteq {"in", "out"}
      /\ ready' \in BOOLEAN /\ nospace' \in BOOLEAN
  BY DEF Modify, enablewriting, IInv, TypeOK
<1>3. SendInv'
  BY <1>1 DEF IInv, SendInv, OutWanted, OutReported, NoEmptySend
<1>4. QED
  BY <1>1, <1>2, <1>3

(* A message is answered here, or handed to the workers.                   *)
LEMMA PickInv ==
    ASSUME IInv, NEW stale \in Behind, Pick(stale) \/ PickNone(stale)
    PROVE  IInv'
<1> USE DEF IInv
<1>1. stale \in [1 .. 4 -> Byte]
  BY BehindTyped
<1>2. CASE Pick(stale)
  <2> DEFINE p == pickmessge(1, inputbuffer_, stale)
  <2>1. /\ p.got = "message"
        /\ inputbuffer_' = p.rest
        /\ \/ /\ outputbuffer_' = appendwithsep(1, outputbuffer_, Reply(p.ss))
              /\ Modify(enablewriting, snd)
              /\ UNCHANGED jobs
           \/ /\ jobs' = Append(jobs, p.ss)
              /\ UNCHANGED <<outputbuffer_, events_, ready, nospace>>
        /\ UNCHANGED <<sent, fin, rcv, snd, got, disconnect_, pc, batch, size,
                       wk, taskqueue_>>
    BY <1>2 DEF Pick
  <2>2. p.ss \in Seq(Byte) /\ p.rest \in Seq(Byte)
    BY <1>1, <2>1, PickTyped DEF TypeOK
  <2> HIDE DEF p
  <2>3. CASE /\ outputbuffer_' = appendwithsep(1, outputbuffer_, Reply(p.ss))
             /\ Modify(enablewriting, snd)
             /\ UNCHANGED jobs
    <3>1. Reply(p.ss) \in Seq(Byte)
      BY <2>2, ReplyTyped
    <3>2. /\ outputbuffer_' \in Seq(Byte) /\ events_' \subseteq {"in", "out"}
          /\ ready' \in BOOLEAN /\ nospace' \in BOOLEAN /\ SendInv'
      BY <2>1, <2>3, <3>1, ReplyInv
    <3>3. TypeOK'
      BY <2>1, <2>2, <2>3, <3>2 DEF TypeOK
    <3>4. QED
      BY <3>2, <3>3
  <2>4. CASE /\ jobs' = Append(jobs, p.ss)
             /\ UNCHANGED <<outputbuffer_, events_, ready, nospace>>
    <3>1. jobs' \in Seq(Seq(Byte))
      BY <2>2, <2>4, AppendProperties DEF TypeOK
    <3>2. TypeOK'
      BY <2>1, <2>2, <2>4, <3>1 DEF TypeOK
    <3>3. SendInv'
      BY <2>1, <2>4, SameSend
    <3>4. QED
      BY <3>2, <3>3
  <2>5. QED
    BY <2>1, <2>3, <2>4
<1>3. CASE PickNone(stale)
  <2>1. TypeOK'
    BY <1>3 DEF PickNone, kernelVars, connVars, workVars, TypeOK
  <2>2. SendInv'
    BY <1>3 DEF PickNone, connVars, SendInv, OutWanted, OutReported,
                NoEmptySend
  <2>3. QED
    BY <2>1, <2>2
<1>4. QED
  BY <1>2, <1>3

LEMMA DrainInv ==
    ASSUME IInv, SendInLoop \/ DrainDone
    PROVE  IInv'
<1> USE DEF IInv
<1>1. CASE SendInLoop /\ disconnect_
  <2>1. TypeOK'
    BY <1>1 DEF SendInLoop, kernelVars, connVars, TypeOK
  <2>2. SendInv'
    BY <1>1 DEF SendInLoop, connVars, SendInv, OutWanted, OutReported,
                NoEmptySend
  <2>3. QED
    BY <2>1, <2>2
<1>2. CASE SendInLoop /\ ~disconnect_
  <2>1. /\ taskqueue_ # <<>>
        /\ outputbuffer_' = appendwithsep(1, outputbuffer_, Head(taskqueue_))
        /\ Modify(enablewriting, snd)
        /\ taskqueue_' = Tail(taskqueue_)
        /\ UNCHANGED <<sent, fin, rcv, snd, got, inputbuffer_, disconnect_,
                       pc, batch, size, jobs, wk>>
    BY <1>2 DEF SendInLoop
  <2>2. Head(taskqueue_) \in Seq(Byte) /\ taskqueue_' \in Seq(Seq(Byte))
    BY <2>1, HeadTailProperties DEF TypeOK
  <2>3. /\ outputbuffer_' \in Seq(Byte) /\ events_' \subseteq {"in", "out"}
        /\ ready' \in BOOLEAN /\ nospace' \in BOOLEAN /\ SendInv'
    BY <2>1, <2>2, ReplyInv
  <2>4. TypeOK'
    BY <2>1, <2>2, <2>3 DEF TypeOK
  <2>5. QED
    BY <2>3, <2>4
<1>3. CASE DrainDone
  <2>1. TypeOK'
    BY <1>3 DEF DrainDone, kernelVars, connVars, workVars, TypeOK
  <2>2. SendInv'
    BY <1>3 DEF DrainDone, connVars, SendInv, OutWanted, OutReported,
                NoEmptySend
  <2>3. QED
    BY <2>1, <2>2
<1>4. QED
  BY <1>1, <1>2, <1>3

(* With the last byte EPOLLOUT goes off.                                   *)
LEMMA WriteInv ==
    ASSUME IInv, Write \/ WriteAgain
    PROVE  IInv'
<1> USE DEF IInv
<1>1. CASE Write
  <2>1. /\ pc = "write" /\ ~Full
        /\ snd' = snd \o SubSeq(outputbuffer_, 1, Sendable)
        /\ outputbuffer_' = Drop(outputbuffer_, Sendable)
        /\ UNCHANGED <<sent, fin, rcv, got, inputbuffer_, disconnect_, batch,
                       workVars>>
        /\ \/ /\ outputbuffer_' = <<>> /\ pc' = "wait"
              /\ Modify(disablewriting, snd')
           \/ /\ outputbuffer_' # <<>>
              /\ UNCHANGED <<events_, ready, nospace, pc>>
    BY <1>1 DEF Write
  <2>2. /\ Sendable \in 0 .. Len(outputbuffer_)
        /\ Sendable \in Int /\ Sendable <= Len(outputbuffer_)
        /\ Sendable <= SndCap - Len(snd) /\ 1 \in Nat /\ 1 <= 1
    BY SMT, EdgeAssumption DEF Sendable, TypeOK
  <2>3. /\ SubSeq(outputbuffer_, 1, Sendable) \in Seq(Byte)
        /\ Len(SubSeq(outputbuffer_, 1, Sendable))
              = IF 1 <= Sendable THEN Sendable - 1 + 1 ELSE 0
    BY <2>2, PieceTyped DEF TypeOK
  <2>4. /\ snd' \in Seq(Byte)
        /\ Len(snd') = Len(snd) + Len(SubSeq(outputbuffer_, 1, Sendable))
    BY <2>1, <2>3, ConcatProperties DEF TypeOK
  <2>5. Len(snd') <= SndCap
    <3>1. SndCap \in Nat /\ Len(snd) \in Nat
      BY SMT, EdgeAssumption DEF TypeOK
    <3>2. QED
      BY SMT, <2>2, <2>3, <2>4, <3>1
  <2>6. outputbuffer_' \in Seq(Byte)
    BY <2>1, <2>2, DropTyped DEF TypeOK
  <2>7. /\ events_' \subseteq {"in", "out"}
        /\ ready' \in BOOLEAN /\ nospace' \in BOOLEAN
        /\ pc' \in {"wait", "write"}
    BY <2>1 DEF Modify, disablewriting, TypeOK
  <2>8. TypeOK'
    BY <2>1, <2>4, <2>5, <2>6, <2>7 DEF TypeOK, workVars
  <2>9. "out" \notin batch'
    BY <2>1 DEF SendInv, OutReported
  <2>10. SendInv'
    BY <2>1, <2>9
    DEF Modify, disablewriting, SendInv, OutWanted, OutReported, NoEmptySend
  <2>11. QED
    BY <2>8, <2>10
<1>2. CASE WriteAgain
  <2>1. TypeOK'
    BY <1>2 DEF WriteAgain, connVars, workVars, TypeOK
  <2>2. SendInv'
    BY <1>2 DEF WriteAgain, connVars, SendInv, OutWanted, OutReported,
                NoEmptySend
  <2>3. QED
    BY <2>1, <2>2
<1>3. QED
  BY <1>1, <1>2

(* The workers touch their queues only.                                    *)
LEMMA WorkerInv ==
    ASSUME IInv, NEW w \in 1 .. MaxSize, Worker(w)
    PROVE  IInv'
<1> USE DEF IInv
<1>1. SendInv'
  <2>1. UNCHANGED <<events_, outputbuffer_, pc, batch>>
    BY DEF Worker, TakeJob, CheckDisconnect, QueueInLoop, connVars
  <2>2. QED
    BY <2>1, SameSend
<1>2. <<>> \in Seq(Byte)
  BY EmptySeq
<1>3. CASE TakeJob(w)
  <2>1. Head(jobs) \in Seq(Byte) /\ Tail(jobs) \in Seq(Seq(Byte))
    BY <1>3, HeadTailProperties DEF TakeJob, TypeOK
  <2>2. TypeOK'
    BY <1>3, <2>1 DEF TakeJob, kernelVars, connVars, TypeOK
  <2>3. QED
    BY <1>1, <2>2
<1>4. CASE CheckDisconnect(w)
  <2>1. wk' \in [1 .. MaxSize -> [at : {"idle", "send", "queue"},
                                  message : Seq(Byte)]]
    BY <1>2, <1>4 DEF CheckDisconnect, TypeOK
  <2>2. TypeOK'
    BY <1>4, <2>1 DEF CheckDisconnect, kernelVars, connVars, TypeOK
  <2>3. QED
    BY <1>1, <2>2
<1>5. CASE QueueInLoop(w)
  <2>1. Reply(wk[w].message) \in Seq(Byte)
    BY ReplyTyped DEF TypeOK
  <2>2. taskqueue_' \in Seq(Seq(Byte))
    BY <1>5, <2>1, AppendProperties DEF QueueInLoop, TypeOK
  <2>3. TypeOK'
    BY <1>2, <1>5, <2>2 DEF QueueInLoop, kernelVars, connVars, TypeOK
  <2>4. QED
    BY <1>1, <2>3
<1>6. QED
  BY <1>3, <1>4, <1>5 DEF Worker

LEMMA NextInv == IInv /\ [Next]_vars => IInv'
<1> SUFFICES ASSUME IInv, [Next]_vars PROVE IInv'
  OBVIOUS
<1>1. CASE UNCHANGED vars \/ Timeout
  <2>1. UNCHANGED vars
    BY <1>1 DEF Timeout
  <2>2. TypeOK'
    BY <2>1 DEF vars, kernelVars, connVars, workVars, IInv, TypeOK
  <2>3. SendInv'
    BY <2>1, SameSend DEF vars, connVars, IInv
  <2>4. QED
    BY <2>2, <2>3 DEF IInv
<1>2. CASE IOThread
  BY <1>2, DispatchInv, ReadInv, PickInv, DrainInv, WriteInv DEF IOThread
<1>3. QED
  BY <1>1, <1>2, ClientInv, WorkerInv DEF Next

LEMMA Inductive == Spec => []IInv
  BY InitInv, NextInv, PTL DEF Spec

---------------------------------------------------------------------------
(* The first n requests have been picked.                                  *)
InputRest(n) == Frames[n] \o inputbuffer_ \o rcv = SubSeq(Stream, 1, sent)

Incomplete(n) ==
    n < Len(Requests) => Len(inputbuffer_) < 4 + Len(Requests[n + 1])

(* Then pickmessge finds the next one, or nothing while it is incomplete.  *)
LEMMA PickNext ==
    ASSUME TypeOK, NEW n \in 0 .. Len(Requests), InputRest(n),
           NEW stale \in Behind
    PROVE  \/ /\ pickmessge(1, inputbuffer_, stale) = None(inputbuffer_)
              /\ Incomplete(n)
           \/ /\ n < Len(Requests)
              /\ \E x \in Seq(Byte) :
                    /\ inputbuffer_ = Frame(Requests[n + 1]) \o x
                    /\ pickmessge(1, inputbuffer_, stale)
                          = Message(Requests[n + 1], x)
<1>1. stale \in [1 .. 4 -> Byte]
  BY BehindTyped
<1>2. /\ Frames[n] \in Seq(Byte) /\ Rest(n) \in Seq(Byte)
      /\ inputbuffer_ \in Seq(Byte) /\ rcv \in Seq(Byte)
      /\ sent \in 0 .. Len(Frames[n] \o Rest(n))
      /\ (Frames[n] \o inputbuffer_) \o rcv
            = SubSeq(Frames[n] \o Rest(n), 1, sent)
  BY FramesTyped, StreamSplit DEF TypeOK, InputRest
<1>3. /\ Len(inputbuffer_) <= Len(Rest(n))
      /\ \A i \in 1 .. Len(inputbuffer_) : inputbuffer_[i] = Rest(n)[i]
  <2> DEFINE a == Frames[n]
             v == Rest(n)
             t == inputbuffer_
             u == rcv
             k == sent
  <2>1. /\ a \in Seq(Byte) /\ v \in Seq(Byte)
        /\ t \in Seq(Byte) /\ u \in Seq(Byte)
        /\ k \in 0 .. Len(a \o v)
        /\ (a \o t) \o u = SubSeq(a \o v, 1, k)
    BY <1>2
  <2> HIDE DEF a, v, t, u, k
  <2>2. Begins(v, t)
    BY <2>1, Continues
  <2> QED
    BY <2>2 DEF v, t, Begins
<1>4. Len(inputbuffer_) \in Nat
  BY <1>2, LenProperties
<1>5. CASE n = Len(Requests)
  <2>1. Len(Rest(n)) = 0
    BY <1>5, RestEmpty
  <2>2. inputbuffer_ = <<>>
    BY <1>2, <1>3, <1>4, <2>1, EmptySeq
  <2>3. Incomplete(n)
    BY <1>5, RequestsTyped DEF Incomplete
  <2> QED
    BY <2>2, <2>3 DEF pickmessge
<1>6. CASE n < Len(Requests)
  <2> DEFINE m == Requests[n + 1]
             buf == inputbuffer_
             later == Rest(n + 1)
  <2>1. /\ n + 1 \in 1 .. Len(Requests) /\ n \in 0 .. Len(Requests) - 1
        /\ n + 1 \in 0 .. Len(Requests)
    BY <1>6, RequestsTyped
  <2>2. /\ m \in Seq(Byte) /\ Len(m) \in Nat
        /\ Len(m) <= MaxLen /\ Len(m) <= MaxInt
    <3>1. m \in Seq(Byte) /\ n + 1 \in DOMAIN Requests
      BY <2>1, RequestsTyped
    <3>2. Len(m) \in Nat /\ Len(m) <= MaxLen
      BY <3>1, LengthAssumption, LenProperties
    <3>3. Len(m) <= MaxInt
      <4> DEFINE k == Len(m)
      <4>1. k \in Nat /\ k <= MaxLen
        BY <3>2
      <4> HIDE DEF k
      <4>2. k <= MaxInt
        BY SMT, <4>1, LongestFits
      <4> QED
        BY <4>2 DEF k
    <3> QED
      BY <3>1, <3>2, <3>3
  <2>3. later \in Seq(Byte) /\ Rest(n) = Frame(m) \o later
    BY <2>1, FramesTyped, RestNext
  <2> HIDE DEF m, later
  <2>4. /\ \A i \in 1 .. 4 + Len(m) : Rest(n)[i] = Frame(m)[i]
        /\ \A i \in 1 .. 4 : Rest(n)[i] = HeaderOf(Len(m))[i]
    <3>1. /\ \A i \in 1 .. 4 + Len(m) : (Frame(m) \o later)[i] = Frame(m)[i]
          /\ \A i \in 1 .. 4 : (Frame(m) \o later)[i] = HeaderOf(Len(m))[i]
      BY <2>2, <2>3, FrameFirst
    <3> QED
      BY <2>3, <3>1
  <2>5. buf \in Seq(Byte) /\ \A i \in 1 .. Len(buf) : buf[i] = Rest(n)[i]
    BY <1>2, <1>3
  <2>6. CASE Len(buf) < 4 + Len(m)
    <3>1. \A i \in 1 .. Len(buf) : i <= 4 => buf[i] = HeaderOf(Len(m))[i]
      <4> TAKE i \in 1 .. Len(buf)
      <4>1. i <= 4 => i \in 1 .. 4
        BY <1>4
      <4> QED
        BY <2>4, <2>5, <4>1
    <3>2. pickmessge(1, buf, stale) = None(buf)
      BY <1>1, <2>2, <2>5, <2>6, <3>1, PicksNothing
    <3>3. Incomplete(n)
      BY <2>6 DEF Incomplete, m
    <3> QED
      BY <3>2, <3>3
  <2>7. CASE ~(Len(buf) < 4 + Len(m))
    <3> DEFINE f == Frame(m)
               x == Drop(buf, Len(f))
    <3>1. f \in Seq(Byte) /\ Len(f) = 4 + Len(m)
      BY <2>2, FrameTyped
    <3>2. Len(f) \in 0 .. Len(buf) /\ 0 + Len(f) <= Len(buf) /\ 0 \in Nat
      BY <1>4, <2>2, <2>7, <3>1
    <3>3. \A i \in 1 .. Len(f) : buf[0 + i] = f[i]
      <4> TAKE i \in 1 .. Len(f)
      <4>1. i \in 1 .. Len(buf) /\ i \in 1 .. 4 + Len(m) /\ 0 + i = i
        BY <1>4, <2>2, <3>1, <3>2
      <4> QED
        BY <2>4, <2>5, <4>1
    <3> HIDE DEF f
    <3>4. SubSeq(buf, 0 + 1, 0 + Len(f)) = f
      BY <2>5, <3>1, <3>2, <3>3, Piece
    <3>5. 0 + 1 = 1 /\ 0 + Len(f) = Len(f)
      BY <2>2, <3>1
    <3>6. SubSeq(buf, 1, Len(f)) = f
      BY <3>4, <3>5
    <3>7. SubSeq(buf, 1, Len(f)) \o x = buf /\ x \in Seq(Byte)
      BY <2>5, <3>2, Moved
    <3>8. buf = f \o x
      BY <3>6, <3>7
    <3> HIDE DEF x
    <3>9. appendwithsep(1, <<>>, m) = f
      BY <3>1, AppendsFrame, ConcatEmptySeq DEF f
    <3>10. pickmessge(1, appendwithsep(1, <<>>, m) \o x, stale) = Message(m, x)
      BY <1>1, <2>2, <3>7, PicksWhole
    <3> QED
      BY <1>6, <3>7, <3>8, <3>9, <3>10 DEF f, m
  <2> QED
    BY <2>6, <2>7
<1>7. n = Len(Requests) \/ n < Len(Requests)
  BY RequestsTyped
<1> QED
  BY <1>5, <1>6, <1>7

LEMMA PickThrowsNot ==
    ASSUME TypeOK, NEW n \in 0 .. Len(Requests), InputRest(n)
    PROVE  NeverThrows
<1> SUFFICES ASSUME NEW stale \in Behind
             PROVE  pickmessge(1, inputbuffer_, stale).got # "throw"
  BY DEF NeverThrows
<1>1. \/ pickmessge(1, inputbuffer_, stale) = None(inputbuffer_)
      \/ \E x \in Seq(Byte) : pickmessge(1, inputbuffer_, stale)
                                  = Message(Requests[n + 1], x)
  BY PickNext
<1> QED
  BY <1>1 DEF None, Message

---------------------------------------------------------------------------
(* The replies on their way, up to the client, answer the requests of o.   *)
Output(o) ==
    ((got \o snd) \o outputbuffer_) \o Wire(taskqueue_) = Wire(Replies(o))

(* Of the requests picked the workers have begun the first d: worker w is  *)
(* at request of[w], and what was begun is over, except on a connection    *)
(* that is closed.  One worker at most keeps the order.                    *)
Busy == {w \in 1 .. MaxSize : wk[w].at # "idle"}
Begun(n, d) == d + Len(jobs) = n /\ jobs = SubSeq(Requests, d + 1, n)
Working(o, of) ==
    /\ \A w \in Busy : wk[w].message = Requests[of[w]]
    /\ \A v, w \in Busy : v # w => of[v] # of[w]
    /\ size <= 1 => /\ Ascending(o)
                    /\ \A w \in Busy : \A i \in DOMAIN o : o[i] < of[w]
Counted(d, o) ==
    /\ Cardinality(Over(o)) = Len(o)
    /\ disconnect_ \/ Cardinality(Over(o)) + Cardinality(Busy) = d
Hand(n, d, o, of) ==
    Begun(n, d) /\ Output(o) /\ Counted(d, o) /\ Working(o, of)
Pool == /\ Busy \subseteq 1 .. size
        /\ size = 0 => jobs = <<>> /\ taskqueue_ = <<>>

Hands(n) ==
    \E d \in 0 .. n : \E o \in Orders(d) :
        \E of \in [Busy -> (1 .. d) \ Over(o)] : Hand(n, d, o, of)
EchoInv == Pool /\ \E n \in 0 .. Len(Requests) : InputRest(n) /\ Hands(n)

(* Bytes move on towards the client.                                       *)
LEMMA MovesOn ==
    ASSUME NEW n \in Nat, Hands(n),
           ((got \o snd) \o outputbuffer_) \o Wire(taskqueue_)
               = ((got' \o snd') \o outputbuffer_') \o Wire(taskqueue_'),
           UNCHANGED <<size, jobs, wk>>, disconnect_ => disconnect_'
    PROVE  Hands(n)'
<1>1. Busy' = Busy
  BY DEF Busy
<1>2. PICK d \in 0 .. n : \E o \in Orders(d) :
          \E of \in [Busy -> (1 .. d) \ Over(o)] : Hand(n, d, o, of)
  BY DEF Hands
<1>3. PICK o \in Orders(d) :
          \E of \in [Busy -> (1 .. d) \ Over(o)] : Hand(n, d, o, of)
  BY <1>2
<1>4. PICK of \in [Busy -> (1 .. d) \ Over(o)] : Hand(n, d, o, of)
  BY <1>3
<1>5. Begun(n, d)'
  BY <1>4 DEF Hand, Begun
<1>6. Output(o)'
  BY <1>4 DEF Hand, Output
<1>7. Counted(d, o)'
  BY <1>1, <1>4 DEF Hand, Counted
<1>8. Working(o, of)'
  BY <1>1, <1>4 DEF Hand, Working
<1>9. of \in [Busy' -> (1 .. d) \ Over(o)]
  BY <1>1
<1>10. Hand(n, d, o, of)'
  BY <1>5, <1>6, <1>7, <1>8 DEF Hand
<1> QED
  BY <1>9, <1>10 DEF Hands

(* What leaves all of this alone, or only closes the connection.           *)
LEMMA SameEcho ==
    ASSUME EchoInv,
           UNCHANGED <<sent, rcv, snd, got, inputbuffer_, outputbuffer_, size,
                       jobs, wk, taskqueue_>>,
           disconnect_ => disconnect_'
    PROVE  EchoInv'
<1>1. PICK n \in 0 .. Len(Requests) : InputRest(n) /\ Hands(n)
  BY DEF EchoInv
<1>2. InputRest(n)'
  BY <1>1 DEF InputRest
<1>3. n \in Nat
  BY RequestsTyped
<1>4. Hands(n)'
  BY <1>1, <1>3, MovesOn
<1>5. Pool'
  BY DEF EchoInv, Pool, Busy
<1> QED
  BY <1>2, <1>4, <1>5 DEF EchoInv

(* What only moves bytes between the buffers on the way out.               *)
LEMMA OutputEcho ==
    ASSUME EchoInv,
           ((got \o snd) \o outputbuffer_) \o Wire(taskqueue_)
               = ((got' \o snd') \o outputbuffer_') \o Wire(taskqueue_'),
           size = 0 => taskqueue_' = <<>>,
           UNCHANGED <<sent, rcv, inputbuffer_, disconnect_, size, jobs, wk>>
    PROVE  EchoInv'
<1>1. PICK n \in 0 .. Len(Requests) : InputRest(n) /\ Hands(n)
  BY DEF EchoInv
<1>2. InputRest(n)'
  BY <1>1 DEF InputRest
<1>3. n \in Nat
  BY RequestsTyped
<1>4. Hands(n)'
  BY <1>1, <1>3, MovesOn
<1>5. Pool'
  BY DEF EchoInv, Pool, Busy
<1> QED
  BY <1>2, <1>4, <1>5 DEF EchoInv

(* What only moves bytes on the way in.                                    *)
LEMMA InputEcho ==
    ASSUME EchoInv,
           \A n \in 0 .. Len(Requests) : InputRest(n) => InputRest(n)',
           UNCHANGED <<snd, got, outputbuffer_, disconnect_, size, jobs, wk,
                       taskqueue_>>
    PROVE  EchoInv'
<1>1. PICK n \in 0 .. Len(Requests) : InputRest(n) /\ Hands(n)
  BY DEF EchoInv
<1>2. InputRest(n)'
  BY <1>1
<1>3. n \in Nat
  BY RequestsTyped
<1>4. Hands(n)'
  BY <1>1, <1>3, MovesOn
<1>5. Pool'
  BY DEF EchoInv, Pool, Busy
<1> QED
  BY <1>2, <1>4, <1>5 DEF EchoInv

LEMMA ClientEcho ==
    ASSUME TypeOK, EchoInv,
           \/ \E n \in 1 .. Len(Stream) : ClientSend(n)
           \/ ClientFin
           \/ \E n \in 1 .. SndCap : ClientRead(n)
    PROVE  EchoInv'
<1>1. ASSUME NEW k \in 1 .. Len(Stream), ClientSend(k) PROVE EchoInv'
  <2> DEFINE new == SubSeq(Stream, sent + 1, sent + k)
  <2>1. /\ sent \in Nat /\ 1 \in 1 .. Len(Stream) + 1
        /\ sent \in 1 - 1 .. Len(Stream) /\ sent + k \in sent .. Len(Stream)
        /\ sent + 1 \in Nat /\ 1 <= sent + 1 /\ sent + k \in Int
        /\ sent + k <= Len(Stream)
    BY <1>1, StreamTyped DEF ClientSend, TypeOK
  <2>2. SubSeq(Stream, 1, sent) \o new = SubSeq(Stream, 1, sent + k)
    BY <2>1, StreamTyped, ConcatAdjacentSubSeq
  <2>3. new \in Seq(Byte)
    BY <2>1, StreamTyped, PieceTyped
  <2> HIDE DEF new
  <2>4. /\ rcv' = rcv \o new /\ sent' = sent + k
        /\ UNCHANGED <<inputbuffer_, snd, got, outputbuffer_, disconnect_, size,
                       jobs, wk, taskqueue_>>
    BY <1>1 DEF ClientSend, connVars, workVars, new
  <2>5. ASSUME NEW n \in 0 .. Len(Requests), InputRest(n) PROVE InputRest(n)'
    <3> DEFINE a == Frames[n] \o inputbuffer_
    <3>1. a \in Seq(Byte) /\ rcv \in Seq(Byte)
      BY FramesTyped, ConcatProperties DEF TypeOK
    <3>2. a \o rcv = SubSeq(Stream, 1, sent)
      BY <2>5 DEF InputRest
    <3> HIDE DEF a
    <3>3. a \o (rcv \o new) = (a \o rcv) \o new
      BY <2>3, <3>1, Associates
    <3>4. a \o (rcv \o new) = SubSeq(Stream, 1, sent + k)
      BY <2>2, <3>2, <3>3
    <3> QED
      BY <2>4, <3>4 DEF InputRest, a
  <2> QED
    BY <2>4, <2>5, InputEcho
<1>2. CASE ClientFin
  BY <1>2, SameEcho DEF ClientFin, connVars, workVars
<1>3. ASSUME NEW k \in 1 .. SndCap, ClientRead(k) PROVE EchoInv'
  <2>1. k \in 0 .. Len(snd) /\ got \in Seq(Byte) /\ snd \in Seq(Byte)
    BY <1>3, EdgeAssumption DEF ClientRead, TypeOK
  <2>2. (got \o SubSeq(snd, 1, k)) \o Drop(snd, k) = got \o snd
    BY <2>1, Moved
  <2>3. /\ got' = got \o SubSeq(snd, 1, k) /\ snd' = Drop(snd, k)
        /\ UNCHANGED <<sent, rcv, inputbuffer_, outputbuffer_, disconnect_, size,
                       jobs, wk, taskqueue_>>
    BY <1>3 DEF ClientRead, connVars, workVars
  <2>4. got' \o snd' = got \o snd
    BY <2>2, <2>3
  <2>5. size = 0 => taskqueue_' = <<>>
    BY <2>3 DEF EchoInv, Pool
  <2> QED
    BY <2>3, <2>4, <2>5, OutputEcho
<1> QED
  BY <1>1, <1>2, <1>3

LEMMA DispatchEcho ==
    ASSUME EchoInv, EpollWait \/ \E e \in batch : Dispatch(e)
    PROVE  EchoInv'
  BY SameEcho DEF EpollWait, Dispatch, kernelVars, connVars, workVars

LEMMA ReadEcho ==
    ASSUME TypeOK, EchoInv, Read \/ ReadAgain \/ ReadEof
    PROVE  EchoInv'
<1>1. CASE Read
  <2>1. PICK k \in 0 .. Len(rcv) :
          /\ inputbuffer_' = inputbuffer_ \o SubSeq(rcv, 1, k)
          /\ rcv' = Drop(rcv, k)
    <3>1. (IF Len(rcv) < ReadSize THEN Len(rcv) ELSE ReadSize) \in 0 .. Len(rcv)
      <4>1. Len(rcv) \in Nat /\ ReadSize \in Nat
        BY LenProperties, EdgeAssumption DEF TypeOK
      <4> QED
        BY <4>1
    <3> QED
      BY <1>1, <3>1 DEF Read
  <2>2. UNCHANGED <<sent, snd, got, outputbuffer_, disconnect_, size, jobs, wk,
                    taskqueue_>>
    BY <1>1 DEF Read, workVars
  <2>3. ASSUME NEW n \in 0 .. Len(Requests), InputRest(n) PROVE InputRest(n)'
    <3> DEFINE a == Frames[n] \o inputbuffer_
               x == SubSeq(rcv, 1, k)
               y == Drop(rcv, k)
    <3>1. /\ Frames[n] \in Seq(Byte) /\ inputbuffer_ \in Seq(Byte)
          /\ a \in Seq(Byte) /\ rcv \in Seq(Byte)
      BY FramesTyped, ConcatProperties DEF TypeOK
    <3>2. a \o rcv = SubSeq(Stream, 1, sent)
      BY <2>3 DEF InputRest
    <3> HIDE DEF a
    <3>3. x \in Seq(Byte) /\ (a \o x) \o y = a \o rcv
      BY <3>1, Moved
    <3> HIDE DEF x
    <3>4. (Frames[n] \o inputbuffer_) \o x = Frames[n] \o (inputbuffer_ \o x)
      BY <3>1, <3>3, Associates
    <3>5. (Frames[n] \o (inputbuffer_ \o x)) \o y = SubSeq(Stream, 1, sent)
      BY <3>2, <3>3, <3>4 DEF a
    <3>6. inputbuffer_' = inputbuffer_ \o x /\ rcv' = y
      BY <2>1 DEF x
    <3> HIDE DEF y
    <3>7. (Frames[n] \o inputbuffer_') \o rcv' = SubSeq(Stream, 1, sent')
      BY <2>2, <3>5, <3>6
    <3> QED
      BY <3>7 DEF InputRest
  <2> QED
    BY <2>2, <2>3, InputEcho
<1>2. CASE ReadAgain
  BY <1>2, SameEcho DEF ReadAgain, kernelVars, connVars, workVars
<1>3. CASE ReadEof
  BY <1>3, SameEcho DEF ReadEof, kernelVars, workVars
<1> QED
  BY <1>1, <1>2, <1>3

LEMMA WriteEcho ==
    ASSUME TypeOK, EchoInv, Write \/ WriteAgain
    PROVE  EchoInv'
<1>1. CASE Write
  <2>1. PICK k \in 0 .. Len(outputbuffer_) :
          /\ snd' = snd \o SubSeq(outputbuffer_, 1, k)
          /\ outputbuffer_' = Drop(outputbuffer_, k)
    <3>1. Sendable \in 0 .. Len(outputbuffer_)
      <4>1. /\ Len(outputbuffer_) \in Nat /\ Len(snd) \in Nat
            /\ Len(snd) <= SndCap /\ SndCap \in Nat
        BY LenProperties, EdgeAssumption DEF TypeOK
      <4> QED
        BY <4>1 DEF Sendable
    <3> QED
      BY <1>1, <3>1 DEF Write
  <2>2. UNCHANGED <<sent, rcv, got, inputbuffer_, disconnect_, size, jobs, wk,
                    taskqueue_>>
    BY <1>1 DEF Write, workVars
  <2> DEFINE x == SubSeq(outputbuffer_, 1, k)
             y == Drop(outputbuffer_, k)
             g == got \o snd
  <2>3. /\ got \in Seq(Byte) /\ snd \in Seq(Byte)
        /\ g \in Seq(Byte) /\ outputbuffer_ \in Seq(Byte)
    BY ConcatProperties DEF TypeOK
  <2> HIDE DEF g
  <2>4. x \in Seq(Byte) /\ (g \o x) \o y = g \o outputbuffer_
    BY <2>3, Moved
  <2> HIDE DEF x
  <2>5. (got \o snd) \o x = got \o (snd \o x)
    BY <2>3, <2>4, Associates
  <2>6. snd' = snd \o x /\ outputbuffer_' = y
    BY <2>1 DEF x
  <2> HIDE DEF y
  <2>7. (got' \o snd') \o outputbuffer_' = (got \o snd) \o outputbuffer_
    BY <2>2, <2>4, <2>5, <2>6 DEF g
  <2>8. size = 0 => taskqueue_' = <<>>
    BY <2>2 DEF EchoInv, Pool
  <2> QED
    BY <2>2, <2>7, <2>8, OutputEcho
<1>2. CASE WriteAgain
  BY <1>2, SameEcho DEF WriteAgain, connVars, workVars
<1> QED
  BY <1>1, <1>2

LEMMA DrainEcho ==
    ASSUME TypeOK, EchoInv, SendInLoop \/ DrainDone
    PROVE  EchoInv'
<1>1. CASE SendInLoop /\ disconnect_
  BY <1>1, SameEcho DEF SendInLoop, kernelVars, connVars
<1>2. CASE SendInLoop /\ ~disconnect_
  <2> DEFINE h == Head(taskqueue_)
             t == Tail(taskqueue_)
             g == got \o snd
  <2>1. /\ taskqueue_ # <<>> /\ taskqueue_' = t
        /\ outputbuffer_' = appendwithsep(1, outputbuffer_, h)
        /\ UNCHANGED <<sent, rcv, snd, got, inputbuffer_, disconnect_, size,
                       jobs, wk>>
    BY <1>2 DEF SendInLoop
  <2>2. /\ h \in Seq(Byte) /\ t \in Seq(Seq(Byte)) /\ taskqueue_ = <<h>> \o t
    BY <2>1 DEF TypeOK
  <2>3. outputbuffer_' = outputbuffer_ \o Frame(h)
    BY <2>1, AppendsFrame
  <2>4. /\ g \in Seq(Byte) /\ outputbuffer_ \in Seq(Byte)
        /\ Frame(h) \in Seq(Byte) /\ Wire(t) \in Seq(Byte)
        /\ g \o outputbuffer_ \in Seq(Byte)
    BY <2>2, FrameTyped, WireTyped, ConcatProperties DEF TypeOK
  <2> HIDE DEF h, t
  <2>5. Wire(taskqueue_) = Frame(h) \o Wire(t)
    <3>1. <<h>> \in Seq(Seq(Byte))
      BY <2>2
    <3> QED
      BY <2>2, <3>1, WireConcat, WireOne
  <2>6. (g \o (outputbuffer_ \o Frame(h))) \o Wire(t)
            = (g \o outputbuffer_) \o (Frame(h) \o Wire(t))
    <3>1. g \o (outputbuffer_ \o Frame(h)) = (g \o outputbuffer_) \o Frame(h)
      BY <2>4, Associates
    <3>2. ((g \o outputbuffer_) \o Frame(h)) \o Wire(t)
              = (g \o outputbuffer_) \o (Frame(h) \o Wire(t))
      BY <2>4, Associates
    <3> QED
      BY <3>1, <3>2
  <2>7. ((got' \o snd') \o outputbuffer_') \o Wire(taskqueue_')
            = ((got \o snd) \o outputbuffer_) \o Wire(taskqueue_)
    BY <2>1, <2>3, <2>5, <2>6 DEF g
  <2>8. size # 0
    BY <2>1 DEF EchoInv, Pool
  <2> QED
    BY <2>1, <2>7, <2>8, OutputEcho
<1>3. CASE DrainDone
  BY <1>3, SameEcho DEF DrainDone, kernelVars, connVars, workVars
<1> QED
  BY <1>1, <1>2, <1>3

LEMMA BusyTyped ==
    /\ IsFiniteSet(Busy) /\ Cardinality(Busy) \in Nat
<1>1. IsFiniteSet(1 .. MaxSize)
  BY EdgeAssumption, FS_Interval
<1>2. Busy \in SUBSET (1 .. MaxSize)
  BY DEF Busy
<1> QED
  BY <1>1, <1>2, FS_Subset, FS_CardinalityType

LEMMA HandsAre ==
    ASSUME NEW n, Hands(n)
    PROVE  \E d \in 0 .. n : \E o \in Orders(d) :
               \E of \in [Busy -> (1 .. d) \ Over(o)] : Hand(n, d, o, of)
  BY DEF Hands

(* A message that was picked without workers is answered at once, ...      *)
LEMMA PickAnswers ==
    ASSUME TypeOK, EchoInv, NEW n \in 0 .. Len(Requests), Hands(n),
           n < Len(Requests), size = 0,
           outputbuffer_' = outputbuffer_ \o Frame(Prefix \o Requests[n + 1]),
           UNCHANGED <<snd, got, disconnect_, size, jobs, wk, taskqueue_>>
    PROVE  Hands(n + 1)'
<1> DEFINE x == n + 1
<1>1. n \in Nat /\ x \in Nat /\ n < x /\ x \in 1 .. Len(Requests)
  BY RequestsTyped
<1>2. PICK d \in 0 .. n : \E o \in Orders(d) :
          \E of \in [Busy -> (1 .. d) \ Over(o)] : Hand(n, d, o, of)
  BY HandsAre
<1>3. PICK o \in Orders(d) :
          \E of \in [Busy -> (1 .. d) \ Over(o)] : Hand(n, d, o, of)
  BY <1>2
<1>4. PICK of \in [Busy -> (1 .. d) \ Over(o)] : Hand(n, d, o, of)
  BY <1>3
<1>5. jobs = <<>> /\ taskqueue_ = <<>> /\ Busy = {}
  <2>1. 1 .. size = {}
    OBVIOUS
  <2> QED
    BY <2>1 DEF EchoInv, Pool
<1>6. d = n
  <2>1. d + 0 = n
    BY <1>4, <1>5, EmptySeq DEF Hand, Begun
  <2> QED
    BY <2>1
<1>7. /\ o \in Seq(1 .. n) /\ Len(o) \in Nat /\ DOMAIN o = 1 .. Len(o)
      /\ Over(o) \subseteq 1 .. n /\ \A i \in 1 .. Len(o) : o[i] \in 1 .. n
  BY <1>1, <1>3, <1>6, OrderIs
<1>8. o \in Orders(x) /\ x \in (1 .. x) \ Over(o)
  BY <1>1, <1>3, <1>6, <1>7, OrderGrows
<1>9. Cardinality(Over(o)) = Len(o)
  BY <1>4 DEF Hand, Counted
<1> DEFINE p == Append(o, x)
<1> HIDE DEF x
<1>10. /\ p \in Orders(x) /\ Over(p) = Over(o) \cup {x}
       /\ Cardinality(Over(p)) = Len(o) + 1 /\ Len(p) = Len(o) + 1
       /\ \A i \in 1 .. Len(o) : p[i] = o[i]
       /\ p[Len(o) + 1] = x
  BY <1>1, <1>8, <1>9, OrderAppend
<1>11. DOMAIN p = 1 .. Len(o) + 1
  BY <1>1, <1>10, OrderIs
<1>12. Wire(Replies(p)) = Wire(Replies(o)) \o Frame(Prefix \o Requests[x])
  <2>1. 1 .. n \subseteq 1 .. Len(Requests)
    BY <1>1, RequestsTyped
  <2>2. o \in Seq(1 .. Len(Requests))
    BY <1>7, <2>1, SeqMonotonic
  <2> QED
    BY <1>1, <2>2, RepliesAppend
<1> HIDE DEF p
<1>13. Output(p)'
  <2> DEFINE g == got \o snd
             f == Frame(Prefix \o Requests[x])
  <2>1. /\ g \in Seq(Byte) /\ outputbuffer_ \in Seq(Byte) /\ f \in Seq(Byte)
        /\ g \o outputbuffer_ \in Seq(Byte)
        /\ g \o (outputbuffer_ \o f) \in Seq(Byte)
    BY <1>1, ReplyIs, FrameTyped, ConcatProperties DEF TypeOK
  <2>2. outputbuffer_' = outputbuffer_ \o f
    BY DEF x
  <2> HIDE DEF f
  <2>3. (g \o outputbuffer_) \o <<>> = Wire(Replies(o))
    BY <1>4, <1>5, WireEmpty DEF Hand, Output
  <2>4. g \o outputbuffer_ = Wire(Replies(o))
    BY <2>1, <2>3, ConcatEmptySeq
  <2>5. (g \o (outputbuffer_ \o f)) \o <<>> = (g \o outputbuffer_) \o f
    BY <2>1, Associates, ConcatEmptySeq
  <2>6. (g \o outputbuffer_') \o Wire(taskqueue_') = Wire(Replies(p))
    BY <1>5, <1>12, <2>2, <2>4, <2>5, WireEmpty DEF f
  <2>7. g = got' \o snd'
    OBVIOUS
  <2> HIDE DEF g
  <2> QED
    BY <2>6, <2>7 DEF Output
<1>14. Busy' = {}
  BY <1>5 DEF Busy
<1>15. Begun(x, x)'
  <2>1. SubSeq(Requests, x + 1, x) = <<>>
    BY <1>1, SubSeqEmpty
  <2>2. jobs' = <<>> /\ x + 0 = x
    BY <1>1, <1>5
  <2> QED
    BY <2>1, <2>2, EmptySeq DEF Begun
<1>16. Counted(x, p)'
  <2>1. disconnect_ \/ Len(o) = n
    <3>1. disconnect_ \/ Cardinality(Over(o)) + Cardinality(Busy) = d
      BY <1>4 DEF Hand, Counted
    <3>2. Cardinality(Busy) = 0 /\ Cardinality(Over(o)) + 0 = Len(o)
      BY <1>5, <1>7, <1>9, FS_EmptySet
    <3> QED
      BY <1>6, <1>9, <3>1, <3>2
  <2>2. Cardinality({}) = 0
    BY FS_EmptySet
  <2>3. disconnect_ \/ (Len(o) + 1) + 0 = x
    BY <2>1, <1>1 DEF x
  <2> QED
    BY <1>10, <1>14, <2>2, <2>3 DEF Counted
<1>17. Working(p, of)'
  <2>1. Ascending(o)
    BY <1>4 DEF Hand, Working
  <2>2. Ascending(p)
    <3> SUFFICES ASSUME NEW i \in 1 .. Len(o) + 1, NEW j \in 1 .. Len(o) + 1,
                        i < j
                 PROVE  p[i] < p[j]
      BY <1>11 DEF Ascending
    <3>1. i \in 1 .. Len(o) /\ (j \in 1 .. Len(o) \/ j = Len(o) + 1)
      BY <1>7
    <3>2. p[i] = o[i] /\ o[i] \in 1 .. n
      BY <1>7, <1>10, <3>1
    <3>3. CASE j \in 1 .. Len(o)
      BY <1>7, <1>10, <2>1, <3>1, <3>2, <3>3 DEF Ascending
    <3>4. CASE j = Len(o) + 1
      BY <1>1, <1>10, <3>2, <3>4 DEF x
    <3> QED
      BY <3>1, <3>3, <3>4
  <2> QED
    BY <1>14, <2>2 DEF Working
<1>18. of \in [Busy' -> (1 .. x) \ Over(p)]
  BY <1>5, <1>14
<1>19. Hand(x, x, p, of)'
  BY <1>13, <1>15, <1>16, <1>17 DEF Hand
<1>20. x \in 0 .. x
  BY <1>1
<1>21. Hands(x)'
  BY <1>10, <1>18, <1>19, <1>20 DEF Hands
<1> QED
  BY <1>21 DEF x

(* ... and handed to the workers otherwise.                                *)
LEMMA PickHands ==
    ASSUME TypeOK, NEW n \in 0 .. Len(Requests), Hands(n),
           n < Len(Requests), jobs' = Append(jobs, Requests[n + 1]),
           UNCHANGED <<snd, got, outputbuffer_, disconnect_, size, wk,
                       taskqueue_>>
    PROVE  Hands(n + 1)'
<1> DEFINE x == n + 1
<1>1. n \in Nat /\ x \in Nat /\ n < x /\ x \in 1 .. Len(Requests) /\ x - 1 = n
  BY RequestsTyped
<1>2. PICK d \in 0 .. n : \E o \in Orders(d) :
          \E of \in [Busy -> (1 .. d) \ Over(o)] : Hand(n, d, o, of)
  BY HandsAre
<1>3. PICK o \in Orders(d) :
          \E of \in [Busy -> (1 .. d) \ Over(o)] : Hand(n, d, o, of)
  BY <1>2
<1>4. PICK of \in [Busy -> (1 .. d) \ Over(o)] : Hand(n, d, o, of)
  BY <1>3
<1>5. Busy' = Busy
  BY DEF Busy
<1>6. Requests[x] \in Seq(Byte) /\ jobs \in Seq(Seq(Byte))
  BY <1>1, RequestsTyped DEF TypeOK
<1> HIDE DEF x
<1>7. Begun(x, d)'
  <2> DEFINE a == d + 1
  <2>1. a \in 1 .. Len(Requests) /\ x \in a .. Len(Requests)
    BY <1>1, RequestsTyped DEF x
  <2>2. d + Len(jobs) = n /\ jobs = SubSeq(Requests, a, n)
    BY <1>4 DEF Hand, Begun
  <2> HIDE DEF a
  <2>3. SubSeq(Requests, a, x) = SubSeq(Requests, a, x - 1) \o <<Requests[x]>>
    BY <2>1, RequestsTyped, SubSeqRecursiveSecond
  <2>4. /\ Append(jobs, Requests[x]) = jobs \o <<Requests[x]>>
        /\ Len(Append(jobs, Requests[x])) = Len(jobs) + 1
        /\ Len(jobs) \in Nat
    BY <1>6, AppendIsConcat, AppendProperties, LenProperties
  <2>5. jobs' = Append(jobs, Requests[x])
    BY DEF x
  <2>6. jobs' = SubSeq(Requests, a, x)
    BY <1>1, <2>2, <2>3, <2>4, <2>5
  <2>7. d + Len(jobs') = x
    <3>1. d \in Nat /\ n \in Nat /\ x = n + 1
      BY <1>1 DEF x
    <3> DEFINE k == Len(jobs)
    <3>2. k \in Nat /\ Len(jobs') = k + 1
      BY <2>4, <2>5
    <3>3. d + k = n
      BY <2>2
    <3> HIDE DEF k
    <3>4. d + (k + 1) = x
      BY <3>1, <3>2, <3>3
    <3> QED
      BY <3>2, <3>4
  <2> QED
    BY <2>6, <2>7 DEF Begun, a
<1>8. Output(o)'
  BY <1>4 DEF Hand, Output
<1>9. Counted(d, o)'
  BY <1>4, <1>5 DEF Hand, Counted
<1>10. Working(o, of)'
  BY <1>4, <1>5 DEF Hand, Working
<1>11. of \in [Busy' -> (1 .. d) \ Over(o)] /\ d \in 0 .. x
  BY <1>1, <1>5
<1>12. Hand(x, d, o, of)'
  BY <1>7, <1>8, <1>9, <1>10 DEF Hand
<1>13. Hands(x)'
  BY <1>11, <1>12 DEF Hands
<1> QED
  BY <1>13 DEF x

LEMMA PickEcho ==
    ASSUME TypeOK, EchoInv, NEW stale \in Behind, Pick(stale) \/ PickNone(stale)
    PROVE  EchoInv'
<1>1. CASE PickNone(stale)
  BY <1>1, SameEcho DEF PickNone, kernelVars, connVars, workVars
<1>2. CASE Pick(stale)
  <2> DEFINE p == pickmessge(1, inputbuffer_, stale)
  <2>1. /\ p.got = "message"
        /\ inputbuffer_' = p.rest
        /\ \/ /\ size = 0
              /\ outputbuffer_' = appendwithsep(1, outputbuffer_, Reply(p.ss))
              /\ UNCHANGED jobs
           \/ /\ size > 0
              /\ jobs' = Append(jobs, p.ss)
              /\ UNCHANGED outputbuffer_
        /\ UNCHANGED <<sent, rcv, snd, got, disconnect_, size, wk, taskqueue_>>
    BY <1>2 DEF Pick
  <2>2. PICK n \in 0 .. Len(Requests) : InputRest(n) /\ Hands(n)
    BY DEF EchoInv
  <2>3. PICK x \in Seq(Byte) :
            /\ inputbuffer_ = Frame(Requests[n + 1]) \o x
            /\ p = Message(Requests[n + 1], x)
    <3>1. None(inputbuffer_).got # "message"
      BY DEF None
    <3> QED
      BY <2>1, <2>2, <3>1, PickNext
  <2>4. n < Len(Requests)
    <3>1. None(inputbuffer_).got # "message"
      BY DEF None
    <3> QED
      BY <2>1, <2>2, <3>1, PickNext
  <2>5. p.ss = Requests[n + 1] /\ p.rest = x
    BY <2>3 DEF Message
  <2> HIDE DEF p
  <2>6. /\ n \in 0 .. Len(Requests) - 1 /\ n + 1 \in 0 .. Len(Requests)
        /\ n + 1 \in 1 .. Len(Requests)
    BY <2>4, RequestsTyped
  <2>7. Reply(p.ss) = Prefix \o Requests[n + 1]
    BY <2>5, <2>6, ReplyIs
  <2>8. InputRest(n + 1)'
    <3> DEFINE f == Frame(Requests[n + 1])
    <3>1. Frames[n] \in Seq(Byte) /\ f \in Seq(Byte)
      BY <2>6, FramesTyped, RequestsTyped, FrameTyped
    <3>2. Frames[n + 1] = Frames[n] \o f
      BY <2>6, FramesNext
    <3> HIDE DEF f
    <3>3. (Frames[n] \o f) \o x = Frames[n] \o (f \o x)
      BY <3>1, Associates
    <3>4. (Frames[n] \o inputbuffer_) \o rcv = SubSeq(Stream, 1, sent)
      BY <2>2 DEF InputRest
    <3>5. inputbuffer_ = f \o x /\ inputbuffer_' = x
      BY <2>1, <2>3, <2>5 DEF f
    <3>6. (Frames[n + 1] \o inputbuffer_') \o rcv' = SubSeq(Stream, 1, sent')
      BY <2>1, <3>2, <3>3, <3>4, <3>5
    <3> QED
      BY <3>6 DEF InputRest
  <2>9. Hands(n + 1)'
    <3>1. CASE /\ size = 0 /\ UNCHANGED jobs
               /\ outputbuffer_' = appendwithsep(1, outputbuffer_, Reply(p.ss))
      <4>1. outputbuffer_' = outputbuffer_ \o Frame(Prefix \o Requests[n + 1])
        BY <2>7, <3>1, AppendsFrame
      <4> QED
        BY <2>1, <2>2, <2>4, <3>1, <4>1, PickAnswers
    <3>2. CASE /\ jobs' = Append(jobs, p.ss) /\ UNCHANGED outputbuffer_
      <4>1. jobs' = Append(jobs, Requests[n + 1])
        BY <2>5, <3>2
      <4> QED
        BY <2>1, <2>2, <2>4, <3>2, <4>1, PickHands
    <3> QED
      BY <2>1, <3>1, <3>2
  <2>10. Pool'
    <3>1. Busy' = Busy
      BY <2>1 DEF Busy
    <3>2. size = 0 => UNCHANGED jobs
      BY <2>1
    <3> QED
      BY <2>1, <3>1, <3>2 DEF EchoInv, Pool
  <2> QED
    BY <2>6, <2>8, <2>9, <2>10 DEF EchoInv
<1> QED
  BY <1>1, <1>2

(* An idle worker begins the next request.                                 *)
LEMMA TakeHands ==
    ASSUME TypeOK, Pool, NEW n \in 0 .. Len(Requests), Hands(n),
           NEW w \in 1 .. MaxSize, TakeJob(w)
    PROVE  Hands(n)'
<1>1. PICK d \in 0 .. n : \E o \in Orders(d) :
          \E of \in [Busy -> (1 .. d) \ Over(o)] : Hand(n, d, o, of)
  BY HandsAre
<1>2. PICK o \in Orders(d) :
          \E of \in [Busy -> (1 .. d) \ Over(o)] : Hand(n, d, o, of)
  BY <1>1
<1>3. PICK of \in [Busy -> (1 .. d) \ Over(o)] : Hand(n, d, o, of)
  BY <1>2
<1> DEFINE x == d + 1
<1>4. /\ jobs # <<>> /\ w \in 1 .. size /\ wk[w].at = "idle"
      /\ wk' = [wk EXCEPT ![w] = [at |-> "send", message |-> Head(jobs)]]
      /\ jobs' = Tail(jobs)
      /\ UNCHANGED <<snd, got, outputbuffer_, disconnect_, size, taskqueue_>>
  BY DEF TakeJob, Idle, kernelVars, connVars
<1>5. /\ d \in Nat /\ n \in Nat /\ x \in Nat /\ d <= x
  BY RequestsTyped
<1>6. /\ Len(jobs) \in Nat /\ Len(jobs) # 0 /\ jobs \in Seq(Seq(Byte))
      /\ Len(Tail(jobs)) = Len(jobs) - 1
  BY <1>4, LenProperties, EmptySeq, HeadTailProperties DEF TypeOK
<1>7. x \in 0 .. n /\ x \in 1 .. Len(Requests) /\ n \in x .. Len(Requests)
  <2>1. d + Len(jobs) = n
    BY <1>3 DEF Hand, Begun
  <2> QED
    BY <1>5, <1>6, <2>1, RequestsTyped
<1>8. Begun(n, x)' /\ Head(jobs) = Requests[x]
  <2>1. jobs = SubSeq(Requests, x, n)
    BY <1>3 DEF Hand, Begun
  <2>2. d + Len(jobs) = n
    BY <1>3 DEF Hand, Begun
  <2>3. x + Len(Tail(jobs)) = n
    <3> DEFINE k == Len(jobs)
               j == Len(Tail(jobs))
    <3>1. k \in Nat /\ j = k - 1 /\ d + k = n
      BY <1>6, <2>2
    <3> HIDE DEF k, j
    <3>2. x + j = n
      BY <1>5, <3>1
    <3> QED
      BY <3>2 DEF j
  <2> HIDE DEF x
  <2>4. /\ Head(SubSeq(Requests, x, n)) = Requests[x]
        /\ Tail(SubSeq(Requests, x, n)) = SubSeq(Requests, x + 1, n)
    BY <1>7, RequestsTyped, HeadTailOfSubSeq
  <2> QED
    BY <1>4, <2>1, <2>3, <2>4 DEF Begun
<1>9. /\ w \notin Busy /\ Busy' = Busy \cup {w}
      /\ wk'[w].message = Requests[x]
      /\ \A v \in Busy : v # w /\ wk'[v] = wk[v]
  <2>1. w \notin Busy
    BY <1>4 DEF Busy
  <2>2. wk'[w] = [at |-> "send", message |-> Head(jobs)]
    BY <1>4 DEF TypeOK
  <2>3. \A v \in 1 .. MaxSize : v # w => wk'[v] = wk[v]
    BY <1>4 DEF TypeOK
  <2>4. Busy' = Busy \cup {w}
    BY <2>2, <2>3 DEF Busy
  <2>5. \A v \in Busy : v \in 1 .. MaxSize
    BY DEF Busy
  <2> QED
    BY <1>8, <2>1, <2>2, <2>3, <2>4, <2>5
<1>10. /\ o \in Orders(x) /\ DOMAIN o = 1 .. Len(o)
       /\ \A i \in DOMAIN o : o[i] \in 1 .. d
       /\ Over(o) \subseteq 1 .. d
  BY <1>2, <1>5, OrderIs, OrderGrows
<1>11. /\ \A v \in Busy : of[v] \in (1 .. d) \ Over(o)
       /\ \A v \in Busy : of[v] < x /\ of[v] \in 1 .. x
       /\ x \in (1 .. x) \ Over(o)
  BY <1>5, <1>10
<1> HIDE DEF x
<1>12. PICK on : on = [v \in Busy \cup {w} |-> IF v = w THEN x ELSE of[v]]
  OBVIOUS
<1>13. /\ on \in [Busy' -> (1 .. x) \ Over(o)] /\ on[w] = x
       /\ \A v \in Busy : on[v] = of[v]
  BY <1>9, <1>11, <1>12
<1>14. Output(o)'
  BY <1>3, <1>4 DEF Hand, Output
<1>15. Counted(x, o)'
  <2>1. Cardinality(Busy') = Cardinality(Busy) + 1
    BY <1>9, BusyTyped, FS_AddElement
  <2>2. /\ Cardinality(Over(o)) = Len(o)
        /\ disconnect_ \/ Cardinality(Over(o)) + Cardinality(Busy) = d
    BY <1>3 DEF Hand, Counted
  <2>3. Cardinality(Over(o)) \in Nat
    BY <1>2, <1>5, OrderIs, FS_CardinalityType
  <2>4. disconnect_ \/ Cardinality(Over(o)) + Cardinality(Busy') = x
    <3> DEFINE a == Cardinality(Over(o))
               b == Cardinality(Busy)
               c == Cardinality(Busy')
    <3>1. /\ a \in Nat /\ b \in Nat /\ c = b + 1
          /\ disconnect_ \/ a + b = d
      BY <2>1, <2>2, <2>3, BusyTyped
    <3> HIDE DEF a, b, c
    <3>2. a + b = d => a + c = x
      BY <1>5, <3>1 DEF x
    <3>3. disconnect_ \/ a + c = x
      BY <3>1, <3>2
    <3> QED
      BY <3>3 DEF a, c
  <2> QED
    BY <1>4, <2>2, <2>4 DEF Counted
<1>16. Working(o, on)'
  <2>1. \A v \in Busy' : wk'[v].message = Requests[on[v]]
    BY <1>3, <1>9, <1>13 DEF Hand, Working
  <2>2. \A u, v \in Busy' : u # v => on[u] # on[v]
    <3>1. \A u, v \in Busy : u # v => on[u] # on[v]
      BY <1>3, <1>13 DEF Hand, Working
    <3>2. \A v \in Busy : of[v] # x
      BY <1>5, <1>11
    <3>3. \A v \in Busy : on[v] # on[w]
      BY <1>13, <3>2
    <3> QED
      BY <1>9, <3>1, <3>3
  <2>3. size <= 1 => /\ Ascending(o)
                     /\ \A v \in Busy' : \A i \in DOMAIN o : o[i] < on[v]
    <3>1. \A i \in DOMAIN o : o[i] < on[w]
      BY <1>5, <1>10, <1>13 DEF x
    <3> QED
      BY <1>3, <1>9, <1>13, <3>1 DEF Hand, Working
  <2> QED
    BY <1>4, <2>1, <2>2, <2>3 DEF Working
<1>17. Hand(n, x, o, on)'
  BY <1>8, <1>14, <1>15, <1>16 DEF Hand
<1> QED
  BY <1>7, <1>10, <1>13, <1>17 DEF Hands

(* It is over for a worker, answered in o or dropped.                      *)
LEMMA LeaveHands ==
    ASSUME NEW n \in Nat, NEW d \in 0 .. n, NEW o \in Orders(d),
           NEW of \in [Busy -> (1 .. d) \ Over(o)], Hand(n, d, o, of),
           NEW w \in Busy, Busy' = Busy \ {w},
           \A v \in Busy : v # w => wk'[v] = wk[v],
           UNCHANGED <<disconnect_, size, jobs>>,
           NEW p \in Orders(d), Output(p)',
           Cardinality(Over(p)) = Len(p),
           disconnect_ \/ Len(p) = Len(o) + 1,
           Over(p) \subseteq Over(o) \cup {of[w]},
           size <= 1 => Ascending(p),
           size <= 1 => Busy = {w}
    PROVE  Hands(n)'
<1>1. PICK on : on = [v \in Busy \ {w} |-> of[v]]
  OBVIOUS
<1>2. \A v \in Busy \ {w} : of[v] # of[w]
  BY DEF Hand, Working
<1>3. on \in [Busy' -> (1 .. d) \ Over(p)] /\ \A v \in Busy' : on[v] = of[v]
  BY <1>2, <1>1
<1>4. Begun(n, d)'
  BY DEF Hand, Begun
<1>5. Counted(d, p)'
  <2>1. Cardinality(Busy') = Cardinality(Busy) - 1
    BY BusyTyped, FS_RemoveElement
  <2>2. /\ Cardinality(Over(o)) = Len(o)
        /\ disconnect_ \/ Cardinality(Over(o)) + Cardinality(Busy) = d
    BY DEF Hand, Counted
  <2>3. Cardinality(Over(o)) \in Nat /\ d \in Nat
    BY OrderIs, FS_CardinalityType
  <2> DEFINE a == Cardinality(Over(o))
             b == Cardinality(Busy)
             c == Cardinality(Busy')
             e == Cardinality(Over(p))
  <2>4. /\ a \in Nat /\ b \in Nat /\ c = b - 1 /\ (disconnect_ \/ a + b = d)
        /\ disconnect_ \/ e = a + 1
    <3>1. disconnect_ \/ Cardinality(Over(p)) = Cardinality(Over(o)) + 1
      BY <2>2
    <3> QED
      BY <2>1, <2>2, <2>3, <3>1, BusyTyped
  <2> HIDE DEF a, b, c, e
  <2>5. disconnect_ \/ e + c = d
    BY <2>3, <2>4
  <2>6. disconnect_' \/ Cardinality(Over(p)) + Cardinality(Busy') = d
    BY <2>5 DEF e, c
  <2> QED
    BY <2>6 DEF Counted
<1>6. Working(p, on)'
  <2>1. \A v \in Busy' : wk'[v].message = Requests[on[v]]
    BY <1>3 DEF Hand, Working
  <2>2. \A u, v \in Busy' : u # v => on[u] # on[v]
    BY <1>3 DEF Hand, Working
  <2>3. size <= 1 => Busy' = {}
    OBVIOUS
  <2> QED
    BY <2>1, <2>2, <2>3 DEF Working
<1>7. Hand(n, d, p, on)'
  BY <1>4, <1>5, <1>6 DEF Hand
<1> QED
  BY <1>3, <1>7 DEF Hands

(* A worker ends with the reply queued, or dropped on a closed connection. *)
LEMMA EndHands ==
    ASSUME TypeOK, Pool, NEW n \in Nat, Hands(n), NEW w \in 1 .. MaxSize,
           \/ QueueInLoop(w) /\ n <= Len(Requests)
           \/ CheckDisconnect(w) /\ disconnect_
    PROVE  Hands(n)'
<1>1. PICK d \in 0 .. n : \E o \in Orders(d) :
          \E of \in [Busy -> (1 .. d) \ Over(o)] : Hand(n, d, o, of)
  BY HandsAre
<1>2. PICK o \in Orders(d) :
          \E of \in [Busy -> (1 .. d) \ Over(o)] : Hand(n, d, o, of)
  BY <1>1
<1>3. PICK of \in [Busy -> (1 .. d) \ Over(o)] : Hand(n, d, o, of)
  BY <1>2
<1>4. /\ wk[w].at # "idle"
      /\ wk' = [wk EXCEPT ![w] = [at |-> "idle", message |-> <<>>]]
      /\ UNCHANGED <<snd, got, outputbuffer_, disconnect_, size, jobs>>
  BY DEF QueueInLoop, CheckDisconnect, kernelVars, connVars
<1>5. /\ w \in Busy /\ Busy' = Busy \ {w}
      /\ \A v \in Busy : v # w => wk'[v] = wk[v]
  BY <1>4 DEF TypeOK, Busy
<1>6. size <= 1 => Busy = {w}
  <2>1. Busy \subseteq 1 .. size
    BY DEF Pool
  <2>2. size <= 1 => \A v \in 1 .. size : v = 1
    BY DEF TypeOK
  <2> QED
    BY <1>5, <2>1, <2>2
<1>7. /\ o \in Seq(1 .. d) /\ Len(o) \in Nat /\ DOMAIN o = 1 .. Len(o)
      /\ d \in Nat
  BY <1>2, OrderIs
<1>8. /\ Cardinality(Over(o)) = Len(o)
      /\ size <= 1 => /\ Ascending(o)
                      /\ \A i \in DOMAIN o : o[i] < of[w]
  BY <1>3, <1>5 DEF Hand, Counted, Working
<1>9. ASSUME CheckDisconnect(w), disconnect_ PROVE Hands(n)'
  <2>1. Output(o)'
    BY <1>3, <1>4, <1>9 DEF CheckDisconnect, Hand, Output
  <2> QED
    BY <1>2, <1>3, <1>4, <1>5, <1>6, <1>8, <1>9, <2>1, LeaveHands
<1>10. ASSUME QueueInLoop(w), n <= Len(Requests) PROVE Hands(n)'
  <2>1. PICK x : x = of[w]
    OBVIOUS
  <2>2. x \in (1 .. d) \ Over(o) /\ x \in 1 .. Len(Requests)
    BY <1>5, <1>7, <1>10, <2>1, RequestsTyped
  <2>3. PICK p : p = Append(o, x)
    OBVIOUS
  <2>4. /\ p \in Orders(d) /\ Over(p) = Over(o) \cup {x}
        /\ Cardinality(Over(p)) = Len(o) + 1 /\ Len(p) = Len(o) + 1
        /\ \A i \in 1 .. Len(o) : p[i] = o[i]
        /\ p[Len(o) + 1] = x
    BY <1>2, <1>7, <1>8, <2>2, <2>3, OrderAppend
  <2>5. DOMAIN p = 1 .. Len(o) + 1
    BY <1>7, <2>4, OrderIs
  <2>6. size <= 1 => Ascending(p)
    <3> SUFFICES ASSUME size <= 1,
                        NEW i \in 1 .. Len(o) + 1, NEW j \in 1 .. Len(o) + 1,
                        i < j
                 PROVE  p[i] < p[j]
      BY <2>5 DEF Ascending
    <3>1. i \in 1 .. Len(o) /\ (j \in 1 .. Len(o) \/ j = Len(o) + 1)
      BY <1>7
    <3>2. p[i] = o[i] /\ o[i] < x
      BY <1>7, <1>8, <2>1, <2>4, <3>1
    <3>3. CASE j \in 1 .. Len(o)
      BY <1>7, <1>8, <2>4, <3>1, <3>2, <3>3 DEF Ascending
    <3>4. CASE j = Len(o) + 1
      BY <2>4, <3>2, <3>4
    <3> QED
      BY <3>1, <3>3, <3>4
  <2>7. Output(p)'
    <3> DEFINE g == (got \o snd) \o outputbuffer_
               m == Prefix \o Requests[x]
               f == Frame(m)
    <3>1. /\ g \in Seq(Byte) /\ m \in Seq(Byte) /\ f \in Seq(Byte)
          /\ taskqueue_ \in Seq(Seq(Byte)) /\ Wire(taskqueue_) \in Seq(Byte)
      BY <2>2, ReplyIs, FrameTyped, WireTyped, ConcatProperties DEF TypeOK
    <3>2. taskqueue_' = Append(taskqueue_, m)
      <4>1. wk[w].message = Requests[x]
        BY <1>3, <1>5, <2>1 DEF Hand, Working
      <4> QED
        BY <1>10, <2>2, <4>1, ReplyIs DEF QueueInLoop
    <3>3. Wire(Replies(p)) = Wire(Replies(o)) \o f
      <4>1. 1 .. d \subseteq 1 .. Len(Requests)
        BY <1>7, <1>10, RequestsTyped
      <4>2. o \in Seq(1 .. Len(Requests))
        BY <1>7, <4>1, SeqMonotonic
      <4> QED
        BY <2>2, <2>3, <4>2, RepliesAppend
    <3> HIDE DEF m
    <3>4. Wire(taskqueue_') = Wire(taskqueue_) \o f
      BY <3>1, <3>2, WireAppend
    <3>5. g = (got' \o snd') \o outputbuffer_'
      BY <1>4
    <3>6. g \o Wire(taskqueue_) = Wire(Replies(o))
      BY <1>3 DEF Hand, Output
    <3> HIDE DEF g, f
    <3>7. g \o (Wire(taskqueue_) \o f) = (g \o Wire(taskqueue_)) \o f
      BY <3>1, Associates
    <3>8. g \o Wire(taskqueue_') = Wire(Replies(p))
      BY <3>3, <3>4, <3>6, <3>7
    <3> QED
      BY <3>5, <3>8 DEF Output
  <2>8. /\ Cardinality(Over(p)) = Len(p) /\ Len(p) = Len(o) + 1
        /\ Over(p) \subseteq Over(o) \cup {of[w]} /\ p \in Orders(d)
    BY <2>1, <2>4
  <2>9. /\ w \in Busy /\ Busy' = Busy \ {w}
        /\ \A v \in Busy : v # w => wk'[v] = wk[v]
        /\ UNCHANGED <<disconnect_, size, jobs>>
    BY <1>4, <1>5
  <2>10. Hand(n, d, o, of) /\ (size <= 1 => Busy = {w})
    BY <1>3, <1>6
  <2> QED
    BY <2>6, <2>7, <2>8, <2>9, <2>10, LeaveHands
<1> QED
  BY <1>9, <1>10

LEMMA WorkerEcho ==
    ASSUME TypeOK, EchoInv, NEW w \in 1 .. MaxSize, Worker(w)
    PROVE  EchoInv'
<1>1. PICK n \in 0 .. Len(Requests) : InputRest(n) /\ Hands(n)
  BY DEF EchoInv
<1>2. n \in Nat /\ n <= Len(Requests) /\ Pool
  BY RequestsTyped DEF EchoInv
<1>3. /\ UNCHANGED <<sent, rcv, inputbuffer_, size>>
      /\ wk[w].at # "idle" \/ w \in 1 .. size
  BY DEF Worker, TakeJob, CheckDisconnect, QueueInLoop, Idle, kernelVars,
         connVars
<1>4. InputRest(n)'
  BY <1>1, <1>3 DEF InputRest
<1>5. Pool'
  <2>1. w \in 1 .. size
    BY <1>2, <1>3 DEF Pool, Busy
  <2>2. \A v \in 1 .. MaxSize : v # w => wk'[v] = wk[v]
    BY DEF Worker, TakeJob, CheckDisconnect, QueueInLoop, TypeOK
  <2>3. Busy' \subseteq Busy \cup {w}
    BY <2>2 DEF Busy
  <2>4. size # 0
    BY <2>1
  <2> QED
    BY <1>2, <1>3, <2>1, <2>3, <2>4 DEF Pool
<1>6. CASE CheckDisconnect(w) /\ ~disconnect_
  <2>1. /\ wk' = [wk EXCEPT ![w].at = "queue"] /\ wk[w].at = "send"
        /\ UNCHANGED <<snd, got, outputbuffer_, disconnect_, size, jobs,
                       taskqueue_>>
    BY <1>6 DEF CheckDisconnect, kernelVars, connVars
  <2>2. /\ Busy' = Busy
        /\ \A v \in 1 .. MaxSize : wk'[v].message = wk[v].message
    BY <2>1 DEF TypeOK, Busy
  <2>3. Hands(n)'
    <3>1. PICK d \in 0 .. n : \E o \in Orders(d) :
              \E of \in [Busy -> (1 .. d) \ Over(o)] : Hand(n, d, o, of)
      BY <1>1, HandsAre
    <3>2. PICK o \in Orders(d) :
              \E of \in [Busy -> (1 .. d) \ Over(o)] : Hand(n, d, o, of)
      BY <3>1
    <3>3. PICK of \in [Busy -> (1 .. d) \ Over(o)] : Hand(n, d, o, of)
      BY <3>2
    <3>4. Begun(n, d)' /\ Output(o)' /\ Counted(d, o)'
      BY <2>1, <2>2, <3>3 DEF Hand, Begun, Output, Counted
    <3>5. Working(o, of)'
      <4>1. \A v \in Busy : wk'[v].message = wk[v].message
        BY <2>2 DEF Busy
      <4> QED
        BY <2>1, <2>2, <3>3, <4>1 DEF Hand, Working
    <3>6. Hand(n, d, o, of)' /\ of \in [Busy' -> (1 .. d) \ Over(o)]
      BY <2>2, <3>4, <3>5 DEF Hand
    <3> QED
      BY <3>6 DEF Hands
  <2> QED
    BY <1>4, <1>5, <2>3 DEF EchoInv
<1>7. CASE ~(CheckDisconnect(w) /\ ~disconnect_)
  <2>1. Hands(n)'
    BY <1>1, <1>2, <1>7, TakeHands, EndHands DEF Worker
  <2> QED
    BY <1>4, <1>5, <2>1 DEF EchoInv
<1> QED
  BY <1>6, <1>7

LEMMA InitEcho == Init => EchoInv
<1> SUFFICES ASSUME Init PROVE EchoInv
  OBVIOUS
<1>1. 0 \in 0 .. Len(Requests)
  BY RequestsTyped
<1>2. <<>> \in Seq(Byte) /\ <<>> \o <<>> = <<>>
  BY ConcatEmptySeq, EmptySeq
<1>3. Busy = {} /\ Pool
  BY DEF Init, Busy, Pool
<1>4. InputRest(0)
  <2>1. SubSeq(Stream, 1, 0) = <<>>
    BY SubSeqEmpty
  <2> QED
    BY <1>2, <2>1, FramesEmpty DEF Init, InputRest
<1>5. <<>> \in Orders(0) /\ Over(<<>>) = {} /\ Len(<<>>) = 0
  <2>1. <<>> \in Seq(1 .. 0) /\ Len(<<>>) = 0
    BY EmptySeq
  <2>2. <<>> \in Orders(0)
    <3>1. 0 \in Nat /\ Len(<<>>) <= 0
      BY <2>1
    <3>2. \A i, j \in 1 .. Len(<<>>) : i # j => <<>>[i] # <<>>[j]
      BY <2>1
    <3> QED
      BY <2>1, <3>1, <3>2, IsOrder
  <2> QED
    BY <2>1, <2>2 DEF Over
<1>6. Begun(0, 0)
  <2>1. SubSeq(Requests, 0 + 1, 0) = <<>>
    BY SubSeqEmpty
  <2> QED
    BY <1>5, <2>1 DEF Init, Begun
<1>7. Output(<<>>)
  BY <1>2, WireEmpty, RepliesEmpty DEF Init, Output
<1>8. Counted(0, <<>>)
  BY <1>3, <1>5, FS_EmptySet DEF Counted
<1>9. Working(<<>>, <<>>) /\ <<>> \in [Busy -> (1 .. 0) \ Over(<<>>)]
  BY <1>3 DEF Working, Ascending
<1>10. Hand(0, 0, <<>>, <<>>)
  BY <1>6, <1>7, <1>8, <1>9 DEF Hand
<1>11. Hands(0)
  <2>1. 0 \in 0 .. 0
    OBVIOUS
  <2> QED
    BY <1>5, <1>9, <1>10, <2>1 DEF Hands
<1> QED
  BY <1>1, <1>3, <1>4, <1>11 DEF EchoInv

LEMMA NextEcho == TypeOK /\ EchoInv /\ [Next]_vars => EchoInv'
<1> SUFFICES ASSUME TypeOK, EchoInv, [Next]_vars PROVE EchoInv'
  OBVIOUS
<1>1. CASE UNCHANGED vars \/ Timeout
  <2>1. UNCHANGED vars
    BY <1>1 DEF Timeout
  <2> QED
    BY <2>1, SameEcho DEF vars, kernelVars, connVars, workVars
<1>2. CASE IOThread
  BY <1>2, DispatchEcho, ReadEcho, PickEcho, DrainEcho, WriteEcho DEF IOThread
<1> QED
  BY <1>1, <1>2, ClientEcho, WorkerEcho DEF Next

LEMMA EchoedHolds == TypeOK /\ EchoInv => Echoed
<1> SUFFICES ASSUME TypeOK, EchoInv PROVE Echoed
  OBVIOUS
<1>1. PICK n \in 0 .. Len(Requests) : InputRest(n) /\ Hands(n)
  BY DEF EchoInv
<1>2. PICK d \in 0 .. n : \E o \in Orders(d) :
          \E of \in [Busy -> (1 .. d) \ Over(o)] : Hand(n, d, o, of)
  BY <1>1, HandsAre
<1>3. PICK o \in Orders(d) :
          \E of \in [Busy -> (1 .. d) \ Over(o)] : Hand(n, d, o, of)
  BY <1>2
<1>4. PICK of \in [Busy -> (1 .. d) \ Over(o)] : Hand(n, d, o, of)
  BY <1>3
<1>5. n \in Nat /\ d \in Nat /\ d <= n
  BY RequestsTyped
<1>6. o \in Orders(n)
  BY <1>5, OrderGrows
<1>7. size <= 1 => Ascending(o)
  BY <1>4 DEF Hand, Working
<1>8. ((got \o snd) \o outputbuffer_) \o Wire(taskqueue_)
          = Wire([i \in DOMAIN o |-> Prefix \o Requests[o[i]]])
  BY <1>4 DEF Hand, Output, Replies
<1>9. InTime(n, o)
  <2> DEFINE waiting == n - Len(jobs) + 1 .. n
             k == Len(jobs)
  <2>1. d + k = n /\ jobs = SubSeq(Requests, d + 1, n) /\ k \in Nat
    BY <1>4, LenProperties DEF Hand, Begun, TypeOK
  <2> HIDE DEF k
  <2>2. n - k = d /\ n - k + 1 = d + 1
    BY <1>5, <2>1
  <2>3. jobs = SubSeq(Requests, n - Len(jobs) + 1, n)
    BY <2>1, <2>2 DEF k
  <2>4. waiting = d + 1 .. n
    BY <2>2 DEF k
  <2>5. (1 .. d) \subseteq (1 .. n) \ waiting
    BY <1>5, <2>4
  <2> HIDE DEF waiting
  <2>6. of \in [Busy -> (1 .. n) \ (waiting \cup Over(o))]
    BY <2>5
  <2>7. /\ \A w \in Busy : wk[w].message = Requests[of[w]]
        /\ \A v, w \in Busy : v # w => of[v] # of[w]
    BY <1>4 DEF Hand, Working
  <2>8. disconnect_ \/ Cardinality(Over(o)) + Cardinality(Busy) + Len(jobs) = n
    <3>1. disconnect_ \/ Cardinality(Over(o)) + Cardinality(Busy) = d
      BY <1>4 DEF Hand, Counted
    <3>2. d + Len(jobs) = n
      BY <2>1 DEF k
    <3> QED
      BY <3>1, <3>2
  <2> QED
    BY <2>3, <2>6, <2>7, <2>8 DEF InTime, Busy, Over, waiting
<1> QED
  BY <1>1, <1>6, <1>7, <1>8, <1>9 DEF Echoed, AnsweredExactly, InputRest

---------------------------------------------------------------------------
(* Why an edge is never missed: unread input has put the fd on the ready   *)
(* list, or is reported, or being read; a reply not yet sent has its write *)
(* event announced or at hand, unless something else will come by that     *)
(* registers it again: input, or the reply to a request under way.         *)
ReadEdge ==
    ~disconnect_ =>
        /\ "in" \in events_
        /\ rcv # <<>> \/ fin => ready \/ "in" \in batch \/ pc = "read"
ReadReported ==
    /\ "in" \in batch => pc # "read" /\ (rcv # <<>> \/ fin)
    /\ pc = "read" => rcv # <<>> \/ fin \/ inputbuffer_ # <<>>
Announced == nospace => Full
Underway == jobs # <<>> \/ taskqueue_ # <<>> \/ Busy # {}
Incoming == "in" \in batch \/ pc = "read" \/ inputbuffer_ # <<>>
WriteEdge ==
    ~disconnect_ /\ outputbuffer_ # <<>> =>
        /\ "out" \in events_
        /\ \/ ready \/ nospace \/ "out" \in batch \/ pc = "write"
           \/ Incoming \/ Underway

(* onmessage leaves no complete message lying.                             *)
NonePicked ==
    \A stale \in Behind : pickmessge(1, inputbuffer_, stale).got = "none"
AllPicked == pc \notin {"read", "pick"} => NonePicked \/ disconnect_

EdgeInv == ReadEdge /\ ReadReported /\ Announced /\ WriteEdge /\ AllPicked

LEMMA ConcatMore ==
    ASSUME NEW s \in Seq(Byte), NEW t \in Seq(Byte), s # <<>> \/ t # <<>>
    PROVE  s \o t # <<>>
<1>1. /\ Len(s) \in Nat /\ Len(t) \in Nat /\ s \o t \in Seq(Byte)
      /\ Len(s \o t) = Len(s) + Len(t)
  BY ConcatProperties, LenProperties
<1>2. (s # <<>> => Len(s) # 0) /\ (t # <<>> => Len(t) # 0)
  BY EmptySeq
<1>3. Len(s \o t) # 0
  BY <1>1, <1>2
<1> QED
  BY <1>1, <1>3, EmptySeq

LEMMA AppendMore ==
    ASSUME NEW s \in Seq(Seq(Byte)), NEW m \in Seq(Byte)
    PROVE  Append(s, m) # <<>>
<1>1. Append(s, m) \in Seq(Seq(Byte)) /\ Len(Append(s, m)) = Len(s) + 1
  BY AppendProperties
<1>2. Len(s) \in Nat
  BY LenProperties
<1> QED
  BY <1>1, <1>2, EmptySeq

(* updatechannel with EPOLLOUT: free space is found at once, and that of a *)
(* full socket will be announced.                                          *)
LEMMA ModifyAnnounces ==
    ASSUME TypeOK, EdgeInv, Modify(enablewriting, snd)
    PROVE  /\ "out" \in events_' /\ ("in" \in events_ => "in" \in events_')
           /\ ready' \/ nospace'
           /\ ready => ready'
           /\ nospace' => Full
<1>1. /\ events_' = events_ \cup {"out"}
      /\ ready' = (ready \/ Poll(enablewriting, rcv, snd) # {})
      /\ nospace' = (nospace \/ Len(snd) = SndCap)
  BY DEF Modify, enablewriting
<1>2. Len(snd) < SndCap => "out" \in Poll(enablewriting, rcv, snd)
  BY DEF Poll, enablewriting
<1>3. Len(snd) < SndCap \/ Len(snd) = SndCap
  BY LenProperties, EdgeAssumption DEF TypeOK
<1> QED
  BY <1>1, <1>2, <1>3 DEF EdgeInv, Announced, Full

LEMMA ClientEdges ==
    ASSUME TypeOK, EdgeInv,
           \/ \E n \in 1 .. Len(Stream) : ClientSend(n)
           \/ ClientFin
           \/ \E n \in 1 .. SndCap : ClientRead(n)
    PROVE  EdgeInv'
<1> USE DEF EdgeInv, ReadEdge, ReadReported, Announced, WriteEdge, Incoming,
            Underway, AllPicked
<1>1. UNCHANGED <<connVars, pc, batch, workVars>>
  BY DEF ClientSend, ClientFin, ClientRead
<1>2. Busy' = Busy /\ NonePicked' = NonePicked
  BY <1>1 DEF Busy, NonePicked, Behind, connVars, workVars
<1>3. ASSUME NEW n \in 1 .. Len(Stream), ClientSend(n) PROVE EdgeInv'
  <2>1. /\ ready' = TRUE /\ rcv' = rcv \o SubSeq(Stream, sent + 1, sent + n)
        /\ sent + n <= Len(Stream) /\ UNCHANGED <<fin, snd, nospace>>
    BY <1>3 DEF ClientSend
  <2>2. SubSeq(Stream, sent + 1, sent + n) \in Seq(Byte)
    <3>1. /\ sent + 1 \in Nat /\ 1 <= sent + 1
          /\ sent + n \in Int /\ sent + n <= Len(Stream)
      BY <2>1, StreamTyped DEF TypeOK
    <3> QED
      BY <3>1, StreamTyped, PieceTyped
  <2>3. rcv # <<>> => rcv' # <<>>
    BY <2>1, <2>2, ConcatMore DEF TypeOK
  <2> QED
    BY <1>1, <1>2, <2>1, <2>3 DEF connVars, workVars, Full
<1>4. ASSUME ClientFin PROVE EdgeInv'
  BY <1>1, <1>2, <1>4 DEF ClientFin, connVars, workVars, Full
<1>5. ASSUME NEW n \in 1 .. SndCap, ClientRead(n) PROVE EdgeInv'
  <2>1. /\ ready' = (ready \/ (nospace /\ "out" \in events_))
        /\ nospace' = FALSE /\ UNCHANGED <<fin, rcv>>
    BY <1>5 DEF ClientRead
  <2> QED
    BY <1>1, <1>2, <2>1 DEF connVars, workVars
<1> QED
  BY <1>3, <1>4, <1>5

LEMMA DispatchEdges ==
    ASSUME TypeOK, EdgeInv, EpollWait \/ \E e \in batch : Dispatch(e)
    PROVE  EdgeInv'
<1> USE DEF EdgeInv, ReadEdge, ReadReported, Announced, WriteEdge, Incoming,
            Underway, AllPicked
<1>1. UNCHANGED <<sent, fin, rcv, snd, got, connVars, workVars>>
  BY DEF EpollWait, Dispatch, kernelVars
<1>2. Busy' = Busy /\ NonePicked' = NonePicked /\ Full' = Full
  BY <1>1 DEF Busy, NonePicked, Behind, connVars, workVars, Full
<1>3. CASE EpollWait
  <2> DEFINE revents == IF ready THEN Poll(events_, rcv, snd) ELSE {}
  <2>1. /\ pc = "wait" /\ pc' = "wait" /\ batch = {}
        /\ ready' = FALSE /\ nospace' = (nospace \/ (ready /\ Full))
        /\ batch' = (IF "in" \in revents THEN {"in"} ELSE revents)
                        \cup (IF taskqueue_ # <<>> THEN {"wake"} ELSE {})
    BY <1>3 DEF EpollWait
  <2>2. "in" \in revents <=> ready /\ "in" \in events_ /\ (rcv # <<>> \/ fin)
    BY DEF Poll
  <2>3. ready /\ "out" \in events_ /\ ~Full => "out" \in revents
    <3>1. ~Full => Len(snd) < SndCap
      BY LenProperties, EdgeAssumption DEF Full, TypeOK
    <3> QED
      BY <3>1 DEF Poll
  <2> HIDE DEF revents
  <2>4. "in" \in batch' <=> "in" \in revents
    BY <2>1
  <2>5. "out" \in revents => "in" \in batch' \/ "out" \in batch'
    BY <2>1
  <2>6. nospace' => Full
    BY <2>1
  <2> QED
    BY <1>1, <1>2, <2>1, <2>2, <2>3, <2>4, <2>5, <2>6 DEF connVars, workVars
<1>4. ASSUME NEW e \in batch, Dispatch(e) PROVE EdgeInv'
  <2>1. /\ pc = "wait" /\ batch' = batch \ {e}
        /\ pc' = CASE e = "in" -> "read" [] e = "out" -> "write"
                    [] e = "wake" -> "drain"
        /\ UNCHANGED <<ready, nospace>>
    BY <1>4 DEF Dispatch, kernelVars
  <2>2. e \in {"in", "out", "wake"}
    BY DEF TypeOK
  <2>3. \/ e = "in" /\ pc' = "read"
        \/ e = "out" /\ pc' = "write"
        \/ e = "wake" /\ pc' = "drain"
    BY <2>1, <2>2
  <2> QED
    BY <1>1, <1>2, <2>1, <2>3 DEF connVars, workVars
<1> QED
  BY <1>3, <1>4

LEMMA ReadEdges ==
    ASSUME TypeOK, EdgeInv, Read \/ ReadAgain \/ ReadEof
    PROVE  EdgeInv'
<1> USE DEF EdgeInv, ReadEdge, ReadReported, Announced, WriteEdge, Incoming,
            Underway, AllPicked
<1>1. UNCHANGED <<fin, snd, nospace, batch, outputbuffer_, workVars>>
  BY DEF Read, ReadAgain, ReadEof, kernelVars, connVars
<1>2. Busy' = Busy /\ Full' = Full
  BY <1>1 DEF Busy, workVars, Full
<1>3. CASE Read
  <2> DEFINE n == IF Len(rcv) < ReadSize THEN Len(rcv) ELSE ReadSize
             s == SubSeq(rcv, 1, n)
  <2>1. /\ pc = "read" /\ pc' = "read" /\ rcv # <<>>
        /\ inputbuffer_' = inputbuffer_ \o s
        /\ UNCHANGED <<ready, events_, disconnect_>>
    BY <1>3 DEF Read
  <2>2. n \in Nat /\ 1 <= n /\ n <= Len(rcv)
    <3>1. Len(rcv) \in Nat /\ Len(rcv) # 0
      BY <2>1, LenProperties, EmptySeq DEF TypeOK
    <3> QED
      BY <3>1, EdgeAssumption
  <2>3. s \in Seq(Byte) /\ Len(s) # 0
    BY <2>2, PieceTyped DEF TypeOK
  <2>4. s # <<>>
    BY <2>3, EmptySeq
  <2> HIDE DEF s, n
  <2>5. inputbuffer_' # <<>>
    BY <2>1, <2>3, <2>4, ConcatMore DEF TypeOK
  <2>6. ReadEdge' /\ ReadReported' /\ Announced'
    BY <1>1, <1>2, <2>1, <2>5
  <2>7. WriteEdge'
    BY <1>1, <1>2, <2>1, <2>5
  <2> QED
    BY <2>1, <2>6, <2>7
<1>4. CASE ReadAgain
  BY <1>1, <1>2, <1>4 DEF ReadAgain, kernelVars, connVars, workVars
<1>5. CASE ReadEof
  BY <1>1, <1>2, <1>5 DEF ReadEof, kernelVars, workVars
<1> QED
  BY <1>3, <1>4, <1>5

(* What was not a complete message for the garbage of this call is none    *)
(* for any other.                                                          *)
LEMMA NoneForAny ==
    ASSUME TypeOK, EchoInv, NEW stale \in Behind,
           pickmessge(1, inputbuffer_, stale).got = "none"
    PROVE  NonePicked
<1>1. PICK n \in 0 .. Len(Requests) : InputRest(n)
  BY DEF EchoInv
<1>2. pickmessge(1, inputbuffer_, stale) = None(inputbuffer_) /\ Incomplete(n)
  <2>1. \A ss, x : Message(ss, x).got # "none"
    BY DEF Message
  <2> QED
    BY <1>1, <2>1, PickNext
<1>3. ASSUME NEW other \in Behind, NEW x \in Seq(Byte), n < Len(Requests),
             inputbuffer_ = Frame(Requests[n + 1]) \o x
      PROVE  FALSE
  <2>1. Requests[n + 1] \in Seq(Byte) /\ Len(Requests[n + 1]) \in Nat
    <3>1. n + 1 \in 1 .. Len(Requests)
      BY <1>3, RequestsTyped
    <3> QED
      BY <3>1, RequestsTyped, LenProperties
  <2>2. Len(inputbuffer_) = 4 + Len(Requests[n + 1]) + Len(x)
    BY <1>3, <2>1, FrameFirst
  <2>3. Len(inputbuffer_) < 4 + Len(Requests[n + 1])
    BY <1>2, <1>3 DEF Incomplete
  <2>4. Len(x) \in Nat
    BY LenProperties
  <2> QED
    BY <2>1, <2>2, <2>3, <2>4
<1>4. ASSUME NEW other \in Behind
      PROVE  pickmessge(1, inputbuffer_, other).got = "none"
  <2>1. pickmessge(1, inputbuffer_, other) = None(inputbuffer_)
    BY <1>1, <1>3, PickNext
  <2> QED
    BY <2>1 DEF None
<1> QED
  BY <1>4 DEF NonePicked

LEMMA PickEdges ==
    ASSUME TypeOK, EchoInv, EdgeInv, NEW stale \in Behind,
           Pick(stale) \/ PickNone(stale)
    PROVE  EdgeInv'
<1> USE DEF EdgeInv, ReadEdge, ReadReported, Announced, WriteEdge, Incoming,
            Underway, AllPicked
<1>1. UNCHANGED <<fin, rcv, snd, batch, disconnect_, size, wk, taskqueue_>>
  BY DEF Pick, PickNone, kernelVars, connVars, workVars
<1>2. Busy' = Busy /\ Full' = Full
  BY <1>1 DEF Busy, Full
<1>3. CASE PickNone(stale)
  <2>1. NonePicked
    BY <1>3, NoneForAny DEF PickNone
  <2>2. /\ pc = "pick" /\ pc' = "wait"
        /\ UNCHANGED <<inputbuffer_, outputbuffer_, events_, ready, nospace,
                       jobs>>
    BY <1>3 DEF PickNone, kernelVars, connVars, workVars
  <2>3. NonePicked'
    BY <2>1, <2>2 DEF NonePicked, Behind
  <2> QED
    BY <1>1, <1>2, <2>2, <2>3
<1>4. CASE Pick(stale) /\ Modify(enablewriting, snd)
  <2>1. pc = "pick" /\ pc' = "pick"
    BY <1>4 DEF Pick
  <2> QED
    BY <1>1, <1>2, <1>4, <2>1, ModifyAnnounces
<1>5. CASE Pick(stale) /\ ~Modify(enablewriting, snd)
  <2> DEFINE p == pickmessge(1, inputbuffer_, stale)
  <2>1. /\ pc = "pick" /\ pc' = "pick" /\ p.got = "message"
        /\ jobs' = Append(jobs, p.ss)
        /\ UNCHANGED <<outputbuffer_, events_, ready, nospace>>
    BY <1>5 DEF Pick
  <2>2. p.ss \in Seq(Byte)
    BY <2>1, BehindTyped, PickTyped DEF TypeOK
  <2> HIDE DEF p
  <2>3. jobs' # <<>>
    BY <2>1, <2>2, AppendMore DEF TypeOK
  <2> QED
    BY <1>1, <1>2, <2>1, <2>3
<1> QED
  BY <1>3, <1>4, <1>5

LEMMA DrainEdges ==
    ASSUME TypeOK, EdgeInv, SendInLoop \/ DrainDone
    PROVE  EdgeInv'
<1> USE DEF EdgeInv, ReadEdge, ReadReported, Announced, WriteEdge, Incoming,
            Underway, AllPicked
<1>1. UNCHANGED <<fin, rcv, snd, batch, disconnect_, inputbuffer_, size, jobs,
                  wk>>
  BY DEF SendInLoop, DrainDone, kernelVars, connVars, workVars
<1>2. Busy' = Busy /\ Full' = Full /\ NonePicked' = NonePicked
  BY <1>1 DEF Busy, Full, NonePicked, Behind
<1>3. pc = "drain"
  BY DEF SendInLoop, DrainDone
<1>4. CASE DrainDone
  BY <1>1, <1>2, <1>3, <1>4 DEF DrainDone, kernelVars, connVars, workVars
<1>5. CASE SendInLoop /\ disconnect_
  BY <1>1, <1>2, <1>3, <1>5 DEF SendInLoop, kernelVars, connVars
<1>6. CASE SendInLoop /\ ~disconnect_
  <2>1. Modify(enablewriting, snd) /\ pc' = "drain"
    BY <1>3, <1>6 DEF SendInLoop
  <2> QED
    BY <1>1, <1>2, <1>3, <2>1, ModifyAnnounces
<1> QED
  BY <1>4, <1>5, <1>6

LEMMA WriteEdges ==
    ASSUME TypeOK, EdgeInv, Write \/ WriteAgain
    PROVE  EdgeInv'
<1> USE DEF EdgeInv, ReadEdge, ReadReported, Announced, WriteEdge, Incoming,
            Underway, AllPicked
<1>1. UNCHANGED <<fin, rcv, batch, disconnect_, inputbuffer_, size, jobs, wk,
                  taskqueue_>>
  BY DEF Write, WriteAgain, connVars, workVars
<1>2. Busy' = Busy /\ NonePicked' = NonePicked
  BY <1>1 DEF Busy, NonePicked, Behind
<1>3. CASE WriteAgain
  BY <1>1, <1>2, <1>3 DEF WriteAgain, connVars, workVars, Full
<1>4. CASE Write /\ outputbuffer_' = <<>>
  <2>1. /\ pc = "write" /\ pc' = "wait" /\ ~Full
        /\ events_' = events_ \ {"out"} /\ (ready => ready')
        /\ nospace' = (nospace \/ Len(snd') = SndCap)
    BY <1>4 DEF Write, Modify, disablewriting
  <2> QED
    BY <1>1, <1>2, <1>4, <2>1 DEF Full
<1>5. CASE Write /\ outputbuffer_' # <<>>
  <2>1. /\ pc = "write" /\ pc' = "write" /\ ~Full
        /\ UNCHANGED <<events_, ready, nospace>> /\ outputbuffer_ # <<>>
    BY <1>5 DEF Write
  <2> QED
    BY <1>1, <1>2, <2>1
<1> QED
  BY <1>3, <1>4, <1>5

LEMMA WorkerEdges ==
    ASSUME TypeOK, EdgeInv, NEW w \in 1 .. MaxSize, Worker(w)
    PROVE  EdgeInv'
<1> USE DEF EdgeInv, ReadEdge, ReadReported, Announced, WriteEdge, Incoming,
            Underway, AllPicked
<1>1. UNCHANGED <<kernelVars, ready, connVars, pc, batch, size>>
  BY DEF Worker, TakeJob, CheckDisconnect, QueueInLoop
<1>2. NonePicked' = NonePicked /\ Full' = Full
  BY <1>1 DEF NonePicked, Behind, Full, connVars, kernelVars
<1>3. ASSUME Underway' \/ disconnect_ PROVE EdgeInv'
  BY <1>1, <1>2, <1>3 DEF kernelVars, connVars
<1>4. CASE TakeJob(w)
  <2>1. wk'[w].at = "send"
    BY <1>4 DEF TakeJob, TypeOK
  <2>2. w \in Busy'
    BY <2>1 DEF Busy
  <2> QED
    BY <1>3, <2>2
<1>5. CASE CheckDisconnect(w) /\ ~disconnect_
  <2>1. wk'[w].at = "queue"
    BY <1>5 DEF CheckDisconnect, TypeOK
  <2>2. w \in Busy'
    BY <2>1 DEF Busy
  <2> QED
    BY <1>3, <2>2
<1>6. CASE QueueInLoop(w)
  <2>1. Reply(wk[w].message) \in Seq(Byte)
    BY ReplyTyped DEF TypeOK
  <2>2. taskqueue_' # <<>>
    BY <1>6, <2>1, AppendMore DEF QueueInLoop, TypeOK
  <2> QED
    BY <1>3, <2>2
<1> QED
  BY <1>3, <1>4, <1>5, <1>6 DEF Worker

LEMMA InitEdges == Init => EdgeInv
<1> SUFFICES ASSUME Init PROVE EdgeInv
  OBVIOUS
<1>1. NonePicked
  BY DEF Init, NonePicked, pickmessge, None
<1> QED
  BY <1>1 DEF Init, EdgeInv, ReadEdge, ReadReported, Announced, WriteEdge,
              AllPicked

LEMMA NextEdges == TypeOK /\ EchoInv /\ EdgeInv /\ [Next]_vars => EdgeInv'
<1> SUFFICES ASSUME TypeOK, EchoInv, EdgeInv, [Next]_vars PROVE EdgeInv'
  OBVIOUS
<1>1. CASE UNCHANGED vars
  <2>1. UNCHANGED <<kernelVars, ready, connVars, pc, batch, workVars>>
    BY <1>1 DEF vars
  <2>2. Busy' = Busy /\ NonePicked' = NonePicked /\ Full' = Full
    BY <2>1 DEF Busy, NonePicked, Behind, Full, connVars, kernelVars, workVars
  <2> QED
    BY <2>1, <2>2
    DEF EdgeInv, ReadEdge, ReadReported, Announced, WriteEdge, Incoming,
        Underway, AllPicked, kernelVars, connVars, workVars
<1>2. CASE Next
  BY <1>1, <1>2, ClientEdges, DispatchEdges, ReadEdges, PickEdges, DrainEdges,
     WriteEdges, WorkerEdges DEF Next, IOThread, Timeout
<1> QED
  BY <1>1, <1>2

(* The frames of the first k requests grow with k.                         *)
LEMMA FramesLonger ==
    ASSUME NEW k \in 0 .. Len(Requests), NEW m \in 0 .. k
    PROVE  /\ Len(Frames[m]) \in Nat /\ Len(Frames[k]) \in Nat
           /\ Len(Frames[m]) <= Len(Frames[k])
<1>1. /\ 1 \in 1 .. Len(Requests) + 1 /\ m \in 1 - 1 .. Len(Requests)
      /\ k \in m .. Len(Requests) /\ m \in 0 .. Len(Requests)
      /\ m + 1 \in 1 .. Len(Requests) + 1 /\ 1 \in Nat
  BY RequestsTyped
<1>2. SubSeq(Requests, 1, m) \o SubSeq(Requests, m + 1, k)
          = SubSeq(Requests, 1, k)
  BY <1>1, RequestsTyped, ConcatAdjacentSubSeq
<1>3. /\ SubSeq(Requests, 1, m) \in Seq(Seq(Byte))
      /\ SubSeq(Requests, m + 1, k) \in Seq(Seq(Byte))
  BY <1>1, SliceTyped
<1> DEFINE more == Wire(SubSeq(Requests, m + 1, k))
<1>4. Frames[k] = Frames[m] \o more
  BY <1>1, <1>2, <1>3, WireConcat, FramesTyped
<1>5. more \in Seq(Byte) /\ Frames[m] \in Seq(Byte)
  BY <1>1, <1>3, WireTyped, FramesTyped
<1> HIDE DEF more
<1>6. /\ Len(Frames[m]) \in Nat /\ Len(more) \in Nat
      /\ Len(Frames[m] \o more) = Len(Frames[m]) + Len(more)
  BY <1>5, LenProperties, ConcatProperties
<1> QED
  BY <1>4, <1>6

LEMMA BehindAny == Behind # {}
<1>1. PICK b : b \in Stale
  BY EdgeAssumption
<1>2. [i \in 1 .. 4 |-> b] \in [1 .. 4 -> Stale]
  BY <1>1
<1> QED
  BY <1>2 DEF Behind

(* With everything read and nothing complete left, the requests that were  *)
(* picked are those that were sent.                                        *)
LEMMA SentIsPicked ==
    ASSUME TypeOK, NEW n \in 0 .. Len(Requests), InputRest(n), rcv = <<>>,
           NonePicked, NEW m \in 0 .. Len(Requests)
    PROVE  sent >= Len(Frames[m]) <=> m <= n
<1>1. /\ Frames[n] \in Seq(Byte) /\ inputbuffer_ \in Seq(Byte)
      /\ n \in Nat /\ m \in Nat /\ Len(Requests) \in Nat
  BY FramesTyped, RequestsTyped DEF TypeOK
<1>2. Len(Frames[n]) + Len(inputbuffer_) = sent
  <2>1. (Frames[n] \o inputbuffer_) \o <<>> = SubSeq(Stream, 1, sent)
    BY DEF InputRest
  <2>2. /\ Frames[n] \o inputbuffer_ \in Seq(Byte)
        /\ Len(Frames[n] \o inputbuffer_) = Len(Frames[n]) + Len(inputbuffer_)
    BY <1>1, ConcatProperties
  <2>3. Frames[n] \o inputbuffer_ = SubSeq(Stream, 1, sent)
    BY <2>1, <2>2, ConcatEmptySeq
  <2>4. sent \in Nat /\ sent <= Len(Stream)
    BY StreamTyped DEF TypeOK
  <2>5. Len(SubSeq(Stream, 1, sent)) = sent
    <3>1. Len(SubSeq(Stream, 1, sent)) = IF 1 <= sent THEN sent - 1 + 1 ELSE 0
      BY <2>4, StreamTyped, PieceTyped
    <3> QED
      BY <2>4, <3>1
  <2> QED
    BY <2>2, <2>3, <2>5
<1>3. Len(Frames[n]) \in Nat /\ Len(inputbuffer_) \in Nat
  BY <1>1, LenProperties
<1>4. CASE m <= n
  <2>1. Len(Frames[m]) \in Nat /\ Len(Frames[m]) <= Len(Frames[n])
    BY <1>1, <1>4, FramesLonger
  <2> QED
    BY <1>2, <1>3, <1>4, <2>1
<1>5. CASE n < m
  <2> DEFINE q == Requests[n + 1]
  <2>1. /\ n < Len(Requests) /\ n + 1 \in 1 .. Len(Requests) /\ n + 1 <= m
        /\ n + 1 \in 0 .. m /\ n \in 0 .. Len(Requests) - 1
    BY <1>1, <1>5
  <2>2. q \in Seq(Byte) /\ Len(q) \in Nat
    BY <2>1, RequestsTyped, LenProperties
  <2>3. Frame(q) \in Seq(Byte) /\ Len(Frame(q)) = 4 + Len(q)
    BY <2>2, FrameTyped
  <2>4. Frames[n + 1] = Frames[n] \o Frame(q)
    BY <2>1, FramesNext
  <2>5. Len(inputbuffer_) < 4 + Len(q)
    <3>1. PICK stale : stale \in Behind
      BY EdgeAssumption, BehindAny
    <3>2. pickmessge(1, inputbuffer_, stale).got = "none"
      BY <3>1 DEF NonePicked
    <3>3. \A ss, x : Message(ss, x).got # "none"
      BY DEF Message
    <3>4. Incomplete(n)
      BY <3>1, <3>2, <3>3, PickNext
    <3> QED
      BY <2>1, <3>4 DEF Incomplete
  <2> HIDE DEF q
  <2>6. Len(Frames[n + 1]) = Len(Frames[n]) + (4 + Len(q))
    <3>1. Len(Frames[n] \o Frame(q)) = Len(Frames[n]) + Len(Frame(q))
      BY <1>1, <2>3, ConcatProperties
    <3> QED
      BY <2>3, <2>4, <3>1
  <2>7. Len(Frames[n + 1]) <= Len(Frames[m]) /\ Len(Frames[m]) \in Nat
    BY <2>1, FramesLonger
  <2>8. ~(sent >= Len(Frames[m]))
    <3> DEFINE a == Len(Frames[n])
               b == Len(inputbuffer_)
               c == Len(Frames[n + 1])
               e == Len(Frames[m])
    <3>1. /\ a \in Nat /\ b \in Nat /\ e \in Nat /\ Len(q) \in Nat
          /\ a + b = sent /\ b < 4 + Len(q) /\ c = a + (4 + Len(q)) /\ c <= e
      BY <1>2, <1>3, <2>2, <2>5, <2>6, <2>7
    <3> HIDE DEF a, b, c, e
    <3>2. ~(sent >= e)
      BY <3>1
    <3> QED
      BY <3>2 DEF e
  <2> QED
    BY <1>1, <1>5, <2>8
<1> QED
  BY <1>1, <1>4, <1>5

LEMMA RestsCaughtUp ==
    ASSUME TypeOK, EchoInv, EdgeInv PROVE NeverSleepsOwing
<1> SUFFICES ASSUME Resting, ~disconnect_ PROVE NeverSleepsOwing
  BY DEF NeverSleepsOwing
<1>1. /\ rcv = <<>> /\ NonePicked /\ Busy = {}
      /\ outputbuffer_ # <<>> => (Full /\ nospace) \/ inputbuffer_ # <<>>
  <2>1. Busy = {}
    BY DEF Resting, Busy
  <2> QED
    BY <2>1 DEF Resting, EdgeInv, ReadEdge, AllPicked, WriteEdge, Incoming,
                Underway, Announced
<1>2. PICK n \in 0 .. Len(Requests) : InputRest(n) /\ Hands(n)
  BY DEF EchoInv
<1>3. PICK d \in 0 .. n : \E o \in Orders(d) :
          \E of \in [Busy -> (1 .. d) \ Over(o)] : Hand(n, d, o, of)
  BY <1>2, HandsAre
<1>4. PICK o \in Orders(d) :
          \E of \in [Busy -> (1 .. d) \ Over(o)] : Hand(n, d, o, of)
  BY <1>3
<1>5. PICK of \in [Busy -> (1 .. d) \ Over(o)] : Hand(n, d, o, of)
  BY <1>4
<1>6. n \in Nat /\ d \in Nat
  BY RequestsTyped
<1>7. d = n
  <2>1. d + Len(jobs) = n
    BY <1>5 DEF Hand, Begun
  <2>2. Len(jobs) = 0
    BY EmptySeq DEF Resting
  <2> QED
    BY <1>6, <2>1, <2>2
<1>8. DOMAIN o = 1 .. n
  <2>1. DOMAIN o = 1 .. Len(o) /\ Len(o) \in Nat
    BY <1>6, OrderIs
  <2>2. Cardinality(Over(o)) = Len(o) /\ Cardinality(Over(o)) + Cardinality(Busy) = d
    BY <1>5 DEF Hand, Counted
  <2>3. Cardinality(Busy) = 0
    BY <1>1, FS_EmptySet
  <2>4. Len(o) + 0 = n
    BY <1>7, <2>2, <2>3
  <2>5. \A k \in Nat : k + 0 = k
    OBVIOUS
  <2>6. Len(o) = n
    BY <2>1, <2>4, <2>5
  <2> QED
    BY <2>1, <2>6
<1>9. size <= 1 => Ascending(o)
  BY <1>5 DEF Hand, Working
<1>10. (got \o snd) \o outputbuffer_
          = Wire([i \in DOMAIN o |-> Prefix \o Requests[o[i]]])
  <2>1. ((got \o snd) \o outputbuffer_) \o Wire(taskqueue_) = Wire(Replies(o))
    BY <1>5 DEF Hand, Output
  <2>2. Wire(taskqueue_) = <<>>
    BY WireEmpty DEF Resting
  <2>3. (got \o snd) \o outputbuffer_ \in Seq(Byte)
    BY ConcatProperties DEF TypeOK
  <2>4. (got \o snd) \o outputbuffer_ = Wire(Replies(o))
    BY <2>1, <2>2, <2>3, ConcatEmptySeq
  <2> QED
    BY <2>4 DEF Replies
<1>11. \A m \in 0 .. Len(Requests) : sent >= Len(Frames[m]) <=> m <= n
  BY <1>1, <1>2, SentIsPicked
<1> QED
  BY <1>1, <1>4, <1>7, <1>8, <1>9, <1>10, <1>11 DEF NeverSleepsOwing

---------------------------------------------------------------------------
(* Buffers of any size only ever hold bytes, the socket's never more than  *)
(* it takes.                                                               *)
THEOREM TypeCorrect == Spec => []TypeOK
<1>1. IInv => TypeOK
  BY DEF IInv
<1>2. QED
  BY <1>1, Inductive, PTL

(* writecallback is never called with an empty outputbuffer_ (and so never *)
(* looks at an errno that send() did not set).                             *)
THEOREM NeverSendsNothing == Spec => []NoEmptySend
<1>1. IInv => NoEmptySend
  BY DEF IInv, SendInv
<1>2. QED
  BY <1>1, Inductive, PTL

(* EchoInv is inductive, given the types.                                  *)
LEMMA EchoInductive == Spec => []EchoInv
<1>1. IInv => TypeOK
  BY DEF IInv
<1>2. QED
  BY <1>1, Inductive, InitEcho, NextEcho, PTL DEF Spec

(* However little of a header has come, and whatever lies behind it in     *)
(* memory: for a client that frames requests as client.cpp does pickmessge *)
(* never throws the out_of_range that nothing catches.                     *)
THEOREM NeverThrown == Spec => []NeverThrows
<1>1. IInv /\ EchoInv => NeverThrows
  BY PickThrowsNot DEF IInv, EchoInv
<1>2. QED
  BY <1>1, Inductive, EchoInductive, PTL

(* However reads and writes cut the stream up and whichever workers are    *)
(* the faster: no byte of a request or a reply is lost, doubled or out of  *)
(* place on an open connection.                                            *)
THEOREM EchoesExactly == Spec => []Echoed
<1>1. IInv => TypeOK
  BY DEF IInv
<1>2. QED
  BY <1>1, Inductive, EchoInductive, EchoedHolds, PTL

(* The IO thread never goes to sleep, nor the workers, while a request     *)
(* that has come in is unanswered or a reply could be sent: no edge of the *)
(* edge-triggered epoll is missed and no message left lying.               *)
THEOREM NeverOwing == Spec => []NeverSleepsOwing
<1>1. IInv => TypeOK
  BY DEF IInv
<1>2. Spec => []EdgeInv
  BY <1>1, Inductive, EchoInductive, InitEdges, NextEdges, PTL DEF Spec
<1>3. QED
  BY <1>1, <1>2, Inductive, EchoInductive, RestsCaughtUp, PTL
=============================================================================
