---------------------------- MODULE StreamProofs ----------------------------
(***************************************************************************)
(* What a sequence of messages looks like on the wire: Wire of EdgeIO is a *)
(* recursive function over the messages.  The library's induction theorems *)
(* take a predicate as a parameter; here induction is over a set of        *)
(* naturals, from the fact that < is well founded on them.                 *)
(***************************************************************************)
EXTENDS EdgeIO, BufferProofs, FiniteSetTheorems, WellFoundedInduction

Lower == {ss \in Nat \X Nat : ss[1] < ss[2]}

LEMMA LowerWellFounded == IsWellFoundedOn(Lower, Nat)
  BY NatLessThanWellFounded DEF OpToRel, Lower

LEMMA Induction ==
    ASSUME NEW S, 0 \in S, \A n \in Nat : n \in S => n + 1 \in S
    PROVE  Nat \subseteq S
<1> SUFFICES ASSUME NEW k \in Nat, k \notin S PROVE FALSE
  OBVIOUS
<1> DEFINE T == {n \in Nat : n \notin S}
<1>1. T \subseteq Nat /\ T # {}
  OBVIOUS
<1> HIDE DEF T
<1>2. PICK x \in T : \A y \in T : <<y, x>> \notin Lower
  BY <1>1, LowerWellFounded, WFMin
<1>3. x \in Nat /\ x \notin S /\ x # 0
  BY <1>2 DEF T
<1>4. x - 1 \in Nat /\ x - 1 < x /\ (x - 1) + 1 = x
  BY <1>3
<1>5. x - 1 \in T
  BY <1>3, <1>4 DEF T
<1>6. <<x - 1, x>> \in Lower
  BY <1>3, <1>4 DEF Lower
<1> QED
  BY <1>2, <1>5, <1>6

---------------------------------------------------------------------------
(* One message on the wire.                                                *)
Frame(m) == HeaderOf(Len(m)) \o m

LEMMA HeaderTyped ==
    ASSUME NEW n \in Nat
    PROVE  HeaderOf(n) \in Seq(Byte) /\ Len(HeaderOf(n)) = 4
<1>1. /\ n % 256 \in 0 .. 255 /\ (n \div 256) % 256 \in 0 .. 255
      /\ (n \div 65536) % 256 \in 0 .. 255
      /\ (n \div 16777216) % 256 \in 0 .. 255
  BY SMT
<1>2. QED
  BY SMT, <1>1 DEF HeaderOf, Byte

LEMMA FrameTyped ==
    ASSUME NEW m \in Seq(Byte)
    PROVE  Frame(m) \in Seq(Byte) /\ Len(Frame(m)) = 4 + Len(m)
<1> DEFINE h == HeaderOf(Len(m))
<1>1. Len(m) \in Nat
  BY LenProperties
<1>2. h \in Seq(Byte) /\ Len(h) = 4
  BY <1>1, HeaderTyped
<1> HIDE DEF h
<1>3. h \o m \in Seq(Byte) /\ Len(h \o m) = Len(h) + Len(m)
  BY <1>2, ConcatProperties
<1> QED
  BY <1>2, <1>3 DEF Frame, h

LEMMA AppendsFrame ==
    ASSUME NEW buf, NEW m
    PROVE  appendwithsep(1, buf, m) = buf \o Frame(m)
  BY DEF appendwithsep, Frame

---------------------------------------------------------------------------
(* The stages of Wire(ms): w[i] is the first i messages.                   *)
Stages(w, ms, k) ==
    w = [i \in 0 .. k |->
            IF i = 0 THEN <<>> ELSE appendwithsep(1, w[i - 1], ms[i])]
IsWire(w, ms) == Stages(w, ms, Len(ms))

LEMMA WireStages ==
    ASSUME NEW ms \in Seq(Seq(Byte)), NEW w, IsWire(w, ms)
    PROVE  /\ w[0] = <<>>
           /\ \A i \in 0 .. Len(ms) - 1 : w[i + 1] = w[i] \o Frame(ms[i + 1])
           /\ \A i \in 0 .. Len(ms) : w[i] \in Seq(Byte)
<1>1. Len(ms) \in Nat
  BY LenProperties
<1>2. w[0] = <<>>
  BY <1>1 DEF IsWire, Stages
<1>3. ASSUME NEW i \in 0 .. Len(ms) - 1
      PROVE  w[i + 1] = w[i] \o Frame(ms[i + 1])
  <2>1. i + 1 \in 0 .. Len(ms) /\ i + 1 # 0 /\ (i + 1) - 1 = i
    BY <1>1
  <2>2. w[i + 1] = appendwithsep(1, w[(i + 1) - 1], ms[i + 1])
    BY <2>1, Zenon DEF IsWire, Stages
  <2> QED
    BY <2>1, <2>2, AppendsFrame
<1> DEFINE S == {i \in Nat : i <= Len(ms) => w[i] \in Seq(Byte)}
<1>4. 0 \in S
  BY <1>2, EmptySeq
<1>5. ASSUME NEW i \in Nat, i \in S PROVE i + 1 \in S
  <2>1. CASE i + 1 <= Len(ms)
    <3>1. i \in 0 .. Len(ms) - 1 /\ w[i] \in Seq(Byte) /\ i + 1 \in 1 .. Len(ms)
      BY <1>1, <1>5, <2>1
    <3>2. Frame(ms[i + 1]) \in Seq(Byte)
      BY <3>1, ElementOfSeq, FrameTyped
    <3>3. w[i] \o Frame(ms[i + 1]) \in Seq(Byte)
      BY <3>1, <3>2, ConcatProperties
    <3>4. w[i + 1] \in Seq(Byte)
      BY <1>3, <3>1, <3>3
    <3> QED
      BY <3>4
  <2> QED
    BY <2>1
<1> HIDE DEF S
<1>6. Nat \subseteq S
  BY <1>4, <1>5, Induction
<1>7. \A i \in 0 .. Len(ms) : w[i] \in Seq(Byte)
  BY <1>1, <1>6 DEF S
<1> QED
  BY <1>2, <1>3, <1>7

(* The recursion has a solution.                                           *)
LEMMA WireExists ==
    ASSUME NEW ms \in Seq(Seq(Byte))
    PROVE  \E w : IsWire(w, ms)
<1>1. Len(ms) \in Nat
  BY LenProperties
<1> DEFINE S == {k \in Nat : \E w : Stages(w, ms, k)}
<1>2. 0 \in S
  <2>1. Stages([i \in 0 .. 0 |-> <<>>], ms, 0)
    BY DEF Stages
  <2> QED
    BY <2>1
<1>3. ASSUME NEW k \in Nat, k \in S PROVE k + 1 \in S
  <2>1. PICK w : Stages(w, ms, k)
    BY <1>3
  <2> DEFINE v == [i \in 0 .. k + 1 |->
                      IF i = k + 1 THEN appendwithsep(1, w[k], ms[k + 1])
                                   ELSE w[i]]
  <2>2. ASSUME NEW i \in 0 .. k + 1
        PROVE  v[i] = IF i = 0 THEN <<>> ELSE appendwithsep(1, v[i - 1], ms[i])
    <3>1. CASE i = k + 1
      <4>1. i # 0 /\ i - 1 = k /\ k \in 0 .. k + 1 /\ k # k + 1
        BY <3>1
      <4>2. v[i - 1] = w[k]
        BY <4>1
      <4> QED
        BY <3>1, <4>1, <4>2
    <3>2. CASE i # k + 1
      <4>1. i \in 0 .. k /\ v[i] = w[i]
        BY <3>2
      <4>2. w[i] = IF i = 0 THEN <<>> ELSE appendwithsep(1, w[i - 1], ms[i])
        BY <2>1, <4>1, Zenon DEF Stages
      <4>3. i # 0 => i - 1 \in 0 .. k + 1 /\ i - 1 # k + 1
        BY <4>1
      <4>4. i # 0 => v[i - 1] = w[i - 1]
        BY <4>3
      <4> QED
        BY <4>1, <4>2, <4>4
    <3> QED
      BY <3>1, <3>2
  <2>3. v = [i \in 0 .. k + 1 |-> v[i]]
    OBVIOUS
  <2> HIDE DEF v
  <2>4. Stages(v, ms, k + 1)
    BY <2>2, <2>3 DEF Stages
  <2>5. k + 1 \in Nat /\ \E u : Stages(u, ms, k + 1)
    BY <2>4
  <2> QED
    BY <2>5
<1> HIDE DEF S
<1>4. Nat \subseteq S
  BY <1>2, <1>3, Induction
<1>5. Len(ms) \in S
  BY <1>1, <1>4
<1> QED
  BY <1>5 DEF S, IsWire

(* Of two sequences that begin alike so do the stages.                     *)
LEMMA WireAgrees ==
    ASSUME NEW ms \in Seq(Seq(Byte)), NEW ns \in Seq(Seq(Byte)),
           NEW v, IsWire(v, ms), NEW w, IsWire(w, ns),
           NEW k \in Nat, k <= Len(ms), k <= Len(ns),
           \A i \in 1 .. k : ms[i] = ns[i]
    PROVE  v[k] = w[k]
<1>1. Len(ms) \in Nat /\ Len(ns) \in Nat
  BY LenProperties
<1> DEFINE S == {i \in Nat : i <= k => v[i] = w[i]}
<1>2. 0 \in S
  BY WireStages
<1>3. ASSUME NEW i \in Nat, i \in S PROVE i + 1 \in S
  <2>1. CASE i + 1 <= k
    <3>1. /\ i \in 0 .. Len(ms) - 1 /\ i \in 0 .. Len(ns) - 1
          /\ v[i] = w[i] /\ i + 1 \in 1 .. k
      BY <1>1, <1>3, <2>1
    <3>2. v[i + 1] = v[i] \o Frame(ms[i + 1])
      BY <3>1, WireStages
    <3>3. w[i + 1] = w[i] \o Frame(ns[i + 1])
      BY <3>1, WireStages
    <3>4. ms[i + 1] = ns[i + 1]
      BY <3>1
    <3>5. v[i + 1] = w[i + 1]
      BY <3>1, <3>2, <3>3, <3>4
    <3> QED
      BY <3>5
  <2> QED
    BY <2>1
<1> HIDE DEF S
<1>4. Nat \subseteq S
  BY <1>2, <1>3, Induction
<1> QED
  BY <1>4 DEF S

LEMMA WireIs ==
    ASSUME NEW ms \in Seq(Seq(Byte))
    PROVE  \E w : IsWire(w, ms) /\ Wire(ms) = w[Len(ms)]
<1> DEFINE w == CHOOSE g : g = [i \in 0 .. Len(ms) |->
                IF i = 0 THEN <<>> ELSE appendwithsep(1, g[i - 1], ms[i])]
<1>1. IsWire(w, ms)
  BY WireExists, Zenon DEF IsWire, Stages
<1>2. Wire(ms) = w[Len(ms)]
  BY DEF Wire
<1> QED
  BY <1>1, <1>2

(* No message, and one message more.                                       *)
LEMMA WireTyped ==
    ASSUME NEW ms \in Seq(Seq(Byte))
    PROVE  Wire(ms) \in Seq(Byte)
<1>1. PICK w : IsWire(w, ms) /\ Wire(ms) = w[Len(ms)]
  BY WireIs
<1>2. Len(ms) \in 0 .. Len(ms)
  BY LenProperties
<1> QED
  BY <1>1, <1>2, WireStages

LEMMA WireEmpty == Wire(<<>>) = <<>>
<1>1. <<>> \in Seq(Seq(Byte)) /\ Len(<<>>) = 0
  BY EmptySeq
<1>2. PICK w : IsWire(w, <<>>) /\ Wire(<<>>) = w[0]
  BY <1>1, WireIs
<1> QED
  BY <1>1, <1>2, WireStages

LEMMA WireAppend ==
    ASSUME NEW ms \in Seq(Seq(Byte)), NEW m \in Seq(Byte)
    PROVE  Wire(Append(ms, m)) = Wire(ms) \o Frame(m)
<1> DEFINE ns == Append(ms, m)
<1>1. /\ ns \in Seq(Seq(Byte)) /\ Len(ns) = Len(ms) + 1 /\ Len(ms) \in Nat
      /\ ns[Len(ms) + 1] = m /\ \A i \in 1 .. Len(ms) : ns[i] = ms[i]
  BY AppendProperties, LenProperties
<1> HIDE DEF ns
<1>2. PICK v : IsWire(v, ms) /\ Wire(ms) = v[Len(ms)]
  BY WireIs
<1>3. PICK w : IsWire(w, ns) /\ Wire(ns) = w[Len(ns)]
  BY <1>1, WireIs
<1>4. Len(ms) <= Len(ns) /\ Len(ms) <= Len(ms) /\ Len(ms) \in 0 .. Len(ns) - 1
  BY <1>1
<1>5. v[Len(ms)] = w[Len(ms)]
  <2>1. \A i \in 1 .. Len(ms) : ms[i] = ns[i]
    BY <1>1
  <2> DEFINE k == Len(ms)
  <2>2. k \in Nat /\ k <= Len(ms) /\ k <= Len(ns)
    BY <1>1
  <2>3. \A i \in 1 .. k : ms[i] = ns[i]
    BY <2>1
  <2>4. IsWire(v, ms) /\ IsWire(w, ns)
    BY <1>2, <1>3
  <2> HIDE DEF k
  <2>5. v[k] = w[k]
    BY <1>1, <2>2, <2>3, <2>4, WireAgrees
  <2> QED
    BY <2>5 DEF k
<1>6. w[Len(ms) + 1] = w[Len(ms)] \o Frame(ns[Len(ms) + 1])
  BY <1>1, <1>3, <1>4, WireStages
<1> QED
  BY <1>1, <1>2, <1>3, <1>5, <1>6 DEF ns

LEMMA Associates ==
    \A s, t, u \in Seq(Byte) : (s \o t) \o u = s \o (t \o u)
  BY ConcatAssociative

(* Two sequences of messages, one after the other.                         *)
LEMMA WireConcat ==
    ASSUME NEW ms \in Seq(Seq(Byte)), NEW ns \in Seq(Seq(Byte))
    PROVE  Wire(ms \o ns) = Wire(ms) \o Wire(ns)
<1> DEFINE S == {n \in Nat : \A t \in Seq(Seq(Byte)) :
                    Len(t) = n => Wire(ms \o t) = Wire(ms) \o Wire(t)}
<1>1. 0 \in S
  <2> SUFFICES ASSUME NEW t \in Seq(Seq(Byte)), Len(t) = 0
               PROVE  Wire(ms \o t) = Wire(ms) \o Wire(t)
    OBVIOUS
  <2>1. t = <<>>
    BY EmptySeq
  <2>2. ms \o <<>> = ms /\ Wire(ms) \o <<>> = Wire(ms)
    BY ConcatEmptySeq, WireTyped
  <2> QED
    BY <2>1, <2>2, WireEmpty
<1>2. ASSUME NEW n \in Nat, n \in S PROVE n + 1 \in S
  <2> SUFFICES ASSUME NEW t \in Seq(Seq(Byte)), Len(t) = n + 1
               PROVE  Wire(ms \o t) = Wire(ms) \o Wire(t)
    OBVIOUS
  <2>1. t # <<>>
    BY EmptySeq
  <2>2. PICK s \in Seq(Seq(Byte)), m \in Seq(Byte) : t = Append(s, m)
    BY <2>1, SequenceEmptyOrAppend
  <2>3. Len(s) = n
    <3>1. Len(t) = Len(s) + 1 /\ Len(s) \in Nat
      BY <2>2, AppendProperties, LenProperties
    <3> QED
      BY <3>1
  <2>4. Wire(ms \o s) = Wire(ms) \o Wire(s)
    BY <1>2, <2>3
  <2>5. ms \o t = Append(ms \o s, m) /\ ms \o s \in Seq(Seq(Byte))
    <3>1. <<m>> \in Seq(Seq(Byte))
      OBVIOUS
    <3>2. t = s \o <<m>> /\ ms \o s \in Seq(Seq(Byte))
      BY <2>2, AppendIsConcat, ConcatProperties
    <3>3. (ms \o s) \o <<m>> = ms \o (s \o <<m>>)
      BY <2>2, <3>1, ConcatAssociative
    <3>4. Append(ms \o s, m) = (ms \o s) \o <<m>>
      BY <3>2, AppendIsConcat
    <3> QED
      BY <3>2, <3>3, <3>4
  <2>6. /\ Wire(ms \o t) = Wire(ms \o s) \o Frame(m)
        /\ Wire(t) = Wire(s) \o Frame(m)
    BY <2>2, <2>5, WireAppend
  <2>7. (Wire(ms) \o Wire(s)) \o Frame(m) = Wire(ms) \o (Wire(s) \o Frame(m))
    <3>1. /\ Wire(ms) \in Seq(Byte) /\ Wire(s) \in Seq(Byte)
          /\ Frame(m) \in Seq(Byte)
      BY <2>2, WireTyped, FrameTyped
    <3> QED
      BY <3>1, Associates
  <2> QED
    BY <2>4, <2>6, <2>7
<1> HIDE DEF S
<1>3. Nat \subseteq S
  BY <1>1, <1>2, Induction
<1>4. Len(ns) \in S
  BY <1>3, LenProperties
<1> QED
  BY <1>4 DEF S

LEMMA WireOne == ASSUME NEW m \in Seq(Byte) PROVE Wire(<<m>>) = Frame(m)
<1>1. <<>> \in Seq(Seq(Byte)) /\ <<m>> = Append(<<>>, m)
  BY EmptySeq
<1>2. Wire(<<m>>) = <<>> \o Frame(m)
  BY <1>1, WireAppend, WireEmpty
<1> QED
  BY <1>2, FrameTyped, ConcatEmptySeq

(* A message whose length, and four more, is an int.                       *)
Request == {m \in Seq(Byte) : Len(m) <= MaxLen}

(* What pickmessge finds first on the wire is the first message, and what  *)
(* it leaves is the other ones: however many there are.                    *)
THEOREM PicksFirst ==
    ASSUME NEW ms \in Seq(Request), ms # <<>>,
           NEW stale \in [1 .. 4 -> Byte]
    PROVE  pickmessge(1, Wire(ms), stale) = Message(Head(ms), Wire(Tail(ms)))
<1> DEFINE h == Head(ms)
           t == Tail(ms)
<1>1. h \in Request /\ t \in Seq(Request) /\ ms = <<h>> \o t
  OBVIOUS
<1> HIDE DEF h, t
<1>2. /\ h \in Seq(Byte) /\ Len(h) <= MaxLen
      /\ <<h>> \in Seq(Seq(Byte)) /\ t \in Seq(Seq(Byte))
  <2>1. Request \subseteq Seq(Byte)
    BY DEF Request
  <2>2. t \in Seq(Seq(Byte))
    BY <1>1, <2>1, SeqMonotonic
  <2>3. h \in Seq(Byte) /\ Len(h) <= MaxLen
    BY <1>1 DEF Request
  <2> QED
    BY <2>2, <2>3
<1>3. Wire(ms) = Frame(h) \o Wire(t)
  BY <1>1, <1>2, WireConcat, WireOne
<1>4. appendwithsep(1, <<>>, h) = Frame(h)
  <2> DEFINE f == Frame(h)
  <2>1. f \in Seq(Byte)
    BY <1>2, FrameTyped
  <2>2. appendwithsep(1, <<>>, h) = <<>> \o f
    BY AppendsFrame
  <2> HIDE DEF f
  <2> QED
    BY <2>1, <2>2, ConcatEmptySeq DEF f
<1>5. Wire(t) \in Seq(Byte)
  BY <1>2, WireTyped
<1>6. pickmessge(1, appendwithsep(1, <<>>, h) \o Wire(t), stale)
          = Message(h, Wire(t))
  BY <1>2, <1>5, PicksWhole
<1>7. pickmessge(1, Wire(ms), stale) = Message(h, Wire(t))
  <2>1. Wire(ms) = appendwithsep(1, <<>>, h) \o Wire(t)
    BY <1>3, <1>4
  <2> QED
    BY <1>6, <2>1
<1> QED
  BY <1>7 DEF h, t

LEMMA WireNotEmpty ==
    ASSUME NEW ms \in Seq(Request)
    PROVE  Wire(ms) = <<>> <=> ms = <<>>
<1>1. ASSUME ms # <<>> PROVE Wire(ms) # <<>>
  <2> DEFINE stale == [i \in 1 .. 4 |-> 0]
  <2>1. stale \in [1 .. 4 -> Byte]
    BY DEF Byte
  <2> HIDE DEF stale
  <2>2. pickmessge(1, Wire(ms), stale) = Message(Head(ms), Wire(Tail(ms)))
    BY <1>1, <2>1, PicksFirst
  <2>3. pickmessge(1, <<>>, stale) = None(<<>>)
    BY DEF pickmessge
  <2>4. None(<<>>) # Message(Head(ms), Wire(Tail(ms)))
    BY DEF None, Message
  <2> QED
    BY <2>2, <2>3, <2>4
<1> QED
  BY <1>1, WireEmpty

(* No two sequences of messages look alike on the wire.                    *)
THEOREM WireInjective ==
    ASSUME NEW ms \in Seq(Request), NEW ns \in Seq(Request),
           Wire(ms) = Wire(ns)
    PROVE  ms = ns
<1> DEFINE S == {n \in Nat : \A s, t \in Seq(Request) :
                    Len(s) = n /\ Wire(s) = Wire(t) => s = t}
<1>1. 0 \in S
  <2> SUFFICES ASSUME NEW s \in Seq(Request), NEW t \in Seq(Request),
                      Len(s) = 0, Wire(s) = Wire(t)
               PROVE  s = t
    OBVIOUS
  <2>1. s = <<>>
    BY EmptySeq
  <2> QED
    BY <2>1, WireNotEmpty
<1>2. ASSUME NEW n \in Nat, n \in S PROVE n + 1 \in S
  <2> SUFFICES ASSUME NEW s \in Seq(Request), NEW t \in Seq(Request),
                      Len(s) = n + 1, Wire(s) = Wire(t)
               PROVE  s = t
    OBVIOUS
  <2>1. s # <<>>
    BY EmptySeq
  <2>2. t # <<>>
    BY <2>1, WireNotEmpty
  <2> DEFINE stale == [i \in 1 .. 4 |-> 0]
  <2>3. stale \in [1 .. 4 -> Byte]
    BY DEF Byte
  <2> HIDE DEF stale
  <2>4. Message(Head(s), Wire(Tail(s))) = Message(Head(t), Wire(Tail(t)))
    BY <2>1, <2>2, <2>3, PicksFirst
  <2>5. Head(s) = Head(t) /\ Wire(Tail(s)) = Wire(Tail(t))
    BY <2>4 DEF Message
  <2>6. Tail(s) \in Seq(Request) /\ Tail(t) \in Seq(Request)
    BY <2>1, <2>2, HeadTailProperties
  <2>7. Len(Tail(s)) = n
    BY <2>1, HeadTailProperties
  <2>8. Tail(s) = Tail(t)
    BY <1>2, <2>5, <2>6, <2>7
  <2>9. s = <<Head(s)>> \o Tail(s) /\ t = <<Head(t)>> \o Tail(t)
    BY <2>1, <2>2
  <2> QED
    BY <2>5, <2>8, <2>9
<1> HIDE DEF S
<1>3. Len(ms) \in Nat /\ Nat \subseteq S
  BY <1>1, <1>2, Induction, LenProperties
<1>4. Len(ms) \in S
  BY <1>3
<1> QED
  BY <1>4 DEF S

---------------------------------------------------------------------------
(* What the client sends, cut between two requests.                        *)
Rest(n) == Wire(SubSeq(Requests, n + 1, Len(Requests)))

LEMMA RequestsTyped ==
    /\ Requests \in Seq(Seq(Byte)) /\ Len(Requests) \in Nat
    /\ \A n \in 1 .. Len(Requests) : Requests[n] \in Seq(Byte)
<1>1. Requests \in Seq(Seq(Byte))
  BY EdgeAssumption
<1> QED
  BY <1>1, LenProperties, ElementOfSeq

LEMMA SliceTyped ==
    ASSUME NEW a \in 1 .. Len(Requests) + 1, NEW b \in 0 .. Len(Requests)
    PROVE  SubSeq(Requests, a, b) \in Seq(Seq(Byte))
<1>1. /\ a \in Int /\ b \in Int
      /\ \A i \in a .. b : i \in 1 .. Len(Requests)
  BY RequestsTyped
<1>2. \A i \in a .. b : Requests[i] \in Seq(Byte)
  BY <1>1, RequestsTyped
<1> QED
  BY <1>1, <1>2, SubSeqProperties

LEMMA FramesTyped ==
    ASSUME NEW n \in 0 .. Len(Requests)
    PROVE  /\ Frames[n] = Wire(SubSeq(Requests, 1, n))
           /\ Frames[n] \in Seq(Byte) /\ Rest(n) \in Seq(Byte)
<1>1. /\ 1 \in 1 .. Len(Requests) + 1 /\ n + 1 \in 1 .. Len(Requests) + 1
      /\ Len(Requests) \in 0 .. Len(Requests)
  BY RequestsTyped
<1>2. /\ SubSeq(Requests, 1, n) \in Seq(Seq(Byte))
      /\ SubSeq(Requests, n + 1, Len(Requests)) \in Seq(Seq(Byte))
  BY <1>1, SliceTyped
<1>3. Frames[n] = Wire(SubSeq(Requests, 1, n))
  BY DEF Frames
<1> QED
  BY <1>2, <1>3, WireTyped DEF Rest

LEMMA StreamTyped == Stream \in Seq(Byte) /\ Len(Stream) \in Nat
<1>1. Len(Requests) \in 0 .. Len(Requests)
  BY RequestsTyped
<1>2. Stream \in Seq(Byte)
  BY <1>1, FramesTyped DEF Stream
<1> QED
  BY <1>2, LenProperties

LEMMA FramesEmpty == Frames[0] = <<>>
<1>1. 0 \in 0 .. Len(Requests)
  BY RequestsTyped
<1>2. SubSeq(Requests, 1, 0) = <<>>
  BY SubSeqEmpty
<1> QED
  BY <1>1, <1>2, FramesTyped, WireEmpty

LEMMA StreamSplit ==
    ASSUME NEW n \in 0 .. Len(Requests)
    PROVE  Stream = Frames[n] \o Rest(n)
<1>1. /\ 1 \in 1 .. Len(Requests) + 1 /\ n \in 1 - 1 .. Len(Requests)
      /\ Len(Requests) \in n .. Len(Requests)
      /\ Len(Requests) \in 0 .. Len(Requests)
      /\ n + 1 \in 1 .. Len(Requests) + 1
  BY RequestsTyped
<1>2. SubSeq(Requests, 1, n) \o SubSeq(Requests, n + 1, Len(Requests))
          = SubSeq(Requests, 1, Len(Requests))
  BY <1>1, RequestsTyped, ConcatAdjacentSubSeq
<1>3. /\ SubSeq(Requests, 1, n) \in Seq(Seq(Byte))
      /\ SubSeq(Requests, n + 1, Len(Requests)) \in Seq(Seq(Byte))
  BY <1>1, SliceTyped
<1>4. Wire(SubSeq(Requests, 1, n) \o SubSeq(Requests, n + 1, Len(Requests)))
          = Frames[n] \o Rest(n)
  BY <1>3, WireConcat, FramesTyped DEF Rest
<1>5. Stream = Wire(SubSeq(Requests, 1, Len(Requests)))
  BY <1>1, FramesTyped DEF Stream
<1> QED
  BY <1>2, <1>4, <1>5

LEMMA RestNext ==
    ASSUME NEW n \in 0 .. Len(Requests) - 1
    PROVE  Rest(n) = Frame(Requests[n + 1]) \o Rest(n + 1)
<1> DEFINE m == n + 1
<1>1. /\ m \in 1 .. Len(Requests) /\ Len(Requests) \in m .. Len(Requests)
      /\ m + 1 \in 1 .. Len(Requests) + 1
      /\ Len(Requests) \in 0 .. Len(Requests)
  BY RequestsTyped
<1> HIDE DEF m
<1>2. SubSeq(Requests, m, Len(Requests))
          = <<Requests[m]>> \o SubSeq(Requests, m + 1, Len(Requests))
  BY <1>1, RequestsTyped, SubSeqRecursiveFirst
<1>3. /\ Requests[m] \in Seq(Byte) /\ <<Requests[m]>> \in Seq(Seq(Byte))
      /\ SubSeq(Requests, m + 1, Len(Requests)) \in Seq(Seq(Byte))
  BY <1>1, RequestsTyped, SliceTyped
<1>4. Wire(SubSeq(Requests, m, Len(Requests)))
          = Frame(Requests[m]) \o Wire(SubSeq(Requests, m + 1, Len(Requests)))
  BY <1>2, <1>3, WireConcat, WireOne
<1> QED
  BY <1>4 DEF Rest, m

LEMMA RestEmpty == Rest(Len(Requests)) = <<>>
<1>1. SubSeq(Requests, Len(Requests) + 1, Len(Requests)) = <<>>
  <2>1. /\ Len(Requests) + 1 \in Int /\ Len(Requests) \in Int
        /\ Len(Requests) < Len(Requests) + 1
    BY RequestsTyped
  <2> QED
    BY <2>1, SubSeqEmpty
<1> QED
  BY <1>1, WireEmpty DEF Rest

LEMMA FramesNext ==
    ASSUME NEW n \in 0 .. Len(Requests) - 1
    PROVE  Frames[n + 1] = Frames[n] \o Frame(Requests[n + 1])
<1> DEFINE m == n + 1
<1>1. /\ m \in 1 .. Len(Requests) /\ m \in 1 .. m /\ m \in 0 .. Len(Requests)
      /\ 1 \in 1 .. Len(Requests) /\ 1 \in 1 .. Len(Requests) + 1
      /\ n \in 0 .. Len(Requests) /\ m - 1 = n
  BY RequestsTyped
<1> HIDE DEF m
<1>2. SubSeq(Requests, 1, m) = SubSeq(Requests, 1, m - 1) \o <<Requests[m]>>
  BY <1>1, RequestsTyped, SubSeqRecursiveSecond
<1>3. /\ Requests[m] \in Seq(Byte) /\ <<Requests[m]>> \in Seq(Seq(Byte))
      /\ SubSeq(Requests, 1, n) \in Seq(Seq(Byte))
  BY <1>1, RequestsTyped, SliceTyped
<1>4. Wire(SubSeq(Requests, 1, n) \o <<Requests[m]>>)
          = Wire(SubSeq(Requests, 1, n)) \o Frame(Requests[m])
  BY <1>3, WireConcat, WireOne
<1>5. /\ Frames[m] = Wire(SubSeq(Requests, 1, m))
      /\ Frames[n] = Wire(SubSeq(Requests, 1, n))
  BY <1>1, FramesTyped
<1>6. Frames[m] = Frames[n] \o Frame(Requests[m])
  BY <1>1, <1>2, <1>4, <1>5
<1> QED
  BY <1>6 DEF m

---------------------------------------------------------------------------
(* Bytes that are cut off and put together.                                *)
LEMMA PieceTyped ==
    ASSUME NEW s \in Seq(Byte), NEW a \in Nat, 1 <= a, NEW b \in Int, b <= Len(s)
    PROVE  /\ SubSeq(s, a, b) \in Seq(Byte)
           /\ Len(SubSeq(s, a, b)) = IF a <= b THEN b - a + 1 ELSE 0
<1>1. \A i \in a .. b : i \in 1 .. Len(s)
  BY SMT
<1>2. \A i \in a .. b : s[i] \in Byte
  BY <1>1, ElementOfSeq
<1>3. a \in Int
  BY SMT
<1>4. QED
  BY <1>2, <1>3, SubSeqProperties

LEMMA DropTyped ==
    ASSUME NEW s \in Seq(Byte), NEW n \in 0 .. Len(s)
    PROVE  Drop(s, n) \in Seq(Byte) /\ Len(Drop(s, n)) = Len(s) - n
<1>1. /\ n + 1 \in Nat /\ 1 <= n + 1 /\ Len(s) \in Int /\ Len(s) <= Len(s)
      /\ (IF n + 1 <= Len(s) THEN Len(s) - (n + 1) + 1 ELSE 0) = Len(s) - n
  BY SMT
<1>2. QED
  BY <1>1, PieceTyped DEF Drop

(* Bytes that move from the front of one buffer to the end of another.     *)
LEMMA Moved ==
    ASSUME NEW a \in Seq(Byte), NEW b \in Seq(Byte), NEW k \in 0 .. Len(b)
    PROVE  /\ SubSeq(b, 1, k) \in Seq(Byte) /\ Drop(b, k) \in Seq(Byte)
           /\ SubSeq(b, 1, k) \o Drop(b, k) = b
           /\ (a \o SubSeq(b, 1, k)) \o Drop(b, k) = a \o b
<1>1. /\ Len(b) \in Nat /\ k \in 1 - 1 .. Len(b) /\ 1 \in 1 .. Len(b) + 1
      /\ Len(b) \in k .. Len(b) /\ k \in Int /\ k <= Len(b)
      /\ 1 \in Nat /\ 1 <= 1
  BY LenProperties
<1>2. SubSeq(b, 1, k) \o SubSeq(b, k + 1, Len(b)) = SubSeq(b, 1, Len(b))
  BY <1>1, ConcatAdjacentSubSeq
<1>3. SubSeq(b, 1, k) \o Drop(b, k) = b
  BY <1>2, SubSeqFull DEF Drop
<1>4. SubSeq(b, 1, k) \in Seq(Byte) /\ Drop(b, k) \in Seq(Byte)
  BY <1>1, PieceTyped, DropTyped
<1>5. (a \o SubSeq(b, 1, k)) \o Drop(b, k) = a \o (SubSeq(b, 1, k) \o Drop(b, k))
  BY <1>4, Associates
<1> QED
  BY <1>3, <1>4, <1>5

Begins(v, t) == Len(t) <= Len(v) /\ \A i \in 1 .. Len(t) : t[i] = v[i]

(* What follows s in a piece of a stream that begins with s.               *)
LEMMA Continues ==
    ASSUME NEW s \in Seq(Byte), NEW t \in Seq(Byte), NEW u \in Seq(Byte),
           NEW v \in Seq(Byte), NEW k \in 0 .. Len(s \o v),
           (s \o t) \o u = SubSeq(s \o v, 1, k)
    PROVE  Begins(v, t)
<1>1. /\ Len(s) \in Nat /\ Len(t) \in Nat /\ Len(u) \in Nat /\ Len(v) \in Nat
  BY LenProperties
<1>2. /\ s \o t \in Seq(Byte) /\ Len(s \o t) = Len(s) + Len(t)
      /\ \A i \in 1 .. Len(s) + Len(t) :
            (s \o t)[i] = IF i <= Len(s) THEN s[i] ELSE t[i - Len(s)]
  BY ConcatProperties
<1>3. /\ s \o v \in Seq(Byte) /\ Len(s \o v) = Len(s) + Len(v)
      /\ \A i \in 1 .. Len(s) + Len(v) :
            (s \o v)[i] = IF i <= Len(s) THEN s[i] ELSE v[i - Len(s)]
  BY ConcatProperties
<1> DEFINE st == s \o t
           sv == s \o v
<1> HIDE DEF st, sv
<1>4. /\ Len(st \o u) = Len(st) + Len(u)
      /\ \A i \in 1 .. Len(st) + Len(u) :
            (st \o u)[i] = IF i <= Len(st) THEN st[i] ELSE u[i - Len(st)]
  <2>1. st \in Seq(Byte)
    BY <1>2 DEF st
  <2> QED
    BY <2>1, ConcatProperties
<1>5. /\ 1 \in Int /\ k \in Int /\ k - 1 + 1 = k /\ k <= Len(sv) /\ k \in Nat
      /\ \A i \in 1 .. k : 1 + i - 1 = i /\ i \in 1 .. Len(sv)
  BY <1>1, <1>3 DEF sv
<1>6. \A i \in 1 .. k : sv[i] \in Byte
  BY <1>3, <1>5, ElementOfSeq DEF sv
<1>7. /\ Len(SubSeq(sv, 1, k)) = IF 1 <= k THEN k - 1 + 1 ELSE 0
      /\ \A i \in 1 .. k - 1 + 1 : SubSeq(sv, 1, k)[i] = sv[1 + i - 1]
  BY <1>5, <1>6, SubSeqProperties
<1>8. /\ Len(SubSeq(sv, 1, k)) = k
      /\ \A i \in 1 .. k : SubSeq(sv, 1, k)[i] = sv[i]
  BY <1>5, <1>7
<1>9. st \o u = SubSeq(sv, 1, k)
  BY DEF st, sv
<1>10. Len(s) + Len(t) + Len(u) = k /\ Len(s) + Len(t) <= k
  BY <1>1, <1>2, <1>4, <1>8, <1>9 DEF st
<1>11. Len(t) <= Len(v)
  BY <1>1, <1>3, <1>5, <1>10 DEF sv
<1>12. ASSUME NEW i \in 1 .. Len(t) PROVE t[i] = v[i]
  <2> DEFINE j == Len(s) + i
  <2>1. /\ j \in 1 .. Len(s) + Len(t) /\ j \in 1 .. Len(s) + Len(v)
        /\ j \in 1 .. k /\ j \in 1 .. Len(st) + Len(u) /\ j <= Len(st)
        /\ ~(j <= Len(s)) /\ j - Len(s) = i
    BY <1>1, <1>2, <1>10, <1>11 DEF st
  <2> HIDE DEF j
  <2>2. st[j] = t[i]
    BY <1>2, <2>1 DEF st
  <2>3. sv[j] = v[i]
    BY <1>3, <2>1 DEF sv
  <2>4. (st \o u)[j] = st[j] /\ SubSeq(sv, 1, k)[j] = sv[j]
    BY <1>4, <1>8, <2>1
  <2> QED
    BY <1>9, <2>2, <2>3, <2>4
<1> QED
  BY <1>11, <1>12 DEF Begins

---------------------------------------------------------------------------
(* A frame, byte by byte, in front of something.                           *)
LEMMA FrameFirst ==
    ASSUME NEW m \in Seq(Byte), NEW v \in Seq(Byte)
    PROVE  /\ Frame(m) \o v \in Seq(Byte)
           /\ Len(Frame(m) \o v) = 4 + Len(m) + Len(v)
           /\ \A i \in 1 .. 4 + Len(m) : (Frame(m) \o v)[i] = Frame(m)[i]
           /\ \A i \in 1 .. 4 : (Frame(m) \o v)[i] = HeaderOf(Len(m))[i]
<1>1. Len(m) \in Nat /\ Len(v) \in Nat
  BY LenProperties
<1> DEFINE f == Frame(m)
           h == HeaderOf(Len(m))
<1>2. f \in Seq(Byte) /\ Len(f) = 4 + Len(m) /\ h \in Seq(Byte) /\ Len(h) = 4
  BY <1>1, FrameTyped, HeaderTyped
<1>3. f = h \o m
  BY DEF Frame
<1> HIDE DEF f, h
<1>4. /\ f \o v \in Seq(Byte) /\ Len(f \o v) = Len(f) + Len(v)
      /\ \A i \in 1 .. Len(f) + Len(v) :
            (f \o v)[i] = IF i <= Len(f) THEN f[i] ELSE v[i - Len(f)]
  BY <1>2, ConcatProperties
<1>5. \A i \in 1 .. Len(h) + Len(m) :
            (h \o m)[i] = IF i <= Len(h) THEN h[i] ELSE m[i - Len(h)]
  BY <1>2, ConcatProperties
<1>6. \A i \in 1 .. 4 + Len(m) : /\ i \in 1 .. Len(f) + Len(v)
                                 /\ i <= Len(f)
  BY <1>1, <1>2
<1>7. \A i \in 1 .. 4 : /\ i \in 1 .. 4 + Len(m)
                        /\ i \in 1 .. Len(h) + Len(m) /\ i <= Len(h)
  BY <1>1, <1>2
<1>8. \A i \in 1 .. 4 + Len(m) : (f \o v)[i] = f[i]
  BY <1>4, <1>6
<1>9. \A i \in 1 .. 4 : (f \o v)[i] = h[i]
  BY <1>3, <1>5, <1>7, <1>8
<1> QED
  BY <1>2, <1>4, <1>8, <1>9 DEF f, h

---------------------------------------------------------------------------
(* Requests and their replies.                                             *)
(* Without a NUL in it a reply goes out as it is.                          *)
LEMMA ReplyIs ==
    ASSUME NEW n \in 1 .. Len(Requests)
    PROVE  /\ Reply(Requests[n]) = Prefix \o Requests[n]
           /\ Prefix \o Requests[n] \in Seq(Byte)
<1> DEFINE m == Requests[n]
           s == Prefix \o m
<1>1. m \in Seq(Byte) /\ Prefix \in Seq(Byte) /\ n \in DOMAIN Requests
  BY RequestsTyped, EdgeAssumption
<1>2. /\ \A i \in 1 .. Len(Prefix) : Prefix[i] # 0
      /\ \A i \in 1 .. Len(m) : m[i] # 0
      /\ Len(Prefix) \in Nat /\ Len(m) \in Nat
  BY <1>1, TextAssumption, LenProperties
<1> HIDE DEF m
<1>3. /\ s \in Seq(Byte) /\ Len(s) = Len(Prefix) + Len(m) /\ Len(s) \in Nat
      /\ \A i \in 1 .. Len(Prefix) + Len(m) :
            s[i] = IF i <= Len(Prefix) THEN Prefix[i] ELSE m[i - Len(Prefix)]
  BY <1>1, ConcatProperties, LenProperties
<1> HIDE DEF s
<1>4. \A i \in 1 .. Len(s) : s[i] # 0
  <2> TAKE i \in 1 .. Len(s)
  <2>1. CASE i <= Len(Prefix)
    BY <1>2, <1>3, <2>1
  <2>2. CASE ~(i <= Len(Prefix))
    <3>1. i - Len(Prefix) \in 1 .. Len(m) /\ i \in 1 .. Len(Prefix) + Len(m)
      BY <1>2, <1>3, <2>2
    <3>2. s[i] = m[i - Len(Prefix)]
      BY <1>3, <2>2, <3>1
    <3> QED
      BY <1>2, <3>1, <3>2
  <2> QED
    BY <2>1, <2>2
<1>5. BeforeNul(s) = 1 .. Len(s)
  <2>1. \A i \in 1 .. Len(s) : \A j \in 1 .. i : j \in 1 .. Len(s)
    BY <1>3
  <2> QED
    BY <1>4, <2>1 DEF BeforeNul
<1>6. Cardinality(1 .. Len(s)) = Len(s)
  <2>1. 1 \in Int /\ Len(s) \in Int
    BY <1>3
  <2>2. Cardinality(1 .. Len(s)) = IF 1 > Len(s) THEN 0 ELSE Len(s) - 1 + 1
    BY <2>1, FS_Interval
  <2> QED
    BY <1>3, <2>2
<1>7. CString(s) = s
  BY <1>3, <1>5, <1>6, SubSeqFull DEF CString
<1> QED
  BY <1>3, <1>7 DEF Reply, m, s

LEMMA BehindTyped == Behind \subseteq [1 .. 4 -> Byte]
<1>1. 0 \in Byte
  BY SMT DEF Byte
<1>2. QED
  BY <1>1, EdgeAssumption DEF Behind

(* The requests of o have been answered, in that order.                    *)
Over(o)    == {o[i] : i \in DOMAIN o}
Replies(o) == [i \in DOMAIN o |-> Prefix \o Requests[o[i]]]

LEMMA OrderIs ==
    ASSUME NEW d \in Nat, NEW o \in Orders(d)
    PROVE  /\ o \in Seq(1 .. d) /\ Len(o) \in 0 .. d /\ DOMAIN o = 1 .. Len(o)
           /\ \A i, j \in 1 .. Len(o) : i # j => o[i] # o[j]
           /\ \A i \in 1 .. Len(o) : o[i] \in 1 .. d
           /\ Over(o) \subseteq 1 .. d /\ IsFiniteSet(Over(o))
<1>1. PICK k \in 0 .. d : o \in [1 .. k -> 1 .. d]
  BY DEF Orders
<1>2. k \in Nat /\ k <= d
  OBVIOUS
<1>3. o \in Seq(1 .. d) /\ Len(o) = k
  BY <1>1, <1>2
<1>4. DOMAIN o = 1 .. k
  BY <1>1
<1>5. \A i, j \in 1 .. k : i # j => o[i] # o[j]
  BY <1>4 DEF Orders
<1>6. Over(o) \subseteq 1 .. d
  BY <1>1, <1>4 DEF Over
<1>7. IsFiniteSet(1 .. d)
  BY FS_Interval
<1>8. IsFiniteSet(Over(o))
  BY <1>6, <1>7, FS_Subset
<1> QED
  BY <1>1, <1>2, <1>3, <1>4, <1>5, <1>6, <1>8

LEMMA IsOrder ==
    ASSUME NEW d \in Nat, NEW o \in Seq(1 .. d), Len(o) <= d,
           \A i, j \in 1 .. Len(o) : i # j => o[i] # o[j]
    PROVE  o \in Orders(d)
<1>1. Len(o) \in 0 .. d /\ o \in [1 .. Len(o) -> 1 .. d]
  BY LenProperties
<1> QED
  BY <1>1 DEF Orders

LEMMA OrderGrows ==
    ASSUME NEW d \in Nat, NEW o \in Orders(d), NEW e \in Nat, d <= e
    PROVE  o \in Orders(e)
<1>1. /\ o \in Seq(1 .. d) /\ Len(o) \in 0 .. d
      /\ \A i, j \in 1 .. Len(o) : i # j => o[i] # o[j]
  BY OrderIs
<1>2. 1 .. d \subseteq 1 .. e /\ Len(o) <= e
  BY <1>1
<1>3. o \in Seq(1 .. e)
  BY <1>1, <1>2, SeqMonotonic
<1> QED
  BY <1>1, <1>2, <1>3, IsOrder

(* One more is answered.                                                   *)
LEMMA OrderAppend ==
    ASSUME NEW d \in Nat, NEW o \in Orders(d), NEW x \in (1 .. d) \ Over(o),
           Cardinality(Over(o)) = Len(o)
    PROVE  /\ Append(o, x) \in Orders(d)
           /\ Over(Append(o, x)) = Over(o) \cup {x}
           /\ Cardinality(Over(Append(o, x))) = Len(o) + 1
           /\ Len(Append(o, x)) = Len(o) + 1
           /\ \A i \in 1 .. Len(o) : Append(o, x)[i] = o[i]
           /\ Append(o, x)[Len(o) + 1] = x
<1> DEFINE p == Append(o, x)
<1>1. /\ o \in Seq(1 .. d) /\ Len(o) \in 0 .. d /\ DOMAIN o = 1 .. Len(o)
      /\ \A i, j \in 1 .. Len(o) : i # j => o[i] # o[j]
      /\ Over(o) \subseteq 1 .. d /\ IsFiniteSet(Over(o))
  BY OrderIs
<1>2. /\ p \in Seq(1 .. d) /\ Len(p) = Len(o) + 1
      /\ \A i \in 1 .. Len(o) : p[i] = o[i]
      /\ p[Len(o) + 1] = x
  BY <1>1, AppendProperties
<1>3. DOMAIN p = 1 .. Len(o) + 1
  BY <1>2, LenProperties
<1> HIDE DEF p
<1>4. \A i \in 1 .. Len(o) + 1 : i \in 1 .. Len(o) \/ i = Len(o) + 1
  BY <1>1
<1>5. \A i \in 1 .. Len(o) : i \in 1 .. Len(o) + 1 /\ o[i] \in Over(o)
  <2>1. DOMAIN o = 1 .. Len(o) /\ Len(o) \in Nat
    BY <1>1
  <2>2. \A i \in DOMAIN o : o[i] \in Over(o)
    BY DEF Over
  <2> QED
    BY <2>1, <2>2
<1>6. Over(p) = Over(o) \cup {x}
  <2>1. Over(p) \subseteq Over(o) \cup {x}
    BY <1>2, <1>3, <1>4, <1>5 DEF Over
  <2>2. Over(o) \subseteq Over(p)
    BY <1>1, <1>2, <1>3, <1>5 DEF Over
  <2>3. x \in Over(p)
    <3>1. Len(o) + 1 \in 1 .. Len(o) + 1
      BY <1>1
    <3> QED
      BY <1>2, <1>3, <3>1 DEF Over
  <2> QED
    BY <2>1, <2>2, <2>3
<1>7. Cardinality(Over(p)) = Len(o) + 1
  BY <1>1, <1>6, FS_AddElement
<1>8. \A i, j \in 1 .. Len(p) : i # j => p[i] # p[j]
  <2> SUFFICES ASSUME NEW i \in 1 .. Len(p), NEW j \in 1 .. Len(p), i # j
               PROVE  p[i] # p[j]
    OBVIOUS
  <2>1. /\ i \in 1 .. Len(o) \/ i = Len(o) + 1
        /\ j \in 1 .. Len(o) \/ j = Len(o) + 1
    BY <1>2, <1>4
  <2>2. \A k \in 1 .. Len(o) : p[k] \in Over(o) /\ p[k] = o[k]
    BY <1>2, <1>5
  <2>3. p[Len(o) + 1] = x /\ x \notin Over(o)
    BY <1>2
  <2>4. CASE i \in 1 .. Len(o) /\ j \in 1 .. Len(o)
    BY <1>1, <2>2, <2>4
  <2>5. CASE i = Len(o) + 1 /\ j \in 1 .. Len(o)
    BY <2>2, <2>3, <2>5
  <2>6. CASE i \in 1 .. Len(o) /\ j = Len(o) + 1
    BY <2>2, <2>3, <2>6
  <2> QED
    BY <2>1, <2>4, <2>5, <2>6
<1>9. Len(p) <= d
  <2>1. /\ IsFiniteSet(1 .. d)
        /\ Cardinality(1 .. d) = IF 1 > d THEN 0 ELSE d - 1 + 1
    BY FS_Interval
  <2>2. Over(p) \in SUBSET (1 .. d)
    BY <1>1, <1>6
  <2>3. Cardinality(Over(p)) <= Cardinality(1 .. d)
    BY <2>1, <2>2, FS_Subset
  <2>4. Cardinality(1 .. d) = d
    BY <2>1
  <2> QED
    BY <1>2, <1>7, <2>3, <2>4
<1>10. p \in Orders(d)
  BY <1>2, <1>8, <1>9, IsOrder
<1> QED
  BY <1>2, <1>6, <1>7, <1>10 DEF p

LEMMA RepliesTyped ==
    ASSUME NEW o \in Seq(1 .. Len(Requests))
    PROVE  /\ Replies(o) \in Seq(Seq(Byte))
           /\ Len(Replies(o)) = Len(o)
           /\ \A i \in 1 .. Len(o) :
                 Replies(o)[i] = Prefix \o Requests[o[i]]
<1>1. Len(o) \in Nat /\ DOMAIN o = 1 .. Len(o)
  BY LenProperties
<1>2. \A i \in 1 .. Len(o) : Prefix \o Requests[o[i]] \in Seq(Byte)
  <2> TAKE i \in 1 .. Len(o)
  <2>1. o[i] \in 1 .. Len(Requests)
    BY ElementOfSeq
  <2> QED
    BY <2>1, ReplyIs
<1>3. Replies(o) \in [1 .. Len(o) -> Seq(Byte)]
  BY <1>1, <1>2 DEF Replies
<1>4. Replies(o) \in Seq(Seq(Byte)) /\ Len(Replies(o)) = Len(o)
  <2> DEFINE r == Replies(o)
             k == Len(o)
             B == Seq(Byte)
  <2>1. k \in Nat /\ r \in [1 .. k -> B]
    BY <1>1, <1>3
  <2> HIDE DEF r, k, B
  <2>2. r \in Seq(B) /\ Len(r) = k
    BY <2>1
  <2> QED
    BY <2>2 DEF r, k, B
<1>5. \A i \in 1 .. Len(o) : Replies(o)[i] = Prefix \o Requests[o[i]]
  BY <1>1 DEF Replies
<1> QED
  BY <1>4, <1>5

LEMMA RepliesAppend ==
    ASSUME NEW o \in Seq(1 .. Len(Requests)), NEW x \in 1 .. Len(Requests)
    PROVE  Wire(Replies(Append(o, x)))
               = Wire(Replies(o)) \o Frame(Prefix \o Requests[x])
<1> DEFINE p == Append(o, x)
           m == Prefix \o Requests[x]
           r == Replies(o)
           s == Replies(p)
<1>1. /\ p \in Seq(1 .. Len(Requests)) /\ Len(p) = Len(o) + 1
      /\ \A i \in 1 .. Len(o) : p[i] = o[i]
      /\ p[Len(o) + 1] = x /\ Len(o) \in Nat
  BY AppendProperties, LenProperties
<1> HIDE DEF p
<1>2. /\ r \in Seq(Seq(Byte)) /\ Len(r) = Len(o)
      /\ \A i \in 1 .. Len(o) : r[i] = Prefix \o Requests[o[i]]
  BY RepliesTyped
<1>3. /\ s \in Seq(Seq(Byte)) /\ Len(s) = Len(p)
      /\ \A i \in 1 .. Len(p) : s[i] = Prefix \o Requests[p[i]]
  BY <1>1, RepliesTyped
<1>4. m \in Seq(Byte)
  BY ReplyIs
<1> HIDE DEF r, s
<1>5. /\ Append(r, m) \in Seq(Seq(Byte)) /\ Len(Append(r, m)) = Len(r) + 1
      /\ \A i \in 1 .. Len(r) : Append(r, m)[i] = r[i]
      /\ Append(r, m)[Len(r) + 1] = m
  BY <1>2, <1>4, AppendProperties
<1>6. \A i \in 1 .. Len(s) : s[i] = Append(r, m)[i]
  <2> TAKE i \in 1 .. Len(s)
  <2>1. CASE i \in 1 .. Len(o)
    <3>1. i \in 1 .. Len(p) /\ i \in 1 .. Len(r)
      BY <1>1, <1>2, <2>1
    <3>2. s[i] = Prefix \o Requests[p[i]] /\ p[i] = o[i]
      BY <1>1, <1>3, <2>1, <3>1
    <3>3. Append(r, m)[i] = Prefix \o Requests[o[i]]
      BY <1>2, <1>5, <2>1, <3>1
    <3> QED
      BY <3>2, <3>3
  <2>2. CASE i = Len(o) + 1
    <3>1. i \in 1 .. Len(p) /\ i = Len(r) + 1
      BY <1>1, <1>2, <1>3, <2>2
    <3>2. s[i] = Prefix \o Requests[p[i]] /\ p[i] = x
      BY <1>1, <1>3, <2>2, <3>1
    <3>3. Append(r, m)[i] = m
      BY <1>5, <3>1
    <3> QED
      BY <3>2, <3>3
  <2>3. i \in 1 .. Len(o) \/ i = Len(o) + 1
    BY <1>1, <1>3
  <2> QED
    BY <2>1, <2>2, <2>3
<1>7. s = Append(r, m)
  <2>1. Len(s) = Len(Append(r, m))
    BY <1>1, <1>2, <1>3, <1>5
  <2> QED
    BY <1>3, <1>5, <1>6, <2>1, SeqEqual
<1>8. Wire(Append(r, m)) = Wire(r) \o Frame(m)
  BY <1>2, <1>4, WireAppend
<1> QED
  BY <1>7, <1>8 DEF p, r, s

LEMMA RepliesEmpty == Wire(Replies(<<>>)) = <<>>
<1>1. <<>> \in Seq(1 .. Len(Requests)) /\ Len(<<>>) = 0
  BY EmptySeq
<1>2. Replies(<<>>) \in Seq(Seq(Byte)) /\ Len(Replies(<<>>)) = 0
  BY <1>1, RepliesTyped
<1>3. Replies(<<>>) = <<>>
  BY <1>2, EmptySeq
<1> QED
  BY <1>3, WireEmpty
=============================================================================
