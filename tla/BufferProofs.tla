---------------------------- MODULE BufferProofs ----------------------------
(***************************************************************************)
(* What the length framing of Buffer.cpp does for messages of every length *)
(* an int can hold: whole frames of up to MaxLen bytes are taken apart     *)
(* exactly, longer ones never, and nothing is made of an incomplete one,   *)
(* whatever bytes lie behind the buffer's end.                             *)
(***************************************************************************)
EXTENDS Buffer, SequenceTheorems, TLAPS

(* The header that appendwithsep writes is read back as the length.        *)
LEMMA HeaderRead ==
    ASSUME NEW n \in Nat, n <= MaxInt
    PROVE  /\ HeaderOf(n) \in Seq(Byte) /\ Len(HeaderOf(n)) = 4
           /\ LenOf(HeaderOf(n)) = n
<1>1. n <= 2147483647
  BY SMT DEF MaxInt
<1>2. /\ n % 256 \in 0 .. 255 /\ (n \div 256) % 256 \in 0 .. 255
      /\ (n \div 65536) % 256 \in 0 .. 255
      /\ n \div 16777216 \in 0 .. 127
      /\ (n \div 16777216) % 256 = n \div 16777216
  BY SMT, <1>1
<1>3. n = (n % 256) + 256 * ((n \div 256) % 256)
            + 65536 * ((n \div 65536) % 256) + 16777216 * (n \div 16777216)
  BY SMT, <1>1
<1>4. HeaderOf(n) = <<n % 256, (n \div 256) % 256, (n \div 65536) % 256,
                      n \div 16777216>>
  BY SMT, <1>2 DEF HeaderOf
<1>5. LenOf(HeaderOf(n)) = n
  BY SMT, <1>2, <1>3, <1>4 DEF LenOf
<1>6. HeaderOf(n) \in Seq(Byte) /\ Len(HeaderOf(n)) = 4
  BY SMT, <1>2, <1>4 DEF Byte
<1>7. QED
  BY SMT, <1>5, <1>6

(* A piece of a sequence, known by its elements.                           *)
LEMMA Piece ==
    ASSUME NEW s \in Seq(Byte), NEW t \in Seq(Byte), NEW k \in Nat,
           k + Len(t) <= Len(s),
           \A i \in 1 .. Len(t) : s[k + i] = t[i]
    PROVE  SubSeq(s, k + 1, k + Len(t)) = t
<1>1. Len(t) \in Nat /\ Len(s) \in Nat
  BY SMT
<1>2. \A i \in k + 1 .. k + Len(t) : s[i] \in Byte
  BY SMT, <1>1
<1> DEFINE a == k + 1
           b == k + Len(t)
           u == SubSeq(s, a, b)
<1>3. a \in Int /\ b \in Int /\ \A i \in a .. b : s[i] \in Byte
  BY SMT, <1>1, <1>2
<1>4. /\ a <= b => b - a + 1 = Len(t)
      /\ ~(a <= b) => Len(t) = 0
      /\ b - a + 1 = Len(t)
      /\ \A i \in 1 .. Len(t) : s[a + i - 1] = t[i]
  BY SMT, <1>1
<1> HIDE DEF a, b
<1>5. /\ u \in Seq(Byte)
      /\ Len(u) = IF a <= b THEN b - a + 1 ELSE 0
      /\ \A i \in 1 .. b - a + 1 : u[i] = s[a + i - 1]
  BY <1>3, SubSeqProperties
<1> HIDE DEF u
<1>6. Len(u) = Len(t) /\ \A i \in 1 .. Len(u) : u[i] = t[i]
  BY SMT, <1>1, <1>3, <1>4, <1>5
<1>7. u = t
  BY <1>5, <1>6, SeqEqual
<1>8. QED
  BY <1>7 DEF u, a, b

LEMMA LongestFits == MaxLen \in Int /\ MaxLen < MaxInt /\ MaxInt \in Int
  BY SMT DEF MaxLen, MaxInt

(* Of a stream that begins with a framed message of at most MaxLen bytes   *)
(* pickmessge returns that message and leaves the rest of the stream.      *)
THEOREM PicksWhole ==
    ASSUME NEW m \in Seq(Byte), Len(m) <= MaxLen,
           NEW more \in Seq(Byte), NEW stale \in [1 .. 4 -> Byte]
    PROVE  pickmessge(1, appendwithsep(1, <<>>, m) \o more, stale)
               = Message(m, more)
<1> DEFINE h   == HeaderOf(Len(m))
           hm  == h \o m
           buf == appendwithsep(1, <<>>, m) \o more
<1>1. Len(m) \in Nat /\ Len(more) \in Nat
  BY SMT
<1>2. h \in Seq(Byte) /\ Len(h) = 4 /\ LenOf(h) = Len(m)
  <2>1. Len(m) <= MaxInt
    BY SMT, <1>1, LongestFits
  <2> QED
    BY <1>1, <2>1, HeaderRead
<1>3. buf = hm \o more
  BY SMT, <1>2, ConcatProperties, ConcatEmptySeq DEF appendwithsep
<1> HIDE DEF h
<1>4. /\ hm \in Seq(Byte) /\ Len(hm) = Len(h) + Len(m)
      /\ \A i \in 1 .. Len(h) + Len(m) :
            hm[i] = IF i <= Len(h) THEN h[i] ELSE m[i - Len(h)]
  BY <1>2, ConcatProperties
<1> HIDE DEF hm, buf
<1>5. /\ hm \o more \in Seq(Byte) /\ Len(hm \o more) = Len(hm) + Len(more)
      /\ \A i \in 1 .. Len(hm) + Len(more) :
            (hm \o more)[i] = IF i <= Len(hm) THEN hm[i]
                              ELSE more[i - Len(hm)]
  BY <1>4, ConcatProperties
<1>6. /\ buf \in Seq(Byte) /\ Len(buf) = 4 + Len(m) + Len(more)
      /\ \A i \in 1 .. 4 : buf[i] = h[i]
      /\ \A i \in 1 .. Len(m) : buf[4 + i] = m[i]
      /\ \A i \in 1 .. Len(more) : buf[4 + Len(m) + i] = more[i]
  <2>1. /\ buf \in Seq(Byte) /\ Len(buf) = Len(hm) + Len(more)
        /\ \A i \in 1 .. Len(hm) + Len(more) :
              buf[i] = IF i <= Len(hm) THEN hm[i] ELSE more[i - Len(hm)]
    BY <1>3, <1>5
  <2>2. Len(hm) = 4 + Len(m) /\ Len(h) = 4
    BY <1>2, <1>4
  <2>3. \A i \in 1 .. 4 + Len(m) :
           buf[i] = IF i <= 4 THEN h[i] ELSE m[i - 4]
    BY SMT, <1>1, <1>4, <2>1, <2>2
  <2>4. \A i \in 1 .. 4 : buf[i] = h[i]
    BY SMT, <1>1, <2>3
  <2>5. \A i \in 1 .. Len(m) : buf[4 + i] = m[i]
    BY SMT, <1>1, <2>3
  <2>6. \A i \in 1 .. Len(more) : buf[4 + Len(m) + i] = more[i]
    <3> TAKE i \in 1 .. Len(more)
    <3>1. /\ 4 + Len(m) + i \in 1 .. Len(hm) + Len(more)
          /\ ~(4 + Len(m) + i <= Len(hm))
          /\ 4 + Len(m) + i - Len(hm) = i
      BY SMT, <1>1, <2>2
    <3>2. QED
      BY <2>1, <3>1
  <2>7. QED
    BY <2>1, <2>2, <2>4, <2>5, <2>6
<1>7. LenOf(Header(buf, stale)) = Len(m)
  BY SMT, <1>1, <1>2, <1>6 DEF Header, LenOf
<1>8. SubSeq(buf, 5, 4 + Len(m)) = m
  <2>1. SubSeq(buf, 4 + 1, 4 + Len(m)) = m
    BY SMT, <1>1, <1>6, Piece
  <2>2. QED
    BY SMT, <2>1
<1>9. SubSeq(buf, 4 + Len(m) + 1, 4 + Len(m) + Len(more)) = more
  <2>1. 4 + Len(m) \in Nat /\ 4 + Len(m) + Len(more) <= Len(buf)
    BY SMT, <1>1, <1>6
  <2>2. QED
    BY <1>6, <2>1, Piece
<1>10. buf # <<>>
  BY SMT, <1>1, <1>6
<1>11. pickmessge(1, buf, stale) = PickLength(buf, Len(m))
  BY SMT, <1>7, <1>10 DEF pickmessge
<1>12. /\ Len(m) \in -4 .. MaxLen /\ ~(Len(buf) - 4 < Len(m))
       /\ ~(Len(buf) < 4) /\ ~(Len(m) < 0)
       /\ 5 + Len(m) = 4 + Len(m) + 1 /\ Len(buf) = 4 + Len(m) + Len(more)
  BY SMT, <1>1, <1>6, LongestFits
<1>13. PickLength(buf, Len(m)) = Message(m, more)
  <2>1. PickLength(buf, Len(m)) = Message(SubSeq(buf, 5, 4 + Len(m)),
                                          SubSeq(buf, 5 + Len(m), Len(buf)))
    BY <1>12 DEF PickLength
  <2>2. QED
    BY <1>8, <1>9, <1>12, <2>1
<1>14. QED
  BY SMT, <1>11, <1>13 DEF buf

(* A header with a NUL behind its first byte is no length of -4 .. -1, the *)
(* values with which substr would throw.                                   *)
Weighted(b1, b2, b3, t) == b1 + 256 * b2 + 65536 * b3 + 16777216 * t

LEMMA HarmlessSum ==
    ASSUME NEW b1 \in 0 .. 255, NEW b2 \in 0 .. 255, NEW b3 \in 0 .. 255,
           NEW t \in -128 .. 127,
           b2 = 0 \/ b3 = 0 \/ t = 0
    PROVE  /\ Weighted(b1, b2, b3, t) \in Int
           /\ Weighted(b1, b2, b3, t) < -4 \/ 0 <= Weighted(b1, b2, b3, t)
  BY SMT DEF Weighted

LEMMA HarmlessLength ==
    ASSUME NEW h, \A i \in 1 .. 4 : h[i] \in 0 .. 255,
           h[2] = 0 \/ h[3] = 0 \/ h[4] = 0
    PROVE  LenOf(h) \in Int /\ (LenOf(h) < -4 \/ 0 <= LenOf(h))
<1> DEFINE top == IF h[4] > 127 THEN h[4] - 256 ELSE h[4]
<1>1. /\ h[1] \in 0 .. 255 /\ h[2] \in 0 .. 255
      /\ h[3] \in 0 .. 255 /\ h[4] \in 0 .. 255
  BY SMT
<1>2. /\ top \in -128 .. 127
      /\ h[4] = 0 => top = 0
  BY SMT, <1>1
<1>3. LenOf(h) = Weighted(h[1], h[2], h[3], top)
  BY SMT DEF LenOf, Weighted
<1> HIDE DEF top
<1>4. h[2] = 0 \/ h[3] = 0 \/ top = 0
  BY <1>2
<1> DEFINE n == Weighted(h[1], h[2], h[3], top)
<1>5. n \in Int /\ (n < -4 \/ 0 <= n)
  <2> HIDE DEF n
  <2>1. \A b1, b2, b3 \in 0 .. 255 : \A t \in -128 .. 127 :
           b2 = 0 \/ b3 = 0 \/ t = 0 =>
               /\ Weighted(b1, b2, b3, t) \in Int
               /\ Weighted(b1, b2, b3, t) < -4 \/ 0 <= Weighted(b1, b2, b3, t)
    BY HarmlessSum
  <2>2. QED
    BY <1>1, <1>2, <1>4, <2>1 DEF n
<1>6. QED
  BY <1>3, <1>5

(* What is taken for a header is four bytes, wherever they come from.      *)
LEMMA HeaderBytes ==
    ASSUME NEW buf \in Seq(Byte), NEW stale \in [1 .. 4 -> Byte]
    PROVE  \A i \in 1 .. 4 : Header(buf, stale)[i] \in 0 .. 255
<1>1. /\ \A i \in 1 .. Len(buf) : buf[i] \in 0 .. 255
      /\ \A i \in 1 .. 4 : stale[i] \in 0 .. 255
  BY ElementOfSeq DEF Byte
<1>2. 0 \in 0 .. 255 /\ Len(buf) \in Nat
  BY SMT
<1> TAKE i \in 1 .. 4
<1>3. CASE i <= Len(buf)
  <2>1. i \in 1 .. Len(buf) /\ Header(buf, stale)[i] = buf[i]
    BY SMT, <1>2, <1>3 DEF Header
  <2>2. QED
    BY <1>1, <2>1
<1>4. CASE ~(i <= Len(buf))
  <2>1. Header(buf, stale)[i] = 0 \/ Header(buf, stale)[i] = stale[i]
    BY SMT, <1>4 DEF Header
  <2>2. QED
    BY <1>1, <1>2, <2>1
<1>5. QED
  BY <1>3, <1>4

LEMMA LengthTyped ==
    ASSUME NEW h, \A i \in 1 .. 4 : h[i] \in 0 .. 255
    PROVE  LenOf(h) \in Int
<1> DEFINE top == IF h[4] > 127 THEN h[4] - 256 ELSE h[4]
<1>1. /\ h[1] \in Int /\ h[2] \in Int /\ h[3] \in Int /\ h[4] \in Int
  BY SMT
<1>2. top \in Int
  BY SMT, <1>1
<1>3. LenOf(h) = Weighted(h[1], h[2], h[3], top)
  BY SMT DEF LenOf, Weighted
<1> HIDE DEF top
<1>4. Weighted(h[1], h[2], h[3], top) \in Int
  <2>1. \A b1, b2, b3, t \in Int : Weighted(b1, b2, b3, t) \in Int
    BY SMT DEF Weighted
  <2>2. QED
    BY <1>1, <1>2, <2>1
<1>5. QED
  BY <1>3, <1>4

(* Of a frame that has not come in completely pickmessge returns nothing,  *)
(* and leaves it alone: also when part of the header is missing and stale  *)
(* bytes are taken for it.                                                 *)
THEOREM PicksNothing ==
    ASSUME NEW m \in Seq(Byte), Len(m) <= MaxInt,
           NEW buf \in Seq(Byte), Len(buf) < 4 + Len(m),
           \A i \in 1 .. Len(buf) : i <= 4 => buf[i] = HeaderOf(Len(m))[i],
           NEW stale \in [1 .. 4 -> Byte]
    PROVE  pickmessge(1, buf, stale) = None(buf)
<1> DEFINE h   == HeaderOf(Len(m))
           hd  == Header(buf, stale)
           len == LenOf(hd)
<1>1. Len(m) \in Nat /\ Len(buf) \in Nat
  BY SMT
<1>2. h \in Seq(Byte) /\ Len(h) = 4 /\ LenOf(h) = Len(m)
  BY SMT, <1>1, HeaderRead
<1>4. CASE buf = <<>>
  BY <1>4 DEF pickmessge
<1>5. ASSUME buf # <<>>, len < -4 \/ Len(buf) - 4 < len
      PROVE  pickmessge(1, buf, stale) = None(buf)
  <2>1. pickmessge(1, buf, stale) = PickLength(buf, len)
    BY SMT, <1>5 DEF pickmessge, hd, len
  <2>2. len \in Int
    BY HeaderBytes, LengthTyped
  <2>3. len < -4 => len \notin -4 .. MaxLen
    BY SMT, <2>2, LongestFits
  <2>4. QED
    BY <1>5, <2>1, <2>3 DEF PickLength
<1>6. ASSUME Len(buf) >= 4
      PROVE  Len(buf) - 4 < len
  <2>1. \A i \in 1 .. 4 : hd[i] = h[i]
    BY SMT, <1>1, <1>6 DEF Header, hd, h
  <2>2. LenOf(hd) = LenOf(h)
    BY SMT, <2>1 DEF LenOf
  <2>3. QED
    BY SMT, <1>1, <1>2, <2>2 DEF len
<1>7. ASSUME buf # <<>>, Len(buf) < 4
      PROVE  len < -4 \/ Len(buf) - 4 < len
  <2>1. Len(buf) # 0
    BY <1>7, EmptySeq
  <2>2. \A n \in Nat : n # 0 /\ n < 4 => n = 1 \/ n = 2 \/ n = 3
    BY SMT
  <2>3. Len(buf) = 1 \/ Len(buf) = 2 \/ Len(buf) = 3
    BY <1>1, <1>7, <2>1, <2>2
  <2>4. \A i \in 1 .. 4 : hd[i] \in 0 .. 255
    BY HeaderBytes DEF hd
  <2>6. hd[2] = 0 \/ hd[3] = 0 \/ hd[4] = 0
    <3>1. ASSUME Len(buf) = 1 PROVE hd[2] = 0
      BY SMT, <3>1 DEF Header, hd
    <3>2. ASSUME Len(buf) = 2 PROVE hd[3] = 0
      BY SMT, <3>2 DEF Header, hd
    <3>3. ASSUME Len(buf) = 3 PROVE hd[4] = 0
      BY SMT, <3>3 DEF Header, hd
    <3>4. QED
      BY <2>3, <3>1, <3>2, <3>3
  <2>7. LenOf(hd) \in Int /\ (LenOf(hd) < -4 \/ 0 <= LenOf(hd))
    BY <2>4, <2>6, HarmlessLength
  <2>8. QED
    BY SMT, <1>1, <1>7, <2>7 DEF len
<1>8. QED
  BY SMT, <1>1, <1>4, <1>5, <1>6, <1>7

(* A message whose length is one of the last four values of an int is      *)
(* never picked, complete or not: len + 4 overflows, and the buffer, with  *)
(* whatever comes behind, is left alone for ever.                          *)
THEOREM PicksNoneTooLong ==
    ASSUME NEW m \in Seq(Byte), MaxLen < Len(m), Len(m) <= MaxInt,
           NEW buf \in Seq(Byte),
           \A i \in 1 .. Len(buf) : i <= 4 => buf[i] = HeaderOf(Len(m))[i],
           NEW stale \in [1 .. 4 -> Byte]
    PROVE  pickmessge(1, buf, stale) = None(buf)
<1> DEFINE h  == HeaderOf(Len(m))
           hd == Header(buf, stale)
<1>1. Len(m) \in Nat /\ Len(buf) \in Nat
  BY SMT
<1>2. CASE Len(buf) < 4 + Len(m)
  BY <1>2, PicksNothing
<1>3. CASE ~(Len(buf) < 4 + Len(m))
  <2>1. Len(buf) >= 4 /\ buf # <<>>
    BY SMT, <1>1, <1>3
  <2>2. h \in Seq(Byte) /\ Len(h) = 4 /\ LenOf(h) = Len(m)
    BY SMT, <1>1, HeaderRead
  <2>3. \A i \in 1 .. 4 : hd[i] = h[i]
    BY SMT, <1>1, <2>1 DEF Header, hd, h
  <2>4. LenOf(hd) = Len(m)
    BY SMT, <2>2, <2>3 DEF LenOf
  <2>5. Len(m) \notin -4 .. MaxLen
    BY SMT, <1>1, LongestFits
  <2>6. pickmessge(1, buf, stale) = PickLength(buf, Len(m))
    BY <2>1, <2>4 DEF pickmessge
  <2> QED
    BY <2>5, <2>6 DEF PickLength
<1> QED
  BY <1>2, <1>3
=============================================================================
