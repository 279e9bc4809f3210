------------------------------- MODULE Buffer -------------------------------
(***************************************************************************)
(* Buffer.cpp: how messages are framed in a byte stream and taken apart    *)
(* again.  sep_ 0 is no framing, 1 a header of four bytes with the length  *)
(* (what Connection uses), 2 a trailing CR LF CR LF.                       *)
(***************************************************************************)
EXTENDS Integers, Sequences

Byte    == 0 .. 255
MaxInt  == 2147483647
MaxLen  == MaxInt - 4   \* the greatest length len + 4 does not overflow for
Crlf2   == <<13, 10, 13, 10>>

(* The first four bytes of a size_t, little endian.                        *)
HeaderOf(n) == <<n % 256, (n \div 256) % 256, (n \div 65536) % 256,
                 (n \div 16777216) % 256>>

(* memcpy of four bytes into an int, two's complement.                     *)
LenOf(h) == h[1] + 256 * h[2] + 65536 * h[3]
              + 16777216 * (IF h[4] > 127 THEN h[4] - 256 ELSE h[4])

appendwithsep(sep_, buf_, data) ==
    CASE sep_ = 0 -> buf_ \o data
      [] sep_ = 1 -> buf_ \o (HeaderOf(Len(data)) \o data)
      [] sep_ = 2 -> buf_ \o (data \o Crlf2)
      [] OTHER    -> buf_

(* What pickmessge answers: no message, a message with what stays in buf_, *)
(* or the out_of_range that substr throws.                                 *)
None(buf_)          == [got |-> "none", ss |-> <<>>, rest |-> buf_]
Message(ss, buf_)   == [got |-> "message", ss |-> ss, rest |-> buf_]
Throws(buf_)        == [got |-> "throw", ss |-> <<>>, rest |-> buf_]

(* The header is copied before its four bytes are known to be there: a     *)
(* std::string ends in a NUL, and behind it comes whatever was in its      *)
(* storage before (stale; at least 16 bytes are allocated).                *)
Header(buf_, stale) == [i \in 1 .. 4 |->
    IF i <= Len(buf_) THEN buf_[i] ELSE IF i = Len(buf_) + 1 THEN 0 ELSE stale[i]]

(* Mutant: the size is not compared with the length.                       *)
PickLengthUnchecked(buf_, len) ==
    IF len < -4 THEN None(buf_)
    ELSE IF Len(buf_) < 4 THEN Throws(buf_)
    ELSE Message(SubSeq(buf_, 5, IF len < 0 THEN Len(buf_) ELSE 4 + len),
                 SubSeq(buf_, 5 + len, Len(buf_)))

(* len + 4 is a sum of ints, compared as a size_t: below 0 it is larger    *)
(* than any size.  So it is when it overflows, which is undefined in C++   *)
(* and wraps below 0 in the build.  As the count of substr a negative len  *)
(* means everything there is.                                              *)
PickLength(buf_, len) ==
    IF len \notin -4 .. MaxLen \/ Len(buf_) - 4 < len THEN None(buf_)
    ELSE IF Len(buf_) < 4 THEN Throws(buf_)
    ELSE Message(SubSeq(buf_, 5, IF len < 0 THEN Len(buf_) ELSE 4 + len),
                 SubSeq(buf_, 5 + len, Len(buf_)))

Separators(buf_) == {i \in 1 .. Len(buf_) - 3 : SubSeq(buf_, i, i + 3) = Crlf2}

PickSeparated(buf_) ==
    IF Separators(buf_) = {} THEN None(buf_)
    ELSE LET i == CHOOSE i \in Separators(buf_) :
                      \A j \in Separators(buf_) : i <= j
         IN  Message(SubSeq(buf_, 1, i - 1), SubSeq(buf_, i + 4, Len(buf_)))

(* With sep_ 0 nothing is erased; with an unknown sep_ ss is left alone.   *)
pickmessge(sep_, buf_, stale) ==
    CASE buf_ = <<>> -> None(buf_)
      [] buf_ # <<>> /\ sep_ = 0 -> Message(buf_, buf_)
      [] buf_ # <<>> /\ sep_ = 1 -> PickLength(buf_, LenOf(Header(buf_, stale)))
      [] buf_ # <<>> /\ sep_ = 2 -> PickSeparated(buf_)
      [] buf_ # <<>> /\ sep_ \notin {0, 1, 2} -> Message(<<>>, buf_)
=============================================================================
