------------------------------ MODULE MCEdgeIO ------------------------------
EXTENDS EdgeIO

(* Requests of no, one and two bytes; one byte stands for "reply ".        *)
MCRequests == <<<<>>, <<7>>, <<9, 8>>>>
MCPrefix   == <<82>>

(* Buffer's third framing, which Connection does not use: of two framed    *)
(* messages the first is picked and the second stays, and nothing is       *)
(* picked of a frame that is not complete.  A message must not contain the *)
(* separator nor run into it.                                              *)
Texts == UNION {[1 .. n -> {7, 10, 13}] : n \in 0 .. 3}
Separable == {m \in Texts : Separators(m \o Crlf2) = {Len(m) + 1}}
Junk == [i \in 1 .. 4 |-> 255]

ASSUME SeparatedFraming ==
    \A m1, m2 \in Separable :
        LET buf  == appendwithsep(2, appendwithsep(2, <<>>, m1), m2)
            rest == appendwithsep(2, <<>>, m2)
        IN  /\ pickmessge(2, buf, Junk) = Message(m1, rest)
            /\ \A n \in 0 .. Len(m1) + 3 :
                   pickmessge(2, SubSeq(buf, 1, n), Junk).got = "none"
=============================================================================
