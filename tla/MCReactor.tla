--------------------------- MODULE MCReactor ---------------------------
EXTENDS Reactor, TLC

Symmetry == Permutations(Conns) \cup Permutations(Workers)

(* What the rest of a behaviour can depend on.  A connection that is gone  *)
(* never comes back, and Next reads its clock, its replies, its buffer and *)
(* its client only under Alive; a step that ends the process changes       *)
(* status alone, after which nothing happens.                              *)
Gone(c) == stage[c] = "served" /\ ~Alive(c)
Kept(S) == {c \in S : ~Gone(c)}
View ==
    IF status # "up" THEN <<status>>
    ELSE <<stage, fd, intree, disconnect_, Kept(idle), Kept(out),
           [c \in Kept(Conns) |-> <<msgs[c], peer[c]>>],
           mapVars, loopVars, workVars>>
=============================================================================
