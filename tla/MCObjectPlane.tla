--------------------------- MODULE MCObjectPlane ---------------------------
EXTENDS ObjectPlane
CONSTANTS b1, b2, c1, c2, m, main, fork, pin, w1, w2, p1, p2

\* c1 holds blob b1; c2 is a child of c1 that adds b2; m merges c1 and c2.
MCReach == [o \in Objects |-> Objects \cap
  CASE o = c1 -> {c1, b1}
    [] o = c2 -> {c2, c1, b1, b2}
    [] o = m  -> {m, c1, c2, b1, b2}
    [] OTHER  -> {o}]

OneProc == [w \in Writers |-> p1]

SameWriters == {[w \in Writers |-> w], [w \in Writers |-> IF w = w1 THEN w2 ELSE w1]}
=============================================================================
