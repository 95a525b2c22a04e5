------------------------------- MODULE MCWork -------------------------------
(* The session plane of MCSessions, with the hypotheses of the theorems about *)
(* it evaluated on that instance.                                              *)
EXTENDS MCSessions, WorkProofs

\* The trees that folding rows can make of those a session starts from.
RECURSIVE FoldClosure(_, _)
FoldClosure(S, rows) ==
  LET next == S \cup {Fold(t, r) : t \in S, r \in rows} IN
  IF next = S THEN S ELSE FoldClosure(next, rows)

MCRowPaths == Rels \cup {<<"m", "x">>, <<"x", "x">>}
MCRowValues == Contents \cup {Tomb}
MCTrees == FoldClosure(Starts \cup Foreign, RowsOf(MCRowPaths, MCRowValues))

ASSUME SessionHypotheses == OneClient /\ StableMounts /\ TreeLaws(MCTrees, MCRowPaths, MCRowValues)
=============================================================================
