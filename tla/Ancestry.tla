------------------------------ MODULE Ancestry ------------------------------
(***************************************************************************)
(* Commit ancestry and merge bases (forge-merge/src/lib.rs).  parents maps *)
(* every commit to the sequence of its parents.  The limit of a million    *)
(* commits on an ancestry is left out.                                     *)
(***************************************************************************)
EXTENDS Naturals, Sequences

ParentsOf(parents, c) == {parents[c][i] : i \in 1..Len(parents[c])}

HasItsParents(parents, S) == \A c \in S : ParentsOf(parents, c) \subseteq S

\* What the worklist has visited when it is empty: the least set that contains
\* start and the parents of its members.
AncestorMap(parents, start) ==
  LET closed == {S \in SUBSET DOMAIN parents : start \in S /\ HasItsParents(parents, S)}
  IN  {c \in DOMAIN parents : \A S \in closed : c \in S}

\* The ancestors of a commit without the commit.
Above(parents, c) == UNION {AncestorMap(parents, p) : p \in ParentsOf(parents, c)}

\* Faulty variant: of several best common ancestors one is taken.
MergeBasesOne(parents, a, b) ==
  LET common == AncestorMap(parents, a) \cap AncestorMap(parents, b)
      best   == common \ UNION {Above(parents, c) : c \in common}
  IN  IF best = {} THEN {} ELSE {CHOOSE c \in best : TRUE}

\* The common ancestors that no other common ancestor reaches.
MergeBases(parents, a, b) ==
  LET common    == AncestorMap(parents, a) \cap AncestorMap(parents, b)
      dominated == common \cap UNION {Above(parents, c) : c \in common}
  IN  IF a = b THEN {a} ELSE common \ dominated
=============================================================================
