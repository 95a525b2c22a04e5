------------------------------- MODULE Merge -------------------------------
(***************************************************************************)
(* The three-way merge (forge-merge/src/lib.rs) as functions on trees.  A  *)
(* file entry of a tree stands for the whole identity (id, kind, exec)     *)
(* that same_entry compares; a path is a sequence of names; the base Absent *)
(* is base = None.  The order of the conflict paths is left out.           *)
(***************************************************************************)
EXTENDS Trees

-----------------------------------------------------------------------------
(* Differences of two trees *)

\* Where two trees part: a path with the entry on either side.  A directory on
\* both sides is descended, any other difference is one point.
RECURSIVE Frontier(_, _)
Frontier(left, right) ==
  LET at(n) == LET x == At(left, n)  y == At(right, n) IN
        IF x = y THEN {}
        ELSE IF IsTree(x) /\ IsTree(y)
        THEN {<<<<n>> \o d[1], d[2], d[3]>> : d \in Frontier(x, y)}
        ELSE {<< <<n>>, x, y >>}
  IN  UNION {at(n) : n \in DOMAIN left \cup DOMAIN right}

ChangedPaths(left, right) == {d[1] : d \in Frontier(left, right)}

\* The delete/add frontier of one side; a replacement is neither.
TreeChanges(base, side) ==
  LET f == Frontier(base, side) IN
  [deleted |-> {<<d[1], d[2]>> : d \in {e \in f : e[3] = Absent}},
   added   |-> {<<d[1], d[3]>> : d \in {e \in f : e[2] = Absent}}]

\* Every entry of a tree, directories included, by path.
RECURSIVE Entries(_)
Entries(tree) ==
  UNION {{<< <<n>>, tree[n] >>} \cup
         (IF IsTree(tree[n]) THEN {<<<<n>> \o e[1], e[2]>> : e \in Entries(tree[n])} ELSE {})
         : n \in DOMAIN tree}

CountBaseIdentities(base, entry) == Cardinality({e \in Entries(base) : e[2] = entry})

\* <<source, destination>>: one entry of the base, gone from its place, that
\* reappears in exactly one other.
InferExactRenames(base, changes) ==
  LET places(e) == {a[1] : a \in {b \in changes.added : b[2] = e}} IN
  {<<d[1], CHOOSE p \in places(d[2]) : TRUE>> :
     d \in {e \in changes.deleted : /\ CountBaseIdentities(base, e[2]) = 1
                                    /\ Cardinality(places(e[2])) = 1}}

\* The sources both sides removed and at least one renamed, unless both renamed
\* them to the same place.
ExactRenameConflicts(base, ours, theirs) ==
  LET oc == TreeChanges(base, ours)    tc == TreeChanges(base, theirs)
      or == InferExactRenames(base, oc) tr == InferExactRenames(base, tc)
      to(ren, p) == {r[2] : r \in {q \in ren : q[1] = p}}
      gone == {d[1] : d \in oc.deleted} \cap {d[1] : d \in tc.deleted}
  IN  {p \in gone : to(or, p) # to(tr, p)}

-----------------------------------------------------------------------------
(* The merge: the tree and the paths it left unresolved *)

\* Faulty variant: a side that deleted an entry wins over one that changed it.
OneSidedOrDeleted(x, y, z) == x = y \/ x = z \/ y = z \/ Absent \in {x, y}

\* At most one of the two entries differs from the base's.
OneSided(x, y, z) == x = y \/ x = z \/ y = z

\* Each name is decided by its three entries: the side that differs from the
\* base wins, two directories are merged from the base's directory if it has
\* one there, anything else is a conflict.  A conflict keeps ours when both
\* sides have an entry and drops the entry when one side deleted it.
RECURSIVE MergeTrees(_, _, _)
MergeTrees(base, ours, theirs) ==
  LET g      == IF base = Absent THEN EmptyTree ELSE base
      same(n) == OneSided(At(ours, n), At(theirs, n), At(g, n))
      deep(n) == ~same(n) /\ IsTree(At(ours, n)) /\ IsTree(At(theirs, n))
      sub(n)  == MergeTrees(IF IsTree(At(g, n)) THEN g[n] ELSE Absent, ours[n], theirs[n])
      names   == DOMAIN ours \cup DOMAIN theirs
      entry(n) == LET x == At(ours, n)  y == At(theirs, n)  z == At(g, n) IN
        IF x = y THEN x ELSE IF x = z THEN y ELSE IF y = z THEN x
        ELSE IF deep(n) THEN sub(n).tree
        ELSE IF x = Absent \/ y = Absent THEN Absent ELSE x
  IN  IF ours = theirs \/ theirs = base THEN [tree |-> ours, paths |-> {}]
      ELSE IF ours = base THEN [tree |-> theirs, paths |-> {}]
      ELSE [tree  |-> [n \in {m \in names : entry(m) # Absent} |-> entry(n)],
            paths |-> UNION {IF same(n) THEN {}
                             ELSE IF deep(n) THEN {<<n>> \o p : p \in sub(n).paths}
                             ELSE {<<n>>} : n \in names}]

\* Faulty variant: renames are not looked for.
AutoMergeTreeNoRenames(base, ours, theirs) == MergeTrees(base, ours, theirs)

AutoMergeTree(base, ours, theirs) ==
  LET m == MergeTrees(base, ours, theirs)
      r == IF base = Absent \/ ours = theirs \/ ours = base \/ theirs = base THEN {}
           ELSE ExactRenameConflicts(base, ours, theirs)
  IN  [tree |-> m.tree, paths |-> m.paths \cup r]

PathInConflictScope(p, paths) == \E c \in paths : IsUnder(p, c)

\* What `resolve --tree` accepts of a conflict with paths.
ScopedTree(base, ours, theirs, paths, tree) ==
  \A p \in ChangedPaths(AutoMergeTree(base, ours, theirs).tree, tree) :
    PathInConflictScope(p, paths)

-----------------------------------------------------------------------------
(* Reference definitions *)

FileAt(files, p) == IF p \in DOMAIN files THEN files[p] ELSE Absent

\* The files of a tree; a base of None has none.
Files(tree) == CollectBlobs(IF tree = Absent THEN EmptyTree ELSE tree)

\* Path by path: at most one side may differ from the base.
RefDecided(g, a, b, p) ==
  \/ FileAt(a, p) = FileAt(b, p) \/ FileAt(a, p) = FileAt(g, p) \/ FileAt(b, p) = FileAt(g, p)
RefMerged(g, a, b, p) ==
  IF FileAt(a, p) = FileAt(g, p) THEN FileAt(b, p) ELSE FileAt(a, p)
=============================================================================
