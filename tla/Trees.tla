------------------------------- MODULE Trees -------------------------------
(***************************************************************************)
(* Trees, overlays and the three algorithms over them: the copy-on-write   *)
(* fold of an overlay (forge-core/src/tree.rs), path resolution through an *)
(* overlay (forge-ns/src/lib.rs) and the lookups a session records its     *)
(* observations with (forge-api/src/workspace.rs).                         *)
(*                                                                         *)
(* An object id is the object it names, so a tree is a function from names *)
(* to entries and an entry is a blob (a member of Contents) or a tree.     *)
(* Sorting, the entry limit and the exec bit are left out.  A path is a    *)
(* sequence of names, an overlay a function from the paths it stages to a  *)
(* blob or to Tomb.                                                        *)
(***************************************************************************)
EXTENDS Naturals, Sequences, FiniteSets

CONSTANTS
  Contents,   \* blob ids
  Tomb,       \* an overlay row whose blob_oid is NULL
  Absent      \* Observed::Absent, and the error of a failed resolution

EmptyTree  == <<>>
IsTree(e)  == e \notin Contents \cup {Absent}
At(tree, n) == IF n \in DOMAIN tree THEN tree[n] ELSE Absent

\* p is a or lies beneath it, by whole components.
IsUnder(p, a) == Len(a) <= Len(p) /\ SubSeq(p, 1, Len(a)) = a

-----------------------------------------------------------------------------
(* apply_overlay *)

\* Faulty variant: a directory that loses its last entry is kept, empty.
RECURSIVE ApplyOverlayKeepsEmpty(_, _)
ApplyOverlayKeepsEmpty(base, ov) ==
  LET files  == {p[1] : p \in {q \in DOMAIN ov : Len(q) = 1}}
      groups == {p[1] : p \in {q \in DOMAIN ov : Len(q) > 1}}
      sub(n) == [q \in {Tail(p) : p \in {r \in DOMAIN ov : Len(r) > 1 /\ r[1] = n}}
                   |-> ov[<<n>> \o q]]
      child(n) == ApplyOverlayKeepsEmpty(
                    IF n \notin files /\ n \in DOMAIN base /\ IsTree(base[n])
                    THEN base[n] ELSE EmptyTree, sub(n))
      gone     == {n \in files \ groups : ov[<<n>>] = Tomb}
  IN  [n \in (DOMAIN base \cup files \cup groups) \ gone |->
         IF n \in groups THEN child(n) ELSE IF n \in files THEN ov[<<n>>] ELSE base[n]]

\* The direct edits of a directory are its files, the deeper ones are grouped
\* by first component.  A group descends into the base entry of its name only
\* if that is a tree and no direct edit names it; a child that folds to the
\* empty tree is removed.
RECURSIVE ApplyOverlay(_, _)
ApplyOverlay(base, ov) ==
  LET files  == {p[1] : p \in {q \in DOMAIN ov : Len(q) = 1}}
      groups == {p[1] : p \in {q \in DOMAIN ov : Len(q) > 1}}
      sub(n) == [q \in {Tail(p) : p \in {r \in DOMAIN ov : Len(r) > 1 /\ r[1] = n}}
                   |-> ov[<<n>> \o q]]
      child(n) == ApplyOverlay(IF n \notin files /\ n \in DOMAIN base /\ IsTree(base[n])
                               THEN base[n] ELSE EmptyTree, sub(n))
      gone     == {n \in groups : child(n) = EmptyTree}
                    \cup {n \in files \ groups : ov[<<n>>] = Tomb}
  IN  [n \in (DOMAIN base \cup files \cup groups) \ gone |->
         IF n \in groups THEN child(n) ELSE IF n \in files THEN ov[<<n>>] ELSE base[n]]

-----------------------------------------------------------------------------
(* Lookups *)

RECURSIVE EntryAt(_, _)
EntryAt(tree, rel) ==
  LET e == At(tree, rel[1]) IN
  IF Len(rel) = 1 \/ e = Absent THEN e
  ELSE IF IsTree(e) THEN EntryAt(e, Tail(rel)) ELSE Absent

CurrentAt(tree, rel) == IF rel = <<>> THEN tree ELSE EntryAt(tree, rel)

OverlayShadows(ov, rel) == \E i \in 1..Len(rel) : SubSeq(rel, 1, i) \in DOMAIN ov

\* Faulty variant: only a row of the path itself shadows it.
ObservedAtExact(ov, tree, rel) ==
  IF rel \in DOMAIN ov
  THEN IF ov[rel] # Tomb THEN ov[rel] ELSE Absent
  ELSE CurrentAt(tree, rel)

ObservedAt(ov, tree, rel) ==
  IF OverlayShadows(ov, rel)
  THEN IF rel \in DOMAIN ov /\ ov[rel] # Tomb THEN ov[rel] ELSE Absent
  ELSE CurrentAt(tree, rel)

\* The walk of resolve: at each component the overlay is asked before the tree.
RECURSIVE Walk(_, _, _, _)
Walk(ov, tree, done, rest) ==
  LET here == Append(done, rest[1]) IN
  IF here \in DOMAIN ov
  THEN IF ov[here] # Tomb /\ Len(rest) = 1 THEN ov[here] ELSE Absent
  ELSE LET e == At(tree, rest[1]) IN
       IF Len(rest) = 1 \/ e = Absent THEN e
       ELSE IF IsTree(e) THEN Walk(ov, e, here, Tail(rest)) ELSE Absent

\* NotFound and Invalid are both Absent.
Resolve(ov, tree, rel) ==
  IF rel \in DOMAIN ov THEN (IF ov[rel] # Tomb THEN ov[rel] ELSE Absent)
  ELSE IF rel = <<>> THEN tree ELSE Walk(ov, tree, <<>>, rel)

\* The names ls lists below rel: the base directory's, less the tombstoned,
\* plus every staged child; Absent when the base has no such directory.
Ls(ov, tree, rel) ==
  LET dir  == CurrentAt(tree, rel)
      rows == {p \in DOMAIN ov : Len(p) > Len(rel) /\ IsUnder(p, rel)}
      child(p) == p[Len(rel) + 1]
      deep == {child(p) : p \in {q \in rows : Len(q) > Len(rel) + 1}}
      set  == {child(p) : p \in {q \in rows : Len(q) = Len(rel) + 1 /\ ov[q] # Tomb}}
      cut  == {child(p) : p \in {q \in rows : Len(q) = Len(rel) + 1 /\ ov[q] = Tomb}}
  IN  IF ~IsTree(dir) THEN Absent
      ELSE ((DOMAIN dir \cup deep) \ cut) \cup set

-----------------------------------------------------------------------------
(* rename *)

\* The blobs below a tree, by path.
RECURSIVE CollectBlobs(_)
CollectBlobs(tree) ==
  LET paths(n) == IF IsTree(tree[n]) THEN {<<n>> \o p : p \in DOMAIN CollectBlobs(tree[n])}
                  ELSE {<<n>>}
  IN  [p \in UNION {paths(n) : n \in DOMAIN tree} |->
         IF Len(p) = 1 THEN tree[p[1]] ELSE CollectBlobs(tree[p[1]])[Tail(p)]]

\* Faulty variant: the rows staged below a moved directory are forgotten.
MovedRowsIgnoreStaged(ov, tree, from, to) ==
  LET src == Resolve(ov, tree, from)
      files == CollectBlobs(src) IN
  IF ~IsTree(src) THEN [p \in {to} |-> src]
  ELSE [p \in {to \o r : r \in DOMAIN files} |-> files[SubSeq(p, Len(to) + 1, Len(p))]]

\* The destination rows of a move.  A staged row below a moved directory adds
\* or replaces a file, a tombstone removes the file or the whole subtree.
MovedRows(ov, tree, from, to) ==
  LET src == Resolve(ov, tree, from) IN
  IF ~IsTree(src) THEN [p \in {to} |-> src]
  ELSE LET files  == CollectBlobs(src)
           staged == {SubSeq(p, Len(from) + 1, Len(p)) :
                        p \in {q \in DOMAIN ov : Len(q) > Len(from) /\ IsUnder(q, from)}}
           tombs  == {r \in staged : ov[from \o r] = Tomb}
           kept   == {r \in DOMAIN files : \A d \in tombs : ~IsUnder(r, d)}
                       \cup (staged \ tombs)
           blob(r) == IF r \in staged THEN ov[from \o r] ELSE files[r]
       IN  [p \in {to \o r : r \in kept} |-> blob(SubSeq(p, Len(to) + 1, Len(p)))]

-----------------------------------------------------------------------------
(* Reference definitions the algorithms are checked against *)

\* The fold as an operation on the map from paths to blobs: a row replaces
\* everything at and below its path.  It also replaces a FILE on the way to its
\* path, even when the row is a tombstone.
RefFold(files, ov) ==
  LET kept == {p \in DOMAIN files :
                 \A q \in DOMAIN ov : ~IsUnder(p, q) /\ ~IsUnder(q, p)}
      set  == {p \in DOMAIN ov : ov[p] # Tomb}
  IN  [p \in kept \cup set |-> IF p \in set THEN ov[p] ELSE files[p]]

\* The one tree without empty directories that has these files.
RECURSIVE RefTree(_)
RefTree(files) ==
  LET sub(n) == [p \in {Tail(q) : q \in {r \in DOMAIN files : r[1] = n}} |-> files[<<n>> \o p]] IN
  [n \in {p[1] : p \in DOMAIN files} |->
     IF <<n>> \in DOMAIN files THEN files[<<n>>] ELSE RefTree(sub(n))]
=============================================================================
