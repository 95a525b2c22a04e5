---------------------------- MODULE CatalogRoots ----------------------------
(***************************************************************************)
(* The objects the catalog names: the root set of gc and gc --collect      *)
(* (read_gc_roots in crates/forge-store/src/meta.rs, schedule_catalog_roots*)
(* in crates/forge-api/src/gc.rs), which reads every table on its own, and *)
(* the root set of a reachable fsck (collect_reachable_roots in fsck.rs),  *)
(* which goes from the namespaces to their mounts and rows.  Both are of   *)
(* one catalog snapshot here; module Fsck has the reads of an online fsck. *)
(* Sealed tags and landmarks are roots as well, and have no rows in a      *)
(* session plane; module Integration has them.                             *)
(*                                                                         *)
(* A root is a type and what it names: a commit, a tree or a blob.         *)
(***************************************************************************)
EXTENDS CatalogAudit

RefRoots == {<<refs[n].kind, refs[n].oid>> : n \in {x \in Names : Exists(x)}}

\* An observation names a blob or a tree; one of an absence roots nothing.
ObservationRoot(v) == IF v = Absent THEN {} ELSE {<<IF v \in Contents THEN "blob" ELSE "tree", v>>}
ObservationRoots(s, m) == UNION {ObservationRoot(seen[s][m][p]) : p \in DOMAIN seen[s][m]}

\* A tombstone names no blob.
OverlayRoots(s, m) ==
  {<<"blob", overlay[s][m][p]>> : p \in {q \in DOMAIN overlay[s][m] : overlay[s][m][q] # Tomb}}

BaseRoot(s, m) == IF mount[s][m].base = NoOid THEN {} ELSE {<<"commit", mount[s][m].base>>}

\* Faulty variant: a read-write mount is taken to be kept by the ref it names.
ScheduleCatalogRootsByRef ==
  RefRoots
    \cup {<<"commit", pin[s]>> : s \in {x \in Sessions : pin[x] # NoOid}}
    \cup UNION {OverlayRoots(s, m) : s \in Sessions, m \in MountPaths}

\* schedule_catalog_roots over the rows of read_gc_roots.
ScheduleCatalogRoots ==
  RefRoots
    \cup {<<"commit", pin[s]>> : s \in {x \in Sessions : pin[x] # NoOid}}
    \cup UNION {BaseRoot(s, m) \cup OverlayRoots(s, m) \cup ObservationRoots(s, m) :
                  s \in Sessions, m \in MountPaths}

\* What fsck takes from one namespace: the live ref, each mount with its ref,
\* its pin and its rows, and the observations.
NamespaceRoots(s) ==
  LET mounts == {m \in MountPaths : HasMount(s, m)}
      named  == {live[s]} \cup {spec[s][m] : m \in mounts} IN
  {<<"commit", c>> : c \in {pin[s]} \ {NoOid}}
    \cup {<<refs[n].kind, refs[n].oid>> : n \in {x \in named : Exists(x)}}
    \cup UNION {BaseRoot(s, m) \cup OverlayRoots(s, m) : m \in mounts}
    \cup UNION {ObservationRoots(s, m) : m \in MountPaths}

CollectReachableRoots == RefRoots \cup UNION {NamespaceRoots(s) : s \in {x \in Sessions : Open(x)}}
=============================================================================
