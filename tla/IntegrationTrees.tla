-------------------------- MODULE IntegrationTrees --------------------------
(***************************************************************************)
(* The algorithms that module Integration is parameterised by: the merge   *)
(* of trees (module Merge) and the walks over the typed object graph       *)
(* (module GraphWalk), with what is checked of them on the way.            *)
(***************************************************************************)
EXTENDS Integration

CONSTANTS
  Contents, Tomb,    \* as in module Trees
  MaxGraphObjects    \* the ceiling of a graph walk

M == INSTANCE Merge

-----------------------------------------------------------------------------
(* The typed graph of the stored objects.  An id is a type and a key; the key  *)
(* of a tree or of file content is its value, that of a provenance manifest    *)
(* the set of ids it lists.  No commit made here carries a contribution.       *)

IdOf(entry) == IF M!IsTree(entry) THEN <<"tree", entry>> ELSE <<"blob", entry>>

\* decode_graph_object: every edge and the type expected at its end.
DecodeGraphObject(db, id) ==
  LET o == id[2]
      exact(type, keys) == {[id |-> <<type, x>>, expect |-> type] : x \in keys}
      entries(c) == {M!EntryAt(tree, p) : tree \in {c.ours, c.theirs} \cup c.bases, p \in c.paths}
      out == CASE id[1] = "blob" -> {}
               [] id[1] = "tree" ->
                    {[id |-> IdOf(o[n]), expect |-> IdOf(o[n])[1]] : n \in DOMAIN o}
               [] id[1] = "commit" ->
                    exact("tree", {db.commits[o].tree})
                      \cup exact("commit", {db.commits[o].parents[i] : i \in 1..Len(db.commits[o].parents)})
               [] id[1] = "conflict" ->
                    LET c == db.conflicts[o] IN
                    exact("tree", {c.ours, c.theirs} \cup c.bases)
                      \cup exact("commit", {c.causal[1], c.causal[2]})
                      \cup {[id |-> IdOf(e), expect |-> "any"] : e \in entries(c) \ {Absent}}
               [] id[1] = "snapshot" ->
                    exact("tree", {db.snaps[o].tree}) \cup exact("commit", {db.snaps[o].commit})
                      \cup exact("blob", {db.snaps[o].prov})
  IN  [type |-> id[1], edges |-> out]

Graph == INSTANCE GraphWalk WITH Decode <- DecodeGraphObject

\* schedule_catalog_roots: the refs and landmarks as any object, the seals rows
\* as what their columns say.
ScheduleCatalogRoots ==
  LET root(type, oid, e) == [id |-> <<type, oid>>, expect |-> e]
      sealed == {seals[t] : t \in {x \in Tags : seals[x] # NoSeal}} IN
  {root(refs[n].kind, refs[n].oid, "any") : n \in {m \in Names : Exists(m)}}
    \cup {root(IF o \in Snapshots THEN "snapshot" ELSE "commit", o, "any") : o \in landmarks}
    \cup UNION {{root("snapshot", s.snap, "snapshot"), root("commit", s.commit, "commit"),
                 root("tree", commits[s.commit].tree, "tree")} : s \in sealed}

\* collect_reachable_roots: each ref as the object its kind names.
CollectReachableRoots ==
  {[id |-> <<refs[n].kind, refs[n].oid>>, expect |-> refs[n].kind] : n \in {m \in Names : Exists(m)}}

\* verified_provenance_scope: the content tree and the causal commit graph are
\* both walked; the content, and the contributions there are, form the scope.
VerifiedProvenanceScope(db, commit, tree, lost) ==
  LET content == Graph!ReachableGraphVerified(db, <<"tree", tree>>, "tree", lost, MaxGraphObjects)
      causal  == Graph!ReachableGraphVerified(db, <<"commit", commit>>, "commit", lost, MaxGraphObjects)
  IN  IF content.answer = "ok" THEN IF causal.answer = "ok" THEN content ELSE causal ELSE content

-----------------------------------------------------------------------------
(* Properties *)

\* Commits never change, so each is checked while it is the last one stored.
Newest(c) == Stored(c) /\ (c + 1 \in Commits => ~Stored(c + 1))

\* What is said of the algorithms is said of every history once.
AtStart == calls = 0 /\ cap = CapOf

\* merge_trees against the three-way merge of the maps from paths to files, for
\* every history: outside the paths it reports, each file is what the one side
\* that changed it made of it.  A clean merge therefore is that merge, although
\* the code decides whole directories by their ids.
MergeIsReference ==
  AtStart =>
  LET m == M!AutoMergeTree(Base, Ours, Theirs)
      g == M!Files(Base)  a == M!Files(Ours)  b == M!Files(Theirs)  f == M!Files(m.tree) IN
  \A p \in DOMAIN g \cup DOMAIN a \cup DOMAIN b \cup DOMAIN f :
    \/ \E c \in m.paths : M!IsUnder(p, c)
    \/ M!RefDecided(g, a, b, p) /\ M!FileAt(f, p) = M!RefMerged(g, a, b, p)

\* exact_rename_conflicts: a file whose content the base holds once, moved by
\* both sides to different places or by one side while the other deletes it, is
\* never merged silently, as long as the directories it left and entered exist
\* in the base and on its side.
RenamesConflict ==
  AtStart =>
  LET m == M!AutoMergeTree(Base, Ours, Theirs)
      g == M!Files(Base)  a == M!Files(Ours)  b == M!Files(Theirs)
      dir(t, p) == M!IsTree(M!CurrentAt(t, SubSeq(p, 1, Len(p) - 1)))
      places(t, e) == {p \in DOMAIN M!Files(t) : M!Files(t)[p] = e}
      moved(t, p, q) == /\ places(t, g[p]) = {q} /\ q \notin DOMAIN g /\ M!EntryAt(Base, q) = Absent
                        /\ dir(Base, q) /\ dir(t, p) IN
  \A p \in DOMAIN g :
    /\ places(Base, g[p]) = {p}
    /\ M!EntryAt(Ours, p) = Absent /\ M!EntryAt(Theirs, p) = Absent
    /\ dir(Ours, p) /\ dir(Theirs, p)
    /\ \/ \E q \in DOMAIN a, r \in DOMAIN b : q # r /\ moved(Ours, p, q) /\ moved(Theirs, p, r)
       \/ \E q \in DOMAIN a : moved(Ours, p, q) /\ places(Theirs, g[p]) = {}
    => p \in m.paths

\* I12: a merge commit has at most one best base, whatever refs moved between
\* the two reads: its common history has a newest commit, and its tree is the
\* three-way merge from it.
MergesHaveOneBase ==
  \A c \in Commits : Newest(c) /\ commits[c].msg = "merge" =>
    LET p == commits[c].parents
        common == Ancestors(p[1]) \cap Ancestors(p[2])
        files(d) == M!Files(commits[d].tree) IN
    common = {} \/
      \E n \in common :
        /\ common \subseteq Ancestors(n)
        /\ \A q \in DOMAIN files(c) \cup DOMAIN files(p[1]) \cup DOMAIN files(p[2]) :
             M!FileAt(files(c), q) = M!RefMerged(files(n), files(p[1]), files(p[2]), q)

\* A tree accepted by resolve --tree holds, outside the conflict's paths, what
\* both sides did: no change of either side is dropped by a hand-made tree.
ResolutionKeepsBothSides ==
  [][\A k \in Callers, t \in Sources :
       job[k].at = "resolve" /\ job[k].choice = [side |-> "tree", tree |-> t] /\ job'[k].at = "bind" =>
         LET body == conflicts[job[k].oid]
             g == M!Files(IF body.bases = {} THEN Absent ELSE CHOOSE d \in body.bases : TRUE)
             a == M!Files(body.ours)  b == M!Files(body.theirs) IN
         \/ t \in {body.ours, body.theirs} /\ body.paths = {}
         \/ \A p \in DOMAIN g \cup DOMAIN a \cup DOMAIN b \cup DOMAIN M!Files(t) :
              (\E c \in body.paths : M!IsUnder(p, c)) \/ M!FileAt(M!Files(t), p) = M!RefMerged(g, a, b, p)]_ivars

\* Every call has been made and has ended.
Settled == calls = MaxCalls /\ \A k \in Callers : job[k] = Idle

\* I15: every tag verifies in every later state, and what it sealed was
\* published.  In the end it still verifies exactly as long as nothing the
\* snapshot reaches is lost, whatever else is.
TagsVerify ==
  \A t \in Tags : Exists(t) =>
    /\ VerifyTag(t, {})
    /\ \E n \in Names : \E i \in 1..Len(reflog[n]) : reflog[n][i].new = seals[t].commit
    /\ Settled =>
         LET mine == Graph!Closure(Objects, {<<"snapshot", seals[t].snap>>})
             all  == Graph!Closure(Objects, {<<refs[n].kind, refs[n].oid>> : n \in {m \in Names : Exists(m)}}) IN
         \A i \in all : VerifyTag(t, {i}) <=> i \notin mine

\* What fsck and gc make of the catalog agrees, with nothing lost and with any
\* one object lost: gc answers Corrupt exactly when fsck has a finding, and the
\* finding names the lost object; what gc spares is what the refs reach, seals
\* and landmarks included; a ceiling below that is a refusal by both, never a
\* report of damage.  And a second row that names an object as another type is
\* found by fsck, although the object is already scheduled.
WalksAgree ==
  Settled =>
    LET all  == Graph!Closure(Objects, {e.id : e \in CollectReachableRoots})
        size == Cardinality(all)
        gc(lost, max)   == Graph!ReachableClosure(Objects, ScheduleCatalogRoots, lost, max)
        fsck(lost, max) == Graph!VerifyGraph(Objects, CollectReachableRoots, lost, max) IN
    /\ gc({}, size) = [answer |-> "ok", ids |-> all] /\ fsck({}, size).findings = {}
    /\ \A i \in all : /\ gc({i}, size).answer = "corrupt"
                      /\ fsck({i}, size).findings = {<<"OBJECT_READ", i>>}
    /\ gc({}, size - 1).answer = "refused" /\ fsck({}, size - 1).answer = "refused"
    /\ \A e \in CollectReachableRoots :
         Graph!VerifyGraph(Objects, CollectReachableRoots \cup {[e EXCEPT !.expect = "tree"]}, {}, size).findings
           = {<<"TYPE_MISMATCH", e.id>>}
=============================================================================
