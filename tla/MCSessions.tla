----------------------------- MODULE MCSessions -----------------------------
(* Small session planes: trees of at most three levels over two names, the    *)
(* algorithms of module Trees, and what is checked of them on the way.         *)
EXTENDS CatalogRoots

CONSTANTS s1, h1, b1, b2

T == INSTANCE Trees

MCFold(base, ov)             == T!ApplyOverlay(base, ov)
MCCurrentIn(t, p)             == T!CurrentAt(t, p)
MCSeenIn(ov, t, p)            == T!ObservedAt(ov, t, p)
MCDestinations(ov, t, from, to) == T!MovedRows(ov, t, from, to)

MCRoot == <<>>
MCMain == <<"m">>
MCMounts == {MCRoot, MCMain, <<"w">>}
MCNsOf == [k \in Clients |-> s1]
MCLiveRef == [s \in Sessions |-> h1]
MCIntroduces == [c \in Commits |-> {}]

Leaf(b) == [n \in {"x"} |-> b]
MCStarts  == {[n \in {"w", "x"} |-> IF n = "x" THEN b1 ELSE Leaf(b1)]}
MCDeepStart == {[n \in {"w"} |-> Leaf(Leaf(b1))]}
MCMountable == {<< <<"w">>, Shared >>, << MCRoot, Shared >>, << <<"w">>, Main >>}
MCForeign == {Leaf(b2)}
MCTouched == {<<"x">>, <<"w", "x">>, <<"m", "x">>}
MCMoves   == {<< <<"w">>, <<"x">> >>}
MCStaged  == {b2, Tomb}

-----------------------------------------------------------------------------
Rows(s, m) == overlay[s][m]
BaseOf(s, m) == SessionMountTree(Mounts(s)[m])
Rels == {<<"x">>, <<"w">>, <<"w", "x">>}

\* apply_overlay against the fold on maps from paths to blobs: the result is the
\* one tree without empty directories that has exactly those files, so equal
\* content is an equal id and Noop is decided by comparing ids.
FoldIsReference ==
  \A s \in Sessions, m \in MountPaths : Writable(s, m) =>
    Sees(s, m) = T!RefTree(T!RefFold(T!CollectBlobs(BaseOf(s, m)), Rows(s, m)))

\* resolve (what a read returns) and observed_at (what is recorded for it)
\* classify every path alike, and both agree with what a checkin would publish
\* unless rows are staged below the path.
ReadIsPublication ==
  \A s \in Sessions, m \in MountPaths : Writable(s, m) =>
    \A p \in Rels :
      /\ T!Resolve(Rows(s, m), BaseOf(s, m), p) = SeenIn(Rows(s, m), BaseOf(s, m), p)
      /\ (\A q \in DOMAIN Rows(s, m) : q # p => ~Under(q, p))
           => SeenIn(Rows(s, m), BaseOf(s, m), p) = CurrentIn(Sees(s, m), p)

Files(t)  == T!CollectBlobs(t)
BlobsOf(t) == {Files(t)[p] : p \in DOMAIN Files(t)}
\* The blobs a walk from a root reaches, of commits only their own tree.
Kept(root) == IF root[1] = "blob" THEN {root[2]}
              ELSE BlobsOf(IF root[1] = "tree" THEN root[2] ELSE tree[root[2]])

\* I18, I19: gc and fsck start from the same objects in every state, and from
\* them a walk reaches every blob that any checkin of an open session would
\* publish or name in its receipt: whoever moves or retires refs, a collection
\* at that moment leaves the session's work publishable.
CollectionSparesWork ==
  /\ ScheduleCatalogRoots = CollectReachableRoots
  /\ LET kept == UNION {Kept(r) : r \in ScheduleCatalogRoots} IN
     \A s \in Sessions :
       /\ {r[2] : r \in ContributionReads(seen[s])} \subseteq kept
       /\ \A m \in MountPaths : Writable(s, m) => BlobsOf(Sees(s, m)) \subseteq kept

\* I10, I25: a receipt names the work of the commit that carries it: its base was
\* published, and its writes, all of one mount, cover every file in which the
\* commit's tree and the base's differ, those that went by a delete, a move or
\* the replacement of a directory included.
ReceiptsNameTheChange ==
  \A c \in Commits : contrib[c] # NoReceipt =>
    LET r == contrib[c]  old == Files(tree[r.base])  new == Files(tree[c])
        changed == {p \in DOMAIN old \cup DOMAIN new :
                      \/ p \notin DOMAIN old \cap DOMAIN new
                      \/ old[p] # new[p]} IN
    /\ \E n \in Names : \E i \in 1..Len(reflog[n]) : reflog[n][i].new = r.base
    /\ \E m \in MountPaths :
         /\ \A w \in r.writes : Under(w, m)
         /\ \A p \in changed : \E w \in r.writes : Under(m \o p, w) \/ Under(w, m \o p)

\* I24: a move takes every file below its source to the same place below its
\* destination and leaves every file outside both ends alone.
MoveIsExact ==
  [][\A k \in Clients, m \in MountPaths : LET s == NsOf[k]  j == job[k]
         old == T!CollectBlobs(Sees(s, m))  new == T!CollectBlobs(Sees(s, m)') IN
       AtPhase(k, "move") /\ j.m = m /\ overlay' # overlay =>
         /\ \A p \in DOMAIN old : Under(p, j.rel) =>
              LET q == j.to \o RelOf(j.rel, p) IN q \in DOMAIN new /\ new[q] = old[p]
         /\ \A p \in DOMAIN old : ~Under(p, j.rel) /\ ~Under(p, j.to)
              /\ ~Under(j.to, p) => p \in DOMAIN new /\ new[p] = old[p]
         /\ \A p \in DOMAIN new : ~Under(p, j.rel)]_svars
=============================================================================
