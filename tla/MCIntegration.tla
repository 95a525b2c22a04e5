--------------------------- MODULE MCIntegration ---------------------------
(* Two callers on a small catalog.  Names, contents and bounds are those of   *)
(* the configuration; oids and generated ref names are numbers, so that the   *)
(* least unused one stands for a fresh one.                                   *)
EXTENDS IntegrationTrees

CONSTANTS t1, t2, f1, k1, k2, v1, v2, r1

MCMerged(base, ours, theirs) == M!AutoMergeTree(base, ours, theirs)
MCInScope(base, ours, theirs, paths, tree) == M!ScopedTree(base, ours, theirs, paths, tree)
MCProvenanceScope(db, commit, tree, lost) == VerifiedProvenanceScope(db, commit, tree, lost)

Dir(x, y) == [n \in {m \in {"x", "y"} : (IF m = "x" THEN x ELSE y) # Absent} |->
                IF n = "x" THEN x ELSE y]
Dirs == {Dir(v1, Absent), Dir(v2, Absent), Dir(Absent, v1), Dir(v1, v2)}
Tree(x, d) == [n \in {m \in {"x", "d"} : (IF m = "x" THEN x ELSE d) # Absent} |->
                 IF n = "x" THEN x ELSE d]

\* Every tree with an optional file x and an optional file or directory d of up
\* to two files.
Trees2 == {Tree(x, d) : x \in Contents \cup {Absent}, d \in Dirs \cup {Absent, v1}}
MCHistories == Trees2 \X Trees2 \X Trees2

\* Disjoint changes, the same file changed twice, and a file moved to two places.
Start    == Tree(v1, Dir(v1, Absent))
MCPlayed == {<<Start, Tree(v2, Dir(v1, Absent)), Tree(v1, Dir(v2, Absent))>>,
             <<Start, Tree(v2, Dir(v2, Absent)), Tree(Absent, Dir(v1, Absent))>>}
MCSources == {Tree(v1, Dir(v2, v2)), Tree(v2, Dir(v2, Absent))}

MCTopics  == <<t1, t2>>
MCTargets == {<<Main, t1>>, <<Main, t2>>, <<t1, t2>>, <<t2, t1>>, <<t2, f1>>, <<t2, r1>>}
MCFiledUnder == [c \in Conflicts |-> IF c = 101 THEN Main ELSE t1]
MCResolutionOf == [c \in Conflicts |-> c + 100]
MCIntroduces == [c \in Commits |-> {}]
MCLiveRef == <<>>

MCRefNames == Names
MCOps == {"read", "write", "branch", "merge", "grant", "seal"}
Worker == AttenuateHolder(MintRoot,
  <<OpsCaveat({"read", "write", "merge", "seal", "grant"}), NotCaveat({Main}), TimeCaveat(Now)>>)
MCCapOf == [k \in Callers |-> IF k = k1 THEN MintRoot ELSE Worker]
MCAttenuations == {<<OpsCaveat({"read", "write", "branch"})>>}
=============================================================================
