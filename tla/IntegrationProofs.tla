-------------------------- MODULE IntegrationProofs ---------------------------
(***************************************************************************)
(* Proofs about integration, for any algorithms over trees and any sets of *)
(* names, objects, callers and capabilities.                               *)
(***************************************************************************)
EXTENDS Integration, RefLedgerProofs

-----------------------------------------------------------------------------
(* Ancestry *)

\* A history: every parent is a commit of it.
History(P) == \A c \in DOMAIN P : ParentsOf(P, c) \subseteq DOMAIN P

\* A commit is in its own ancestry.
LEMMA AncestorSelf ==
  ASSUME NEW P, NEW s \in DOMAIN P
  PROVE  s \in AncestorMap(P, s) /\ AncestorMap(P, s) \subseteq DOMAIN P
  BY Zenon DEF AncestorMap

\* The ancestry is contained in every set that has s and the parents of its members.
LEMMA AncestorsLeast ==
  ASSUME NEW P, NEW s, NEW S \in SUBSET DOMAIN P, s \in S, HasItsParents(P, S)
  PROVE  AncestorMap(P, s) \subseteq S
  BY Zenon DEF AncestorMap

\* The ancestry has the parents of its members.
LEMMA AncestorsClosed ==
  ASSUME NEW P, History(P), NEW s
  PROVE  HasItsParents(P, AncestorMap(P, s))
<1> SUFFICES ASSUME NEW c \in AncestorMap(P, s), NEW p \in ParentsOf(P, c)
             PROVE  p \in AncestorMap(P, s)
  BY Zenon DEF HasItsParents
<1>1. c \in DOMAIN P BY Zenon DEF AncestorMap
<1>2. p \in DOMAIN P BY <1>1, Zenon DEF History
<1> QED BY <1>2, Zenon DEF AncestorMap, HasItsParents

\* Ancestors of ancestors are ancestors.
LEMMA AncestorsTransitive ==
  ASSUME NEW P, History(P), NEW s, NEW c \in AncestorMap(P, s)
  PROVE  AncestorMap(P, c) \subseteq AncestorMap(P, s)
<1>1. AncestorMap(P, s) \in SUBSET DOMAIN P BY Zenon DEF AncestorMap
<1> QED BY <1>1, AncestorsClosed, AncestorsLeast, Zenon

\* The ancestry of a commit contains that of each parent.
LEMMA AncestorsOfParent ==
  ASSUME NEW P, History(P), NEW s \in DOMAIN P, NEW p \in ParentsOf(P, s)
  PROVE  p \in AncestorMap(P, s) /\ AncestorMap(P, p) \subseteq AncestorMap(P, s)
<1>1. p \in AncestorMap(P, s) BY AncestorSelf, AncestorsClosed, Zenon DEF HasItsParents
<1> QED BY <1>1, AncestorsTransitive, Zenon

\* Storing more commits changes no ancestry.
LEMMA AncestorsStable ==
  ASSUME NEW P, NEW Q, History(P), DOMAIN P \subseteq DOMAIN Q,
         \A c \in DOMAIN P : Q[c] = P[c], NEW s \in DOMAIN P
  PROVE  AncestorMap(Q, s) = AncestorMap(P, s)
<1>0. \A c \in DOMAIN P : ParentsOf(Q, c) = ParentsOf(P, c) BY Zenon DEF ParentsOf
<1>1. AncestorMap(P, s) \in SUBSET DOMAIN P BY Zenon DEF AncestorMap
<1>2. HasItsParents(Q, AncestorMap(P, s))
  BY <1>0, <1>1, AncestorsClosed, Zenon DEF HasItsParents
<1>3. AncestorMap(Q, s) \subseteq AncestorMap(P, s)
  BY <1>1, <1>2, AncestorSelf, AncestorsLeast, Zenon
<1>4. ASSUME NEW S \in SUBSET DOMAIN Q, s \in S, HasItsParents(Q, S)
      PROVE  AncestorMap(P, s) \subseteq S
  <2>1. S \cap DOMAIN P \in SUBSET DOMAIN P OBVIOUS
  <2>2. HasItsParents(P, S \cap DOMAIN P) BY <1>0, <1>4, Zenon DEF HasItsParents, History
  <2>3. AncestorMap(P, s) \subseteq S \cap DOMAIN P
    BY <1>4, <2>1, <2>2, AncestorsLeast, Zenon
  <2> QED BY <2>3, Zenon
<1>5. AncestorMap(P, s) \subseteq AncestorMap(Q, s)
  BY <1>1, <1>4, Zenon DEF AncestorMap
<1> QED BY <1>3, <1>5, Zenon

-----------------------------------------------------------------------------
(* The inductive invariant *)

\* A commit, snapshot or conflict that is in the store.
Made(c)    == c \in Commits /\ Stored(c)
Snapped(o) == o \in Snapshots /\ snaps[o] # NoObject
Clashed(o) == o \in ConflictObjs /\ conflicts[o] # NoObject

\* The parents of a stored commit.
ParentIds(c) == {commits[c].parents[i] : i \in 1..Len(commits[c].parents)}

Tables ==
  /\ DOMAIN commits = Commits /\ DOMAIN conflicts = ConflictObjs /\ DOMAIN snaps = Snapshots
  /\ DOMAIN job = Callers /\ DOMAIN cap = Callers
  /\ \A k \in Callers : cap[k].caveats \in Seq(Caveat) /\ cap[k].sig \in Seq(Caveat)

\* The parents of a stored commit are stored before it, and a snapshot and a
\* conflict name stored commits.
Lineage ==
  /\ \A c, d \in Commits : Stored(c) /\ d < c => Stored(d)
  /\ \A c \in Commits : Stored(c) => \A p \in ParentIds(c) : Made(p) /\ p < c
  /\ \A o \in ConflictObjs : conflicts[o] # NoObject =>
       \E a, b : Made(a) /\ Made(b) /\ conflicts[o].causal = <<a, b>>
  /\ \A o \in Snapshots : snaps[o] # NoObject =>
       Made(snaps[o].commit) /\ snaps[o].tree = commits[snaps[o].commit].tree

\* A merge commit has at most one best base, and its tree is the merge from it.
MergedFrom(c) ==
  LET a == commits[c].parents[1]  b == commits[c].parents[2]
      bases == MergeBases(Parents, a, b)
      base  == IF bases = {} THEN Absent ELSE commits[CHOOSE d \in bases : TRUE].tree
      m     == Merged(base, commits[a].tree, commits[b].tree) IN
  /\ commits[c].parents = <<a, b>> /\ Made(a) /\ Made(b)
  /\ ~(Cardinality(bases) > 1) /\ m.paths = {} /\ m.tree = commits[c].tree

\* A ref names a stored object of its kind.
Target(kind, o) ==
  \/ kind = "commit" /\ Made(o)
  \/ kind = "snapshot" /\ Snapped(o)
  \/ kind = "conflict" /\ Clashed(o)

\* The names merge and resolve move.
Intos == {t[1] : t \in Targets}

\* What a call that moves `into` has read and was allowed, at each of its phases.
RowRead(k, into, row) ==
  /\ Made(row.oid) /\ row.protected \in BOOLEAN
  /\ row.protected => Can(k, "merge", into)
Moving(k, into, allow) == allow \in BOOLEAN /\ (allow => Can(k, "merge", into))

JobOK(k) ==
  LET j == job[k] IN
  /\ j.at = "branch" => j.into \in Branched /\ Made(j.oid)
  /\ j.at = "import" => j.into \in Imported /\ (j.row.oid = NoOid \/ Made(j.row.oid))
  /\ j.at = "merge"  => j.into \in Intos /\ j.from \in Names /\ RowRead(k, j.into, j.row)
  /\ j.at = "publish" =>
       /\ j.into \in Imported \cup Intos /\ Made(j.commit) /\ Moving(k, j.into, j.allow)
       /\ j.expected = NoOid \/ j.expected \in ParentIds(j.commit)
  /\ j.at = "file" => Clashed(j.oid)
  /\ j.at = "resolve" => j.into \in Intos /\ RowRead(k, j.into, j.row) /\ Clashed(j.oid)
  /\ j.at = "bind" =>
       /\ j.into \in Intos /\ Made(j.commit) /\ Moving(k, j.into, j.allow)
       /\ j.expected \in ParentIds(j.commit)
       /\ j.ref \in Conflicts /\ FiledUnder[j.ref] = j.into
       /\ Clashed(j.oid) /\ commits[j.commit].parents = conflicts[j.oid].causal
  /\ j.at = "seal" =>
       /\ j.ref \in Names /\ j.tag \in Tags /\ Snapped(j.oid) /\ Made(j.commit)
       /\ snaps[j.oid].tag = j.tag /\ snaps[j.oid].commit = j.commit
  /\ j.at = "push" => j.into \in Inbox /\ Snapped(j.oid)

\* The commit was the value of some ref.
Published(c) == \E n \in Names : \E i \in 1..Len(reflog[n]) : reflog[n][i].new = c

\* A seals row agrees with the snapshot it names.
Sealed(t) ==
  seals[t] # NoSeal =>
    LET s == seals[t] IN
    /\ Snapped(s.snap) /\ snaps[s.snap].tag = t /\ snaps[s.snap].commit = s.commit
    /\ Published(s.commit)

\* ResolutionBinds, and what it takes to keep it: the ref the conflict was filed
\* under has a history, and names commits.
Bound(c) ==
  LET r == ResolutionOf[c]  n == FiledUnder[c]  o == Last(reflog[c]).old IN
  /\ Retired(c) <=> Exists(r)
  /\ Exists(r) =>
       /\ Made(refs[r].oid) /\ Clashed(o) /\ commits[refs[r].oid].parents = conflicts[o].causal
       /\ reflog[n] # <<>>
       /\ Exists(n) => refs[n].kind = "commit" /\ refs[r].oid \in Ancestors(refs[n].oid)

JInv ==
  /\ IInv /\ Tables /\ Lineage
  /\ \A c \in Commits : Stored(c) /\ commits[c].msg = "merge" => MergedFrom(c)
  /\ \A n \in Names : Exists(n) => Target(refs[n].kind, refs[n].oid)
  /\ \A k \in Callers : JobOK(k)
  /\ \A t \in Tags : Sealed(t)
  /\ \A c \in Conflicts : Bound(c)

-----------------------------------------------------------------------------
(* Objects and rows *)

\* A stored object is not the missing one, and has the fields it was made with.
LEMMA CommitMade ==
  ASSUME NEW t, NEW ps, NEW msg
  PROVE  /\ Commit(t, ps, msg) # NoObject
         /\ Commit(t, ps, msg).tree = t /\ Commit(t, ps, msg).parents = ps
         /\ Commit(t, ps, msg).msg = msg
<1>1. DOMAIN Commit(t, ps, msg) = {"tree", "parents", "msg"} BY Zenon DEF Commit
<1>2. DOMAIN NoObject = {"none"} BY Zenon DEF NoObject
<1>3. Commit(t, ps, msg) # NoObject BY <1>1, <1>2
<1> QED BY <1>3, Zenon DEF Commit

LEMMA ConflictMade ==
  ASSUME NEW g, NEW a, NEW b, NEW ps, NEW c
  PROVE  LET body == [bases |-> g, ours |-> a, theirs |-> b, paths |-> ps, causal |-> c] IN
         body # NoObject /\ body.causal = c
<1> DEFINE body == [bases |-> g, ours |-> a, theirs |-> b, paths |-> ps, causal |-> c]
<1>1. DOMAIN body = {"bases", "ours", "theirs", "paths", "causal"} BY Zenon
<1>2. DOMAIN NoObject = {"none"} BY Zenon DEF NoObject
<1>3. body # NoObject BY <1>1, <1>2
<1> QED BY <1>3, Zenon

LEMMA SnapMade ==
  ASSUME NEW t, NEW c, NEW tr, NEW p
  PROVE  LET body == [tag |-> t, commit |-> c, tree |-> tr, prov |-> p] IN
         body # NoObject /\ body.tag = t /\ body.commit = c /\ body.tree = tr
<1> DEFINE body == [tag |-> t, commit |-> c, tree |-> tr, prov |-> p]
<1>1. DOMAIN body = {"tag", "commit", "tree", "prov"} BY Zenon
<1>2. DOMAIN NoObject = {"none"} BY Zenon DEF NoObject
<1>3. body # NoObject BY <1>1, <1>2
<1> QED BY <1>3, Zenon

\* The members of short parent lists.
LEMMA PairMembers ==
  ASSUME NEW a, NEW b
  PROVE  /\ {<<a, b>>[i] : i \in 1..Len(<<a, b>>)} = {a, b}
         /\ <<a, b>>[1] = a /\ <<a, b>>[2] = b
         /\ \A i \in 1..2 : <<a, b>>[i] \in {a, b}
  OBVIOUS

LEMMA SingleMembers ==
  ASSUME NEW a
  PROVE  {<<a>>[i] : i \in 1..Len(<<a>>)} = {a}
  OBVIOUS

LEMMA EmptyMembers == {<<>>[i] : i \in 1..Len(<<>>)} = {}
  OBVIOUS

\* The parents that Parents maps a stored commit to.
LEMMA ParentsAt ==
  /\ DOMAIN Parents = {c \in Commits : Stored(c)}
  /\ \A c : Made(c) => ParentsOf(Parents, c) = ParentIds(c)
  BY Zenon DEF Parents, ParentsOf, ParentIds, Made

\* The stored commits form a history.
LEMMA StoredHistory ==
  ASSUME Lineage
  PROVE  History(Parents)
  BY ParentsAt, Zenon DEF Lineage, History, Made

-----------------------------------------------------------------------------
(* Adding objects *)

\* Storing more commits changes no merge base.
LEMMA MergeBasesStable ==
  ASSUME NEW P, NEW Q, History(P), DOMAIN P \subseteq DOMAIN Q,
         \A c \in DOMAIN P : Q[c] = P[c], NEW a \in DOMAIN P, NEW b \in DOMAIN P
  PROVE  MergeBases(Q, a, b) = MergeBases(P, a, b)
<1>1. AncestorMap(Q, a) = AncestorMap(P, a) /\ AncestorMap(Q, b) = AncestorMap(P, b)
  BY AncestorsStable, Zenon
<1>2. \A c \in DOMAIN P : Above(Q, c) = Above(P, c)
  <2> SUFFICES ASSUME NEW c \in DOMAIN P PROVE Above(Q, c) = Above(P, c) OBVIOUS
  <2>1. ParentsOf(Q, c) = ParentsOf(P, c) BY Zenon DEF ParentsOf
  <2>2. \A p \in ParentsOf(P, c) : AncestorMap(Q, p) = AncestorMap(P, p)
    BY AncestorsStable, Zenon DEF History
  <2> QED BY <2>1, <2>2, Zenon DEF Above
<1>3. AncestorMap(P, a) \subseteq DOMAIN P BY AncestorSelf, Zenon
<1> QED BY <1>1, <1>2, <1>3, Zenon DEF MergeBases

\* No step changes an object that is stored.
Grows ==
  /\ DOMAIN commits' = Commits /\ DOMAIN conflicts' = ConflictObjs /\ DOMAIN snaps' = Snapshots
  /\ \A c \in Commits : Stored(c) => commits'[c] = commits[c]
  /\ \A o \in ConflictObjs : conflicts[o] # NoObject => conflicts'[o] = conflicts[o]
  /\ \A o \in Snapshots : snaps[o] # NoObject => snaps'[o] = snaps[o]

LEMMA StoredStays ==
  ASSUME Grows
  PROVE  /\ \A c : Made(c) => Made(c)' /\ commits'[c] = commits[c] /\ ParentIds(c)' = ParentIds(c)
         /\ \A o : Clashed(o) => Clashed(o)' /\ conflicts'[o] = conflicts[o]
         /\ \A o : Snapped(o) => Snapped(o)' /\ snaps'[o] = snaps[o]
  BY Zenon DEF Grows, Made, Stored, Clashed, Snapped, ParentIds

LEMMA HistoryStays ==
  ASSUME Lineage, Grows
  PROVE  /\ \A c : Made(c) => AncestorMap(Parents', c) = AncestorMap(Parents, c)
         /\ \A a, b : Made(a) /\ Made(b) => MergeBases(Parents', a, b) = MergeBases(Parents, a, b)
<1>1. History(Parents) BY StoredHistory, Zenon
<1>2. DOMAIN Parents \subseteq DOMAIN Parents' BY StoredStays, Zenon DEF Parents, Made
<1>3. \A c \in DOMAIN Parents : Parents'[c] = Parents[c]
  BY StoredStays, Zenon DEF Parents, Made
<1>4. \A c : Made(c) => c \in DOMAIN Parents BY ParentsAt, Zenon DEF Made
<1>5. ASSUME NEW c, Made(c) PROVE AncestorMap(Parents', c) = AncestorMap(Parents, c)
  BY <1>1, <1>2, <1>3, <1>4, <1>5, AncestorsStable, Zenon
<1>6. ASSUME NEW a, NEW b, Made(a), Made(b)
      PROVE  MergeBases(Parents', a, b) = MergeBases(Parents, a, b)
  <2>1. a \in DOMAIN Parents /\ b \in DOMAIN Parents BY <1>4, <1>6, Zenon
  <2> QED BY <1>1, <1>2, <1>3, <2>1, MergeBasesStable, Zenon
<1> QED BY <1>5, <1>6, Zenon

\* A merge commit stays the merge of its parents.
LEMMA MergedStays ==
  ASSUME Lineage, Grows, NEW c, Made(c), MergedFrom(c)
  PROVE  MergedFrom(c)'
<1>0. PICK a, b : a = commits[c].parents[1] /\ b = commits[c].parents[2] BY Zenon
<1> DEFINE bases == MergeBases(Parents, a, b)
<1>1. commits'[c] = commits[c] BY StoredStays, Zenon
<1>2. Made(a) /\ Made(b) BY <1>0, Zenon DEF MergedFrom
<1>3. commits'[a] = commits[a] /\ commits'[b] = commits[b] BY <1>2, StoredStays, Zenon
<1>4. MergeBases(Parents', a, b) = bases BY <1>2, HistoryStays, Zenon
<1>5. \A d \in bases : commits'[d] = commits[d]
  <2>1. bases \subseteq AncestorMap(Parents, a) BY <1>2, ParentsAt, AncestorSelf, Zenon DEF MergeBases, Made
  <2>2. \A d \in bases : Made(d) BY <2>1, <1>2, ParentsAt, AncestorSelf, Zenon DEF Made
  <2> QED BY <2>2, StoredStays, Zenon
<1>6. bases # {} => (CHOOSE d \in bases : TRUE) \in bases BY Zenon
<1>7. Made(a)' /\ Made(b)' BY <1>2, <1>3, Zenon DEF Made, Stored
<1> QED BY <1>0, <1>1, <1>3, <1>4, <1>5, <1>6, <1>7, Zenon DEF MergedFrom, Made, Stored

\* A call that takes no step keeps what it knows.
LEMMA JobStays ==
  ASSUME Grows, NEW k \in Callers, JobOK(k), job'[k] = job[k], cap'[k] = cap[k]
  PROVE  JobOK(k)'
<1> DEFINE j == job[k]
<1> USE DEF JobOK, Grows, Made, Stored, Clashed, Snapped, ParentIds
<1>2. (j.at = "branch" => j.into \in Branched /\ Made(j.oid))'
  BY Zenon
<1>3. (j.at = "import" => j.into \in Imported /\ (j.row.oid = NoOid \/ Made(j.row.oid)))'
  BY Zenon
<1>4. (j.at = "merge" => j.into \in Intos /\ j.from \in Names /\ RowRead(k, j.into, j.row))'
  BY Zenon DEF RowRead, Can
<1>5. (j.at = "publish" =>
       /\ j.into \in Imported \cup Intos /\ Made(j.commit) /\ Moving(k, j.into, j.allow)
       /\ j.expected = NoOid \/ j.expected \in ParentIds(j.commit))'
  <2>1. j.at = "publish" => commits'[j.commit] = commits[j.commit] BY Zenon
  <2>2. (j.at = "publish" => j.into \in Imported \cup Intos /\ Made(j.commit) /\ Moving(k, j.into, j.allow))'
    BY Zenon DEF Moving, Can
  <2>3. (j.at = "publish" => j.expected = NoOid \/ j.expected \in ParentIds(j.commit))'
    BY <2>1
  <2> QED BY <2>2, <2>3, Zenon
<1>6. (j.at = "file" => Clashed(j.oid))'
  BY Zenon
<1>7. (j.at = "resolve" => j.into \in Intos /\ RowRead(k, j.into, j.row) /\ Clashed(j.oid))'
  BY Zenon DEF RowRead, Can
<1>8. (j.at = "bind" =>
       /\ j.into \in Intos /\ Made(j.commit) /\ Moving(k, j.into, j.allow)
       /\ j.expected \in ParentIds(j.commit)
       /\ j.ref \in Conflicts /\ FiledUnder[j.ref] = j.into
       /\ Clashed(j.oid) /\ commits[j.commit].parents = conflicts[j.oid].causal)'
  <2>1. j.at = "bind" => commits'[j.commit] = commits[j.commit] /\ conflicts'[j.oid] = conflicts[j.oid]
    BY Zenon
  <2>2. (j.at = "bind" => j.into \in Intos /\ Made(j.commit) /\ Moving(k, j.into, j.allow))'
    BY Zenon DEF Moving, Can
  <2>3. (j.at = "bind" => j.expected \in ParentIds(j.commit))' BY <2>1
  <2>4. (j.at = "bind" => /\ j.ref \in Conflicts /\ FiledUnder[j.ref] = j.into
                         /\ Clashed(j.oid) /\ commits[j.commit].parents = conflicts[j.oid].causal)'
    BY <2>1, Zenon
  <2> QED BY <2>2, <2>3, <2>4, Zenon
<1>9. (j.at = "seal" =>
       /\ j.ref \in Names /\ j.tag \in Tags /\ Snapped(j.oid) /\ Made(j.commit)
       /\ snaps[j.oid].tag = j.tag /\ snaps[j.oid].commit = j.commit)'
  BY Zenon
<1>10. (j.at = "push" => j.into \in Inbox /\ Snapped(j.oid))'
  BY Zenon
<1> QED BY <1>2, <1>3, <1>4, <1>5, <1>6, <1>7, <1>8, <1>9, <1>10, Zenon

\* A new commit.
PutCommit(c, t, ps, msg) ==
  /\ c \in Commits /\ Fresh(c, commits)
  /\ commits' = [commits EXCEPT ![c] = Commit(t, ps, msg)] /\ UNCHANGED <<conflicts, snaps>>

\* Its parents are stored.
AllMade(ps) == \A p \in {ps[i] : i \in 1..Len(ps)} : Made(p)

\* What a new commit on stored parents adds.
LEMMA AddCommit ==
  ASSUME Tables, Lineage, NEW c, NEW t, NEW ps, NEW msg, PutCommit(c, t, ps, msg), AllMade(ps)
  PROVE  /\ Grows /\ Lineage' /\ Made(c)' /\ commits'[c] = Commit(t, ps, msg)
         /\ \A d \in Commits : d # c => commits'[d] = commits[d]
<1> USE DEF PutCommit, AllMade
<1>0. Commits \subseteq Nat BY IntegrationConstants, Zenon
<1>1. /\ commits'[c] = Commit(t, ps, msg) /\ DOMAIN commits' = Commits
      /\ \A d \in Commits : d # c => commits'[d] = commits[d]
  BY Zenon DEF Tables
<1>2. /\ ~Stored(c) /\ Made(c)' /\ \A d \in Commits : ~Stored(d) => c <= d
  <2>1. ~Stored(c) /\ \A d \in Commits : ~Stored(d) => c <= d BY Zenon DEF Fresh, Tables, Stored
  <2>2. Commit(t, ps, msg) # NoObject BY CommitMade
  <2>3. Made(c)' BY <1>1, <2>2, Zenon DEF Stored, Made
  <2> QED BY <2>1, <2>3, Zenon
<1>3. Grows BY <1>1, <1>2, Zenon DEF Grows, Tables, Stored
<1>4. \A d \in Commits : Stored(d) => d < c
  <2> SUFFICES ASSUME NEW d \in Commits, Stored(d) PROVE d < c OBVIOUS
  <2>1. d # c /\ ~(c < d) BY <1>2, Zenon DEF Lineage
  <2>2. c \in Nat /\ d \in Nat BY <1>0, Zenon
  <2> QED BY ONLY <2>1, <2>2
<1>5. (\A x, y \in Commits : Stored(x) /\ y < x => Stored(y))'
  <2> SUFFICES ASSUME NEW x \in Commits, NEW y \in Commits, Stored(x)', y < x, ~Stored(y)'
               PROVE  FALSE
    BY Zenon
  <2>1. ~Stored(y) /\ c <= y BY <1>2, <1>3, StoredStays, Zenon DEF Made
  <2>2. x # c
    <3>1. c \in Nat /\ x \in Nat /\ y \in Nat BY <1>0, Zenon
    <3> QED BY ONLY <2>1, <3>1, y < x
  <2>3. Stored(x) BY <1>1, <2>2, Zenon DEF Stored
  <2> QED BY <2>1, <2>3, Zenon DEF Lineage
<1>6. (\A x \in Commits : Stored(x) => \A p \in ParentIds(x) : Made(p) /\ p < x)'
  <2> SUFFICES ASSUME NEW x \in Commits, Stored(x)', NEW p \in ParentIds(x)'
               PROVE  Made(p)' /\ p < x
    BY Zenon
  <2>1. CASE x = c
    <3>1. p \in {ps[i] : i \in 1..Len(ps)} BY <1>1, <2>1, CommitMade DEF ParentIds
    <3> QED BY <2>1, <3>1, <1>3, <1>4, StoredStays, Zenon DEF Made
  <2>2. CASE x # c
    <3>1. Stored(x) /\ Made(x) BY <1>1, <2>2, Zenon DEF Stored, Made
    <3>2. p \in ParentIds(x) BY <3>1, <1>3, StoredStays, Zenon
    <3> QED BY <3>1, <3>2, <1>3, StoredStays, Zenon DEF Lineage
  <2> QED BY <2>1, <2>2, Zenon
<1>7. (\A o \in ConflictObjs : conflicts[o] # NoObject =>
         \E a, b : Made(a) /\ Made(b) /\ conflicts[o].causal = <<a, b>>)'
  <2> SUFFICES ASSUME NEW o \in ConflictObjs, conflicts[o] # NoObject
               PROVE  \E a, b : Made(a)' /\ Made(b)' /\ conflicts[o].causal = <<a, b>>
    BY Zenon
  <2>1. PICK a, b : Made(a) /\ Made(b) /\ conflicts[o].causal = <<a, b>> BY Zenon DEF Lineage
  <2> QED BY <2>1, <1>3, StoredStays, Zenon
<1>8. (\A o \in Snapshots : snaps[o] # NoObject =>
         Made(snaps[o].commit) /\ snaps[o].tree = commits[snaps[o].commit].tree)'
  <2> SUFFICES ASSUME NEW o \in Snapshots, snaps[o] # NoObject, NEW d, d = snaps[o].commit
               PROVE  Made(d)' /\ snaps[o].tree = commits'[d].tree
    BY Zenon DEF Made, Stored
  <2>1. Made(d) /\ snaps[o].tree = commits[d].tree BY Zenon DEF Lineage
  <2> QED BY <2>1, <1>3, StoredStays, Zenon
<1>9. Lineage' BY <1>5, <1>6, <1>7, <1>8, Zenon DEF Lineage
<1> QED BY <1>1, <1>2, <1>3, <1>9, Zenon

\* What a conflict between two stored commits adds, or leaves as it is.
LEMMA AddConflict ==
  ASSUME Tables, Lineage, NEW o \in ConflictObjs, NEW body, NEW a, NEW b, Made(a), Made(b),
         body # NoObject, body.causal = <<a, b>>, conflicts[o] \in {NoObject, body},
         conflicts' = [conflicts EXCEPT ![o] = body], UNCHANGED <<commits, snaps>>
  PROVE  Grows /\ Lineage' /\ Clashed(o)'
<1>1. /\ conflicts'[o] = body /\ DOMAIN conflicts' = ConflictObjs
      /\ \A d \in ConflictObjs : d # o => conflicts'[d] = conflicts[d]
  BY Zenon DEF Tables
<1>2. Grows BY <1>1, Zenon DEF Grows, Tables
<1>3. Clashed(o)' BY <1>1, Zenon DEF Clashed
<1>4. (\A d \in ConflictObjs : conflicts[d] # NoObject =>
         \E x, y : Made(x) /\ Made(y) /\ conflicts[d].causal = <<x, y>>)'
  <2> SUFFICES ASSUME NEW d \in ConflictObjs, conflicts'[d] # NoObject
               PROVE  \E x, y : Made(x)' /\ Made(y)' /\ conflicts'[d].causal = <<x, y>>
    BY Zenon
  <2>0. \A x : Made(x) => Made(x)' BY <1>2, StoredStays, Zenon
  <2>1. CASE d = o BY <1>1, <2>0, <2>1, Zenon
  <2>2. CASE d # o
    <3>1. conflicts'[d] = conflicts[d] BY <1>1, <2>2, Zenon
    <3>2. PICK x, y : Made(x) /\ Made(y) /\ conflicts[d].causal = <<x, y>>
      BY <3>1, Zenon DEF Lineage
    <3> QED BY <3>1, <3>2, <2>0, Zenon
  <2> QED BY <2>1, <2>2, Zenon
<1>5. (\A x, y \in Commits : Stored(x) /\ y < x => Stored(y))' BY Zenon DEF Lineage, Stored
<1>6. (\A x \in Commits : Stored(x) => \A p \in ParentIds(x) : Made(p) /\ p < x)'
  BY Zenon DEF Lineage, Stored, ParentIds, Made
<1>7. (\A d \in Snapshots : snaps[d] # NoObject =>
         Made(snaps[d].commit) /\ snaps[d].tree = commits[snaps[d].commit].tree)'
  BY Zenon DEF Lineage, Made, Stored
<1> QED BY <1>2, <1>3, <1>4, <1>5, <1>6, <1>7, Zenon DEF Lineage

\* What a snapshot of a stored commit adds.
LEMMA AddSnapshot ==
  ASSUME Tables, Lineage, NEW o \in Snapshots, NEW body, body # NoObject, snaps[o] = NoObject,
         Made(body.commit), body.tree = commits[body.commit].tree,
         snaps' = [snaps EXCEPT ![o] = body], UNCHANGED <<commits, conflicts>>
  PROVE  Grows /\ Lineage' /\ Snapped(o)' /\ snaps'[o] = body
<1>1. /\ snaps'[o] = body /\ DOMAIN snaps' = Snapshots
      /\ \A d \in Snapshots : d # o => snaps'[d] = snaps[d]
  BY Zenon DEF Tables
<1>2. Grows BY <1>1, Zenon DEF Grows, Tables
<1>3. Snapped(o)' BY <1>1, Zenon DEF Snapped
<1>4. (\A d \in Snapshots : snaps[d] # NoObject =>
         Made(snaps[d].commit) /\ snaps[d].tree = commits[snaps[d].commit].tree)'
  BY <1>1, Zenon DEF Lineage, Made, Stored
<1>5. (\A x, y \in Commits : Stored(x) /\ y < x => Stored(y))' BY Zenon DEF Lineage, Stored
<1>6. (\A x \in Commits : Stored(x) => \A p \in ParentIds(x) : Made(p) /\ p < x)'
  BY Zenon DEF Lineage, Stored, ParentIds, Made
<1>7. (\A d \in ConflictObjs : conflicts[d] # NoObject =>
         \E x, y : Made(x) /\ Made(y) /\ conflicts[d].causal = <<x, y>>)'
  BY Zenon DEF Lineage, Made, Stored
<1> QED BY <1>1, <1>2, <1>3, <1>4, <1>5, <1>6, <1>7, Zenon DEF Lineage

\* A step that only adds objects keeps what is said of refs, seals and resolutions.
LEMMA ObjectStep ==
  ASSUME JInv, Grows, Lineage', Tables', UNCHANGED vars,
         \A c \in Commits : ~Stored(c) /\ Stored(c)' /\ commits'[c].msg = "merge" => MergedFrom(c)',
         \A k \in Callers : JobOK(k)'
  PROVE  JInv'
<1>1. IInv' BY StutterShape, ShapeKeepsInv, Zenon DEF JInv
<1>3. (\A c \in Commits : Stored(c) /\ commits[c].msg = "merge" => MergedFrom(c))'
  <2> SUFFICES ASSUME NEW c \in Commits, Stored(c)', commits'[c].msg = "merge"
               PROVE  MergedFrom(c)'
    BY Zenon
  <2>1. CASE Stored(c) BY <2>1, MergedStays, StoredStays, Zenon DEF JInv, Made
  <2>2. CASE ~Stored(c) BY <2>2, Zenon
  <2> QED BY <2>1, <2>2, Zenon
<1>4. (\A n \in Names : Exists(n) => Target(refs[n].kind, refs[n].oid))'
  <2> SUFFICES ASSUME NEW n \in Names, refs[n].oid # NoOid, NEW x, NEW y, x = refs[n].kind, y = refs[n].oid
               PROVE  Target(x, y)'
    BY Zenon DEF vars, Exists, Target, Made, Stored, Snapped, Clashed
  <2>1. Target(x, y) BY Zenon DEF JInv, Exists
  <2> QED BY <2>1, StoredStays, Zenon DEF Target
<1>5. (\A t \in Tags : Sealed(t))'
  <2> SUFFICES ASSUME NEW t \in Tags, seals[t] # NoSeal, NEW s, s = seals[t]
               PROVE  /\ Snapped(s.snap)' /\ snaps'[s.snap].tag = t /\ snaps'[s.snap].commit = s.commit
                      /\ Published(s.commit)
    BY Zenon DEF vars, Sealed, Snapped, Published
  <2>1. Snapped(s.snap) /\ snaps[s.snap].tag = t /\ snaps[s.snap].commit = s.commit /\ Published(s.commit)
    BY Zenon DEF JInv, Sealed
  <2> QED BY <2>1, StoredStays, Zenon
<1>6. (\A c \in Conflicts : Bound(c))'
  <2> SUFFICES ASSUME NEW c \in Conflicts PROVE Bound(c)' BY Zenon
  <2>1. PICK r, n, o, x, y : /\ r = ResolutionOf[c] /\ n = FiledUnder[c] /\ o = Last(reflog[c]).old
                             /\ x = refs[r].oid /\ y = refs[n].oid
    BY Zenon
  <2>2. r \in Names /\ n \in Names BY <2>1, IntegrationConstants, Zenon DEF Names
  <2>3. /\ refs' = refs /\ reflog' = reflog BY Zenon DEF vars
  <2>4. ASSUME Exists(r), Exists(n)
        PROVE  refs[n].kind = "commit" /\ x \in AncestorMap(Parents', y)
    <3>1. refs[n].kind = "commit" /\ x \in AncestorMap(Parents, y)
      BY <2>1, <2>4, Zenon DEF JInv, Bound, Ancestors
    <3>2. Made(y) BY <2>1, <2>2, <2>4, <3>1, Zenon DEF JInv, Target
    <3> QED BY <3>1, <3>2, HistoryStays, Zenon DEF JInv
  <2>5. ASSUME Exists(r)
        PROVE  Made(x)' /\ Clashed(o)' /\ commits'[x].parents = conflicts'[o].causal /\ reflog[n] # <<>>
    <3>1. Made(x) /\ Clashed(o) /\ commits[x].parents = conflicts[o].causal /\ reflog[n] # <<>>
      BY <2>1, <2>5, Zenon DEF JInv, Bound
    <3> QED BY <3>1, StoredStays, Zenon
  <2>6. Retired(c) <=> Exists(r) BY <2>1, Zenon DEF JInv, Bound
  <2> QED BY <2>1, <2>3, <2>4, <2>5, <2>6, Zenon
        DEF Bound, Exists, Retired, Ancestors, Made, Stored, Clashed
<1> QED BY <1>1, <1>3, <1>4, <1>5, <1>6, Zenon DEF JInv

-----------------------------------------------------------------------------
(* Moving refs *)

\* What an integration call may do to one name: create it on a stored object,
\* retire it, or move it to a commit on top of the one it had.
NameStep(n) ==
  \/ refs'[n] = refs[n]
  \/ refs[n].oid = NoOid /\ refs'[n].oid # NoOid /\ Target(refs'[n].kind, refs'[n].oid)
  \/ refs'[n] = NoRow
  \/ /\ refs[n].oid # NoOid /\ refs[n].kind = "commit" /\ refs'[n].kind = "commit"
     /\ Made(refs'[n].oid) /\ refs[n].oid \in ParentIds(refs'[n].oid)

\* A protected name is moved by a call that was allowed to merge into it.
Guarded ==
  \A n \in Names : refs[n].protected /\ refs'[n] # refs[n] =>
    \E k \in Callers : /\ job[k].at \in {"publish", "bind"} /\ job[k].into = n
                       /\ job'[k] = Idle /\ Can(k, "merge", n)

\* What every step of integration does to the ledger and to the store.
Moves == Grows /\ Shape /\ Guarded /\ \A n \in Names : NameStep(n)

\* A retired name is one with reflog rows and no ref.
LEMMA RetiredIs ==
  ASSUME ReflogTerminal, NEW n \in Names
  PROVE  Retired(n) <=> ~Exists(n) /\ reflog[n] # <<>>
  BY Zenon DEF ReflogTerminal, Retired

\* Reflog rows stay, and a name with rows and no ref gets no more.
LEMMA LogStays ==
  ASSUME IInv, Shape, NEW n \in Names
  PROVE  /\ reflog[n] # <<>> => reflog'[n] # <<>>
         /\ reflog[n] # <<>> /\ refs[n].oid = NoOid => refs'[n] = refs[n] /\ reflog'[n] = reflog[n]
         /\ refs'[n] # refs[n] => reflog'[n] # <<>>
         /\ \A i \in 1..Len(reflog[n]) : i \in 1..Len(reflog'[n]) /\ reflog'[n][i] = reflog[n][i]
<1>0. reflog[n] \in Seq(LogRow) BY Zenon DEF IInv, TypeOK
<1>1. CASE refs'[n] = refs[n] /\ reflog'[n] = reflog[n] BY <1>1, Zenon
<1>2. CASE \E e \in LogRow :
             /\ reflog'[n] = Append(reflog[n], e)
             /\ refs[n].oid = NoOid => reflog[n] = <<>>
  <2>1. PICK e \in LogRow : /\ reflog'[n] = Append(reflog[n], e)
                            /\ refs[n].oid = NoOid => reflog[n] = <<>>
    BY <1>2, Zenon
  <2>2. /\ Append(reflog[n], e) # <<>> /\ Len(Append(reflog[n], e)) = Len(reflog[n]) + 1
        /\ \A i \in 1..Len(reflog[n]) : Append(reflog[n], e)[i] = reflog[n][i]
    BY <1>0, AppendRow, Zenon
  <2>3. Len(reflog[n]) \in Nat BY <1>0
  <2>4. \A i \in 1..Len(reflog[n]) : i \in 1..(Len(reflog[n]) + 1) BY <2>3
  <2> QED BY <2>1, <2>2, <2>4, Zenon
<1>3. Logged(n) BY Zenon DEF Shape
<1>4. (refs'[n] = refs[n] /\ reflog'[n] = reflog[n])
      \/ \E e \in LogRow : /\ reflog'[n] = Append(reflog[n], e)
                           /\ refs[n].oid = NoOid => reflog[n] = <<>>
  BY <1>3, Zenon DEF Logged
<1> QED BY <1>1, <1>2, <1>4, Zenon

\* What was published stays published.
LEMMA PublishedStays ==
  ASSUME IInv, Shape, NEW c, Published(c)
  PROVE  Published(c)'
  BY LogStays, Zenon DEF Published

\* The rows of a resolution are kept by every step that moves refs forward and
\* neither touches resolutions nor retires a conflict.
LEMMA BoundStays ==
  ASSUME JInv, Shape, IInv', UNCHANGED <<commits, conflicts, snaps>>,
         NEW c \in Conflicts, NameStep(FiledUnder[c]),
         refs'[ResolutionOf[c]] = refs[ResolutionOf[c]],
         refs'[c].oid = NoOid => refs[c].oid = NoOid
  PROVE  Bound(c)'
<1>1. PICK r, n, o, x, y : /\ r = ResolutionOf[c] /\ n = FiledUnder[c] /\ o = Last(reflog[c]).old
                           /\ x = refs[r].oid /\ y = refs[n].oid
  BY Zenon
<1>2. r \in Names /\ n \in Names /\ c \in Names BY <1>1, IntegrationConstants, Zenon DEF Names
<1>3. Parents' = Parents /\ refs'[r] = refs[r] BY <1>1, Zenon DEF Parents, Stored
<1>4. Retired(c) <=> Exists(r) BY <1>1, Zenon DEF JInv, Bound
<1>5. /\ Retired(c) <=> refs[c].oid = NoOid /\ reflog[c] # <<>>
      /\ Retired(c)' <=> refs'[c].oid = NoOid /\ reflog'[c] # <<>>
  BY <1>2, RetiredIs, Zenon DEF JInv, IInv, ReflogTerminal, Retired, Exists
<1>6. /\ Retired(c) => reflog'[c] = reflog[c] /\ refs'[c] = refs[c]
      /\ Retired(c)' => refs[c].oid = NoOid /\ reflog[c] # <<>>
  <2>1. Retired(c) => reflog'[c] = reflog[c] /\ refs'[c] = refs[c]
    BY <1>2, <1>5, LogStays, Zenon DEF JInv
  <2>2. ASSUME refs'[c].oid = NoOid, reflog'[c] # <<>>, refs[c].oid = NoOid PROVE reflog[c] # <<>>
    BY <1>2, <2>2, RowPresent, Zenon DEF Shape, Logged
  <2> QED BY <1>5, <2>1, <2>2, Zenon
<1>7. Retired(c)' <=> Exists(r)' BY <1>3, <1>4, <1>5, <1>6, Zenon DEF Exists
<1>8. ASSUME Exists(r)
      PROVE  /\ Made(x)' /\ Clashed(o)' /\ commits'[x].parents = conflicts'[o].causal
             /\ reflog'[n] # <<>> /\ Last(reflog'[c]).old = o
  <2>1. Made(x) /\ Clashed(o) /\ commits[x].parents = conflicts[o].causal /\ reflog[n] # <<>>
    BY <1>1, <1>8, Zenon DEF JInv, Bound
  <2>2. reflog'[c] = reflog[c] BY <1>4, <1>6, <1>8, Zenon
  <2>3. reflog'[n] # <<>> BY <1>2, <2>1, LogStays, Zenon DEF JInv
  <2> QED BY <1>1, <2>1, <2>2, <2>3, Zenon DEF Made, Stored, Clashed
<1>9. ASSUME Exists(r), refs'[n].oid # NoOid
      PROVE  refs'[n].kind = "commit" /\ x \in AncestorMap(Parents, refs'[n].oid)
  <2>1. reflog[n] # <<>> BY <1>1, <1>9, Zenon DEF JInv, Bound
  <2>2. refs[n].oid # NoOid BY <1>2, <1>9, <2>1, LogStays, Zenon DEF JInv
  <2>3. refs[n].kind = "commit" /\ x \in AncestorMap(Parents, y)
    BY <1>1, <1>9, <2>2, Zenon DEF JInv, Bound, Ancestors, Exists
  <2>4. CASE refs'[n] = refs[n] BY <1>1, <2>3, <2>4, Zenon
  <2>5. CASE refs'[n].kind = "commit" /\ Made(refs'[n].oid) /\ y \in ParentIds(refs'[n].oid)
    <3>1. PICK z : z = refs'[n].oid BY Zenon
    <3>2. z \in DOMAIN Parents /\ y \in ParentsOf(Parents, z)
      BY <2>5, <3>1, ParentsAt, Zenon DEF Made
    <3>3. AncestorMap(Parents, y) \subseteq AncestorMap(Parents, z)
      BY <3>2, StoredHistory, AncestorsOfParent, Zenon DEF JInv
    <3> QED BY <2>3, <2>5, <3>1, <3>3, Zenon
  <2>6. NameStep(n) BY <1>1, Zenon
  <2>7. refs'[n] # NoRow BY <1>9, RowPresent, Zenon
  <2> QED BY <1>1, <2>2, <2>4, <2>5, <2>6, <2>7, Zenon DEF NameStep
<1> QED BY <1>1, <1>3, <1>7, <1>8, <1>9, Zenon DEF Bound, Exists, Ancestors

\* A step of the ledger that stores nothing keeps the invariant, if it moves
\* refs as above and keeps seals and resolutions right.
LEMMA LedgerStep ==
  ASSUME JInv, Shape, UNCHANGED <<commits, conflicts, snaps, cap>>, DOMAIN job' = Callers,
         \A k \in Callers : JobOK(k)', \A n \in Names : NameStep(n),
         \A t \in Tags : Sealed(t)', \A c \in Conflicts : Bound(c)'
  PROVE  JInv'
<1>1. IInv' BY ShapeKeepsInv, Zenon DEF JInv
<1>2. Tables' BY Zenon DEF JInv, Tables
<1>3. Lineage' BY Zenon DEF JInv, Lineage, Made, Stored, ParentIds
<1>4. Grows BY Zenon DEF Grows, JInv, Tables
<1>5. (\A c \in Commits : Stored(c) /\ commits[c].msg = "merge" => MergedFrom(c))'
  BY <1>4, MergedStays, Zenon DEF JInv, Made, Stored
<1>6. (\A n \in Names : Exists(n) => Target(refs[n].kind, refs[n].oid))'
  <2> SUFFICES ASSUME NEW n \in Names, refs'[n].oid # NoOid, NEW x, NEW y,
                      x = refs'[n].kind, y = refs'[n].oid
               PROVE  Target(x, y)'
    BY Zenon DEF Exists, Target, Made, Stored, Snapped, Clashed
  <2>1. refs'[n] # NoRow BY RowPresent, Zenon
  <2>2. ASSUME refs'[n] = refs[n] PROVE Target(x, y) BY <2>2, Zenon DEF JInv, Exists
  <2>3. Target(x, y) BY <2>1, <2>2, Zenon DEF NameStep, Target
  <2> QED BY <2>3, Zenon DEF Target, Made, Stored, Snapped, Clashed
<1> QED BY <1>1, <1>2, <1>3, <1>5, <1>6, Zenon DEF JInv

\* The call that took the step is done; the others know what they knew.
LEMMA CallDone ==
  ASSUME JInv, NEW k \in Callers, UNCHANGED <<commits, conflicts, snaps, cap>>,
         job' = [job EXCEPT ![k] = Idle]
  PROVE  DOMAIN job' = Callers /\ \A h \in Callers : JobOK(h)'
<1>1. Grows BY Zenon DEF Grows, JInv, Tables
<1>2. DOMAIN job' = Callers /\ job'[k] = Idle /\ \A h \in Callers : h # k => job'[h] = job[h]
  BY Zenon DEF JInv, Tables
<1>3. Idle.at = "idle" BY Zenon DEF Idle
<1>4. JobOK(k)' BY <1>2, <1>3, Zenon DEF JobOK
<1>5. \A h \in Callers : h # k => JobOK(h)' BY <1>1, <1>2, JobStays, Zenon DEF JInv
<1> QED BY <1>2, <1>4, <1>5, Zenon

\* A seals row that is not written stays right.
LEMMA SealRowStays ==
  ASSUME JInv, Shape, UNCHANGED snaps, NEW t \in Tags, seals'[t] = seals[t]
  PROVE  Sealed(t)'
<1>1. PICK s, c : s = seals[t] /\ c = s.commit BY Zenon
<1>2. ASSUME s # NoSeal
      PROVE  Snapped(s.snap) /\ snaps[s.snap].tag = t /\ snaps[s.snap].commit = c /\ Published(c)
  BY <1>1, <1>2, Zenon DEF JInv, Sealed
<1>3. s # NoSeal => Published(c)' BY <1>2, PublishedStays, Zenon DEF JInv
<1> QED BY <1>1, <1>2, <1>3, Zenon DEF Sealed, Snapped, Published

\* Such a step that touches no seal, resolution or conflict.
LEMMA PlainStep ==
  ASSUME JInv, Shape, Guarded, UNCHANGED <<commits, conflicts, snaps, cap, seals>>, DOMAIN job' = Callers,
         \A k \in Callers : JobOK(k)', \A n \in Names : NameStep(n),
         \A n \in Resolutions : refs'[n] = refs[n],
         \A c \in Conflicts : refs'[c].oid = NoOid => refs[c].oid = NoOid
  PROVE  JInv' /\ Moves
<1>1. IInv' BY ShapeKeepsInv, Zenon DEF JInv
<1>2. \A t \in Tags : Sealed(t)' BY SealRowStays, Zenon
<1>3. \A c \in Conflicts : Bound(c)'
  <2> SUFFICES ASSUME NEW c \in Conflicts PROVE Bound(c)' OBVIOUS
  <2>1. FiledUnder[c] \in Names /\ ResolutionOf[c] \in Resolutions BY IntegrationConstants, Zenon
  <2> QED BY <1>1, <2>1, BoundStays, Zenon
<1>4. Grows BY Zenon DEF Grows, JInv, Tables
<1> QED BY <1>2, <1>3, <1>4, LedgerStep, Zenon DEF Moves

\* A name that had no ref is created on a stored object, and nothing else.
LEMMA CreateNames ==
  ASSUME IInv, NEW n \in Names, NEW k \in Kinds, NEW o \in ObjectsOf(k), Target(k, o),
         refs[n].oid = NoOid, refs' = [refs EXCEPT ![n] = Row(o, k)]
  PROVE  /\ \A m \in Names : NameStep(m)
         /\ \A m \in Names : m # n => refs'[m] = refs[m]
         /\ \A m \in Names : refs'[m].oid = NoOid => refs[m].oid = NoOid
<1>1. DOMAIN refs = Names BY Zenon DEF IInv, TypeOK
<1>2. /\ refs'[n] = Row(o, k) /\ \A m \in Names : m # n => refs'[m] = refs[m]
  BY <1>1, Zenon
<1>3. o \in Oids BY ObjectsAreOids, Zenon
<1>4. refs'[n].oid = o /\ refs'[n].kind = k /\ refs'[n].oid # NoOid
  <2>1. Row(o, k).oid = o /\ Row(o, k).kind = k BY <1>3, RowType, Zenon
  <2>2. o # NoOid BY <1>3, OidTypes, Zenon
  <2> QED BY <1>2, <2>1, <2>2, Zenon
<1>5. NameStep(n) BY <1>4, Zenon DEF NameStep
<1> QED BY <1>2, <1>5, Zenon DEF NameStep

\* A name without a ref is not protected.
LEMMA AbsentRow ==
  ASSUME IInv, NEW n \in Names, refs[n].oid = NoOid
  PROVE  refs[n] = NoRow /\ ~refs[n].protected
<1>1. refs[n] = NoRow BY RowPresent, Zenon DEF IInv, TypeOK
<1>2. ~NoRow.protected BY Zenon DEF NoRow
<1> QED BY <1>1, <1>2, Zenon

\* A swap of a ref that exists is to a commit on top of the expected one.
OnTop(n, k, expected, new) ==
  Exists(n) /\ refs[n].oid = expected => k = "commit" /\ expected \in ParentIds(new)

\* What such a swap, a create or a fork does to the names.
Swapped(n, allow) ==
  /\ \A m \in Names : NameStep(m)
  /\ \A m \in Resolutions : refs'[m] = refs[m]
  /\ \A m \in Names : refs'[m].oid = NoOid => refs[m].oid = NoOid
  /\ \A m \in Names : refs[m].protected /\ refs'[m] # refs[m] => m = n /\ allow = TRUE

LEMMA SwapNames ==
  ASSUME IInv, NEW n \in Names, n \notin Resolutions, NEW k \in Kinds, NEW expected,
         NEW new \in ObjectsOf(k), NEW allow \in BOOLEAN, Target(k, new), CasRef(n, k, expected, new, allow),
         OnTop(n, k, expected, new)
  PROVE  Swapped(n, allow)
<1> USE DEF Swapped
<1>0. \A m \in Resolutions : m \in Names BY Zenon DEF Names
<1>1. CASE CasCreate(n, k, new)
  <2>1. refs[n].oid = NoOid /\ refs' = [refs EXCEPT ![n] = Row(new, k)]
    BY <1>1, Zenon DEF CasCreate, Exists
  <2>2. ~refs[n].protected BY <2>1, AbsentRow, Zenon
  <2> QED BY <1>0, <2>1, <2>2, CreateNames, Zenon
<1>2. CASE Movable(n, k, allow) /\ refs[n].oid = expected /\ MoveRef(n, expected, new, "cas")
  <2>1. /\ refs[n] \in RefRow /\ refs[n].oid # NoOid /\ refs[n].kind = k
        /\ (refs[n].protected => allow = TRUE)
    BY <1>2, MovableRow, Zenon DEF Movable
  <2>2. new \in Oids /\ new # NoOid BY ObjectsAreOids, OidTypes, Zenon
  <2>3. Moved(refs[n], new).oid = new /\ Moved(refs[n], new).kind = k
    BY <2>1, <2>2, MovedRow, Zenon
  <2>4. refs'[n] = Moved(refs[n], new) /\ \A m \in Names : m # n => refs'[m] = refs[m]
    BY <1>2, Zenon DEF MoveRef, IInv, TypeOK
  <2>5. refs'[n].oid = new /\ refs'[n].kind = k BY <2>3, <2>4, Zenon
  <2>6. k = "commit" /\ expected \in ParentIds(new) BY <1>2, <2>1, Zenon DEF Exists, OnTop
  <2>7. Made(new) BY <2>6, Zenon DEF Target
  <2>8. refs[n].oid \in ParentIds(refs'[n].oid) /\ Made(refs'[n].oid) BY <1>2, <2>5, <2>6, <2>7, Zenon
  <2>9. NameStep(n) BY <2>1, <2>5, <2>6, <2>8, Zenon DEF NameStep
  <2>10. \A m \in Names : NameStep(m) BY <2>4, <2>9, Zenon DEF NameStep
  <2> QED BY <1>0, <2>1, <2>2, <2>4, <2>5, <2>10, Zenon
<1>3. CASE \E f \in ForkNames(n, k) :
             /\ Unused(f) /\ HasRoom(f)
             /\ ForkRef(f, k, refs[n].oid, new)
  <2>1. PICK f \in ForkNames(n, k) : Unused(f) /\ ForkRef(f, k, refs[n].oid, new) BY <1>3, Zenon
  <2>2. f \in Forks \cup InboxForks BY Zenon DEF ForkNames
  <2>3. f \in Names /\ f \notin Resolutions BY <2>2, NameClasses, Zenon DEF Names
  <2>4. refs[f].oid = NoOid /\ refs' = [refs EXCEPT ![f] = Row(new, k)]
    BY <2>1, Zenon DEF Unused, Exists, ForkRef
  <2>5. ~refs[f].protected BY <2>3, <2>4, AbsentRow, Zenon
  <2> QED BY <1>0, <2>3, <2>4, <2>5, CreateNames, Zenon
<1> QED BY <1>1, <1>2, <1>3, Zenon DEF CasRef

\* A call that ends without a transaction.
LEMMA RefusedStep ==
  ASSUME JInv, NEW k \in Callers, job' = [job EXCEPT ![k] = Idle],
         UNCHANGED <<commits, conflicts, snaps, cap>>, UNCHANGED vars
  PROVE  JInv' /\ Moves
<1>1. DOMAIN job' = Callers /\ \A h \in Callers : JobOK(h)' BY CallDone, Zenon
<1>2. Shape BY StutterShape, Zenon DEF JInv
<1>3. refs' = refs /\ seals' = seals BY Zenon DEF vars
<1>4. Guarded /\ \A m \in Names : NameStep(m) BY <1>3, Zenon DEF NameStep, Guarded
<1> QED BY <1>1, <1>2, <1>3, <1>4, PlainStep, Zenon

\* A call that ends by creating a ref on a stored object.
LEMMA InsertStep ==
  ASSUME JInv, NEW k \in Callers, job' = [job EXCEPT ![k] = Idle],
         UNCHANGED <<commits, conflicts, snaps, cap>>,
         NEW n \in Names, n \notin Resolutions, NEW kind \in Kinds, NEW o \in ObjectsOf(kind),
         Target(kind, o), InsertRef(n, kind, o)
  PROVE  JInv' /\ Moves
<1>1. DOMAIN job' = Callers /\ \A h \in Callers : JobOK(h)' BY CallDone, Zenon
<1>2. Shape BY InsertRefShape, Zenon DEF JInv
<1>3. refs[n].oid = NoOid /\ refs' = [refs EXCEPT ![n] = Row(o, kind)] /\ seals' = seals
  BY Zenon DEF InsertRef, Exists
<1>4. /\ \A m \in Names : NameStep(m)
      /\ \A m \in Names : m # n => refs'[m] = refs[m]
      /\ \A m \in Names : refs'[m].oid = NoOid => refs[m].oid = NoOid
  BY <1>3, CreateNames, Zenon DEF JInv
<1>5. Guarded BY <1>3, <1>4, AbsentRow, Zenon DEF Guarded, JInv
<1>6. Resolutions \subseteq Names /\ Conflicts \subseteq Names BY Zenon DEF Names
<1> QED BY <1>1, <1>2, <1>3, <1>4, <1>5, <1>6, PlainStep, Zenon

\* branch: the insert.
LEMMA BranchInsertStep ==
  ASSUME JInv, NEW k \in Callers, BranchInsert(k)
  PROVE  JInv' /\ Moves
<1>1. PICK n, o : n = job[k].into /\ o = job[k].oid BY Zenon
<1>2. n \in Names /\ n \notin Resolutions /\ Made(o)
  <2>1. n \in Branched /\ Made(o) BY <1>1, Zenon DEF JInv, JobOK, BranchInsert, Busy
  <2> QED BY <2>1, IntegrationConstants, CallerNames, Zenon
<1>3. /\ UNCHANGED <<commits, conflicts, snaps, cap>> /\ job' = [job EXCEPT ![k] = Idle]
      /\ UNCHANGED vars \/ InsertRef(n, "commit", o)
  BY <1>1, Zenon DEF BranchInsert, Go, Kept, objects, NoCatalog
<1>4. o \in ObjectsOf("commit") /\ "commit" \in Kinds /\ Target("commit", o)
  BY <1>2, CommitObjects, Zenon DEF Made, Target
<1> QED BY <1>2, <1>3, <1>4, RefusedStep, InsertStep, Zenon

\* merge: the conflict ref.
LEMMA FileConflictStep ==
  ASSUME JInv, NEW k \in Callers, FileConflict(k)
  PROVE  JInv' /\ Moves
<1>1. PICK o : o = job[k].oid BY Zenon
<1>2. Clashed(o) BY <1>1, Zenon DEF JInv, JobOK, FileConflict, Busy
<1>3. PICK c \in Conflicts : InsertRef(c, "conflict", o) BY <1>1, Zenon DEF FileConflict
<1>4. UNCHANGED <<commits, conflicts, snaps, cap>> /\ job' = [job EXCEPT ![k] = Idle]
  BY Zenon DEF FileConflict, Go, Kept, objects
<1>5. c \in Names /\ c \notin Resolutions BY NameClasses, Zenon DEF Names
<1>6. o \in ObjectsOf("conflict") /\ "conflict" \in Kinds /\ Target("conflict", o)
  BY <1>2, CommitObjects, Zenon DEF Clashed, Target
<1> QED BY <1>3, <1>4, <1>5, <1>6, InsertStep, Zenon

\* import and merge: the swap.
LEMMA PublishStep ==
  ASSUME JInv, NEW k \in Callers, Publish(k)
  PROVE  JInv' /\ Moves
<1>1. PICK n, x, new, allow : /\ n = job[k].into /\ x = job[k].expected
                              /\ new = job[k].commit /\ allow = job[k].allow
  BY Zenon
<1>2. job[k].at = "publish" BY Zenon DEF Publish, Busy
<1>3. /\ n \in Imported \cup Intos /\ Made(new)
      /\ allow \in BOOLEAN /\ (allow = TRUE => Can(k, "merge", n))
      /\ x = NoOid \/ x \in ParentIds(new)
  BY <1>1, <1>2, Zenon DEF JInv, JobOK, Moving
<1>4. n \in Names /\ n \notin Resolutions
  BY <1>3, IntegrationConstants, CallerNames DEF Intos
<1>5. UNCHANGED <<commits, conflicts, snaps, cap>> /\ job' = [job EXCEPT ![k] = Idle]
  BY Zenon DEF Publish, Go, Kept, objects
<1>6. UNCHANGED vars \/ CasRef(n, "commit", x, new, allow)
  BY <1>1, Zenon DEF Publish, NoCatalog
<1>7. CASE CasRef(n, "commit", x, new, allow)
  <2>1. new \in ObjectsOf("commit") /\ "commit" \in Kinds /\ Target("commit", new)
    BY <1>3, CommitObjects, Zenon DEF Made, Target
  <2>2. Shape BY <1>4, <1>7, <2>1, CasRefShape, Zenon DEF JInv
  <2>3. OnTop(n, "commit", x, new) BY <1>3, Zenon DEF Exists, OnTop
  <2>4. Swapped(n, allow)
    BY <1>3, <1>4, <1>7, <2>1, <2>3, SwapNames, Zenon DEF JInv
  <2>5. DOMAIN job' = Callers /\ \A h \in Callers : JobOK(h)' BY <1>5, CallDone, Zenon
  <2>6. job'[k] = Idle BY <1>5, Zenon DEF JInv, Tables
  <2>7. Guarded BY <1>1, <1>2, <1>3, <2>4, <2>6, Zenon DEF Guarded, Swapped
  <2>8. seals' = seals /\ Conflicts \subseteq Names BY <1>7, Zenon DEF CasRef, Names
  <2> QED BY <1>5, <2>2, <2>4, <2>5, <2>7, <2>8, PlainStep, Zenon DEF Swapped
<1> QED BY <1>5, <1>6, <1>7, RefusedStep, Zenon

\* inbox_push: the create or fork.
LEMMA InboxStoreStep ==
  ASSUME JInv, NEW k \in Callers, InboxStore(k)
  PROVE  JInv' /\ Moves
<1>1. PICK n, o : n = job[k].into /\ o = job[k].oid BY Zenon
<1>2. n \in Inbox /\ Snapped(o) BY <1>1, Zenon DEF JInv, JobOK, InboxStore, Busy
<1>3. n \in Names /\ n \notin Resolutions BY <1>2, NameClasses, Zenon DEF Names
<1>4. UNCHANGED <<commits, conflicts, snaps, cap>> /\ job' = [job EXCEPT ![k] = Idle]
  BY Zenon DEF InboxStore, Go, Kept, objects
<1>5. CasRef(n, "snapshot", NoOid, o, FALSE) BY <1>1, Zenon DEF InboxStore
<1>6. o \in ObjectsOf("snapshot") /\ "snapshot" \in Kinds /\ Target("snapshot", o)
  BY <1>2, CommitObjects, Zenon DEF Snapped, Target
<1>7. Shape BY <1>3, <1>5, <1>6, CasRefShape, Zenon DEF JInv
<1>8. Swapped(n, FALSE)
  <2>1. OnTop(n, "snapshot", NoOid, o) BY Zenon DEF OnTop, Exists
  <2> QED BY <1>3, <1>5, <1>6, <2>1, SwapNames, Zenon DEF JInv
<1>9. DOMAIN job' = Callers /\ \A h \in Callers : JobOK(h)' BY <1>4, CallDone, Zenon
<1>10. Guarded BY <1>8, Zenon DEF Guarded, Swapped
<1>11. seals' = seals /\ Conflicts \subseteq Names BY <1>5, Zenon DEF CasRef, Names
<1> QED BY <1>4, <1>7, <1>8, <1>9, <1>10, <1>11, PlainStep, Zenon DEF Swapped

\* abandon_ref of a fork.
LEMMA AbandonStep ==
  ASSUME JInv, NEW n \in Forks \cup InboxForks, Abandon(n)
  PROVE  JInv' /\ Moves
<1>1. AbandonRef(n) /\ UNCHANGED <<commits, conflicts, snaps, cap, job>>
  BY Zenon DEF Abandon, objects
<1>2. n \in Names /\ n \notin Resolutions /\ n \notin Conflicts BY NameClasses, Zenon DEF Names
<1>3. Shape BY <1>1, <1>2, AbandonRefShape, Zenon DEF JInv
<1>4. /\ refs'[n] = NoRow /\ \A m \in Names : m # n => refs'[m] = refs[m]
      /\ ~refs[n].protected /\ seals' = seals
  BY <1>1, <1>2, Zenon DEF AbandonRef, JInv, IInv, TypeOK
<1>5. Guarded /\ \A m \in Names : NameStep(m) BY <1>4, Zenon DEF Guarded, NameStep
<1>6. Grows BY <1>1, Zenon DEF Grows, JInv, Tables
<1>7. \A h \in Callers : JobOK(h)' BY <1>1, <1>6, JobStays, Zenon DEF JInv
<1>8. Resolutions \subseteq Names /\ Conflicts \subseteq Names BY Zenon DEF Names
<1>9. DOMAIN job' = Callers BY <1>1, Zenon DEF JInv, Tables
<1> QED BY <1>1, <1>2, <1>3, <1>4, <1>5, <1>7, <1>8, <1>9, PlainStep, Zenon

\* What a ref holds was published.
LEMMA HeldPublished ==
  ASSUME IInv, NEW n \in Names, Exists(n)
  PROVE  Published(refs[n].oid)
<1>1. reflog[n] \in Seq(LogRow) /\ reflog[n] # <<>> /\ Last(reflog[n]).new = refs[n].oid
  BY Zenon DEF IInv, TypeOK, ReflogTerminal
<1>2. Len(reflog[n]) \in 1..Len(reflog[n]) /\ Last(reflog[n]) = reflog[n][Len(reflog[n])]
  BY <1>1, LastRow, Zenon
<1> QED BY <1>1, <1>2, Zenon DEF Published

\* seal: the tag.
LEMMA SealTagStep ==
  ASSUME JInv, NEW k \in Callers, SealTag(k)
  PROVE  JInv' /\ Moves
<1>1. PICK t, n, o, c : t = job[k].tag /\ n = job[k].ref /\ o = job[k].oid /\ c = job[k].commit
  BY Zenon
<1>2. n \in Names /\ t \in Tags /\ Snapped(o) /\ Made(c) /\ snaps[o].tag = t /\ snaps[o].commit = c
  BY <1>1, Zenon DEF JInv, JobOK, SealTag, Busy
<1>3. UNCHANGED <<commits, conflicts, snaps, cap>> /\ job' = [job EXCEPT ![k] = Idle]
  BY Zenon DEF SealTag, Go, Kept, objects
<1>4. UNCHANGED vars \/ CommitSeal(t, o, n, c) BY <1>1, Zenon DEF SealTag, NoCatalog
<1>5. CASE CommitSeal(t, o, n, c)
  <2> DEFINE row == [oid |-> o, kind |-> "snapshot", protected |-> TRUE, sealed |-> TRUE]
             seal == [snap |-> o, commit |-> c]
  <2>1. o \in Snapshots /\ c \in Commits BY <1>2, Zenon DEF Snapped, Made
  <2>2. Shape BY <1>2, <1>5, <2>1, CommitSealShape, Zenon DEF JInv
  <2>3. t \in Names /\ t \notin Resolutions /\ t \notin Conflicts BY <1>2, NameClasses, Zenon DEF Names
  <2>4. /\ refs'[t] = row /\ \A m \in Names : m # t => refs'[m] = refs[m]
        /\ seals'[t] = seal /\ \A u \in Tags : u # t => seals'[u] = seals[u]
        /\ refs[t].oid = NoOid /\ Exists(n) /\ refs[n].oid = c
    BY <1>2, <1>5, <2>3, Zenon DEF CommitSeal, JInv, IInv, TypeOK, Exists
  <2>5. row.oid = o /\ row.kind = "snapshot" /\ seal.snap = o /\ seal.commit = c BY Zenon
  <2>6. o # NoOid BY <2>1, OidTypes, Zenon DEF Oids
  <2>7. NameStep(t)
    <3>1. refs'[t].oid = o /\ refs'[t].kind = "snapshot" BY <2>4, <2>5, Zenon
    <3>2. Target("snapshot", o) BY <1>2, Zenon DEF Target
    <3> QED BY <2>4, <2>6, <3>1, <3>2, Zenon DEF NameStep
  <2>8. \A m \in Names : NameStep(m) BY <2>4, <2>7, Zenon DEF NameStep
  <2>9. ~refs[t].protected BY <2>3, <2>4, AbsentRow, Zenon DEF JInv
  <2>10. Guarded BY <2>4, <2>9, Zenon DEF Guarded
  <2>11. DOMAIN job' = Callers /\ \A h \in Callers : JobOK(h)' BY <1>3, CallDone, Zenon
  <2>12. IInv' BY <2>2, ShapeKeepsInv, Zenon DEF JInv
  <2>13. \A u \in Tags : Sealed(u)'
    <3> SUFFICES ASSUME NEW u \in Tags PROVE Sealed(u)' OBVIOUS
    <3>1. CASE u = t
      <4>1. Published(c) BY <1>2, <2>4, HeldPublished, Zenon DEF JInv
      <4>2. Published(c)' BY <2>2, <4>1, PublishedStays, Zenon DEF JInv
      <4>3. Snapped(o)' /\ snaps'[o].tag = t /\ snaps'[o].commit = c BY <1>2, <1>3, Zenon DEF Snapped
      <4> QED BY <2>4, <2>5, <3>1, <4>2, <4>3, Zenon DEF Sealed, Snapped, Published
    <3>2. CASE u # t BY <1>3, <2>2, <2>4, <3>2, SealRowStays, Zenon
    <3> QED BY <3>1, <3>2, Zenon
  <2>14. \A d \in Conflicts : Bound(d)'
    <3> SUFFICES ASSUME NEW d \in Conflicts PROVE Bound(d)' OBVIOUS
    <3>1. FiledUnder[d] \in Names /\ ResolutionOf[d] \in Resolutions /\ d \in Names
      BY IntegrationConstants, Zenon DEF Names
    <3>2. ResolutionOf[d] \in Names BY <3>1, Zenon DEF Names
    <3>3. NameStep(FiledUnder[d]) BY <2>8, <3>1, Zenon
    <3>4. refs'[ResolutionOf[d]] = refs[ResolutionOf[d]] /\ refs'[d] = refs[d]
      BY <2>3, <2>4, <3>1, <3>2, Zenon
    <3> QED BY <1>3, <2>2, <2>12, <3>3, <3>4, BoundStays, Zenon
  <2>15. Grows BY <1>3, Zenon DEF Grows, JInv, Tables
  <2> QED BY <1>3, <2>2, <2>8, <2>10, <2>11, <2>13, <2>14, <2>15, LedgerStep, Zenon DEF Moves
<1> QED BY <1>3, <1>4, <1>5, RefusedStep, Zenon

\* resolve: the three refs.
LEMMA ResolveBindStep ==
  ASSUME JInv, NEW k \in Callers, ResolveBind(k)
  PROVE  JInv' /\ Moves
<1>1. PICK n, x, new, c, o, allow, r :
        /\ n = job[k].into /\ x = job[k].expected /\ new = job[k].commit
        /\ c = job[k].ref /\ o = job[k].oid /\ allow = job[k].allow /\ r = ResolutionOf[c]
  BY Zenon
<1>2. job[k].at = "bind" BY Zenon DEF ResolveBind, Busy
<1>3. /\ n \in Intos /\ Made(new) /\ allow \in BOOLEAN /\ (allow = TRUE => Can(k, "merge", n))
      /\ x \in ParentIds(new) /\ c \in Conflicts /\ FiledUnder[c] = n
      /\ Clashed(o) /\ commits[new].parents = conflicts[o].causal
  BY <1>1, <1>2, Zenon DEF JInv, JobOK, Moving
<1>4. n \in Names /\ n \notin Resolutions
  BY <1>3, IntegrationConstants, CallerNames DEF Intos
<1>5. UNCHANGED <<commits, conflicts, snaps, cap>> /\ job' = [job EXCEPT ![k] = Idle]
  BY Zenon DEF ResolveBind, Go, Kept, objects
<1>6. UNCHANGED vars \/ PublishResolution(n, x, new, c, o, r, allow)
  BY <1>1, Zenon DEF ResolveBind, NoCatalog
<1>7. CASE PublishResolution(n, x, new, c, o, r, allow)
  <2>1. x \in Commits /\ new \in Commits /\ o \in ConflictObjs
    BY <1>3, Zenon DEF JInv, Lineage, Made, Clashed
  <2>2. r \in Resolutions /\ r \in Names /\ c \in Names /\ r # c /\ r # n
    <3>1. r \in Resolutions BY <1>1, <1>3, IntegrationConstants, Zenon
    <3>2. r # c /\ r # n BY <1>3, <1>4, <3>1, NameClasses, Zenon
    <3>3. r \in Names /\ c \in Names BY <1>3, <3>1, Zenon DEF Names
    <3> QED BY <3>1, <3>2, <3>3, Zenon
  <2>3. Shape BY <1>3, <1>4, <1>7, <2>1, <2>2, PublishResolutionShape, Zenon DEF JInv
  <2>4. /\ Movable(n, "commit", allow) /\ Movable(c, "conflict", FALSE) /\ refs[n].oid = x
        /\ ~Exists(r) /\ seals' = seals
        /\ refs' = [refs EXCEPT ![n] = Moved(@, new), ![r] = Row(new, "commit"), ![c] = NoRow]
        /\ reflog' = [reflog EXCEPT
                        ![n] = Append(@, Entry(x, new, "resolve")),
                        ![r] = Append(@, Entry(NoOid, new, "resolve")),
                        ![c] = Append(@, Entry(o, o, "abandon"))]
    BY <1>7, Zenon DEF PublishResolution
  <2>5. /\ refs[n] \in RefRow /\ refs[n].oid # NoOid /\ refs[n].kind = "commit"
        /\ refs[c].kind = "conflict"
    BY <1>4, <2>2, <2>4, CommitObjects, MovableRow, Zenon DEF JInv
  <2>6. n # c BY <2>5, Zenon
  <2>7. /\ refs'[n] = Moved(refs[n], new) /\ refs'[r] = Row(new, "commit") /\ refs'[c] = NoRow
        /\ \A m \in Names \ {n, r, c} : refs'[m] = refs[m]
        /\ reflog'[c] = Append(reflog[c], Entry(o, o, "abandon"))
    BY <1>4, <2>2, <2>4, <2>6, Zenon DEF JInv, IInv, TypeOK
  <2>8. new \in Oids /\ new # NoOid /\ o \in Oids BY <2>1, OidTypes, Zenon DEF Oids
  <2>9. /\ refs'[n].oid = new /\ refs'[n].kind = "commit"
        /\ refs'[r].oid = new /\ refs'[r].kind = "commit"
    <3>1. Moved(refs[n], new).oid = new /\ Moved(refs[n], new).kind = "commit"
      BY <2>5, <2>8, MovedRow, Zenon
    <3>2. Row(new, "commit").oid = new /\ Row(new, "commit").kind = "commit"
      BY <2>8, CommitObjects, RowType, Zenon
    <3> QED BY <2>7, <3>1, <3>2, Zenon
  <2>10. \A m \in Names : NameStep(m)
    <3>1. NameStep(n)
      <4>1. refs[n].oid \in ParentIds(refs'[n].oid) /\ Made(refs'[n].oid) BY <1>3, <2>4, <2>9, Zenon
      <4> QED BY <2>5, <2>9, <4>1, Zenon DEF NameStep
    <3>2. NameStep(r)
      <4>1. Target(refs'[r].kind, refs'[r].oid) BY <1>3, <2>9, Zenon DEF Target
      <4> QED BY <2>4, <2>8, <2>9, <4>1, Zenon DEF NameStep, Exists
    <3>3. NameStep(c) BY <2>7, Zenon DEF NameStep
    <3> QED BY <2>7, <3>1, <3>2, <3>3, Zenon DEF NameStep
  <2>11. Guarded
    <3>1. ~refs[r].protected BY <2>2, <2>4, AbsentRow, Zenon DEF JInv, Exists
    <3>2. ~refs[c].protected BY <2>4, Zenon DEF Movable
    <3>3. refs[n].protected => allow = TRUE BY <1>3, <2>4, Zenon DEF Movable
    <3>4. job'[k] = Idle BY <1>5, Zenon DEF JInv, Tables
    <3>5. \A m \in Names : refs[m].protected /\ refs'[m] # refs[m] => m = n /\ allow = TRUE
      BY <2>7, <3>1, <3>2, <3>3, Zenon
    <3> QED BY <1>1, <1>2, <1>3, <3>4, <3>5, Zenon DEF Guarded
  <2>12. IInv' BY <2>3, ShapeKeepsInv, Zenon DEF JInv
  <2>13. \A t \in Tags : Sealed(t)' BY <1>5, <2>3, <2>4, SealRowStays, Zenon
  <2>14. Bound(c)'
    <3>1. /\ Last(reflog'[c]).reason = "abandon" /\ Last(reflog'[c]).old = o /\ reflog'[c] # <<>>
      <4>1. reflog[c] \in Seq(LogRow) BY <2>2, Zenon DEF JInv, IInv, TypeOK
      <4>2. "abandon" \in Reasons BY Zenon DEF Reasons
      <4>3. /\ Entry(o, o, "abandon") \in LogRow /\ Entry(o, o, "abandon").old = o
            /\ Entry(o, o, "abandon").reason = "abandon"
        <5>1. o \in Oids \cup {NoOid} BY <2>8, Zenon
        <5> QED BY <2>8, <4>2, <5>1, EntryType
      <4>4. PICK e : e = Entry(o, o, "abandon") BY Zenon
      <4>5. Append(reflog[c], e) # <<>> /\ Last(Append(reflog[c], e)) = e
        BY <4>1, <4>3, <4>4, AppendRow, Zenon
      <4>6. reflog'[c] = Append(reflog[c], e) BY <2>7, <4>4, Zenon
      <4>7. Last(reflog'[c]) = e /\ reflog'[c] # <<>> BY <4>5, <4>6, Zenon
      <4>8. e.old = o /\ e.reason = "abandon" BY <4>3, <4>4, Zenon
      <4> QED BY <4>7, <4>8, Zenon
    <3>2. Retired(c)' /\ Exists(r)' BY <2>8, <2>9, <3>1, Zenon DEF Retired, Exists
    <3>3. Made(new)' /\ Clashed(o)' /\ commits'[new].parents = conflicts'[o].causal
      BY <1>3, <1>5, Zenon DEF Made, Stored, Clashed
    <3>4. reflog'[n] # <<>> BY <1>4, <2>8, <2>9, <2>12, Zenon DEF IInv, ReflogTerminal, Exists
    <3>5. new \in AncestorMap(Parents', new)
      BY <3>3, AncestorSelf, Zenon DEF Parents, Made
    <3> QED BY <1>1, <1>3, <2>9, <3>1, <3>2, <3>3, <3>4, <3>5, Zenon
          DEF Bound, Ancestors, Made, Stored, Clashed
  <2>15. \A d \in Conflicts : d # c => Bound(d)'
    <3> SUFFICES ASSUME NEW d \in Conflicts, d # c PROVE Bound(d)' OBVIOUS
    <3>1. /\ FiledUnder[d] \in Names /\ ResolutionOf[d] \in Resolutions /\ d \in Names
          /\ ResolutionOf[d] # r
      BY <1>1, <1>3, IntegrationConstants, Zenon DEF Names
    <3>2. ResolutionOf[d] \in Names \ {n, r, c} /\ d # r
      <4>1. ResolutionOf[d] \in Names BY <3>1, Zenon DEF Names
      <4>2. ResolutionOf[d] # n /\ ResolutionOf[d] # c /\ d # r
        BY <1>3, <1>4, <2>2, <3>1, NameClasses, Zenon
      <4> QED BY <3>1, <4>1, <4>2, Zenon
    <3>3. refs'[ResolutionOf[d]] = refs[ResolutionOf[d]] BY <2>7, <3>2, Zenon
    <3>4. refs'[d].oid = NoOid => refs[d].oid = NoOid BY <2>7, <2>8, <2>9, <3>1, <3>2, Zenon
    <3>5. NameStep(FiledUnder[d]) BY <2>10, <3>1, Zenon
    <3> QED BY <1>5, <2>3, <2>12, <3>3, <3>4, <3>5, BoundStays, Zenon
  <2>16. DOMAIN job' = Callers /\ \A h \in Callers : JobOK(h)' BY <1>5, CallDone, Zenon
  <2>17. Grows BY <1>5, Zenon DEF Grows, JInv, Tables
  <2>18. \A d \in Conflicts : Bound(d)' BY <2>14, <2>15, Zenon
  <2> QED BY <1>5, <2>3, <2>10, <2>11, <2>13, <2>16, <2>17, <2>18, LedgerStep, Zenon DEF Moves
<1> QED BY <1>5, <1>6, <1>7, RefusedStep, Zenon

-----------------------------------------------------------------------------
(* Reading refs and storing objects *)

\* A step that leaves the catalog alone and adds objects on top of stored ones.
LEMMA QuietStep ==
  ASSUME JInv, Grows, Lineage', UNCHANGED <<vars, cap>>, NEW k \in Callers, NEW j,
         job' = [job EXCEPT ![k] = j], JobOK(k)',
         \A c \in Commits : ~Stored(c) /\ Stored(c)' /\ commits'[c].msg = "merge" => MergedFrom(c)'
  PROVE  JInv' /\ Moves
<1>1. DOMAIN job' = Callers /\ \A h \in Callers : h # k => job'[h] = job[h]
  BY Zenon DEF JInv, Tables
<1>2. \A h \in Callers : JobOK(h)' BY <1>1, JobStays, Zenon DEF JInv
<1>3. JInv'
  <2>1. Tables' BY <1>1, Zenon DEF JInv, Tables, Grows
  <2> QED BY <1>2, <2>1, ObjectStep, Zenon
<1>4. Shape BY StutterShape, Zenon DEF JInv
<1>5. refs' = refs BY Zenon DEF vars
<1>6. Guarded /\ \A n \in Names : NameStep(n) BY <1>5, Zenon DEF Guarded, NameStep
<1> QED BY <1>3, <1>4, <1>6, Zenon DEF Moves

\* A step that only reads.
LEMMA ReadStep ==
  ASSUME JInv, UNCHANGED <<commits, conflicts, snaps>>, UNCHANGED <<vars, cap>>, NEW k \in Callers,
         NEW j, job' = [job EXCEPT ![k] = j], JobOK(k)'
  PROVE  JInv' /\ Moves
<1>1. Grows BY Zenon DEF Grows, JInv, Tables
<1>2. Lineage' BY Zenon DEF JInv, Lineage, Made, Stored, ParentIds
<1>3. \A c \in Commits : ~(~Stored(c) /\ Stored(c)') BY Zenon DEF Stored
<1> QED BY <1>1, <1>2, <1>3, QuietStep, Zenon

\* peel_commit returns a stored commit.
LEMMA PeelMade ==
  ASSUME JInv, NEW n \in Names, Peelable(n)
  PROVE  Made(PeelCommit(n))
<1>1. PICK x, y : x = refs[n].kind /\ y = refs[n].oid BY Zenon
<1>2. Target(x, y) /\ x \in {"commit", "snapshot"} BY <1>1, Zenon DEF JInv, Peelable
<1>3. CASE x = "commit" BY <1>1, <1>2, <1>3, Zenon DEF Target, PeelCommit
<1>4. CASE x = "snapshot"
  <2>1. Snapped(y) BY <1>2, <1>4, Zenon DEF Target
  <2>2. Made(snaps[y].commit) BY <2>1, Zenon DEF JInv, Lineage, Snapped
  <2> QED BY <1>1, <1>4, <2>2, Zenon DEF PeelCommit
<1> QED BY <1>2, <1>3, <1>4, Zenon

\* A ref of a commit is a stored commit.
LEMMA HeadMade ==
  ASSUME JInv, NEW n \in Names, Exists(n), refs[n].kind = "commit"
  PROVE  Made(refs[n].oid) /\ refs[n].protected \in BOOLEAN
<1>1. Made(refs[n].oid)
  <2>1. Target("commit", refs[n].oid) BY Zenon DEF JInv
  <2> QED BY <2>1, Zenon DEF Target
<1>2. refs[n] \in RefRow BY RowPresent, Zenon DEF JInv, IInv, TypeOK, Exists
<1> QED BY <1>1, <1>2, Zenon DEF RefRow

\* branch: the read.
LEMMA BranchStep ==
  ASSUME JInv, NEW k \in Callers, NEW from \in Names, NEW n \in Branched, Branch(k, from, n)
  PROVE  JInv' /\ Moves
<1>1. PICK o : o = PeelCommit(from) BY Zenon
<1>2. Made(o) BY <1>1, PeelMade, Zenon DEF Branch
<1> DEFINE j == [at |-> "branch", into |-> n, oid |-> o]
<1>3. /\ job' = [job EXCEPT ![k] = j] /\ UNCHANGED <<commits, conflicts, snaps>>
      /\ UNCHANGED <<vars, cap>>
  BY <1>1, Zenon DEF Branch, Begin, NoCatalog, Kept, objects
<1>4. j.at = "branch" /\ j.into = n /\ j.oid = o BY Zenon
<1> HIDE DEF j
<1>5. job'[k] = j BY <1>3, Zenon DEF JInv, Tables
<1>6. JobOK(k)' BY <1>2, <1>3, <1>4, <1>5, Zenon DEF JobOK, Made, Stored
<1> QED BY <1>3, <1>6, ReadStep, Zenon

\* import: the read.
LEMMA ImportStep ==
  ASSUME JInv, NEW k \in Callers, NEW n \in Imported, Import(k, n)
  PROVE  JInv' /\ Moves
<1>0. n \in Names BY IntegrationConstants, Zenon
<1>1. PICK row : row = refs[n] BY Zenon
<1>2. row.oid = NoOid \/ Made(row.oid) BY <1>0, <1>1, HeadMade, Zenon DEF Import, Exists
<1> DEFINE j == [at |-> "import", into |-> n, row |-> row]
<1>3. /\ job' = [job EXCEPT ![k] = j] /\ UNCHANGED <<commits, conflicts, snaps>>
      /\ UNCHANGED <<vars, cap>>
  BY <1>1, Zenon DEF Import, Begin, NoCatalog, Kept, objects
<1>4. j.at = "import" /\ j.into = n /\ j.row = row BY Zenon
<1> HIDE DEF j
<1>5. job'[k] = j BY <1>3, Zenon DEF JInv, Tables
<1>6. JobOK(k)' BY <1>2, <1>3, <1>4, <1>5, Zenon DEF JobOK, Made, Stored
<1> QED BY <1>3, <1>6, ReadStep, Zenon

\* merge and resolve: the read of the row to move.
LEMMA RowReadHere ==
  ASSUME JInv, NEW k \in Callers, NEW n \in Names, Exists(n), refs[n].kind = "commit",
         MayMove(k, refs[n], n)
  PROVE  RowRead(k, n, refs[n])
  BY HeadMade, Zenon DEF RowRead, MayMove

LEMMA MergeStep ==
  ASSUME JInv, NEW k \in Callers, NEW n \in Intos, NEW from \in Names, Merge(k, n, from)
  PROVE  JInv' /\ Moves
<1>0. n \in Names BY IntegrationConstants DEF Intos
<1>1. PICK row : row = refs[n] BY Zenon
<1>2. RowRead(k, n, row) BY <1>0, <1>1, RowReadHere, Zenon DEF Merge
<1> DEFINE j == [at |-> "merge", into |-> n, from |-> from, row |-> row]
<1>3. /\ job' = [job EXCEPT ![k] = j] /\ UNCHANGED <<commits, conflicts, snaps>>
      /\ UNCHANGED <<vars, cap>>
  BY <1>1, Zenon DEF Merge, Begin, NoCatalog, Kept, objects
<1>4. j.at = "merge" /\ j.into = n /\ j.from = from /\ j.row = row BY Zenon
<1> HIDE DEF j
<1>5. job'[k] = j BY <1>3, Zenon DEF JInv, Tables
<1>6. JobOK(k)' BY <1>2, <1>3, <1>4, <1>5, Zenon DEF JobOK, RowRead, Made, Stored, Can
<1> QED BY <1>3, <1>6, ReadStep, Zenon

LEMMA ResolveCallStep ==
  ASSUME JInv, NEW k \in Callers, NEW o \in ConflictObjs, NEW n \in Intos, NEW choice,
         ResolveCall(k, o, n, choice)
  PROVE  JInv' /\ Moves
<1>0. n \in Names BY IntegrationConstants DEF Intos
<1>1. PICK row : row = refs[n] BY Zenon
<1>2. RowRead(k, n, row) /\ Clashed(o)
  BY <1>0, <1>1, RowReadHere, Zenon DEF ResolveCall, Clashed
<1> DEFINE j == [at |-> "resolve", into |-> n, row |-> row, oid |-> o, choice |-> choice]
<1>3. /\ job' = [job EXCEPT ![k] = j] /\ UNCHANGED <<commits, conflicts, snaps>>
      /\ UNCHANGED <<vars, cap>>
  BY <1>1, Zenon DEF ResolveCall, Begin, NoCatalog, Kept, objects
<1>4. j.at = "resolve" /\ j.into = n /\ j.row = row /\ j.oid = o BY Zenon
<1> HIDE DEF j
<1>5. job'[k] = j BY <1>3, Zenon DEF JInv, Tables
<1>6. JobOK(k)' BY <1>2, <1>3, <1>4, <1>5, Zenon DEF JobOK, RowRead, Made, Stored, Can, Clashed
<1> QED BY <1>3, <1>6, ReadStep, Zenon

\* inbox_push: the read.
LEMMA InboxPushStep ==
  ASSUME JInv, NEW k \in Callers, NEW from \in Names, NEW n \in Inbox, InboxPush(k, from, n)
  PROVE  JInv' /\ Moves
<1>1. PICK o : o = refs[from].oid BY Zenon
<1>2. Snapped(o)
  <2>1. Target("snapshot", o) BY <1>1, Zenon DEF JInv, InboxPush
  <2> QED BY <2>1, Zenon DEF Target
<1> DEFINE j == [at |-> "push", into |-> n, oid |-> o]
<1>3. /\ job' = [job EXCEPT ![k] = j] /\ UNCHANGED <<commits, conflicts, snaps>>
      /\ UNCHANGED <<vars, cap>>
  BY <1>1, Zenon DEF InboxPush, Begin, NoCatalog, Kept, objects
<1>4. j.at = "push" /\ j.into = n /\ j.oid = o BY Zenon
<1> HIDE DEF j
<1>5. job'[k] = j BY <1>3, Zenon DEF JInv, Tables
<1>6. JobOK(k)' BY <1>2, <1>3, <1>4, <1>5, Zenon DEF JobOK, Snapped
<1> QED BY <1>3, <1>6, ReadStep, Zenon

\* seal: the snapshot.
LEMMA SealStep ==
  ASSUME JInv, NEW k \in Callers, NEW n \in Names, NEW t \in Tags, Seal(k, n, t)
  PROVE  JInv' /\ Moves
<1>1. PICK c, tr, p : c = refs[n].oid /\ tr = commits[c].tree /\ p = ProvenanceScope(Objects, c, tr, {}).ids
  BY Zenon
<1> DEFINE body == [tag |-> t, commit |-> c, tree |-> tr, prov |-> p]
<1>2. PICK o \in Snapshots :
        /\ Fresh(o, snaps) /\ snaps' = [snaps EXCEPT ![o] = body]
        /\ job' = [job EXCEPT ![k] = [at |-> "seal", ref |-> n, tag |-> t, oid |-> o, commit |-> c]]
  BY <1>1, Zenon DEF Seal, Begin
<1>3. UNCHANGED <<commits, conflicts>> /\ UNCHANGED <<vars, cap>> BY Zenon DEF Seal, NoCatalog
<1>4. Made(c) BY <1>1, HeadMade, Zenon DEF Seal
<1>5. body # NoObject /\ body.tag = t /\ body.commit = c /\ body.tree = tr BY SnapMade
<1> HIDE DEF body
<1>6. snaps[o] = NoObject BY <1>2, Zenon DEF Fresh
<1>7. Grows /\ Lineage' /\ Snapped(o)' /\ snaps'[o] = body
  <2>1. Made(body.commit) /\ body.tree = commits[body.commit].tree BY <1>1, <1>4, <1>5, Zenon
  <2> QED BY <1>2, <1>3, <1>5, <1>6, <2>1, AddSnapshot, Zenon DEF JInv
<1> DEFINE j == [at |-> "seal", ref |-> n, tag |-> t, oid |-> o, commit |-> c]
<1>8. j.at = "seal" /\ j.ref = n /\ j.tag = t /\ j.oid = o /\ j.commit = c BY Zenon
<1>9. job' = [job EXCEPT ![k] = j] BY <1>2, Zenon
<1> HIDE DEF j
<1>10. job'[k] = j BY <1>9, Zenon DEF JInv, Tables
<1>11. Made(c)' /\ snaps'[o].tag = t /\ snaps'[o].commit = c
  BY <1>4, <1>5, <1>7, StoredStays, Zenon
<1>12. JobOK(k)' BY <1>7, <1>8, <1>10, <1>11, Zenon DEF JobOK, Snapped, Made, Stored
<1>13. \A d \in Commits : ~(~Stored(d) /\ Stored(d)') BY <1>3, Zenon DEF Stored
<1> QED BY <1>3, <1>7, <1>9, <1>12, <1>13, QuietStep, Zenon

\* import: the commit on the tip that was read.
LEMMA ImportTreeStep ==
  ASSUME JInv, NEW k \in Callers, NEW tree, ImportTree(k, tree)
  PROVE  JInv' /\ Moves
<1>1. PICK n, x : n = job[k].into /\ x = job[k].row.oid BY Zenon
<1>2. n \in Imported /\ (x = NoOid \/ Made(x))
  BY <1>1, Zenon DEF JInv, JobOK, ImportTree, Busy
<1>3. PICK ps : ps = IF x = NoOid THEN <<>> ELSE <<x>> BY Zenon
<1>4. PICK c \in Commits :
        /\ Fresh(c, commits) /\ commits' = [commits EXCEPT ![c] = Commit(tree, ps, "import")]
        /\ job' = [job EXCEPT ![k] = [at |-> "publish", into |-> n, expected |-> x,
                                      commit |-> c, allow |-> FALSE]]
  BY <1>1, <1>3, Zenon DEF ImportTree, Go
<1>5. UNCHANGED <<conflicts, snaps>> /\ UNCHANGED <<vars, cap>> BY Zenon DEF ImportTree, NoCatalog
<1>6. {ps[i] : i \in 1..Len(ps)} = IF x = NoOid THEN {} ELSE {x}
  BY <1>3, EmptyMembers, SingleMembers
<1>7. AllMade(ps) BY <1>2, <1>6, Zenon DEF AllMade
<1>8. /\ Grows /\ Lineage' /\ Made(c)' /\ commits'[c] = Commit(tree, ps, "import")
      /\ \A d \in Commits : d # c => commits'[d] = commits[d]
  <2>1. PutCommit(c, tree, ps, "import") BY <1>4, <1>5, Zenon DEF PutCommit
  <2> QED BY <1>7, <2>1, AddCommit, Zenon DEF JInv
<1> DEFINE j == [at |-> "publish", into |-> n, expected |-> x, commit |-> c, allow |-> FALSE]
<1>9. j.at = "publish" /\ j.into = n /\ j.expected = x /\ j.commit = c /\ j.allow = FALSE BY Zenon
<1>10. job' = [job EXCEPT ![k] = j] BY <1>4, Zenon
<1> HIDE DEF j
<1>11. job'[k] = j BY <1>10, Zenon DEF JInv, Tables
<1>12. x = NoOid \/ x \in ParentIds(c)'
  <2>1. commits'[c].parents = ps BY <1>8, CommitMade
  <2> QED BY <1>6, <2>1 DEF ParentIds
<1>13. JobOK(k)'
  <2>1. Moving(k, n, FALSE)' BY Zenon DEF Moving
  <2> QED BY <1>2, <1>8, <1>9, <1>11, <1>12, <2>1, Zenon DEF JobOK, Made, Stored, ParentIds, Moving
<1>14. \A d \in Commits : ~Stored(d) /\ Stored(d)' /\ commits'[d].msg = "merge" => MergedFrom(d)'
  <2>1. commits'[c].msg = "import" BY <1>8, CommitMade
  <2> QED BY <1>8, <2>1, Zenon DEF Stored
<1> QED BY <1>5, <1>8, <1>10, <1>13, <1>14, QuietStep, Zenon

\* merge: the conflict object, new or already stored.
LEMMA PutConflictStep ==
  ASSUME JInv, NEW k \in Callers, NEW into, NEW body, NEW a, NEW b, Made(a), Made(b),
         body # NoObject, body.causal = <<a, b>>, PutConflict(k, into, body), UNCHANGED <<vars, cap>>
  PROVE  JInv' /\ Moves
<1>1. PICK o \in ConflictObjs :
        /\ conflicts[o] \in {NoObject, body} /\ conflicts' = [conflicts EXCEPT ![o] = body]
        /\ job' = [job EXCEPT ![k] = [at |-> "file", into |-> into, oid |-> o]]
  BY Zenon DEF PutConflict, Fresh, Go
<1>2. UNCHANGED <<commits, snaps>> BY Zenon DEF PutConflict
<1>3. Grows /\ Lineage' /\ Clashed(o)' BY <1>1, <1>2, AddConflict, Zenon DEF JInv
<1> DEFINE j == [at |-> "file", into |-> into, oid |-> o]
<1>4. j.at = "file" /\ j.oid = o BY Zenon
<1>5. job' = [job EXCEPT ![k] = j] BY <1>1, Zenon
<1> HIDE DEF j
<1>6. job'[k] = j BY <1>5, Zenon DEF JInv, Tables
<1>7. JobOK(k)' BY <1>3, <1>4, <1>6, Zenon DEF JobOK, Clashed
<1>8. \A d \in Commits : ~(~Stored(d) /\ Stored(d)') BY <1>2, Zenon DEF Stored
<1> QED BY <1>3, <1>5, <1>7, <1>8, QuietStep, Zenon

\* m is the merge of a and b, and it has no conflict.
IsCleanMerge(m, a, b) ==
  \E bases, base :
    /\ bases = MergeBases(Parents, a, b) /\ ~(Cardinality(bases) > 1)
    /\ base = IF bases = {} THEN Absent ELSE commits[CHOOSE d \in bases : TRUE].tree
    /\ m = Merged(base, commits[a].tree, commits[b].tree) /\ m.paths = {}

\* The clean merge of a and b is stored as c.
LEMMA CleanMerge ==
  ASSUME JInv, NEW a, NEW b, Made(a), Made(b), NEW m, IsCleanMerge(m, a, b),
         NEW c, PutCommit(c, m.tree, <<a, b>>, "merge")
  PROVE  /\ Grows /\ Lineage' /\ Made(c)' /\ MergedFrom(c)' /\ ParentIds(c)' = {a, b}
         /\ \A d \in Commits : d # c => commits'[d] = commits[d]
<1>0. PICK bases, base :
        /\ bases = MergeBases(Parents, a, b) /\ ~(Cardinality(bases) > 1)
        /\ base = IF bases = {} THEN Absent ELSE commits[CHOOSE d \in bases : TRUE].tree
        /\ m = Merged(base, commits[a].tree, commits[b].tree) /\ m.paths = {}
  BY Zenon DEF IsCleanMerge
<1>1. AllMade(<<a, b>>) BY PairMembers DEF AllMade
<1>2. /\ Grows /\ Lineage' /\ Made(c)' /\ commits'[c] = Commit(m.tree, <<a, b>>, "merge")
      /\ \A d \in Commits : d # c => commits'[d] = commits[d]
  BY <1>1, AddCommit, Zenon DEF JInv
<1>3. commits'[c].parents = <<a, b>> /\ commits'[c].tree = m.tree BY <1>2, CommitMade
<1>4. ParentIds(c)' = {a, b} BY <1>3, PairMembers DEF ParentIds
<1>5. commits'[a] = commits[a] /\ commits'[b] = commits[b] /\ Made(a)' /\ Made(b)'
  BY <1>2, StoredStays, Zenon
<1>6. MergeBases(Parents', a, b) = bases BY <1>0, <1>2, HistoryStays, Zenon DEF JInv
<1>7. \A d \in bases : commits'[d] = commits[d]
  <2>1. bases \subseteq AncestorMap(Parents, a) BY <1>0, ParentsAt, AncestorSelf, Zenon DEF MergeBases, Made
  <2>2. \A d \in bases : Made(d) BY <2>1, ParentsAt, AncestorSelf, Zenon DEF Made
  <2> QED BY <1>2, <2>2, StoredStays, Zenon
<1>8. bases # {} => (CHOOSE d \in bases : TRUE) \in bases BY Zenon
<1>9. commits'[c].parents[1] = a /\ commits'[c].parents[2] = b BY <1>3, PairMembers
<1>10. MergedFrom(c)'
  BY <1>0, <1>3, <1>5, <1>6, <1>7, <1>8, <1>9, Zenon DEF MergedFrom, Made, Stored
<1> QED BY <1>2, <1>4, <1>10, Zenon

\* merge: everything after the second read.
LEMMA MergePeelStep ==
  ASSUME JInv, NEW k \in Callers, MergePeel(k)
  PROVE  JInv' /\ Moves
<1>1. PICK n, a, allow, b : /\ n = job[k].into /\ a = job[k].row.oid
                            /\ allow = job[k].row.protected /\ b = PeelCommit(job[k].from)
  BY Zenon
<1>2. /\ n \in Intos /\ job[k].from \in Names /\ Made(a)
      /\ allow \in BOOLEAN /\ (allow = TRUE => Can(k, "merge", n))
  BY <1>1, Zenon DEF JInv, JobOK, MergePeel, Busy, RowRead
<1>3. Made(b)
  <2>1. PICK from : from = job[k].from BY Zenon
  <2>2. from \in Names /\ Peelable(from) BY <1>2, <2>1, Zenon DEF MergePeel
  <2>3. Made(PeelCommit(from)) BY <2>2, PeelMade, Zenon
  <2> QED BY <1>1, <2>1, <2>3, Zenon
<1>4. MergeOnto(k, n, a, allow, b) /\ UNCHANGED <<vars, cap>>
  BY <1>1, Zenon DEF MergePeel, NoCatalog
<1>5. PICK bases, base, m, ta, tb :
        /\ bases = MergeBases(Parents, a, b)
        /\ base = IF bases = {} THEN Absent ELSE commits[CHOOSE c \in bases : TRUE].tree
        /\ ta = commits[a].tree /\ tb = commits[b].tree /\ m = Merged(base, ta, tb)
  BY Zenon
<1> DEFINE body(g, paths) == [bases |-> g, ours |-> ta, theirs |-> tb, paths |-> paths,
                              causal |-> <<a, b>>]
<1>6. ASSUME NEW g, NEW paths, PutConflict(k, n, body(g, paths)) PROVE JInv' /\ Moves
  <2>1. PICK d : d = body(g, paths) BY Zenon
  <2>2. d # NoObject /\ d.causal = <<a, b>> BY <2>1, ConflictMade
  <2>3. PutConflict(k, n, d) BY <1>6, <2>1, Zenon
  <2> QED BY <1>2, <1>3, <1>4, <2>2, <2>3, PutConflictStep, Zenon
<1>7. ASSUME ~(Cardinality(bases) > 1), m.paths = {}, NEW c \in Commits, Fresh(c, commits),
             commits' = [commits EXCEPT ![c] = Commit(m.tree, <<a, b>>, "merge")],
             Go(k, [at |-> "publish", into |-> n, expected |-> a, commit |-> c, allow |-> allow]),
             UNCHANGED <<conflicts, snaps>>
      PROVE  JInv' /\ Moves
  <2>1. PutCommit(c, m.tree, <<a, b>>, "merge") BY <1>7, Zenon DEF PutCommit
  <2>2. /\ Grows /\ Lineage' /\ Made(c)' /\ MergedFrom(c)' /\ ParentIds(c)' = {a, b}
        /\ \A d \in Commits : d # c => commits'[d] = commits[d]
    <3>1. IsCleanMerge(m, a, b) BY <1>5, <1>7, Zenon DEF IsCleanMerge
    <3>2. Made(a) /\ Made(b) BY <1>2, <1>3, Zenon
    <3> QED BY ONLY JInv, <2>1, <3>1, <3>2, CleanMerge
  <2> DEFINE j == [at |-> "publish", into |-> n, expected |-> a, commit |-> c, allow |-> allow]
  <2>3. j.at = "publish" /\ j.into = n /\ j.expected = a /\ j.commit = c /\ j.allow = allow BY Zenon
  <2>4. job' = [job EXCEPT ![k] = j] BY <1>7, Zenon DEF Go
  <2> HIDE DEF j
  <2>5. job'[k] = j BY <2>4, Zenon DEF JInv, Tables
  <2>6. JobOK(k)'
    <3>1. Moving(k, n, allow)' BY <1>2, <1>4, Zenon DEF Moving, Can
    <3>2. a \in ParentIds(c)' BY <2>2, Zenon
    <3> QED BY <1>2, <2>2, <2>3, <2>5, <3>1, <3>2, Zenon DEF JobOK, Made, Stored, ParentIds, Moving, Can
  <2>7. \A d \in Commits : ~Stored(d) /\ Stored(d)' /\ commits'[d].msg = "merge" => MergedFrom(d)'
    BY <2>2, Zenon DEF Stored
  <2> QED BY <1>4, <2>2, <2>4, <2>6, <2>7, QuietStep, Zenon
<1> HIDE DEF body
<1>8. \/ \E g, paths : PutConflict(k, n, body(g, paths))
      \/ /\ ~(Cardinality(bases) > 1) /\ m.paths = {}
         /\ \E c \in Commits :
              /\ Fresh(c, commits)
              /\ commits' = [commits EXCEPT ![c] = Commit(m.tree, <<a, b>>, "merge")]
              /\ Go(k, [at |-> "publish", into |-> n, expected |-> a, commit |-> c, allow |-> allow])
         /\ UNCHANGED <<conflicts, snaps>>
  BY <1>4, <1>5, Zenon DEF MergeOnto, body
<1> QED BY <1>6, <1>7, <1>8, Zenon

\* merge: the source is no commit any more.
LEMMA MergePeelFailsStep ==
  ASSUME JInv, NEW k \in Callers, MergePeelFails(k)
  PROVE  JInv' /\ Moves
  BY RefusedStep, Zenon DEF MergePeelFails, Go, NoCatalog, Kept, objects

\* resolve: the commit on the causal pair of the conflict.
LEMMA ResolveFindStep ==
  ASSUME JInv, NEW k \in Callers, ResolveFind(k)
  PROVE  JInv' /\ Moves
<1>1. PICK n, x, o, allow, ps : /\ n = job[k].into /\ x = job[k].row.oid /\ o = job[k].oid
                                /\ allow = job[k].row.protected /\ ps = conflicts[o].causal
  BY Zenon
<1>2. /\ n \in Intos /\ Made(x) /\ Clashed(o)
      /\ allow \in BOOLEAN /\ (allow = TRUE => Can(k, "merge", n))
  BY <1>1, Zenon DEF JInv, JobOK, ResolveFind, Busy, RowRead
<1>3. UNCHANGED vars BY Zenon DEF ResolveFind, NoCatalog
<1>4. CASE Go(k, Idle) /\ Kept BY <1>3, <1>4, RefusedStep, Zenon DEF Go, Kept, objects
<1>5. ASSUME NEW t, NEW c \in Conflicts, Filed(c, o, n), NEW d \in Commits, Fresh(d, commits),
             commits' = [commits EXCEPT ![d] = Commit(t, ps, "resolve")],
             job' = [job EXCEPT ![k] = [at |-> "bind", into |-> n, expected |-> x, commit |-> d,
                                        ref |-> c, oid |-> o, allow |-> allow]],
             UNCHANGED <<conflicts, snaps, cap>>, \E i \in 1..2 : ps[i] = x
      PROVE  JInv' /\ Moves
  <2>1. PICK a, b : Made(a) /\ Made(b) /\ ps = <<a, b>> BY <1>1, <1>2, Zenon DEF JInv, Lineage, Clashed
  <2>2. AllMade(ps) BY <2>1, PairMembers DEF AllMade
  <2>3. /\ Grows /\ Lineage' /\ Made(d)' /\ commits'[d] = Commit(t, ps, "resolve")
        /\ \A e \in Commits : e # d => commits'[e] = commits[e]
    <3>1. PutCommit(d, t, ps, "resolve") BY <1>5, Zenon DEF PutCommit
    <3> QED BY <2>2, <3>1, AddCommit, Zenon DEF JInv
  <2>4. commits'[d].parents = ps /\ commits'[d].msg = "resolve" BY <2>3, CommitMade
  <2>5. x \in ParentIds(d)'
    <3>1. x \in {a, b} BY <1>5, <2>1, PairMembers
    <3> QED BY <2>1, <2>4, <3>1, PairMembers DEF ParentIds
  <2> DEFINE j == [at |-> "bind", into |-> n, expected |-> x, commit |-> d,
                   ref |-> c, oid |-> o, allow |-> allow]
  <2>6. /\ j.at = "bind" /\ j.into = n /\ j.expected = x /\ j.commit = d
        /\ j.ref = c /\ j.oid = o /\ j.allow = allow
    BY Zenon
  <2>7. job' = [job EXCEPT ![k] = j] BY <1>5, Zenon
  <2> HIDE DEF j
  <2>8. job'[k] = j BY <2>7, Zenon DEF JInv, Tables
  <2>9. JobOK(k)'
    <3>1. Moving(k, n, allow)' BY <1>2, <1>5, Zenon DEF Moving, Can
    <3>2. Clashed(o)' /\ commits'[d].parents = conflicts'[o].causal
      BY <1>1, <1>2, <1>5, <2>4, Zenon DEF Clashed
    <3>3. FiledUnder[c] = n BY <1>5, Zenon DEF Filed
    <3> QED BY <1>2, <2>3, <2>5, <2>6, <2>8, <3>1, <3>2, <3>3, Zenon
          DEF JobOK, Made, Stored, ParentIds, Moving, Can, Clashed
  <2>10. \A e \in Commits : ~Stored(e) /\ Stored(e)' /\ commits'[e].msg = "merge" => MergedFrom(e)'
    BY <2>3, <2>4, Zenon DEF Stored
  <2>11. UNCHANGED <<vars, cap>> BY <1>3, <1>5, Zenon
  <2> QED BY <2>3, <2>7, <2>9, <2>10, <2>11, QuietStep, Zenon
<1>6. \/ Go(k, Idle) /\ Kept
      \/ \E t : \E c \in Conflicts, d \in Commits :
           /\ Filed(c, o, n) /\ Fresh(d, commits)
           /\ commits' = [commits EXCEPT ![d] = Commit(t, ps, "resolve")]
           /\ job' = [job EXCEPT ![k] = [at |-> "bind", into |-> n, expected |-> x, commit |-> d,
                                         ref |-> c, oid |-> o, allow |-> allow]]
           /\ UNCHANGED <<conflicts, snaps, cap>> /\ \E i \in 1..2 : ps[i] = x
  BY <1>1, Zenon DEF ResolveFind, Go
<1> QED BY <1>4, <1>5, <1>6, Zenon

-----------------------------------------------------------------------------
(* Attenuation *)

\* The caveats of a capability stay when more are added.
LEMMA MoreCaveats ==
  ASSUME NEW c, c.caveats \in Seq(Caveat), NEW extra \in Seq(Caveat), NEW kind
  PROVE  OfKind(c, kind) \subseteq OfKind(AttenuateHolder(c, extra), kind)
<1> DEFINE d == AttenuateHolder(c, extra)
<1>1. d.caveats = c.caveats \o extra BY Zenon DEF AttenuateHolder
<1>2. \A i \in 1..Len(c.caveats) : i \in 1..Len(d.caveats) /\ d.caveats[i] = c.caveats[i]
  BY <1>1
<1> QED BY <1>2, Zenon DEF OfKind

\* I13: what the longer list allows, the shorter one allowed, if that allowed
\* anything at all.
LEMMA AttenuationNarrows ==
  ASSUME NEW c, c.caveats \in Seq(Caveat), NEW extra \in Seq(Caveat), OpsOf(c) # {},
         NEW op, NEW n, NEW now
  PROVE  LET d == AttenuateHolder(c, extra) IN
         /\ Allows(d, op, n, now) => Allows(c, op, n, now)
         /\ HasUnrestrictedRefScope(d) => HasUnrestrictedRefScope(c)
<1> DEFINE d == AttenuateHolder(c, extra)
<1>1. \A kind : OfKind(c, kind) \subseteq OfKind(d, kind) BY MoreCaveats, Zenon
<1> HIDE DEF d
<1>2. OfKind(c, "ops") # {} BY Zenon DEF OpsOf
<1>3. ASSUME Allows(d, op, n, now) PROVE Allows(c, op, n, now)
  <2>1. ~AgentConflict(c) BY <1>1, <1>3, Zenon DEF Allows, AgentConflict
  <2>2. op \in OpsOf(c) BY <1>1, <1>2, <1>3, Zenon DEF Allows, OpsOf
  <2>3. ~Expired(c, now) BY <1>1, <1>3, Zenon DEF Allows, Expired
  <2>4. n # NoRef => Covers(c, op, n) BY <1>1, <1>3, Zenon DEF Allows, Covers
  <2> QED BY <2>1, <2>2, <2>3, <2>4, Zenon DEF Allows
<1>4. HasUnrestrictedRefScope(d) => HasUnrestrictedRefScope(c)
  BY <1>1, Zenon DEF HasUnrestrictedRefScope
<1> QED BY <1>3, <1>4, Zenon DEF d

\* grant: the caller is idle, and nothing but its capability changes.
LEMMA GrantStep ==
  ASSUME JInv, NEW k \in Callers, NEW extra \in Attenuations, Grant(k, extra)
  PROVE  JInv' /\ Moves
<1>1. /\ cap' = [cap EXCEPT ![k] = AttenuateHolder(@, extra)]
      /\ UNCHANGED <<commits, conflicts, snaps, job>> /\ UNCHANGED vars /\ job[k].at = "idle"
  BY Zenon DEF Grant, NoCatalog, objects, Ready, Busy
<1>2. /\ cap'[k] = AttenuateHolder(cap[k], extra) /\ DOMAIN cap' = Callers
      /\ \A h \in Callers : h # k => cap'[h] = cap[h]
  BY <1>1, Zenon DEF JInv, Tables
<1>3. cap'[k].caveats \in Seq(Caveat) /\ cap'[k].sig \in Seq(Caveat)
  <2>1. cap'[k].caveats = cap[k].caveats \o extra /\ cap'[k].sig = cap[k].sig \o extra
    <3>1. PICK c : c = AttenuateHolder(cap[k], extra) BY Zenon
    <3>2. c.caveats = cap[k].caveats \o extra /\ c.sig = cap[k].sig \o extra
      BY <3>1 DEF AttenuateHolder
    <3> QED BY <1>2, <3>1, <3>2, Zenon
  <2>2. cap[k].caveats \in Seq(Caveat) /\ cap[k].sig \in Seq(Caveat) BY Zenon DEF JInv, Tables
  <2>3. extra \in Seq(Caveat) BY IntegrationConstants, Zenon
  <2>4. PICK d, g : d = cap[k].caveats /\ g = cap[k].sig BY Zenon
  <2>5. d \in Seq(Caveat) /\ g \in Seq(Caveat) BY <2>2, <2>4, Zenon
  <2>6. d \o extra \in Seq(Caveat) /\ g \o extra \in Seq(Caveat) BY ONLY <2>3, <2>5
  <2> QED BY <2>1, <2>4, <2>6, Zenon
<1>4. Grows /\ Lineage' BY <1>1, Zenon DEF Grows, JInv, Tables, Lineage, Made, Stored, ParentIds
<1>5. Tables' BY <1>1, <1>2, <1>3, Zenon DEF JInv, Tables
<1>6. JobOK(k)' BY <1>1, Zenon DEF JobOK
<1>7. \A h \in Callers : h # k => JobOK(h)' BY <1>1, <1>2, <1>4, JobStays, Zenon DEF JInv
<1>8. \A c \in Commits : ~(~Stored(c) /\ Stored(c)') BY <1>1, Zenon DEF Stored
<1>9. \A h \in Callers : JobOK(h)' BY <1>6, <1>7, Zenon
<1>10. JInv' BY <1>1, <1>4, <1>5, <1>8, <1>9, ObjectStep, Zenon
<1>11. Shape BY <1>1, StutterShape, Zenon DEF JInv
<1>12. refs' = refs BY <1>1, Zenon DEF vars
<1>13. Guarded /\ \A n \in Names : NameStep(n) BY <1>12, Zenon DEF Guarded, NameStep
<1> QED BY <1>4, <1>10, <1>11, <1>13, Zenon DEF Moves

-----------------------------------------------------------------------------
(* The invariant holds *)

\* A name at the start: no ref and no row, or a head of a commit with the rows
\* that led to it.
Starts(n) ==
  \/ refs[n] = NoRow /\ reflog[n] = <<>>
  \/ /\ n \in Heads /\ refs[n] \in RefRow /\ refs[n].kind = "commit"
     /\ refs[n].oid \in {First, First + 1, First + 2}
     /\ reflog[n] \in Seq(LogRow) /\ reflog[n] # <<>> /\ Last(reflog[n]).new = refs[n].oid
     /\ \A i \in 2..Len(reflog[n]) : reflog[n][i].old = reflog[n][i-1].new
     /\ reflog[n][1].old = NoOid
     /\ \A i \in 1..Len(reflog[n]) : reflog[n][i].reason # "abandon"

\* The commits the checks start from are commits.
LEMMA StartCommits ==
  /\ {First, First + 1, First + 2} \subseteq Commits /\ First \in Nat
  /\ \A o \in {First, First + 1, First + 2} : o \in Oids /\ o # NoOid
<1>1. First \in Commits /\ {First + 1, First + 2} \subseteq Commits
  BY OidTypes, IntegrationConstants, Zenon
<1>2. First \in Nat BY <1>1, IntegrationConstants, Zenon
<1>3. \A o \in Commits : o \in Oids /\ o # NoOid BY OidTypes, Zenon DEF Oids
<1> QED BY <1>1, <1>2, <1>3, Zenon

\* A head with the two rows of a topic.
LEMMA TopicStarts ==
  ASSUME NEW n \in Heads, NEW o \in {First, First + 1, First + 2}, refs[n] = Row(o, "commit"),
         reflog[n] = <<Entry(NoOid, First, "insert"), Entry(First, o, "cas")>>
  PROVE  Starts(n)
<1>1. First \in Oids /\ o \in Oids BY StartCommits, Zenon
<1>2. PICK e, f : e = Entry(NoOid, First, "insert") /\ f = Entry(First, o, "cas") BY Zenon
<1>3. e \in LogRow /\ e.old = NoOid /\ e.new = First /\ e.reason = "insert"
  BY <1>1, <1>2, EntryType DEF Reasons
<1>4. f \in LogRow /\ f.old = First /\ f.new = o /\ f.reason = "cas"
  BY <1>1, <1>2, EntryType DEF Reasons
<1>5. reflog[n] = <<e, f>> BY <1>2, Zenon
<1>6. /\ <<e, f>> \in Seq(LogRow) /\ <<e, f>> # <<>> /\ Len(<<e, f>>) = 2
      /\ <<e, f>>[1] = e /\ <<e, f>>[2] = f
  BY <1>3, <1>4
<1>7. Last(<<e, f>>) = f BY <1>6, Zenon DEF Last
<1>8. \A i \in 2..Len(<<e, f>>) : <<e, f>>[i].old = <<e, f>>[i-1].new
  <2>1. \A i \in 2..2 : i = 2 /\ i - 1 = 1 OBVIOUS
  <2> QED BY <1>3, <1>4, <1>6, <2>1
<1>9. \A i \in 1..Len(<<e, f>>) : <<e, f>>[i].reason # "abandon"
  <2>1. \A i \in 1..2 : i = 1 \/ i = 2 OBVIOUS
  <2> QED BY <1>3, <1>4, <1>6, <2>1
<1>10. refs[n] \in RefRow /\ refs[n].oid = o /\ refs[n].kind = "commit"
  <2>1. Row(o, "commit") \in RefRow /\ Row(o, "commit").oid = o /\ Row(o, "commit").kind = "commit"
    BY <1>1, RowType, CommitObjects, Zenon
  <2> QED BY <2>1, Zenon
<1> QED BY <1>3, <1>4, <1>5, <1>6, <1>7, <1>8, <1>9, <1>10, Zenon DEF Starts

\* main, with the row of init.
LEMMA MainStarts ==
  ASSUME reflog[Main] = <<Entry(NoOid, First, "init")>>,
         refs[Main] = [oid |-> First, kind |-> "commit", protected |-> TRUE, sealed |-> FALSE]
  PROVE  Starts(Main)
<1>1. First \in Oids BY StartCommits, Zenon
<1>2. PICK e : e = Entry(NoOid, First, "init") BY Zenon
<1>3. e \in LogRow /\ e.old = NoOid /\ e.new = First /\ e.reason = "init"
  BY <1>1, <1>2, EntryType DEF Reasons
<1>4. reflog[Main] = <<e>> BY <1>2, Zenon
<1>5. <<e>> \in Seq(LogRow) /\ <<e>> # <<>> /\ Len(<<e>>) = 1 /\ <<e>>[1] = e BY <1>3
<1>6. Last(<<e>>) = e BY <1>5, Zenon DEF Last
<1>7. /\ \A i \in 2..Len(<<e>>) : <<e>>[i].old = <<e>>[i-1].new
      /\ \A i \in 1..Len(<<e>>) : <<e>>[i].reason # "abandon"
  <2>1. /\ \A i \in 2..1 : FALSE
        /\ \A i \in 1..1 : i = 1
    OBVIOUS
  <2> QED BY <1>3, <1>5, <2>1, Zenon
<1>8. refs[Main] \in RefRow /\ refs[Main].oid = First /\ refs[Main].kind = "commit"
  BY <1>1, CommitObjects DEF RefRow
<1>9. Main \in Heads BY NameClasses, Zenon
<1> QED BY <1>3, <1>4, <1>5, <1>6, <1>7, <1>8, <1>9, Zenon DEF Starts

\* The ledger's part of the invariant at the start.
LEMMA StartsInv ==
  ASSUME refs \in [Names -> RefRow \cup {NoRow}], reflog \in [Names -> Seq(LogRow)],
         \A n \in Names : Starts(n), seals = [t \in Tags |-> NoSeal], landmarks = {First},
         intro = [b \in Blobs |-> NoOid], live = [s \in Sessions |-> NoName],
         spec = [s \in Sessions |-> [m \in MountPaths |-> NoName]]
  PROVE  IInv
<1>0. Sessions = {} BY IntegrationConstants, Zenon
<1>1. TypeOK
  <2>1. landmarks \subseteq Oids BY StartCommits, Zenon
  <2>2. /\ seals \in [Tags -> SealRow \cup {NoSeal}] /\ intro \in [Blobs -> Commits \cup {NoOid}]
        /\ live \in [Sessions -> Names \cup {NoName}]
        /\ spec \in [Sessions -> [MountPaths -> Names \cup {NoName}]]
    BY Zenon
  <2> QED BY <2>1, <2>2, Zenon DEF TypeOK
<1>2. \A n \in Names : ~Retired(n)
  <2> SUFFICES ASSUME NEW n \in Names, reflog[n] # <<>> PROVE Last(reflog[n]).reason # "abandon"
    BY Zenon DEF Retired
  <2>1. reflog[n] \in Seq(LogRow) BY Zenon
  <2>2. Len(reflog[n]) \in 1..Len(reflog[n]) /\ Last(reflog[n]) = reflog[n][Len(reflog[n])]
    BY <2>1, LastRow, Zenon
  <2> QED BY <2>2, Zenon DEF Starts
<1>3. ReflogChain
  <2> SUFFICES ASSUME NEW n \in Names
               PROVE  /\ \A i \in 2..Len(reflog[n]) : reflog[n][i].old = reflog[n][i-1].new
                      /\ reflog[n] # <<>> => \/ reflog[n][1].old = NoOid
                                             \/ reflog[n][1].reason = "fork"
    BY Zenon DEF ReflogChain
  <2>1. CASE reflog[n] = <<>>
    <3>1. \A i \in 2..Len(<<>>) : FALSE OBVIOUS
    <3> QED BY <2>1, <3>1, Zenon
  <2>2. CASE reflog[n] # <<>> BY <2>2, Zenon DEF Starts
  <2> QED BY <2>1, <2>2, Zenon
<1>4. ReflogTerminal
  <2> SUFFICES ASSUME NEW n \in Names
               PROVE  /\ refs[n].oid # NoOid => reflog[n] # <<>> /\ Last(reflog[n]).new = refs[n].oid
                      /\ refs[n].oid = NoOid => reflog[n] = <<>>
    BY <1>2, Zenon DEF ReflogTerminal, Exists
  <2> QED BY RowPresent, Zenon DEF Starts
<1>5. AbandonIsTerminal
  <2> SUFFICES ASSUME NEW n \in Names, NEW i \in 1..Len(reflog[n]), reflog[n][i].reason = "abandon"
               PROVE  FALSE
    BY Zenon DEF AbandonIsTerminal
  <2>1. \A j \in 1..Len(<<>>) : FALSE OBVIOUS
  <2> QED BY <2>1, Zenon DEF Starts
<1>6. OnlyRetirableRetired BY <1>2, Zenon DEF OnlyRetirableRetired
<1>7. SealsAgree
  <2>1. \A n \in Names : Exists(n) => n \in Heads /\ refs[n].kind = "commit" /\ refs[n].oid \in Commits
    BY RowPresent, StartCommits, Zenon DEF Starts, Exists
  <2>2. \A n \in Heads : KindAllowed(n, "commit") BY NameClasses, Zenon DEF KindAllowed
  <2>3. \A n \in Names : Exists(n) => /\ KindAllowed(n, refs[n].kind)
                                      /\ refs[n].oid \in ObjectsOf(refs[n].kind)
    BY <2>1, <2>2, CommitObjects, Zenon
  <2>4. \A t \in Tags : ~Exists(t) /\ seals[t] = NoSeal
    BY <2>1, NameClasses, Zenon DEF Names
  <2> QED BY <2>3, <2>4, Zenon DEF SealsAgree
<1>8. LiveIsHead /\ LiveHeadsExist BY <1>0, Zenon DEF LiveIsHead, LiveHeadsExist
<1> QED BY <1>1, <1>3, <1>4, <1>5, <1>6, <1>7, <1>8, Zenon DEF IInv

LEMMA StartNames ==
  ASSUME IntegrationInit
  PROVE  /\ refs \in [Names -> RefRow \cup {NoRow}] /\ reflog \in [Names -> Seq(LogRow)]
         /\ \A n \in Names : Starts(n)
<1>1. PICK t1, t2 : t1 = Topics[1] /\ t2 = Topics[2] BY Zenon
<1>2. t1 \in Heads /\ t2 \in Heads /\ t1 # t2 /\ Main \notin {t1, t2}
  BY <1>1, IntegrationConstants
<1>3. Main \in Names /\ Heads \subseteq Names BY NameClasses, Zenon DEF Names
<1>4. /\ DOMAIN refs = Names /\ DOMAIN reflog = Names
      /\ refs = [n \in DOMAIN refs |-> refs[n]] /\ reflog = [n \in DOMAIN reflog |-> reflog[n]]
  BY Zenon DEF IntegrationInit
<1>5. Starts(Main) BY <1>3, MainStarts, Zenon DEF IntegrationInit
<1>6. ASSUME NEW n \in Names, n # Main,
             NEW o \in {First, First + 1, First + 2}, refs[n] = Row(o, "commit"), n \in Heads
      PROVE  Starts(n)
  <2>1. o \in Oids /\ o # NoOid BY StartCommits, Zenon
  <2>2. Row(o, "commit").oid = o BY <2>1, RowType, CommitObjects, Zenon
  <2>3. refs[n].oid = o /\ Exists(n) BY <1>6, <2>1, <2>2, Zenon DEF Exists
  <2>4. reflog[n] = <<Entry(NoOid, First, "insert"), Entry(First, o, "cas")>>
    BY <1>6, <2>3, Zenon DEF IntegrationInit
  <2> QED BY <1>6, <2>4, TopicStarts, Zenon
<1>7. refs[t1] = Row(First + 1, "commit") /\ refs[t2] = Row(First + 2, "commit")
  BY <1>1, <1>2, <1>3, Zenon DEF IntegrationInit
<1>8. Starts(t1) /\ Starts(t2)
  <2>1. t1 \in Names /\ t2 \in Names /\ t1 # Main /\ t2 # Main BY <1>2, <1>3, Zenon
  <2>2. First + 1 \in {First, First + 1, First + 2} /\ First + 2 \in {First, First + 1, First + 2}
    BY Zenon
  <2> QED BY <1>2, <1>6, <1>7, <2>1, <2>2, Zenon
<1>9. ASSUME NEW n \in Names, n \notin {Main, t1, t2} PROVE refs[n] = NoRow /\ reflog[n] = <<>>
  <2>1. refs[n] = NoRow BY <1>1, <1>9, Zenon DEF IntegrationInit
  <2>2. ~Exists(n) BY <2>1, RowPresent, Zenon DEF Exists
  <2> QED BY <1>9, <2>1, <2>2, Zenon DEF IntegrationInit
<1>10. \A n \in Names : Starts(n) BY <1>5, <1>8, <1>9, Zenon DEF Starts
<1>11. <<>> \in Seq(LogRow) OBVIOUS
<1>12. \A n \in Names : refs[n] \in RefRow \cup {NoRow} /\ reflog[n] \in Seq(LogRow)
  BY <1>10, <1>11, Zenon DEF Starts
<1> QED BY <1>4, <1>10, <1>12, Zenon

\* The objects at the start: three commits, and nothing else.
LEMMA StartObjects ==
  ASSUME IntegrationInit
  PROVE  /\ Lineage
         /\ \A c \in Commits : Stored(c) => commits[c].msg = "import"
         /\ \A o \in {First, First + 1, First + 2} : Made(o)
<1>0. /\ Commits \subseteq Nat /\ \A c \in Commits : First <= c
  BY IntegrationConstants, Zenon
<1>1. PICK h : commits = [c \in Commits |->
         IF c = First THEN Commit(h[1], <<>>, "import")
         ELSE IF c \in {First + 1, First + 2} THEN Commit(h[c - First + 1], <<First>>, "import")
         ELSE NoObject]
  BY Zenon DEF IntegrationInit
<1>2. First \in Commits /\ First + 1 \in Commits /\ First + 2 \in Commits /\ First \in Nat
  BY StartCommits, Zenon
<1>3. \A t, ps : Commit(t, ps, "import") # NoObject BY CommitMade
<1>4. commits[First] = Commit(h[1], <<>>, "import") BY <1>1, <1>2, Zenon
<1>5. \A c \in {First + 1, First + 2} : commits[c] = Commit(h[c - First + 1], <<First>>, "import")
  BY <1>1, <1>2
<1>6. \A c \in Commits : Stored(c) <=> c \in {First, First + 1, First + 2}
  BY <1>1, <1>3, Zenon DEF Stored
<1>7. \A o \in {First, First + 1, First + 2} : Made(o) BY <1>2, <1>6, Zenon DEF Made
<1>8. \A c \in Commits : Stored(c) =>
        commits[c].msg = "import" /\ (c = First => commits[c].parents = <<>>)
        /\ (c # First => commits[c].parents = <<First>>)
  BY <1>2, <1>4, <1>5, <1>6, CommitMade
<1>9. ASSUME NEW c \in Commits, Stored(c), NEW p \in ParentIds(c) PROVE Made(p) /\ p < c
  <2>1. ParentIds(c) = IF c = First THEN {} ELSE {First}
    BY <1>8, <1>9, EmptyMembers, SingleMembers DEF ParentIds
  <2>2. p = First /\ c # First BY <2>1, Zenon
  <2> QED BY <1>0, <1>2, <1>7, <2>2
<1>10. ASSUME NEW c \in Commits, NEW d \in Commits, Stored(c), d < c PROVE Stored(d)
  <2>1. c \in {First, First + 1, First + 2} /\ First <= d BY <1>0, <1>6, <1>10, Zenon
  <2>2. d \in {First, First + 1} BY <1>0, <1>2, <1>10, <2>1
  <2> QED BY <1>6, <2>2, Zenon
<1>11. /\ \A o \in ConflictObjs : conflicts[o] = NoObject
       /\ \A o \in Snapshots : snaps[o] = NoObject
  BY Zenon DEF IntegrationInit
<1> QED BY <1>7, <1>8, <1>9, <1>10, <1>11, Zenon DEF Lineage

LEMMA IntegrationInitInv == IntegrationInit => JInv
<1> SUFFICES ASSUME IntegrationInit PROVE JInv BY Zenon
<1>1. IInv
  BY StartNames, StartsInv, Zenon DEF IntegrationInit
<1>2. Tables
  <2>1. /\ DOMAIN commits = Commits /\ DOMAIN conflicts = ConflictObjs /\ DOMAIN snaps = Snapshots
        /\ DOMAIN job = Callers /\ cap = CapOf
    BY Zenon DEF IntegrationInit
  <2>2. DOMAIN CapOf = Callers /\ \A k \in Callers : CapOf[k] \in Cap BY IntegrationConstants, Zenon
  <2>3. \A k \in Callers : CapOf[k].caveats \in Seq(Caveat) /\ CapOf[k].sig \in Seq(Caveat)
    BY <2>2, Zenon DEF Cap
  <2> QED BY <2>1, <2>2, <2>3, Zenon DEF Tables
<1>3. /\ Lineage /\ \A c \in Commits : Stored(c) => commits[c].msg = "import"
      /\ \A o \in {First, First + 1, First + 2} : Made(o)
  BY StartObjects, Zenon
<1>4. \A n \in Names : Starts(n) BY StartNames, Zenon
<1>5. \A n \in Names : Exists(n) => n \in Heads /\ Target(refs[n].kind, refs[n].oid)
  BY <1>3, <1>4, RowPresent, Zenon DEF Starts, Target, Exists
<1>6. \A k \in Callers : JobOK(k)
  <2>1. Idle.at = "idle" BY Zenon DEF Idle
  <2>2. \A k \in Callers : job[k] = Idle BY Zenon DEF IntegrationInit
  <2> QED BY <2>1, <2>2, Zenon DEF JobOK
<1>7. \A t \in Tags : Sealed(t) BY Zenon DEF IntegrationInit, Sealed
<1>8. \A c \in Conflicts : Bound(c)
  <2> SUFFICES ASSUME NEW c \in Conflicts PROVE Bound(c) OBVIOUS
  <2>1. c \in Names /\ c \notin Heads BY NameClasses, Zenon DEF Names
  <2>2. ResolutionOf[c] \in Resolutions BY IntegrationConstants, Zenon
  <2>3. ResolutionOf[c] \in Names /\ ResolutionOf[c] \notin Heads BY <2>2, NameClasses, Zenon DEF Names
  <2>4. ~Exists(ResolutionOf[c]) /\ reflog[c] = <<>>
    BY <1>4, <1>5, <2>1, <2>3, Zenon DEF Starts
  <2> QED BY <2>4, Zenon DEF Bound, Retired
<1> QED BY <1>1, <1>2, <1>3, <1>5, <1>6, <1>7, <1>8, Zenon DEF JInv

-----------------------------------------------------------------------------
(* Every step *)

LEMMA CallStep ==
  ASSUME JInv, NEW k \in Callers, Call(k)
  PROVE  JInv' /\ Moves
<1>1. CASE \E extra \in Attenuations : Grant(k, extra) BY <1>1, GrantStep, Zenon
<1>2. CASE \E n \in Branched : Branch(k, Main, n)
  <2>1. Main \in Names BY NameClasses, Zenon DEF Names
  <2> QED BY <1>2, <2>1, BranchStep, Zenon
<1>3. CASE \E n \in Imported : Import(k, n) BY <1>3, ImportStep, Zenon
<1>4. CASE \E t \in Targets : Merge(k, t[1], t[2])
  <2>1. PICK t \in Targets : Merge(k, t[1], t[2]) BY <1>4, Zenon
  <2>2. t[1] \in Intos BY Zenon DEF Intos
  <2>3. t[2] \in Names BY IntegrationConstants
  <2>4. PICK n, from : n = t[1] /\ from = t[2] BY Zenon
  <2> QED BY <2>1, <2>2, <2>3, <2>4, MergeStep, Zenon
<1>5. CASE \E o \in ConflictObjs, n \in {t[1] : t \in Targets}, choice \in Choices :
             ResolveCall(k, o, n, choice)
  BY <1>5, ResolveCallStep, Zenon DEF Intos
<1>6. CASE \E t \in Tags, n \in {Main, Topics[1]} : Seal(k, n, t)
  <2>1. Topics[1] \in Heads BY IntegrationConstants
  <2>2. {Main, Topics[1]} \subseteq Names BY <2>1, NameClasses, Zenon DEF Names
  <2> QED BY <1>6, <2>2, SealStep, Zenon
<1>7. CASE \E t \in Tags, n \in Inbox : InboxPush(k, t, n)
  <2>1. Tags \subseteq Names BY Zenon DEF Names
  <2> QED BY <1>7, <2>1, InboxPushStep, Zenon
<1> QED BY <1>1, <1>2, <1>3, <1>4, <1>5, <1>6, <1>7, Zenon DEF Call

LEMMA StepStep ==
  ASSUME JInv, NEW k \in Callers, Step(k)
  PROVE  JInv' /\ Moves
<1>1. CASE BranchInsert(k) BY <1>1, BranchInsertStep, Zenon
<1>2. CASE \E tree \in Sources : ImportTree(k, tree) BY <1>2, ImportTreeStep, Zenon
<1>3. CASE MergePeel(k) BY <1>3, MergePeelStep, Zenon
<1>4. CASE MergePeelFails(k) BY <1>4, MergePeelFailsStep, Zenon
<1>5. CASE FileConflict(k) BY <1>5, FileConflictStep, Zenon
<1>6. CASE Publish(k) BY <1>6, PublishStep, Zenon
<1>7. CASE ResolveFind(k) BY <1>7, ResolveFindStep, Zenon
<1>8. CASE ResolveBind(k) BY <1>8, ResolveBindStep, Zenon
<1>9. CASE SealTag(k) BY <1>9, SealTagStep, Zenon
<1>10. CASE InboxStore(k) BY <1>10, InboxStoreStep, Zenon
<1> QED BY <1>1, <1>2, <1>3, <1>4, <1>5, <1>6, <1>7, <1>8, <1>9, <1>10, Zenon DEF Step

LEMMA IdleStep ==
  ASSUME JInv, UNCHANGED ivars
  PROVE  JInv' /\ Moves
<1>1. UNCHANGED vars /\ UNCHANGED <<commits, conflicts, snaps, cap, job>> BY Zenon DEF ivars, vars
<1>2. Shape BY <1>1, StutterShape, Zenon DEF JInv
<1>3. refs' = refs /\ seals' = seals BY <1>1, Zenon DEF vars
<1>4. Guarded /\ \A m \in Names : NameStep(m) BY <1>3, Zenon DEF NameStep, Guarded
<1>5. Grows BY <1>1, Zenon DEF Grows, JInv, Tables
<1>6. \A h \in Callers : JobOK(h)' BY <1>1, <1>5, JobStays, Zenon DEF JInv
<1>7. DOMAIN job' = Callers BY <1>1, Zenon DEF JInv, Tables
<1>8. UNCHANGED <<commits, conflicts, snaps, cap>> BY <1>1, Zenon
<1> QED BY <1>2, <1>3, <1>4, <1>6, <1>7, <1>8, PlainStep, Zenon

LEMMA EveryStep == JInv /\ [IntegrationNext]_ivars => JInv' /\ Moves
<1> SUFFICES ASSUME JInv, [IntegrationNext]_ivars PROVE JInv' /\ Moves BY Zenon
<1>1. CASE UNCHANGED ivars BY <1>1, IdleStep, Zenon
<1>2. CASE \E k \in Callers : Call(k) \/ Step(k) BY <1>2, CallStep, StepStep, Zenon
<1>3. CASE \E n \in Forks \cup InboxForks : Abandon(n) BY <1>3, AbandonStep, Zenon
<1> QED BY <1>1, <1>2, <1>3, Zenon DEF IntegrationNext

\* Only grant changes a capability.
LEMMA OnlyGrant ==
  ASSUME IntegrationNext
  PROVE  cap' = cap \/ \E k \in Callers, extra \in Attenuations : Grant(k, extra)
<1>1. ASSUME NEW k \in Callers, Call(k)
      PROVE  cap' = cap \/ \E extra \in Attenuations : Grant(k, extra)
  BY <1>1, Zenon DEF Call, Branch, Import, Merge, ResolveCall, Seal, InboxPush, Kept
<1>2. ASSUME NEW k \in Callers, Step(k)
      PROVE  cap' = cap
  BY <1>2, Zenon DEF Step, BranchInsert, ImportTree, MergePeel, MergePeelFails, FileConflict,
                     Publish, ResolveFind, ResolveBind, SealTag, InboxStore, Kept
<1>3. ASSUME NEW n, Abandon(n) PROVE cap' = cap BY <1>3, Zenon DEF Abandon
<1> QED BY <1>1, <1>2, <1>3, Zenon DEF IntegrationNext

-----------------------------------------------------------------------------
(* Theorems *)

\* The invariant holds in every reachable state of merge, resolve, seal, import,
\* branch, inbox push and grant by any number of callers.
THEOREM IntegrationInductive == IntegrationSpec => []JInv
<1>1. JInv /\ [IntegrationNext]_ivars => JInv' BY EveryStep, Zenon
<1> QED BY IntegrationInitInv, <1>1, PTL DEF IntegrationSpec

\* The ledger's invariants hold when the callers of integration drive it.
THEOREM LedgerHolds ==
  IntegrationSpec => [](TypeOK /\ ReflogChain /\ ReflogTerminal /\ AbandonIsTerminal /\ SealsAgree)
<1>1. JInv => TypeOK /\ ReflogChain /\ ReflogTerminal /\ AbandonIsTerminal /\ SealsAgree
  BY Zenon DEF JInv, IInv
<1> QED BY IntegrationInductive, <1>1, PTL

\* Under integration too, no ref changes without its reflog row.
THEOREM IntegrationMovesLogged == IntegrationSpec => EveryMoveLogged
<1>1. JInv /\ [IntegrationNext]_ivars => AppendsRows
  BY EveryStep, ShapeAppends, Zenon DEF Moves, JInv
<1> QED BY IntegrationInductive, <1>1, PTL DEF IntegrationSpec, EveryMoveLogged, AppendsRows

\* Under integration too, sealed rows never change.
THEOREM IntegrationKeepsSealed == IntegrationSpec => SealedIsForever
<1>1. JInv /\ [IntegrationNext]_ivars => KeepsSealed
  BY EveryStep, ShapeKeepsSealed, Zenon DEF Moves, JInv
<1> QED BY IntegrationInductive, <1>1, PTL DEF IntegrationSpec, SealedIsForever, KeepsSealed

\* I5: a ref moves only to a commit with its old value in the ancestry, whatever
\* was published between the mover's reads and its transaction.
THEOREM NothingIsLost == IntegrationSpec => RefsMoveForward
<1> DEFINE A == \A n \in Names : Exists(n) /\ refs'[n].oid \notin {NoOid, refs[n].oid} =>
                  /\ refs[n].kind = "commit"
                  /\ refs[n].oid \in AncestorMap(Parents', refs'[n].oid)
<1>1. JInv /\ [IntegrationNext]_ivars => A
  <2> SUFFICES ASSUME JInv, [IntegrationNext]_ivars, NEW n \in Names,
                      Exists(n), refs'[n].oid \notin {NoOid, refs[n].oid}
               PROVE  refs[n].kind = "commit" /\ refs[n].oid \in AncestorMap(Parents', refs'[n].oid)
    BY Zenon
  <2>1. JInv' /\ Moves BY EveryStep, Zenon
  <2>2. PICK o, new : o = refs[n].oid /\ new = refs'[n].oid BY Zenon
  <2>3. refs[n].kind = "commit" /\ Made(new) /\ o \in ParentIds(new)
    BY <2>1, <2>2, RowPresent, Zenon DEF Moves, NameStep, Exists
  <2>4. History(Parents) BY StoredHistory, Zenon DEF JInv
  <2>5. new \in DOMAIN Parents /\ o \in ParentsOf(Parents, new)
    BY <2>3, ParentsAt, Zenon DEF Made
  <2>6. o \in AncestorMap(Parents, new) BY <2>4, <2>5, AncestorsOfParent, Zenon
  <2>7. AncestorMap(Parents', new) = AncestorMap(Parents, new)
    BY <2>1, <2>3, HistoryStays, Zenon DEF Moves, JInv
  <2> QED BY <2>2, <2>3, <2>6, <2>7, Zenon
<1> QED BY IntegrationInductive, <1>1, PTL DEF IntegrationSpec, RefsMoveForward

\* A conflict ref is retired exactly when its resolution is published, and the
\* ref it was filed under then contains the resolution for good.
THEOREM ResolutionHolds == IntegrationSpec => []ResolutionBinds
<1>1. JInv => ResolutionBinds BY Zenon DEF JInv, Bound, ResolutionBinds
<1> QED BY IntegrationInductive, <1>1, PTL

\* A protected ref moves only on merge authority.
THEOREM ProtectedHolds == IntegrationSpec => ProtectedNeedsMerge
<1>1. JInv /\ [IntegrationNext]_ivars => Guarded BY EveryStep, Zenon DEF Moves
<1> QED BY IntegrationInductive, <1>1, PTL DEF IntegrationSpec, ProtectedNeedsMerge, Guarded

\* I13: attenuation keeps a capability valid and never widens it.
THEOREM GrantsOnlyNarrow == IntegrationSpec => GrantsNarrow
<1> DEFINE A == \A k \in Callers : cap'[k] # cap[k] =>
       /\ Verify(cap'[k])
       /\ \A op \in Ops, n \in RefNames \cup {NoRef}, now \in {Now, Now + 1} :
            Allows(cap'[k], op, n, now) => Allows(cap[k], op, n, now)
       /\ HasUnrestrictedRefScope(cap'[k]) => HasUnrestrictedRefScope(cap[k])
<1>1. JInv /\ [IntegrationNext]_ivars => A
  <2> SUFFICES ASSUME JInv, [IntegrationNext]_ivars, NEW k \in Callers, cap'[k] # cap[k]
               PROVE  /\ Verify(cap'[k])
                      /\ \A op \in Ops, n \in RefNames \cup {NoRef}, now \in {Now, Now + 1} :
                           Allows(cap'[k], op, n, now) => Allows(cap[k], op, n, now)
                      /\ HasUnrestrictedRefScope(cap'[k]) => HasUnrestrictedRefScope(cap[k])
    BY Zenon
  <2>1. PICK h \in Callers, extra \in Attenuations : Grant(h, extra) BY OnlyGrant, Zenon DEF ivars
  <2>2. cap' = [cap EXCEPT ![h] = AttenuateHolder(cap[h], extra)] BY <2>1, Zenon DEF Grant
  <2>3. h = k /\ cap'[k] = AttenuateHolder(cap[k], extra) BY <2>2, Zenon DEF JInv, Tables
  <2>4. PICK c, d : c = cap[k] /\ d = cap'[k] BY Zenon
  <2>5. Verify(c) /\ Allows(c, "grant", NoRef, Now) BY <2>1, <2>3, <2>4, Zenon DEF Grant, Can
  <2>6. d = AttenuateHolder(c, extra) BY <2>3, <2>4, Zenon
  <2>7. Verify(d)
    <3>1. d.sig = c.sig \o extra /\ d.caveats = c.caveats \o extra BY <2>6 DEF AttenuateHolder
    <3> QED BY <2>5, <3>1, Zenon DEF Verify
  <2>8. c.caveats \in Seq(Caveat) /\ extra \in Seq(Caveat) /\ OpsOf(c) # {}
    BY <2>4, <2>5, IntegrationConstants, Zenon DEF JInv, Tables, Allows
  <2>9. ASSUME NEW op, NEW n, NEW now
        PROVE  /\ Allows(d, op, n, now) => Allows(c, op, n, now)
               /\ HasUnrestrictedRefScope(d) => HasUnrestrictedRefScope(c)
    BY <2>6, <2>8, AttenuationNarrows, Zenon
  <2> QED BY <2>4, <2>7, <2>9, Zenon
<1> QED BY IntegrationInductive, <1>1, PTL DEF IntegrationSpec, GrantsNarrow

-----------------------------------------------------------------------------
(* Merge bases *)

INSTANCE FiniteSetTheorems

\* The commit that every common ancestor of the parents of a merge reaches is
\* the base its tree was merged from, or there is no common ancestor.
OneBase(c) ==
  LET a == commits[c].parents[1]  b == commits[c].parents[2]
      common == Ancestors(a) \cap Ancestors(b)
      from(base) == Merged(base, commits[a].tree, commits[b].tree) IN
  /\ commits[c].parents = <<a, b>>
  /\ \/ common = {} /\ from(Absent).paths = {} /\ commits[c].tree = from(Absent).tree
     \/ \E n \in common : /\ common \subseteq Ancestors(n)
                          /\ from(commits[n].tree).paths = {}
                          /\ commits[c].tree = from(commits[n].tree).tree

\* Every set of numbers that has a bound has a greatest member.
LEMMA GreatestMember ==
  ASSUME NEW S \in SUBSET Nat, S # {}, NEW m \in Nat, \A s \in S : s <= m
  PROVE  \E d \in S : \A s \in S : s <= d
<1> DEFINE T == {m - s : s \in S}
<1>0. \A s \in S : m - s \in Nat OBVIOUS
<1>1. T \subseteq Nat /\ T # {} BY <1>0, Zenon
<1> HIDE DEF T
<1>2. PICK x \in T : \A y \in T : ~(<<y, x>> \in OpToRel(<, Nat))
  BY <1>1, NatLessThanWellFounded, WFMin, Zenon
<1>3. ASSUME NEW y \in T PROVE ~(y < x)
  <2>1. x \in Nat /\ y \in Nat /\ ~(<<y, x>> \in OpToRel(<, Nat)) BY <1>1, <1>2, Zenon
  <2> QED BY ONLY <2>1 DEF OpToRel
<1>4. PICK d \in S : x = m - d BY Zenon DEF T
<1>5. ASSUME NEW s \in S PROVE s <= d
  <2>1. m - s \in T BY Zenon DEF T
  <2>2. ~(m - s < x) BY <1>3, <2>1, Zenon
  <2> QED BY <1>4, <2>2
<1> QED BY <1>5, Zenon

\* A history in which every parent comes before its child.
Ordered(P) ==
  /\ History(P) /\ DOMAIN P \subseteq Nat
  /\ \A c \in DOMAIN P : \A p \in ParentsOf(P, c) : p < c

LEMMA AncestorsBefore ==
  ASSUME NEW P, Ordered(P), NEW a \in DOMAIN P
  PROVE  \A c \in AncestorMap(P, a) : c <= a
<1> DEFINE S == {c \in DOMAIN P : c <= a}
<1>1. S \in SUBSET DOMAIN P OBVIOUS
<1>2. a \in S BY DEF Ordered
<1>3. HasItsParents(P, S)
  <2> SUFFICES ASSUME NEW c \in S, NEW p \in ParentsOf(P, c) PROVE p \in DOMAIN P /\ p <= a
    BY Zenon DEF HasItsParents
  <2>1. c \in DOMAIN P /\ c <= a BY Zenon
  <2>2. p \in DOMAIN P /\ p < c BY <2>1, Zenon DEF Ordered, History
  <2>3. a \in Nat /\ c \in Nat /\ p \in Nat BY <2>1, <2>2, Zenon DEF Ordered
  <2> QED BY <2>1, <2>2, <2>3
<1>4. AncestorMap(P, a) \subseteq S BY <1>1, <1>2, <1>3, AncestorsLeast, Zenon
<1> QED BY <1>4, Zenon

\* merge_bases: every common ancestor is reached from a best one.
LEMMA BasesDominate ==
  ASSUME NEW P, Ordered(P), NEW a \in DOMAIN P, NEW b \in DOMAIN P,
         NEW c \in AncestorMap(P, a) \cap AncestorMap(P, b)
  PROVE  \E n \in MergeBases(P, a, b) : c \in AncestorMap(P, n)
<1> DEFINE common == AncestorMap(P, a) \cap AncestorMap(P, b)
           bases  == MergeBases(P, a, b)
           S      == {d \in common : ~ \E n \in bases : d \in AncestorMap(P, n)}
<1>0. common \subseteq DOMAIN P BY AncestorSelf, Zenon
<1>1. CASE a = b
  <2>1. MergeBases(P, a, b) = {a} BY <1>1, Zenon DEF MergeBases
  <2> QED BY <1>1, <2>1, Zenon
<1>2. CASE a # b /\ S # {}
  <2>1. S \in SUBSET Nat /\ a \in Nat BY <1>0, Zenon DEF Ordered
  <2>2. \A s \in S : s <= a BY AncestorsBefore, Zenon
  <2>3. PICK d \in S : \A s \in S : s <= d BY <1>2, <2>1, <2>2, GreatestMember, Zenon
  <2>4. d \in common /\ d \in DOMAIN P /\ d \in AncestorMap(P, d) BY <1>0, AncestorSelf, Zenon
  <2>5. d \notin bases BY <2>4, Zenon
  <2>6. PICK e, p : e \in common /\ p \in ParentsOf(P, e) /\ d \in AncestorMap(P, p)
    <3>1. bases = common \ (common \cap UNION {Above(P, e) : e \in common})
      BY <1>2, Zenon DEF MergeBases
    <3>2. PICK e \in common : d \in Above(P, e) BY <2>4, <2>5, <3>1, Zenon
    <3> QED BY <3>2, Zenon DEF Above
  <2>7. e \in DOMAIN P /\ p \in DOMAIN P /\ p < e BY <1>0, <2>6, Zenon DEF Ordered, History
  <2>8. d <= p BY <2>6, <2>7, AncestorsBefore, Zenon
  <2>9. e \in Nat /\ p \in Nat /\ d \in Nat BY <2>4, <2>7, Zenon DEF Ordered
  <2>10. ~(e <= d) BY <2>7, <2>8, <2>9
  <2>11. PICK n \in bases : e \in AncestorMap(P, n) BY <2>3, <2>6, <2>10, Zenon
  <2>12. History(P) BY Zenon DEF Ordered
  <2>13. AncestorMap(P, p) \subseteq AncestorMap(P, e)
    BY <2>6, <2>7, <2>12, AncestorsOfParent, Zenon
  <2>14. AncestorMap(P, e) \subseteq AncestorMap(P, n) BY <2>11, <2>12, AncestorsTransitive, Zenon
  <2>15. d \in AncestorMap(P, n) BY <2>6, <2>13, <2>14, Zenon
  <2> QED BY <2>3, <2>11, <2>15, Zenon
<1>3. CASE S = {} BY <1>3, Zenon
<1> QED BY <1>1, <1>2, <1>3, Zenon

LEMMA OrderedHistory ==
  ASSUME Lineage
  PROVE  Ordered(Parents)
<1>1. Commits \subseteq Nat BY IntegrationConstants, Zenon
<1> QED BY <1>1, StoredHistory, ParentsAt, Zenon DEF Lineage, Ordered, Made

LEMMA MergedOneBase ==
  ASSUME Lineage, NEW c, MergedFrom(c)
  PROVE  OneBase(c)
<1>0. PICK a, b : a = commits[c].parents[1] /\ b = commits[c].parents[2] BY Zenon
<1> DEFINE bases  == MergeBases(Parents, a, b)
           common == Ancestors(a) \cap Ancestors(b)
           base   == IF bases = {} THEN Absent ELSE commits[CHOOSE d \in bases : TRUE].tree
           m      == Merged(base, commits[a].tree, commits[b].tree)
<1>1. /\ commits[c].parents = <<a, b>> /\ Made(a) /\ Made(b)
      /\ ~(Cardinality(bases) > 1) /\ m.paths = {} /\ m.tree = commits[c].tree
  BY <1>0, Zenon DEF MergedFrom
<1>2. a \in DOMAIN Parents /\ b \in DOMAIN Parents BY <1>1, ParentsAt, Zenon DEF Made
<1>3. Ordered(Parents) BY OrderedHistory, Zenon
<1>4. \A d \in common : \E n \in bases : d \in Ancestors(n)
  BY <1>2, <1>3, BasesDominate, Zenon DEF Ancestors
<1>5. bases \subseteq common BY <1>2, AncestorSelf, Zenon DEF MergeBases, Ancestors
<1>6. CASE bases = {}
  <2>1. common = {} BY <1>4, <1>6, Zenon
  <2> QED BY <1>0, <1>1, <1>6, <2>1, Zenon DEF OneBase
<1>7. CASE bases # {}
  <2>1. IsFiniteSet(bases)
    <3>1. common \subseteq DOMAIN Parents BY <1>2, AncestorSelf, Zenon DEF Ancestors
    <3>2. DOMAIN Parents \subseteq Nat BY <1>3, Zenon DEF Ordered
    <3>3. bases \in SUBSET Nat /\ a \in Nat BY <1>2, <1>5, <3>1, <3>2, Zenon
    <3>4. \A d \in bases : d <= a BY <1>2, <1>3, <1>5, AncestorsBefore, Zenon DEF Ancestors
    <3> QED BY <3>3, <3>4, FS_BoundedSetOfNaturals, Zenon
  <2>2. Cardinality(bases) = 1
    <3> HIDE DEF bases
    <3>1. Cardinality(bases) \in Nat /\ Cardinality(bases) # 0
      BY <1>7, <2>1, FS_CardinalityType, FS_EmptySet, Zenon
    <3> QED BY <1>1, <3>1
  <2>3. PICK n : bases = {n} BY <2>1, <2>2, FS_Singleton, Zenon
  <2>4. n \in common /\ common \subseteq Ancestors(n) BY <1>4, <1>5, <2>3, Zenon
  <2>5. base = commits[n].tree BY <2>3, Zenon
  <2> QED BY <1>0, <1>1, <2>4, <2>5, Zenon DEF OneBase
<1> QED BY <1>6, <1>7, Zenon

\* I12: a merge commit is the three-way merge of its parents from the newest
\* commit of their common history, never from one of several best bases, even
\* when refs moved between the two reads of merge.
THEOREM MergesFromOneBase ==
  IntegrationSpec => [](\A c \in Commits : Stored(c) /\ commits[c].msg = "merge" => OneBase(c))
<1>1. JInv => \A c \in Commits : Stored(c) /\ commits[c].msg = "merge" => OneBase(c)
  BY MergedOneBase, Zenon DEF JInv
<1> QED BY IntegrationInductive, <1>1, PTL

\* What verify_tag compares before it walks the objects, and that the commit was
\* published.
TagAgrees(t) ==
  LET s == seals[t]  o == snaps[s.snap] IN
  /\ refs[t].oid = s.snap /\ refs[t].kind = "snapshot" /\ refs[t].protected /\ refs[t].sealed
  /\ o # NoObject /\ o.tag = t /\ o.commit = s.commit
  /\ Stored(o.commit) /\ commits[o.commit].tree = o.tree
  /\ Published(s.commit)

\* I15: a tag, its seals row, the snapshot and the sealed commit agree in every
\* later state, and the commit was published.
THEOREM TagsAgree == IntegrationSpec => [](\A t \in Tags : Exists(t) => TagAgrees(t))
<1>1. JInv => \A t \in Tags : Exists(t) => TagAgrees(t)
  <2> SUFFICES ASSUME JInv, NEW t \in Tags, Exists(t) PROVE TagAgrees(t) BY Zenon
  <2>1. /\ seals[t] # NoSeal /\ refs[t].protected /\ refs[t].sealed
        /\ refs[t].oid = seals[t].snap
    BY Zenon DEF JInv, IInv, SealsAgree
  <2>2. refs[t].kind = "snapshot" BY Zenon DEF Names, JInv, IInv, SealsAgree, KindAllowed
  <2>3. PICK o, c : o = seals[t].snap /\ c = seals[t].commit BY Zenon
  <2>4. Snapped(o) /\ snaps[o].tag = t /\ snaps[o].commit = c /\ Published(c)
    BY <2>1, <2>3, Zenon DEF JInv, Sealed
  <2>5. Made(c) /\ snaps[o].tree = commits[c].tree BY <2>4, Zenon DEF JInv, Lineage, Snapped
  <2> QED BY <2>1, <2>2, <2>3, <2>4, <2>5, Zenon DEF TagAgrees, Snapped, Made
<1> QED BY IntegrationInductive, <1>1, PTL
=============================================================================
