----------------------------- MODULE WorkProofs -----------------------------
(***************************************************************************)
(* What a session sees through its writable mounts, and what a checkin     *)
(* keeps of it, for any sets of sessions, refs and paths and for any       *)
(* algorithms over trees that satisfy TreeLaws.                            *)
(***************************************************************************)
EXTENDS SessionsProofs

-----------------------------------------------------------------------------
(* Hypotheses on the algorithms *)

\* Staged rows: blobs and tombstones V at relative paths P.
RowsOf(P, V) == UNION {[S -> V] : S \in SUBSET P}

\* The two ends of a rename within a mount, as paths of that mount.
MovesIn(m, ab) ==
  /\ Under(ab[1], m) /\ RelOf(m, ab[1]) # <<>>
  /\ Under(ab[2], m) /\ RelOf(m, ab[2]) # <<>>
MovePair(p, q) ==
  \E m \in MountPaths, ab \in Moves :
    MovesIn(m, ab) /\ p = RelOf(m, ab[1]) /\ q = RelOf(m, ab[2])

\* What the session plane asks of the algorithms over trees, for a set TT of
\* trees and rows over P and V.  Folding no rows leaves a tree as it is, folding
\* rows onto a tree makes a tree, and moving what is there stages rows.
TreeLaws(TT, P, V) ==
  /\ Starts \cup Foreign \subseteq TT /\ NoTree \notin TT
  /\ Staged \cup {Tomb} \subseteq V
  /\ \A m \in MountPaths, a \in Touched :
       Under(a, m) /\ RelOf(m, a) # <<>> => RelOf(m, a) \in P
  /\ \A t \in TT : Fold(t, Nothing) = t
  /\ \A t \in TT, rows \in RowsOf(P, V) : Fold(t, rows) \in TT
  /\ \A m \in MountPaths, ab \in Moves : MovesIn(m, ab) =>
       LET p == RelOf(m, ab[1])  q == RelOf(m, ab[2]) IN
       /\ p \in P
       /\ \A t \in TT, rows \in RowsOf(P, V) :
            SeenIn(rows, t, p) # Absent => Destinations(rows, t, p, q) \in RowsOf(P, V)

-----------------------------------------------------------------------------
(* Every commit that is named was made *)

\* Needed by Isolated: every commit a ref, a mount or a call names was made, so
\* no later commit takes its id, and every writable mount is pinned to one.
Pinned(TT, b) == b \in Commits /\ tree[b] \in TT
RefsMade(TT) == \A n \in Names : refs[n].oid \in Commits => tree[refs[n].oid] \in TT
CommitsMade(TT) ==
  /\ \A c \in Commits : tree[c] \in TT \cup {NoTree}
  /\ RefsMade(TT)
RowsMade(TT, P, V, s) ==
  \A m \in MountPaths :
    /\ mount[s][m].base # NoOid => Pinned(TT, mount[s][m].base)
    /\ Writable(s, m) => mount[s][m].base # NoOid
    /\ overlay[s][m] \in RowsOf(P, V)
JobMade(TT, P, V, j) ==
  /\ j.phase = "create" => Pinned(TT, j.base)
  /\ j.phase \in Mounting /\ j.base # NoOid => Pinned(TT, j.base)
  /\ j.phase = "look" /\ j.to # Nothing =>
       MovePair(j.rel, j.to) /\ j.mt.mode = "rw" /\ Pinned(TT, j.mt.base)
  /\ j.phase = "observe" /\ j.to # Nothing =>
       /\ MovePair(j.rel, j.to) /\ j.tree \in TT /\ j.rows \in RowsOf(P, V)
       /\ j.saw = SeenIn(j.rows, j.tree, j.rel)
  /\ j.phase = "move" => j.rel \in P /\ j.rows \in RowsOf(P, V)
  /\ j.phase = "stage" => j.rel \in P /\ j.val \in V
  /\ j.phase \in Checking => Pinned(TT, j.mts[j.m].base)
  /\ j.phase = "check" => j.rows \in RowsOf(P, V)
  /\ j.phase = "noop" => Pinned(TT, j.base)
  /\ j.phase = "cas" => j.tree \in TT
MInv(TT, P, V) ==
  /\ CommitsMade(TT)
  /\ \A s \in Sessions : RowsMade(TT, P, V, s)
  /\ \A k \in Clients : JobMade(TT, P, V, job[k])

\* A step makes no commit again, and touches the rows of a session only when one
\* of its clients takes it.
Touches(k) == job'[k] # job[k] \/ calls'[k] # calls[k]
Grows(TT) ==
  \A c \in Commits : /\ tree[c] \in TT => tree'[c] = tree[c]
                     /\ tree'[c] \in TT \cup {NoTree}
Local(TT) ==
  /\ Grows(TT)
  /\ \A s \in Sessions : \/ mount'[s] = mount[s] /\ overlay'[s] = overlay[s]
                         \/ \E k \in Clients : NsOf[k] = s /\ Touches(k)

LEMMA NoRows ==
  ASSUME NEW P, NEW V PROVE Nothing \in RowsOf(P, V)
<1>1. Nothing \in [{} -> V] BY DEF Nothing
<1> QED BY <1>1, Zenon DEF RowsOf

\* A session that was closed has no mount and no row.
LEMMA ClosedMade ==
  ASSUME NEW TT, NEW P, NEW V, NEW s, Closed(s)
  PROVE  RowsMade(TT, P, V, s)'
BY NoRows DEF Closed, NoMount, RowsMade, Writable

\* A commit that was made keeps its tree.
LEMMA StaysPinned ==
  ASSUME NEW TT, NEW b, Grows(TT), Pinned(TT, b)
  PROVE  b \in Commits /\ tree'[b] = tree[b] /\ tree'[b] \in TT
  BY Zenon DEF Grows, Pinned

LEMMA NoStep ==
  ASSUME NEW TT, CommitsMade(TT), UNCHANGED tree
  PROVE  Grows(TT)
  BY Zenon DEF CommitsMade, Grows

\* A commit that is made has an id no commit had.
LEMMA FreshGrows ==
  ASSUME LInv, NEW TT, CommitsMade(TT), NoTree \notin TT, NEW c \in Commits, Fresh(c), CanMake,
         NEW t \in TT, tree' = [tree EXCEPT ![c] = t]
  PROVE  Grows(TT) /\ tree'[c] = t
<1>1. tree[c] = NoTree BY Zenon DEF Fresh, CanMake
<1>2. DOMAIN tree = Commits BY Zenon DEF LInv
<1>3. tree'[c] = t /\ \A d \in Commits : d # c => tree'[d] = tree[d] BY <1>2, Zenon
<1> QED BY <1>1, <1>3, Zenon DEF Grows, CommitsMade

\* The refs after a step that leaves the refs, or writes one row.
LEMMA RefsStay ==
  ASSUME LInv, NEW TT, CommitsMade(TT), Grows(TT), UNCHANGED refs
  PROVE  RefsMade(TT)'
  BY Zenon DEF CommitsMade, Grows, RefsMade
LEMMA RefWritten ==
  ASSUME LInv, NEW TT, CommitsMade(TT), Grows(TT), NEW n \in Names, NEW o,
         refs'[n].oid = o, \A x \in Names : x # n => refs'[x] = refs[x],
         o \in Commits => tree'[o] \in TT
  PROVE  RefsMade(TT)'
  BY DEF CommitsMade, Grows, RefsMade

LEMMA JobStaysMade ==
  ASSUME NEW TT, NEW P, NEW V, NEW k \in Clients, JobMade(TT, P, V, job[k]),
         Grows(TT), job'[k] = job[k]
  PROVE  JobMade(TT, P, V, job[k])'
  BY DEF JobMade, Grows, Pinned, Checking, Mounting

LEMMA RowsStayMade ==
  ASSUME NEW TT, NEW P, NEW V, NEW s \in Sessions, RowsMade(TT, P, V, s),
         Grows(TT), mount'[s] = mount[s], overlay'[s] = overlay[s]
  PROVE  RowsMade(TT, P, V, s)'
  BY Zenon DEF RowsMade, Grows, Pinned, Writable

\* A step that only reads.
LEMMA QuietMade ==
  ASSUME LInv, NEW TT, NEW P, NEW V, MInv(TT, P, V), NEW k \in Clients, NEW j,
         JobSet(k, j), JobTyped(j), ReadOnly, JobMade(TT, P, V, j)
  PROVE  MInv(TT, P, V)' /\ Local(TT)
<1>1. UNCHANGED <<refs, tree, mount, overlay>> BY Zenon DEF ReadOnly, vars, stored, sessionTables
<1>2. Grows(TT) BY <1>1, NoStep, Zenon DEF MInv
<1>3. job'[k] = j /\ \A l \in Clients : l # k => job'[l] = job[l] BY JobWritten, Zenon
<1>4. CommitsMade(TT)' BY <1>1, Zenon DEF MInv, CommitsMade, RefsMade
<1>5. \A s \in Sessions : RowsMade(TT, P, V, s)' BY <1>1, <1>2, RowsStayMade, Zenon DEF MInv
<1>6. \A l \in Clients : JobMade(TT, P, V, job[l])'
  <2>1. JobMade(TT, P, V, job[k])'
    BY <1>1, <1>3, Zenon DEF JobMade, Pinned
  <2> QED BY <1>2, <1>3, <2>1, JobStaysMade, Zenon DEF MInv
<1> QED BY <1>1, <1>2, <1>4, <1>5, <1>6, Zenon DEF MInv, Local

\* A transaction of a client.
LEMMA ClientMade ==
  ASSUME LInv, NEW TT, NEW P, NEW V, MInv(TT, P, V), NEW k \in Clients,
         Grows(TT), RefsMade(TT)', Elsewhere(NsOf[k]), Touches(k),
         \A l \in Clients : l # k => job'[l] = job[l],
         RowsMade(TT, P, V, NsOf[k])', JobMade(TT, P, V, job[k])'
  PROVE  MInv(TT, P, V)' /\ Local(TT)
<1>1. CommitsMade(TT)' BY Zenon DEF CommitsMade, Grows, RefsMade
<1>2. \A s \in Sessions : s # NsOf[k] => mount'[s] = mount[s] /\ overlay'[s] = overlay[s]
  BY Zenon DEF Elsewhere
<1>3. \A s \in Sessions : RowsMade(TT, P, V, s)' BY <1>2, RowsStayMade, Zenon DEF MInv
<1>4. \A l \in Clients : JobMade(TT, P, V, job[l])' BY JobStaysMade, Zenon DEF MInv
<1>5. Local(TT) BY <1>2, Zenon DEF Local
<1> QED BY <1>1, <1>3, <1>4, <1>5, Zenon DEF MInv

\* A finished call, and the end of one.
LEMMA IdleMade ==
  ASSUME NEW TT, NEW P, NEW V PROVE JobMade(TT, P, V, Idle)
  BY Zenon DEF JobMade, Idle, Mounting, Checking

LEMMA FinishedMade ==
  ASSUME LInv, NEW TT, NEW P, NEW V, NEW k \in Clients, JobSet(k, Idle), job[k].phase # "idle"
  PROVE  /\ JobMade(TT, P, V, job[k])' /\ Touches(k)
         /\ \A l \in Clients : l # k => job'[l] = job[l]
<1>1. job'[k] = Idle /\ \A l \in Clients : l # k => job'[l] = job[l]
  BY IdleTyped, JobWritten, Zenon
<1>2. Touches(k) BY <1>1 DEF Touches, Idle
<1> QED BY <1>1, <1>2 DEF JobMade, Idle, Mounting, Checking

-----------------------------------------------------------------------------
(* The steps that only read keep MInv *)

\* What a commit ref names was made.
LEMMA NamedMade ==
  ASSUME LInv, NEW TT, NEW P, NEW V, MInv(TT, P, V), NEW n \in Names, refs[n].oid \in Commits
  PROVE  Pinned(TT, refs[n].oid)
  BY Zenon DEF MInv, CommitsMade, RefsMade, Pinned

\* A writable mount answers from a commit that was made.
LEMMA WritablePinned ==
  ASSUME LInv, NEW TT, NEW P, NEW V, MInv(TT, P, V), NEW s \in Sessions, NEW m \in MountPaths,
         Mounts(s)[m].mode = "rw" \/ Writable(s, m)
  PROVE  /\ Mounts(s)[m].mode = "rw" /\ mount[s][m].mode = "rw" /\ Writable(s, m)
         /\ Mounts(s)[m].base = mount[s][m].base /\ mount[s][m].base # NoOid
         /\ Pinned(TT, mount[s][m].base)
         /\ SessionMountTree(Mounts(s)[m]) = tree[mount[s][m].base]
<1>1. Mounts(s)[m].mode = mount[s][m].mode /\ Mounts(s)[m].base = mount[s][m].base
  BY MountsTyped, Zenon
<1>2. Writable(s, m) /\ mount[s][m].mode = "rw" BY <1>1, Zenon DEF Writable
<1>3. mount[s][m].base # NoOid /\ Pinned(TT, mount[s][m].base)
  BY <1>2, Zenon DEF MInv, RowsMade
<1> QED BY <1>1, <1>2, <1>3, Zenon DEF SessionMountTree

LEMMA SessionOpenMade ==
  ASSUME LInv, NEW TT, NEW P, NEW V, MInv(TT, P, V), NEW k \in Clients, SessionOpen(k, Main)
  PROVE  MInv(TT, P, V)' /\ Local(TT)
<1> DEFINE j == [phase |-> "create", base |-> refs[Main].oid]
<1>1. Main \in Names /\ refs[Main].oid \in Commits BY HeadNames, RefCommit, Zenon DEF SessionOpen, LInv
<1>2. JobTyped(j) BY <1>1, Zenon DEF JobTyped, Mounting, InMount, Checking
<1>3. JobMade(TT, P, V, j) BY <1>1, NamedMade, Zenon DEF JobMade, Mounting, Checking
<1>4. Go(k, j) /\ ReadOnly BY Zenon DEF SessionOpen
<1> HIDE DEF j
<1> QED BY <1>2, <1>3, <1>4, JobMoves, QuietMade, Zenon

LEMMA MountCallMade ==
  ASSUME LInv, NEW TT, NEW P, NEW V, MInv(TT, P, V), NEW k \in Clients, NEW mn \in Mountable,
         NEW rw \in BOOLEAN, MountCall(k, mn[1], mn[2], rw)
  PROVE  MInv(TT, P, V)' /\ Local(TT)
<1> DEFINE m == mn[1]
           n == mn[2]
           j == [phase |-> "retarget", m |-> m, spec |-> n,
                 mode |-> IF rw THEN "rw" ELSE "ro",
                 base |-> IF rw THEN refs[n].oid ELSE NoOid]
<1>1. m \in MountPaths /\ n \in Names BY SessionConstants, Zenon
<1>2. Exists(n) /\ (rw => refs[n].kind = "commit") BY Zenon DEF MountCall
<1>3. rw => refs[n].oid \in Commits BY <1>1, <1>2, RefCommit, Zenon DEF LInv
<1>4. j \in MountJob BY <1>1, <1>3, Zenon DEF MountJob, Mounting
<1>5. j.mode = "rw" => j.base # NoOid BY <1>3, OidTypes, Zenon DEF Oids
<1>6. j.phase = "retarget" BY Zenon
<1>7. j.base # NoOid => Pinned(TT, j.base) BY <1>1, <1>3, NamedMade, Zenon
<1>8. Begin(k, j) /\ ReadOnly BY Zenon DEF MountCall
<1> HIDE DEF j
<1>9. JobTyped(j) BY <1>4, <1>5, <1>6, Zenon DEF JobTyped, Mounting, InMount, Checking
<1>10. JobMade(TT, P, V, j) BY <1>6, <1>7, Zenon DEF JobMade, Checking
<1> QED BY <1>8, <1>9, <1>10, JobMoves, QuietMade, Zenon

LEMMA RefuseRetargetingMade ==
  ASSUME LInv, NEW TT, NEW P, NEW V, MInv(TT, P, V), NEW k \in Clients, RefuseRetargeting(k)
  PROVE  MInv(TT, P, V)' /\ Local(TT)
<1> DEFINE j == [job[k] EXCEPT !.phase = "insert"]
<1>1. job[k].phase = "retarget" /\ JobTyped(job[k]) BY Zenon DEF RefuseRetargeting, AtPhase, LInv
<1>2. job[k] \in MountJob /\ (job[k].mode = "rw" => job[k].base # NoOid)
  BY <1>1, Zenon DEF JobTyped, Mounting
<1>3. /\ j \in MountJob /\ (j.mode = "rw" => j.base # NoOid) /\ j.phase = "insert"
      /\ j.base = job[k].base
  BY <1>2, Zenon DEF MountJob, Mounting
<1>4. ReadOnly /\ (Go(k, j) \/ Go(k, Idle)) BY Zenon DEF RefuseRetargeting, Return
<1> HIDE DEF j
<1>5. JobTyped(j) BY <1>3, Zenon DEF JobTyped, Mounting, InMount, Checking
<1>6. JobMade(TT, P, V, job[k]) BY Zenon DEF MInv
<1>7. JobMade(TT, P, V, j) BY <1>1, <1>3, <1>6, Zenon DEF JobMade, Mounting, Checking
<1> QED BY <1>4, <1>5, <1>7, IdleTyped, IdleMade, JobMoves, QuietMade, Zenon

LEMMA ReadCallMade ==
  ASSUME LInv, NEW TT, NEW P, NEW V, MInv(TT, P, V), NEW k \in Clients, NEW a, ReadCall(k, a)
  PROVE  MInv(TT, P, V)' /\ Local(TT)
<1> DEFINE mts == Mounts(NsOf[k])
           m == LongestMount(mts, a)
           j == [phase |-> "look", m |-> m, mt |-> mts[m], rel |-> RelOf(m, a), to |-> Nothing]
<1>1. m \in MountPaths BY Longest, Zenon DEF ReadCall
<1>2. JobTyped(j) BY <1>1, LookTyped, Zenon
<1>3. JobMade(TT, P, V, j) BY Zenon DEF JobMade, Mounting, Checking
<1>4. Begin(k, j) /\ ReadOnly BY Zenon DEF ReadCall
<1> HIDE DEF j
<1> QED BY <1>2, <1>3, <1>4, JobMoves, QuietMade, Zenon

LEMMA DrainReadMade ==
  ASSUME LInv, NEW TT, NEW P, NEW V, MInv(TT, P, V), NEW k \in Clients, DrainRead(k)
  PROVE  MInv(TT, P, V)' /\ Local(TT)
<1>1. PICK m \in MountPaths : \E p \in DOMAIN seen[NsOf[k]][m] :
         Go(k, [phase |-> "look", m |-> m, mt |-> Mounts(NsOf[k])[m], rel |-> p, to |-> Nothing])
  BY Zenon DEF DrainRead
<1>2. PICK p \in DOMAIN seen[NsOf[k]][m] :
         Go(k, [phase |-> "look", m |-> m, mt |-> Mounts(NsOf[k])[m], rel |-> p, to |-> Nothing])
  BY <1>1, Zenon
<1> DEFINE j == [phase |-> "look", m |-> m, mt |-> Mounts(NsOf[k])[m], rel |-> p, to |-> Nothing]
<1>3. JobTyped(j) BY LookTyped, Zenon
<1>4. JobMade(TT, P, V, j) BY Zenon DEF JobMade, Mounting, Checking
<1>5. Go(k, j) /\ ReadOnly BY <1>2, Zenon DEF DrainRead
<1> HIDE DEF j
<1> QED BY <1>3, <1>4, <1>5, JobMoves, QuietMade, Zenon

LEMMA RenameCallMade ==
  ASSUME LInv, NEW TT, NEW P, NEW V, MInv(TT, P, V), NEW k \in Clients,
         NEW ab \in Moves, RenameCall(k, ab[1], ab[2])
  PROVE  MInv(TT, P, V)' /\ Local(TT)
<1> DEFINE s == NsOf[k]
           mts == Mounts(s)
           a == ab[1]
           b == ab[2]
           m == LongestMount(mts, a)
           j == [phase |-> "look", m |-> m, mt |-> mts[m], rel |-> RelOf(m, a), to |-> RelOf(m, b)]
<1>0. s \in Sessions BY SessionConstants, Zenon
<1>1. /\ Covering(mts, a) # {} /\ Covering(mts, b) # {} /\ m = LongestMount(mts, b)
      /\ mts[m].mode = "rw" /\ RelOf(m, a) # <<>> /\ RelOf(m, b) # <<>>
  BY Zenon DEF RenameCall
<1>2. m \in MountPaths /\ Under(a, m) /\ Under(b, m) BY <1>1, Longest, Zenon
<1>3. JobTyped(j) BY <1>2, LookTyped, Zenon
<1>4. MovePair(RelOf(m, a), RelOf(m, b)) BY <1>1, <1>2, Zenon DEF MovePair, MovesIn
<1>5. Pinned(TT, mts[m].base) BY <1>0, <1>1, <1>2, WritablePinned, Zenon
<1>6. Begin(k, j) /\ ReadOnly BY Zenon DEF RenameCall
<1>7. /\ j.phase = "look" /\ j.mt = mts[m] /\ j.rel = RelOf(m, a) /\ j.to = RelOf(m, b)
  BY Zenon
<1> HIDE DEF j, m, mts
<1>8. JobMade(TT, P, V, j) BY <1>1, <1>4, <1>5, <1>7, Zenon DEF JobMade, Mounting, Checking
<1> QED BY <1>3, <1>6, <1>8, JobMoves, QuietMade, Zenon

LEMMA StageCallMade ==
  ASSUME LInv, NEW TT, NEW P, NEW V, MInv(TT, P, V), TreeLaws(TT, P, V), NEW k \in Clients,
         NEW a \in Touched, NEW v \in Staged, StageCall(k, a, v)
  PROVE  MInv(TT, P, V)' /\ Local(TT)
<1> DEFINE mts == Mounts(NsOf[k])
           m == LongestMount(mts, a)
           j == [phase |-> "stage", m |-> m, rel |-> RelOf(m, a), val |-> v]
<1>1. m \in MountPaths /\ Under(a, m) /\ RelOf(m, a) # <<>> BY Longest, Zenon DEF StageCall
<1>2. JobTyped(j) BY <1>1, LookTyped, Zenon
<1>3. RelOf(m, a) \in P /\ v \in V BY <1>1, Zenon DEF TreeLaws
<1>4. Begin(k, j) /\ ReadOnly BY Zenon DEF StageCall
<1>5. j.phase = "stage" /\ j.rel = RelOf(m, a) /\ j.val = v BY Zenon
<1> HIDE DEF j, m, mts
<1>6. JobMade(TT, P, V, j) BY <1>3, <1>5, Zenon DEF JobMade, Mounting, Checking
<1> QED BY <1>2, <1>4, <1>6, JobMoves, QuietMade, Zenon

LEMMA LookMade ==
  ASSUME LInv, NEW TT, NEW P, NEW V, MInv(TT, P, V), NEW k \in Clients, Look(k)
  PROVE  MInv(TT, P, V)' /\ Local(TT)
<1> DEFINE s == NsOf[k]
           rows == overlay[s][job[k].m]
           t == SessionMountTree(job[k].mt)
           j == [phase |-> "observe", m |-> job[k].m, rel |-> job[k].rel, to |-> job[k].to,
                 rows |-> rows, tree |-> t, saw |-> SeenIn(rows, t, job[k].rel)]
<1>0. s \in Sessions BY SessionConstants, Zenon
<1>1. job[k].phase = "look" /\ job[k].m \in MountPaths
  BY Zenon DEF Look, AtPhase, LInv, JobTyped, InMount
<1>2. JobTyped(j) BY <1>1, LookTyped, Zenon
<1>3. ReadOnly /\ (Go(k, j) \/ Go(k, Idle)) BY Zenon DEF Look, Return
<1>4. rows \in RowsOf(P, V) BY <1>0, <1>1, Zenon DEF MInv, RowsMade
<1>5. JobMade(TT, P, V, job[k]) BY Zenon DEF MInv
<1>6. job[k].to # Nothing =>
        MovePair(job[k].rel, job[k].to) /\ job[k].mt.mode = "rw" /\ Pinned(TT, job[k].mt.base)
  BY <1>1, <1>5, Zenon DEF JobMade
<1>7. job[k].to # Nothing => t \in TT
  <2> SUFFICES ASSUME job[k].to # Nothing PROVE t \in TT BY Zenon
  <2>1. job[k].mt.mode = "rw" /\ job[k].mt.base # NoOid /\ tree[job[k].mt.base] \in TT
    BY <1>6, OidTypes, Zenon DEF Pinned, Oids
  <2> QED BY <2>1, Zenon DEF SessionMountTree
<1>8. /\ j.phase = "observe" /\ j.rel = job[k].rel /\ j.to = job[k].to
      /\ j.rows = rows /\ j.tree = t /\ j.saw = SeenIn(rows, t, job[k].rel)
  BY Zenon
<1> HIDE DEF j, rows, t
<1>9. JobMade(TT, P, V, j) BY <1>4, <1>6, <1>7, <1>8, Zenon DEF JobMade, Mounting, Checking
<1> QED BY <1>2, <1>3, <1>9, IdleTyped, IdleMade, JobMoves, QuietMade, Zenon

LEMMA CheckinCallMade ==
  ASSUME LInv, NEW TT, NEW P, NEW V, MInv(TT, P, V), NEW k \in Clients, NEW m \in MountPaths,
         CheckinCall(k, m) \/ DrainCheckin(k, m)
  PROVE  MInv(TT, P, V)' /\ Local(TT)
<1> DEFINE mts == Mounts(NsOf[k])
           j == [phase |-> "row", m |-> m, mts |-> mts]
<1>0. NsOf[k] \in Sessions BY SessionConstants, Zenon
<1>1. JobTyped(j) BY CheckinBegins, Zenon DEF CheckinCall, DrainCheckin
<1>2. ReadOnly /\ (Begin(k, j) \/ Go(k, j)) BY Zenon DEF CheckinCall, DrainCheckin
<1>3. Writable(NsOf[k], m) BY Zenon DEF CheckinCall, DrainCheckin, CheckinReady, Writable
<1>4. Pinned(TT, mts[m].base) BY <1>0, <1>3, WritablePinned, Zenon
<1>5. j.phase = "row" /\ j.m = m /\ j.mts = mts BY Zenon
<1> HIDE DEF j, mts
<1>6. JobMade(TT, P, V, j) BY <1>4, <1>5, Zenon DEF JobMade, Mounting
<1> QED BY <1>1, <1>2, <1>6, JobMoves, QuietMade, Zenon

LEMMA CheckinStepsMade ==
  ASSUME LInv, NEW TT, NEW P, NEW V, MInv(TT, P, V), TreeLaws(TT, P, V), NEW k \in Clients,
         CheckinRow(k) \/ CheckinRows(k) \/ CheckinCheck(k) \/ CheckinOutside(k)
  PROVE  MInv(TT, P, V)' /\ Local(TT)
<1> DEFINE s == NsOf[k]
           m == job[k].m
           mts == job[k].mts
           row == refs[mts[m].spec].oid
           rows == overlay[s][m]
           new == Fold(tree[mts[m].base], job[k].rows)
           r == Contribution(mts[m].base, m, job[k].rows, job[k].reads)
           j1 == [phase |-> "rows", m |-> m, mts |-> mts, row |-> row]
           j2 == [phase |-> "check", m |-> m, mts |-> mts, row |-> job[k].row,
                  rows |-> rows, reads |-> ContributionReads(seen[s]),
                  clash |-> AmbiguousReads(seen[s])]
           j3 == [phase |-> "outside", m |-> m, mts |-> mts]
           j4 == [phase |-> "cas", m |-> m, spec |-> mts[m].spec, tree |-> new, contrib |-> r]
           j5 == [phase |-> "noop", m |-> m, base |-> mts[m].base]
           Fits(j) == JobTyped(j) /\ JobMade(TT, P, V, j)
<1>0. s \in Sessions BY SessionConstants, Zenon
<1>1. job[k].phase \in Checking
  BY Zenon DEF CheckinRow, CheckinRows, CheckinCheck, CheckinOutside, AtPhase, Checking
<1>2. /\ m \in MountPaths /\ mts \in [MountPaths -> MountRow]
      /\ mts[m].mode = "rw" /\ mts[m].base # NoOid /\ mts[m].spec # NoName
  BY <1>1, CheckingJob, Zenon
<1>3. r.base = mts[m].base BY Zenon DEF Contribution
<1>4. /\ ReadOnly
      /\ \/ Go(k, Idle) \/ Go(k, j1) \/ Go(k, j2) \/ Go(k, j3) \/ Go(k, j5)
         \/ job[k].phase = "check" /\ Go(k, j4)
  BY Zenon DEF CheckinRow, CheckinRows, CheckinCheck, CheckinOutside, AtPhase, Return
<1>5. JobMade(TT, P, V, job[k]) BY Zenon DEF MInv
<1>6. Pinned(TT, mts[m].base) BY <1>1, <1>5, Zenon DEF JobMade
<1>7. rows \in RowsOf(P, V) BY <1>0, <1>2, Zenon DEF MInv, RowsMade
<1>8. job[k].phase = "check" => new \in TT
  BY <1>5, <1>6, Zenon DEF JobMade, Pinned, TreeLaws
<1> HIDE DEF r, new, row, rows, mts, m
<1>9. Fits(j1) BY <1>2, <1>3, <1>6, CheckingTyped, Zenon DEF JobMade, Mounting
<1>10. Fits(j2) BY <1>2, <1>3, <1>6, <1>7, CheckingTyped, Zenon DEF JobMade, Mounting
<1>11. Fits(j3) BY <1>2, <1>3, <1>6, CheckingTyped, Zenon DEF JobMade, Mounting
<1>12. job[k].phase = "check" => Fits(j4)
  BY <1>2, <1>3, <1>8, CheckingTyped, Zenon DEF JobMade, Mounting, Checking
<1>13. Fits(j5) BY <1>2, <1>3, <1>6, CheckingTyped, Zenon DEF JobMade, Mounting, Checking
<1> HIDE DEF j1, j2, j3, j4, j5
<1>14. ASSUME NEW j, Fits(j), Go(k, j) PROVE MInv(TT, P, V)' /\ Local(TT)
  BY <1>4, <1>14, JobMoves, QuietMade, Zenon
<1>15. Fits(Idle) BY IdleTyped, IdleMade, Zenon
<1> HIDE DEF Fits
<1> QED BY <1>4, <1>9, <1>10, <1>11, <1>12, <1>13, <1>14, <1>15, Zenon

-----------------------------------------------------------------------------
(* The transactions keep MInv *)

LEMMA CreateMade ==
  ASSUME LInv, NEW TT, NEW P, NEW V, MInv(TT, P, V), NEW k \in Clients, NEW mountMain \in BOOLEAN,
         Create(k, mountMain)
  PROVE  MInv(TT, P, V)' /\ Local(TT)
<1> DEFINE s == NsOf[k]
           base == job[k].base
           n == LiveRef[s]
<1>0. s \in Sessions /\ n \in Names BY SessionConstants, HeadNames, Zenon
<1>1. job[k].phase = "create" /\ JobTyped(job[k]) /\ JobMade(TT, P, V, job[k])
  BY Zenon DEF Create, AtPhase, LInv, MInv
<1>2. base \in Commits /\ Pinned(TT, base) BY <1>1, Zenon DEF JobTyped, JobMade
<1>3. JobSet(k, Idle) BY JobMoves, Zenon DEF Create, Return
<1>4. CASE ReadOnly BY <1>3, <1>4, IdleTyped, IdleMade, QuietMade, Zenon
<1>5. CASE ~ReadOnly
  <2>1. /\ CreateSession(s, base, mountMain)
        /\ pin'   = [pin EXCEPT ![s] = base]
        /\ mount' = [mount EXCEPT
                       ![s][Root] = [mode |-> "rw", base |-> base],
                       ![s][MainPath] = IF mountMain THEN [mode |-> "ro", base |-> NoOid] ELSE @]
        /\ UNCHANGED <<stored, overlay, seen, foreign>>
    BY <1>5, Zenon DEF Create
  <2>2. Created(s, base, mountMain) /\ Elsewhere(s) BY <1>0, <1>2, <2>1, CreateWrites, Zenon
  <2>3. UNCHANGED <<tree, overlay>> BY <2>2, Zenon DEF Created
  <2>4. Grows(TT) BY <2>3, NoStep, Zenon DEF MInv
  <2>5. refs'[n].oid = base /\ \A x \in Names : x # n => refs'[x] = refs[x]
    <3>1. refs' = [refs EXCEPT ![n] = Row(base, "commit")] BY <2>1, Zenon DEF CreateSession
    <3>2. DOMAIN refs = Names BY Zenon DEF LInv, SessionTypeOK, TypeOK
    <3> QED BY <1>0, <3>1, <3>2, Zenon DEF Row
  <2>6. RefsMade(TT)' BY <1>0, <1>2, <2>3, <2>4, <2>5, RefWritten, Zenon DEF Pinned, MInv
  <2>7. base # NoOid BY <1>2, OidTypes, Zenon DEF Oids
  <2>8. RowsMade(TT, P, V, s) BY <1>0, Zenon DEF MInv
  <2>9. RowsMade(TT, P, V, s)'
    <3> SUFFICES ASSUME NEW m \in MountPaths
                 PROVE  /\ mount'[s][m].base # NoOid => Pinned(TT, mount'[s][m].base)
                        /\ mount'[s][m].mode = "rw" => mount'[s][m].base # NoOid
                        /\ overlay[s][m] \in RowsOf(P, V)
      BY <2>3, Zenon DEF RowsMade, Pinned, Writable
    <3>1. \/ mount'[s][m].mode = "rw" /\ mount'[s][m].base = base
          \/ mount'[s][m].mode = "ro" /\ mount'[s][m].base = NoOid
          \/ mount'[s][m] = mount[s][m]
      BY ONLY <2>2 DEF Created
    <3> QED BY ONLY <1>2, <2>7, <2>8, <3>1 DEF RowsMade, Writable
  <2> QED BY <1>1, <1>3, <2>2, <2>4, <2>6, <2>9, FinishedMade, ClientMade, Zenon
<1> QED BY <1>4, <1>5, Zenon

LEMMA MountTxnMade ==
  ASSUME LInv, NEW TT, NEW P, NEW V, MInv(TT, P, V), NEW k \in Clients, MountTxn(k)
  PROVE  MInv(TT, P, V)' /\ Local(TT)
<1> DEFINE s == NsOf[k]
           m == job[k].m
           n == job[k].spec
           mt == [mode |-> job[k].mode, base |-> job[k].base]
<1>0. s \in Sessions BY SessionConstants, Zenon
<1>1. job[k].phase = "insert" /\ JobTyped(job[k]) /\ JobMade(TT, P, V, job[k])
  BY Zenon DEF MountTxn, AtPhase, LInv, MInv
<1>2. /\ job[k] \in MountJob /\ (job[k].mode = "rw" => job[k].base # NoOid)
      /\ (job[k].base # NoOid => Pinned(TT, job[k].base))
  BY <1>1, Zenon DEF JobTyped, JobMade, Mounting
<1>3. m \in MountPaths /\ n \in Names BY <1>2, Zenon DEF MountJob
<1>4. (mt.mode = "rw" => mt.base # NoOid) /\ (mt.base # NoOid => Pinned(TT, mt.base))
  BY <1>2, Zenon
<1>5. JobSet(k, Idle) BY JobMoves, Zenon DEF MountTxn, Return
<1>6. InsertMount(s, m, n) /\ mount' = [mount EXCEPT ![s][m] = mt]
      /\ UNCHANGED <<stored, pin, overlay, seen, foreign>>
  BY Zenon DEF MountTxn
<1> HIDE DEF mt
<1>7. Remounted(s, m, n, mt) /\ Elsewhere(s) BY <1>0, <1>3, <1>6, MountWrites, Zenon
<1>8. UNCHANGED <<refs, tree, overlay>> BY <1>7, Zenon DEF Remounted
<1>9. Grows(TT) /\ RefsMade(TT)' BY <1>8, NoStep, RefsStay, Zenon DEF MInv
<1>10. RowsMade(TT, P, V, s) BY <1>0, Zenon DEF MInv
<1>11. RowsMade(TT, P, V, s)'
  BY ONLY <1>3, <1>4, <1>7, <1>8, <1>10, Zenon DEF RowsMade, Remounted, Pinned, Writable
<1> QED BY <1>1, <1>5, <1>7, <1>9, <1>11, FinishedMade, ClientMade, Zenon

\* What a rename stages at its destination.
LEMMA MoveRows ==
  ASSUME NEW TT, NEW P, NEW V, TreeLaws(TT, P, V), NEW p, NEW q, MovePair(p, q)
  PROVE  /\ p \in P
         /\ \A t \in TT, rows \in RowsOf(P, V) :
              SeenIn(rows, t, p) # Absent => Destinations(rows, t, p, q) \in RowsOf(P, V)
<1>1. PICK m \in MountPaths, ab \in Moves :
         MovesIn(m, ab) /\ p = RelOf(m, ab[1]) /\ q = RelOf(m, ab[2])
  BY Zenon DEF MovePair
<1> QED BY <1>1, Zenon DEF TreeLaws

LEMMA ObserveMade ==
  ASSUME LInv, NEW TT, NEW P, NEW V, MInv(TT, P, V), TreeLaws(TT, P, V), NEW k \in Clients,
         Observe(k)
  PROVE  MInv(TT, P, V)' /\ Local(TT)
<1> DEFINE s == NsOf[k]
           m == job[k].m
           rows == With(seen[s][m], job[k].rel, job[k].saw)
           dest == Destinations(job[k].rows, job[k].tree, job[k].rel, job[k].to)
           j == [phase |-> "move", m |-> m, rel |-> job[k].rel, to |-> job[k].to, rows |-> dest]
<1>0. s \in Sessions BY SessionConstants, Zenon
<1>1. job[k].phase = "observe" /\ JobTyped(job[k]) /\ JobMade(TT, P, V, job[k])
  BY Zenon DEF Observe, AtPhase, LInv, MInv
<1>2. m \in MountPaths BY <1>1, Zenon DEF JobTyped, InMount
<1>3. /\ seen' = [seen EXCEPT ![s][m] = rows]
      /\ UNCHANGED <<vars, stored, pin, mount, overlay, foreign>>
  BY Zenon DEF Observe
<1> HIDE DEF rows
<1>4. Elsewhere(s) BY <1>0, <1>2, <1>3, ObserveWrites, Zenon
<1>5. UNCHANGED <<refs, tree, mount, overlay>> BY <1>3, Zenon DEF vars, stored
<1>6. Grows(TT) /\ RefsMade(TT)' BY <1>5, NoStep, RefsStay, Zenon DEF MInv
<1>7. RowsMade(TT, P, V, s)' BY <1>0, <1>5, <1>6, RowsStayMade, Zenon DEF MInv
<1>8. JobTyped(j) BY <1>2, LookTyped, Zenon
<1>9. j.phase = "move" /\ j.rel = job[k].rel /\ j.rows = dest BY Zenon
<1>10. Go(k, Idle) \/ (Go(k, j) /\ job[k].to # Nothing /\ job[k].saw # Absent)
  BY Zenon DEF Observe, Return
<1> HIDE DEF j
<1>11. CASE Go(k, Idle)
  BY <1>1, <1>4, <1>6, <1>7, <1>11, JobMoves, FinishedMade, ClientMade, Zenon
<1>12. CASE Go(k, j) /\ job[k].to # Nothing /\ job[k].saw # Absent
  <2>1. /\ MovePair(job[k].rel, job[k].to) /\ job[k].tree \in TT /\ job[k].rows \in RowsOf(P, V)
        /\ SeenIn(job[k].rows, job[k].tree, job[k].rel) # Absent
    BY <1>1, <1>12, Zenon DEF JobMade
  <2>2. job[k].rel \in P /\ dest \in RowsOf(P, V) BY <2>1, MoveRows, Zenon
  <2>3. job'[k] = j /\ \A l \in Clients : l # k => job'[l] = job[l]
    BY <1>8, <1>12, JobMoves, JobWritten, Zenon
  <2>4. Touches(k) BY <1>1, <1>9, <2>3, Zenon DEF Touches
  <2> HIDE DEF dest
  <2>5. JobMade(TT, P, V, job[k])'
    BY <1>9, <2>2, <2>3, Zenon DEF JobMade, Mounting, Checking
  <2> QED BY <1>4, <1>6, <1>7, <2>3, <2>4, <2>5, ClientMade, Zenon
<1> QED BY <1>10, <1>11, <1>12, Zenon

\* The rows overlay_upsert and overlay_rename leave are rows.
LEMMA RowsOfDef ==
  ASSUME NEW P, NEW V, NEW rows
  PROVE  rows \in RowsOf(P, V) <=>
           /\ rows = [p \in DOMAIN rows |-> rows[p]] /\ DOMAIN rows \subseteq P
           /\ \A p \in DOMAIN rows : rows[p] \in V
<1>1. ASSUME rows \in RowsOf(P, V)
      PROVE  /\ rows = [p \in DOMAIN rows |-> rows[p]] /\ DOMAIN rows \subseteq P
             /\ \A p \in DOMAIN rows : rows[p] \in V
  <2>1. PICK S \in SUBSET P : rows \in [S -> V] BY <1>1, Zenon DEF RowsOf
  <2> QED BY <2>1, Zenon
<1>2. ASSUME /\ rows = [p \in DOMAIN rows |-> rows[p]] /\ DOMAIN rows \subseteq P
             /\ \A p \in DOMAIN rows : rows[p] \in V
      PROVE  rows \in RowsOf(P, V)
  <2>1. rows \in [DOMAIN rows -> V] BY <1>2, Zenon
  <2> QED BY <1>2, <2>1, Zenon DEF RowsOf
<1> QED BY <1>1, <1>2, Zenon

LEMMA StageMade ==
  ASSUME LInv, NEW TT, NEW P, NEW V, MInv(TT, P, V), TreeLaws(TT, P, V), NEW k \in Clients,
         Move(k) \/ Upsert(k)
  PROVE  MInv(TT, P, V)' /\ Local(TT)
<1> DEFINE s == NsOf[k]
           m == job[k].m
           ov == overlay[s][m]
           kept == {p \in DOMAIN ov : ~Under(p, job[k].rel) /\ ~Under(p, job[k].to)}
           moved == [p \in kept \cup DOMAIN job[k].rows \cup {job[k].rel} |->
                       IF p = job[k].rel THEN Tomb
                       ELSE IF p \in DOMAIN job[k].rows THEN job[k].rows[p] ELSE ov[p]]
           new == With(ov, job[k].rel, job[k].val)
<1>0. s \in Sessions BY SessionConstants, Zenon
<1>1. /\ job[k].phase \in {"move", "stage"} /\ JobTyped(job[k]) /\ JobMade(TT, P, V, job[k])
  BY Zenon DEF Move, Upsert, AtPhase, LInv, MInv
<1>2. m \in MountPaths BY <1>1, Zenon DEF JobTyped, InMount
<1>3. UNCHANGED <<vars, stored, pin, mount, seen, foreign>> /\ Go(k, Idle)
  BY Zenon DEF Move, Upsert, Return
<1>4. JobSet(k, Idle) BY <1>3, JobMoves, Zenon
<1>5. ov \in RowsOf(P, V) BY <1>0, <1>2, Zenon DEF MInv, RowsMade
<1>9. DOMAIN ov \subseteq P /\ \A p \in DOMAIN ov : ov[p] \in V BY <1>5, RowsOfDef
<1>6. \/ UNCHANGED overlay
      \/ \E rows \in RowsOf(P, V) : overlay' = [overlay EXCEPT ![s][m] = rows]
  <2>1. CASE Move(k)
    <3>1. job[k].rel \in P /\ job[k].rows \in RowsOf(P, V)
      BY <1>1, <2>1, Zenon DEF Move, AtPhase, JobMade
    <3>2. Tomb \in V BY Zenon DEF TreeLaws
    <3>3. moved \in RowsOf(P, V)
      <4>0. DOMAIN job[k].rows \subseteq P /\ \A p \in DOMAIN job[k].rows : job[k].rows[p] \in V
        BY <3>1, RowsOfDef, Zenon
      <4>1. DOMAIN moved \subseteq P /\ \A p \in DOMAIN moved : moved[p] \in V
        BY ONLY <1>9, <3>1, <3>2, <4>0, Zenon
      <4>2. moved = [p \in DOMAIN moved |-> moved[p]] BY Zenon
      <4> HIDE DEF moved
      <4> QED BY <4>1, <4>2, RowsOfDef, Zenon
    <3>4. UNCHANGED overlay \/ overlay' = [overlay EXCEPT ![s][m] = moved]
      BY <2>1, Zenon DEF Move
    <3> QED BY <3>3, <3>4, Zenon
  <2>2. CASE Upsert(k)
    <3>1. job[k].rel \in P /\ job[k].val \in V BY <1>1, <2>2, Zenon DEF Upsert, AtPhase, JobMade
    <3>2. new \in RowsOf(P, V)
      <4>1. DOMAIN new \subseteq P /\ \A p \in DOMAIN new : new[p] \in V
        BY ONLY <1>9, <3>1, Zenon DEF With
      <4>2. new = [p \in DOMAIN new |-> new[p]] BY Zenon DEF With
      <4> HIDE DEF new
      <4> QED BY <4>1, <4>2, RowsOfDef, Zenon
    <3>3. UNCHANGED overlay \/ overlay' = [overlay EXCEPT ![s][m] = new]
      BY <2>2, Zenon DEF Upsert
    <3> QED BY <3>2, <3>3, Zenon
  <2> QED BY <2>1, <2>2, Zenon
<1>7. CASE UNCHANGED overlay
  <2>1. ReadOnly BY <1>3, <1>7, Zenon DEF ReadOnly, sessionTables
  <2> QED BY <1>4, <2>1, IdleTyped, IdleMade, QuietMade, Zenon
<1>8. CASE \E rows \in RowsOf(P, V) : overlay' = [overlay EXCEPT ![s][m] = rows]
  <2>1. PICK rows \in RowsOf(P, V) : overlay' = [overlay EXCEPT ![s][m] = rows] BY <1>8, Zenon
  <2>2. StagedRows(s, m, rows) /\ Elsewhere(s) BY <1>0, <1>2, <1>3, <2>1, StageWrites, Zenon
  <2>3. UNCHANGED <<refs, tree, mount>> BY <1>3, Zenon DEF vars, stored
  <2>4. Grows(TT) /\ RefsMade(TT)' BY <2>3, NoStep, RefsStay, Zenon DEF MInv
  <2>5. RowsMade(TT, P, V, s) BY <1>0, Zenon DEF MInv
  <2>6. RowsMade(TT, P, V, s)'
    BY <2>1, <2>2, <2>3, <2>5, Zenon DEF RowsMade, StagedRows, Pinned, Writable
  <2>7. job[k].phase # "idle" BY <1>1, Zenon
  <2> QED BY <1>4, <2>2, <2>4, <2>6, <2>7, FinishedMade, ClientMade, Zenon
<1> QED BY <1>6, <1>7, <1>8, Zenon

\* The rows of a mount that both ends of a checkin leave.
LEMMA SettledMade ==
  ASSUME LInv, NEW TT, NEW P, NEW V, NEW s \in Sessions, RowsMade(TT, P, V, s), Grows(TT),
         NEW m \in MountPaths, NEW c \in Commits, tree'[c] \in TT, Settled(s, m, c)
  PROVE  RowsMade(TT, P, V, s)'
<1>1. c # NoOid BY OidTypes, Zenon DEF Oids
<1>2. Nothing \in RowsOf(P, V) BY NoRows, Zenon
<1>3. \A o \in MountPaths : o # m =>
        /\ mount'[s][o] = mount[s][o] /\ overlay'[s][o] = overlay[s][o]
        /\ mount[s][o].base # NoOid => mount[s][o].base \in Commits /\ tree'[mount[s][o].base] \in TT
  BY Zenon DEF Settled, RowsMade, Pinned, Grows
<1>4. mount'[s][m].base = c /\ overlay'[s][m] = Nothing BY Zenon DEF Settled
<1> QED BY <1>1, <1>2, <1>3, <1>4, Zenon DEF RowsMade, Pinned, Writable

LEMMA NoopMade ==
  ASSUME LInv, NEW TT, NEW P, NEW V, MInv(TT, P, V), NEW k \in Clients, NoopTxn(k)
  PROVE  MInv(TT, P, V)' /\ Local(TT)
<1> DEFINE s == NsOf[k]
           m == job[k].m
           c == job[k].base
<1>0. s \in Sessions BY SessionConstants, Zenon
<1>1. job[k].phase = "noop" /\ JobTyped(job[k]) /\ JobMade(TT, P, V, job[k])
  BY Zenon DEF NoopTxn, AtPhase, LInv, MInv
<1>2. m \in MountPaths /\ c \in Commits /\ tree[c] \in TT
  BY <1>1, Zenon DEF JobTyped, JobMade, Pinned, InMount
<1>3. UNCHANGED <<vars, stored, foreign>> /\ Go(k, Idle) BY Zenon DEF NoopTxn, Return
<1>4. JobSet(k, Idle) BY <1>3, JobMoves, Zenon
<1>5. CASE UNCHANGED sessionTables
  <2>1. ReadOnly BY <1>3, <1>5, Zenon DEF ReadOnly
  <2> QED BY <1>4, <2>1, IdleTyped, IdleMade, QuietMade, Zenon
<1>6. CASE Settle(s, m, c)
  <2>1. Settled(s, m, c) /\ SettledElsewhere(s) BY <1>0, <1>2, <1>6, SettleWrites, Zenon
  <2>2. UNCHANGED <<refs, tree, live, spec>> BY <1>3, Zenon DEF vars, stored
  <2>3. Elsewhere(s) BY <2>1, <2>2, Zenon DEF SettledElsewhere, Elsewhere
  <2>4. Grows(TT) /\ RefsMade(TT)' BY <2>2, NoStep, RefsStay, Zenon DEF MInv
  <2>5. RowsMade(TT, P, V, s)' BY <1>0, <1>2, <2>1, <2>2, <2>4, SettledMade, Zenon DEF MInv
  <2>6. job[k].phase # "idle" BY <1>1, Zenon
  <2> QED BY <1>4, <2>3, <2>4, <2>5, <2>6, FinishedMade, ClientMade, Zenon
<1> QED BY <1>5, <1>6, Zenon DEF NoopTxn

LEMMA CasMade ==
  ASSUME LInv, NEW TT, NEW P, NEW V, MInv(TT, P, V), TreeLaws(TT, P, V), NEW k \in Clients,
         CasTxn(k)
  PROVE  MInv(TT, P, V)' /\ Local(TT)
<1> DEFINE s == NsOf[k]
           j == job[k]
<1>0. s \in Sessions BY SessionConstants, Zenon
<1>1. j.phase = "cas" /\ JobTyped(j) /\ JobMade(TT, P, V, j) /\ CanMake
  BY Zenon DEF CasTxn, AtPhase, LInv, MInv
<1>2. j.m \in MountPaths /\ j.spec \in Names /\ j.tree \in TT
  BY <1>1, Zenon DEF JobTyped, JobMade, InMount
<1>3. JobSet(k, Idle) BY JobMoves, Zenon DEF CasTxn, Return
<1>4. CASE ReadOnly BY <1>3, <1>4, IdleTyped, IdleMade, QuietMade, Zenon
<1>5. CASE ~ReadOnly
  <2>1. PICK c \in Commits : Published(k, c) BY <1>5, CasWrites, Zenon
  <2>2. /\ CasRefSession(s, j.m, j.spec, j.contrib.base, c) /\ Fresh(c)
        /\ tree' = [tree EXCEPT ![c] = j.tree] /\ Settled(s, j.m, c) /\ Elsewhere(s)
    BY <2>1, Zenon DEF Published
  <2>0. NoTree \notin TT /\ CommitsMade(TT) BY Zenon DEF MInv, TreeLaws
  <2> DEFINE t == j.tree
  <2>3. Grows(TT) /\ tree'[c] = t
    <3>1. t \in TT /\ tree' = [tree EXCEPT ![c] = t] BY <1>2, <2>2, Zenon
    <3> HIDE DEF t
    <3> QED BY <1>1, <2>0, <2>2, <3>1, FreshGrows, Zenon
  <2>4. \E n \in Names : refs'[n].oid = c /\ \A x \in Names : x # n => refs'[x] = refs[x]
    <3>1. DOMAIN refs = Names BY Zenon DEF LInv, SessionTypeOK, TypeOK
    <3>2. CASE refs' = [refs EXCEPT ![j.spec] = Moved(refs[j.spec], c)]
      BY <1>2, <3>1, <3>2, Zenon DEF Moved
    <3>3. CASE \E f \in Forks : refs' = [refs EXCEPT ![f] = Row(c, "commit")]
      BY <3>1, <3>3, HeadNames DEF Row
    <3> QED BY <2>2, <3>2, <3>3, Zenon DEF CasRefSession, MoveRef, ForkRef
  <2>5. RefsMade(TT)' BY <1>2, <2>3, <2>4, RefWritten, Zenon DEF MInv
  <2>6. RowsMade(TT, P, V, s)' BY <1>0, <1>2, <2>2, <2>3, SettledMade, Zenon DEF MInv
  <2>7. j.phase # "idle" BY <1>1, Zenon
  <2> QED BY <1>3, <2>2, <2>3, <2>5, <2>6, <2>7, FinishedMade, ClientMade, Zenon
<1> QED BY <1>4, <1>5, Zenon

LEMMA AbandonMade ==
  ASSUME LInv, NEW TT, NEW P, NEW V, MInv(TT, P, V), NEW k \in Clients, NEW discard,
         Abandon(k, discard)
  PROVE  MInv(TT, P, V)' /\ Local(TT)
<1> DEFINE s == NsOf[k]
<1>1. Closed(s) /\ Elsewhere(s) BY AbandonWrites, Zenon
<1>2. job' = job /\ job[k] = Idle BY Zenon DEF Abandon
<1>3. UNCHANGED <<refs, tree>> BY <1>1, Zenon DEF Closed
<1>4. Grows(TT) /\ RefsMade(TT)' BY <1>3, NoStep, RefsStay, Zenon DEF MInv
<1>5. RowsMade(TT, P, V, s)'
  BY <1>1, ClosedMade, Zenon
<1>6. JobMade(TT, P, V, job[k])' BY <1>2, <1>4, JobStaysMade, Zenon DEF MInv
<1>7. Touches(k)
  <2>1. calls \in [Clients -> 0..MaxCalls] BY Zenon DEF LInv, SessionTypeOK
  <2>2. calls[k] \in Nat /\ calls'[k] = calls[k] + 1 BY <2>1, SessionConstants DEF Abandon
  <2> QED BY ONLY <2>2 DEF Touches
<1> QED BY <1>1, <1>2, <1>4, <1>5, <1>6, <1>7, ClientMade, Zenon

\* The refs after a transaction of the other agents.
LEMMA OthersRefs ==
  ASSUME LInv, NEW TT, NEW P, NEW V, MInv(TT, P, V), TreeLaws(TT, P, V), Others
  PROVE  Grows(TT) /\ RefsMade(TT)'
<1>0. DOMAIN refs = Names BY Zenon DEF LInv, SessionTypeOK, TypeOK
<1>1. CASE Branch
  <2>1. refs[Main].oid \in Commits /\ Main \in Names /\ Shared \in Names
    BY HeadNames, RefCommit, Zenon DEF LInv
  <2>2. UNCHANGED tree /\ refs' = [refs EXCEPT ![Shared] = Row(refs[Main].oid, "commit")]
    BY <1>1, Zenon DEF Branch, InsertRef, stored
  <2>3. refs'[Shared].oid = refs[Main].oid /\ \A x \in Names : x # Shared => refs'[x] = refs[x]
    BY <1>0, <2>1, <2>2, Zenon DEF Row
  <2>4. Grows(TT) BY <2>2, NoStep, Zenon DEF MInv
  <2>5. tree'[refs[Main].oid] \in TT BY <2>1, <2>2, NamedMade, Zenon DEF Pinned
  <2> QED BY <2>1, <2>3, <2>4, <2>5, RefWritten, Zenon DEF MInv
<1>2. ASSUME NEW n \in {Main, Shared}, NEW t \in Foreign, Publish(n, t)
      PROVE  Grows(TT) /\ RefsMade(TT)'
  <2>1. n \in Names /\ n \in Heads BY HeadNames, Zenon
  <2>2. PICK c \in Commits : Fresh(c) /\ CasRef(n, "commit", refs[n].oid, c, TRUE)
                             /\ tree' = [tree EXCEPT ![c] = t]
    BY <1>2, Zenon DEF Publish
  <2>3. t \in TT /\ NoTree \notin TT /\ CanMake BY <1>2, Zenon DEF Publish, TreeLaws
  <2>4. Grows(TT) /\ tree'[c] = t BY <2>2, <2>3, FreshGrows, Zenon DEF MInv
  <2>5. \E r \in {Row(c, "commit"), Moved(refs[n], c)} : refs' = [refs EXCEPT ![n] = r]
    BY <1>2, <2>2, Zenon DEF CasRef, CasCreate, MoveRef, Publish
  <2>6. refs'[n].oid = c /\ \A x \in Names : x # n => refs'[x] = refs[x]
    BY <1>0, <2>1, <2>5 DEF Row, Moved
  <2> QED BY <2>1, <2>3, <2>4, <2>6, RefWritten, Zenon DEF MInv
<1>3. ASSUME NEW f \in Forks, Retire(f) PROVE Grows(TT) /\ RefsMade(TT)'
  <2>1. f \in Names BY HeadNames, Zenon
  <2>2. UNCHANGED tree /\ refs' = [refs EXCEPT ![f] = NoRow]
    BY <1>3, Zenon DEF Retire, AbandonRef, stored
  <2>3. refs'[f].oid = NoOid /\ \A x \in Names : x # f => refs'[x] = refs[x]
    BY <1>0, <2>1, <2>2, Zenon DEF NoRow
  <2>4. Grows(TT) BY <2>2, NoStep, Zenon DEF MInv
  <2>5. NoOid \notin Commits BY OidTypes, Zenon DEF Oids
  <2> QED BY <2>1, <2>3, <2>4, <2>5, RefWritten, Zenon DEF MInv
<1> QED BY <1>1, <1>2, <1>3, Zenon DEF Others

LEMMA OthersMade ==
  ASSUME LInv, NEW TT, NEW P, NEW V, MInv(TT, P, V), TreeLaws(TT, P, V), Others
  PROVE  MInv(TT, P, V)' /\ Local(TT)
<1>1. UNCHANGED <<mount, overlay, job>> BY OthersStep, Zenon DEF sessionTables
<1>2. Grows(TT) /\ RefsMade(TT)' BY OthersRefs, Zenon
<1>3. CommitsMade(TT)' BY <1>2, Zenon DEF CommitsMade, Grows
<1>4. \A s \in Sessions : RowsMade(TT, P, V, s)' BY <1>1, <1>2, RowsStayMade, Zenon DEF MInv
<1>5. \A l \in Clients : JobMade(TT, P, V, job[l])' BY <1>1, <1>2, JobStaysMade, Zenon DEF MInv
<1> QED BY <1>1, <1>2, <1>3, <1>4, <1>5, Zenon DEF MInv, Local

LEMMA SessionStepMade ==
  ASSUME LInv, NEW TT, NEW P, NEW V, MInv(TT, P, V), TreeLaws(TT, P, V), [SessionNext]_svars
  PROVE  MInv(TT, P, V)' /\ Local(TT)
<1>1. ASSUME NEW k \in Clients, Call(k) PROVE MInv(TT, P, V)' /\ Local(TT)
  BY <1>1, SessionOpenMade, MountCallMade, ReadCallMade, StageCallMade, RenameCallMade,
     CheckinCallMade, AbandonMade, Zenon DEF Call
<1>2. ASSUME NEW k \in Clients, Step(k) PROVE MInv(TT, P, V)' /\ Local(TT)
  BY <1>2, CreateMade, RefuseRetargetingMade, MountTxnMade, LookMade, ObserveMade,
     StageMade, CheckinStepsMade, NoopMade, CasMade, Zenon DEF Step
<1>3. ASSUME NEW k \in Clients, Drain(k) PROVE MInv(TT, P, V)' /\ Local(TT)
  BY <1>3, DrainReadMade, CheckinCallMade, Zenon DEF Drain
<1>4. CASE UNCHANGED svars
  <2>1. UNCHANGED <<refs, tree, mount, overlay, job>>
    BY <1>4, Zenon DEF svars, vars, stored, sessionTables
  <2>2. Grows(TT) BY <2>1, NoStep, Zenon DEF MInv
  <2>3. \A s \in Sessions : RowsMade(TT, P, V, s)' BY <2>1, <2>2, RowsStayMade, Zenon DEF MInv
  <2>4. \A l \in Clients : JobMade(TT, P, V, job[l])' BY <2>1, <2>2, JobStaysMade, Zenon DEF MInv
  <2>5. CommitsMade(TT)' BY <2>1, Zenon DEF MInv, CommitsMade, RefsMade
  <2> QED BY <2>1, <2>2, <2>3, <2>4, <2>5, Zenon DEF MInv, Local
<1> QED BY <1>1, <1>2, <1>3, <1>4, OthersMade, Zenon DEF SessionNext

LEMMA MadeStarts ==
  ASSUME NEW TT, NEW P, NEW V, TreeLaws(TT, P, V), SessionInit
  PROVE  MInv(TT, P, V)
<1>1. PICK t \in Starts : tree = [c \in Commits |-> IF c = First THEN t ELSE NoTree]
  BY Zenon DEF SessionInit
<1>2. t \in TT BY Zenon DEF TreeLaws
<1>3. First \in Commits /\ NoOid \notin Commits BY OidTypes, Zenon DEF Oids
<1>4. \A n \in Names : refs[n].oid \in {First, NoOid} BY Zenon DEF SessionInit, Init, NoRow
<1>5. CommitsMade(TT) BY <1>1, <1>2, <1>3, <1>4, Zenon DEF CommitsMade, RefsMade
<1>6. \A s \in Sessions, m \in MountPaths : mount[s][m] = NoMount /\ overlay[s][m] = Nothing
  BY Zenon DEF SessionInit
<1>7. \A s \in Sessions : RowsMade(TT, P, V, s)
  BY ONLY <1>6, NoRows DEF RowsMade, NoMount, Writable
<1>8. \A k \in Clients : job[k] = Idle BY Zenon DEF SessionInit
<1>9. \A k \in Clients : JobMade(TT, P, V, job[k]) BY <1>8, IdleMade, Zenon
<1> QED BY <1>5, <1>7, <1>9, Zenon DEF MInv

\* MInv is inductive on top of the invariant of the composition.
THEOREM WorkInductive ==
  ASSUME NEW TT, NEW P, NEW V, TreeLaws(TT, P, V)
  PROVE  SessionSpec => []MInv(TT, P, V)
<1>1. SessionInit => MInv(TT, P, V) BY MadeStarts, Zenon
<1>2. LInv /\ MInv(TT, P, V) /\ [SessionNext]_svars => MInv(TT, P, V)' BY SessionStepMade, Zenon
<1> QED BY <1>1, <1>2, SessionsInductive, PTL DEF SessionSpec

\* A writable mount that keeps its row and its staged rows shows what it showed.
LEMMA SeesSame ==
  ASSUME LInv, NEW TT, NEW P, NEW V, MInv(TT, P, V), Grows(TT),
         NEW s \in Sessions, NEW m \in MountPaths, Writable(s, m),
         mount'[s][m] = mount[s][m], overlay'[s][m] = overlay[s][m]
  PROVE  Writable(s, m)' /\ Sees(s, m)' = Sees(s, m)
<1>1. /\ mount[s][m].mode = "rw" /\ mount[s][m].base # NoOid /\ Pinned(TT, mount[s][m].base)
      /\ SessionMountTree(Mounts(s)[m]) = tree[mount[s][m].base]
  BY WritablePinned, Zenon
<1>2. tree'[mount[s][m].base] = tree[mount[s][m].base] BY <1>1, StaysPinned, Zenon
<1>3. Mounts(s)'[m].mode = "rw" /\ Mounts(s)'[m].base = mount[s][m].base
  BY <1>1, Zenon DEF Mounts
<1>4. SessionMountTree(Mounts(s)[m])' = tree'[mount[s][m].base]
  BY <1>1, <1>3, Zenon DEF SessionMountTree
<1> QED BY <1>1, <1>2, <1>4, Zenon DEF Sees, Writable

\* What a session sees through a writable mount changes only by calls of that
\* session, whatever anyone else publishes, forks or retires: the property
\* Isolated, for any number of clients in each session.
THEOREM IsolationHolds ==
  ASSUME NEW TT, NEW P, NEW V, TreeLaws(TT, P, V)
  PROVE  SessionSpec => Isolated
<1> DEFINE A ==
      \A s \in Sessions, m \in MountPaths :
        Writable(s, m) /\ (\A k \in Clients : NsOf[k] = s => job'[k] = job[k] /\ calls'[k] = calls[k])
          => Writable(s, m)' /\ Sees(s, m)' = Sees(s, m)
<1>1. ASSUME LInv, MInv(TT, P, V), [SessionNext]_svars PROVE A
  <2>1. Local(TT) BY <1>1, SessionStepMade, Zenon
  <2> SUFFICES ASSUME NEW s \in Sessions, NEW m \in MountPaths, Writable(s, m),
                      \A k \in Clients : NsOf[k] = s => job'[k] = job[k] /\ calls'[k] = calls[k]
               PROVE  Writable(s, m)' /\ Sees(s, m)' = Sees(s, m)
    BY Zenon
  <2>2. Grows(TT) /\ mount'[s] = mount[s] /\ overlay'[s] = overlay[s]
    BY <2>1, Zenon DEF Local, Touches
  <2> QED BY <1>1, <2>2, SeesSame, Zenon
<1>2. LInv /\ MInv(TT, P, V) /\ [SessionNext]_svars => A BY <1>1, Zenon
<1> QED BY <1>2, SessionsInductive, WorkInductive, PTL DEF SessionSpec, Isolated

-----------------------------------------------------------------------------
(* What a checkin has read is what its session holds, when every session has *)
(* one client                                                                *)

BaseTree(s, m) == tree[mount[s][m].base]
Adds(s, m) == Fold(BaseTree(s, m), overlay[s][m]) # BaseTree(s, m)
StaleWritable(s) ==
  \E m \in MountPaths : Writable(s, m) /\ \E p \in DOMAIN seen[s][m] : StaleAt(s, Mounts(s), m, p)

\* Needed by CheckinKeepsWork and StaleOnlyThroughLive.
Current(s, j) ==
  /\ j.phase \in Checking => j.mts = Mounts(s)
  /\ j.phase = "check" => j.rows = overlay[s][j.m]
  /\ j.phase = "outside" => ~Adds(s, j.m)
  /\ j.phase = "noop" => /\ j.base = mount[s][j.m].base /\ Writable(s, j.m)
                         /\ \A m \in MountPaths : Writable(s, m) => ~Adds(s, m)
  /\ j.phase = "cas" => /\ Writable(s, j.m) /\ ~StaleWritable(s)
                        /\ j.tree = Fold(BaseTree(s, j.m), overlay[s][j.m])
WInv == \A k \in Clients : Current(NsOf[k], job[k])

\* A phase in which a call has read nothing that Current speaks of.
Plain(j) == j.phase \notin Checking \cup {"noop", "cas"}

LEMMA PlainCurrent ==
  ASSUME NEW k \in Clients, Plain(job[k])'
  PROVE  Current(NsOf[k], job[k])'
  BY Zenon DEF Plain, Current, Checking

\* The rows of a session that nobody else works in stay as its checkin read them.
LEMMA StaysCurrent ==
  ASSUME LInv, NEW TT, NEW P, NEW V, MInv(TT, P, V), Grows(TT), NEW k \in Clients,
         Current(NsOf[k], job[k]), job'[k] = job[k],
         mount'[NsOf[k]] = mount[NsOf[k]], spec'[NsOf[k]] = spec[NsOf[k]],
         overlay'[NsOf[k]] = overlay[NsOf[k]], seen'[NsOf[k]] = seen[NsOf[k]]
  PROVE  Current(NsOf[k], job[k])'
<1> DEFINE s == NsOf[k]
           j == job[k]
<1>0. s \in Sessions BY SessionConstants, Zenon
<1>1. Mounts(s)' = Mounts(s) BY Zenon DEF Mounts
<1>2. \A m \in MountPaths : Writable(s, m)' = Writable(s, m) BY Zenon DEF Writable
<1>3. ASSUME NEW m \in MountPaths, Writable(s, m)
      PROVE  /\ BaseTree(s, m)' = BaseTree(s, m) /\ Adds(s, m)' = Adds(s, m)
             /\ \A p \in DOMAIN seen[s][m] : StaleAt(s, Mounts(s), m, p)' = StaleAt(s, Mounts(s), m, p)
  <2>1. /\ Mounts(s)[m].mode = "rw" /\ Mounts(s)[m].base # NoOid
        /\ Mounts(s)[m].base = mount[s][m].base /\ Pinned(TT, mount[s][m].base)
    BY <1>0, <1>3, WritablePinned, Zenon
  <2>2. tree'[mount[s][m].base] = tree[mount[s][m].base] BY <2>1, StaysPinned, Zenon
  <2>3. BaseTree(s, m)' = BaseTree(s, m) BY <2>2, Zenon DEF BaseTree
  <2>4. Adds(s, m)' = Adds(s, m) BY <2>3, Zenon DEF Adds
  <2>5. SessionMountTree(Mounts(s)[m])' = SessionMountTree(Mounts(s)[m])
    BY <1>1, <2>1, <2>2, Zenon DEF SessionMountTree
  <2> QED BY <1>1, <2>3, <2>4, <2>5, Zenon DEF StaleAt, Has, Shadowed
<1>4. StaleWritable(s)' = StaleWritable(s) BY <1>2, <1>3, Zenon DEF StaleWritable
<1>5. j.phase \in InMount => j.m \in MountPaths BY Zenon DEF LInv, JobTyped
<1>6. j.phase = "outside" => j.m \in MountPaths /\ Writable(s, j.m)
  <2> SUFFICES ASSUME j.phase = "outside" PROVE j.m \in MountPaths /\ Writable(s, j.m) BY Zenon
  <2>1. j.phase \in Checking BY Zenon DEF Checking
  <2>2. j.m \in MountPaths /\ j.mts[j.m].mode = "rw" BY <2>1, CheckingJob, Zenon
  <2>3. j.mts = Mounts(s) BY <2>1, Zenon DEF Current
  <2> QED BY <1>0, <2>2, <2>3, MountsTyped, Zenon DEF Writable
<1>7. (j.phase \in Checking => j.mts = Mounts(s)') /\ (j.phase = "check" => j.rows = overlay'[s][j.m])
  BY <1>1, Zenon DEF Current
<1>8. j.phase = "outside" => ~Adds(s, j.m)' BY <1>3, <1>6, Zenon DEF Current
<1>9. j.phase = "noop" => /\ j.base = mount'[s][j.m].base /\ Writable(s, j.m)'
                          /\ \A m \in MountPaths : Writable(s, m)' => ~Adds(s, m)'
  BY <1>2, <1>3, <1>5, Zenon DEF Current, Writable
<1>10. j.phase = "cas" => /\ Writable(s, j.m)' /\ ~StaleWritable(s)'
                          /\ j.tree = Fold(BaseTree(s, j.m)', overlay'[s][j.m])
  BY <1>2, <1>3, <1>4, <1>5, Zenon DEF Current, InMount
<1> QED BY <1>7, <1>8, <1>9, <1>10, Zenon DEF Current, Writable, Adds, BaseTree

\* Every step of a client writes the job of that client alone.
Writes(k) == job' = job \/ \E j : job' = [job EXCEPT ![k] = j]

LEMMA OwnJob ==
  ASSUME NEW k \in Clients, Call(k) \/ Step(k) \/ Drain(k)
  PROVE  Writes(k)
<1>1. CASE Call(k)
  BY <1>1, Zenon DEF Call, SessionOpen, MountCall, ReadCall, StageCall, RenameCall, CheckinCall, Abandon,
              Begin, Go, Writes
<1>2. CASE Drain(k) BY <1>2, Zenon DEF Drain, DrainRead, DrainCheckin, Go, Writes
<1>3. CASE Step(k)
  <2>1. ASSUME NEW j, Go(k, j) PROVE Writes(k) BY <2>1, Zenon DEF Go, Writes
  <2> QED BY <1>3, <2>1, Zenon
          DEF Step, Create, RefuseRetargeting, MountTxn, Look, Observe, Move, Upsert, CheckinRow,
              CheckinRows, CheckinCheck, CheckinOutside, NoopTxn, CasTxn, Return
<1> QED BY <1>1, <1>2, <1>3, Zenon

\* A step of client k that leaves the other sessions alone.
LEMMA ClientCurrent ==
  ASSUME LInv, NEW TT, NEW P, NEW V, MInv(TT, P, V), WInv, OneClient, Grows(TT),
         NEW k \in Clients, Writes(k), Elsewhere(NsOf[k]), Current(NsOf[k], job[k])'
  PROVE  WInv'
<1> SUFFICES ASSUME NEW l \in Clients, l # k PROVE Current(NsOf[l], job[l])'
  BY Zenon DEF WInv
<1>1. NsOf[l] \in Sessions /\ NsOf[l] # NsOf[k] BY SessionConstants, Zenon DEF OneClient
<1>2. job'[l] = job[l] BY Zenon DEF Writes, LInv
<1>3. /\ mount'[NsOf[l]] = mount[NsOf[l]] /\ spec'[NsOf[l]] = spec[NsOf[l]]
      /\ overlay'[NsOf[l]] = overlay[NsOf[l]] /\ seen'[NsOf[l]] = seen[NsOf[l]]
  BY <1>1, Zenon DEF Elsewhere
<1> QED BY <1>2, <1>3, StaysCurrent, Zenon DEF WInv

LEMMA QuietElsewhere ==
  ASSUME ReadOnly, NEW s PROVE Elsewhere(s)
  BY Zenon DEF ReadOnly, vars, sessionTables, Elsewhere

Txn(k) ==
  \/ \E mountMain \in BOOLEAN : Create(k, mountMain)
  \/ MountTxn(k) \/ Observe(k) \/ Move(k) \/ Upsert(k) \/ NoopTxn(k) \/ CasTxn(k)
  \/ \E discard \in BOOLEAN : Abandon(k, discard)

LEMMA IdlePlain == Plain(Idle)
  BY Zenon DEF Plain, Idle, Checking

LEMMA ReturnPlain ==
  ASSUME LInv, NEW k \in Clients, Return(k)
  PROVE  Plain(job[k])'
<1>1. job'[k] = Idle BY Zenon DEF Return, Go, LInv
<1> QED BY <1>1, IdlePlain, Zenon DEF Plain

\* A call that is not a checkin reads nothing that Current speaks of.
LEMMA ReadingPlain ==
  ASSUME LInv, NEW k \in Clients,
         \/ SessionOpen(k, Main)
         \/ \E mn \in Mountable, rw \in BOOLEAN : MountCall(k, mn[1], mn[2], rw)
         \/ \E a \in Touched : ReadCall(k, a)
         \/ \E a \in Touched, v \in Staged : StageCall(k, a, v)
         \/ \E ab \in Moves : RenameCall(k, ab[1], ab[2])
         \/ RefuseRetargeting(k) \/ Look(k) \/ DrainRead(k)
  PROVE  ReadOnly /\ Plain(job[k])'
<1>0. DOMAIN job = Clients BY Zenon DEF LInv
<1>1. ASSUME NEW j, Plain(j), Begin(k, j) \/ Go(k, j) PROVE Plain(job[k])'
  BY <1>0, <1>1, Zenon DEF Begin, Go, Plain
<1>2. CASE SessionOpen(k, Main)
  <2> DEFINE j == [phase |-> "create", base |-> refs[Main].oid]
  <2>1. Plain(j) BY Zenon DEF Plain, Checking
  <2>2. Go(k, j) /\ ReadOnly BY <1>2, Zenon DEF SessionOpen
  <2> HIDE DEF j
  <2> QED BY <1>1, <2>1, <2>2, Zenon
<1>3. ASSUME NEW mn \in Mountable, NEW rw \in BOOLEAN, MountCall(k, mn[1], mn[2], rw)
      PROVE  ReadOnly /\ Plain(job[k])'
  <2> DEFINE j == [phase |-> "retarget", m |-> mn[1], spec |-> mn[2],
                   mode |-> IF rw THEN "rw" ELSE "ro",
                   base |-> IF rw THEN refs[mn[2]].oid ELSE NoOid]
  <2>1. Plain(j) BY Zenon DEF Plain, Checking
  <2>2. Begin(k, j) /\ ReadOnly BY <1>3, Zenon DEF MountCall
  <2> HIDE DEF j
  <2> QED BY <1>1, <2>1, <2>2, Zenon
<1>4. ASSUME NEW m, NEW mt, NEW rel, NEW to,
             LET j == [phase |-> "look", m |-> m, mt |-> mt, rel |-> rel, to |-> to]
             IN  Begin(k, j) \/ Go(k, j)
      PROVE  Plain(job[k])'
  <2> DEFINE j == [phase |-> "look", m |-> m, mt |-> mt, rel |-> rel, to |-> to]
  <2>1. Plain(j) BY Zenon DEF Plain, Checking
  <2>2. Begin(k, j) \/ Go(k, j) BY <1>4, Zenon
  <2> HIDE DEF j
  <2> QED BY <1>1, <2>1, <2>2, Zenon
<1>5. ASSUME NEW a \in Touched, ReadCall(k, a) PROVE ReadOnly /\ Plain(job[k])'
  BY <1>4, <1>5, Zenon DEF ReadCall
<1>6. ASSUME NEW ab \in Moves, RenameCall(k, ab[1], ab[2]) PROVE ReadOnly /\ Plain(job[k])'
  BY <1>4, <1>6, Zenon DEF RenameCall
<1>7. CASE DrainRead(k) BY <1>4, <1>7, Zenon DEF DrainRead
<1>8. ASSUME NEW a \in Touched, NEW v \in Staged, StageCall(k, a, v)
      PROVE  ReadOnly /\ Plain(job[k])'
  <2> DEFINE m == LongestMount(Mounts(NsOf[k]), a)
             j == [phase |-> "stage", m |-> m, rel |-> RelOf(m, a), val |-> v]
  <2>1. Plain(j) BY Zenon DEF Plain, Checking
  <2>2. Begin(k, j) /\ ReadOnly BY <1>8, Zenon DEF StageCall
  <2> HIDE DEF j
  <2> QED BY <1>1, <2>1, <2>2, Zenon
<1>9. CASE RefuseRetargeting(k)
  <2> DEFINE j == [job[k] EXCEPT !.phase = "insert"]
  <2>1. job[k] \in MountJob BY <1>9, Zenon DEF RefuseRetargeting, AtPhase, LInv, JobTyped, Mounting
  <2>2. Plain(j) BY <2>1, Zenon DEF Plain, Checking, MountJob
  <2>3. (Return(k) \/ Go(k, j)) /\ ReadOnly BY <1>9, Zenon DEF RefuseRetargeting
  <2> HIDE DEF j
  <2> QED BY <1>1, <2>2, <2>3, ReturnPlain, Zenon
<1>10. CASE Look(k)
  <2> DEFINE o == job[k]
             rows == overlay[NsOf[k]][o.m]
             t == SessionMountTree(o.mt)
             j == [phase |-> "observe", m |-> o.m, rel |-> o.rel, to |-> o.to,
                   rows |-> rows, tree |-> t, saw |-> SeenIn(rows, t, o.rel)]
  <2>1. Plain(j) BY Zenon DEF Plain, Checking
  <2>2. (Return(k) \/ Go(k, j)) /\ ReadOnly BY <1>10, Zenon DEF Look
  <2> HIDE DEF j
  <2> QED BY <1>1, <2>1, <2>2, ReturnPlain, Zenon
<1> QED BY <1>2, <1>3, <1>5, <1>6, <1>7, <1>8, <1>9, <1>10, Zenon

\* A transaction writes the rows of its session alone, and ends the call or
\* leaves the rest of a rename to do.
LEMMA TxnPlain ==
  ASSUME LInv, NEW k \in Clients, Txn(k)
  PROVE  Elsewhere(NsOf[k]) /\ Plain(job[k])'
<1> DEFINE s == NsOf[k]
           j == job[k]
<1>0. s \in Sessions /\ JobTyped(j) BY SessionConstants, Zenon DEF LInv
<1>1. ASSUME NEW mountMain \in BOOLEAN, Create(k, mountMain) PROVE Elsewhere(s) /\ Plain(job[k])'
  <2>1. j.base \in Commits BY <1>0, <1>1, Zenon DEF Create, AtPhase, JobTyped
  <2>2. Return(k) BY <1>1, Zenon DEF Create
  <2>3. CASE ReadOnly BY <2>2, <2>3, ReturnPlain, QuietElsewhere, Zenon
  <2>4. CASE ~ReadOnly
    <3>1. /\ CreateSession(s, j.base, mountMain)
          /\ pin'   = [pin EXCEPT ![s] = j.base]
          /\ mount' = [mount EXCEPT
                         ![s][Root] = [mode |-> "rw", base |-> j.base],
                         ![s][MainPath] = IF mountMain THEN [mode |-> "ro", base |-> NoOid] ELSE @]
          /\ UNCHANGED <<stored, overlay, seen, foreign>>
      BY <1>1, <2>4, Zenon DEF Create
    <3>2. Elsewhere(s) BY <1>0, <2>1, <3>1, CreateWrites, Zenon
    <3> QED BY <2>2, <3>2, ReturnPlain, Zenon
  <2> QED BY <2>3, <2>4, Zenon
<1>2. CASE MountTxn(k)
  <2>1. j.m \in MountPaths /\ j.spec \in Names
    BY <1>0, <1>2, Zenon DEF MountTxn, AtPhase, JobTyped, Mounting, MountJob
  <2> DEFINE mt == [mode |-> j.mode, base |-> j.base]
  <2>2. /\ InsertMount(s, j.m, j.spec) /\ mount' = [mount EXCEPT ![s][j.m] = mt]
        /\ UNCHANGED <<stored, pin, overlay, seen, foreign>> /\ Return(k)
    BY <1>2, Zenon DEF MountTxn
  <2> HIDE DEF mt
  <2>3. Elsewhere(s) BY <1>0, <2>1, <2>2, MountWrites, Zenon
  <2> QED BY <2>2, <2>3, ReturnPlain, Zenon
<1>3. CASE Observe(k)
  <2>1. j.m \in MountPaths BY <1>0, <1>3, Zenon DEF Observe, AtPhase, JobTyped, InMount
  <2> DEFINE rows == With(seen[s][j.m], j.rel, j.saw)
             n == [phase |-> "move", m |-> j.m, rel |-> j.rel, to |-> j.to,
                   rows |-> Destinations(j.rows, j.tree, j.rel, j.to)]
  <2>2. seen' = [seen EXCEPT ![s][j.m] = rows] /\ UNCHANGED <<vars, stored, pin, mount, overlay, foreign>>
    BY <1>3, Zenon DEF Observe
  <2>3. Return(k) \/ Go(k, n) BY <1>3, Zenon DEF Observe
  <2>4. Plain(n) BY Zenon DEF Plain, Checking
  <2> HIDE DEF rows, n
  <2>5. Elsewhere(s) BY <1>0, <2>1, <2>2, ObserveWrites, Zenon
  <2>6. CASE Go(k, n)
    <3>1. job'[k] = n BY <2>6, Zenon DEF Go, LInv
    <3> QED BY <2>4, <2>5, <3>1, Zenon DEF Plain
  <2> QED BY <2>3, <2>5, <2>6, ReturnPlain, Zenon
<1>4. CASE Move(k) \/ Upsert(k)
  <2>1. j.m \in MountPaths BY <1>0, <1>4, Zenon DEF Move, Upsert, AtPhase, JobTyped, InMount
  <2>2. /\ Return(k) /\ UNCHANGED <<vars, stored, pin, mount, seen, foreign>>
        /\ overlay' = overlay \/ \E rows : overlay' = [overlay EXCEPT ![s][j.m] = rows]
    BY <1>4, Zenon DEF Move, Upsert
  <2>3. CASE overlay' = overlay BY <2>2, <2>3, ReturnPlain, Zenon DEF Elsewhere, vars
  <2>4. ASSUME NEW rows, overlay' = [overlay EXCEPT ![s][j.m] = rows] PROVE Elsewhere(s)
    BY <1>0, <2>1, <2>2, <2>4, StageWrites, Zenon
  <2> QED BY <2>2, <2>3, <2>4, ReturnPlain, Zenon
<1>5. CASE NoopTxn(k)
  <2>1. j.m \in MountPaths /\ j.base \in Commits BY <1>0, <1>5, Zenon DEF NoopTxn, AtPhase, JobTyped, InMount
  <2>2. /\ Return(k) /\ UNCHANGED <<vars, stored, foreign>>
        /\ Settle(s, j.m, j.base) \/ UNCHANGED sessionTables
    BY <1>5, Zenon DEF NoopTxn
  <2>3. CASE UNCHANGED sessionTables BY <2>2, <2>3, ReturnPlain, Zenon DEF Elsewhere, vars, sessionTables
  <2>4. CASE Settle(s, j.m, j.base)
    <3>1. SettledElsewhere(s) BY <1>0, <2>1, <2>4, SettleWrites, Zenon
    <3>2. UNCHANGED <<live, spec>> BY <2>2, Zenon DEF vars
    <3> QED BY <2>2, <3>1, <3>2, ReturnPlain, Zenon DEF Elsewhere, SettledElsewhere
  <2> QED BY <2>2, <2>3, <2>4, Zenon
<1>6. CASE CasTxn(k)
  <2>1. Return(k) BY <1>6, Zenon DEF CasTxn
  <2>2. Elsewhere(s) BY <1>6, CasWrites, QuietElsewhere, Zenon DEF Published
  <2> QED BY <2>1, <2>2, ReturnPlain, Zenon
<1>7. ASSUME NEW discard \in BOOLEAN, Abandon(k, discard) PROVE Elsewhere(s) /\ Plain(job[k])'
  <2>1. job'[k] = Idle BY <1>7, Zenon DEF Abandon
  <2> QED BY <1>7, <2>1, AbandonWrites, IdlePlain, Zenon DEF Plain
<1> QED BY <1>1, <1>2, <1>3, <1>4, <1>5, <1>6, <1>7, Zenon DEF Txn

\* Nothing was written: what the job says of the rows is still so.
LEMMA QuietCurrent ==
  ASSUME ReadOnly, NEW k \in Clients, NEW j, job'[k] = j, Current(NsOf[k], j)
  PROVE  Current(NsOf[k], job[k])'
<1> DEFINE s == NsOf[k]
<1>1. UNCHANGED <<refs, live, spec, tree, mount, overlay, seen>>
  BY Zenon DEF ReadOnly, vars, stored, sessionTables
<1>2. Mounts(s)' = Mounts(s) BY <1>1, Zenon DEF Mounts
<1>3. \A m : Writable(s, m)' = Writable(s, m) /\ BaseTree(s, m)' = BaseTree(s, m)
  BY <1>1, Zenon DEF Writable, BaseTree
<1>4. \A m : Adds(s, m)' = Adds(s, m) BY <1>1, <1>3, Zenon DEF Adds
<1>5. \A m, p : StaleAt(s, Mounts(s), m, p)' = StaleAt(s, Mounts(s), m, p)
  BY <1>1, <1>2, ZenonT(30) DEF StaleAt, SessionMountTree, Exists
<1>6. StaleWritable(s)' = StaleWritable(s) BY <1>1, <1>3, <1>5, Zenon DEF StaleWritable
<1> QED BY <1>1, <1>2, <1>3, <1>4, <1>6, Zenon DEF Current

LEMMA CheckinBeginsCurrent ==
  ASSUME LInv, NEW k \in Clients,
         \E m \in MountPaths : CheckinCall(k, m) \/ DrainCheckin(k, m)
  PROVE  ReadOnly /\ Current(NsOf[k], job[k])'
<1>1. PICK m \in MountPaths : CheckinCall(k, m) \/ DrainCheckin(k, m) BY Zenon
<1> DEFINE j == [phase |-> "row", m |-> m, mts |-> Mounts(NsOf[k])]
<1>2. ReadOnly /\ (Begin(k, j) \/ Go(k, j)) BY <1>1, Zenon DEF CheckinCall, DrainCheckin
<1>3. Current(NsOf[k], j) BY Zenon DEF Current, Checking
<1> HIDE DEF j
<1>4. job'[k] = j BY <1>2, Zenon DEF Begin, Go, LInv
<1> QED BY <1>2, <1>3, <1>4, QuietCurrent, Zenon

\* A mount that overlay_mounts_outside passes over adds nothing.
LEMMA NoWorkAddsNothing ==
  ASSUME LInv, NEW TT, NEW P, NEW V, MInv(TT, P, V), TreeLaws(TT, P, V),
         NEW s \in Sessions, NEW m \in MountPaths, Writable(s, m), ~HoldsWork(s, Mounts(s), m)
  PROVE  ~Adds(s, m)
<1>1. /\ Mounts(s)[m].mode = "rw" /\ Mounts(s)[m].base = mount[s][m].base
      /\ mount[s][m].base # NoOid /\ Pinned(TT, mount[s][m].base)
  BY WritablePinned, Zenon
<1>2. CASE DOMAIN overlay[s][m] = {}
  <2>1. overlay[s][m] \in RowsOf(P, V) BY Zenon DEF MInv, RowsMade
  <2> DEFINE rows == overlay[s][m]
  <2>2. rows = [p \in DOMAIN rows |-> rows[p]] BY <2>1, RowsOfDef
  <2>3. overlay[s][m] = Nothing BY ONLY <1>2, <2>2 DEF Nothing
  <2>4. BaseTree(s, m) \in TT BY <1>1, Zenon DEF BaseTree, Pinned
  <2> QED BY <2>3, <2>4, Zenon DEF Adds, TreeLaws
<1>3. CASE DOMAIN overlay[s][m] # {} BY <1>1, <1>3, Zenon DEF HoldsWork, Has, Adds, BaseTree
<1> QED BY <1>2, <1>3, Zenon

LEMMA CheckinStepsCurrent ==
  ASSUME LInv, NEW TT, NEW P, NEW V, MInv(TT, P, V), TreeLaws(TT, P, V), NEW k \in Clients,
         Current(NsOf[k], job[k]),
         CheckinRow(k) \/ CheckinRows(k) \/ CheckinCheck(k) \/ CheckinOutside(k)
  PROVE  ReadOnly /\ Current(NsOf[k], job[k])'
<1> DEFINE s == NsOf[k]
           m == job[k].m
           mts == job[k].mts
           row == refs[mts[m].spec].oid
           new == Fold(tree[mts[m].base], job[k].rows)
           r == Contribution(mts[m].base, m, job[k].rows, job[k].reads)
           j1 == [phase |-> "rows", m |-> m, mts |-> mts, row |-> row]
           j2 == [phase |-> "check", m |-> m, mts |-> mts, row |-> job[k].row,
                  rows |-> overlay[s][m], reads |-> ContributionReads(seen[s]),
                  clash |-> AmbiguousReads(seen[s])]
           j3 == [phase |-> "outside", m |-> m, mts |-> mts]
           j4 == [phase |-> "cas", m |-> m, spec |-> mts[m].spec, tree |-> new, contrib |-> r]
           j5 == [phase |-> "noop", m |-> m, base |-> mts[m].base]
<1>0. s \in Sessions BY SessionConstants, Zenon
<1>1. job[k].phase \in Checking
  BY Zenon DEF CheckinRow, CheckinRows, CheckinCheck, CheckinOutside, AtPhase, Checking
<1>2. mts = Mounts(s) BY <1>1, Zenon DEF Current
<1>3. m \in MountPaths /\ mts[m].mode = "rw" BY <1>1, CheckingJob, Zenon
<1>4. Writable(s, m) /\ mts[m].base = mount[s][m].base BY <1>0, <1>2, <1>3, WritablePinned, Zenon
<1>5. ReadOnly BY Zenon DEF CheckinRow, CheckinRows, CheckinCheck, CheckinOutside
<1>6. ASSUME NEW j, Current(s, j), Go(k, j) PROVE Current(s, job[k])'
  <2>1. job'[k] = j BY <1>6, Zenon DEF Go, LInv
  <2> QED BY <1>5, <1>6, <2>1, QuietCurrent, Zenon
<1>7. ASSUME Return(k) PROVE Current(s, job[k])' BY <1>7, ReturnPlain, PlainCurrent, Zenon
<1>8. CASE CheckinRow(k)
  <2>1. Return(k) \/ Go(k, j1) BY <1>8, Zenon DEF CheckinRow
  <2>2. Current(s, j1) BY <1>2, Zenon DEF Current, Checking
  <2> HIDE DEF j1
  <2> QED BY <1>5, <1>6, <1>7, <2>1, <2>2, Zenon
<1>9. CASE CheckinRows(k)
  <2>1. Go(k, j2) BY <1>9, Zenon DEF CheckinRows
  <2>2. Current(s, j2) BY <1>2, Zenon DEF Current, Checking
  <2> HIDE DEF j2
  <2> QED BY <1>5, <1>6, <2>1, <2>2, Zenon
<1>10. CASE CheckinCheck(k)
  <2>1. job[k].rows = overlay[s][m] BY <1>10, Zenon DEF CheckinCheck, AtPhase, Current
  <2>2. new = Fold(BaseTree(s, m), overlay[s][m]) BY <1>4, <2>1, Zenon DEF BaseTree
  <2>3. \/ Return(k)
        \/ new = tree[mts[m].base] /\ Go(k, j3)
        \/ ~CheckFails(s, mts) /\ Go(k, j4)
    BY <1>10, Zenon DEF CheckinCheck
  <2>4. CASE new = tree[mts[m].base] /\ Go(k, j3)
    <3>1. ~Adds(s, m) BY <1>4, <2>2, <2>4, Zenon DEF Adds, BaseTree
    <3>2. Current(s, j3) BY <1>2, <3>1, Zenon DEF Current, Checking
    <3> HIDE DEF j3
    <3> QED BY <1>5, <1>6, <2>4, <3>2, Zenon
  <2>5. CASE ~CheckFails(s, mts) /\ Go(k, j4)
    <3>1. ~StaleWritable(s) BY <1>2, <2>5, Zenon DEF CheckFails, StaleWritable
    <3>2. Current(s, j4)
      <4> HIDE DEF new, r
      <4> QED BY <1>4, <2>2, <3>1, Zenon DEF Current, Checking
    <3> HIDE DEF j4
    <3> QED BY <1>5, <1>6, <2>5, <3>2, Zenon
  <2> QED BY <1>5, <1>7, <2>3, <2>4, <2>5, Zenon
<1>11. CASE CheckinOutside(k)
  <2>1. \/ Return(k)
        \/ (\A o \in MountPaths \ {m} : ~HoldsWork(s, mts, o)) /\ Go(k, j5)
    BY <1>11, Zenon DEF CheckinOutside
  <2>2. CASE (\A o \in MountPaths \ {m} : ~HoldsWork(s, mts, o)) /\ Go(k, j5)
    <3>1. ~Adds(s, m) BY <1>11, Zenon DEF CheckinOutside, AtPhase, Current
    <3>2. ASSUME NEW o \in MountPaths, Writable(s, o) PROVE ~Adds(s, o)
      <4>1. CASE o = m BY <3>1, <4>1, Zenon
      <4>2. CASE o # m BY <1>0, <1>2, <2>2, <3>2, <4>2, NoWorkAddsNothing, Zenon
      <4> QED BY <4>1, <4>2, Zenon
    <3>3. Current(s, j5) BY <1>4, <3>2, Zenon DEF Current, Checking
    <3> HIDE DEF j5
    <3> QED BY <1>5, <1>6, <2>2, <3>3, Zenon
  <2> QED BY <1>5, <1>7, <2>1, <2>2, Zenon
<1> QED BY <1>8, <1>9, <1>10, <1>11, Zenon

LEMMA SessionStepCurrent ==
  ASSUME LInv, NEW TT, NEW P, NEW V, MInv(TT, P, V), TreeLaws(TT, P, V), WInv, OneClient,
         [SessionNext]_svars
  PROVE  WInv'
<1>1. Grows(TT) BY SessionStepMade, Zenon DEF Local
<1>2. ASSUME NEW k \in Clients, Call(k) \/ Step(k) \/ Drain(k) PROVE WInv'
  <2>1. Writes(k) BY <1>2, OwnJob, Zenon
  <2>2. Elsewhere(NsOf[k]) /\ Current(NsOf[k], job[k])'
    <3>1. CASE ReadOnly /\ Plain(job[k])' BY <3>1, PlainCurrent, QuietElsewhere, Zenon
    <3>2. CASE Txn(k) BY <3>2, TxnPlain, PlainCurrent, Zenon
    <3>3. CASE \E m \in MountPaths : CheckinCall(k, m) \/ DrainCheckin(k, m)
      BY <3>3, CheckinBeginsCurrent, QuietElsewhere, Zenon
    <3>4. CASE CheckinRow(k) \/ CheckinRows(k) \/ CheckinCheck(k) \/ CheckinOutside(k)
      <4>1. Current(NsOf[k], job[k]) BY Zenon DEF WInv
      <4> QED BY <3>4, <4>1, CheckinStepsCurrent, QuietElsewhere, Zenon
    <3>5. CASE Call(k) BY <3>1, <3>2, <3>3, <3>5, ReadingPlain, Zenon DEF Call, Txn
    <3>6. CASE Step(k) BY <3>1, <3>2, <3>4, <3>6, ReadingPlain, Zenon DEF Step, Txn
    <3>7. CASE Drain(k) BY <3>1, <3>3, <3>7, ReadingPlain, Zenon DEF Drain
    <3> QED BY <1>2, <3>5, <3>6, <3>7, Zenon
  <2> QED BY <1>1, <2>1, <2>2, ClientCurrent, Zenon
<1>3. CASE Others \/ UNCHANGED svars
  <2>1. UNCHANGED <<spec, mount, overlay, seen, job>>
    BY <1>3, OthersStep, Zenon DEF svars, vars, sessionTables
  <2> QED BY <1>1, <2>1, StaysCurrent, Zenon DEF WInv
<1> QED BY <1>2, <1>3, Zenon DEF SessionNext

\* While every session has one client, what its checkin read of the session is
\* what the session holds until the transaction that ends the checkin.
THEOREM CheckinInductive ==
  ASSUME OneClient, NEW TT, NEW P, NEW V, TreeLaws(TT, P, V)
  PROVE  SessionSpec => []WInv
<1>1. SessionInit => WInv
  <2> SUFFICES ASSUME SessionInit PROVE WInv BY Zenon
  <2>1. \A k \in Clients : job[k].phase = "idle" BY Zenon DEF SessionInit, Idle
  <2> QED BY <2>1, Zenon DEF WInv, Current, Checking
<1>2. LInv /\ MInv(TT, P, V) /\ WInv /\ [SessionNext]_svars => WInv' BY SessionStepCurrent, Zenon
<1> QED BY <1>1, <1>2, SessionsInductive, WorkInductive, PTL DEF SessionSpec

\* Between check_observations and the transaction that publishes, an observation
\* can only have gone stale through a read-only mount: StaleOnlyThroughLive.
THEOREM StaleHolds ==
  ASSUME OneClient, NEW TT, NEW P, NEW V, TreeLaws(TT, P, V)
  PROVE  SessionSpec => []StaleOnlyThroughLive
<1>1. WInv => StaleOnlyThroughLive
  BY Zenon DEF WInv, Current, StaleWritable, StaleOnlyThroughLive
<1> QED BY <1>1, CheckinInductive, PTL

\* Only the transaction that ends a checkin takes a client out of its last phase.
LEMMA EndsCheckin ==
  ASSUME LInv, NEW k \in Clients, job[k].phase \in {"cas", "noop"}, job'[k] # job[k],
         [SessionNext]_svars
  PROVE  NoopTxn(k) \/ CasTxn(k)
<1>1. CASE Others \/ UNCHANGED svars BY <1>1, OthersStep, Zenon DEF svars
<1>2. ASSUME NEW l \in Clients, l # k, Call(l) \/ Step(l) \/ Drain(l) PROVE FALSE
  <2>1. Writes(l) BY <1>2, OwnJob, Zenon
  <2> QED BY <1>2, <2>1, Zenon DEF Writes, LInv
<1>3. job[k] # Idle BY DEF Idle
<1>4. CASE Call(k)
  BY <1>3, <1>4, Zenon
  DEF Call, SessionOpen, MountCall, ReadCall, StageCall, RenameCall, CheckinCall, Abandon, Begin
<1>5. CASE Drain(k) BY <1>3, <1>5, Zenon DEF Drain, DrainRead, DrainCheckin, Draining
<1>6. CASE Step(k)
  BY <1>6, Zenon DEF Step, Create, RefuseRetargeting, MountTxn, Look, Observe, Move, Upsert, CheckinRow,
              CheckinRows, CheckinCheck, CheckinOutside, AtPhase
<1> QED BY <1>1, <1>2, <1>4, <1>5, <1>6, Zenon DEF SessionNext

\* What a session sees through a writable mount, after a step.
LEMMA SeesAfter ==
  ASSUME NEW s \in Sessions, NEW m \in MountPaths, NEW b,
         mount'[s][m].mode = "rw", mount'[s][m].base = b, b # NoOid
  PROVE  Sees(s, m)' = Fold(tree'[b], overlay'[s][m])
<1>1. Mounts(s)'[m].mode = "rw" /\ Mounts(s)'[m].base = b BY Zenon DEF Mounts
<1>2. SessionMountTree(Mounts(s)[m])' = tree'[b] BY <1>1, Zenon DEF SessionMountTree
<1> QED BY <1>2, Zenon DEF Sees

\* The transaction that ends a checkin changes nothing the session sees through
\* its writable mounts: the rows it deletes are in the tree it pins; and a Noop
\* answers over no work.  The property CheckinKeepsWork.
THEOREM CheckinHolds ==
  ASSUME OneClient, NEW TT, NEW P, NEW V, TreeLaws(TT, P, V)
  PROVE  SessionSpec => CheckinKeepsWork
<1> DEFINE A ==
      \A k \in Clients, m \in MountPaths : LET s == NsOf[k] IN
        job[k].phase \in {"cas", "noop"} /\ job'[k] = Idle /\ Writable(s, m) =>
          /\ Sees(s, m)' = Sees(s, m)
          /\ job[k].phase = "noop" => Sees(s, m) = SessionMountTree(Mounts(s)[m])
<1>1. ASSUME LInv, MInv(TT, P, V), WInv, [SessionNext]_svars PROVE A
  <2> SUFFICES ASSUME NEW k \in Clients, NEW m \in MountPaths, job[k].phase \in {"cas", "noop"},
                      job'[k] = Idle, Writable(NsOf[k], m)
               PROVE  /\ Sees(NsOf[k], m)' = Sees(NsOf[k], m)
                      /\ job[k].phase = "noop" =>
                           Sees(NsOf[k], m) = SessionMountTree(Mounts(NsOf[k])[m])
    BY Zenon
  <2> DEFINE s == NsOf[k]
             j == job[k]
             b == mount[s][m].base
  <2>0. s \in Sessions BY SessionConstants, Zenon
  <2>1. Grows(TT) BY <1>1, SessionStepMade, Zenon DEF Local
  <2>2. NoopTxn(k) \/ CasTxn(k)
    <3>1. Idle.phase = "idle" BY Zenon DEF Idle
    <3>2. job'[k] # job[k] BY <3>1, Zenon
    <3> QED BY <1>1, <3>2, EndsCheckin, Zenon
  <2>3. /\ mount[s][m].mode = "rw" /\ b # NoOid /\ Pinned(TT, b)
        /\ SessionMountTree(Mounts(s)[m]) = tree[b]
    BY <1>1, <2>0, WritablePinned, Zenon
  <2>4. Sees(s, m) = Fold(tree[b], overlay[s][m]) BY <2>3, Zenon DEF Sees
  <2>5. Current(s, j) /\ JobTyped(j) /\ j.m \in MountPaths BY <1>1, Zenon DEF WInv, LInv, JobTyped, InMount
  <2>6. ASSUME mount'[s][m] = mount[s][m], overlay'[s][m] = overlay[s][m]
        PROVE  Sees(s, m)' = Sees(s, m)
    BY <1>1, <2>0, <2>1, <2>6, SeesSame, Zenon
  <2>7. CASE NoopTxn(k)
    <3>1. j.phase = "noop" /\ j.base \in Commits BY <2>5, <2>7, Zenon DEF NoopTxn, AtPhase, JobTyped
    <3>2. ~Adds(s, m) /\ j.base = mount[s][j.m].base BY <2>5, <3>1, Zenon DEF Current
    <3>3. Sees(s, m) = tree[b] BY <2>4, <3>2, Zenon DEF Adds, BaseTree
    <3>4. Sees(s, m)' = Sees(s, m)
      <4>1. CASE UNCHANGED sessionTables BY <2>6, <4>1, Zenon DEF sessionTables
      <4>2. CASE Settle(s, j.m, j.base)
        <5>1. Settled(s, j.m, j.base) BY <1>1, <2>0, <2>5, <3>1, <4>2, SettleWrites, Zenon
        <5>2. CASE m # j.m BY <2>6, <5>1, <5>2, Zenon DEF Settled
        <5>3. CASE m = j.m
          <6>1. /\ mount'[s][m].mode = "rw" /\ mount'[s][m].base = b /\ overlay'[s][m] = Nothing
            BY <2>3, <3>2, <5>1, <5>3, Zenon DEF Settled
          <6>2. Sees(s, m)' = Fold(tree'[b], Nothing) BY <2>0, <2>3, <6>1, SeesAfter, Zenon
          <6>3. tree'[b] = tree[b] /\ tree[b] \in TT BY <2>1, <2>3, StaysPinned, Zenon DEF Pinned
          <6> QED BY <3>3, <6>2, <6>3, Zenon DEF TreeLaws
        <5> QED BY <5>2, <5>3, Zenon
      <4> QED BY <2>7, <4>1, <4>2, Zenon DEF NoopTxn
    <3> QED BY <2>3, <3>3, <3>4, Zenon
  <2>8. CASE CasTxn(k)
    <3>1. j.phase = "cas" BY <2>8, Zenon DEF CasTxn, AtPhase
    <3>2. Sees(s, m)' = Sees(s, m)
      <4>1. CASE ReadOnly BY <2>6, <4>1, Zenon DEF ReadOnly, sessionTables
      <4>2. CASE ~ReadOnly
        <5>1. PICK c \in Commits : Published(k, c) BY <1>1, <2>8, <4>2, CasWrites, Zenon
        <5>2. Settled(s, j.m, c) /\ tree' = [tree EXCEPT ![c] = j.tree] BY <5>1, Zenon DEF Published
        <5>3. CASE m # j.m BY <2>6, <5>2, <5>3, Zenon DEF Settled
        <5>4. CASE m = j.m
          <6> DEFINE t == j.tree
          <6>1. /\ mount'[s][m].mode = "rw" /\ mount'[s][m].base = c /\ overlay'[s][m] = Nothing
            BY <2>3, <5>2, <5>4, Zenon DEF Settled
          <6>2. c # NoOid BY OidTypes, Zenon DEF Oids
          <6>3. Sees(s, m)' = Fold(tree'[c], Nothing) BY <2>0, <6>1, <6>2, SeesAfter, Zenon
          <6>4. DOMAIN tree = Commits BY <1>1, Zenon DEF LInv
          <6>5. tree'[c] = t BY <5>2, <6>4, Zenon
          <6>6. t = Sees(s, m) BY <2>4, <2>5, <3>1, <5>4, Zenon DEF Current, BaseTree
          <6>7. t \in TT BY <1>1, <3>1, Zenon DEF MInv, JobMade
          <6> HIDE DEF t
          <6> QED BY <6>3, <6>5, <6>6, <6>7, Zenon DEF TreeLaws
        <5> QED BY <5>3, <5>4, Zenon
      <4> QED BY <4>1, <4>2, Zenon
    <3> QED BY <3>1, <3>2, Zenon
  <2> QED BY <2>2, <2>7, <2>8, Zenon
<1>2. LInv /\ MInv(TT, P, V) /\ WInv /\ [SessionNext]_svars => A BY <1>1, Zenon
<1> QED BY <1>2, SessionsInductive, WorkInductive, CheckinInductive, PTL
        DEF SessionSpec, CheckinKeepsWork
=============================================================================
