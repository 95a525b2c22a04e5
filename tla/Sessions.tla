------------------------------ MODULE Sessions ------------------------------
(***************************************************************************)
(* The session plane: namespaces, mounts, staged overlay rows and recorded *)
(* observations (crates/forge-api/src/workspace.rs over the tables of      *)
(* crates/forge-store/src/meta.rs), on top of the ref ledger.              *)
(*                                                                         *)
(* A client is a thread or a process that works in one session.  A call is *)
(* a sequence of steps, each one read of the catalog or one transaction;   *)
(* what a step has read is kept in the client's job and may be stale when  *)
(* a later step uses it.  A refused call leaves the catalog as it is.  A   *)
(* client that dies is one that takes no further step.                     *)
(*                                                                         *)
(* Every catalog transaction that touches a ref is the RefLedger action of *)
(* the same transaction conjoined with what it does to the session tables. *)
(* The algorithms over trees are parameters; module Trees defines them.    *)
(***************************************************************************)
EXTENDS RefLedger

CONSTANTS
  Clients,      \* threads or processes that call the session API
  NsOf,         \* NsOf[k]: the session client k works in
  Shared,       \* a head that other agents publish to
  Starts,       \* the trees `init` may publish
  Foreign,      \* the trees other agents publish
  Mountable,    \* pairs of a mount path and a ref that clients mount
  Touched,      \* the absolute paths clients read, write and delete
  Moves,        \* the pairs of absolute paths clients rename
  Staged,       \* what a write or delete stages: blobs and the tombstone
  Contents, Tomb, Absent,   \* blobs, the tombstone, Observed::Absent
  NoTree,       \* the tree of a commit that was not made yet
  Fold(_, _),             \* apply_overlay
  CurrentIn(_, _),        \* current_at
  SeenIn(_, _, _),        \* observed_at, and what resolve answers
  Destinations(_, _, _, _),  \* the destination rows of a rename
  MaxCalls,     \* bound: calls of one client before it only drains
  MaxForeign    \* bound: publications of other agents

\* A client works in one session, mounts refs at the paths of the mounts table,
\* and of the mounts that cover a path one is longest.
ASSUME SessionConstants ==
  /\ NsOf \in [Clients -> Sessions] /\ Shared \in Heads
  /\ Mountable \subseteq MountPaths \X Names
  /\ \A S \in SUBSET MountPaths :
       S # {} => \E m \in S : \A o \in S : Len(o) <= Len(m)
  /\ MaxCalls \in Nat /\ MaxForeign \in Nat

VARIABLES
  tree,      \* tree[c]: the tree of commit c
  contrib,   \* contrib[c]: the contribution that commit c names
  pin,       \* pin[s]: namespaces.pinned_oid
  mount,     \* mount[s][m]: the mode and base_oid of a mount row
  overlay,   \* overlay[s][m]: the staged rows, a function on relative paths
  seen,      \* seen[s][m]: the observations, a function on relative paths
  job,       \* job[k]: the call client k is in
  calls,     \* calls[k]: the calls client k has begun
  foreign    \* the publications other agents have made

sessionTables == <<pin, mount, overlay, seen>>
stored == <<tree, contrib>>
svars == <<vars, stored, sessionTables, job, calls, foreign>>

NoMount == [mode |-> "none", base |-> NoOid]
Nothing == <<>>      \* the empty function: no rows
NoReceipt == [base |-> NoOid, reads |-> {}, writes |-> {}]

\* A call in progress and what it has read so far.
Idle == [phase |-> "idle"]

-----------------------------------------------------------------------------
(* Paths, rows and trees *)

Under(p, a) == Len(a) <= Len(p) /\ SubSeq(p, 1, Len(a)) = a
RelOf(m, a) == SubSeq(a, Len(m) + 1, Len(a))

\* A row that would be a proper ancestor or descendant of the path p.
Collides(p, q) == p # q /\ (Under(p, q) \/ Under(q, p))

With(f, p, v)  == [q \in DOMAIN f \cup {p} |-> IF q = p THEN v ELSE f[q]]

\* list_mounts: the rows of a session, with the ref each one names.
Mounts(s) == [m \in MountPaths |->
                [mode |-> mount[s][m].mode, base |-> mount[s][m].base, spec |-> spec[s][m]]]
Has(mts, m) == mts[m].mode # "none"

Covering(mts, a) == {m \in MountPaths : Has(mts, m) /\ Under(a, m)}
LongestMount(mts, a) ==
  CHOOSE m \in Covering(mts, a) : \A o \in Covering(mts, a) : Len(o) <= Len(m)

\* Faulty variant: a writable mount answers from its ref as well.
SessionMountTreeLive(mt) ==
  IF Exists(mt.spec) THEN tree[refs[mt.spec].oid] ELSE NoTree

\* session_mount_tree: a writable mount answers from its own pin, a read-only
\* one from the ref it names, as it is now; NoTree when that ref does not exist.
SessionMountTree(mt) ==
  IF mt.mode = "rw" /\ mt.base # NoOid THEN tree[mt.base]
  ELSE IF Exists(mt.spec) THEN tree[refs[mt.spec].oid] ELSE NoTree

\* Faulty variant: a staged row does not excuse the observation it decides.
ShadowedNever(rows, p) == FALSE

Shadowed(rows, p) == \E q \in DOMAIN rows : Under(p, q)

\* An observation check_observations would refuse.
StaleAt(s, mts, m, p) ==
  /\ p \in DOMAIN seen[s][m] /\ Has(mts, m)
  /\ ~Shadowed(overlay[s][m], p)
  /\ SessionMountTree(mts[m]) # NoTree
       => CurrentIn(SessionMountTree(mts[m]), p) # seen[s][m][p]

\* Faulty variant: only what was read through read-only mounts is checked.
CheckFailsLiveOnly(s, mts) ==
  \E m \in MountPaths : \E p \in DOMAIN seen[s][m] : mts[m].mode = "ro" /\ StaleAt(s, mts, m, p)

CheckFails(s, mts) == \E m \in MountPaths : \E p \in DOMAIN seen[s][m] : StaleAt(s, mts, m, p)

\* mount_overlay_changes_its_base: a missing mount or a missing pin counts as work.
HoldsWork(s, mts, m) ==
  /\ DOMAIN overlay[s][m] # {}
  /\ Has(mts, m) /\ mts[m].base # NoOid
       => Fold(tree[mts[m].base], overlay[s][m]) # tree[mts[m].base]

\* Two observations of blobs whose paths in the receipt are the same.
AmbiguousReads(obs) ==
  \E m, o \in MountPaths : \E p \in DOMAIN obs[m], q \in DOMAIN obs[o] :
    /\ m # o /\ m \o p = o \o q
    /\ {obs[m][p], obs[o][q]} \subseteq Contents

\* The blob observations a receipt names, by contribution_path.
ContributionReads(obs) ==
  UNION {{<<m \o p, obs[m][p]>> : p \in {q \in DOMAIN obs[m] : obs[m][q] \in Contents}} :
           m \in MountPaths}

\* Faulty variant: the deleted paths are not among the writes.
ContributionOfWrites(base, m, rows, reads) ==
  [base |-> base, reads |-> reads,
   writes |-> {m \o p : p \in {q \in DOMAIN rows : rows[q] # Tomb}}]

\* The receipt of a checkin of the rows staged in mount m onto base.
Contribution(base, m, rows, reads) ==
  [base |-> base, reads |-> reads, writes |-> {m \o p : p \in DOMAIN rows}]

\* A commit is new: its id is one no commit has yet.
Fresh(c) == c = CHOOSE d \in Commits : tree[d] = NoTree
CanMake  == \E d \in Commits : tree[d] = NoTree
\* Generated fork names are interchangeable, so they are drawn in one order.
InOrder  == \A f \in Forks : Unused(f) /\ f # (CHOOSE g \in Forks : Unused(g))
                              => reflog'[f] = reflog[f]

-----------------------------------------------------------------------------
(* Calls *)

Begin(k, j) ==
  /\ job[k] = Idle /\ calls[k] < MaxCalls
  /\ calls' = [calls EXCEPT ![k] = @ + 1]
  /\ job'   = [job EXCEPT ![k] = j]
Go(k, j)   == job' = [job EXCEPT ![k] = j] /\ UNCHANGED calls
Return(k)  == Go(k, Idle)
ReadOnly   == UNCHANGED <<vars, stored, sessionTables, foreign>>
\* A step of client k in its session that is at phase ph.
AtPhase(k, ph) == job[k].phase = ph
Open(s) == live[s] # NoName

\* session_open: the commit is read first, the session created afterwards.
SessionOpen(k, from) ==
  /\ ~Open(NsOf[k]) /\ ~Exists(LiveRef[NsOf[k]]) /\ Exists(from) /\ refs[from].kind = "commit"
  /\ job[k] = Idle /\ Go(k, [phase |-> "create", base |-> refs[from].oid])
  /\ ReadOnly

Create(k, mountMain) ==
  LET s == NsOf[k] IN
  /\ AtPhase(k, "create")
  /\ \/ /\ CreateSession(s, job[k].base, mountMain)
        /\ pin'   = [pin EXCEPT ![s] = job[k].base]
        /\ mount' = [mount EXCEPT
                       ![s][Root] = [mode |-> "rw", base |-> job[k].base],
                       ![s][MainPath] = IF mountMain THEN [mode |-> "ro", base |-> NoOid] ELSE @]
        /\ UNCHANGED <<stored, overlay, seen, foreign>>
     \/ /\ Open(s) \/ Exists(LiveRef[s])
        /\ ReadOnly
  /\ Return(k)

\* mount: protection, the ref and its type are read before the row of the path.
MountCall(k, m, n, rw) ==
  /\ Open(NsOf[k]) /\ Exists(n)
  /\ rw => ~refs[n].protected /\ refs[n].kind = "commit"
  /\ Begin(k, [phase |-> "retarget", m |-> m, spec |-> n,
               mode |-> IF rw THEN "rw" ELSE "ro",
               base |-> IF rw THEN refs[n].oid ELSE NoOid])
  /\ ReadOnly

\* refuse_retargeting_staged_work.
RefuseRetargeting(k) ==
  LET s == NsOf[k]  m == job[k].m
      old == Mounts(s)[m]
      changes == \/ old.spec # job[k].spec
                 \/ old.mode = "rw" /\ job[k].mode # "rw" IN
  /\ AtPhase(k, "retarget")
  /\ IF Has(Mounts(s), m) /\ changes /\ DOMAIN overlay[s][m] # {}
     THEN Return(k) ELSE Go(k, [job[k] EXCEPT !.phase = "insert"])
  /\ ReadOnly

MountTxn(k) ==
  LET s == NsOf[k]  m == job[k].m IN
  /\ AtPhase(k, "insert")
  /\ InsertMount(s, m, job[k].spec)
  /\ mount' = [mount EXCEPT ![s][m] = [mode |-> job[k].mode, base |-> job[k].base]]
  /\ Return(k)
  /\ UNCHANGED <<stored, pin, overlay, seen, foreign>>

-----------------------------------------------------------------------------
(* Reading, staging, moving *)

\* read and ls: the mounts first, then the overlay and the tree, then the
\* transaction that records what was seen.
ReadCall(k, a) ==
  LET mts == Mounts(NsOf[k])  m == LongestMount(mts, a) IN
  /\ Open(NsOf[k]) /\ Covering(mts, a) # {}
  /\ Begin(k, [phase |-> "look", m |-> m, mt |-> mts[m], rel |-> RelOf(m, a), to |-> Nothing])
  /\ ReadOnly

\* rename: both ends in one writable mount, neither at nor above the other.
RenameCall(k, a, b) ==
  LET mts == Mounts(NsOf[k])  m == LongestMount(mts, a) IN
  /\ Open(NsOf[k]) /\ Covering(mts, a) # {} /\ Covering(mts, b) # {}
  /\ m = LongestMount(mts, b) /\ mts[m].mode = "rw"
  /\ RelOf(m, a) # <<>> /\ RelOf(m, b) # <<>>
  /\ ~Under(a, b) /\ ~Under(b, a)
  /\ Begin(k, [phase |-> "look", m |-> m, mt |-> mts[m], rel |-> RelOf(m, a), to |-> RelOf(m, b)])
  /\ ReadOnly

Look(k) ==
  LET s == NsOf[k]  j == job[k]
      rows == overlay[s][j.m]  t == SessionMountTree(j.mt) IN
  /\ AtPhase(k, "look")
  /\ IF t = NoTree THEN Return(k)
     ELSE Go(k, [phase |-> "observe", m |-> j.m, rel |-> j.rel, to |-> j.to,
                 rows |-> rows, tree |-> t, saw |-> SeenIn(rows, t, j.rel)])
  /\ ReadOnly

\* observe, and the end of a read.  A rename of something goes on to stage it,
\* unless the caller expected something else there.
Observe(k) ==
  LET s == NsOf[k]  j == job[k] IN
  /\ AtPhase(k, "observe")
  /\ seen' = [seen EXCEPT ![s][j.m] = With(@, j.rel, j.saw)]
  /\ \/ Return(k)
     \/ /\ j.to # Nothing /\ j.saw # Absent
        /\ Go(k, [phase |-> "move", m |-> j.m, rel |-> j.rel, to |-> j.to,
                  rows |-> Destinations(j.rows, j.tree, j.rel, j.to)])
  /\ UNCHANGED <<vars, stored, pin, mount, overlay, foreign>>

\* overlay_rename: the rows of both subtrees go, an ancestor row of either end
\* refuses the move, then the destination and the tombstone are staged.
Move(k) ==
  LET s == NsOf[k]  j == job[k]  ov == overlay[s][j.m]
      kept == {p \in DOMAIN ov : ~Under(p, j.rel) /\ ~Under(p, j.to)}
      refused == \E p \in kept : Under(j.rel, p) \/ Under(j.to, p)
      new  == [p \in kept \cup DOMAIN j.rows \cup {j.rel} |->
                 IF p = j.rel THEN Tomb
                 ELSE IF p \in DOMAIN j.rows THEN j.rows[p] ELSE ov[p]] IN
  /\ AtPhase(k, "move")
  /\ IF refused THEN UNCHANGED overlay ELSE overlay' = [overlay EXCEPT ![s][j.m] = new]
  /\ Return(k)
  /\ UNCHANGED <<vars, stored, pin, mount, seen, foreign>>

\* write and delete: the mount is found first, the row staged afterwards.
StageCall(k, a, v) ==
  LET mts == Mounts(NsOf[k])  m == LongestMount(mts, a) IN
  /\ Open(NsOf[k]) /\ Covering(mts, a) # {}
  /\ mts[m].mode = "rw" /\ RelOf(m, a) # <<>>
  /\ Begin(k, [phase |-> "stage", m |-> m, rel |-> RelOf(m, a), val |-> v])
  /\ ReadOnly

\* overlay_upsert.
Upsert(k) ==
  LET s == NsOf[k]  j == job[k]  ov == overlay[s][j.m] IN
  /\ AtPhase(k, "stage")
  /\ IF \E q \in DOMAIN ov : Collides(j.rel, q)
     THEN UNCHANGED overlay ELSE overlay' = [overlay EXCEPT ![s][j.m] = With(@, j.rel, j.val)]
  /\ Return(k)
  /\ UNCHANGED <<vars, stored, pin, mount, seen, foreign>>

-----------------------------------------------------------------------------
(* checkin *)

CheckinReady(s, m) == Open(s) /\ mount[s][m].mode = "rw" /\ mount[s][m].base # NoOid

CheckinCall(k, m) ==
  /\ CheckinReady(NsOf[k], m)
  /\ Begin(k, [phase |-> "row", m |-> m, mts |-> Mounts(NsOf[k])])
  /\ ReadOnly

CheckinRow(k) ==
  LET j == job[k]  n == j.mts[j.m].spec IN
  /\ AtPhase(k, "row")
  /\ IF Exists(n) THEN Go(k, [phase |-> "rows", m |-> j.m, mts |-> j.mts, row |-> refs[n].oid])
     ELSE Return(k)
  /\ ReadOnly

CheckinRows(k) ==
  LET s == NsOf[k]  j == job[k] IN
  /\ AtPhase(k, "rows")
  /\ Go(k, [phase |-> "check", m |-> j.m, mts |-> j.mts, row |-> j.row,
            rows |-> overlay[s][j.m], reads |-> ContributionReads(seen[s]),
            clash |-> AmbiguousReads(seen[s])])
  /\ ReadOnly

\* check_observations, the fold, and the choice between Noop and publication.
CheckinCheck(k) ==
  LET s == NsOf[k]  j == job[k]
      base == j.mts[j.m].base  new == Fold(tree[base], j.rows) IN
  /\ AtPhase(k, "check")
  /\ IF CheckFails(s, j.mts) THEN Return(k)
     ELSE IF new = tree[base] /\ base = j.row
          THEN Go(k, [phase |-> "outside", m |-> j.m, mts |-> j.mts])
          ELSE IF j.clash THEN Return(k)
               ELSE Go(k, [phase |-> "cas", m |-> j.m, spec |-> j.mts[j.m].spec,
                           tree |-> new, contrib |-> Contribution(base, j.m, j.rows, j.reads)])
  /\ ReadOnly

\* overlay_mounts_outside: a Noop is refused over work staged in another mount.
CheckinOutside(k) ==
  LET s == NsOf[k]  j == job[k] IN
  /\ AtPhase(k, "outside")
  /\ IF \E o \in MountPaths \ {j.m} : HoldsWork(s, j.mts, o) THEN Return(k)
     ELSE Go(k, [phase |-> "noop", m |-> j.m, base |-> j.mts[j.m].base])
  /\ ReadOnly

\* Faulty variant: the rows of the whole session go.
SettleEverything(s, m, c) ==
  /\ overlay' = [overlay EXCEPT ![s] = [o \in MountPaths |-> Nothing]]
  /\ seen'    = [seen EXCEPT ![s] = [o \in MountPaths |-> Nothing]]
  /\ mount'   = [mount EXCEPT ![s][m].base = c]
  /\ pin'     = IF m = Root THEN [pin EXCEPT ![s] = c] ELSE pin

\* What both ends of a checkin do to the tables of the mount they publish.
Settle(s, m, c) ==
  /\ overlay' = [overlay EXCEPT ![s][m] = Nothing]
  /\ seen'    = [seen EXCEPT ![s][m] = Nothing]
  /\ mount'   = [mount EXCEPT ![s][m].base = c]
  /\ pin'     = IF m = Root THEN [pin EXCEPT ![s] = c] ELSE pin

\* complete_noop_session; a missing mount or namespace row fails it.
NoopTxn(k) ==
  LET s == NsOf[k]  j == job[k] IN
  /\ AtPhase(k, "noop")
  /\ IF spec[s][j.m] # NoName /\ (j.m = Root => Open(s))
     THEN Settle(s, j.m, j.base) ELSE UNCHANGED sessionTables
  /\ Return(k)
  /\ UNCHANGED <<vars, stored, foreign>>

\* cas_ref_session with the commit made for it.
CasTxn(k) ==
  LET s == NsOf[k]  j == job[k] IN
  /\ AtPhase(k, "cas") /\ CanMake
  /\ \/ \E c \in Commits :
          /\ Fresh(c)
          /\ tree' = [tree EXCEPT ![c] = j.tree]
          /\ contrib' = [contrib EXCEPT ![c] = j.contrib]
          /\ CasRefSession(s, j.m, j.spec, j.contrib.base, c) /\ InOrder
          /\ Settle(s, j.m, c)
     \/ /\ \/ ~Movable(j.spec, "commit", FALSE) \/ spec[s][j.m] = NoName
           \/ j.m = Root /\ ~Open(s)
        /\ UNCHANGED <<vars, stored, sessionTables>>
  /\ Return(k)
  /\ UNCHANGED foreign

\* Faulty variant: what the session observed outlives it.
AbandonKeepsObservations(k, discard) ==
  LET s == NsOf[k] IN
  /\ job[k] = Idle /\ calls[k] < MaxCalls
  /\ \A m \in MountPaths : overlay[s][m] = Nothing \/ discard
  /\ AbandonSession(s)
  /\ pin'     = [pin EXCEPT ![s] = NoOid]
  /\ mount'   = [mount EXCEPT ![s] = [m \in MountPaths |-> NoMount]]
  /\ overlay' = [overlay EXCEPT ![s] = [m \in MountPaths |-> Nothing]]
  /\ calls'   = [calls EXCEPT ![k] = @ + 1]
  /\ UNCHANGED <<stored, seen, job, foreign>>

\* abandon_session.
Abandon(k, discard) ==
  LET s == NsOf[k] IN
  /\ job[k] = Idle /\ calls[k] < MaxCalls
  /\ \A m \in MountPaths : overlay[s][m] = Nothing \/ discard
  /\ AbandonSession(s)
  /\ pin'     = [pin EXCEPT ![s] = NoOid]
  /\ mount'   = [mount EXCEPT ![s] = [m \in MountPaths |-> NoMount]]
  /\ overlay' = [overlay EXCEPT ![s] = [m \in MountPaths |-> Nothing]]
  /\ seen'    = [seen EXCEPT ![s] = [m \in MountPaths |-> Nothing]]
  /\ calls'   = [calls EXCEPT ![k] = @ + 1]
  /\ UNCHANGED <<stored, job, foreign>>

-----------------------------------------------------------------------------
(* A client that has made its calls drains the session: it checks each      *)
(* mount in that holds rows, and reads again what a checkin called stale.    *)

Draining(k) == calls[k] = MaxCalls /\ job[k] = Idle

DrainCheckin(k, m) ==
  /\ Draining(k) /\ CheckinReady(NsOf[k], m)
  /\ \E o \in MountPaths : overlay[NsOf[k]][o] # Nothing
  /\ Go(k, [phase |-> "row", m |-> m, mts |-> Mounts(NsOf[k])])
  /\ ReadOnly

DrainRead(k) ==
  LET s == NsOf[k]  mts == Mounts(s) IN
  /\ Draining(k) /\ Open(s)
  /\ \E m \in MountPaths : \E p \in DOMAIN seen[s][m] :
       /\ StaleAt(s, mts, m, p) /\ LongestMount(mts, m \o p) = m
       /\ Go(k, [phase |-> "look", m |-> m, mt |-> mts[m], rel |-> p, to |-> Nothing])
  /\ ReadOnly

(* Other agents *)

Branch ==
  /\ InsertRef(Shared, "commit", refs[Main].oid)
  /\ UNCHANGED <<stored, sessionTables, job, calls, foreign>>

\* A merge, an import or another session's checkin moves a head.
Publish(n, t) ==
  /\ foreign < MaxForeign /\ CanMake /\ Exists(n)
  /\ \E c \in Commits :
       /\ Fresh(c)
       /\ CasRef(n, "commit", refs[n].oid, c, TRUE)
       /\ tree' = [tree EXCEPT ![c] = t]
  /\ foreign' = foreign + 1
  /\ UNCHANGED <<contrib, sessionTables, job, calls>>

Retire(f) ==
  /\ AbandonRef(f)
  /\ UNCHANGED <<stored, sessionTables, job, calls, foreign>>

-----------------------------------------------------------------------------
SessionInit ==
  /\ Init
  /\ \E t \in Starts : tree = [c \in Commits |-> IF c = First THEN t ELSE NoTree]
  /\ contrib = [c \in Commits |-> NoReceipt]
  /\ pin     = [s \in Sessions |-> NoOid]
  /\ mount   = [s \in Sessions |-> [m \in MountPaths |-> NoMount]]
  /\ overlay = [s \in Sessions |-> [m \in MountPaths |-> Nothing]]
  /\ seen    = [s \in Sessions |-> [m \in MountPaths |-> Nothing]]
  /\ job     = [k \in Clients |-> Idle]
  /\ calls   = [k \in Clients |-> 0]
  /\ foreign = 0

Call(k) ==
  \/ SessionOpen(k, Main)
  \/ \E mn \in Mountable, rw \in BOOLEAN : MountCall(k, mn[1], mn[2], rw)
  \/ \E a \in Touched : ReadCall(k, a)
  \/ \E a \in Touched, v \in Staged : StageCall(k, a, v)
  \/ \E ab \in Moves : RenameCall(k, ab[1], ab[2])
  \/ \E m \in MountPaths : CheckinCall(k, m)
  \/ \E discard \in BOOLEAN : Abandon(k, discard)

Step(k) ==
  \/ \E mountMain \in BOOLEAN : Create(k, mountMain)
  \/ RefuseRetargeting(k) \/ MountTxn(k)
  \/ Look(k) \/ Observe(k) \/ Move(k) \/ Upsert(k)
  \/ CheckinRow(k) \/ CheckinRows(k) \/ CheckinCheck(k)
  \/ CheckinOutside(k) \/ NoopTxn(k) \/ CasTxn(k)

Drain(k) == DrainRead(k) \/ \E m \in MountPaths : DrainCheckin(k, m)

Others ==
  \/ Branch
  \/ \E n \in {Main, Shared}, t \in Foreign : Publish(n, t)
  \/ \E f \in Forks : Retire(f)

SessionNext == Others \/ \E k \in Clients : Call(k) \/ Step(k) \/ Drain(k)
SessionSpec == SessionInit /\ [][SessionNext]_svars

\* A call that was begun is carried on, a draining client reads again what is
\* stale, and it keeps trying each mount.
Fairness ==
  \A k \in Clients :
    /\ WF_svars(Step(k)) /\ SF_svars(DrainRead(k))
    /\ \A m \in MountPaths : SF_svars(DrainCheckin(k, m))
FairSpec == SessionSpec /\ Fairness

-----------------------------------------------------------------------------
(* Properties *)

SessionTypeOK ==
  /\ TypeOK
  /\ pin \in [Sessions -> Commits \cup {NoOid}]
  /\ mount \in [Sessions -> [MountPaths -> [mode : {"none", "ro", "rw"}, base : Commits \cup {NoOid}]]]
  /\ \A s \in Sessions, m \in MountPaths : (mount[s][m].mode = "none") = (spec[s][m] = NoName)
  /\ calls \in [Clients -> 0..MaxCalls] /\ foreign \in 0..MaxForeign

\* What a session sees through a mount: its staged rows folded onto the tree
\* the mount answers from.
Sees(s, m) == Fold(SessionMountTree(Mounts(s)[m]), overlay[s][m])
Writable(s, m) == mount[s][m].mode = "rw"

\* I8, I19: what a session sees through a writable mount changes only by calls
\* of that session.  No publication, fork or retirement by anyone else reaches
\* it, because the mount answers from its own pin.
Isolated ==
  [][\A s \in Sessions, m \in MountPaths :
       Writable(s, m) /\ (\A k \in Clients : NsOf[k] = s => job'[k] = job[k] /\ calls'[k] = calls[k])
         => Writable(s, m)' /\ Sees(s, m)' = Sees(s, m)]_svars

\* I18, I22: the transaction that ends a checkin, whether it moves the ref,
\* forks or answers Noop, changes nothing that the session sees through any of
\* its writable mounts: the rows it deletes are in the tree it pins.  And when
\* it answers Noop, no mount of the session holds rows that change what it
\* would publish.
CheckinKeepsWork ==
  [][\A k \in Clients, m \in MountPaths : LET s == NsOf[k] IN
       job[k].phase \in {"cas", "noop"} /\ job'[k] = Idle /\ Writable(s, m) =>
         /\ Sees(s, m)' = Sees(s, m)
         /\ job[k].phase = "noop" => Sees(s, m) = SessionMountTree(Mounts(s)[m])]_svars

\* I9: between check_observations and the transaction that publishes, an
\* observation can only have gone stale through a read-only mount, whose ref
\* others move.
StaleOnlyThroughLive ==
  \A k \in Clients : LET s == NsOf[k] IN
    job[k].phase = "cas" =>
      \A m \in MountPaths : \A p \in DOMAIN seen[s][m] :
        StaleAt(s, Mounts(s), m, p) => ~Writable(s, m)

\* The prefix rule of overlay_upsert, which overlay_rename says still holds
\* after a move: no staged path lies above another one of the same mount.
OverlayPrefixFree ==
  \A s \in Sessions, m \in MountPaths :
    \A p, q \in DOMAIN overlay[s][m] : ~Collides(p, q)

\* An observation that no read of the session reaches any more, because a mount
\* was made above it; and a writable mount of a ref that was retired meanwhile.
Overmounted(s) == \E m \in MountPaths : \E p \in DOMAIN seen[s][m] :
                    LongestMount(Mounts(s), m \o p) # m
Dangling(s)    == \E m \in MountPaths : Writable(s, m) /\ ~Exists(spec[s][m])

\* I21: unless a mount was made over a path already read, or the ref of a mount
\* was retired while it was mounted, a session that checks its mounts in and
\* reads again what is called stale ends with nothing staged.
Drains ==
  \A k \in Clients : LET s == NsOf[k] IN
    [](~Overmounted(s) /\ ~Dangling(s))
      => (calls[k] = MaxCalls ~> \A m \in MountPaths : overlay[s][m] = Nothing)
=============================================================================
