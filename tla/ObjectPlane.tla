----------------------------- MODULE ObjectPlane -----------------------------
(***************************************************************************)
(* The object plane and its collector: publish batches (blob.rs:           *)
(* put_parts, finish), the publications that name what they put            *)
(* (workspace.rs, integration.rs, refs.rs) and gc_collect (gc.rs) with the *)
(* sweep transaction of meta.rs.                                           *)
(*                                                                         *)
(* A catalog row is anything gc_roots reads: a ref, a session pin, a mount *)
(* base.  An object is its id; Reach gives what its graph walk visits.     *)
(* Ages are cut at the floor: a file is old when its mtime is at least     *)
(* min_age_secs ago.  put_parts is one step: each of its branches ends in  *)
(* a link, or in a refresh under the shared reclamation lock.              *)
(***************************************************************************)
EXTENDS Naturals, FiniteSets

CONSTANTS
  Objects, None,
  Commits,      \* the objects that are commits; the others are tree content
  Reach,        \* Reach[o]: o and everything it names, transitively
  Rows,         \* catalog rows that root an object
  Pins,         \* the rows that are a session's pin
  Retirable,    \* the rows an abandon may delete
  Sources,      \* the rows a publisher that holds no pin builds upon
  FirstRow, FirstOid,   \* what `init` publishes
  Writers, Procs,
  ProcOf,       \* ProcOf[w]: the process (one object store) w runs in
  Collecting,   \* whether gc --collect runs
  ProofSize,    \* capacity of durable_oids
  BatchLimit,   \* GC_COLLECT_BATCH_LIMIT
  MaxCrashes,   \* bound: power losses
  MaxAborts     \* bound: sweeps that fail after they started to unlink

ASSUME Graph ==
  /\ IsFiniteSet(Objects) /\ None \notin Objects /\ Commits \subseteq Objects
  /\ Reach \in [Objects -> SUBSET Objects]
  /\ \A o \in Objects : o \in Reach[o] /\ \A p \in Reach[o] : Reach[p] \subseteq Reach[o]
ASSUME Names ==
  /\ Pins \subseteq Rows /\ Retirable \subseteq Rows /\ Sources \subseteq Rows
  /\ None \notin Rows /\ FirstRow \in Rows \ Pins /\ FirstOid \in Objects
  /\ ProcOf \in [Writers -> Procs]
  /\ Collecting \in BOOLEAN /\ {ProofSize, BatchLimit, MaxCrashes, MaxAborts} \subseteq Nat

VARIABLES
  present,    \* object files with a link under objects/
  old,        \* those whose mtime is past the age floor
  durable,    \* those whose directory entry survives power loss
  proof,      \* proof[p]: durable_oids of process p
  rows,       \* rows[r]: the object row r names, or None
  intro,      \* object_intro: intro[o] is the commit that introduced o, or None
  job,        \* job[w]: what w is publishing
  joined,     \* joined[w]: the objects w has put
  batch,      \* batch[w]: PublishBatch.oids, joined but not yet proved durable
  gc,         \* the collector: "idle", "scanned", "marked" or "sweep"
  cand,       \* the scan, later the shortlist
  reachable,  \* the visited set of the root walks
  doomed,     \* what the sweep has still to unlink
  swept,      \* what it has unlinked
  crashes, aborts

store  == <<present, old, durable, proof>>
writes == <<job, joined, batch>>
sweep  == <<gc, cand, reachable, doomed, swept>>
vars   == <<store, rows, intro, writes, sweep, crashes, aborts>>

ReachOf(S) == UNION {Reach[o] : o \in S}
Roots      == {rows[r] : r \in Rows} \ {None}
Free(r)    == rows[r] = None
WriteLock  == gc # "sweep"     \* BEGIN IMMEDIATE and the reclamation lock are free

NoJob == [pc |-> "idle", goal |-> None, dest |-> None, expected |-> None,
          pin |-> None, need |-> {}]
At(w, pc) == [pc |-> pc, goal |-> job[w].goal, dest |-> job[w].dest,
              expected |-> job[w].expected, pin |-> job[w].pin, need |-> job[w].need]

-----------------------------------------------------------------------------
(* Publication *)

\* A publisher reads the rows it builds upon and decides on an object `goal` to
\* publish at row `dest`: checkin over its pin, merge over two refs, branch,
\* mount or session_open over one (these put nothing).  It has to put what
\* those rows do not already name.  A commit ref only moves to a descendant, and
\* so does a pin.  The calls of one session are sequential.
Start(w, base, pin, goal, dest) ==
  /\ job[w].pc = "idle"
  /\ base # {} /\ \A r \in base : ~Free(r)
  /\ IF pin = None THEN base \subseteq Sources
     ELSE /\ base = {pin} /\ rows[pin] \in Reach[goal]
          /\ \A v \in Writers : job[v].pin # pin
  /\ Free(dest) \/ rows[dest] \in Reach[goal]
  /\ LET need == Reach[goal] \ ReachOf({rows[r] : r \in base}) IN
       /\ need \cap Commits \subseteq {goal}
       /\ dest \in Pins => need = {}
       /\ need = {} => Free(dest)
       /\ job' = [job EXCEPT ![w] = [pc |-> "put", goal |-> goal, dest |-> dest,
                    expected |-> rows[dest], pin |-> pin, need |-> need]]
  /\ UNCHANGED <<store, rows, intro, joined, batch, sweep, crashes, aborts>>

\* What is put next: children before parents.
Puttable(w, o) == o \in job[w].need \ joined[w]
                  /\ Reach[o] \cap job[w].need \subseteq joined[w] \cup {o}

\* put_parts: an existing file is refreshed under the shared lock and joins the
\* batch unless this process holds a proof for it; otherwise it is linked.
Put(w, o) ==
  /\ job[w].pc = "put" /\ Puttable(w, o)
  /\ o \in present => WriteLock
  /\ present' = present \cup {o}
  /\ old'     = old \ {o}
  /\ batch'   = [batch EXCEPT ![w] = IF o \in present /\ o \in proof[ProcOf[w]] THEN @ ELSE @ \cup {o}]
  /\ joined'  = [joined EXCEPT ![w] = @ \cup {o}]
  /\ UNCHANGED <<durable, proof, rows, intro, job, sweep, crashes, aborts>>

\* The directory barriers of a batch succeeded: the one place proofs are made.
\* The proof cache is an LRU cache of ProofSize entries.
Finish(w) ==
  /\ batch[w] # {}
  /\ durable' = durable \cup batch[w]
  /\ \E kept \in SUBSET (proof[ProcOf[w]] \cup batch[w]) :
       /\ Cardinality(kept) <= ProofSize
       /\ proof' = [proof EXCEPT ![ProcOf[w]] = kept]
  /\ batch'   = [batch EXCEPT ![w] = {}]
  /\ UNCHANGED <<present, old, rows, intro, job, joined, sweep, crashes, aborts>>

\* Faulty variant: the provenance walk does not wait for the batch.
CollectIntrosEarly(w) ==
  /\ job[w].pc = "put" /\ joined[w] = job[w].need
  /\ Reach[job[w].goal] \subseteq present
  /\ job' = [job EXCEPT ![w] = At(w, "publish")]
  /\ UNCHANGED <<store, rows, intro, joined, batch, sweep, crashes, aborts>>

\* Everything is put and finished; collect_intros reads the new graph and
\* fails on a file that is not there.
CollectIntros(w) ==
  /\ job[w].pc = "put" /\ joined[w] = job[w].need /\ batch[w] = {}
  /\ Reach[job[w].goal] \subseteq present
  /\ job' = [job EXCEPT ![w] = At(w, "publish")]
  /\ UNCHANGED <<store, rows, intro, joined, batch, sweep, crashes, aborts>>

Done(w) ==
  /\ job'    = [job EXCEPT ![w] = NoJob]
  /\ joined' = [joined EXCEPT ![w] = {}]
  /\ batch'  = [batch EXCEPT ![w] = {}]

\* The publishing transaction.  A session repins its mount in it and fails when
\* the mount is gone; a row that moved meanwhile makes it publish a fork.  A new
\* pin belongs to a new session, whose id nobody uses yet.
Publish(w) ==
  /\ job[w].pc = "publish" /\ WriteLock
  /\ job[w].pin # None => ~Free(job[w].pin)
  /\ job[w].dest \in Pins => \A v \in Writers : job[v].pin # job[w].dest
  /\ \E r \in Rows :
       /\ IF rows[job[w].dest] = job[w].expected THEN r = job[w].dest
          ELSE ~Free(job[w].dest) /\ {r, job[w].dest} \cap Pins = {} /\ Free(r)
       /\ rows' = [q \in Rows |-> IF q \in {r, job[w].pin} THEN job[w].goal ELSE rows[q]]
  /\ intro' = [o \in Objects |-> IF intro[o] = None /\ o \in job[w].need \ Commits
                                 THEN job[w].goal ELSE intro[o]]
  /\ Done(w)
  /\ UNCHANGED <<store, sweep, crashes, aborts>>

\* Any step of a publisher may fail, or its process be killed.
GiveUp(w) ==
  /\ job[w].pc # "idle"
  /\ Done(w)
  /\ UNCHANGED <<store, rows, intro, sweep, crashes, aborts>>

\* abandon_ref, abandon_session, publish_resolution's conflict ref.
Retire(r) ==
  /\ r \in Retirable /\ ~Free(r) /\ WriteLock
  /\ rows' = [rows EXCEPT ![r] = None]
  /\ UNCHANGED <<store, intro, writes, sweep, crashes, aborts>>

\* The clock.  The floor exceeds every put-to-publish interval: the documented
\* precondition of collection.
Age(o) ==
  /\ Collecting
  /\ o \in present \ old /\ \A w \in Writers : o \notin joined[w]
  /\ old' = old \cup {o}
  /\ UNCHANGED <<present, durable, proof, rows, intro, writes, sweep, crashes, aborts>>

-----------------------------------------------------------------------------
(* gc_collect *)

\* scan_objects, unlocked.
Scan ==
  /\ Collecting /\ gc = "idle"
  /\ gc' = "scanned" /\ cand' = present
  /\ UNCHANGED <<store, rows, intro, writes, reachable, doomed, swept, crashes, aborts>>

\* The first root walk, unlocked; it fails closed on a missing file.
Mark ==
  /\ gc = "scanned"
  /\ ReachOf(Roots) \subseteq present
  /\ gc' = "marked" /\ reachable' = ReachOf(Roots)
  /\ cand' = cand \ ReachOf(Roots)
  /\ UNCHANGED <<store, rows, intro, writes, doomed, swept, crashes, aborts>>

\* protect_from_survivors walks leniently: a missing file hides what lies
\* behind it, which may then be protected by another path or not at all.
Protections(kept) ==
  LET sure == kept \cup ReachOf({o \in kept : Reach[o] \subseteq present}) IN
  {sure \cup more : more \in SUBSET (ReachOf(kept) \ sure)}

\* Faulty variant: the roots are not read again under the transaction.
StartSweepOldRoots ==
  /\ gc = "marked"
  /\ LET eligible == (cand \cap present \cap old) \ reachable IN
       \E offered \in SUBSET eligible :
         /\ offered = eligible \/ Cardinality(offered) = BatchLimit
         /\ \E spared \in Protections((cand \cap present) \ (reachable \cup offered)) :
              doomed' = offered \ spared
  /\ gc' = "sweep" /\ swept' = {} /\ UNCHANGED <<cand, reachable>>
  /\ UNCHANGED <<store, rows, intro, writes, crashes, aborts>>

\* BEGIN IMMEDIATE; the roots are read again, the walk continues with the same
\* visited set; then, under the exclusive reclamation lock, every age is read
\* again, and what a spared candidate reaches is spared too.
StartSweep ==
  /\ gc = "marked"
  /\ ReachOf(Roots) \subseteq present \cup reachable
  /\ LET live     == reachable \cup ReachOf(Roots)
         eligible == (cand \cap present \cap old) \ live IN
       \E offered \in SUBSET eligible :
         /\ offered = eligible \/ Cardinality(offered) = BatchLimit
         /\ reachable' = live
         /\ \E spared \in Protections((cand \cap present) \ (live \cup offered)) :
              doomed' = offered \ spared
  /\ gc' = "sweep" /\ swept' = {} /\ UNCHANGED cand
  /\ UNCHANGED <<store, rows, intro, writes, crashes, aborts>>

Unlink(o) ==
  /\ gc = "sweep" /\ o \in doomed
  /\ present' = present \ {o} /\ old' = old \ {o} /\ durable' = durable \ {o}
  /\ doomed' = doomed \ {o} /\ swept' = swept \cup {o}
  /\ UNCHANGED <<proof, rows, intro, writes, gc, cand, reachable, crashes, aborts>>

EndSweep == /\ gc' = "idle" /\ cand' = {} /\ reachable' = {} /\ doomed' = {} /\ swept' = {}

\* Faulty variant: only the rows of the object itself are deleted.
CommitSweepHalf ==
  /\ gc = "sweep" /\ doomed = {}
  /\ intro' = [o \in Objects |-> IF o \in swept THEN None ELSE intro[o]]
  /\ EndSweep
  /\ UNCHANGED <<store, rows, writes, crashes, aborts>>

\* forget_object of every swept object, in both columns, commits with the sweep.
CommitSweep ==
  /\ gc = "sweep" /\ doomed = {}
  /\ intro' = [o \in Objects |-> IF {o, intro[o]} \cap swept # {} THEN None ELSE intro[o]]
  /\ EndSweep
  /\ UNCHANGED <<store, rows, writes, crashes, aborts>>

\* A failed unlink, a failed COMMIT or the death of the collector rolls the
\* transaction back: the rows return, the files do not.
AbortSweep ==
  /\ gc = "sweep" /\ aborts < MaxAborts
  /\ aborts' = aborts + 1
  /\ EndSweep
  /\ UNCHANGED <<store, rows, intro, writes, crashes>>

\* The walk failed closed, or the collector stopped before it swept.
AbandonScan ==
  /\ gc \in {"scanned", "marked"}
  /\ EndSweep
  /\ UNCHANGED <<store, rows, intro, writes, crashes, aborts>>

\* Power loss: every process dies, open transactions roll back, and of the
\* links no barrier covered any may be lost.
Crash ==
  /\ crashes < MaxCrashes
  /\ crashes' = crashes + 1
  /\ \E kept \in SUBSET (present \ durable) : present' = durable \cup kept
  /\ old'     = old \cap present' /\ durable' = present'
  /\ proof'   = [p \in Procs |-> {}]
  /\ job'     = [w \in Writers |-> NoJob]
  /\ joined'  = [w \in Writers |-> {}] /\ batch' = [w \in Writers |-> {}]
  /\ EndSweep
  /\ UNCHANGED <<rows, intro, aborts>>

-----------------------------------------------------------------------------
Init ==
  /\ present = Reach[FirstOid] /\ durable = present /\ old = {}
  /\ proof = [p \in Procs |-> {}]
  /\ rows  = [r \in Rows |-> IF r = FirstRow THEN FirstOid ELSE None]
  /\ intro = [o \in Objects |-> IF o \in present \ Commits THEN FirstOid ELSE None]
  /\ job   = [w \in Writers |-> NoJob]
  /\ joined = [w \in Writers |-> {}] /\ batch = [w \in Writers |-> {}]
  /\ gc = "idle" /\ cand = {} /\ reachable = {} /\ doomed = {} /\ swept = {}
  /\ crashes = 0 /\ aborts = 0

Next ==
  \/ \E w \in Writers :
       \/ \E base \in SUBSET Rows, pin \in Pins \cup {None}, goal \in Commits, dest \in Rows :
            Start(w, base, pin, goal, dest)
       \/ \E o \in Objects : Put(w, o)
       \/ Finish(w) \/ CollectIntros(w) \/ Publish(w) \/ GiveUp(w)
  \/ \E r \in Rows : Retire(r)
  \/ \E o \in Objects : Age(o) \/ Unlink(o)
  \/ Scan \/ Mark \/ StartSweep \/ CommitSweep \/ AbortSweep \/ AbandonScan
  \/ Crash

Spec == Init /\ [][Next]_vars

-----------------------------------------------------------------------------
(* Properties *)

TypeOK ==
  /\ present \subseteq Objects /\ old \subseteq Objects /\ durable \subseteq Objects
  /\ proof \in [Procs -> SUBSET Objects]
  /\ rows \in [Rows -> Objects \cup {None}]
  /\ intro \in [Objects -> Objects \cup {None}]
  /\ job \in [Writers -> [pc : {"idle", "put", "publish"}, goal : Objects \cup {None},
                          dest : Rows \cup {None}, expected : Objects \cup {None},
                          pin : Pins \cup {None}, need : SUBSET Objects]]
  /\ joined \in [Writers -> SUBSET Objects] /\ batch \in [Writers -> SUBSET Objects]
  /\ gc \in {"idle", "scanned", "marked", "sweep"}
  /\ cand \subseteq Objects /\ reachable \subseteq Objects
  /\ doomed \subseteq Objects /\ swept \subseteq Objects
  /\ crashes \in Nat /\ aborts \in Nat

\* I23: collection unlinks only bytes nothing can reach.  Whatever the catalog
\* names is there with everything below it, although gc_collect shortlists from
\* an unlocked scan while publishers join, rename and abandon.
RootsClosed == ReachOf(Roots) \subseteq present

\* I4: a row is published only when every file it names and every directory
\* entry on the path to it is durable, so power loss at any moment leaves no
\* row over missing bytes.
RootsDurable == ReachOf(Roots) \subseteq durable

\* refresh_dedup_mtime: what a put returned, written or joined, is still there
\* when its publisher gets to name it.
JoinedStay == \A w \in Writers : joined[w] \subseteq present

\* GcSweepTxn: "the unlinks commit or roll back with the catalog rows that
\* describe them".  Outside a sweep no provenance row names, in either column,
\* an object that is gone.
IntroHasBytes ==
  gc = "idle" => \A o \in Objects : intro[o] # None => {o, intro[o]} \subseteq present
=============================================================================
