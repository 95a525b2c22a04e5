-------------------------- MODULE ObjectPlaneProofs ---------------------------
(***************************************************************************)
(* Collection and publication are safe for every object graph, any number  *)
(* of publishers and any schedule, under the two conditions the model      *)
(* checker showed to be needed: a publisher builds only upon rows nobody   *)
(* retires or upon its own pin, and, for durability, the process-local     *)
(* proofs cannot outlive the file they are about.                          *)
(***************************************************************************)
EXTENDS ObjectPlane, TLAPS, FiniteSetTheorems

-----------------------------------------------------------------------------
(* The inductive invariant, and the steps that read and write rows *)

Honest     == ProofSize = 0 \/ ~Collecting
Assumption == Sources \cap Retirable = {} /\ (MaxCrashes = 0 \/ Honest)

Files ==
  /\ durable \subseteq present /\ doomed \subseteq present /\ doomed \subseteq old
  /\ gc # "sweep" => doomed = {} /\ swept = {}
  /\ gc # "idle" => Collecting
  /\ ProofSize = 0 => \A p \in Procs : proof[p] = {}
Joins ==
  \A w \in Writers :
    joined[w] \subseteq present /\ joined[w] \cap old = {} /\ batch[w] \subseteq joined[w]
Rooted ==
  \A r \in Rows : rows[r] # None =>
    Reach[rows[r]] \subseteq present /\ Reach[rows[r]] \cap doomed = {}

\* What a publisher names without having put it is held by a row.
Borrows(w, o) ==
  /\ job[w].pin = None => \E r \in Sources : rows[r] # None /\ o \in Reach[rows[r]]
  /\ job[w].pin # None /\ rows[job[w].pin] # None => o \in Reach[rows[job[w].pin]]
Job(w) ==
  /\ job[w].goal \in Objects /\ job[w].dest \in Rows
  /\ job[w].expected # None => job[w].expected \in Reach[job[w].goal]
  /\ job[w].pc = "publish" => job[w].need \subseteq joined[w] /\ batch[w] = {}
  /\ \A o \in Reach[job[w].goal] : o \notin job[w].need => Borrows(w, o)
  /\ job[w].pin # None => /\ rows[job[w].pin] # None => rows[job[w].pin] \in Reach[job[w].goal]
                          /\ \A v \in Writers : v # w => job[v].pin # job[w].pin
Goes(w) ==
  /\ job[w].pc = "idle" => job[w].pin = None
  /\ job[w].pc # "idle" => Job(w)
Jobs == \A w \in Writers : Goes(w)

Durable ==
  Honest => /\ \A p \in Procs : proof[p] \subseteq durable
            /\ \A w \in Writers : joined[w] \subseteq durable \cup batch[w]
            /\ \A r \in Rows : rows[r] # None => Reach[rows[r]] \subseteq durable
Provenance ==
  MaxCrashes = 0 /\ MaxAborts = 0 =>
    \A o \in Objects : intro[o] # None => {o, intro[o]} \subseteq present \cup swept

IInv == TypeOK /\ Files /\ Joins /\ Rooted /\ Jobs /\ Durable /\ Provenance

-----------------------------------------------------------------------------
\* What lies below a set of objects.
LEMMA ReachOfMember ==
  ASSUME NEW S, NEW x PROVE x \in ReachOf(S) <=> \E o \in S : x \in Reach[o]
BY Zenon DEF ReachOf

\* What a publisher does not have to put lies below a row it builds upon.
LEMMA NotNeeded ==
  ASSUME NEW base, NEW goal
  PROVE  \A o \in Reach[goal] : o \notin Reach[goal] \ ReachOf({rows[r] : r \in base})
            => \E r \in base : o \in Reach[rows[r]]
BY ReachOfMember

\* What `init` leaves has its type, and so has what every step leaves.
LEMMA TypeInit == Init => TypeOK
BY Graph, Names DEF Init, TypeOK, NoJob

\* Every action of publishers, collector and power loss keeps the types.
LEMMA TypeStep == TypeOK /\ [Next]_vars => TypeOK'
<1> SUFFICES ASSUME TypeOK, [Next]_vars PROVE TypeOK'
  BY Zenon
<1>1. ASSUME NEW w \in Writers, NEW base \in SUBSET Rows, NEW pin \in Pins \cup {None},
             NEW goal \in Commits, NEW dest \in Rows, Start(w, base, pin, goal, dest)
      PROVE TypeOK'
  BY Graph, <1>1, Zenon DEF TypeOK, Start, store, sweep
<1>2. ASSUME NEW w \in Writers, NEW o \in Objects, Put(w, o) PROVE TypeOK'
  BY <1>2 DEF TypeOK, Put, sweep
<1>3. ASSUME NEW w \in Writers, Finish(w) PROVE TypeOK'
  BY Names, <1>3 DEF TypeOK, Finish, sweep
<1>4. ASSUME NEW w \in Writers, CollectIntros(w) PROVE TypeOK'
  BY <1>4, Zenon DEF TypeOK, CollectIntros, At, store, sweep
<1>5. ASSUME NEW w \in Writers, Publish(w) PROVE TypeOK'
  <2>1. PICK r \in Rows : rows' = [q \in Rows |-> IF q \in {r, job[w].pin} THEN job[w].goal ELSE rows[q]]
    BY <1>5, Zenon DEF Publish
  <2>2. rows' \in [Rows -> Objects \cup {None}]
    BY <2>1, Zenon DEF TypeOK
  <2>3. intro' \in [Objects -> Objects \cup {None}]
    BY <1>5, Zenon DEF Publish, TypeOK
  <2> QED
    BY <1>5, <2>2, <2>3, Zenon DEF TypeOK, Publish, Done, NoJob, store, sweep
<1>6. ASSUME NEW w \in Writers, GiveUp(w) PROVE TypeOK'
  BY <1>6, Zenon DEF TypeOK, GiveUp, Done, NoJob, store, sweep
<1>7. ASSUME NEW r \in Rows, Retire(r) PROVE TypeOK'
  BY <1>7, Zenon DEF TypeOK, Retire, store, sweep, writes
<1>8. ASSUME NEW o \in Objects, Age(o) PROVE TypeOK'
  BY <1>8, Zenon DEF TypeOK, Age, sweep, writes
<1>9. ASSUME NEW o \in Objects, Unlink(o) PROVE TypeOK'
  BY <1>9, Zenon DEF TypeOK, Unlink, writes
<1>10. ASSUME Scan PROVE TypeOK'
  BY <1>10, Zenon DEF TypeOK, Scan, store, writes
<1>11. ASSUME Mark PROVE TypeOK'
  BY <1>11, Zenon DEF TypeOK, Mark, store, writes
<1>12. ASSUME StartSweep PROVE TypeOK'
  <2>1. doomed' \subseteq cand /\ reachable' \subseteq reachable \cup ReachOf(Roots)
    BY <1>12, Zenon DEF StartSweep
  <2>2. ReachOf(Roots) \subseteq Objects
    BY Graph DEF TypeOK, ReachOf, Roots
  <2> QED
    BY <1>12, <2>1, <2>2, Zenon DEF TypeOK, StartSweep, store, writes
<1>13. ASSUME CommitSweep PROVE TypeOK'
  BY <1>13, Zenon DEF TypeOK, CommitSweep, EndSweep, store, writes
<1>14. ASSUME AbortSweep PROVE TypeOK'
  BY <1>14 DEF TypeOK, AbortSweep, EndSweep, store, writes
<1>15. ASSUME AbandonScan PROVE TypeOK'
  BY <1>15, Zenon DEF TypeOK, AbandonScan, EndSweep, store, writes
<1>16. ASSUME Crash PROVE TypeOK'
  BY <1>16 DEF TypeOK, Crash, EndSweep, NoJob
<1>17. ASSUME UNCHANGED vars PROVE TypeOK'
  BY <1>17, Zenon DEF TypeOK, vars, store, writes, sweep
<1> QED
  BY <1>1, <1>2, <1>3, <1>4, <1>5, <1>6, <1>7, <1>8, <1>9, <1>10, <1>11, <1>12,
     <1>13, <1>14, <1>15, <1>16, <1>17, Zenon DEF Next

-----------------------------------------------------------------------------
\* The repository that `init` publishes satisfies the invariant.
LEMMA InvInit == Init => IInv
<1> SUFFICES ASSUME Init PROVE IInv
  BY Zenon
<1>1. TypeOK
  BY TypeInit, Zenon
<1>2. Files /\ Joins /\ Jobs
  BY Zenon DEF Init, Files, Joins, Jobs, Goes, NoJob
<1>3. Rooted /\ Durable
  BY Zenon DEF Init, Rooted, Durable
<1>4. Provenance
  BY Graph, Names, Zenon DEF Init, Provenance
<1> QED
  BY <1>1, <1>2, <1>3, <1>4, Zenon DEF IInv

\* The publisher's transaction names nothing that is not there, and takes
\* nothing away from what another publisher builds upon.
LEMMA PublishStep ==
  ASSUME IInv, TypeOK', Assumption, NEW w \in Writers, Publish(w)
  PROVE  IInv'
<1> USE DEF IInv
<1> DEFINE g == job[w].goal
<1>0. Job(w) /\ job[w].pc = "publish" /\ g \in Objects /\ gc # "sweep"
  BY Zenon DEF Publish, Jobs, Goes, WriteLock, Job
<1>1. PICK r \in Rows :
        /\ IF rows[job[w].dest] = job[w].expected THEN r = job[w].dest
           ELSE ~Free(job[w].dest) /\ {r, job[w].dest} \cap Pins = {} /\ Free(r)
        /\ rows' = [q \in Rows |-> IF q \in {r, job[w].pin} THEN g ELSE rows[q]]
  BY Zenon DEF Publish
<1>2. \A x \in Reach[g] : x \in joined[w] \/ \E q \in Rows : rows[q] # None /\ x \in Reach[rows[q]]
  <2> SUFFICES ASSUME NEW x \in Reach[g], x \notin job[w].need
               PROVE  \E q \in Rows : rows[q] # None /\ x \in Reach[rows[q]]
    BY <1>0, Zenon DEF Job
  <2>1. Borrows(w, x)
    BY <1>0, Zenon DEF Job
  <2>2. job[w].pin # None => job[w].pin \in Rows /\ rows[job[w].pin] # None
    BY Names, Zenon DEF Publish, Free, TypeOK
  <2> QED
    BY Names, <2>1, <2>2, Zenon DEF Borrows
<1>3. Reach[g] \subseteq present
  BY <1>2, Zenon DEF Joins, Rooted
<1>4. Honest => Reach[g] \subseteq durable
  BY <1>0, <1>2, Zenon DEF Durable, Job
<1>5. \A q \in Rows : rows[q] # None => rows'[q] = rows[q] \/ (rows'[q] = g /\ rows[q] \in Reach[g])
  <2> SUFFICES ASSUME NEW q \in Rows, rows[q] # None, q \in {r, job[w].pin}
               PROVE  rows[q] \in Reach[g]
    BY <1>1, Zenon
  <2>1. CASE q = r
    BY <1>0, <1>1, <2>1, Zenon DEF Job, Free
  <2>2. CASE q = job[w].pin
    BY Names, <1>0, <2>2, Zenon DEF Job
  <2> QED
    BY <2>1, <2>2, Zenon
<1>6. Files' /\ Joins'
  BY <1>0 DEF Publish, Done, Files, Joins, TypeOK, store, sweep
<1>7. Rooted'
  BY <1>0, <1>1, <1>3, Zenon DEF Publish, Rooted, Files, store, sweep
<1>8. Durable'
  <2>1. Honest => \A q \in Rows : rows'[q] # None => Reach[rows'[q]] \subseteq durable
    BY <1>1, <1>4, Zenon DEF Durable
  <2>2. \A v \in Writers : joined'[v] = {} \/ (joined'[v] = joined[v] /\ batch'[v] = batch[v])
    BY Zenon DEF Publish, Done, TypeOK
  <2> QED
    BY <2>1, <2>2, Zenon DEF Publish, Durable, store
<1>9. Provenance'
  <2>1. \A o \in Objects : intro'[o] # intro[o] => o \in job[w].need /\ intro'[o] = g
    BY Zenon DEF Publish, TypeOK
  <2>2. job[w].need \subseteq present /\ g \in present
    BY Graph, <1>0, <1>3, Zenon DEF Job, Joins
  <2> QED
    BY <2>1, <2>2 DEF Publish, Provenance, store, sweep
<1>10. Jobs'
  <2> SUFFICES ASSUME NEW v \in Writers
               PROVE  Goes(v)'
    BY Zenon DEF Jobs
  <2>1. CASE v = w
    BY <2>1, Zenon DEF Publish, Done, NoJob, TypeOK, Goes
  <2>2. CASE v # w /\ job[v].pc = "idle"
    BY <2>2, Zenon DEF Publish, Done, Jobs, Goes, TypeOK
  <2>3. CASE v # w /\ job[v].pc # "idle"
    <3>1. job'[v] = job[v] /\ joined'[v] = joined[v] /\ batch'[v] = batch[v] /\ Job(v)
      BY <2>3, Zenon DEF Publish, Done, Jobs, Goes, TypeOK
    <3>2. job[v].pin # None => rows'[job[v].pin] = rows[job[v].pin]
      <4> SUFFICES ASSUME job[v].pin # None PROVE job[v].pin \notin {r, job[w].pin}
        BY Names, <1>1, Zenon DEF TypeOK
      <4>1. job[v].pin \in Pins
        BY Zenon DEF TypeOK
      <4>2. job[v].pin # job[w].pin
        BY <3>1, <2>3, Zenon DEF Job
      <4>3. job[v].pin # r
        BY <1>1, <4>1, Zenon DEF Publish
      <4> QED
        BY <4>2, <4>3, Zenon
    <3>3. \A o \in Reach[job[v].goal] : o \notin job[v].need => Borrows(v, o)'
      <4> SUFFICES ASSUME NEW o \in Reach[job[v].goal], o \notin job[v].need PROVE Borrows(v, o)'
        BY Zenon
      <4>1. Borrows(v, o)
        BY <3>1, Zenon DEF Job
      <4>2. CASE job[v].pin = None
        BY Graph, Names, <1>0, <1>5, <3>1, <4>1, <4>2, Zenon DEF Borrows
      <4>3. CASE job[v].pin # None
        BY <3>1, <3>2, <4>1, <4>3, Zenon DEF Borrows
      <4> QED
        BY <4>2, <4>3, Zenon
    <3>4. \A u \in Writers : u # v => job[v].pin = None \/ job'[u].pin # job[v].pin
      BY <3>1, Zenon DEF Job, Publish, Done, NoJob, TypeOK
    <3> QED
      BY <2>3, <3>1, <3>2, <3>3, <3>4, Zenon DEF Job, Goes
  <2> QED
    BY <2>1, <2>2, <2>3, Zenon
<1> QED
  BY <1>6, <1>7, <1>8, <1>9, <1>10, Zenon

\* Steps that leave jobs and rows alone leave what jobs rely upon alone.
LEMMA JobsFrame ==
  ASSUME TypeOK, Jobs, job' = job, rows' = rows,
         \A v \in Writers : job[v].pc = "publish" =>
            joined[v] \subseteq joined'[v] /\ (batch'[v] = batch[v] \/ batch'[v] = {})
  PROVE  Jobs'
BY DEF Jobs, Goes, Job, Borrows

\* A job that starts borrows only what a row holds and nobody may take away.
LEMMA StartStep ==
  ASSUME IInv, TypeOK', NEW w \in Writers, NEW base \in SUBSET Rows,
         NEW pin \in Pins \cup {None}, NEW goal \in Commits, NEW dest \in Rows,
         Start(w, base, pin, goal, dest)
  PROVE  IInv'
<1> USE DEF IInv
<1> DEFINE need == Reach[goal] \ ReachOf({rows[r] : r \in base})
           new  == [pc |-> "put", goal |-> goal, dest |-> dest,
                    expected |-> rows[dest], pin |-> pin, need |-> need]
<1>1. job' = [job EXCEPT ![w] = new] /\ rows' = rows /\ joined' = joined /\ batch' = batch
  BY Zenon DEF Start
<1>2. /\ new.pc = "put" /\ new.goal = goal /\ new.dest = dest
      /\ new.expected = rows[dest] /\ new.pin = pin /\ new.need = need
  BY Zenon
<1> HIDE DEF new
<1>3. job'[w] = new /\ \A v \in Writers : v # w => job'[v] = job[v]
  BY <1>1, Zenon DEF TypeOK
<1>4. /\ job'[w].pc = "put" /\ job'[w].goal = goal /\ job'[w].dest = dest
      /\ job'[w].expected = rows[dest] /\ job'[w].pin = pin /\ job'[w].need = need
  BY <1>2, <1>3, Zenon
<1>5. /\ base # {} /\ \A r \in base : rows[r] # None
      /\ pin = None => base \subseteq Sources
      /\ pin # None => /\ base = {pin} /\ rows[pin] \in Reach[goal]
                       /\ \A v \in Writers : job[v].pin # pin
      /\ rows[dest] # None => rows[dest] \in Reach[goal]
  BY Zenon DEF Start, Free
<1>6. \A o \in Reach[goal] : o \notin need => \E r \in base : o \in Reach[rows[r]]
  BY Zenon, NotNeeded
<1> HIDE DEF need
<1>7. Files' /\ Joins' /\ Rooted' /\ Durable' /\ Provenance'
  <2>1. UNCHANGED <<store, rows, intro, joined, batch, sweep>>
    BY Zenon DEF Start
  <2> QED
    BY <2>1, Zenon DEF Files, Joins, Rooted, Durable, Provenance, store, sweep
<1>8. ASSUME NEW o \in Reach[goal], o \notin need PROVE Borrows(w, o)'
  <2>1. PICK r \in base : o \in Reach[rows[r]]
    BY <1>6, <1>8, Zenon
  <2>2. CASE pin = None
    BY <1>1, <1>4, <1>5, <2>1, <2>2, Zenon DEF Borrows
  <2>3. CASE pin # None
    BY <1>1, <1>4, <1>5, <2>1, <2>3, Zenon DEF Borrows
  <2> QED
    BY <2>2, <2>3, Zenon
<1>9. Goes(w)'
  BY Graph, <1>1, <1>3, <1>4, <1>5, <1>8 DEF Goes, Job
<1>10. ASSUME NEW v \in Writers, v # w PROVE Goes(v)'
  <2>1. Goes(v)
    BY Zenon DEF Jobs
  <2>2. pin # None => job[v].pin # pin
    BY <1>5, Zenon
  <2>3. \A o : Borrows(v, o) => Borrows(v, o)'
    BY <1>1, <1>3, <1>10, Zenon DEF Borrows
  <2> QED
    BY <1>1, <1>3, <1>4, <1>10, <2>1, <2>2, <2>3, Zenon DEF Goes, Job
<1> QED
  BY <1>7, <1>9, <1>10, Zenon DEF Jobs


-----------------------------------------------------------------------------
(* The steps of the store and of the collector, and the retirement of a row *)

\* An abandon deletes a row that no publisher builds upon.
LEMMA RetireStep ==
  ASSUME IInv, TypeOK', Assumption, NEW r \in Rows, Retire(r)
  PROVE  IInv'
<1> USE DEF IInv
<1>1. \A q \in Rows : rows'[q] = rows[q] \/ (q = r /\ rows'[q] = None)
  BY Zenon DEF Retire, TypeOK
<1>2. r \notin Sources
  BY Zenon DEF Retire, Assumption
<1>3. Files' /\ Joins' /\ Rooted' /\ Durable' /\ Provenance'
  BY <1>1, Zenon DEF Retire, Files, Joins, Rooted, Durable, Provenance, store, sweep, writes
<1>4. Jobs'
  <2> SUFFICES ASSUME NEW w \in Writers, job[w].pc # "idle" PROVE Job(w)'
    BY Zenon DEF Jobs, Goes, Retire, writes
  <2>1. Job(w)
    BY Zenon DEF Jobs, Goes
  <2>2. \A o \in Reach[job[w].goal] : o \notin job[w].need => Borrows(w, o)'
    <3> SUFFICES ASSUME NEW o \in Reach[job[w].goal], o \notin job[w].need PROVE Borrows(w, o)'
      BY Zenon
    <3>1. Borrows(w, o)
      BY <2>1, Zenon DEF Job
    <3>2. CASE job[w].pin = None
      BY <1>1, <1>2, <3>1, <3>2 DEF Borrows, Retire, writes
    <3>3. CASE job[w].pin # None
      <4>1. job[w].pin \in Rows
        BY Names, <3>3, Zenon DEF TypeOK
      <4> QED
        BY <1>1, <3>1, <3>3, <4>1, Zenon DEF Borrows, Retire, writes
    <3> QED
      BY <3>2, <3>3, Zenon
  <2>3. job[w].pin # None => job[w].pin \in Rows
    BY Names, Zenon DEF TypeOK
  <2> QED
    BY <1>1, <2>1, <2>2, <2>3, Zenon DEF Job, Retire, writes
<1> QED
  BY <1>3, <1>4, Zenon

\* Putting, finishing a batch, walking for provenance, and giving up.
LEMMA StoreStep ==
  ASSUME IInv, TypeOK', NEW w \in Writers
  PROVE  /\ \A o \in Objects : Put(w, o) => IInv'
         /\ Finish(w) => IInv'
         /\ CollectIntros(w) => IInv'
         /\ GiveUp(w) => IInv'
<1> USE DEF IInv
<1>1. ASSUME NEW o \in Objects, Put(w, o) PROVE IInv'
  <2>1. /\ joined'[w] = joined[w] \cup {o}
        /\ batch'[w] = IF o \in present /\ o \in proof[ProcOf[w]] THEN batch[w] ELSE batch[w] \cup {o}
        /\ \A v \in Writers : v # w => joined'[v] = joined[v] /\ batch'[v] = batch[v]
    BY <1>1, Zenon DEF Put, TypeOK
  <2>2. o \notin doomed
    BY <1>1, Zenon DEF Put, Files, WriteLock
  <2>3. Files' /\ Joins' /\ Rooted' /\ Provenance'
    BY <1>1, <2>1, <2>2 DEF Put, Files, Joins, Rooted, Provenance, sweep
  <2>4. Durable'
    BY Names, <1>1, <2>1 DEF Put, Durable
  <2>5. Jobs'
    BY <1>1, <2>1, JobsFrame, Zenon DEF Put
  <2> QED
    BY <2>3, <2>4, <2>5, Zenon
<1>2. ASSUME Finish(w) PROVE IInv'
  <2>1. /\ batch'[w] = {} /\ \A v \in Writers : v # w => batch'[v] = batch[v]
        /\ durable' = durable \cup batch[w]
    BY <1>2, Zenon DEF Finish, TypeOK
  <2>2. PICK kept \in SUBSET (proof[ProcOf[w]] \cup batch[w]) :
          Cardinality(kept) <= ProofSize /\ proof' = [proof EXCEPT ![ProcOf[w]] = kept]
    BY Zenon, <1>2 DEF Finish
  <2>3. ProofSize = 0 => kept = {}
    <3>1. IsFiniteSet(kept)
      BY Graph, Names, FS_Subset, Zenon DEF TypeOK
    <3> QED
      BY <2>2, <3>1, FS_CardinalityType, FS_EmptySet
  <2>4. \A p \in Procs : proof'[p] = proof[p] \/ proof'[p] = kept
    BY <2>2, Zenon DEF TypeOK
  <2>5. Joins' /\ Rooted' /\ Provenance'
    BY <1>2, <2>1, Zenon DEF Finish, Joins, Rooted, Provenance, sweep
  <2>6. Files'
    BY <1>2, <2>1, <2>3, <2>4, Zenon DEF Finish, Files, Joins, sweep
  <2>7. Durable'
    <3> SUFFICES ASSUME Honest PROVE Durable'
      BY Zenon DEF Durable
    <3>1. kept \subseteq durable'
      BY Names, <2>1, Zenon DEF Durable
    <3>2. \A v \in Writers : joined'[v] \subseteq durable' \cup batch'[v]
      BY <1>2, <2>1, Zenon DEF Finish, Durable
    <3> QED
      BY <1>2, <2>1, <2>4, <3>1, <3>2, Zenon DEF Finish, Durable
  <2>8. Jobs'
    BY <1>2, <2>1, JobsFrame, Zenon DEF Finish
  <2> QED
    BY <2>5, <2>6, <2>7, <2>8, Zenon
<1>3. ASSUME CollectIntros(w) PROVE IInv'
  <2>1. Files' /\ Joins' /\ Rooted' /\ Durable' /\ Provenance'
    BY <1>3, Zenon DEF CollectIntros, Files, Joins, Rooted, Durable, Provenance, store, sweep
  <2>2. /\ job'[w] = At(w, "publish") /\ \A v \in Writers : v # w => job'[v] = job[v]
        /\ Job(w) /\ joined[w] = job[w].need /\ batch[w] = {}
    BY <1>3, Zenon DEF CollectIntros, TypeOK, Jobs, Goes
  <2>3. \A v \in Writers : job'[v].pin = job[v].pin /\ job'[v].goal = job[v].goal
           /\ job'[v].dest = job[v].dest /\ job'[v].expected = job[v].expected
           /\ job'[v].need = job[v].need
    BY <2>2 DEF At
  <2>4. \A v \in Writers, o \in Objects : Borrows(v, o) => Borrows(v, o)'
    BY <1>3, <2>3, Zenon DEF CollectIntros, Borrows
  <2>5. \A v \in Writers : Job(v) => Job(v)'
    BY Graph, <1>3, <2>2, <2>3, <2>4 DEF CollectIntros, Job
  <2>6. Jobs'
    <3> SUFFICES ASSUME NEW v \in Writers PROVE Goes(v)'
      BY Zenon DEF Jobs
    <3>1. Goes(v)
      BY Zenon DEF Jobs
    <3>2. CASE v = w
      <4>1. job'[w].pc = "publish"
        BY <2>2 DEF At
      <4> QED
        BY <2>2, <2>5, <3>2, <4>1, Zenon DEF Goes
    <3>3. CASE v # w
      BY <2>2, <2>5, <3>1, <3>3, Zenon DEF Goes
    <3> QED
      BY <3>2, <3>3, Zenon
  <2> QED
    BY <2>1, <2>6, Zenon
<1>4. ASSUME GiveUp(w) PROVE IInv'
  <2>1. /\ job'[w] = NoJob /\ joined'[w] = {} /\ batch'[w] = {}
        /\ \A v \in Writers : v # w => job'[v] = job[v] /\ joined'[v] = joined[v] /\ batch'[v] = batch[v]
    BY <1>4, Zenon DEF GiveUp, Done, TypeOK
  <2>2. Files' /\ Joins' /\ Rooted' /\ Durable' /\ Provenance'
    BY <1>4, <2>1, Zenon DEF GiveUp, Files, Joins, Rooted, Durable, Provenance, store, sweep
  <2>3. Jobs'
    <3> SUFFICES ASSUME NEW v \in Writers PROVE Goes(v)'
      BY Zenon DEF Jobs
    <3>1. job'[w].pc = "idle" /\ job'[w].pin = None
      BY <2>1 DEF NoJob
    <3>2. CASE v = w
      BY <3>1, <3>2, Zenon DEF Goes
    <3>3. CASE v # w
      <4>1. Goes(v) /\ UNCHANGED rows
        BY <1>4, Zenon DEF Jobs, GiveUp
      <4>2. \A o \in Objects : Borrows(v, o) => Borrows(v, o)'
        BY <2>1, <3>3, <4>1, Zenon DEF Borrows
      <4>3. Job(v) => Job(v)'
        BY Graph, <2>1, <3>1, <3>3, <4>1, <4>2, Zenon DEF Job
      <4> QED
        BY <2>1, <3>3, <4>1, <4>3, Zenon DEF Goes
    <3> QED
      BY <3>2, <3>3, Zenon
  <2> QED
    BY <2>2, <2>3, Zenon
<1> QED
  BY <1>1, <1>2, <1>3, <1>4, Zenon

\* The steps of the collector: nothing rooted or joined is ever doomed.
LEMMA CollectorStep ==
  ASSUME IInv, TypeOK'
  PROVE  /\ \A o \in Objects : Age(o) \/ Unlink(o) => IInv'
         /\ Scan \/ Mark \/ StartSweep \/ CommitSweep \/ AbortSweep \/ AbandonScan => IInv'
<1> USE DEF IInv
<1>1. ASSUME NEW o \in Objects, Age(o) PROVE IInv'
  <2>1. Jobs'
    BY <1>1, JobsFrame, Zenon DEF Age, writes
  <2> QED
    BY <1>1, <2>1 DEF Age, Files, Joins, Rooted, Durable, Provenance, writes, sweep
<1>2. ASSUME NEW o \in Objects, Unlink(o) PROVE IInv'
  <2>1. Jobs'
    BY <1>2, JobsFrame, Zenon DEF Unlink, writes
  <2>2. Files' /\ Joins' /\ Rooted' /\ Provenance'
    BY <1>2 DEF Unlink, Files, Joins, Rooted, Provenance, writes
  <2>3. Durable'
    BY <1>2 DEF Unlink, Files, Joins, Rooted, Durable, Honest, writes
  <2> QED
    BY <2>1, <2>2, <2>3, Zenon
<1>3. ASSUME Scan \/ Mark PROVE IInv'
  <2>1. Jobs'
    BY <1>3, JobsFrame, Zenon DEF Scan, Mark, writes
  <2> QED
    BY <1>3, <2>1 DEF Scan, Mark, Files, Joins, Rooted, Durable, Provenance, store, writes
<1>4. ASSUME StartSweep PROVE IInv'
  <2>1. Jobs'
    BY <1>4, JobsFrame, Zenon DEF StartSweep, writes
  <2>2. doomed' \subseteq (present \cap old) \ ReachOf(Roots)
    BY <1>4, Zenon DEF StartSweep
  <2>3. \A r \in Rows : rows[r] # None => Reach[rows[r]] \subseteq ReachOf(Roots)
    BY ReachOfMember, Zenon DEF Roots
  <2>4. swept' = {} /\ swept = {}
    BY <1>4, Zenon DEF StartSweep, Files
  <2> QED
    BY <1>4, <2>1, <2>2, <2>3, <2>4
    DEF StartSweep, Files, Joins, Rooted, Durable, Provenance, store, writes
<1>5. ASSUME CommitSweep \/ AbortSweep \/ AbandonScan PROVE IInv'
  <2>1. Jobs'
    BY <1>5, JobsFrame, Zenon DEF CommitSweep, AbortSweep, AbandonScan, writes
  <2>2. Files' /\ Joins' /\ Rooted' /\ Durable'
    BY <1>5, Zenon DEF CommitSweep, AbortSweep, AbandonScan, EndSweep, Files, Joins, Rooted,
                Durable, store, writes
  <2>3. Provenance'
    <3>1. CASE CommitSweep
      BY <3>1 DEF CommitSweep, EndSweep, Provenance, store, TypeOK
    <3>2. CASE AbortSweep
      BY <3>2 DEF AbortSweep, Provenance, TypeOK
    <3>3. CASE AbandonScan
      BY <3>3, Zenon DEF AbandonScan, EndSweep, Files, Provenance, store
    <3> QED
      BY <1>5, <3>1, <3>2, <3>3, Zenon
  <2> QED
    BY <2>1, <2>2, <2>3, Zenon
<1> QED
  BY <1>1, <1>2, <1>3, <1>4, <1>5, Zenon

\* Power loss takes only links no barrier covered, and no row names such a link.
LEMMA CrashStep ==
  ASSUME IInv, TypeOK', Assumption, Crash
  PROVE  IInv'
<1> USE DEF IInv
<1>1. MaxCrashes # 0 /\ Honest
  BY DEF Crash, Assumption, TypeOK
<1>2. durable \subseteq present' /\ durable' = present'
  BY Zenon DEF Crash
<1>3. Files' /\ Joins' /\ Jobs' /\ Provenance'
  BY <1>1, <1>2, Zenon DEF Crash, EndSweep, Files, Joins, Jobs, Goes, Provenance, NoJob
<1>4. Rooted' /\ Durable'
  BY <1>1, <1>2, Zenon DEF Crash, EndSweep, Rooted, Durable
<1> QED
  BY <1>3, <1>4, Zenon

\* Every step keeps the invariant.
LEMMA InvStep == ASSUME Assumption PROVE IInv /\ [Next]_vars => IInv'
<1> SUFFICES ASSUME IInv, [Next]_vars PROVE IInv'
  BY Zenon
<1>1. TypeOK'
  BY TypeStep, Zenon DEF IInv
<1>2. CASE UNCHANGED vars
  <2>1. Jobs'
    BY <1>2, JobsFrame, Zenon DEF IInv, vars, writes
  <2> QED
    BY <1>1, <1>2, <2>1, Zenon
    DEF IInv, vars, store, writes, sweep, Files, Joins, Rooted, Durable, Provenance
<1>3. CASE Next
  BY <1>1, <1>3, StartStep, StoreStep, PublishStep, RetireStep, CollectorStep, CrashStep, Zenon DEF Next
<1> QED
  BY <1>2, <1>3, Zenon

\* The invariant holds in every reachable state.
LEMMA Inductive == ASSUME Assumption PROVE Spec => []IInv
BY InvInit, InvStep, PTL DEF Spec

-----------------------------------------------------------------------------
(* Theorems *)

\* Every variable of the object plane and its collector keeps its type.
THEOREM TypeCorrect == Spec => []TypeOK
BY TypeInit, TypeStep, PTL DEF Spec

\* I23 for every graph, schedule and number of publishers: when publishers build
\* only upon rows nobody retires or upon their own pin, gc_collect never unlinks
\* what the catalog names, nor does power loss take it while no proof can be
\* about a file that was collected.
THEOREM CollectionSafe ==
  ASSUME Sources \cap Retirable = {}, MaxCrashes = 0 \/ Honest
  PROVE  Spec => []RootsClosed
<1>1. Assumption
  BY Zenon DEF Assumption
<1>2. IInv => RootsClosed
  BY ReachOfMember DEF IInv, Rooted, RootsClosed, Roots
<1> QED
  BY <1>1, <1>2, Inductive, PTL

\* I4 for every graph and schedule, with any number of power losses: what a
\* publishing transaction names went through `finish` first, and neither dedup
\* nor collection takes its durability away.
THEOREM PublicationDurable ==
  ASSUME Sources \cap Retirable = {}, Honest
  PROVE  Spec => []RootsDurable
<1>1. Assumption
  BY Zenon DEF Assumption
<1>2. IInv => RootsDurable
  BY ReachOfMember DEF IInv, Durable, RootsDurable, Roots
<1> QED
  BY <1>1, <1>2, Inductive, PTL

\* refresh_dedup_mtime does its work: an object a put returned is not collected
\* before its publisher is done with it, under the same conditions.
THEOREM JoinsHold ==
  ASSUME Sources \cap Retirable = {}, MaxCrashes = 0 \/ Honest
  PROVE  Spec => []JoinedStay
<1>1. Assumption
  BY Zenon DEF Assumption
<1>2. IInv => JoinedStay
  BY Zenon DEF IInv, Joins, JoinedStay
<1> QED
  BY <1>1, <1>2, Inductive, PTL

\* GcSweepTxn: while no sweep fails and power stays on, provenance rows leave
\* together with the bytes they describe.
THEOREM ProvenanceFollows ==
  ASSUME Sources \cap Retirable = {}, MaxCrashes = 0, MaxAborts = 0
  PROVE  Spec => []IntroHasBytes
<1>1. Assumption
  BY Zenon DEF Assumption
<1>2. IInv => IntroHasBytes
  BY Zenon DEF IInv, Files, Provenance, IntroHasBytes
<1> QED
  BY <1>1, <1>2, Inductive, PTL
===============================================================================
