----------------------------- MODULE HostProofs -----------------------------
(***************************************************************************)
(* The host's safety for any number of processes, directories, threads and *)
(* connections, from any start the assumptions allow: a published          *)
(* repository is whole and an acknowledged write's repository stays, the   *)
(* daemon has the cell to itself, a catalog is migrated once, and a client *)
(* that was turned away had nothing executed.                              *)
(***************************************************************************)
EXTENDS Host, TLAPS

-----------------------------------------------------------------------------
(* The inductive invariant of the repository *)

Building == {"cleanup", "fill", "sync", "publish"}

Using == {"joined", "schema", "open", "serving", "stopped"}

Phases == Building \cup Using \cup {"idle", "published", "found", "descriptor", "locked"}

ProcRec == [ph: Phases, mode: Modes, dir: Dirs \cup {Nobody}, gen: Nat,
            from: 0..CurrentSchemaVersion]

LockRec == [dir: Dirs \cup {Nobody}, gen: Nat, mode: Modes]

RTypeOK ==
    /\ root \in Dirs \cup {Nobody} /\ rootDur \in {root, Nobody}
    /\ siblings \in SUBSET Dirs
    /\ built \in [Dirs -> 0..Complete] /\ durable \in [Dirs -> 0..Complete]
    /\ initLock \in Procs \cup {Nobody}
    /\ lockFile \in [Dirs -> [present: BOOLEAN, gen: Nat]]
    /\ held \in [Procs -> LockRec]
    /\ proc \in [Procs -> ProcRec]
    /\ cat \in Catalog
    /\ acked \in BOOLEAN

\* What the entry .forge names: never a staging directory, and complete on
\* disk, not only in memory.
Entry ==
    /\ root \notin siblings
    /\ root # Nobody => built[root] = Complete /\ durable[root] = Complete
    /\ acked => root # Nobody /\ rootDur = root

\* What a process relies on in each of its phases.
Relies(p) ==
    /\ At(p, "idle") => proc[p] = IdleProc
    /\ proc[p].ph \in Building \cup {"published"} => initLock = p /\ proc[p].mode = "shared"
    /\ proc[p].ph \in Building \ {"cleanup"} => proc[p].dir \in Dirs
    /\ (proc[p].ph \in {"sync", "publish"} /\ proc[p].dir \in siblings)
          => built[proc[p].dir] = Complete
    /\ (At(p, "publish") /\ proc[p].dir \in siblings) => durable[proc[p].dir] = Complete
    /\ (Owns(p) \/ proc[p].ph \in {"found", "descriptor"})
          => root # Nobody /\ proc[p].dir = root
    /\ (proc[p].ph \in Using /\ Writable(proc[p].mode)) => rootDur = root
    /\ proc[p].ph \in {"serving", "stopped"} => proc[p].mode = "exclusive"
    /\ At(p, "serving") => sock = p

\* The lock a process has is on the LOCK that its directory holds now, and
\* every process that needs one has one.
Locked(p) ==
    /\ held[p] # NoLock =>
          /\ Owns(p) \/ proc[p].ph \in {"sync", "publish"}
          /\ lockFile[proc[p].dir].present
          /\ held[p] = [dir |-> proc[p].dir, gen |-> lockFile[proc[p].dir].gen,
                        mode |-> proc[p].mode]
    /\ (proc[p].ph \in {"sync", "publish"} \/ (Owns(p) /\ Writable(proc[p].mode)))
          => held[p] # NoLock
    /\ At(p, "descriptor") =>
          /\ lockFile[proc[p].dir].present
          /\ proc[p].gen = lockFile[proc[p].dir].gen

\* flock: an exclusive lock on an inode is the only lock on it.
Exclusion ==
    \A p, q \in Procs :
       (p # q /\ held[p] # NoLock /\ held[q] # NoLock /\ held[p].dir = held[q].dir)
          => "exclusive" \notin {held[p].mode, held[q].mode}

\* What a process knows of the catalog it has read or migrated.
Migration(p) ==
    /\ (At(p, "schema") /\ proc[p].from = CurrentSchemaVersion)
          => CurrentSchemaVersion \in cat.ledger
    /\ (proc[p].ph \in {"open", "serving", "stopped"} /\ Writable(proc[p].mode))
          => CurrentSchemaVersion \in cat.ledger

Kinds == cat.kind # "v1" => cat.ledger \cap {2, 3} # {}

RInv == /\ RTypeOK /\ Entry /\ Exclusion /\ Kinds
        /\ \A p \in Procs : Relies(p) /\ Locked(p) /\ Migration(p)

-----------------------------------------------------------------------------
(* The inductive invariant of the daemon *)

AllConns == Conns \cup HttpConns

ConnRec == [st: {"off", "backlog", "queued", "served", "closed"},
            sent: Nat, done: Nat, told: {"none", "busy", "shut"}]

Doings == {"take", "idle", "frame", "body", "dispatch", "reading", "writing", "reply"}

WorkRec == [ph: Doings, c: AllConns \cup {"none"}, req: Requests \cup {"none"}]

DTypeOK ==
    /\ conn \in [AllConns -> ConnRec]
    /\ queue \in Seq(Conns)
    /\ worker \in [Threads -> WorkRec]

\* A connection that waits has had nothing executed, and the queue holds it
\* once; one that was turned away is closed; a thread works for a connection
\* that was not turned away.
DInv ==
    /\ DTypeOK
    /\ \A c \in AllConns :
          /\ conn[c].st \in {"off", "backlog", "queued"} => conn[c].done = 0
          /\ conn[c].told # "none" => conn[c].done = 0 /\ conn[c].st = "closed"
    /\ \A i \in 1..Len(queue) : conn[queue[i]].st = "queued"
    /\ \A i, j \in 1..Len(queue) : queue[i] = queue[j] => i = j
    /\ \A w \in Threads : ~Does(w, "take") =>
          /\ Of(w) \in AllConns
          /\ conn[Of(w)].st \in {"served", "closed"} /\ conn[Of(w)].told = "none"


-----------------------------------------------------------------------------
(* The repository's steps, one lemma per group of actions *)

LEMMA Records == IdleProc \in ProcRec /\ NoLock \in LockRec
<1>1. IdleProc \in ProcRec
  BY DEF IdleProc, ProcRec, Phases, Modes, CurrentSchemaVersion
<1>2. NoLock \in LockRec BY Zenon DEF NoLock, LockRec, Modes
<1> QED BY <1>1, <1>2, Zenon

\* A process outside its calls relies on nothing.
LEMMA IdleRelies ==
  ASSUME NEW p \in Procs, proc'[p] = IdleProc, held'[p] = NoLock
  PROVE  Relies(p)' /\ Locked(p)' /\ Migration(p)'
<1>1. proc'[p].ph = "idle" BY DEF IdleProc
<1>2. Relies(p)' BY <1>1, Zenon DEF Relies, At, Owns, Building, Using
<1>3. Locked(p)' BY <1>1, Zenon DEF Locked, At, Owns
<1>4. Migration(p)' BY <1>1, Zenon DEF Migration, At
<1> QED BY <1>2, <1>3, <1>4, Zenon

\* The lock that a process has, and who must have one.
LEMMA LockIs ==
  ASSUME NEW p \in Procs, Locked(p), held[p] # NoLock
  PROVE  /\ held[p].dir = proc[p].dir /\ held[p].mode = proc[p].mode
         /\ held[p].gen = lockFile[proc[p].dir].gen /\ lockFile[proc[p].dir].present
         /\ Owns(p) \/ proc[p].ph \in {"sync", "publish"}
BY DEF Locked

LEMMA OwnerLocked ==
  ASSUME NEW p \in Procs, Locked(p), Owns(p), proc[p].mode = "exclusive"
  PROVE  held[p] # NoLock
BY Zenon DEF Locked, Writable

LEMMA OwnerOfRoot ==
  ASSUME NEW p \in Procs, Relies(p), Owns(p)
  PROVE  root # Nobody /\ proc[p].dir = root
BY Zenon DEF Relies

\* The initializer that has just made LOCK in its staging directory.
LEMMA StagedRelies ==
  ASSUME NEW p \in Procs, NEW d \in Dirs, NEW g,
         proc'[p].ph = "sync", proc'[p].dir = d, proc'[p].mode = "shared",
         initLock' = p, built'[d] = Complete,
         held'[p] = [dir |-> d, gen |-> g, mode |-> "shared"],
         lockFile'[d] = [present |-> TRUE, gen |-> g]
  PROVE  Relies(p)' /\ Locked(p)' /\ Migration(p)'
<1>1. Relies(p)' BY Zenon DEF Relies, At, Owns, Building, Using
<1>2. Locked(p)' BY HostConstants DEF Locked, At, Owns, NoLock
<1>3. Migration(p)' BY Zenon DEF Migration, At
<1> QED BY <1>1, <1>2, <1>3, Zenon

\* One process takes a lock that conflicts with nobody's.
LEMMA OneMoreLock ==
  ASSUME Exclusion, NEW p \in Procs, NEW l, held'[p] = l,
         \A q \in Procs : q # p => held'[q] = held[q],
         \A q \in Procs : q # p /\ held[q] # NoLock /\ held[q].dir = l.dir =>
                             "exclusive" \notin {l.mode, held[q].mode}
  PROVE  Exclusion'
BY Zenon DEF Exclusion

\* What Go does to the process that takes the step, and to no other.
LEMMA GoMoves ==
  ASSUME RTypeOK, NEW p \in Procs, NEW ph \in Phases, Go(p, ph)
  PROVE  /\ proc' \in [Procs -> ProcRec]
         /\ \A q \in Procs : q # p => proc'[q] = proc[q]
         /\ proc'[p].ph = ph /\ proc'[p].mode = proc[p].mode /\ proc'[p].dir = proc[p].dir
         /\ proc'[p].gen = proc[p].gen /\ proc'[p].from = proc[p].from
BY Zenon DEF RTypeOK, ProcRec, Go

\* A process that leaves gives its locks back and disturbs nobody.
LEMMA LeaveKeeps ==
  ASSUME RInv, NEW p \in Procs, Leave(p), UNCHANGED <<Disk, lockFile, sock, cat, acked>>
  PROVE  RInv'
<1> USE HostConstants DEF RInv, Disk, Leave, At, IdleProc, NoLock, Owns, Writable, Building, Using
<1>1. RTypeOK' BY Records, Zenon DEF RTypeOK
<1>2. Entry' /\ Kinds' BY Zenon DEF Entry, Kinds
<1>3. /\ \A q \in Procs : q # p => proc'[q] = proc[q] /\ held'[q] = held[q]
      /\ proc'[p] = IdleProc /\ held'[p] = NoLock
  BY Zenon DEF RTypeOK
<1>4. Exclusion' BY <1>3 DEF Exclusion
<1>5. ASSUME NEW q \in Procs, q # p PROVE Relies(q)' /\ Locked(q)' /\ Migration(q)'
  <2>1. Relies(q)' BY <1>3, <1>5 DEF Relies, RTypeOK
  <2>2. Locked(q)' BY <1>3, <1>5 DEF Locked
  <2>3. Migration(q)' BY <1>3, <1>5, Zenon DEF Migration
  <2> QED BY <2>1, <2>2, <2>3, Zenon
<1>6. Relies(p)' /\ Locked(p)' /\ Migration(p)' BY <1>3, IdleRelies, Zenon
<1> QED BY <1>1, <1>2, <1>4, <1>5, <1>6, Zenon

\* A step of p disturbs no other process: it leaves the locks, the LOCK and the
\* published directory that q relies on as they are, and it touches staging
\* only under the parent lock.
LEMMA OthersKeep ==
  ASSUME RInv, NEW p \in Procs, NEW q \in Procs, q # p,
         proc'[q] = proc[q], held'[q] = held[q],
         initLock = q => initLock' = q,
         root' = root \/ (root = Nobody /\ initLock = p),
         rootDur' \in {rootDur, root},
         initLock = p \/ UNCHANGED <<siblings, built, durable>>,
         \A d \in Dirs : (lockFile[d].present /\ (d = root \/ initLock # p))
                            => lockFile'[d] = lockFile[d],
         At(q, "serving") => sock' = sock,
         CurrentSchemaVersion \in cat.ledger => CurrentSchemaVersion \in cat'.ledger
  PROVE  Relies(q)' /\ Locked(q)' /\ Migration(q)'
<1> USE HostConstants DEF RInv, At, Owns, Building, Using
<1>1. Relies(q)' BY DEF Relies, RTypeOK, IdleProc
<1>2. Locked(q)' BY DEF Locked, Relies, RTypeOK
<1>3. Migration(q)' BY Zenon DEF Migration
<1> QED BY <1>1, <1>2, <1>3, Zenon

\* Steps that change neither a lock nor a file of the host.
LEMMA QuietKeeps ==
  ASSUME RInv, UNCHANGED <<Disk, initLock, lockFile, held, proc, sock, cat>>,
         acked' \in BOOLEAN, acked' => acked \/ (root # Nobody /\ rootDur = root)
  PROVE  RInv'
BY DEF RInv, RTypeOK, Entry, Exclusion, Kinds, Relies, Locked, Migration, Disk, At, Owns,
       LockConflict, Catalog

\* Outside its calls, and before it reaches LOCK, a process has no lock.
LEMMA HoldsNothing ==
  ASSUME RInv, NEW p \in Procs, proc[p].ph \in {"idle", "cleanup", "fill", "found", "descriptor"}
  PROVE  held[p] = NoLock
<1>1. Locked(p) BY Zenon DEF RInv
<1> QED BY <1>1, Zenon DEF Locked, Owns, At

\* init takes the parent lock.
LEMMA InitCallKeeps ==
  ASSUME RInv, NEW p \in Procs, InitCall(p)
  PROVE  RInv'
<1> USE HostConstants DEF RInv, Disk, Call, Go, At
<1>1. CASE initLock # Nobody
  BY <1>1, QuietKeeps, Zenon DEF InitCall, RTypeOK
<1>2. CASE initLock = Nobody
  <2>1. /\ \A q \in Procs : q # p => proc'[q] = proc[q]
        /\ proc'[p] = [IdleProc EXCEPT !.ph = "cleanup"]
        /\ proc[p] = IdleProc /\ initLock' = p
        /\ UNCHANGED <<root, rootDur, siblings, built, durable, lockFile, held, sock, cat, acked>>
    BY <1>2 DEF InitCall, Relies, RTypeOK
  <2>2. RTypeOK'
    <3>1. "cleanup" \in Phases BY Zenon DEF Phases, Building
    <3> QED BY <1>2, <2>1, <3>1, GoMoves, Zenon DEF RTypeOK, InitCall
  <2>3. Entry' /\ Kinds' /\ Exclusion' BY <2>1, Zenon DEF Entry, Kinds, Exclusion
  <2>4. ASSUME NEW q \in Procs, q # p PROVE Relies(q)' /\ Locked(q)' /\ Migration(q)'
    BY <1>2, <2>1, <2>4, OthersKeep, Zenon
  <2>5. Relies(p)' /\ Locked(p)' /\ Migration(p)'
    <3> USE DEF IdleProc, Building, Using, Owns
    <3> QED BY <2>1, HoldsNothing DEF Relies, Locked, Migration
  <2> QED BY <2>2, <2>3, <2>4, <2>5, Zenon
<1> QED BY <1>1, <1>2, Zenon

\* init reclaims what is left of earlier attempts, and refuses or stages.
LEMMA InitCleanupKeeps ==
  ASSUME RInv, NEW p \in Procs, InitCleanup(p)
  PROVE  RInv'
<1> USE HostConstants DEF RInv, At
<1>1. held[p] = NoLock /\ initLock = p
  BY HoldsNothing, Zenon DEF InitCleanup, Relies, Building
<1>2. CASE root # Nobody
  <2> USE <1>2 DEF InitCleanup
  <2>1. /\ \A q \in Procs : q # p => proc'[q] = proc[q] /\ held'[q] = held[q]
        /\ proc'[p] = IdleProc /\ held'[p] = NoLock /\ initLock' = Nobody
        /\ UNCHANGED <<root, built, durable, lockFile, sock, cat, acked>>
        /\ siblings' = {} /\ rootDur' \in {rootDur, root}
    BY <1>1, Zenon DEF Leave, RTypeOK
  <2>2. RTypeOK' BY <2>1, Records, Zenon DEF RTypeOK, Leave
  <2>3. Entry' /\ Kinds' /\ Exclusion' BY <2>1 DEF Entry, Kinds, Exclusion, RTypeOK
  <2>4. ASSUME NEW q \in Procs, q # p PROVE Relies(q)' /\ Locked(q)' /\ Migration(q)'
    BY <1>1, <2>1, <2>4, OthersKeep, Zenon
  <2>5. Relies(p)' /\ Locked(p)' /\ Migration(p)'
    BY <2>1, IdleRelies, Zenon
  <2> QED BY <2>2, <2>3, <2>4, <2>5, Zenon
<1>3. CASE root = Nobody
  <2> USE <1>3
  <2>0. PICK d \in Dirs \ siblings :
          /\ siblings' = {d}
          /\ built' = [built EXCEPT ![d] = 0]
          /\ durable' = [durable EXCEPT ![d] = 0]
          /\ lockFile' = [lockFile EXCEPT ![d] = [present |-> FALSE, gen |-> 0]]
          /\ proc' = [proc EXCEPT ![p].ph = "fill", ![p].dir = d]
          /\ UNCHANGED <<held, initLock>>
    BY Zenon DEF InitCleanup
  <2>1. /\ \A q \in Procs : q # p => proc'[q] = proc[q]
        /\ proc'[p] = [proc[p] EXCEPT !.ph = "fill", !.dir = d]
        /\ UNCHANGED <<root, sock, cat, acked>>
        /\ rootDur' \in {rootDur, root}
    BY <2>0, Zenon DEF InitCleanup, RTypeOK
  <2>2. RTypeOK'
    <3>1. "fill" \in Phases BY Zenon DEF Phases, Building
    <3>2. proc'[p] \in ProcRec BY <2>1, <3>1, Zenon DEF RTypeOK, ProcRec
    <3> QED BY <2>0, <2>1, <3>2 DEF RTypeOK, Complete, Stages
  <2>3. Entry' /\ Kinds' /\ Exclusion' BY <2>0, <2>1, Zenon DEF Entry, Kinds, Exclusion, RTypeOK
  <2>4. ASSUME NEW q \in Procs, q # p PROVE Relies(q)' /\ Locked(q)' /\ Migration(q)'
    BY <1>1, <2>0, <2>1, <2>4, OthersKeep, Zenon
  <2>5. Relies(p)' /\ Locked(p)' /\ Migration(p)'
    <3>1. /\ proc'[p].ph = "fill" /\ proc'[p].dir = d /\ proc'[p].mode = proc[p].mode
      BY <2>1 DEF RTypeOK, ProcRec
    <3>2. proc[p].mode = "shared" BY Zenon DEF InitCleanup, Relies, Building
    <3> QED BY <1>1, <2>0, <3>1, <3>2, Zenon DEF Relies, Locked, Migration, Building, Using, Owns
  <2> QED BY <2>2, <2>3, <2>4, <2>5, Zenon
<1> QED BY <1>2, <1>3, Zenon

\* init writes a stage into its staging directory.
LEMMA InitFillKeeps ==
  ASSUME RInv, NEW p \in Procs, InitFill(p)
  PROVE  RInv'
<1> USE HostConstants DEF RInv, At, InitFill
<1>1. initLock = p BY Zenon DEF Relies, Building
<1>2. RTypeOK' BY DEF RTypeOK, Complete, Stages
<1>3. Entry' /\ Kinds' /\ Exclusion' BY Zenon DEF Entry, Kinds, Exclusion, RTypeOK
<1>4. ASSUME NEW q \in Procs, q # p PROVE Relies(q)' /\ Locked(q)' /\ Migration(q)'
  BY <1>1, <1>4, OthersKeep, Zenon DEF RTypeOK
<1>5. Relies(p)' /\ Locked(p)' /\ Migration(p)'
  BY Zenon DEF Relies, Locked, Migration, Building, Using, Owns
<1> QED BY <1>2, <1>3, <1>4, <1>5, Zenon

\* init creates LOCK in staging and holds it.
LEMMA InitLockKeeps ==
  ASSUME RInv, NEW p \in Procs, InitLock(p)
  PROVE  RInv'
<1> USE HostConstants DEF RInv, At
<1> DEFINE d == proc[p].dir
           g == lockFile[d].gen + 1
<1>1. /\ initLock = p /\ proc[p].mode = "shared" /\ d \in Dirs /\ d \in siblings /\ d # root
      /\ built[d] = Complete
  BY Zenon DEF Relies, Building, InitLock, Entry
<1>2. /\ \A q \in Procs : q # p => proc'[q] = proc[q] /\ held'[q] = held[q]
      /\ proc' \in [Procs -> ProcRec]
      /\ proc'[p].ph = "sync" /\ proc'[p].dir = d /\ proc'[p].mode = "shared"
  <2>1. "sync" \in Phases BY Zenon DEF Phases, Building
  <2> QED BY <1>1, <2>1, GoMoves DEF InitLock, RTypeOK
<1>3. /\ held'[p] = [dir |-> d, gen |-> g, mode |-> "shared"]
      /\ lockFile'[d] = [present |-> TRUE, gen |-> g]
      /\ \A e \in Dirs : e # d => lockFile'[e] = lockFile[e]
      /\ UNCHANGED <<root, rootDur, siblings, built, durable, initLock, sock, cat, acked>>
      /\ g \in Nat
  <2>1. lockFile[d].gen \in Nat BY <1>1, Zenon DEF RTypeOK
  <2>2. /\ lockFile' = [lockFile EXCEPT ![d] = [present |-> TRUE, gen |-> g]]
        /\ held' = [held EXCEPT ![p] = [dir |-> d, gen |-> g, mode |-> "shared"]]
        /\ UNCHANGED <<root, rootDur, siblings, built, durable, initLock, sock, cat, acked>>
    BY Zenon DEF InitLock, Disk
  <2>3. g \in Nat BY <2>1
  <2>4. d \in DOMAIN lockFile /\ p \in DOMAIN held /\ Dirs = DOMAIN lockFile
    BY <1>1, Zenon DEF RTypeOK
  <2> HIDE DEF d, g
  <2> QED BY <2>2, <2>3, <2>4, Zenon
<1>4. RTypeOK'
  <2>1. held'[p] \in LockRec BY <1>1, <1>3 DEF LockRec, Modes
  <2> QED BY <1>2, <1>3, <2>1, Zenon DEF RTypeOK, InitLock
<1>5. Entry' /\ Kinds' BY <1>3, Zenon DEF Entry, Kinds
<1>6. ASSUME NEW q \in Procs, q # p PROVE Relies(q)' /\ Locked(q)' /\ Migration(q)'
  BY <1>1, <1>2, <1>3, <1>6, OthersKeep, Zenon
<1>7. Relies(p)' /\ Locked(p)' /\ Migration(p)'
  BY <1>1, <1>2, <1>3, StagedRelies, Zenon
<1>8. Exclusion'
  <2>1. ASSUME NEW q \in Procs, q # p, held[q] # NoLock PROVE held[q].dir # d
    <3>1. held[q].dir = proc[q].dir /\ (Owns(q) \/ proc[q].ph \in {"sync", "publish"})
      <4>1. Locked(q) BY Zenon
      <4> QED BY <2>1, <4>1, LockIs, Zenon
    <3> QED BY <1>1, <2>1, <3>1, Zenon DEF Relies, Building
  <2> QED BY <1>2, <1>3, <2>1 DEF Exclusion
<1> QED BY <1>4, <1>5, <1>6, <1>7, <1>8, Zenon

\* init forces the staging directory.
LEMMA InitSyncKeeps ==
  ASSUME RInv, NEW p \in Procs, InitSync(p)
  PROVE  RInv'
<1> USE HostConstants DEF RInv, At
<1> DEFINE d == proc[p].dir
<1>1. /\ initLock = p /\ proc[p].mode = "shared" /\ d \in Dirs /\ d \in siblings /\ d # root
      /\ built[d] = Complete
  BY Zenon DEF Relies, Building, InitSync, Entry
<1>2. /\ \A q \in Procs : q # p => proc'[q] = proc[q]
      /\ proc' \in [Procs -> ProcRec]
      /\ proc'[p].ph = "publish" /\ proc'[p].dir = d /\ proc'[p].mode = "shared"
  <2>1. "publish" \in Phases BY Zenon DEF Phases, Building
  <2> QED BY <1>1, <2>1, GoMoves, Zenon DEF InitSync
<1>3. /\ durable'[d] = Complete
      /\ \A e \in Dirs : e # d => durable'[e] = durable[e]
      /\ UNCHANGED <<root, rootDur, siblings, built, initLock, lockFile, held, sock, cat, acked>>
  BY <1>1, Zenon DEF InitSync, RTypeOK
<1>4. RTypeOK' BY <1>1, <1>2, <1>3, Zenon DEF RTypeOK, InitSync
<1>5. Entry' /\ Kinds' /\ Exclusion' BY <1>3, Zenon DEF Entry, Kinds, Exclusion, RTypeOK
<1>6. ASSUME NEW q \in Procs, q # p PROVE Relies(q)' /\ Locked(q)' /\ Migration(q)'
  BY <1>1, <1>2, <1>3, <1>6, OthersKeep, Zenon
<1>7. Relies(p)' /\ Locked(p)' /\ Migration(p)'
  <2> USE <1>1, <1>2, <1>3 DEF Building, Using, Owns
  <2>1. proc[p].ph = "sync" /\ Locked(p) BY Zenon DEF InitSync
  <2>2. Locked(p)' BY <2>1, ZenonT(30) DEF Locked
  <2> QED BY <2>2, Zenon DEF Relies, Migration
<1> QED BY <1>4, <1>5, <1>6, <1>7, Zenon

\* The rename publishes a directory that is complete and forced.
LEMMA InitPublishKeeps ==
  ASSUME RInv, NEW p \in Procs, InitPublish(p)
  PROVE  RInv'
<1> USE HostConstants DEF RInv, At
<1> DEFINE d == proc[p].dir
<1>1. /\ initLock = p /\ proc[p].mode = "shared" /\ d \in Dirs /\ d \in siblings
      /\ built[d] = Complete /\ durable[d] = Complete
      /\ root = Nobody /\ rootDur = Nobody /\ ~acked
  BY Zenon DEF Relies, Building, InitPublish, Entry, RTypeOK
<1>2. /\ \A q \in Procs : q # p => proc'[q] = proc[q]
      /\ proc' \in [Procs -> ProcRec]
      /\ proc'[p].ph = "published" /\ proc'[p].dir = d /\ proc'[p].mode = "shared"
  <2>1. "published" \in Phases BY Zenon DEF Phases
  <2> QED BY <1>1, <2>1, GoMoves, Zenon DEF InitPublish
<1>3. /\ root' = d /\ siblings' = siblings \ {d} /\ cat' = FreshCatalog
      /\ UNCHANGED <<rootDur, built, durable, initLock, lockFile, held, sock, acked>>
  BY Zenon DEF InitPublish
<1>4. FreshCatalog \in Catalog /\ FreshCatalog.ledger = 1..3
  BY DEF FreshCatalog, Catalog, CurrentSchemaVersion
<1>5. RTypeOK' BY <1>1, <1>2, <1>3, <1>4, Zenon DEF RTypeOK
<1>6. Entry' /\ Kinds' /\ Exclusion' BY <1>1, <1>3, <1>4 DEF Entry, Kinds, Exclusion
<1>7. ASSUME NEW q \in Procs, q # p PROVE Relies(q)' /\ Locked(q)' /\ Migration(q)'
  BY ONLY RInv, HostConstants, <1>1, <1>2, <1>3, <1>4, <1>7, OthersKeep DEF CurrentSchemaVersion
<1>8. Relies(p)' /\ Locked(p)' /\ Migration(p)'
  <2> USE <1>1, <1>2, <1>3 DEF Building, Using, Owns
  <2>1. proc[p].ph = "publish" /\ Locked(p) BY Zenon DEF InitPublish
  <2>2. Locked(p)' BY <2>1, ZenonT(30) DEF Locked
  <2> QED BY <2>2, Zenon DEF Relies, Migration
<1> QED BY <1>5, <1>6, <1>7, <1>8, Zenon

\* init forces the parent: its publication survives a power loss.
LEMMA InitJoinKeeps ==
  ASSUME RInv, NEW p \in Procs, InitJoin(p)
  PROVE  RInv'
<1> USE HostConstants DEF RInv, At
<1>1. /\ proc[p].ph = "published" /\ proc[p].mode = "shared" /\ proc[p].dir = root
      /\ root # Nobody
  BY Zenon DEF InitJoin, Relies, Building, Owns
<1>2. /\ \A q \in Procs : q # p => proc'[q] = proc[q]
      /\ proc' \in [Procs -> ProcRec]
      /\ proc'[p].ph = "locked" /\ proc'[p].dir = root /\ proc'[p].mode = "shared"
  <2>1. "locked" \in Phases BY Zenon DEF Phases
  <2> QED BY <1>1, <2>1, GoMoves, Zenon DEF InitJoin
<1>3. /\ rootDur' = root
      /\ UNCHANGED <<root, siblings, built, durable, initLock, lockFile, held, sock, cat, acked>>
  BY Zenon DEF InitJoin
<1>4. RTypeOK' BY <1>2, <1>3, Zenon DEF RTypeOK
<1>5. Entry' /\ Kinds' /\ Exclusion' BY <1>3, Zenon DEF Entry, Kinds, Exclusion
<1>6. ASSUME NEW q \in Procs, q # p PROVE Relies(q)' /\ Locked(q)' /\ Migration(q)'
  BY <1>2, <1>3, <1>6, OthersKeep, Zenon
<1>7. Relies(p)' /\ Locked(p)' /\ Migration(p)'
  <2> USE <1>1, <1>2, <1>3 DEF Building, Using, Owns
  <2>1. Locked(p) BY Zenon
  <2>2. Locked(p)' BY <2>1, ZenonT(30) DEF Locked
  <2> QED BY <2>2, Zenon DEF Relies, Migration
<1> QED BY <1>4, <1>5, <1>6, <1>7, Zenon

\* A failed init takes its staging directory with it.
LEMMA InitFailsKeeps ==
  ASSUME RInv, NEW p \in Procs, InitFails(p)
  PROVE  RInv'
<1> USE HostConstants DEF RInv, At
<1>1. initLock = p BY Zenon DEF InitFails, Relies, Building
<1>2. /\ \A q \in Procs : q # p => proc'[q] = proc[q] /\ held'[q] = held[q]
      /\ proc'[p] = IdleProc /\ held'[p] = NoLock /\ initLock' = Nobody
      /\ siblings' = siblings \ {proc[p].dir}
      /\ UNCHANGED <<root, rootDur, built, durable, lockFile, sock, cat, acked>>
  BY <1>1, Zenon DEF InitFails, Leave, RTypeOK
<1>3. RTypeOK' BY <1>2, Records, Zenon DEF RTypeOK, InitFails, Leave
<1>4. Entry' /\ Kinds' /\ Exclusion' BY <1>2, Zenon DEF Entry, Kinds, Exclusion
<1>5. ASSUME NEW q \in Procs, q # p PROVE Relies(q)' /\ Locked(q)' /\ Migration(q)'
  BY <1>1, <1>2, <1>5, OthersKeep, Zenon
<1>6. Relies(p)' /\ Locked(p)' /\ Migration(p)'
  BY <1>2, IdleRelies, Zenon
<1> QED BY <1>3, <1>4, <1>5, <1>6, Zenon

\* An open finds the repository.
LEMMA OpenCallKeeps ==
  ASSUME RInv, NEW p \in Procs, NEW mode \in Modes, OpenCall(p, mode)
  PROVE  RInv'
<1> USE HostConstants DEF RInv, At
<1>1. held[p] = NoLock /\ root # Nobody /\ root \in Dirs
  BY HoldsNothing, Zenon DEF OpenCall, Call, RTypeOK
<1> DEFINE r == [IdleProc EXCEPT !.ph = "found", !.mode = mode, !.dir = root]
<1>2. /\ \A q \in Procs : q # p => proc'[q] = proc[q]
      /\ proc'[p] = r
      /\ UNCHANGED <<root, rootDur, siblings, built, durable, initLock, lockFile, held, sock,
                     cat, acked>>
  BY Zenon DEF OpenCall, RTypeOK, Disk
<1>3. r \in ProcRec /\ r.ph = "found" /\ r.dir = root /\ r.mode = mode
  <2>1. "found" \in Phases BY Zenon DEF Phases
  <2> QED BY <1>1, <2>1, Records, Zenon DEF ProcRec
<1> HIDE DEF r
<1>4. RTypeOK' BY <1>2, <1>3, Zenon DEF RTypeOK, OpenCall
<1>5. Entry' /\ Kinds' /\ Exclusion' BY <1>2, Zenon DEF Entry, Kinds, Exclusion
<1>6. ASSUME NEW q \in Procs, q # p PROVE Relies(q)' /\ Locked(q)' /\ Migration(q)'
  BY <1>2, <1>6, OthersKeep, Zenon
<1>7. Relies(p)' /\ Locked(p)' /\ Migration(p)'
  BY <1>1, <1>2, <1>3, Zenon DEF Relies, Locked, Migration, Building, Using, Owns
<1> QED BY <1>4, <1>5, <1>6, <1>7, Zenon

\* An open gets a descriptor of LOCK, or creates it, or goes on without.
LEMMA OpenLockFileKeeps ==
  ASSUME RInv, NEW p \in Procs, OpenLockFile(p)
  PROVE  RInv'
<1> USE HostConstants DEF RInv, At
<1> DEFINE d == proc[p].dir
           made == lockFile[d].gen + 1
<1>1. /\ proc[p].ph = "found" /\ d = root /\ d \in Dirs /\ held[p] = NoLock
      /\ lockFile[d].gen \in Nat
  BY HoldsNothing, Zenon DEF OpenLockFile, Relies, RTypeOK
<1>2. UNCHANGED <<root, rootDur, siblings, built, durable, sock, cat, acked>>
  BY Zenon DEF OpenLockFile, Disk
<1>3. ASSUME NEW g \in Nat, UNCHANGED <<held, initLock>>,
             proc' = [proc EXCEPT ![p].ph = "descriptor", ![p].gen = g],
             lockFile' \in [Dirs -> [present: BOOLEAN, gen: Nat]],
             \A e \in Dirs : lockFile[e].present => lockFile'[e] = lockFile[e],
             lockFile'[d].present, lockFile'[d].gen = g
      PROVE  RInv'
  <2>1. /\ \A q \in Procs : q # p => proc'[q] = proc[q]
        /\ proc'[p].ph = "descriptor" /\ proc'[p].dir = d /\ proc'[p].mode = proc[p].mode
        /\ proc'[p].gen = g
    BY <1>3 DEF RTypeOK, ProcRec
  <2>2. proc' \in [Procs -> ProcRec]
    <3>1. "descriptor" \in Phases BY Zenon DEF Phases
    <3>2. proc'[p] \in ProcRec
      <4>1. proc[p] \in ProcRec /\ proc'[p] = [proc[p] EXCEPT !.ph = "descriptor", !.gen = g]
        BY <1>3, Zenon DEF RTypeOK
      <4> QED BY <3>1, <4>1, Zenon DEF ProcRec
    <3> QED BY <1>3, <3>2, Zenon DEF RTypeOK
  <2>3. RTypeOK' BY <1>2, <1>3, <2>2, Zenon DEF RTypeOK
  <2>4. Entry' /\ Kinds' /\ Exclusion' BY <1>2, <1>3, Zenon DEF Entry, Kinds, Exclusion
  <2>5. ASSUME NEW q \in Procs, q # p PROVE Relies(q)' /\ Locked(q)' /\ Migration(q)'
    BY <1>2, <1>3, <2>1, <2>5, OthersKeep, Zenon
  <2>6. Relies(p)' /\ Locked(p)' /\ Migration(p)'
    BY <1>1, <1>2, <1>3, <2>1, Zenon DEF Relies, Locked, Migration, Building, Using, Owns
  <2> QED BY <2>3, <2>4, <2>5, <2>6, Zenon
<1>4. CASE lockFile[d].present
  BY <1>1, <1>3, <1>4 DEF OpenLockFile, RTypeOK
<1>5. CASE ~lockFile[d].present /\ proc[p].mode = "exclusive"
  <2>1. /\ lockFile' = [lockFile EXCEPT ![d] = [present |-> TRUE, gen |-> made]]
        /\ proc' = [proc EXCEPT ![p].ph = "descriptor", ![p].gen = made]
        /\ UNCHANGED <<held, initLock>>
    BY <1>5, Zenon DEF OpenLockFile, Writable
  <2>2. made \in Nat BY <1>1
  <2> HIDE DEF made
  <2> QED BY <1>1, <1>3, <1>5, <2>1, <2>2, Zenon DEF RTypeOK
<1>6. CASE ~lockFile[d].present /\ proc[p].mode = "shared"
  BY <1>2, <1>6, LeaveKeeps, Zenon DEF OpenLockFile, Writable, Disk
<1>7. CASE ~lockFile[d].present /\ ~Writable(proc[p].mode)
  <2>1. Go(p, "locked") /\ UNCHANGED <<lockFile, held, initLock>>
    BY <1>7, Zenon DEF OpenLockFile, Writable
  <2>2. /\ \A q \in Procs : q # p => proc'[q] = proc[q]
        /\ proc' \in [Procs -> ProcRec]
        /\ proc'[p].ph = "locked" /\ proc'[p].dir = d /\ proc'[p].mode = proc[p].mode
    <3>1. "locked" \in Phases BY Zenon DEF Phases
    <3> QED BY <2>1, <3>1, GoMoves, Zenon
  <2>3. RTypeOK' BY <1>2, <2>1, <2>2, Zenon DEF RTypeOK
  <2>4. Entry' /\ Kinds' /\ Exclusion' BY <1>2, <2>1, Zenon DEF Entry, Kinds, Exclusion
  <2>5. ASSUME NEW q \in Procs, q # p PROVE Relies(q)' /\ Locked(q)' /\ Migration(q)'
    BY <1>2, <2>1, <2>2, <2>5, OthersKeep, Zenon
  <2>6. Relies(p)' /\ Locked(p)' /\ Migration(p)'
    BY <1>1, <1>2, <1>7, <2>1, <2>2, Zenon DEF Relies, Locked, Migration, Building, Using, Owns
  <2> QED BY <2>3, <2>4, <2>5, <2>6, Zenon
<1> QED BY <1>4, <1>5, <1>6, <1>7, Zenon DEF OpenLockFile, Writable

\* The try_lock is granted only beside locks it does not exclude.
LEMMA TryLockKeeps ==
  ASSUME RInv, NEW p \in Procs, TryLock(p)
  PROVE  RInv'
<1> USE HostConstants DEF RInv, At
<1>1. CASE LockConflict(p)
  BY <1>1, LeaveKeeps, Zenon DEF TryLock
<1>2. CASE ~LockConflict(p)
  <2> DEFINE l == [dir |-> proc[p].dir, gen |-> proc[p].gen, mode |-> proc[p].mode]
  <2>1. /\ proc[p].ph = "descriptor" /\ proc[p].dir = root /\ root \in Dirs /\ held[p] = NoLock
        /\ lockFile[root].present /\ proc[p].gen = lockFile[root].gen
    <3>1. proc[p].ph = "descriptor" BY Zenon DEF TryLock
    <3>2. held[p] = NoLock BY <3>1, HoldsNothing, Zenon
    <3>3. proc[p].dir = root BY <3>1, Zenon DEF Relies
    <3>4. /\ lockFile[proc[p].dir].present /\ proc[p].gen = lockFile[proc[p].dir].gen
      BY <3>1, Zenon DEF Locked
    <3>5. root \in Dirs BY <3>1, Zenon DEF Relies, RTypeOK
    <3> QED BY <3>1, <3>2, <3>3, <3>4, <3>5, Zenon
  <2>2. /\ \A q \in Procs : q # p => proc'[q] = proc[q] /\ held'[q] = held[q]
        /\ proc' \in [Procs -> ProcRec]
        /\ proc'[p].ph = "locked" /\ proc'[p].dir = root /\ proc'[p].mode = proc[p].mode
        /\ held'[p] = l
    <3>1. "locked" \in Phases BY Zenon DEF Phases
    <3>2. held' = [held EXCEPT ![p] = l] /\ Go(p, "locked") BY <1>2, Zenon DEF TryLock
    <3>3. held'[p] = l /\ \A q \in Procs : q # p => held'[q] = held[q]
      BY <3>2, Zenon DEF RTypeOK
    <3> QED BY <2>1, <3>1, <3>2, <3>3, GoMoves, Zenon
  <2>3. UNCHANGED <<root, rootDur, siblings, built, durable, initLock, lockFile, sock, cat, acked>>
    BY <1>2, Zenon DEF TryLock, Disk
  <2>4. /\ l \in LockRec /\ l.dir = root /\ l.gen = lockFile[root].gen /\ l.mode = proc[p].mode
        /\ l # NoLock
    BY <2>1, Zenon DEF LockRec, ProcRec, RTypeOK, NoLock
  <2>5. RTypeOK' BY <1>2, <2>2, <2>3, <2>4, Zenon DEF RTypeOK, TryLock
  <2>6. Entry' /\ Kinds' BY <2>3, Zenon DEF Entry, Kinds
  <2>7. ASSUME NEW q \in Procs, q # p PROVE Relies(q)' /\ Locked(q)' /\ Migration(q)'
    BY <2>2, <2>3, <2>7, OthersKeep, Zenon
  <2>8. Relies(p)' /\ Locked(p)' /\ Migration(p)'
    BY <2>1, <2>2, <2>3, <2>4, Zenon DEF Relies, Locked, Migration, Building, Using, Owns
  <2>9. Exclusion'
    <3>1. ASSUME NEW q \in Procs, q # p, held[q] # NoLock, held[q].dir = root
          PROVE  "exclusive" \notin {proc[p].mode, held[q].mode}
      <4>1. held[q].gen = lockFile[root].gen
        <5>1. Locked(q) BY Zenon
        <5> QED BY <3>1, <5>1, LockIs, Zenon
      <4> QED BY <1>2, <2>1, <3>1, <4>1, Zenon DEF LockConflict
    <3> HIDE DEF l
    <3>2. \A q \in Procs : q # p /\ held[q] # NoLock /\ held[q].dir = l.dir =>
                               "exclusive" \notin {l.mode, held[q].mode}
      BY <2>4, <3>1, Zenon
    <3> QED BY <2>2, <3>2, OneMoreLock
  <2> QED BY <2>5, <2>6, <2>7, <2>8, <2>9, Zenon
<1> QED BY <1>1, <1>2, Zenon

\* A writable handle forces the parent before it goes on.
LEMMA JoinKeeps ==
  ASSUME RInv, NEW p \in Procs, Join(p)
  PROVE  RInv'
<1> USE HostConstants DEF RInv, At
<1>1. proc[p].ph = "locked" /\ proc[p].dir = root /\ root # Nobody
  BY Zenon DEF Join, Relies, Owns
<1>2. /\ \A q \in Procs : q # p => proc'[q] = proc[q]
      /\ proc' \in [Procs -> ProcRec]
      /\ proc'[p].ph = "joined" /\ proc'[p].dir = root /\ proc'[p].mode = proc[p].mode
  <2>1. "joined" \in Phases BY Zenon DEF Phases, Using
  <2> QED BY <1>1, <2>1, GoMoves, Zenon DEF Join
<1>3. /\ rootDur' \in {rootDur, root}
      /\ Writable(proc[p].mode) => rootDur' = root
      /\ UNCHANGED <<root, siblings, built, durable, initLock, lockFile, held, sock, cat, acked>>
  BY Zenon DEF Join
<1>4. RTypeOK' BY <1>2, <1>3, Zenon DEF RTypeOK
<1>5. Entry' /\ Kinds' /\ Exclusion' BY <1>3, Zenon DEF Entry, Kinds, Exclusion
<1>6. ASSUME NEW q \in Procs, q # p PROVE Relies(q)' /\ Locked(q)' /\ Migration(q)'
  BY <1>2, <1>3, <1>6, OthersKeep, Zenon
<1>7. Relies(p)' /\ Locked(p)' /\ Migration(p)'
  <2> USE <1>1, <1>2, <1>3 DEF Building, Using, Owns
  <2>1. Locked(p) BY Zenon
  <2>2. Locked(p)' BY <2>1, ZenonT(30) DEF Locked
  <2> QED BY <2>2, Zenon DEF Relies, Migration, Writable
<1> QED BY <1>4, <1>5, <1>6, <1>7, Zenon

\* The version of a catalog is 3 only if its ledger says so.
LEMMA Versions ==
  ASSUME NEW c \in Catalog
  PROVE  /\ SchemaVersion(c) \in 0..CurrentSchemaVersion
         /\ SchemaVersion(c) = CurrentSchemaVersion => CurrentSchemaVersion \in c.ledger
<1> USE DEF CurrentSchemaVersion
<1>1. CASE c.ledger = {} BY <1>1 DEF SchemaVersion
<1>2. CASE c.ledger # {}
  <2>0. c.ledger \in SUBSET {1, 2, 3} BY DEF Catalog
  <2>1. \E x \in c.ledger : \A y \in c.ledger : x >= y
    <3>1. CASE 3 \in c.ledger BY <2>0, <3>1
    <3>2. CASE 3 \notin c.ledger /\ 2 \in c.ledger BY <2>0, <3>2
    <3>3. CASE 3 \notin c.ledger /\ 2 \notin c.ledger BY <1>2, <2>0, <3>3
    <3> QED BY <3>1, <3>2, <3>3, Zenon
  <2>2. Max(c.ledger) \in c.ledger BY <2>1, Zenon DEF Max
  <2> QED BY <1>2, <2>0, <2>2 DEF SchemaVersion
<1> QED BY <1>1, <1>2, Zenon

\* The schema version an open reads is the catalog's at that moment.
LEMMA ReadSchemaKeeps ==
  ASSUME RInv, NEW p \in Procs, ReadSchema(p)
  PROVE  RInv'
<1> USE HostConstants DEF RInv, At
<1>1. CASE /\ ~Writable(proc[p].mode) /\ proc[p].mode = "readonly"
           /\ SchemaVersion(cat) < CurrentSchemaVersion
  BY <1>1, LeaveKeeps, Zenon DEF ReadSchema
<1>2. ASSUME NEW ph \in {"schema", "open"}, NEW from \in 0..CurrentSchemaVersion,
             proc' = [proc EXCEPT ![p].ph = ph, ![p].from = from],
             UNCHANGED <<held, initLock>>,
             ph = "schema" => from = SchemaVersion(cat),
             ph = "open" => ~Writable(proc[p].mode)
      PROVE  RInv'
  <2>1. /\ UNCHANGED <<root, rootDur, siblings, built, durable, lockFile, sock, cat, acked>>
        /\ proc[p].ph = "joined"
    BY Zenon DEF ReadSchema, Disk
  <2>2. /\ \A q \in Procs : q # p => proc'[q] = proc[q]
        /\ proc'[p].ph = ph /\ proc'[p].dir = proc[p].dir /\ proc'[p].mode = proc[p].mode
        /\ proc'[p].from = from
    BY <1>2 DEF RTypeOK, ProcRec
  <2>3. proc' \in [Procs -> ProcRec]
    <3>1. ph \in Phases BY Zenon DEF Phases, Using
    <3>2. proc'[p] \in ProcRec
      <4>1. proc[p] \in ProcRec /\ proc'[p] = [proc[p] EXCEPT !.ph = ph, !.from = from]
        BY <1>2, Zenon DEF RTypeOK
      <4> QED BY <3>1, <4>1, Zenon DEF ProcRec
    <3> QED BY <1>2, <3>2, Zenon DEF RTypeOK
  <2>4. RTypeOK' BY <1>2, <2>1, <2>3, Zenon DEF RTypeOK
  <2>5. Entry' /\ Kinds' /\ Exclusion' BY <1>2, <2>1, Zenon DEF Entry, Kinds, Exclusion
  <2>6. ASSUME NEW q \in Procs, q # p PROVE Relies(q)' /\ Locked(q)' /\ Migration(q)'
    BY <1>2, <2>1, <2>2, <2>6, OthersKeep, Zenon
  <2>7. Relies(p)' /\ Locked(p)' /\ Migration(p)'
    <3> USE <1>2, <2>1, <2>2 DEF Building, Using, Owns
    <3>1. Locked(p) /\ Relies(p) BY Zenon
    <3>2. Locked(p)' BY <3>1, ZenonT(30) DEF Locked
    <3>3. Relies(p)' BY <3>1, Zenon DEF Relies
    <3>4. Migration(p)' BY Versions DEF Migration, RTypeOK
    <3> QED BY <3>2, <3>3, <3>4, Zenon
  <2> QED BY <2>4, <2>5, <2>6, <2>7, Zenon
<1>3. CASE Writable(proc[p].mode)
  <2>1. SchemaVersion(cat) \in 0..CurrentSchemaVersion BY Versions, Zenon DEF RTypeOK
  <2> QED BY <1>2, <1>3, <2>1, Zenon DEF ReadSchema
<1>4. CASE /\ ~Writable(proc[p].mode)
           /\ ~(proc[p].mode = "readonly" /\ SchemaVersion(cat) < CurrentSchemaVersion)
  <2>1. Go(p, "open") /\ UNCHANGED <<held, initLock>> BY <1>4, Zenon DEF ReadSchema
  <2>2. proc[p].from \in 0..CurrentSchemaVersion BY Zenon DEF RTypeOK, ProcRec
  <2>3. proc' = [proc EXCEPT ![p].ph = "open", ![p].from = proc[p].from]
    BY <2>1, Zenon DEF Go, RTypeOK, ProcRec
  <2> QED BY <1>2, <1>4, <2>1, <2>2, <2>3, Zenon
<1> QED BY <1>1, <1>3, <1>4, Zenon

\* What the migration transaction does to the catalog when it commits.
LEMMA MigrateCatalog ==
  ASSUME RInv, NEW p \in Procs, proc[p].ph = "schema",
         ~(proc[p].from < CurrentSchemaVersion /\ MigrationConflicts(cat, proc[p].from)),
         cat' = IF proc[p].from < CurrentSchemaVersion
                THEN Migrated(cat, proc[p].from) ELSE cat
  PROVE  /\ cat' \in Catalog /\ CurrentSchemaVersion \in cat'.ledger
         /\ cat.kind # "v1" => cat'.kind = cat.kind
         /\ cat.base # 0 => cat'.base = cat.base
<1> USE HostConstants DEF RInv, At, CurrentSchemaVersion
<1>1. proc[p].from \in 0..3 /\ cat \in Catalog BY Zenon DEF RTypeOK, ProcRec
<1>2. CASE proc[p].from = 3
  <2>1. cat' = cat BY ONLY <1>2, cat' = IF proc[p].from < CurrentSchemaVersion THEN Migrated(cat, proc[p].from) ELSE cat
  <2> QED BY ONLY RInv, <1>1, <1>2, <2>1, proc[p].ph = "schema", Zenon DEF Migration
<1>3. CASE proc[p].from < 3
  <2> DEFINE from == proc[p].from
  <2>1. cat' = Migrated(cat, from) /\ ~MigrationConflicts(cat, from) BY <1>3, Zenon
  <2>2. /\ cat'.kind = IF from <= 1 THEN "blob" ELSE cat.kind
        /\ cat'.base = IF cat.base = 0 THEN cat.head ELSE cat.base
        /\ cat'.ledger = cat.ledger \cup ((from + 1)..3)
        /\ cat' \in Catalog
    <3> DEFINE k == IF from <= 1 THEN "blob" ELSE cat.kind
               b == IF cat.base = 0 THEN cat.head ELSE cat.base
               l == cat.ledger \cup ((from + 1)..3)
    <3>1. /\ k \in {"v1", "blob", "tree", "absent"} /\ b \in 0..MaxHead
          /\ l \in SUBSET (1..3)
      BY <1>1, <1>3 DEF Catalog
    <3>2. cat' = [cat EXCEPT !.kind = k, !.base = b, !.ledger = l] BY <2>1, Zenon DEF Migrated
    <3> HIDE DEF k, b, l
    <3>3. cat'.kind = k /\ cat'.base = b /\ cat'.ledger = l /\ cat' \in Catalog
      BY <1>1, <3>1, <3>2, Zenon DEF Catalog
    <3> QED BY <3>3, Zenon DEF k, b, l
  <2>3. from <= 1 => cat.kind = "v1"
    <3>1. cat.ledger \cap ((from + 1)..3) = {} BY <2>1, Zenon DEF MigrationConflicts
    <3> QED BY <1>1, <3>1 DEF Kinds
  <2>4. 3 \in cat'.ledger BY <1>1, <1>3, <2>2
  <2> QED BY <2>2, <2>3, <2>4, Zenon
<1> QED BY <1>1, <1>2, <1>3

\* The migration commits, or fails and leaves the catalog alone.
LEMMA MigrateKeeps ==
  ASSUME RInv, NEW p \in Procs, Migrate(p)
  PROVE  RInv'
<1> USE HostConstants DEF RInv, At
<1>1. CASE proc[p].from < CurrentSchemaVersion /\ MigrationConflicts(cat, proc[p].from)
  BY <1>1, LeaveKeeps, Zenon DEF Migrate
<1>2. CASE ~(proc[p].from < CurrentSchemaVersion /\ MigrationConflicts(cat, proc[p].from))
  <2>1. /\ proc[p].ph = "schema" /\ Go(p, "open")
        /\ cat' = IF proc[p].from < CurrentSchemaVersion
                  THEN Migrated(cat, proc[p].from) ELSE cat
        /\ initLock' = IF initLock = p THEN Nobody ELSE initLock
        /\ UNCHANGED <<root, rootDur, siblings, built, durable, lockFile, held, sock, acked>>
    BY <1>2, Zenon DEF Migrate, Disk
  <2>2. /\ \A q \in Procs : q # p => proc'[q] = proc[q]
        /\ proc' \in [Procs -> ProcRec]
        /\ proc'[p].ph = "open" /\ proc'[p].dir = proc[p].dir /\ proc'[p].mode = proc[p].mode
    <3>1. "open" \in Phases BY Zenon DEF Phases, Using
    <3> QED BY <2>1, <3>1, GoMoves, Zenon
  <2>3. cat' \in Catalog /\ CurrentSchemaVersion \in cat'.ledger
    BY <1>2, <2>1, MigrateCatalog, Zenon
  <2>4. RTypeOK' BY <2>1, <2>2, <2>3, Zenon DEF RTypeOK
  <2>5. Entry' /\ Kinds' /\ Exclusion'
    BY <2>1, <2>3, Zenon DEF Entry, Kinds, Exclusion, CurrentSchemaVersion
  <2>6. ASSUME NEW q \in Procs, q # p PROVE Relies(q)' /\ Locked(q)' /\ Migration(q)'
    BY <2>1, <2>2, <2>3, <2>6, OthersKeep, Zenon
  <2>7. Relies(p)' /\ Locked(p)' /\ Migration(p)'
    <3> USE <2>1, <2>2, <2>3 DEF Building, Using, Owns
    <3>1. Locked(p) /\ Relies(p) BY Zenon
    <3>2. Locked(p)' BY <3>1, ZenonT(30) DEF Locked
    <3>3. Relies(p)' BY <3>1, Zenon DEF Relies
    <3>4. Migration(p)' BY Zenon DEF Migration
    <3> QED BY <3>2, <3>3, <3>4, Zenon
  <2> QED BY <2>4, <2>5, <2>6, <2>7, Zenon
<1> QED BY <1>1, <1>2, Zenon

\* A direct client's write is acknowledged in a repository that was joined.
LEMMA DirectWriteKeeps ==
  ASSUME RInv, NEW p \in Procs, DirectWrite(p)
  PROVE  RInv'
<1> USE HostConstants DEF RInv, At
<1>1. /\ proc[p].ph = "open" /\ Writable(proc[p].mode)
      /\ UNCHANGED <<root, rootDur, siblings, built, durable, initLock, lockFile, held, proc, sock>>
      /\ CatalogWrite /\ acked' = TRUE
  BY Zenon DEF DirectWrite, Disk, Writable
<1>2. CurrentSchemaVersion \in cat.ledger BY <1>1, Zenon DEF Migration
<1>3. cat' \in Catalog /\ cat'.ledger = cat.ledger
  BY <1>1 DEF CatalogWrite, Catalog, RTypeOK
<1>4. rootDur = root /\ root # Nobody BY <1>1, Zenon DEF Relies, Using, Owns
<1>5. RTypeOK' BY <1>1, <1>3, Zenon DEF RTypeOK
<1>6. Entry' /\ Kinds' /\ Exclusion'
  BY <1>1, <1>2, <1>3, <1>4, Zenon DEF Entry, Kinds, Exclusion, CurrentSchemaVersion
<1>7. \A q \in Procs : Relies(q)' BY <1>1, Zenon DEF Relies, Owns
<1>8. \A q \in Procs : Locked(q)' BY <1>1, Zenon DEF Locked, Owns
<1>9. \A q \in Procs : Migration(q)' BY <1>1, <1>3, Zenon DEF Migration
<1> QED BY <1>5, <1>6, <1>7, <1>8, <1>9, Zenon

\* No two processes have the cell when one of them is the daemon.
LEMMA Alone ==
  ASSUME RInv, NEW p \in Procs, NEW q \in Procs, p # q, Owns(p), Owns(q),
         proc[p].mode = "exclusive"
  PROVE  ~Writable(proc[q].mode) /\ held[q] = NoLock
<1>1. Locked(p) /\ Locked(q) /\ Relies(p) /\ Relies(q) BY Zenon DEF RInv
<1>2. /\ held[p] # NoLock /\ held[p].mode = "exclusive" /\ held[p].dir = root
  BY <1>1, LockIs, OwnerLocked, OwnerOfRoot, Zenon
<1>3. held[q] # NoLock => held[q].dir = root
  BY <1>1, LockIs, OwnerOfRoot, Zenon
<1>4. held[q] = NoLock
  BY <1>2, <1>3, Zenon DEF RInv, Exclusion
<1> QED BY <1>1, <1>4, Zenon DEF Locked

\* The daemon binds its socket, or removes it: nobody else serves.
LEMMA SocketKeeps ==
  ASSUME RInv, NEW p \in Procs, ServeBind(p) \/ ServeStop(p)
  PROVE  RInv'
<1> USE HostConstants DEF RInv, At
<1>1. /\ proc[p].ph \in {"open", "serving"} /\ proc[p].mode = "exclusive"
  BY Zenon DEF ServeBind, ServeStop, Relies
<1>2. /\ \A q \in Procs : q # p => proc'[q] = proc[q]
      /\ proc' \in [Procs -> ProcRec]
      /\ proc'[p].ph \in {"serving", "stopped"}
      /\ proc'[p].dir = proc[p].dir /\ proc'[p].mode = proc[p].mode
  <2>1. "serving" \in Phases /\ "stopped" \in Phases BY Zenon DEF Phases, Using
  <2> QED BY <2>1, GoMoves, Zenon DEF ServeBind, ServeStop
<1>3. proc'[p].ph = "serving" => sock' = p
  <2>1. "stopped" \in Phases BY Zenon DEF Phases, Using
  <2> QED BY <2>1, GoMoves, Zenon DEF ServeBind, ServeStop
<1>4. UNCHANGED <<root, rootDur, siblings, built, durable, initLock, lockFile, held, cat, acked>>
  BY Zenon DEF ServeBind, ServeStop, Disk
<1>5. RTypeOK' BY <1>2, <1>4, Zenon DEF RTypeOK
<1>6. Entry' /\ Kinds' /\ Exclusion' BY <1>4, Zenon DEF Entry, Kinds, Exclusion
<1>7. ASSUME NEW q \in Procs, q # p PROVE Relies(q)' /\ Locked(q)' /\ Migration(q)'
  <2>1. proc[q].ph # "serving"
    <3>1. proc[q].ph = "serving" => proc[q].mode = "exclusive" BY Zenon DEF Relies
    <3> QED BY <1>1, <1>7, <3>1, Alone, Zenon DEF Owns, Writable
  <2> QED BY <1>2, <1>4, <1>7, <2>1, OthersKeep, Zenon
<1>8. Relies(p)' /\ Locked(p)' /\ Migration(p)'
  <2> USE <1>1, <1>2, <1>3, <1>4 DEF Building, Using, Owns
  <2>1. Locked(p) /\ Relies(p) /\ Migration(p) BY Zenon
  <2>2. Locked(p)' BY <2>1, ZenonT(30) DEF Locked
  <2>3. Relies(p)' BY <2>1, Zenon DEF Relies
  <2>4. Migration(p)' BY <2>1, Zenon DEF Migration
  <2> QED BY <2>2, <2>3, <2>4, Zenon
<1> QED BY <1>5, <1>6, <1>7, <1>8, Zenon

\* A power loss ends every process; the entry it leaves is the one that was
\* there or the forced one, and both are complete.
LEMMA PowerLossKeeps ==
  ASSUME RInv, PowerLoss
  PROVE  RInv'
<1> USE HostConstants DEF RInv, At, PowerLoss
<1>1. root' \in {root, Nobody} /\ rootDur' = root' /\ siblings' \subseteq siblings \cup {root}
  BY Zenon DEF RTypeOK
<1>2. \A d \in Dirs : built'[d] \in {built[d], durable[d]} /\ durable'[d] = built'[d]
  BY Zenon
<1>3. /\ siblings' \in SUBSET Dirs /\ root' \notin siblings'
  BY <1>1 DEF RTypeOK, Entry
<1>4. RTypeOK'
  <2>1. built' \in [Dirs -> 0..Complete] BY Zenon DEF RTypeOK
  <2>2. proc' \in [Procs -> ProcRec] /\ held' \in [Procs -> LockRec] BY Records, Zenon
  <2> QED BY <1>1, <1>3, <2>1, <2>2, Zenon DEF RTypeOK
<1>5. Entry' BY <1>1, <1>2, <1>3, Zenon DEF Entry, RTypeOK
<1>6. Kinds' /\ Exclusion' BY Zenon DEF Kinds, Exclusion
<1>7. ASSUME NEW q \in Procs PROVE Relies(q)' /\ Locked(q)' /\ Migration(q)'
  <2>1. proc'[q] = IdleProc /\ held'[q] = NoLock /\ IdleProc.ph = "idle" BY Zenon DEF IdleProc
  <2> QED BY <2>1, Zenon DEF Relies, Locked, Migration, Building, Using, Owns
<1> QED BY <1>4, <1>5, <1>6, <1>7, Zenon

-----------------------------------------------------------------------------
(* The initial states, and the whole of the repository *)

LEMMA RepositoryStarts == RepositoryInit => RInv
<1> SUFFICES ASSUME RepositoryInit PROVE RInv BY Zenon
<1> USE HostConstants DEF Serving
<1>1. PICK s \in Starts :
       /\ root = s.root /\ cat = s.cat /\ budget = s.budget
       /\ rootDur = root
       /\ siblings = {}
       /\ built = [d \in Dirs |-> IF d = root THEN Complete ELSE 0]
       /\ durable = built
       /\ lockFile = [d \in Dirs |-> [present |-> d = root /\ s.lock,
                                      gen |-> IF d = root THEN 1 ELSE 0]]
       /\ initLock = Nobody
       /\ proc = [p \in Procs |-> IF p = s.daemon THEN Serving(p) ELSE IdleProc]
       /\ held = [p \in Procs |-> IF p = s.daemon
                     THEN [dir |-> root, gen |-> 1, mode |-> "exclusive"] ELSE NoLock]
       /\ sock = s.daemon
       /\ acked = FALSE
  BY Zenon DEF RepositoryInit
<1>2. ASSUME NEW p \in Procs, p = s.daemon
      PROVE  /\ Serving(p) \in ProcRec /\ Serving(p).ph = "serving"
             /\ Serving(p).mode = "exclusive" /\ Serving(p).dir = root
             /\ root \in Dirs /\ lockFile[root].present /\ lockFile[root].gen = 1
             /\ [dir |-> root, gen |-> 1, mode |-> "exclusive"] \in LockRec
             /\ CurrentSchemaVersion \in cat.ledger
  <2>1. root \in Dirs /\ s.lock BY <1>1, <1>2, Zenon
  <2>2. "serving" \in Phases /\ "exclusive" \in Modes BY Zenon DEF Phases, Using, Modes
  <2>3. Serving(p) \in ProcRec
    <3>1. CurrentSchemaVersion \in 0..CurrentSchemaVersion BY DEF CurrentSchemaVersion
    <3>2. IdleProc \in ProcRec BY Records, Zenon
    <3> QED BY ONLY <2>1, <2>2, <3>1, <3>2, Zenon DEF Serving, ProcRec
  <2>4. Serving(p).ph = "serving" /\ Serving(p).mode = "exclusive" /\ Serving(p).dir = root
    BY Zenon DEF IdleProc
  <2>5. [dir |-> root, gen |-> 1, mode |-> "exclusive"] \in LockRec BY <2>1, <2>2, Zenon DEF LockRec
  <2> QED BY <1>1, <1>2, <2>1, <2>3, <2>4, <2>5, Zenon
<1>3. IdleProc.ph = "idle" BY Zenon DEF IdleProc
<1> HIDE DEF Serving
<1>4. RTypeOK
  <2>1. proc \in [Procs -> ProcRec] /\ held \in [Procs -> LockRec] BY <1>1, <1>2, Records, Zenon
  <2>2. lockFile \in [Dirs -> [present: BOOLEAN, gen: Nat]] BY <1>1, Zenon
  <2>3. built \in [Dirs -> 0..Complete] BY <1>1 DEF Complete, Stages
  <2> QED BY <1>1, <2>1, <2>2, <2>3, Zenon DEF RTypeOK
<1>5. Entry /\ Kinds BY <1>1, Zenon DEF Entry, Kinds
<1>6. Exclusion BY <1>1, Zenon DEF Exclusion
<1>7. ASSUME NEW p \in Procs PROVE Relies(p) /\ Locked(p) /\ Migration(p)
  <2>1. CASE p = s.daemon
    <3> DEFINE l == [dir |-> root, gen |-> 1, mode |-> "exclusive"]
    <3>1. proc[p] = Serving(p) /\ held[p] = l /\ l # NoLock BY <1>1, <2>1, Zenon DEF NoLock
    <3> USE <1>1, <1>2, <2>1, <3>1 DEF At, Owns, Building, Using
    <3>2. Relies(p) BY Zenon DEF Relies
    <3>3. Locked(p) BY Zenon DEF Locked
    <3>4. Migration(p) BY Zenon DEF Migration
    <3> QED BY <3>2, <3>3, <3>4, Zenon
  <2>2. CASE p # s.daemon
    BY <1>1, <1>3, <2>2, Zenon DEF Relies, Locked, Migration, At, Owns, Building, Using
  <2> QED BY <2>1, <2>2, Zenon
<1> QED BY <1>4, <1>5, <1>6, <1>7, Zenon DEF RInv

\* Every step of the host keeps the repository's invariant: the daemon's
\* threads touch none of it, except that an answer to a write acknowledges it.
LEMMA RepositoryKeeps ==
  ASSUME RInv, [HostNext]_hvars
  PROVE  RInv'
<1> USE DEF rvars, Disk
<1>1. ASSUME NEW p \in Procs, Initialise(p) PROVE RInv'
  BY <1>1, InitCallKeeps, InitCleanupKeeps, InitFillKeeps, InitLockKeeps, InitSyncKeeps,
     InitPublishKeeps, InitJoinKeeps, InitFailsKeeps, Zenon DEF Initialise
<1>2. ASSUME NEW p \in Procs, OpenRepository(p) PROVE RInv'
  BY <1>2, OpenCallKeeps, OpenLockFileKeeps, TryLockKeeps, JoinKeeps, ReadSchemaKeeps,
     MigrateKeeps, Zenon DEF OpenRepository
<1>3. ASSUME NEW p \in Procs, UseHandle(p) PROVE RInv'
  BY <1>3, DirectWriteKeeps, LeaveKeeps, SocketKeeps, Zenon DEF UseHandle, Close
<1>4. ASSUME NEW p \in Procs, ProcessEnds(p) PROVE RInv'
  BY <1>4, LeaveKeeps, Zenon DEF ProcessEnds, Crash, ServeExit
<1>5. CASE HostLosesPower BY <1>5, PowerLossKeeps, Zenon DEF HostLosesPower
<1>6. ASSUME UNCHANGED <<Disk, initLock, lockFile, held, proc, sock, cat, acked>> PROVE RInv'
  BY <1>6, QuietKeeps, Zenon DEF RInv, RTypeOK
<1>7. CASE Clients BY <1>6, <1>7, Zenon DEF Clients
<1>8. ASSUME NEW w \in Threads, Answers(w) PROVE RInv'
  <2>1. root # Nobody /\ rootDur = root
    BY <1>8, Zenon DEF Answers, Alive, At, RInv, Relies, Owns, Using, Writable
  <2>2. acked' \in BOOLEAN BY <1>8, Zenon DEF Answers
  <2> QED BY <1>8, <2>1, <2>2, QuietKeeps, Zenon DEF Answers
<1>9. CASE UNCHANGED rvars BY <1>6, <1>9, Zenon
<1> QED
  BY <1>1, <1>2, <1>3, <1>4, <1>5, <1>7, <1>8, <1>9, Zenon
  DEF HostNext, hvars, AcceptLoop, Serves, Deadline, Runs, WaitsForLock, Commits, ReplyFails,
      HttpLoop

-----------------------------------------------------------------------------
(* The daemon's steps *)

\* A step that changes one connection, no thread's connection and not the
\* queue, and turns nobody away.
LEMMA ConnKeeps ==
  ASSUME DInv, UNCHANGED queue, NEW c \in AllConns, NEW r \in ConnRec,
         conn' = [conn EXCEPT ![c] = r],
         r.told = conn[c].told,
         r.told # "none" => r.done = 0,
         \/ conn[c].st = "off" /\ r.st = "backlog" /\ r.done = conn[c].done
         \/ conn[c].st \in {"served", "closed"} /\ r.st \in {conn[c].st, "closed"}
         \/ conn[c].st = "backlog" /\ r.st = "served",
         worker' \in [Threads -> WorkRec],
         \A w \in Threads : \/ worker'[w].ph = "take"
                            \/ worker[w].ph # "take" /\ worker'[w].c = worker[w].c
                            \/ worker'[w].c = c /\ r.st = "served" /\ r.told = "none"
  PROVE  DInv'
<1> USE DEF DInv, Does, Of
<1>1. DTypeOK' BY Zenon DEF DTypeOK
<1>2. \A e \in AllConns : conn'[e] = IF e = c THEN r ELSE conn[e] BY Zenon DEF DTypeOK
<1>3. \A e \in AllConns :
          /\ conn'[e].st \in {"off", "backlog", "queued"} => conn'[e].done = 0
          /\ conn'[e].told # "none" => conn'[e].done = 0 /\ conn'[e].st = "closed"
  BY <1>2
<1>4. \A i \in 1..Len(queue) : conn'[queue[i]].st = "queued"
  BY <1>2 DEF DTypeOK, AllConns
<1>5. ASSUME NEW w \in Threads, worker'[w].ph # "take"
      PROVE  /\ worker'[w].c \in AllConns
             /\ conn'[worker'[w].c].st \in {"served", "closed"} /\ conn'[worker'[w].c].told = "none"
  BY <1>2, <1>5
<1> QED BY <1>1, <1>3, <1>4, <1>5

LEMMA WaitingTyped == Waiting \in WorkRec /\ Waiting.ph = "take"
BY Zenon DEF Waiting, WorkRec, Doings

\* A thread that works for a connection goes on with it or drops it.
LEMMA ThreadKeeps ==
  ASSUME DInv, UNCHANGED queue, NEW w \in Threads, ~Does(w, "take"),
         NEW r \in ConnRec, conn' = [conn EXCEPT ![Of(w)] = r],
         r.told = conn[Of(w)].told, r.st \in {conn[Of(w)].st, "closed"},
         NEW x \in WorkRec, worker' = [worker EXCEPT ![w] = x],
         x.ph = "take" \/ x.c = worker[w].c
  PROVE  DInv'
<1>1. /\ Of(w) \in AllConns
      /\ conn[Of(w)].st \in {"served", "closed"} /\ conn[Of(w)].told = "none"
  BY Zenon DEF DInv
<1>2. worker' \in [Threads -> WorkRec] BY Zenon DEF DInv, DTypeOK
<1>3. \A v \in Threads : \/ worker'[v].ph = "take"
                         \/ worker[v].ph # "take" /\ worker'[v].c = worker[v].c
  <2>1. \A v \in Threads : v # w => worker'[v] = worker[v] BY Zenon DEF DInv, DTypeOK
  <2>2. worker'[w] = x BY Zenon DEF DInv, DTypeOK
  <2> QED BY <2>1, <2>2, Zenon DEF Does
<1> QED BY <1>1, <1>2, <1>3, ConnKeeps, Zenon

\* A closed connection keeps its verdict.
LEMMA DropKeeps ==
  ASSUME DInv, UNCHANGED queue, NEW w \in Threads, ~Does(w, "take"), Drop(w)
  PROVE  DInv'
<1> DEFINE r == Closed(conn[Of(w)])
<1>1. Of(w) \in AllConns /\ conn[Of(w)] \in ConnRec BY Zenon DEF DInv, DTypeOK
<1>2. r \in ConnRec /\ r.st = "closed" /\ r.told = conn[Of(w)].told
  BY <1>1, Zenon DEF Closed, ConnRec
<1>3. conn' = [conn EXCEPT ![Of(w)] = r] /\ worker' = [worker EXCEPT ![w] = Waiting]
  BY <1>1, Zenon DEF Drop, DInv, DTypeOK
<1> HIDE DEF r
<1> QED BY <1>2, <1>3, WaitingTyped, ThreadKeeps, Zenon

\* A request is counted as sent, or as executed, or neither.
LEMMA WorkKeeps ==
  ASSUME DInv, UNCHANGED queue, NEW w \in Threads, ~Does(w, "take"),
         \/ UNCHANGED conn
         \/ conn' = [conn EXCEPT ![Of(w)].sent = @ + 1]
         \/ conn' = [conn EXCEPT ![Of(w)].done = @ + 1],
         NEW ph \in Doings, NEW req \in Requests \cup {"none"},
         worker' = [worker EXCEPT ![w].ph = ph, ![w].req = req]
  PROVE  DInv'
<1>1. /\ Of(w) \in AllConns /\ conn[Of(w)] \in ConnRec /\ worker[w] \in WorkRec
      /\ conn \in [AllConns -> ConnRec] /\ worker \in [Threads -> WorkRec]
  BY Zenon DEF DInv, DTypeOK
<1> DEFINE x == [worker[w] EXCEPT !.ph = ph, !.req = req]
<1>2. x \in WorkRec /\ x.c = worker[w].c BY <1>1, Zenon DEF WorkRec
<1>3. worker' = [worker EXCEPT ![w] = x] BY <1>1, Zenon
<1> HIDE DEF x
<1>4. CASE UNCHANGED conn
  <2>1. conn' = [conn EXCEPT ![Of(w)] = conn[Of(w)]] BY <1>1, <1>4, Zenon
  <2> QED BY <1>1, <1>2, <1>3, <2>1, ThreadKeeps, Zenon
<1>5. CASE conn' = [conn EXCEPT ![Of(w)].sent = @ + 1]
  <2> DEFINE r == [conn[Of(w)] EXCEPT !.sent = @ + 1]
  <2>1. r \in ConnRec /\ r.told = conn[Of(w)].told /\ r.st = conn[Of(w)].st
    BY <1>1 DEF ConnRec
  <2>2. conn' = [conn EXCEPT ![Of(w)] = r] BY <1>1, <1>5, Zenon
  <2> HIDE DEF r
  <2> QED BY <1>2, <1>3, <2>1, <2>2, ThreadKeeps, Zenon
<1>6. CASE conn' = [conn EXCEPT ![Of(w)].done = @ + 1]
  <2> DEFINE r == [conn[Of(w)] EXCEPT !.done = @ + 1]
  <2>1. r \in ConnRec /\ r.told = conn[Of(w)].told /\ r.st = conn[Of(w)].st
    BY <1>1 DEF ConnRec
  <2>2. conn' = [conn EXCEPT ![Of(w)] = r] BY <1>1, <1>6, Zenon
  <2> HIDE DEF r
  <2> QED BY <1>2, <1>3, <2>1, <2>2, ThreadKeeps, Zenon
<1> QED BY <1>4, <1>5, <1>6, Zenon

LEMMA NextMoves ==
  ASSUME DInv, NEW w \in Threads, NEW ph, Next(w, ph)
  PROVE  /\ worker[w].req \in Requests \cup {"none"}
         /\ worker' = [worker EXCEPT ![w].ph = ph, ![w].req = worker[w].req]
<1>1. worker \in [Threads -> WorkRec] BY Zenon DEF DInv, DTypeOK
<1>2. worker[w].req \in Requests \cup {"none"} BY <1>1, Zenon DEF WorkRec
<1>3. [worker[w] EXCEPT !.ph = ph] = [worker[w] EXCEPT !.ph = ph, !.req = worker[w].req]
  BY <1>1, Zenon DEF WorkRec
<1> QED BY <1>1, <1>2, <1>3, Zenon DEF Next

\* What a thread does with its connection.
LEMMA FramesKeep ==
  ASSUME DInv, NEW w \in Threads,
         \/ FirstByte(w) \/ FrameJunk(w) \/ IdleEnds(w) \/ FrameStalls(w) \/ ReplyLost(w)
         \/ Reply(w) \/ \E req \in Requests : Frame(w, req)
  PROVE  DInv'
<1> USE DEF Does, Doings
<1>1. CASE IdleEnds(w) \/ FrameStalls(w) \/ ReplyLost(w)
  BY <1>1, DropKeeps, Zenon DEF IdleEnds, FrameStalls, ReplyLost
<1>2. CASE FirstByte(w) BY <1>2, NextMoves, WorkKeeps, Zenon DEF FirstByte
<1>3. CASE FrameJunk(w) BY <1>3, NextMoves, WorkKeeps, Zenon DEF FrameJunk
<1>4. CASE Reply(w) BY <1>4, WorkKeeps, Zenon DEF Reply
<1>5. ASSUME NEW req \in Requests, Frame(w, req) PROVE DInv'
  BY <1>5, WorkKeeps, Zenon DEF Frame
<1> QED BY <1>1, <1>2, <1>3, <1>4, <1>5, Zenon

\* What a thread does with its request.
LEMMA RequestsKeep ==
  ASSUME DInv, NEW w \in Threads,
         \/ Refuse(w) \/ ReadBegins(w) \/ ReadSteps(w) \/ ReadWaits(w) \/ ReadEnds(w)
         \/ WriteBegins(w) \/ WriteEnds(w)
  PROVE  DInv'
<1> USE DEF Does, Doings
<1>1. CASE Refuse(w) BY <1>1, NextMoves, WorkKeeps, Zenon DEF Refuse
<1>2. CASE ReadBegins(w) BY <1>2, NextMoves, WorkKeeps, Zenon DEF ReadBegins
<1>3. CASE ReadEnds(w) BY <1>3, NextMoves, WorkKeeps, Zenon DEF ReadEnds
<1>4. CASE WriteBegins(w) BY <1>4, NextMoves, WorkKeeps, Zenon DEF WriteBegins
<1>5. CASE WriteEnds(w) BY <1>5, NextMoves, WorkKeeps, Zenon DEF WriteEnds
<1>6. CASE ReadSteps(w) \/ ReadWaits(w)
  BY ONLY DInv, <1>6 DEF ReadSteps, ReadWaits, DInv, DTypeOK, Of
<1> QED BY <1>1, <1>2, <1>3, <1>4, <1>5, <1>6, Zenon

\* The accept loop queues a connection once, or shuts it out untouched.
LEMMA AcceptKeeps ==
  ASSUME DInv, NEW c \in Conns, Accept(c)
  PROVE  DInv'
<1> USE DEF DInv, Does, Of
<1>1. c \in AllConns /\ conn[c].st = "backlog" /\ conn[c] \in ConnRec
      /\ conn \in [AllConns -> ConnRec] /\ conn[c].done = 0 /\ conn[c].told = "none"
  BY Zenon DEF Accept, DTypeOK, AllConns
<1>2. \A e \in AllConns : e # c => conn'[e] = conn[e] BY <1>1, Zenon DEF Accept
<1>3. \A w \in Threads : worker[w].ph # "take" => worker[w].c # c BY <1>1, Zenon
<1>4. \A i \in 1..Len(queue) : queue[i] # c /\ queue[i] \in Conns BY <1>1 DEF DTypeOK
<1>5. CASE Len(queue) < MaxPending
  <2>1. /\ queue' = Append(queue, c) /\ worker' = worker
        /\ conn' = [conn EXCEPT ![c].st = "queued"]
    BY <1>5, Zenon DEF Accept
  <2>2. /\ conn'[c].st = "queued" /\ conn'[c].done = 0 /\ conn'[c].told = "none"
        /\ conn' \in [AllConns -> ConnRec]
    BY <1>1, <2>1, Zenon DEF ConnRec
  <2>3. /\ queue' \in Seq(Conns) /\ Len(queue') = Len(queue) + 1 /\ Len(queue) \in Nat
        /\ queue'[Len(queue) + 1] = c
        /\ \A i \in 1..Len(queue) : queue'[i] = queue[i]
    BY <2>1 DEF DTypeOK
  <2>4. DTypeOK' BY <2>1, <2>2, <2>3, Zenon DEF DTypeOK
  <2>5. \A e \in AllConns :
          /\ conn'[e].st \in {"off", "backlog", "queued"} => conn'[e].done = 0
          /\ conn'[e].told # "none" => conn'[e].done = 0 /\ conn'[e].st = "closed"
    BY <1>2, <2>2
  <2>6. \A i \in 1..Len(queue') : conn'[queue'[i]].st = "queued"
    <3> TAKE i \in 1..Len(queue')
    <3>1. CASE i = Len(queue) + 1 BY <2>2, <2>3, <3>1, Zenon
    <3>2. CASE i \in 1..Len(queue) BY <1>2, <1>4, <2>3, <3>2 DEF AllConns
    <3> QED BY <2>3, <3>1, <3>2
  <2>7. \A i, j \in 1..Len(queue') : queue'[i] = queue'[j] => i = j
    <3> SUFFICES ASSUME NEW i \in 1..Len(queue'), NEW j \in 1..Len(queue'), queue'[i] = queue'[j]
                 PROVE  i = j
      BY Zenon
    <3>1. i \in 1..Len(queue) \/ i = Len(queue) + 1 BY <2>3
    <3>2. j \in 1..Len(queue) \/ j = Len(queue) + 1 BY <2>3
    <3> QED BY <1>4, <2>3, <3>1, <3>2
  <2>8. \A w \in Threads : worker'[w].ph # "take" =>
          /\ worker'[w].c \in AllConns
          /\ conn'[worker'[w].c].st \in {"served", "closed"} /\ conn'[worker'[w].c].told = "none"
    BY <1>2, <1>3, <2>1
  <2> QED BY <2>4, <2>5, <2>6, <2>7, <2>8, Zenon
<1>6. CASE ~(Len(queue) < MaxPending)
  <2>1. queue' = queue /\ worker' = worker BY <1>6, Zenon DEF Accept
  <2>2. /\ conn'[c].st = "closed" /\ conn'[c].done = 0
        /\ conn' \in [AllConns -> ConnRec]
    <3>1. conn' = [conn EXCEPT ![c].st = "closed", ![c].told = "shut"] BY <1>6, Zenon DEF Accept
    <3> QED BY <1>1, <3>1, Zenon DEF ConnRec
  <2>3. DTypeOK' BY <2>1, <2>2, Zenon DEF DTypeOK
  <2>4. \A e \in AllConns :
          /\ conn'[e].st \in {"off", "backlog", "queued"} => conn'[e].done = 0
          /\ conn'[e].told # "none" => conn'[e].done = 0 /\ conn'[e].st = "closed"
    BY <1>2, <2>2
  <2>5. \A i \in 1..Len(queue') : conn'[queue'[i]].st = "queued"
    BY <1>2, <1>4, <2>1, Zenon DEF AllConns
  <2>6. \A w \in Threads : worker'[w].ph # "take" =>
          /\ worker'[w].c \in AllConns
          /\ conn'[worker'[w].c].st \in {"served", "closed"} /\ conn'[worker'[w].c].told = "none"
    BY <1>2, <1>3, <2>1, Zenon
  <2> QED BY ONLY DInv, <2>1, <2>3, <2>4, <2>5, <2>6
<1> QED BY <1>5, <1>6, Zenon

\* A worker takes the head of the queue: it serves it, or tells it busy.
LEMMA TakeKeeps ==
  ASSUME DInv, NEW w \in Threads, Take(w) \/ TakeStale(w)
  PROVE  DInv'
<1> USE DEF DInv, Does, Of
<1> DEFINE c == Head(queue)
<1>1. /\ queue \in Seq(Conns) /\ queue # <<>> /\ queue' = Tail(queue) /\ worker[w].ph = "take"
      /\ conn \in [AllConns -> ConnRec] /\ worker \in [Threads -> WorkRec]
  BY Zenon DEF Take, TakeStale, DTypeOK
<1>2. /\ queue' \in Seq(Conns) /\ Len(queue') = Len(queue) - 1 /\ Len(queue) \in Nat \ {0}
      /\ c = queue[1] /\ c \in Conns
      /\ \A i \in 1..Len(queue') : queue'[i] = queue[i + 1] /\ i + 1 \in 1..Len(queue)
  BY <1>1
<1>3. /\ c \in AllConns /\ conn[c].st = "queued" /\ conn[c].done = 0 /\ conn[c].told = "none"
      /\ conn[c] \in ConnRec
  BY <1>1, <1>2 DEF AllConns
<1> HIDE DEF c
<1>4. \A i \in 1..Len(queue') : queue'[i] # c /\ queue'[i] \in AllConns
  <2> TAKE i \in 1..Len(queue')
  <2>1. queue'[i] = queue[i + 1] /\ i + 1 \in 1..Len(queue) /\ i + 1 # 1 /\ 1 \in 1..Len(queue)
    BY <1>2
  <2> QED BY <1>1, <1>2, <2>1 DEF AllConns
<1>5. \A i, j \in 1..Len(queue') : queue'[i] = queue'[j] => i = j
  <2> SUFFICES ASSUME NEW i \in 1..Len(queue'), NEW j \in 1..Len(queue'), queue'[i] = queue'[j]
               PROVE  i = j
    BY Zenon
  <2>1. i + 1 = j + 1 BY <1>2
  <2> QED BY <1>2, <2>1
<1>6. \A v \in Threads : worker[v].ph # "take" => worker[v].c # c BY <1>3, Zenon
<1>7. ASSUME NEW r \in ConnRec, conn' = [conn EXCEPT ![c] = r],
             r.st \in {"served", "closed"}, r.done = 0, r.told # "none" => r.st = "closed",
             \/ worker' = worker
             \/ /\ r.told = "none"
                /\ \E x \in WorkRec : x.c = c /\ worker' = [worker EXCEPT ![w] = x]
      PROVE  DInv'
  <2>1. \A e \in AllConns : conn'[e] = IF e = c THEN r ELSE conn[e] BY <1>1, <1>3, <1>7, Zenon
  <2>2. DTypeOK' BY <1>1, <1>2, <1>3, <1>7, Zenon DEF DTypeOK
  <2>3. \A e \in AllConns :
          /\ conn'[e].st \in {"off", "backlog", "queued"} => conn'[e].done = 0
          /\ conn'[e].told # "none" => conn'[e].done = 0 /\ conn'[e].st = "closed"
    BY <1>7, <2>1
  <2>4. \A i \in 1..Len(queue') : conn'[queue'[i]].st = "queued"
    BY <1>2, <1>4, <2>1
  <2>5. \A v \in Threads : worker'[v].ph # "take" =>
          /\ worker'[v].c \in AllConns
          /\ conn'[worker'[v].c].st \in {"served", "closed"} /\ conn'[worker'[v].c].told = "none"
    <3> TAKE v \in Threads
    <3>1. CASE worker'[v] = worker[v] BY <1>6, <2>1, <3>1
    <3>2. CASE worker'[v] # worker[v]
      <4>1. v = w /\ r.told = "none" /\ worker'[v].c = c
        BY <1>1, <1>7, <3>2, Zenon
      <4> QED BY <1>3, <1>7, <2>1, <4>1
    <3> QED BY <3>1, <3>2, Zenon
  <2> QED BY <1>5, <2>2, <2>3, <2>4, <2>5, Zenon
<1>8. CASE Take(w)
  <2> DEFINE r == [conn[c] EXCEPT !.st = "served"]
  <2>1. r \in ConnRec /\ r.st = "served" /\ r.done = 0 /\ r.told = "none" BY <1>3, Zenon DEF ConnRec
  <2>2. conn' = [conn EXCEPT ![c] = r] BY <1>1, <1>3, <1>8, Zenon DEF Take, c
  <2> DEFINE x == [Waiting EXCEPT !.ph = "idle", !.c = c]
  <2>3. x \in WorkRec /\ x.c = c BY <1>3, WaitingTyped, Zenon DEF WorkRec, Doings
  <2>4. worker' = [worker EXCEPT ![w] = x] BY <1>8, Zenon DEF Take, c
  <2> HIDE DEF r, x
  <2> QED BY <1>7, <2>1, <2>2, <2>3, <2>4, Zenon
<1>9. CASE TakeStale(w)
  <2> DEFINE r == [conn[c] EXCEPT !.st = "closed", !.told = "busy"]
  <2>1. r \in ConnRec /\ r.st = "closed" /\ r.done = 0 BY <1>3, Zenon DEF ConnRec
  <2>2. conn' = [conn EXCEPT ![c] = r] BY <1>1, <1>3, <1>9, Zenon DEF TakeStale, c
  <2>3. worker' = worker BY <1>9, Zenon DEF TakeStale
  <2> HIDE DEF r
  <2> QED BY <1>7, <2>1, <2>2, <2>3, Zenon
<1> QED BY <1>8, <1>9, Zenon

\* A client connects; the HTTP thread takes a connection from the backlog.
LEMMA ConnectKeeps ==
  ASSUME DInv, NEW c \in AllConns, Connect(c)
  PROVE  DInv'
<1> DEFINE r == [conn[c] EXCEPT !.st = "backlog"]
<1>1. /\ conn \in [AllConns -> ConnRec] /\ conn[c].st = "off" /\ worker \in [Threads -> WorkRec]
      /\ conn[c].told = "none"
  BY Zenon DEF DInv, DTypeOK, Connect
<1>2. /\ r \in ConnRec /\ r.told = "none" /\ r.st = "backlog" /\ r.done = conn[c].done
      /\ conn' = [conn EXCEPT ![c] = r]
  BY <1>1, Zenon DEF Connect, ConnRec
<1> HIDE DEF r
<1> QED BY <1>1, <1>2, ConnKeeps, Zenon DEF Connect

LEMMA HttpKeeps ==
  ASSUME DInv, HttpRefuse \/ HttpReply \/ (\E c \in HttpConns : HttpTake(c))
                 \/ \E req \in Requests : HttpBody(req)
  PROVE  DInv'
<1> USE HostConstants DEF Does
<1>1. CASE HttpRefuse \/ HttpReply
  BY <1>1, DropKeeps, Zenon DEF HttpRefuse, HttpReply
<1>2. ASSUME NEW req \in Requests, HttpBody(req) PROVE DInv'
  BY <1>2, WorkKeeps, Zenon DEF HttpBody, Doings
<1>3. ASSUME NEW c \in HttpConns, HttpTake(c) PROVE DInv'
  <2> DEFINE r == [conn[c] EXCEPT !.st = "served"]
             x == [Waiting EXCEPT !.ph = "body", !.c = c]
  <2>1. /\ conn \in [AllConns -> ConnRec] /\ worker \in [Threads -> WorkRec] /\ c \in AllConns
        /\ conn[c].st = "backlog" /\ conn[c].told = "none"
    BY <1>3, Zenon DEF DInv, DTypeOK, HttpTake, AllConns
  <2>2. /\ r \in ConnRec /\ r.told = "none" /\ r.st = "served"
        /\ conn' = [conn EXCEPT ![c] = r]
    BY <1>3, <2>1, Zenon DEF HttpTake, ConnRec
  <2>3. x \in WorkRec /\ x.c = c /\ worker' = [worker EXCEPT ![Http] = x]
    BY <1>3, <2>1, WaitingTyped, Zenon DEF HttpTake, WorkRec, Doings
  <2>4. worker' \in [Threads -> WorkRec] BY <2>1, <2>3, Zenon
  <2>5. \A w \in Threads : \/ worker'[w].ph = "take"
                           \/ worker[w].ph # "take" /\ worker'[w].c = worker[w].c
                           \/ worker'[w].c = c
    BY <2>1, <2>3, Zenon
  <2>6. UNCHANGED queue BY <1>3, Zenon DEF HttpTake
  <2> HIDE DEF r, x
  <2> QED BY <2>1, <2>2, <2>4, <2>5, <2>6, ConnKeeps, Zenon
<1> QED BY <1>1, <1>2, <1>3, Zenon

\* The daemon's process ends: what was turned away stays so.
LEMMA GoneKeeps ==
  ASSUME DInv, DaemonGone
  PROVE  DInv'
<1>1. \A c \in AllConns : conn'[c] = IF conn[c].st = "off" THEN conn[c] ELSE Closed(conn[c])
  BY Zenon DEF DaemonGone, AllConns
<1>2. \A c \in AllConns : conn[c] \in ConnRec BY Zenon DEF DInv, DTypeOK
<1>3. \A c \in AllConns : /\ Closed(conn[c]) \in ConnRec /\ Closed(conn[c]).st = "closed"
                          /\ Closed(conn[c]).told = conn[c].told
                          /\ Closed(conn[c]).done = IF conn[c].told = "none" THEN 0 ELSE conn[c].done
  BY <1>2, Zenon DEF Closed, ConnRec
<1>4. DTypeOK' BY <1>1, <1>2, <1>3, WaitingTyped DEF DaemonGone, DTypeOK, AllConns
<1>5. \A c \in AllConns :
          /\ conn'[c].st \in {"off", "backlog", "queued"} => conn'[c].done = 0
          /\ conn'[c].told # "none" => conn'[c].done = 0 /\ conn'[c].st = "closed"
  <2> TAKE c \in AllConns
  <2>1. CASE conn[c].st = "off" BY <1>1, <2>1, Zenon DEF DInv
  <2>2. CASE conn[c].st # "off" BY <1>1, <1>3, <2>2, Zenon DEF DInv
  <2> QED BY <2>1, <2>2, Zenon
<1>6. \A w \in Threads : worker'[w].ph = "take" BY WaitingTyped, Zenon DEF DaemonGone
<1>7. queue' = <<>> BY Zenon DEF DaemonGone
<1> QED BY <1>4, <1>5, <1>6, <1>7 DEF DInv, Does

\* Every step of the host keeps the daemon's invariant.
LEMMA DaemonKeeps ==
  ASSUME DInv, [HostNext]_hvars
  PROVE  DInv'
<1>0. ASSUME UNCHANGED dvars PROVE DInv'
  BY <1>0 DEF dvars, DInv, DTypeOK, Does, Of
<1>1. ASSUME NEW p \in Procs, Initialise(p) \/ OpenRepository(p) \/ UseHandle(p) PROVE DInv'
  BY <1>0, <1>1, Zenon DEF Initialise, OpenRepository, UseHandle
<1>2. ASSUME NEW p \in Procs, ProcessEnds(p) PROVE DInv'
  BY <1>0, <1>2, GoneKeeps, Zenon DEF ProcessEnds, Ends
<1>3. CASE HostLosesPower BY <1>3, GoneKeeps, Zenon DEF HostLosesPower
<1>4. CASE Clients BY <1>4, ConnectKeeps, Zenon DEF Clients, AllConns
<1>5. ASSUME NEW c \in Conns, AcceptLoop(c) PROVE DInv'
  BY <1>5, AcceptKeeps, Zenon DEF AcceptLoop
<1>6. ASSUME NEW w \in Workers, Serves(w) \/ Deadline(w) PROVE DInv'
  BY <1>6, TakeKeeps, FramesKeep, Zenon DEF Serves, Deadline, Workers
<1>7. ASSUME NEW w \in Threads, Runs(w) \/ WaitsForLock(w) \/ Commits(w) PROVE DInv'
  BY <1>7, RequestsKeep, Zenon DEF Runs, WaitsForLock, Commits
<1>8. ASSUME NEW w \in Threads, Answers(w) \/ ReplyFails(w) PROVE DInv'
  BY <1>8, FramesKeep, HttpKeeps, Zenon DEF Answers, ReplyFails
<1>9. CASE HttpLoop BY <1>9, HttpKeeps, Zenon DEF HttpLoop
<1>10. CASE UNCHANGED hvars BY <1>0, <1>10, Zenon DEF hvars
<1> QED
  BY <1>1, <1>2, <1>3, <1>4, <1>5, <1>6, <1>7, <1>8, <1>9, <1>10, Zenon DEF HostNext

LEMMA DaemonStarts == DaemonInit => DInv
<1> SUFFICES ASSUME DaemonInit PROVE DInv BY Zenon
<1>1. NotConnected \in ConnRec /\ NotConnected.done = 0 /\ NotConnected.told = "none"
  BY Zenon DEF NotConnected, ConnRec
<1>2. /\ \A c \in AllConns : conn[c] = NotConnected
      /\ queue = <<>> /\ \A w \in Threads : worker[w].ph = "take"
  BY WaitingTyped, Zenon DEF DaemonInit, AllConns
<1>3. DTypeOK BY <1>1, WaitingTyped DEF DaemonInit, DTypeOK, AllConns
<1> QED BY <1>1, <1>2, <1>3 DEF DInv, Does

-----------------------------------------------------------------------------
(* The theorems *)

\* The two invariants hold of every behaviour of the host.
THEOREM HostInductive == HostSpec => [](RInv /\ DInv)
<1>1. HostInit => RInv /\ DInv BY RepositoryStarts, DaemonStarts, Zenon DEF HostInit
<1>2. RInv /\ DInv /\ [HostNext]_hvars => (RInv /\ DInv)' BY RepositoryKeeps, DaemonKeeps, Zenon
<1> QED BY <1>1, <1>2, PTL DEF HostSpec

\* What .forge names is a whole repository and an acknowledged write's
\* repository stays: publish_noreplace comes after the barrier on staging, and
\* every writable handle joins the publication before it can acknowledge.
THEOREM RootHolds == HostSpec => []RootIsWhole
<1>1. RInv => RootIsWhole BY Zenon DEF RInv, Entry, RootIsWhole
<1> QED BY <1>1, HostInductive, PTL

\* The daemon has the cell to itself, and its socket: LOCK is never unlinked
\* and each flock is on the inode the directory holds.
THEOREM DaemonHolds == HostSpec => []DaemonAlone
<1>1. RInv => DaemonAlone
  <2> SUFFICES ASSUME RInv PROVE DaemonAlone BY Zenon
  <2>1. \A p \in Procs : At(p, "serving") => sock = p BY Zenon DEF RInv, Relies
  <2> QED BY <2>1, Alone, Zenon DEF DaemonAlone
<1> QED BY <1>1, HostInductive, PTL

\* A turned-away client had nothing executed, whatever the threads do.
THEOREM TurnedAwayHolds == HostSpec => []TurnedAwayUntouched
<1>1. DInv => TurnedAwayUntouched BY Zenon DEF DInv, TurnedAwayUntouched, AllConns
<1> QED BY <1>1, HostInductive, PTL

\* A catalog is migrated once: a version that was stale when the migration
\* began conflicts with the ledger.
THEOREM MigrationHolds == HostSpec => MigratesOnce
<1> DEFINE A == \A p \in Procs : (At(p, "schema") /\ proc'[p].ph # "schema")
                  => /\ cat.kind # "v1" => cat'.kind = cat.kind
                     /\ cat.base # 0 => cat'.base = cat.base
<1>1. ASSUME RInv, [HostNext]_hvars, NEW p \in Procs, At(p, "schema"), proc'[p].ph # "schema"
      PROVE  /\ cat.kind # "v1" => cat'.kind = cat.kind
             /\ cat.base # 0 => cat'.base = cat.base
  <2> USE <1>1
  <2>0. proc \in [Procs -> ProcRec] /\ proc[p].ph = "schema" BY Zenon DEF RInv, RTypeOK, At
  <2>1. ASSUME NEW q \in Procs, Migrate(q), cat' # cat
        PROVE  /\ cat.kind # "v1" => cat'.kind = cat.kind
               /\ cat.base # 0 => cat'.base = cat.base
    BY <2>1, MigrateCatalog, Zenon DEF Migrate, At
  <2>2. ASSUME NEW q \in Procs, DirectWrite(q) PROVE FALSE
    BY <2>0, <2>2, Zenon DEF DirectWrite
  <2>3. ASSUME NEW q \in Procs, InitPublish(q) PROVE FALSE
    <3>1. root # Nobody BY <2>0, Zenon DEF RInv, Relies, Owns
    <3> QED BY <2>3, <3>1, Zenon DEF InitPublish
  <2>4. ASSUME NEW q \in Procs, Initialise(q) \/ OpenRepository(q) \/ UseHandle(q)
        PROVE  cat' = cat \/ InitPublish(q) \/ Migrate(q) \/ DirectWrite(q)
    BY <2>4, Zenon DEF Initialise, OpenRepository, UseHandle, InitCall, InitCleanup, InitFill, InitLock,
                InitSync, InitJoin, InitFails, OpenCall, OpenLockFile, TryLock, Join, ReadSchema,
                Close, ServeBind, ServeStop
  <2>5. \/ cat' = cat
        \/ \E q \in Procs : Initialise(q) \/ OpenRepository(q) \/ UseHandle(q)
    BY Zenon DEF HostNext, hvars, rvars, ProcessEnds, Crash, ServeExit, HostLosesPower, PowerLoss,
           Clients, AcceptLoop, Serves, Deadline, Runs, WaitsForLock, Commits, Answers,
           ReplyFails, HttpLoop
  <2> QED BY <2>1, <2>2, <2>3, <2>4, <2>5, Zenon
<1>2. RInv /\ [HostNext]_hvars => A BY <1>1, Zenon
<1> QED BY <1>2, HostInductive, PTL DEF HostSpec, MigratesOnce
=============================================================================
