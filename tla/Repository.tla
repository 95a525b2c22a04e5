----------------------------- MODULE Repository -----------------------------
(***************************************************************************)
(* The life of one repository directory on one host: forge init builds it  *)
(* in a staging sibling and publishes it with one rename; direct clients,  *)
(* the daemon and the read-only commands find it, take its cell lock, join *)
(* its publication, migrate its catalog and get a handle.  Processes die   *)
(* at any step and the host loses power.  Files: forge-api repository.rs,  *)
(* forge-store meta.rs (open, migrate), forge-api serve.rs (the socket).   *)
(***************************************************************************)
EXTENDS Naturals, Sequences, FiniteSets, FiniteSetsExt

CONSTANTS Procs,     \* the processes of the host
          Dirs,      \* directory inodes, staging or published
          Nobody,    \* no process, no directory
          MaxHead,   \* how far the ref of the catalog's mount moves
          Starts     \* the repository at start, and the bounds of a behaviour

VARIABLES root,      \* the directory entry .forge: a directory or Nobody
          rootDur,   \* what that entry is after a power loss
          siblings,  \* the visible staging directories .forge.init-*
          built,     \* directory -> how many stages of Stages it holds
          durable,   \* directory -> how many of them survive a power loss
          initLock,  \* the flock on the parent directory
          lockFile,  \* directory -> its LOCK: present, and its generation
          held,      \* process -> the cell lock it holds
          proc,      \* process -> what it is doing
          sock,      \* forge.sock: the process that bound it, or Nobody
          cat,       \* the catalog of the published repository
          acked,     \* a write has been acknowledged to a caller
          budget     \* what is left of the calls, power losses, accept errors
                     \* and connections

rvars == <<root, rootDur, siblings, built, durable, initLock, lockFile, held,
           proc, sock, cat, acked, budget>>

-----------------------------------------------------------------------------
\* What init puts into the staging directory, in its order: VERSION is last.
Stages == <<"directories", "keys", "catalog", "objects", "main", "VERSION">>

Complete == Len(Stages)

\* The lock intents an open is made with; fsck is the read-only open that
\* admits any migration ledger.
Modes == {"shared", "exclusive", "readonly", "fsck"}

Writable(mode) == mode \in {"shared", "exclusive"}

CurrentSchemaVersion == 3

\* The catalog: its migration ledger, the kind of one observation row ("v1"
\* before observations have kinds), the base of one read-write mount of
\* another ref (0 is NULL) and the head of that ref.
Catalog == [ledger: SUBSET (1..CurrentSchemaVersion),
            kind: {"v1", "blob", "tree", "absent"},
            base: 0..MaxHead, head: 1..MaxHead]

FreshCatalog == [ledger |-> 1..CurrentSchemaVersion, kind |-> "blob",
                 base |-> 1, head |-> 1]

SchemaVersion(c) == IF c.ledger = {} THEN 0 ELSE Max(c.ledger)

IdleProc == [ph |-> "idle", mode |-> "shared", dir |-> Nobody, gen |-> 0,
             from |-> 0]

NoLock == [dir |-> Nobody, gen |-> 0, mode |-> "shared"]

At(p, ph) == proc[p].ph = ph

Go(p, ph) == proc' = [proc EXCEPT ![p].ph = ph]

\* A call that returns, or a process that ends: every descriptor is closed,
\* so the kernel drops its locks.
Leave(p) == /\ proc' = [proc EXCEPT ![p] = IdleProc]
            /\ held' = [held EXCEPT ![p] = NoLock]
            /\ initLock' = IF initLock = p THEN Nobody ELSE initLock

Call(p) == /\ At(p, "idle")
           /\ budget.calls > 0
           /\ budget' = [budget EXCEPT !.calls = @ - 1]

Disk == <<root, rootDur, siblings, built, durable>>

-----------------------------------------------------------------------------
\* forge init.

\* acquire_init_parent_lock: one try_lock; Busy when another initializer
\* has the parent.
InitCall(p) ==
    /\ Call(p)
    /\ IF initLock = Nobody
       THEN initLock' = p /\ Go(p, "cleanup")
       ELSE UNCHANGED <<initLock, proc>>
    /\ UNCHANGED <<Disk, lockFile, held, sock, cat, acked>>

\* Reclaim every staging sibling and force the parent; then refuse an
\* existing root, or create a staging directory of its own.
InitCleanup(p) ==
    /\ At(p, "cleanup")
    /\ rootDur' = IF siblings = {} THEN rootDur ELSE root
    /\ IF root # Nobody
       THEN siblings' = {} /\ Leave(p) /\ UNCHANGED <<built, durable, lockFile>>
       ELSE \E d \in Dirs \ siblings :
               /\ siblings' = {d}
               /\ built' = [built EXCEPT ![d] = 0]
               /\ durable' = [durable EXCEPT ![d] = 0]
               /\ lockFile' = [lockFile EXCEPT ![d] = [present |-> FALSE, gen |-> 0]]
               /\ proc' = [proc EXCEPT ![p].ph = "fill", ![p].dir = d]
               /\ UNCHANGED <<held, initLock>>
    /\ UNCHANGED <<root, sock, cat, acked, budget>>

\* The next stage is written below the staging directory; a stage whose
\* directory is gone fails like any other I/O error (InitFails).
InitFill(p) ==
    /\ At(p, "fill")
    /\ proc[p].dir \in siblings
    /\ built[proc[p].dir] < Complete
    /\ built' = [built EXCEPT ![proc[p].dir] = @ + 1]
    /\ UNCHANGED <<root, rootDur, siblings, durable, initLock, lockFile, held,
                   proc, sock, cat, acked, budget>>

\* The initializer creates LOCK in staging and holds it shared.
InitLock(p) ==
    LET d == proc[p].dir
        g == lockFile[d].gen + 1
    IN /\ At(p, "fill")
       /\ d \in siblings
       /\ built[d] = Complete
       /\ lockFile' = [lockFile EXCEPT ![d] = [present |-> TRUE, gen |-> g]]
       /\ held' = [held EXCEPT ![p] = [dir |-> d, gen |-> g, mode |-> "shared"]]
       /\ Go(p, "sync")
       /\ UNCHANGED <<Disk, initLock, sock, cat, acked, budget>>

\* The mutant's form: publication without the barrier on the staging
\* directory.
InitSyncSkipped(p) ==
    /\ At(p, "sync")
    /\ Go(p, "publish")
    /\ UNCHANGED <<Disk, initLock, lockFile, held, sock, cat, acked, budget>>

\* The barrier on the staging directory.
InitSync(p) ==
    /\ At(p, "sync")
    /\ proc[p].dir \in siblings
    /\ durable' = [durable EXCEPT ![proc[p].dir] = built[proc[p].dir]]
    /\ Go(p, "publish")
    /\ UNCHANGED <<root, rootDur, siblings, built, initLock, lockFile, held,
                   sock, cat, acked, budget>>

\* publish_noreplace: the rename, visible at once, which refuses to replace.
InitPublish(p) ==
    /\ At(p, "publish")
    /\ proc[p].dir \in siblings
    /\ root = Nobody
    /\ root' = proc[p].dir
    /\ siblings' = siblings \ {proc[p].dir}
    /\ cat' = FreshCatalog
    /\ Go(p, "published")
    /\ UNCHANGED <<rootDur, built, durable, initLock, lockFile, held, sock,
                   acked, budget>>

\* The barrier on the parent; then open_locked with the lock already held.
InitJoin(p) ==
    /\ At(p, "published")
    /\ rootDur' = root
    /\ Go(p, "locked")
    /\ UNCHANGED <<root, siblings, built, durable, initLock, lockFile, held,
                   sock, cat, acked, budget>>

\* An I/O error before publication removes the staging directory.
InitFails(p) ==
    /\ proc[p].ph \in {"fill", "sync", "publish"}
    /\ siblings' = siblings \ {proc[p].dir}
    /\ Leave(p)
    /\ UNCHANGED <<root, rootDur, built, durable, lockFile, sock, cat, acked, budget>>

-----------------------------------------------------------------------------
\* Opening an existing repository.

\* find_forge: the entry is there and holds a VERSION.
OpenCall(p, mode) ==
    /\ Call(p)
    /\ root # Nobody /\ built[root] = Complete
    /\ proc' = [proc EXCEPT ![p] = [IdleProc EXCEPT !.ph = "found", !.mode = mode,
                                                    !.dir = root]]
    /\ UNCHANGED <<Disk, initLock, lockFile, held, sock, cat, acked>>

\* The first half of acquire_cell_lock: a descriptor of LOCK.  The daemon's
\* open creates the file, a direct client's fails without it, and a
\* read-only command goes on without a lock.
OpenLockFile(p) ==
    LET d == proc[p].dir
        made == lockFile[d].gen + 1
    IN /\ At(p, "found")
       /\ \/ /\ lockFile[d].present
             /\ proc' = [proc EXCEPT ![p].ph = "descriptor", ![p].gen = lockFile[d].gen]
             /\ UNCHANGED <<lockFile, held, initLock>>
          \/ /\ ~lockFile[d].present
             /\ \/ /\ proc[p].mode = "exclusive"
                   /\ lockFile' = [lockFile EXCEPT ![d] = [present |-> TRUE, gen |-> made]]
                   /\ proc' = [proc EXCEPT ![p].ph = "descriptor", ![p].gen = made]
                   /\ UNCHANGED <<held, initLock>>
                \/ proc[p].mode = "shared" /\ Leave(p) /\ UNCHANGED lockFile
                \/ ~Writable(proc[p].mode) /\ Go(p, "locked")
                   /\ UNCHANGED <<lockFile, held, initLock>>
       /\ UNCHANGED <<Disk, sock, cat, acked, budget>>

\* Another process has the same LOCK inode in a mode that excludes this one.
LockConflict(p) ==
    \E q \in Procs \ {p} : /\ held[q].dir = proc[p].dir
                           /\ held[q].gen = proc[p].gen
                           /\ "exclusive" \in {proc[p].mode, held[q].mode}

\* The second half: one try_lock, Busy when it would block.
TryLock(p) ==
    /\ At(p, "descriptor")
    /\ IF LockConflict(p)
       THEN Leave(p)
       ELSE /\ held' = [held EXCEPT ![p] = [dir |-> proc[p].dir, gen |-> proc[p].gen,
                                            mode |-> proc[p].mode]]
            /\ Go(p, "locked")
            /\ UNCHANGED initLock
    /\ UNCHANGED <<Disk, lockFile, sock, cat, acked, budget>>

\* validate_repo_version again, now under the lock, and for a handle that
\* may acknowledge writes the barrier on the parent directory.
Join(p) ==
    /\ At(p, "locked")
    /\ built[proc[p].dir] = Complete
    /\ rootDur' = IF Writable(proc[p].mode) THEN root ELSE rootDur
    /\ Go(p, "joined")
    /\ UNCHANGED <<root, siblings, built, durable, initLock, lockFile, held, sock,
                   cat, acked, budget>>

\* The schema version is read outside any transaction.  A read-only open
\* refuses a catalog that needs migration; fsck takes it as it is.
ReadSchema(p) ==
    /\ At(p, "joined")
    /\ IF Writable(proc[p].mode)
       THEN /\ proc' = [proc EXCEPT ![p].ph = "schema", ![p].from = SchemaVersion(cat)]
            /\ UNCHANGED <<held, initLock>>
       ELSE IF proc[p].mode = "readonly" /\ SchemaVersion(cat) < CurrentSchemaVersion
            THEN Leave(p)
            ELSE Go(p, "open") /\ UNCHANGED <<held, initLock>>
    /\ UNCHANGED <<Disk, lockFile, sock, cat, acked, budget>>

\* MIGRATE_1_TO_2 rewrites every observation as a blob observation, and
\* MIGRATE_2_TO_3 gives a mount without a base the head of its ref.
Migrated(c, from) ==
    [c EXCEPT !.kind = IF from <= 1 THEN "blob" ELSE c.kind,
              !.base = IF c.base = 0 THEN c.head ELSE c.base,
              !.ledger = c.ledger \cup ((from + 1)..CurrentSchemaVersion)]

\* The mutant's form: INSERT OR IGNORE into the ledger.
MigrationConflictsIgnored(c, from) == from <= 1 /\ c.kind = "absent"

\* The ledger's primary key refuses a version that is already recorded, and
\* the v2 table refuses a blob observation without an oid.
MigrationConflicts(c, from) ==
    \/ c.ledger \cap ((from + 1)..CurrentSchemaVersion) # {}
    \/ from <= 1 /\ c.kind = "absent"

\* migrate: one immediate transaction from the version read before it.  A
\* conflict rolls everything back and fails the open.
Migrate(p) ==
    /\ At(p, "schema")
    /\ IF proc[p].from < CurrentSchemaVersion /\ MigrationConflicts(cat, proc[p].from)
       THEN Leave(p) /\ UNCHANGED cat
       ELSE /\ cat' = IF proc[p].from < CurrentSchemaVersion
                      THEN Migrated(cat, proc[p].from) ELSE cat
            /\ Go(p, "open")
            \* init returns here: its parent lock is dropped.
            /\ initLock' = IF initLock = p THEN Nobody ELSE initLock
            /\ UNCHANGED held
    /\ UNCHANGED <<Disk, lockFile, sock, acked, budget>>

-----------------------------------------------------------------------------
\* Using and leaving a handle.

\* What sessions do to the rows a migration touches: record an observation,
\* move the mounted ref, repin the mount at a checkin.  Each is committed
\* and acknowledged.
CatalogWrite ==
    \/ \E k \in {"tree", "absent"} : cat' = [cat EXCEPT !.kind = k]
    \/ cat.head < MaxHead /\ cat' = [cat EXCEPT !.head = @ + 1]
    \/ cat' = [cat EXCEPT !.base = cat.head]

DirectWrite(p) ==
    /\ At(p, "open")
    /\ proc[p].mode = "shared"
    /\ CatalogWrite
    /\ acked' = TRUE
    /\ UNCHANGED <<Disk, initLock, lockFile, held, proc, sock, budget>>

Close(p) ==
    /\ At(p, "open")
    /\ Leave(p)
    /\ UNCHANGED <<Disk, lockFile, sock, cat, acked, budget>>

\* serve: the stale socket is removed and the listener bound.
ServeBind(p) ==
    /\ At(p, "open")
    /\ proc[p].mode = "exclusive"
    /\ sock' = p
    /\ Go(p, "serving")
    /\ UNCHANGED <<Disk, initLock, lockFile, held, cat, acked, budget>>

\* The accept loop returned (an accept error): the socket is removed first,
\* while the handle and its lock are still there.
ServeStop(p) ==
    /\ At(p, "serving")
    /\ budget.stops > 0
    /\ budget' = [budget EXCEPT !.stops = @ - 1]
    /\ sock' = Nobody
    /\ Go(p, "stopped")
    /\ UNCHANGED <<Disk, initLock, lockFile, held, cat, acked>>

\* The mutant's form: LOCK is unlinked when the daemon goes.
ServeExitUnlinks(p) ==
    /\ At(p, "stopped")
    /\ Leave(p)
    /\ lockFile' = [lockFile EXCEPT ![proc[p].dir].present = FALSE]
    /\ UNCHANGED <<Disk, sock, cat, acked, budget>>

\* The process ends; LOCK stays where it is.
ServeExit(p) ==
    /\ At(p, "stopped")
    /\ Leave(p)
    /\ UNCHANGED <<Disk, lockFile, sock, cat, acked, budget>>

\* A process dies, or its call fails where the code only returns the error:
\* nothing of its own is cleaned up.
Crash(p) ==
    /\ ~At(p, "idle")
    /\ Leave(p)
    /\ UNCHANGED <<Disk, lockFile, sock, cat, acked, budget>>

\* The host loses power (external): every process ends, an entry that no barrier forced
\* may be the old one, and a directory keeps what was forced of it.
PowerLoss ==
    /\ budget.losses > 0
    /\ budget' = [budget EXCEPT !.losses = @ - 1]
    /\ root' \in {root, rootDur}
    /\ rootDur' = root'
    /\ siblings' \in SUBSET (siblings \cup ({root} \ {root', Nobody}))
    /\ \E torn \in SUBSET Dirs :
          built' = [d \in Dirs |-> IF d \in torn THEN durable[d] ELSE built[d]]
    /\ durable' = built'
    /\ proc' = [p \in Procs |-> IdleProc]
    /\ held' = [p \in Procs |-> NoLock]
    /\ initLock' = Nobody
    /\ UNCHANGED <<lockFile, sock, cat, acked>>

-----------------------------------------------------------------------------
\* At start: no repository, or one an earlier release left (restored, perhaps,
\* without its LOCK), or one that a process of the host serves.
Serving(p) == [IdleProc EXCEPT !.ph = "serving", !.mode = "exclusive", !.dir = root,
                               !.gen = 1, !.from = CurrentSchemaVersion]

RepositoryInit ==
    \E s \in Starts :
       /\ root = s.root /\ cat = s.cat /\ budget = s.budget
       /\ rootDur = root
       /\ siblings = {}
       /\ built = [d \in Dirs |-> IF d = root THEN Complete ELSE 0]
       /\ durable = built
       /\ lockFile = [d \in Dirs |-> [present |-> d = root /\ s.lock, gen |-> IF d = root THEN 1 ELSE 0]]
       /\ initLock = Nobody
       /\ proc = [p \in Procs |-> IF p = s.daemon THEN Serving(p) ELSE IdleProc]
       /\ held = [p \in Procs |-> IF p = s.daemon
                     THEN [dir |-> root, gen |-> 1, mode |-> "exclusive"] ELSE NoLock]
       /\ sock = s.daemon
       /\ acked = FALSE
=============================================================================
