-------------------------------- MODULE Host --------------------------------
(***************************************************************************)
(* One host: the processes that initialise, open and serve a repository    *)
(* (Repository), and inside the process that serves it the daemon's        *)
(* threads (Daemon, ReadPool).                                             *)
(***************************************************************************)
EXTENDS Repository, Daemon

hvars == <<rvars, dvars>>

\* The pool is not empty, the HTTP thread is one of the threads, and a host
\* starts from a repository that a release of the code left: observations have
\* kinds only behind migration 2, and a daemon that serves holds LOCK over a
\* migrated catalog.
ASSUME HostConstants ==
    /\ Width \in Nat \ {0} /\ MaxHead \in Nat \ {0}
    /\ Http \in Threads
    /\ Conns \cap HttpConns = {}
    /\ Nobody \notin Procs \cup Dirs
    /\ \A s \in Starts :
          /\ s.cat \in Catalog /\ s.root \in Dirs \cup {Nobody} /\ s.lock \in BOOLEAN
          /\ s.cat.kind # "v1" => s.cat.ledger \cap {2, 3} # {}
          /\ s.daemon \in Procs \cup {Nobody}
          /\ s.daemon # Nobody =>
                s.root # Nobody /\ s.lock /\ CurrentSchemaVersion \in s.cat.ledger

\* The accept loop runs; the threads of the daemon run.
Listening == \E p \in Procs : At(p, "serving")

Alive == \E p \in Procs : At(p, "serving") \/ At(p, "stopped")

-----------------------------------------------------------------------------
\* A process that ends takes its threads with it.
Ends(p) == IF At(p, "serving") \/ At(p, "stopped")
           THEN DaemonGone ELSE UNCHANGED dvars

Initialise(p) ==
    /\ \/ InitCall(p) \/ InitCleanup(p) \/ InitFill(p) \/ InitLock(p)
       \/ InitSync(p) \/ InitPublish(p) \/ InitJoin(p) \/ InitFails(p)
    /\ UNCHANGED dvars

OpenRepository(p) ==
    /\ \/ \E mode \in Modes : OpenCall(p, mode)
       \/ OpenLockFile(p) \/ TryLock(p) \/ Join(p) \/ ReadSchema(p) \/ Migrate(p)
    /\ UNCHANGED dvars

UseHandle(p) ==
    /\ DirectWrite(p) \/ Close(p) \/ ServeBind(p) \/ ServeStop(p)
    /\ UNCHANGED dvars

ProcessEnds(p) == (Crash(p) \/ ServeExit(p)) /\ Ends(p)

HostLosesPower == PowerLoss /\ DaemonGone

\* The accept loop and the listener's backlog, as long as there is a socket.
Clients ==
    /\ Listening
    /\ budget.conns > 0
    /\ budget' = [budget EXCEPT !.conns = @ - 1]
    /\ \E c \in Conns \cup HttpConns : Connect(c)
    /\ UNCHANGED <<Disk, initLock, lockFile, held, proc, sock, cat, acked>>

AcceptLoop(c) == Listening /\ Accept(c) /\ UNCHANGED rvars

\* A worker's wait for the client, which the client or a deadline ends.
Serves(w) ==
    /\ Alive
    /\ \/ Take(w) \/ TakeStale(w) \/ FirstByte(w) \/ FrameJunk(w)
       \/ \E req \in Requests : Frame(w, req)
    /\ UNCHANGED rvars

Deadline(w) == Alive /\ (IdleEnds(w) \/ FrameStalls(w)) /\ UNCHANGED rvars

ReplyFails(w) == Alive /\ ReplyLost(w) /\ UNCHANGED rvars

\* What a thread does once it has a request.
Runs(w) ==
    /\ Alive
    /\ \/ Refuse(w) \/ ReadBegins(w) \/ ReadSteps(w) \/ ReadEnds(w)
    /\ UNCHANGED rvars

\* The waits for a mutex.
WaitsForLock(w) ==
    /\ Alive
    /\ ReadWaits(w) \/ WriteBegins(w)
    /\ UNCHANGED rvars

\* The transaction of a write commits.  Which rows it changes is left out:
\* the daemon's catalog is current and no opener shares the cell.
Commits(w) == Alive /\ WriteEnds(w) /\ UNCHANGED rvars

\* The answer to a write acknowledges it.
Answers(w) ==
    /\ Alive
    /\ IF w = Http THEN HttpReply ELSE Reply(w)
    /\ acked' = (acked \/ worker[w].req = "write")
    /\ UNCHANGED <<Disk, initLock, lockFile, held, proc, sock, cat, budget>>

HttpLoop ==
    /\ Alive
    /\ \/ \E c \in HttpConns : HttpTake(c)
       \/ HttpRefuse
       \/ \E req \in Requests : HttpBody(req)
    /\ UNCHANGED rvars

-----------------------------------------------------------------------------
HostInit == RepositoryInit /\ DaemonInit

HostNext ==
    \/ \E p \in Procs : Initialise(p) \/ OpenRepository(p) \/ UseHandle(p) \/ ProcessEnds(p)
    \/ HostLosesPower
    \/ Clients
    \/ \E c \in Conns : AcceptLoop(c)
    \/ \E w \in Workers : Serves(w) \/ Deadline(w)
    \/ \E w \in Threads : Runs(w) \/ WaitsForLock(w) \/ Commits(w) \/ Answers(w) \/ ReplyFails(w)
    \/ HttpLoop

\* What a thread of the daemon does next without any client: take a queued
\* connection, give up at a deadline, run its request, answer.
OwnStep(w) ==
    \/ w \in Workers /\ Alive /\ Take(w) /\ UNCHANGED rvars
    \/ w \in Workers /\ Deadline(w)
    \/ Runs(w) \/ Commits(w) \/ Answers(w)

\* The scheduler runs every thread, every deadline passes, and a mutex that
\* is released again and again is eventually handed to a waiter.  Clients
\* and processes owe nothing.
Fairness == \A w \in Threads : WF_hvars(OwnStep(w)) /\ SF_hvars(WaitsForLock(w))

HostSpec == HostInit /\ [][HostNext]_hvars /\ Fairness

-----------------------------------------------------------------------------
\* What the name .forge shows is a whole repository, at every moment and
\* after every crash and power loss: init publishes only what it has forced.
\* And the repository in which a write was acknowledged is there ever after: a
\* writable handle first joins a publication its initializer may have died
\* before forcing (repository.rs, open_locked_mode).
RootIsWhole ==
    /\ root # Nobody => built[root] = Complete
    /\ acked => root # Nobody /\ rootDur = root

\* The phases in which a process relies on the cell: init from its
\* publication on, an open from its lock grant on.
Owns(p) == proc[p].ph \in {"published", "locked", "joined", "schema", "open", "serving", "stopped"}

\* The daemon has the cell to itself: no direct client, no locked read-only
\* command and no initializer that has just published shares it.  Only a
\* read-only command that found no LOCK goes on beside it.  Nor does another
\* process remove its socket as stale or bind over it.
DaemonAlone ==
    /\ \A p, q \in Procs :
          (p # q /\ Owns(p) /\ Owns(q) /\ proc[p].mode = "exclusive")
             => ~Writable(proc[q].mode) /\ held[q] = NoLock
    /\ \A p \in Procs : At(p, "serving") => sock = p

\* A catalog is migrated once.  An opener whose version was stale when its
\* transaction began rewrites no observation that already has a kind and no
\* base that is already pinned.
MigratesOnce ==
    [][\A p \in Procs : (At(p, "schema") /\ proc'[p].ph # "schema")
          => /\ cat.kind # "v1" => cat'.kind = cat.kind
             /\ cat.base # 0 => cat'.base = cat.base]_hvars
=============================================================================
