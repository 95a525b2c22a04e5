------------------------------- MODULE MCHost -------------------------------
(***************************************************************************)
(* The host on small instances: lifecycles of two processes without        *)
(* clients, and a daemon with clients.                                     *)
(***************************************************************************)
EXTENDS Host

CONSTANTS Dir,       \* the directory of an existing repository
          Server     \* the process that serves it

Bounds(calls, losses, stops, conns) ==
    [calls |-> calls, losses |-> losses, stops |-> stops, conns |-> conns]

Old(versions, kind, base, head) ==
    [ledger |-> versions, kind |-> kind, base |-> base, head |-> head]

Start(dir, c, daemon, bounds) ==
    [root |-> dir, lock |-> TRUE, cat |-> c, daemon |-> daemon, budget |-> bounds]

\* No repository; pre-versioning, version 1 and version 2 catalogs; a version
\* 3 repository restored without its LOCK; and one that a daemon serves, with
\* three clients, or with a client, a crash and a second process.
MCStarts ==
    {Start(Nobody, FreshCatalog, Nobody, Bounds(2, 1, 1, 0)),
     Start(Dir, Old({}, "v1", 0, 1), Nobody, Bounds(2, 1, 1, 0)),
     Start(Dir, Old({1}, "v1", 0, 1), Nobody, Bounds(3, 0, 1, 0)),
     Start(Dir, Old({1, 2}, "tree", 0, 1), Nobody, Bounds(2, 0, 1, 0)),
     [Start(Dir, Old(1..3, "tree", 2, 2), Nobody, Bounds(3, 0, 1, 0)) EXCEPT !.lock = FALSE],
     Start(Dir, Old(1..3, "tree", 2, 2), Server, Bounds(0, 0, 0, 3)),
     Start(Dir, Old(1..3, "tree", 2, 2), Server, Bounds(1, 1, 1, 1))}
=============================================================================
