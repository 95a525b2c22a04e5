------------------------------- MODULE Daemon -------------------------------
(***************************************************************************)
(* forge serve while it runs (forge-api serve.rs): the accept loop, the    *)
(* bounded admission queue, the fixed worker pool that reads frames and    *)
(* dispatches requests over the catalog's connections, and the single      *)
(* HTTP thread.  Time is abstract: a deadline is a step that may happen at *)
(* any moment of the wait it bounds.                                       *)
(***************************************************************************)
EXTENDS ReadPool, Sequences

CONSTANTS Conns,        \* client connections to the unix socket
          HttpConns,    \* client connections to the HTTP listener
          Http,         \* the HTTP thread, a member of Threads
          MaxPending,   \* capacity of the admission queue
          MaxRequests,  \* requests a client sends on one connection
          Watched       \* the connections ConnectionsEnd is stated of: all
                        \* are alike, so any one speaks for all

VARIABLES conn,         \* connection -> its state, the requests sent and
                        \* executed, and whether it was turned away
          queue,        \* the admission queue
          worker        \* thread -> what it does, and for which connection

dvars == <<conn, queue, worker, pvars>>

Workers == Threads \ {Http}

Requests == {"read", "write", "refused"}

NotConnected == [st |-> "off", sent |-> 0, done |-> 0, told |-> "none"]

Waiting == [ph |-> "take", c |-> "none", req |-> "none"]

Does(w, ph) == worker[w].ph = ph

Of(w) == worker[w].c

Next(w, ph) == worker' = [worker EXCEPT ![w].ph = ph]

\* A closed connection: its counts are kept only if it was turned away.
Closed(r) == [r EXCEPT !.st = "closed", !.sent = 0,
                       !.done = IF r.told = "none" THEN 0 ELSE r.done]

\* The stream is dropped and its thread takes the next one.
Drop(w) == /\ conn' = [conn EXCEPT ![Of(w)] = Closed(@)]
           /\ worker' = [worker EXCEPT ![w] = Waiting]

-----------------------------------------------------------------------------
\* A client connects; the kernel holds the connection until it is accepted.
Connect(c) ==
    /\ conn[c].st = "off"
    /\ conn' = [conn EXCEPT ![c].st = "backlog"]
    /\ UNCHANGED <<queue, worker, pvars>>

\* accept_loop: try_send to the bounded queue, or shut the stream down.
Accept(c) ==
    /\ conn[c].st = "backlog"
    /\ IF Len(queue) < MaxPending
       THEN /\ queue' = Append(queue, c)
            /\ conn' = [conn EXCEPT ![c].st = "queued"]
       ELSE /\ conn' = [conn EXCEPT ![c].st = "closed", ![c].told = "shut"]
            /\ UNCHANGED queue
    /\ UNCHANGED <<worker, pvars>>

\* The mutant's form: a stale connection is told busy and served.
TakeStaleServes(w) ==
    /\ Does(w, "take") /\ queue # <<>>
    /\ queue' = Tail(queue)
    /\ conn' = [conn EXCEPT ![Head(queue)].st = "served", ![Head(queue)].told = "busy"]
    /\ worker' = [worker EXCEPT ![w] = [Waiting EXCEPT !.ph = "idle", !.c = Head(queue)]]
    /\ UNCHANGED pvars

\* A worker receives a connection that waited too long: it answers busy,
\* shuts the stream down and takes the next one.
TakeStale(w) ==
    /\ Does(w, "take") /\ queue # <<>>
    /\ queue' = Tail(queue)
    /\ conn' = [conn EXCEPT ![Head(queue)].st = "closed", ![Head(queue)].told = "busy"]
    /\ UNCHANGED <<worker, pvars>>

\* A worker receives a connection and serves it.
Take(w) ==
    /\ Does(w, "take") /\ queue # <<>>
    /\ queue' = Tail(queue)
    /\ conn' = [conn EXCEPT ![Head(queue)].st = "served"]
    /\ worker' = [worker EXCEPT ![w] = [Waiting EXCEPT !.ph = "idle", !.c = Head(queue)]]
    /\ UNCHANGED pvars

\* Phase 1: the first byte of a frame arrives ...
FirstByte(w) ==
    /\ Does(w, "idle")
    /\ conn[Of(w)].sent < MaxRequests
    /\ Next(w, "frame")
    /\ UNCHANGED <<conn, queue, pvars>>

\* ... or the idle deadline passes, or the client has gone.
IdleEnds(w) ==
    /\ Does(w, "idle")
    /\ Drop(w)
    /\ UNCHANGED <<queue, pvars>>

\* Phase 2: the rest of the frame arrives and holds a request ...
Frame(w, req) ==
    /\ Does(w, "frame")
    /\ conn' = [conn EXCEPT ![Of(w)].sent = @ + 1]
    /\ worker' = [worker EXCEPT ![w].ph = "dispatch", ![w].req = req]
    /\ UNCHANGED <<queue, pvars>>

\* ... or bytes that are no request: the error is sent, whatever becomes of
\* it, and the loop goes on ...
FrameJunk(w) ==
    /\ Does(w, "frame")
    /\ conn' = [conn EXCEPT ![Of(w)].sent = @ + 1]
    /\ Next(w, "idle")
    /\ UNCHANGED <<queue, pvars>>

\* The mutant's form: no deadline once a frame has begun.
FrameStallsNever(w) == FALSE /\ UNCHANGED dvars

\* ... or the sender goes silent past the frame deadline, announces too
\* large a frame, or leaves.
FrameStalls(w) ==
    /\ Does(w, "frame")
    /\ Drop(w)
    /\ UNCHANGED <<queue, pvars>>

-----------------------------------------------------------------------------
\* dispatch: version, capability and shape are checked before the op runs;
\* a request that fails one of them is answered with the error.
Refuse(w) ==
    /\ Does(w, "dispatch") /\ worker[w].req = "refused"
    /\ Next(w, "reply")
    /\ UNCHANGED <<conn, queue, pvars>>

\* An op that reads acquires a catalog connection ...
ReadBegins(w) ==
    /\ Does(w, "dispatch") /\ worker[w].req = "read"
    /\ Acquire(w)
    /\ Next(w, "reading")
    /\ UNCHANGED <<conn, queue>>

ReadSteps(w) ==
    /\ Does(w, "reading")
    /\ Scan(w) \/ Peek(w) \/ Again(w) \/ Fill(w)
    /\ UNCHANGED <<conn, queue, worker>>

ReadWaits(w) ==
    /\ Does(w, "reading")
    /\ Block(w) \/ FallBack(w)
    /\ UNCHANGED <<conn, queue, worker>>

\* ... reads and drops it.
ReadEnds(w) ==
    /\ Does(w, "reading")
    /\ Release(w)
    /\ conn' = [conn EXCEPT ![Of(w)].done = @ + 1]
    /\ Next(w, "reply")
    /\ UNCHANGED queue

\* An op that writes runs its transaction on the write connection.
WriteBegins(w) ==
    /\ Does(w, "dispatch") /\ worker[w].req = "write"
    /\ LockWriter(w)
    /\ Next(w, "writing")
    /\ UNCHANGED <<conn, queue>>

WriteEnds(w) ==
    /\ Does(w, "writing")
    /\ UnlockWriter(w)
    /\ conn' = [conn EXCEPT ![Of(w)].done = @ + 1]
    /\ Next(w, "reply")
    /\ UNCHANGED queue

\* The response is written and the worker waits for the next frame.
Reply(w) ==
    /\ Does(w, "reply") /\ w \in Workers
    /\ worker' = [worker EXCEPT ![w].ph = "idle", ![w].req = "none"]
    /\ UNCHANGED <<conn, queue, pvars>>

\* The response cannot be written: the connection is dropped, its effect
\* stays.
ReplyLost(w) ==
    /\ Does(w, "reply")
    /\ Drop(w)
    /\ UNCHANGED <<queue, pvars>>

-----------------------------------------------------------------------------
\* http_accept_loop: one request at a time, its body read to the end before
\* anything is answered.
HttpTake(c) ==
    /\ Does(Http, "take")
    /\ conn[c].st = "backlog"
    /\ conn' = [conn EXCEPT ![c].st = "served"]
    /\ worker' = [worker EXCEPT ![Http] = [Waiting EXCEPT !.ph = "body", !.c = c]]
    /\ UNCHANGED <<queue, pvars>>

\* A wrong method or URL, an aborted or too large body, or no JSON: an
\* answer, and the loop goes on.
HttpRefuse ==
    /\ Does(Http, "body")
    /\ Drop(Http)
    /\ UNCHANGED <<queue, pvars>>

HttpBody(req) ==
    /\ Does(Http, "body")
    /\ conn' = [conn EXCEPT ![Of(Http)].sent = @ + 1]
    /\ worker' = [worker EXCEPT ![Http].ph = "dispatch", ![Http].req = req]
    /\ UNCHANGED <<queue, pvars>>

HttpReply ==
    /\ Does(Http, "reply")
    /\ Drop(Http)
    /\ UNCHANGED <<queue, pvars>>

-----------------------------------------------------------------------------
DaemonInit ==
    /\ conn = [c \in Conns \cup HttpConns |-> NotConnected]
    /\ queue = <<>>
    /\ worker = [w \in Threads |-> Waiting]
    /\ PoolInit

\* The process ended: every stream is closed and its memory is gone.
DaemonGone ==
    /\ conn' = [c \in Conns \cup HttpConns |->
                  IF conn[c].st = "off" THEN conn[c] ELSE Closed(conn[c])]
    /\ queue' = <<>>
    /\ worker' = [w \in Threads |-> Waiting]
    /\ reader' = [t \in Threads |-> Out]
    /\ open' = [s \in Slots |-> FALSE]
    /\ slotLock' = [s \in Slots |-> Free]
    /\ cursor' = 0
    /\ wlock' = Free

-----------------------------------------------------------------------------
\* A client that was told to come back later, or shut out, had no request of
\* that connection executed: retrying it repeats nothing.
TurnedAwayUntouched ==
    \A c \in Conns : conn[c].told \in {"busy", "shut"} => conn[c].done = 0

\* Every accepted connection ends: the idle, frame and write deadlines free
\* its worker, and no reader waits for ever on the pool or the writer.
ConnectionsEnd ==
    \A c \in Watched : conn[c].st \in {"queued", "served"} ~> conn[c].st = "closed"
=============================================================================
