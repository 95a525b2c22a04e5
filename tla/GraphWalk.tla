----------------------------- MODULE GraphWalk -----------------------------
(***************************************************************************)
(* The typed object graph (crates/forge-store/src/graph.rs) and the three  *)
(* walks over it: the fail-fast walk of seal and verify, the finding-      *)
(* collecting walk of fsck and the reachability walk of gc.                *)
(*                                                                         *)
(* An edge is the id it names and the type expected there.  `db` is the    *)
(* store that is read and `lost` the set of ids whose bytes are gone or do *)
(* not rehash, so that every read of them fails.  A walk answers "ok" with *)
(* what it visited, "corrupt" (Error::Corrupt, exit 2) or "refused"        *)
(* (Error::Invalid, exit 1).                                               *)
(***************************************************************************)
EXTENDS Naturals, Sequences, FiniteSets

CONSTANT Decode(_, _)   \* Decode(db, id): the type and the edges of an object of db

-----------------------------------------------------------------------------
(* GraphExpectation and GraphWorkQueue *)

Accepts(expect, type) ==
  \/ expect \in {"any", type}
  \/ expect = "entry" /\ type \in {"blob", "tree"}

EmptyQueue == [queue |-> <<>>, scheduled |-> {}, full |-> FALSE]

ScheduledIds(q) == {c[1] : c \in q.scheduled}

\* Equal constraints are scheduled once; only a new object counts against the
\* ceiling, and past it the queue is full for good.
Schedule(q, edge, limit) ==
  LET constraint == <<edge.id, edge.expect>> IN
  IF q.full \/ constraint \in q.scheduled THEN q
  ELSE IF edge.id \notin ScheduledIds(q) /\ Cardinality(ScheduledIds(q)) >= limit
  THEN [q EXCEPT !.full = TRUE]
  ELSE [q EXCEPT !.queue = Append(@, edge), !.scheduled = @ \cup {constraint}]

\* The edges of one object, in some order.
RECURSIVE ScheduleAll(_, _, _)
ScheduleAll(q, edges, limit) ==
  IF edges = {} THEN q
  ELSE LET e == CHOOSE x \in edges : TRUE
       IN  ScheduleAll(Schedule(q, e, limit), edges \ {e}, limit)

Popped(q) == [q EXCEPT !.queue = Tail(@)]

-----------------------------------------------------------------------------
(* reachable_graph_verified *)

RECURSIVE Verified(_, _, _, _, _)
Verified(db, q, ids, lost, limit) ==
  IF q.full THEN [answer |-> "refused"]
  ELSE IF q.queue = <<>> THEN [answer |-> "ok", ids |-> ids]
  ELSE LET e == Head(q.queue) IN
    IF e.id \notin ids /\ Cardinality(ids) >= limit THEN [answer |-> "refused"]
    ELSE IF e.id \in lost \/ ~Accepts(e.expect, Decode(db, e.id).type) THEN [answer |-> "corrupt"]
    ELSE IF e.id \in ids THEN Verified(db, Popped(q), ids, lost, limit)
    ELSE Verified(db, ScheduleAll(Popped(q), Decode(db, e.id).edges, limit), ids \cup {e.id}, lost, limit)

ReachableGraphVerified(db, root, type, lost, limit) ==
  Verified(db, Schedule(EmptyQueue, [id |-> root, expect |-> type], limit), {}, lost, limit)

-----------------------------------------------------------------------------
(* verify_graph of fsck: an unreadable object is reported for every constraint *)
(* on it and not entered, the walk goes on.                                    *)

RECURSIVE Checked(_, _, _, _, _, _)
Checked(db, q, ids, findings, lost, limit) ==
  IF q.full THEN [answer |-> "refused"]
  ELSE IF q.queue = <<>> THEN [answer |-> "ok", ids |-> ids, findings |-> findings]
  ELSE LET e == Head(q.queue) IN
    IF e.id \in lost
    THEN Checked(db, Popped(q), ids, findings \cup {<<"OBJECT_READ", e.id>>}, lost, limit)
    ELSE Checked(db,
                 IF e.id \in ids THEN Popped(q)
                 ELSE ScheduleAll(Popped(q), Decode(db, e.id).edges, limit),
                 ids \cup {e.id},
                 findings \cup (IF Accepts(e.expect, Decode(db, e.id).type) THEN {}
                                ELSE {<<"TYPE_MISMATCH", e.id>>}),
                 lost, limit)

VerifyGraph(db, roots, lost, limit) ==
  Checked(db, ScheduleAll(EmptyQueue, roots, limit), {}, {}, lost, limit)

-----------------------------------------------------------------------------
(* walk of gc *)

\* Faulty variant: an unreadable object is skipped, as fsck does.
RECURSIVE ReachableSkips(_, _, _, _, _)
ReachableSkips(db, q, ids, lost, limit) ==
  IF q.full THEN [answer |-> "refused"]
  ELSE IF q.queue = <<>> THEN [answer |-> "ok", ids |-> ids]
  ELSE LET e == Head(q.queue) IN
    IF e.id \in ids \cup lost THEN ReachableSkips(db, Popped(q), ids, lost, limit)
    ELSE ReachableSkips(db, ScheduleAll(Popped(q), Decode(db, e.id).edges, limit),
                        ids \cup {e.id}, lost, limit)

\* Types are not looked at, but it fails closed on what it cannot read.
RECURSIVE Reachable(_, _, _, _, _)
Reachable(db, q, ids, lost, limit) ==
  IF q.full THEN [answer |-> "refused"]
  ELSE IF q.queue = <<>> THEN [answer |-> "ok", ids |-> ids]
  ELSE LET e == Head(q.queue) IN
    IF e.id \in ids THEN Reachable(db, Popped(q), ids, lost, limit)
    ELSE IF e.id \in lost THEN [answer |-> "corrupt"]
    ELSE Reachable(db, ScheduleAll(Popped(q), Decode(db, e.id).edges, limit), ids \cup {e.id}, lost, limit)

ReachableClosure(db, roots, lost, limit) ==
  Reachable(db, ScheduleAll(EmptyQueue, roots, limit), {}, lost, limit)

-----------------------------------------------------------------------------
\* The reference: what edges lead to, from a set of ids.
RECURSIVE Closure(_, _)
Closure(db, ids) ==
  LET next == ids \cup UNION {{e.id : e \in Decode(db, i).edges} : i \in ids}
  IN  IF next = ids THEN ids ELSE Closure(db, next)
=============================================================================
