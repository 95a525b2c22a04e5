----------------------------- MODULE BarrierGate -----------------------------
(***************************************************************************)
(* The shared filesystem barrier of the object store (blob.rs: BarrierGate *)
(* and FsBarrier::wait).  Batches that have written and linked their       *)
(* objects share syncfs calls: each waits for the first generation that is *)
(* certain to start after its own writes, and leads one when none runs.    *)
(*                                                                         *)
(* The kernel is external: a sync that returns success has made durable    *)
(* what was written before the call, one that fails has promised nothing.  *)
(***************************************************************************)
EXTENDS Naturals

CONSTANTS Callers,   \* threads finishing a publish batch
          MaxCalls   \* bound: batches per thread

ASSUME CallBound == MaxCalls \in Nat

VARIABLES
  pc,         \* where the thread is in `wait`, or how it returned
  calls,      \* number of the thread's current batch
  target,     \* the generation it waits for
  generation, \* the generation it leads
  completed,  \* BarrierGate.completed
  inFlight,   \* BarrierGate.in_flight, 0 for None
  covered,    \* threads whose writes the running sync started after
  durable     \* threads whose current writes are on stable storage

vars == <<pc, calls, target, generation, completed, inFlight, covered, durable>>

Returned == {"idle", "ok", "err"}
Writing  == {"linked", "loop", "parked", "sync", "syncing", "synced", "failed"}

-----------------------------------------------------------------------------
\* The batch's last link(2) returned.
Write(c) ==
  /\ pc[c] \in Returned /\ calls[c] < MaxCalls
  /\ calls' = [calls EXCEPT ![c] = @ + 1]
  /\ pc' = [pc EXCEPT ![c] = "linked"]
  /\ covered' = covered \ {c}
  /\ durable' = durable \ {c}
  /\ UNCHANGED <<target, generation, completed, inFlight>>

\* Faulty variant: the barrier in flight is joined.
ReadTargetJoins(c) ==
  /\ pc[c] = "linked"
  /\ target' = [target EXCEPT ![c] = completed + 1]
  /\ pc' = [pc EXCEPT ![c] = "loop"]
  /\ UNCHANGED <<calls, generation, completed, inFlight, covered, durable>>

\* Faulty variant: one generation too many.
ReadTargetSkips(c) ==
  /\ pc[c] = "linked"
  /\ target' = [target EXCEPT ![c] = (IF inFlight # 0 THEN inFlight ELSE completed) + 2]
  /\ pc' = [pc EXCEPT ![c] = "loop"]
  /\ UNCHANGED <<calls, generation, completed, inFlight, covered, durable>>

ReadTarget(c) ==
  /\ pc[c] = "linked"
  /\ target' = [target EXCEPT ![c] = (IF inFlight # 0 THEN inFlight ELSE completed) + 1]
  /\ pc' = [pc EXCEPT ![c] = "loop"]
  /\ UNCHANGED <<calls, generation, completed, inFlight, covered, durable>>

\* One turn of the loop under the state mutex: return, park on the condition
\* variable, or become the leader of the next generation.
Loop(c) ==
  /\ pc[c] = "loop"
  /\ \/ /\ completed >= target[c]
        /\ pc' = [pc EXCEPT ![c] = "ok"]
        /\ UNCHANGED <<generation, inFlight>>
     \/ /\ completed < target[c] /\ inFlight # 0
        /\ pc' = [pc EXCEPT ![c] = "parked"]
        /\ UNCHANGED <<generation, inFlight>>
     \/ /\ completed < target[c] /\ inFlight = 0
        /\ generation' = [generation EXCEPT ![c] = completed + 1]
        /\ inFlight' = completed + 1
        /\ pc' = [pc EXCEPT ![c] = "sync"]
  /\ UNCHANGED <<calls, target, completed, covered, durable>>

\* syncfs is entered: it covers what is written by now.
EnterKernel(c) ==
  /\ pc[c] = "sync"
  /\ covered' = {d \in Callers : pc[d] \in Writing}
  /\ pc' = [pc EXCEPT ![c] = "syncing"]
  /\ UNCHANGED <<calls, target, generation, completed, inFlight, durable>>

\* syncfs returns.
LeaveKernel(c) ==
  /\ pc[c] = "syncing"
  /\ \/ /\ pc' = [pc EXCEPT ![c] = "synced"]
        /\ durable' = durable \cup covered
     \/ /\ pc' = [pc EXCEPT ![c] = "failed"]
        /\ UNCHANGED durable
  /\ UNCHANGED <<calls, target, generation, completed, inFlight, covered>>

\* Faulty variant: a failed leader returns before it clears in_flight.
PublishOutcomeLeavesInFlight(c) ==
  /\ pc[c] \in {"synced", "failed"}
  /\ inFlight' = IF pc[c] = "synced" THEN 0 ELSE inFlight
  /\ completed' = IF pc[c] = "synced" THEN generation[c] ELSE completed
  /\ pc' = [d \in Callers |-> IF d = c THEN (IF pc[c] = "synced" THEN "loop" ELSE "err")
                              ELSE IF pc[d] = "parked" THEN "loop" ELSE pc[d]]
  /\ UNCHANGED <<calls, target, generation, covered, durable>>

\* The leader publishes the outcome under the mutex and wakes everyone.  A
\* failed leader returns the error, a successful one goes round the loop.
PublishOutcome(c) ==
  /\ pc[c] \in {"synced", "failed"}
  /\ inFlight' = 0
  /\ completed' = IF pc[c] = "synced" THEN generation[c] ELSE completed
  /\ pc' = [d \in Callers |-> IF d = c THEN (IF pc[c] = "synced" THEN "loop" ELSE "err")
                              ELSE IF pc[d] = "parked" THEN "loop" ELSE pc[d]]
  /\ UNCHANGED <<calls, target, generation, covered, durable>>

-----------------------------------------------------------------------------
Init ==
  /\ pc = [c \in Callers |-> "idle"]
  /\ calls = [c \in Callers |-> 0]
  /\ target = [c \in Callers |-> 0]
  /\ generation = [c \in Callers |-> 0]
  /\ completed = 0
  /\ inFlight = 0
  /\ covered = {}
  /\ durable = {}

Wait(c) == ReadTarget(c) \/ Loop(c) \/ EnterKernel(c) \/ LeaveKernel(c) \/ PublishOutcome(c)
Next == \E c \in Callers : Write(c) \/ Wait(c)

\* Threads keep running, and syncfs returns.
Safety == Init /\ [][Next]_vars
Spec == Safety /\ \A c \in Callers : WF_vars(Wait(c))

-----------------------------------------------------------------------------
(* Properties *)

TypeOK ==
  /\ pc \in [Callers -> Returned \cup Writing]
  /\ calls \in [Callers -> 0..MaxCalls]
  /\ target \in [Callers -> Nat]
  /\ generation \in [Callers -> Nat]
  /\ completed \in Nat /\ inFlight \in Nat
  /\ covered \subseteq Callers /\ durable \subseteq Callers

\* I4, and the claim of FsBarrier::wait: "a caller is never told durable by a
\* barrier that could not have seen its work".  A thread that returned Ok has
\* its writes on stable storage, whoever led the barrier that acknowledged it.
OkMeansDurable == \A c \in Callers : pc[c] = "ok" => c \in durable

\* One generation at a time: the thread in syncfs is the only leader, its
\* generation is the one in flight, and it continues the completed ones.
OneLeader ==
  \A c \in Callers : pc[c] \in {"sync", "syncing", "synced", "failed"} =>
    /\ inFlight = generation[c] /\ generation[c] = completed + 1
    /\ \A d \in Callers \ {c} : pc[d] \notin {"sync", "syncing", "synced", "failed"}

\* A parked thread always has a leader that will notify it.
ParkedHasLeader ==
  (\E c \in Callers : pc[c] = "parked") =>
    \E d \in Callers : pc[d] \in {"sync", "syncing", "synced", "failed"}

\* A batch waits for at most two successful barriers, the one in flight when it
\* asked and the next: the cost of not joining a barrier that has started.
AtMostTwoBarriers ==
  \A c \in Callers : pc[c] \in {"loop", "parked"} => target[c] <= completed + 2

\* Every batch gets an answer: it is not starved by the barriers of others, nor
\* by their failures.
EveryWaitReturns == \A c \in Callers : pc[c] = "linked" ~> pc[c] \in Returned
=============================================================================
