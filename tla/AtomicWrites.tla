---------------------------- MODULE AtomicWrites ----------------------------
(***************************************************************************)
(* What a catalog write promises its caller: the caller waits, its job is  *)
(* applied durably or not at all, and the answer says which.  A durable    *)
(* commit may carry the jobs of several callers.                           *)
(***************************************************************************)
EXTENDS Naturals

CONSTANTS Writers,
          MaxCalls   \* bound: calls per writer

VARIABLES state,     \* state[w]: "idle", "waiting", "ok" or "refused"
          calls,     \* calls[w]: the number of the current call of w
          db         \* the durable jobs, as <<writer, call>>

vars == <<state, calls, db>>

Job(w) == <<w, calls[w]>>

Init ==
  /\ state = [w \in Writers |-> "idle"]
  /\ calls = [w \in Writers |-> 0]
  /\ db = {}

Call(w) ==
  /\ state[w] # "waiting" /\ calls[w] < MaxCalls
  /\ state' = [state EXCEPT ![w] = "waiting"]
  /\ calls' = [calls EXCEPT ![w] = @ + 1]
  /\ UNCHANGED db

\* One COMMIT.
Apply(S) ==
  /\ \A w \in S : state[w] = "waiting"
  /\ db' = db \cup {Job(w) : w \in S}
  /\ UNCHANGED <<state, calls>>

Return(w) ==
  /\ state[w] = "waiting"
  /\ state' = [state EXCEPT ![w] = IF Job(w) \in db THEN "ok" ELSE "refused"]
  /\ UNCHANGED <<calls, db>>

Next == \/ \E w \in Writers : Call(w) \/ Return(w)
        \/ \E S \in SUBSET Writers : Apply(S)

Safety == Init /\ [][Next]_vars
Spec == Safety /\ \A w \in Writers : WF_vars(Return(w))
=============================================================================
