----------------------------- MODULE GroupCommit -----------------------------
(***************************************************************************)
(* Group commit of the catalog (meta.rs: CommitGroup, run_grouped,         *)
(* drain_group).  A writer queues its job, then competes for the write     *)
(* mutex; the holder drains the queue into one transaction, runs each job  *)
(* under a savepoint, commits, and answers every member of the batch.      *)
(*                                                                         *)
(* job[w] says where the job of w's current call is.  The order of the     *)
(* jobs of a batch is left open: no property depends on it.                *)
(***************************************************************************)
EXTENDS Naturals

CONSTANTS Writers,
          None,      \* the write mutex is free
          Solo,      \* holders outside the group: every other transaction
          MaxCalls   \* bound: calls per writer

ASSUME WriterNames == None \notin Writers /\ Solo \notin Writers /\ None # Solo
ASSUME CallBound == MaxCalls \in Nat

VARIABLES
  pc,        \* where w is in run_grouped or drain_group, or how it returned
  calls,     \* number of w's current call
  job,       \* "none", "queued", "taken", or the outcome in `outs`
  chan,      \* the reply channel of w's call
  holder,    \* of the mutex Meta::write
  poisoned,  \* the transaction is no longer trustworthy
  db,        \* committed jobs, as <<writer, call>>
  counted    \* jobs that incremented stats.cas_updated

vars == <<pc, calls, job, chan, holder, poisoned, db, counted>>

Outcomes == {"ok", "rejected", "err"}
Waiting  == {"poll", "lock", "recheck", "begin", "run", "reply"}
Job(w)   == <<w, calls[w]>>
Batch    == {w \in Writers : job[w] \in {"taken"} \cup Outcomes}
ToRun    == {w \in Writers : job[w] = "taken"}

-----------------------------------------------------------------------------
(* run_grouped *)

Call(w) ==
  /\ pc[w] \notin Waiting /\ calls[w] < MaxCalls
  /\ calls' = [calls EXCEPT ![w] = @ + 1]
  /\ job'   = [job EXCEPT ![w] = "queued"]
  /\ chan'  = [chan EXCEPT ![w] = "empty"]
  /\ pc'    = [pc EXCEPT ![w] = "poll"]
  /\ UNCHANGED <<holder, poisoned, db, counted>>

Poll(w) ==
  /\ pc[w] = "poll"
  /\ pc' = [pc EXCEPT ![w] = IF chan[w] = "empty" THEN "lock"
                             ELSE IF chan[w] = "closed" THEN "err" ELSE chan[w]]
  /\ UNCHANGED <<calls, job, chan, holder, poisoned, db, counted>>

Lock(w) ==
  /\ pc[w] = "lock" /\ holder = None
  /\ holder' = w
  /\ pc' = [pc EXCEPT ![w] = "recheck"]
  /\ UNCHANGED <<calls, job, chan, poisoned, db, counted>>

\* A closed channel is not looked at here: the caller drains for the others and
\* learns of it at the top of the loop.
Recheck(w) ==
  /\ pc[w] = "recheck"
  /\ \/ /\ chan[w] \in Outcomes
        /\ pc' = [pc EXCEPT ![w] = chan[w]]
        /\ holder' = None
        /\ UNCHANGED job
     \/ /\ chan[w] \notin Outcomes
        /\ \A v \in Writers : job[v] # "queued"
        /\ pc' = [pc EXCEPT ![w] = "poll"]
        /\ holder' = None
        /\ UNCHANGED job
     \/ /\ chan[w] \notin Outcomes
        /\ \E v \in Writers : job[v] = "queued"
        /\ pc' = [pc EXCEPT ![w] = "begin"]
        /\ job' = [v \in Writers |-> IF job[v] = "queued" THEN "taken" ELSE job[v]]
        /\ UNCHANGED holder
  /\ UNCHANGED <<calls, chan, poisoned, db, counted>>

-----------------------------------------------------------------------------
(* drain_group, holding the mutex *)

\* Faulty variant: a failed BEGIN answers the leader only.
BeginForgetsBatch(w) ==
  /\ pc[w] = "begin"
  /\ poisoned' = FALSE
  /\ \/ pc' = [pc EXCEPT ![w] = "run"] /\ UNCHANGED job
     \/ /\ pc' = [pc EXCEPT ![w] = "reply"]
        /\ job' = [v \in Writers |-> IF v = w THEN "err"
                                     ELSE IF v \in Batch THEN "none" ELSE job[v]]
  /\ UNCHANGED <<calls, chan, holder, db, counted>>

\* BEGIN IMMEDIATE succeeds, or fails for the whole batch.
Begin(w) ==
  /\ pc[w] = "begin"
  /\ poisoned' = FALSE
  /\ \/ pc' = [pc EXCEPT ![w] = "run"] /\ UNCHANGED job
     \/ /\ pc' = [pc EXCEPT ![w] = "reply"]
        /\ job' = [v \in Writers |-> IF v \in Batch THEN "err" ELSE job[v]]
  /\ UNCHANGED <<calls, chan, holder, db, counted>>

Finish(v, outcome) == job' = [job EXCEPT ![v] = outcome]

\* Faulty variant: a job is counted before its own outcome is known.
RunJobCountsFirst(w, v) ==
  /\ pc[w] = "run" /\ v \in ToRun
  /\ \/ poisoned /\ Finish(v, "err") /\ UNCHANGED <<poisoned, counted>>
     \/ /\ ~poisoned
        /\ \/ Finish(v, "err") /\ poisoned' = TRUE /\ UNCHANGED counted
           \/ /\ counted' = counted \cup {Job(v)}
              /\ \/ Finish(v, "ok")  /\ UNCHANGED poisoned
                 \/ Finish(v, "err") /\ poisoned' = TRUE
                 \/ Finish(v, "rejected") /\ poisoned' \in BOOLEAN
  /\ UNCHANGED <<pc, calls, chan, holder, db>>

\* One job of the batch: SAVEPOINT, the job, then RELEASE or ROLLBACK TO.
\* The savepoint statements may fail too, which dooms the transaction.
RunJob(w, v) ==
  /\ pc[w] = "run" /\ v \in ToRun
  /\ \/ poisoned /\ Finish(v, "err") /\ UNCHANGED <<poisoned, counted>>
     \/ /\ ~poisoned
        /\ \/ Finish(v, "err") /\ poisoned' = TRUE /\ UNCHANGED counted
           \/ /\ counted' = counted \cup {Job(v)}
              /\ \/ Finish(v, "ok")  /\ UNCHANGED poisoned
                 \/ Finish(v, "err") /\ poisoned' = TRUE
           \/ /\ Finish(v, "rejected") /\ poisoned' \in BOOLEAN
              /\ UNCHANGED counted
  /\ UNCHANGED <<pc, calls, chan, holder, db>>

\* A job panics: the leader unwinds, its transaction rolls back, and the reply
\* channels of the batch are dropped.
Unwind(w) ==
  /\ pc[w] = "run" /\ ToRun # {} /\ ~poisoned
  /\ chan' = [v \in Writers |-> IF v \in Batch THEN "closed" ELSE chan[v]]
  /\ job'  = [v \in Writers |-> IF v \in Batch THEN "none" ELSE job[v]]
  /\ pc' = [pc EXCEPT ![w] = "err"]
  /\ holder' = None
  /\ UNCHANGED <<calls, poisoned, db, counted>>

FailBatch == job' = [v \in Writers |-> IF v \in Batch THEN "err" ELSE job[v]]

\* Faulty variant: members whose SQL ran keep their answer when COMMIT fails.
CommitKeepsAnswers(w) ==
  /\ pc[w] = "run" /\ ToRun = {}
  /\ pc' = [pc EXCEPT ![w] = "reply"]
  /\ \/ UNCHANGED db
     \/ ~poisoned /\ db' = db \cup {Job(v) : v \in {u \in Writers : job[u] = "ok"}}
  /\ UNCHANGED <<calls, job, chan, holder, poisoned, counted>>

\* Rollback of a poisoned transaction, or COMMIT, which may fail.
Commit(w) ==
  /\ pc[w] = "run" /\ ToRun = {}
  /\ pc' = [pc EXCEPT ![w] = "reply"]
  /\ \/ FailBatch /\ UNCHANGED db
     \/ /\ ~poisoned
        /\ db' = db \cup {Job(v) : v \in {u \in Writers : job[u] = "ok"}}
        /\ UNCHANGED job
  /\ UNCHANGED <<calls, chan, holder, poisoned, counted>>

Reply(w, v) ==
  /\ pc[w] = "reply" /\ v \in Batch
  /\ chan' = [chan EXCEPT ![v] = job[v]]
  /\ job'  = [job EXCEPT ![v] = "none"]
  /\ UNCHANGED <<pc, calls, holder, poisoned, db, counted>>

Unlock(w) ==
  /\ pc[w] = "reply" /\ Batch = {}
  /\ holder' = None
  /\ pc' = [pc EXCEPT ![w] = "poll"]
  /\ UNCHANGED <<calls, job, chan, poisoned, db, counted>>

\* Any other transaction of the process, e.g. complete_noop_session.
SoloLock ==
  /\ holder = None
  /\ holder' = Solo
  /\ UNCHANGED <<pc, calls, job, chan, poisoned, db, counted>>

SoloUnlock ==
  /\ holder = Solo
  /\ holder' = None
  /\ UNCHANGED <<pc, calls, job, chan, poisoned, db, counted>>

-----------------------------------------------------------------------------
Init ==
  /\ pc    = [w \in Writers |-> "idle"]
  /\ calls = [w \in Writers |-> 0]
  /\ job   = [w \in Writers |-> "none"]
  /\ chan  = [w \in Writers |-> "empty"]
  /\ holder = None
  /\ poisoned = FALSE
  /\ db = {}
  /\ counted = {}

Lead(w) == \/ Begin(w) \/ Unwind(w) \/ Commit(w) \/ Unlock(w)
           \/ \E v \in Writers : RunJob(w, v) \/ Reply(w, v)

Next == \/ \E w \in Writers : Call(w) \/ Poll(w) \/ Lock(w) \/ Recheck(w) \/ Lead(w)
        \/ SoloLock \/ SoloUnlock

\* Threads keep running; parking_lot's mutex is eventually fair, so a thread
\* that asks for it again and again gets it.
Fairness ==
  /\ \A w \in Writers : /\ WF_vars(Poll(w)) /\ WF_vars(Recheck(w)) /\ WF_vars(Lead(w))
                        /\ SF_vars(Lock(w))
  /\ WF_vars(SoloUnlock)

Safety == Init /\ [][Next]_vars
Spec == Safety /\ Fairness

-----------------------------------------------------------------------------
(* Properties *)

TypeOK ==
  /\ pc \in [Writers -> {"idle"} \cup Waiting \cup Outcomes]
  /\ calls \in [Writers -> 0..MaxCalls]
  /\ job \in [Writers -> {"none", "queued", "taken"} \cup Outcomes]
  /\ chan \in [Writers -> {"empty", "closed"} \cup Outcomes]
  /\ holder \in Writers \cup {None, Solo}
  /\ poisoned \in BOOLEAN
  /\ db \subseteq Writers \X (0..MaxCalls)
  /\ counted \subseteq Writers \X (0..MaxCalls)

\* I4, I6: a caller that is told "ok" finds its job committed, and one that is
\* told anything else, or loses its channel to an unwinding leader, finds that
\* nothing of it was applied ("Nothing was committed for this job").
AnswerIsTrue ==
  \A w \in Writers : /\ pc[w] = "ok" => Job(w) \in db
                     /\ pc[w] \in {"rejected", "err"} => Job(w) \notin db

\* The argument for termination in run_grouped: "a job removed from the queue
\* is always completed and answered before the remover releases it".  With the
\* mutex free, a job is in the queue or its channel has its fate, and only one
\* thread is ever past the mutex.
AnsweredBeforeUnlock ==
  /\ holder \notin Writers =>
       \A w \in Writers : pc[w] \in Waiting => job[w] = "queued" \/ chan[w] # "empty"
  /\ \A w \in Writers : pc[w] \in {"recheck", "begin", "run", "reply"} => holder = w

\* The abstract specification, with the job's outcome as the caller sees it.
Promise == INSTANCE AtomicWrites WITH
  state <- [w \in Writers |-> IF pc[w] = "idle" THEN "idle"
                              ELSE IF pc[w] \in Waiting THEN "waiting"
                              ELSE IF pc[w] = "ok" THEN "ok" ELSE "refused"]

\* Group commit implements one durable, atomic, truthfully answered write per
\* caller, and every call returns: no caller is left behind by a leader that
\* failed, unwound or finished just as the caller queued.
ImplementsPromise == Promise!Spec

\* The counters of cas_ref_session are a ceiling: every committed job has been
\* counted and no refused one has.  A job that was counted and then lost with its
\* transaction stays counted.
CountsAreCeiling ==
  /\ db \subseteq counted
  /\ \A w \in Writers : pc[w] = "rejected" => Job(w) \notin counted
=============================================================================
