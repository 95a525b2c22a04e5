-------------------------- MODULE GroupCommitProofs --------------------------
(***************************************************************************)
(* Group commit keeps its promise for any number of writers and calls.     *)
(*                                                                         *)
(* The invariant follows a job through its stages.  A queued job is not in *)
(* the database and its channel is empty.  A job leaves the queue only     *)
(* into the batch of the thread that holds the mutex; until that thread    *)
(* replies, the outcome it noted agrees with the database; after that the  *)
(* channel does.                                                           *)
(***************************************************************************)
EXTENDS GroupCommit, TLAPS

Leading == {"begin", "run", "reply"}

\* Where the job of a waiting caller is, and what that says of the database.
Stage(w) ==
  /\ job[w] = "queued" => pc[w] \in Waiting /\ chan[w] = "empty" /\ Job(w) \notin db
  /\ job[w] \in {"taken"} \cup Outcomes =>
       /\ pc[w] \in Waiting /\ chan[w] = "empty"
       /\ holder \in Writers /\ pc[holder] \in Leading
       /\ pc[holder] # "reply" => Job(w) \notin db
       /\ pc[holder] = "begin" => job[w] = "taken"
       /\ pc[holder] = "reply" =>
            job[w] \in Outcomes /\ (job[w] = "ok" <=> Job(w) \in db)
  /\ job[w] = "none" /\ pc[w] \in Waiting =>
       /\ chan[w] # "empty"
       /\ chan[w] = "ok" <=> Job(w) \in db

\* Only one thread is past the mutex, and the database holds no future call.
GInv ==
  /\ TypeOK
  /\ AnswerIsTrue
  /\ \A w \in Writers : Stage(w)
  /\ \A w \in Writers : pc[w] \in {"recheck"} \cup Leading => holder = w
  /\ \A w \in Writers : pc[w] \in {"begin", "run"} => chan[w] \notin Outcomes /\ job[w] # "queued"
  /\ \A w \in Writers : \A n \in 0..MaxCalls : <<w, n>> \in db => n <= calls[w]

\* The states before the first call satisfy the invariant.
LEMMA InitGInv == Init => GInv
<1> SUFFICES ASSUME Init PROVE GInv OBVIOUS
<1> USE CallBound DEF Waiting, Outcomes, Leading
<1>0. 0 \in 0..MaxCalls OBVIOUS
<1>1. TypeOK BY <1>0, Zenon DEF Init, TypeOK
<1>2. AnswerIsTrue BY Zenon DEF Init, AnswerIsTrue
<1>3. \A w \in Writers : Stage(w) BY Zenon DEF Init, Stage
<1> QED BY <1>1, <1>2, <1>3 DEF Init, GInv

\* A new call: its number is new, so nothing of it is in the database.
LEMMA CallKeeps ==
  ASSUME GInv, NEW w \in Writers, Call(w)
  PROVE  GInv'
<1> USE CallBound DEF Waiting, Outcomes, Leading
<1>1. TypeOK' BY DEF GInv, TypeOK, Call
<1>2. \A v \in Writers : v # w => Job(v)' = Job(v) BY DEF GInv, TypeOK, Call, Job
<1>3. Job(w)' \notin db
  <2>1. calls'[w] = calls[w] + 1 /\ calls[w] \in Nat /\ calls'[w] \in 0..MaxCalls
    BY DEF GInv, TypeOK, Call
  <2> QED BY <2>1 DEF GInv, Job
<1>4. AnswerIsTrue' BY <1>2, <1>3 DEF GInv, TypeOK, AnswerIsTrue, Call
<1>5. \A v \in Writers : Stage(v)' BY <1>2, <1>3 DEF GInv, TypeOK, Stage, Call
<1>6. \A v \in Writers : pc'[v] \in {"recheck"} \cup Leading => holder' = v
  BY DEF GInv, TypeOK, Call
<1>7. \A v \in Writers : \A n \in 0..MaxCalls : <<v, n>> \in db' => n <= calls'[v]
  BY DEF GInv, TypeOK, Call
<1>8. \A v \in Writers : pc'[v] \in {"begin", "run"} => chan'[v] \notin Outcomes /\ job'[v] # "queued"
  BY DEF GInv, TypeOK, Call
<1> QED BY <1>1, <1>4, <1>5, <1>6, <1>7, <1>8 DEF GInv

\* The caller looks at its channel.
LEMMA PollKeeps ==
  ASSUME GInv, NEW w \in Writers, Poll(w)
  PROVE  GInv'
<1> USE CallBound DEF Waiting, Outcomes, Leading
<1>1. TypeOK' BY DEF GInv, TypeOK, Poll
<1>2. AnswerIsTrue' BY DEF GInv, TypeOK, AnswerIsTrue, Stage, Job, Poll
<1>3. \A v \in Writers : Stage(v)' BY DEF GInv, TypeOK, Stage, Job, Poll
<1>4. \A v \in Writers : pc'[v] \in {"recheck"} \cup Leading => holder' = v
  BY WriterNames DEF GInv, TypeOK, Poll
<1>5. \A v \in Writers : \A n \in 0..MaxCalls : <<v, n>> \in db' => n <= calls'[v]
  BY DEF GInv, TypeOK, Poll
<1>6. \A v \in Writers : pc'[v] \in {"begin", "run"} => chan'[v] \notin Outcomes /\ job'[v] # "queued"
  BY DEF GInv, TypeOK, Stage, Poll
<1> QED BY <1>1, <1>2, <1>3, <1>4, <1>5, <1>6 DEF GInv

\* The caller gets the mutex.
LEMMA LockKeeps ==
  ASSUME GInv, NEW w \in Writers, Lock(w)
  PROVE  GInv'
<1> USE CallBound DEF Waiting, Outcomes, Leading
<1>1. TypeOK' BY DEF GInv, TypeOK, Lock
<1>2. AnswerIsTrue' BY DEF GInv, TypeOK, AnswerIsTrue, Stage, Job, Lock
<1>3. \A v \in Writers : Stage(v)' BY WriterNames DEF GInv, TypeOK, Stage, Job, Lock
<1>4. \A v \in Writers : pc'[v] \in {"recheck"} \cup Leading => holder' = v
  BY WriterNames DEF GInv, TypeOK, Lock
<1>5. \A v \in Writers : \A n \in 0..MaxCalls : <<v, n>> \in db' => n <= calls'[v]
  BY DEF GInv, TypeOK, Lock
<1>6. \A v \in Writers : pc'[v] \in {"begin", "run"} => chan'[v] \notin Outcomes /\ job'[v] # "queued"
  BY DEF GInv, TypeOK, Stage, Lock
<1> QED BY <1>1, <1>2, <1>3, <1>4, <1>5, <1>6 DEF GInv

\* The holder returns, finds nothing queued, or drains the queue.
LEMMA RecheckKeeps ==
  ASSUME GInv, NEW w \in Writers, Recheck(w)
  PROVE  GInv'
<1> USE CallBound DEF Waiting, Outcomes, Leading
<1>1. TypeOK' BY DEF GInv, TypeOK, Recheck
<1>2. AnswerIsTrue' BY DEF GInv, TypeOK, AnswerIsTrue, Stage, Job, Recheck
<1>3. \A v \in Writers : Stage(v)' BY DEF GInv, TypeOK, Stage, Job, Recheck
<1>4. \A v \in Writers : pc'[v] \in {"recheck"} \cup Leading => holder' = v
  BY WriterNames DEF GInv, TypeOK, Recheck
<1>5. \A v \in Writers : \A n \in 0..MaxCalls : <<v, n>> \in db' => n <= calls'[v]
  BY DEF GInv, TypeOK, Recheck
<1>6. \A v \in Writers : pc'[v] \in {"begin", "run"} => chan'[v] \notin Outcomes /\ job'[v] # "queued"
  BY DEF GInv, TypeOK, Stage, Recheck
<1> QED BY <1>1, <1>2, <1>3, <1>4, <1>5, <1>6 DEF GInv

\* BEGIN IMMEDIATE.
LEMMA BeginKeeps ==
  ASSUME GInv, NEW w \in Writers, Begin(w)
  PROVE  GInv'
<1> USE CallBound DEF Waiting, Outcomes, Leading, Batch
<1>1. TypeOK' BY Zenon DEF GInv, TypeOK, Begin
<1>2. AnswerIsTrue' BY DEF GInv, TypeOK, AnswerIsTrue, Stage, Job, Begin
<1>3. \A v \in Writers : Stage(v)' BY DEF GInv, TypeOK, Stage, Job, Begin
<1>4. \A v \in Writers : pc'[v] \in {"recheck"} \cup Leading => holder' = v
  BY WriterNames DEF GInv, TypeOK, Begin
<1>5. \A v \in Writers : \A n \in 0..MaxCalls : <<v, n>> \in db' => n <= calls'[v]
  BY DEF GInv, TypeOK, Begin
<1>6. \A v \in Writers : pc'[v] \in {"begin", "run"} => chan'[v] \notin Outcomes /\ job'[v] # "queued"
  BY DEF GInv, TypeOK, Stage, Begin
<1> QED BY <1>1, <1>2, <1>3, <1>4, <1>5, <1>6 DEF GInv

\* One job of the batch runs.
LEMMA RunJobKeeps ==
  ASSUME GInv, NEW w \in Writers, NEW u \in Writers, RunJob(w, u)
  PROVE  GInv'
<1> USE CallBound DEF Waiting, Outcomes, Leading, ToRun, Finish
<1>0. Job(u) \in Writers \X (0..MaxCalls) BY DEF GInv, TypeOK, Job
<1>1. TypeOK' BY <1>0, Zenon DEF GInv, TypeOK, RunJob
<1>2. AnswerIsTrue' BY DEF GInv, TypeOK, AnswerIsTrue, Stage, Job, RunJob
<1>3. \A v \in Writers : Stage(v)' BY DEF GInv, TypeOK, Stage, Job, RunJob
<1>4. \A v \in Writers : pc'[v] \in {"recheck"} \cup Leading => holder' = v
  BY WriterNames DEF GInv, TypeOK, RunJob
<1>5. \A v \in Writers : \A n \in 0..MaxCalls : <<v, n>> \in db' => n <= calls'[v]
  BY DEF GInv, TypeOK, RunJob
<1>6. \A v \in Writers : pc'[v] \in {"begin", "run"} => chan'[v] \notin Outcomes /\ job'[v] # "queued"
  BY DEF GInv, TypeOK, Stage, RunJob
<1> QED BY <1>1, <1>2, <1>3, <1>4, <1>5, <1>6 DEF GInv

\* The leader unwinds before COMMIT, so no job of the batch is in the database.
LEMMA UnwindKeeps ==
  ASSUME GInv, NEW w \in Writers, Unwind(w)
  PROVE  GInv'
<1> USE CallBound DEF Waiting, Outcomes, Leading, Batch
<1>1. TypeOK' BY DEF GInv, TypeOK, Unwind
<1>0. /\ holder = w /\ pc[w] = "run" /\ \A v \in Batch : Job(v) \notin db
      /\ \A v \in Writers : Job(v)' = Job(v) /\ db' = db
  BY DEF GInv, TypeOK, Unwind, Stage, Job
<1>2. AnswerIsTrue'
  <2>1. Job(w) \notin db BY <1>0 DEF GInv, TypeOK, Stage
  <2> QED BY <1>0, <2>1 DEF GInv, TypeOK, AnswerIsTrue, Unwind
<1>3. \A v \in Writers : Stage(v)'
  <2> TAKE v \in Writers
  <2>1. CASE v \in Batch BY <1>0, <2>1 DEF GInv, TypeOK, Stage, Unwind
  <2>2. CASE v \notin Batch BY <1>0, <2>2 DEF GInv, TypeOK, Stage, Unwind
  <2> QED BY <2>1, <2>2
<1>4. \A v \in Writers : pc'[v] \in {"recheck"} \cup Leading => holder' = v
  BY WriterNames DEF GInv, TypeOK, Unwind
<1>5. \A v \in Writers : \A n \in 0..MaxCalls : <<v, n>> \in db' => n <= calls'[v]
  BY DEF GInv, TypeOK, Unwind
<1>6. \A v \in Writers : pc'[v] \in {"begin", "run"} => chan'[v] \notin Outcomes /\ job'[v] # "queued"
  BY DEF GInv, TypeOK, Stage, Unwind
<1> QED BY <1>1, <1>2, <1>3, <1>4, <1>5, <1>6 DEF GInv

\* COMMIT or rollback of the batch.
LEMMA CommitKeeps ==
  ASSUME GInv, NEW w \in Writers, Commit(w)
  PROVE  GInv'
<1> USE CallBound DEF Waiting, Outcomes, Leading, Batch, ToRun, FailBatch
<1>0. \A u \in Writers : Job(u) \in Writers \X (0..MaxCalls) BY DEF GInv, TypeOK, Job
<1>1. TypeOK' BY <1>0 DEF GInv, TypeOK, Commit
<1>2. AnswerIsTrue' BY DEF GInv, TypeOK, AnswerIsTrue, Stage, Job, Commit
<1>3. \A v \in Writers : Stage(v)' BY DEF GInv, TypeOK, Stage, Job, Commit
<1>4. \A v \in Writers : pc'[v] \in {"recheck"} \cup Leading => holder' = v
  BY WriterNames DEF GInv, TypeOK, Commit
<1>5. \A v \in Writers : \A n \in 0..MaxCalls : <<v, n>> \in db' => n <= calls'[v]
  <2> TAKE v \in Writers
  <2> TAKE n \in 0..MaxCalls
  <2>1. \A u \in Writers : Job(u) = <<v, n>> => n = calls[v] BY DEF Job
  <2>2. calls[v] \in Nat /\ calls' = calls BY DEF GInv, TypeOK, Commit
  <2> QED BY <2>1, <2>2 DEF GInv, Commit
<1>6. \A v \in Writers : pc'[v] \in {"begin", "run"} => chan'[v] \notin Outcomes /\ job'[v] # "queued"
  BY DEF GInv, TypeOK, Stage, Commit
<1> QED BY <1>1, <1>2, <1>3, <1>4, <1>5, <1>6 DEF GInv

\* The leader answers one member of the batch.
LEMMA ReplyKeeps ==
  ASSUME GInv, NEW w \in Writers, NEW u \in Writers, Reply(w, u)
  PROVE  GInv'
<1> USE CallBound DEF Waiting, Outcomes, Leading, Batch
<1>1. TypeOK' BY DEF GInv, TypeOK, Stage, Reply
<1>2. AnswerIsTrue' BY DEF GInv, TypeOK, AnswerIsTrue, Stage, Job, Reply
<1>3. \A v \in Writers : Stage(v)' BY DEF GInv, TypeOK, Stage, Job, Reply
<1>4. \A v \in Writers : pc'[v] \in {"recheck"} \cup Leading => holder' = v
  BY WriterNames DEF GInv, TypeOK, Reply
<1>5. \A v \in Writers : \A n \in 0..MaxCalls : <<v, n>> \in db' => n <= calls'[v]
  BY DEF GInv, TypeOK, Reply
<1>6. \A v \in Writers : pc'[v] \in {"begin", "run"} => chan'[v] \notin Outcomes /\ job'[v] # "queued"
  BY DEF GInv, TypeOK, Stage, Reply
<1> QED BY <1>1, <1>2, <1>3, <1>4, <1>5, <1>6 DEF GInv

\* The leader leaves with an empty batch.
LEMMA UnlockKeeps ==
  ASSUME GInv, NEW w \in Writers, Unlock(w)
  PROVE  GInv'
<1> USE CallBound DEF Waiting, Outcomes, Leading, Batch
<1>1. TypeOK' BY DEF GInv, TypeOK, Unlock
<1>2. AnswerIsTrue' BY DEF GInv, TypeOK, AnswerIsTrue, Stage, Job, Unlock
<1>3. \A v \in Writers : Stage(v)' BY DEF GInv, TypeOK, Stage, Job, Unlock
<1>4. \A v \in Writers : pc'[v] \in {"recheck"} \cup Leading => holder' = v
  BY WriterNames DEF GInv, TypeOK, Unlock
<1>5. \A v \in Writers : \A n \in 0..MaxCalls : <<v, n>> \in db' => n <= calls'[v]
  BY DEF GInv, TypeOK, Unlock
<1>6. \A v \in Writers : pc'[v] \in {"begin", "run"} => chan'[v] \notin Outcomes /\ job'[v] # "queued"
  BY DEF GInv, TypeOK, Stage, Unlock
<1> QED BY <1>1, <1>2, <1>3, <1>4, <1>5, <1>6 DEF GInv

\* A transaction outside the group takes or leaves the mutex.
LEMMA SoloKeeps ==
  ASSUME GInv, SoloLock \/ SoloUnlock
  PROVE  GInv'
<1> USE DEF Waiting, Outcomes, Leading
<1>1. TypeOK' BY DEF GInv, TypeOK, SoloLock, SoloUnlock
<1>2. AnswerIsTrue' BY DEF GInv, AnswerIsTrue, Job, SoloLock, SoloUnlock
<1>3. \A v \in Writers : Stage(v)'
  BY WriterNames DEF GInv, TypeOK, Stage, Job, SoloLock, SoloUnlock
<1> QED BY <1>1, <1>2, <1>3, WriterNames DEF GInv, SoloLock, SoloUnlock

\* Every step keeps the invariant.
LEMMA NextKeeps ==
  ASSUME GInv, [Next]_vars
  PROVE  GInv'
<1>1. ASSUME NEW w \in Writers, Call(w) \/ Poll(w) \/ Lock(w) \/ Recheck(w) \/ Lead(w)
      PROVE  GInv'
  BY <1>1, CallKeeps, PollKeeps, LockKeeps, RecheckKeeps, BeginKeeps, RunJobKeeps,
     UnwindKeeps, CommitKeeps, ReplyKeeps, UnlockKeeps DEF Lead
<1>2. CASE UNCHANGED vars
  BY <1>2 DEF vars, GInv, TypeOK, AnswerIsTrue, Stage, Job
<1> QED BY <1>1, <1>2, SoloKeeps DEF Next

\* The invariant holds in every reachable state.
THEOREM GroupInductive == Safety => []GInv
  BY InitGInv, NextKeeps, PTL DEF Safety

\* A caller's answer agrees with the database, for any number of writers.
THEOREM AnswersHold == Safety => []AnswerIsTrue
<1>1. GInv => AnswerIsTrue BY DEF GInv
<1> QED BY GroupInductive, <1>1, PTL

\* With the mutex free, every waiting caller is queued or answered.
THEOREM NobodyForgotten == Safety => []AnsweredBeforeUnlock
<1>1. GInv => AnsweredBeforeUnlock
  BY DEF GInv, TypeOK, Stage, AnsweredBeforeUnlock, Leading, Waiting, Outcomes
<1> QED BY GroupInductive, <1>1, PTL

-----------------------------------------------------------------------------
(* The outcome counters *)

\* A job is counted when its SQL runs: not while it waits, always before its
\* outcome is "ok", and not when it is refused, wherever the refusal is on its
\* way to the caller.
Counted(w) ==
  /\ job[w] \in {"queued", "taken", "rejected"} => Job(w) \notin counted
  /\ job[w] = "ok" => Job(w) \in counted
  /\ chan[w] = "rejected" => Job(w) \notin counted
  /\ \A n \in 0..MaxCalls : <<w, n>> \in counted => n <= calls[w]

CInv == CountsAreCeiling /\ \A w \in Writers : Counted(w)

\* Jobs of different writers are different.
LEMMA JobsDiffer ==
  ASSUME NEW v \in Writers, NEW w \in Writers, Job(v) = Job(w)
  PROVE  v = w
BY DEF Job

\* A new call is not counted yet.
LEMMA CallCounts ==
  ASSUME GInv, CInv, NEW w \in Writers, Call(w)
  PROVE  CInv'
<1> USE CallBound DEF Waiting, Outcomes
<1>1. \A v \in Writers : v # w => Job(v)' = Job(v) BY DEF GInv, TypeOK, Call, Job
<1>2. Job(w)' \notin counted
  <2>1. calls'[w] = calls[w] + 1 /\ calls[w] \in Nat /\ calls'[w] \in 0..MaxCalls
    BY DEF GInv, TypeOK, Call
  <2>2. <<w, calls'[w]>> \in counted => calls'[w] <= calls[w]
    BY <2>1 DEF CInv, Counted
  <2>3. ~(calls'[w] <= calls[w]) BY <2>1
  <2> QED BY <2>2, <2>3 DEF Job
<1>3. \A v \in Writers : Counted(v)'
  BY <1>1, <1>2 DEF GInv, TypeOK, CInv, Counted, Call
<1>4. CountsAreCeiling'
  BY <1>1, <1>2 DEF GInv, TypeOK, CInv, CountsAreCeiling, Call
<1> QED BY <1>3, <1>4 DEF CInv

\* The job that runs is counted unless it is refused or its savepoint fails.
LEMMA RunJobCounts ==
  ASSUME GInv, CInv, NEW w \in Writers, NEW u \in Writers, RunJob(w, u)
  PROVE  CInv'
<1> USE CallBound DEF Waiting, Outcomes, ToRun, Finish
<1>0. \A v \in Writers : Job(v)' = Job(v) BY DEF RunJob, Job
<1>1. /\ job[u] = "taken" /\ counted' \in {counted, counted \cup {Job(u)}}
      /\ pc[u] \in Waiting /\ chan[u] = "empty"
  BY DEF GInv, Stage, RunJob
<1>2. \A v \in Writers : Counted(v)'
  <2> TAKE v \in Writers
  <2>1. CASE v = u
    BY <1>0, <1>1, <2>1 DEF GInv, TypeOK, CInv, Counted, RunJob, Job
  <2>2. CASE v # u
    BY <1>0, <1>1, <2>2, JobsDiffer DEF GInv, TypeOK, CInv, Counted, RunJob, Job
  <2> QED BY <2>1, <2>2
<1>3. CountsAreCeiling'
  BY <1>0, <1>1, JobsDiffer DEF GInv, TypeOK, CInv, CountsAreCeiling, RunJob
<1> QED BY <1>2, <1>3 DEF CInv

\* COMMIT commits jobs that ran.
LEMMA CommitCounts ==
  ASSUME GInv, CInv, NEW w \in Writers, Commit(w)
  PROVE  CInv'
<1> USE DEF Waiting, Outcomes, Batch, ToRun, FailBatch
<1>0. \A v \in Writers : Job(v)' = Job(v) BY DEF Commit, Job
<1>1. \A v \in Writers : Counted(v)'
  BY <1>0 DEF GInv, TypeOK, CInv, Counted, Commit
<1>2. CountsAreCeiling'
  BY <1>0 DEF GInv, TypeOK, CInv, Counted, CountsAreCeiling, Commit
<1> QED BY <1>1, <1>2 DEF CInv

\* Every other step only carries an outcome on.
LEMMA RestCounts ==
  ASSUME GInv, CInv, NEW w \in Writers,
         \/ Poll(w) \/ Lock(w) \/ Recheck(w) \/ Begin(w) \/ Unwind(w) \/ Unlock(w)
         \/ \E v \in Writers : Reply(w, v)
  PROVE  CInv'
<1> USE DEF Waiting, Outcomes, Batch
<1>0. /\ \A v \in Writers : Job(v)' = Job(v)
      /\ calls' = calls /\ db' = db /\ counted' = counted
  BY DEF Poll, Lock, Recheck, Begin, Unwind, Unlock, Reply, Job
<1>1. /\ \A v \in Writers : job'[v] \in {job[v], "taken", "err", "none"}
      /\ \A v \in Writers : job'[v] = "taken" => job[v] \in {"queued", "taken"}
  BY DEF GInv, TypeOK, Poll, Lock, Recheck, Begin, Unwind, Unlock, Reply
<1>2. \A v \in Writers : chan'[v] = "rejected" => "rejected" \in {chan[v], job[v]}
  BY DEF GInv, TypeOK, Poll, Lock, Recheck, Begin, Unwind, Unlock, Reply
<1>3. \A v \in Writers : pc'[v] = "rejected" => "rejected" \in {pc[v], chan[v]}
  BY DEF GInv, TypeOK, Poll, Lock, Recheck, Begin, Unwind, Unlock, Reply
<1>4. \A v \in Writers : Counted(v)'
  BY <1>0, <1>1, <1>2 DEF CInv, Counted
<1>5. CountsAreCeiling'
  BY <1>0, <1>3 DEF CInv, Counted, CountsAreCeiling
<1> QED BY <1>4, <1>5 DEF CInv

\* The outcome counters are a ceiling of what was committed, for any number of
\* writers: no failure loses a count and no refused job has one.
THEOREM CountsHold == Safety => []CountsAreCeiling
<1>1. Init => CInv
  BY DEF Init, CInv, Counted, CountsAreCeiling
<1>2. GInv /\ CInv /\ [Next]_vars => CInv'
  <2> SUFFICES ASSUME GInv, CInv, [Next]_vars PROVE CInv' OBVIOUS
  <2>1. ASSUME NEW w \in Writers, Call(w) \/ Poll(w) \/ Lock(w) \/ Recheck(w) \/ Lead(w)
        PROVE  CInv'
    BY <2>1, CallCounts, RunJobCounts, CommitCounts, RestCounts DEF Lead
  <2>2. CASE SoloLock \/ SoloUnlock \/ UNCHANGED vars
    BY <2>2 DEF SoloLock, SoloUnlock, vars, CInv, Counted, CountsAreCeiling, Job
  <2> QED BY <2>1, <2>2 DEF Next
<1>3. CInv => CountsAreCeiling BY DEF CInv
<1> QED BY <1>1, <1>2, <1>3, GroupInductive, PTL DEF Safety

-----------------------------------------------------------------------------
(* Refinement of AtomicWrites *)

\* What the caller sees of pc.
Seen(p) == IF p = "idle" THEN "idle" ELSE IF p \in Waiting THEN "waiting"
           ELSE IF p = "ok" THEN "ok" ELSE "refused"
State == [w \in Writers |-> Seen(pc[w])]

\* A step that leaves pc of w alone, or moves it within the loop, is not seen.
LEMMA Unseen ==
  ASSUME GInv, NEW w \in Writers, NEW p \in Waiting, pc[w] \in Waiting,
         pc' = [pc EXCEPT ![w] = p]
  PROVE  State' = State
  BY DEF State, Seen, GInv, TypeOK, Waiting

\* A waiting caller returns with p, which must say whether its job is durable.
LEMMA SeenReturn ==
  ASSUME GInv, NEW w \in Writers, NEW p \in Outcomes, pc[w] \in Waiting,
         pc' = [pc EXCEPT ![w] = p], p = "ok" <=> Job(w) \in db,
         calls' = calls, db' = db
  PROVE  Promise!Return(w)
<1>1. State' = [State EXCEPT ![w] = IF Job(w) \in db THEN "ok" ELSE "refused"]
  BY Zenon DEF State, Seen, GInv, TypeOK, Waiting, Outcomes
<1>2. State[w] = "waiting" BY DEF State, Seen, Waiting
<1> QED BY <1>1, <1>2 DEF Promise!Return, Promise!Job, Job, State, Seen

\* Every step of group commit is a step of the promise or changes nothing of it.
LEMMA StepRefines ==
  ASSUME GInv, GInv', [Next]_vars
  PROVE  [Promise!Next]_(Promise!vars)
<1> DEFINE Same == State' = State /\ calls' = calls /\ db' = db
<1>0. Same => UNCHANGED Promise!vars
  BY DEF State, Seen, Promise!vars
<1>1. ASSUME NEW w \in Writers, Call(w) PROVE Promise!Call(w)
  <2>1. State' = [State EXCEPT ![w] = "waiting"] /\ State[w] # "waiting"
    BY <1>1, Zenon DEF Call, State, Seen, GInv, TypeOK, Waiting
  <2> QED BY <1>1, <2>1 DEF Call, Promise!Call, State, Seen
<1>2. ASSUME NEW w \in Writers, Poll(w) PROVE Same \/ Promise!Return(w)
  <2>1. pc[w] \in Waiting /\ calls' = calls /\ db' = db BY <1>2 DEF Poll, Waiting
  <2>2. CASE chan[w] = "empty"
    <3>1. "lock" \in Waiting /\ pc' = [pc EXCEPT ![w] = "lock"] BY <1>2, <2>2 DEF Poll, Waiting
    <3> QED BY <2>1, <3>1, Unseen, Zenon
  <2>3. CASE chan[w] # "empty"
    <3> DEFINE p == IF chan[w] = "closed" THEN "err" ELSE chan[w]
    <3>1. pc' = [pc EXCEPT ![w] = p] BY <1>2, <2>3 DEF Poll
    <3>2. p \in Outcomes /\ (p = "ok" <=> chan[w] = "ok")
      BY <2>3 DEF GInv, TypeOK, Outcomes
    <3>3. chan[w] = "ok" <=> Job(w) \in db
      BY <1>2, <2>1, <2>3 DEF GInv, TypeOK, Stage, Outcomes
    <3> HIDE DEF p
    <3> QED BY <2>1, <3>1, <3>2, <3>3, SeenReturn, Zenon
  <2> QED BY <2>2, <2>3
<1>3. ASSUME NEW w \in Writers, Lock(w) PROVE Same
  <2>1. "recheck" \in Waiting /\ pc[w] \in Waiting BY <1>3 DEF Lock, Waiting
  <2> QED BY <1>3, <2>1, Unseen, Zenon DEF Lock
<1>4. ASSUME NEW w \in Writers, Recheck(w) PROVE Same \/ Promise!Return(w)
  <2>1. pc[w] \in Waiting /\ calls' = calls /\ db' = db /\ "poll" \in Waiting /\ "begin" \in Waiting
    BY <1>4 DEF Recheck, Waiting
  <2>2. CASE chan[w] \in Outcomes
    <3>1. pc' = [pc EXCEPT ![w] = chan[w]] BY <1>4, <2>2 DEF Recheck
    <3>2. chan[w] = "ok" <=> Job(w) \in db
      BY <1>4, <2>1, <2>2 DEF GInv, TypeOK, Stage, Outcomes
    <3> QED BY <2>1, <2>2, <3>1, <3>2, SeenReturn, Zenon
  <2>3. CASE chan[w] \notin Outcomes
    BY <1>4, <2>1, <2>3, Unseen DEF Recheck
  <2> QED BY <2>2, <2>3
<1>5. ASSUME NEW w \in Writers, Begin(w) PROVE Same
  <2>1. pc[w] \in Waiting /\ "run" \in Waiting /\ "reply" \in Waiting BY <1>5 DEF Begin, Waiting
  <2> QED BY <1>5, <2>1, Unseen DEF Begin
<1>6. ASSUME NEW w \in Writers, NEW v \in Writers, RunJob(w, v) \/ Reply(w, v) PROVE Same
  BY <1>6 DEF RunJob, Reply, State
<1>7. ASSUME NEW w \in Writers, Unwind(w) PROVE Promise!Return(w)
  <2>1. pc[w] \in Waiting /\ "err" \in Outcomes BY <1>7 DEF Unwind, Waiting, Outcomes
  <2>2. Job(w) \notin db
    BY <1>7 DEF GInv, AnswerIsTrue, Unwind, TypeOK, Job
  <2> QED BY <1>7, <2>1, <2>2, SeenReturn, Zenon DEF Unwind
<1>8. ASSUME NEW w \in Writers, Commit(w) PROVE Same \/ Promise!Next
  <2>1. pc[w] \in Waiting /\ "reply" \in Waiting BY <1>8 DEF Commit, Waiting
  <2>2. State' = State BY <1>8, <2>1, Unseen, Zenon DEF Commit
  <2>3. CASE db' = db BY <1>8, <2>2, <2>3 DEF Commit
  <2>4. CASE db' = db \cup {Job(v) : v \in {u \in Writers : job[u] = "ok"}}
    <3> DEFINE S == {u \in Writers : job[u] = "ok"}
    <3>1. \A u \in S : State[u] = "waiting"
      BY DEF GInv, Stage, State, Seen, Outcomes, Waiting
    <3>2. Promise!Apply(S)
      BY <1>8, <2>2, <2>4, <3>1 DEF Commit, Promise!Apply, Promise!Job, Job, State, Seen
    <3>3. S \in SUBSET Writers OBVIOUS
    <3> QED BY <3>2, <3>3 DEF Promise!Next
  <2> QED BY <1>8, <2>3, <2>4 DEF Commit
<1>9. ASSUME NEW w \in Writers, Unlock(w) PROVE Same
  <2>1. pc[w] \in Waiting /\ "poll" \in Waiting BY <1>9 DEF Unlock, Waiting
  <2> QED BY <1>9, <2>1, Unseen, Zenon DEF Unlock
<1>10. ASSUME SoloLock \/ SoloUnlock \/ UNCHANGED vars PROVE Same
  BY <1>10 DEF SoloLock, SoloUnlock, vars, State
<1> HIDE DEF Same
<1>11. ASSUME NEW w \in Writers, Lead(w) PROVE Same \/ Promise!Next
  BY <1>11, <1>5, <1>6, <1>7, <1>8, <1>9 DEF Lead, Promise!Next
<1>12. Same \/ Promise!Next
  BY <1>1, <1>2, <1>3, <1>4, <1>10, <1>11 DEF Next, Promise!Next
<1> QED BY <1>0, <1>12

\* Group commit implements the promise AtomicWrites makes to each caller.
THEOREM Refinement == Safety => Promise!Safety
<1>1. Init => Promise!Init
  BY DEF Init, Promise!Init
<1> QED BY <1>1, GroupInductive, StepRefines, PTL DEF Safety, Promise!Safety

=============================================================================
