-------------------------- MODULE BarrierGateProofs --------------------------
(***************************************************************************)
(* The shared barrier acknowledges only what it made durable, for any      *)
(* number of threads and batches.                                          *)
(*                                                                         *)
(* The invariant is the ordering argument of FsBarrier::wait: a generation *)
(* that has reached a thread's target entered the kernel after the target  *)
(* was read, hence after the thread's writes.                              *)
(***************************************************************************)
EXTENDS BarrierGate, TLAPS

Lead == {"sync", "syncing", "synced", "failed"}
Targeted == {"loop", "parked"} \cup Lead

\* What reaching the target of c proves, by the stage of the leader.
Ordered(c) ==
  pc[c] \in Targeted =>
    /\ target[c] <= completed + 2
    /\ completed >= target[c] => c \in durable
    /\ inFlight >= target[c] =>
         \A d \in Callers : /\ pc[d] = "syncing" => c \in covered
                            /\ pc[d] = "synced" => c \in durable

BInv ==
  /\ TypeOK
  /\ OneLeader
  /\ inFlight # 0 => \E d \in Callers : pc[d] \in Lead
  /\ (\E c \in Callers : pc[c] = "parked") => inFlight # 0
  /\ OkMeansDurable
  /\ \A c \in Callers : Ordered(c)

\* The idle store satisfies the invariant.
LEMMA InitBInv == Init => BInv
<1> SUFFICES ASSUME Init PROVE BInv OBVIOUS
<1>1. TypeOK BY CallBound DEF Init, TypeOK, Returned
<1> QED BY <1>1 DEF Init, BInv, OneLeader, OkMeansDurable, Ordered, Targeted, Lead

\* A thread writes: its earlier durability is forgotten.
LEMMA WriteKeeps ==
  ASSUME BInv, NEW c \in Callers, Write(c)
  PROVE  BInv'
<1> USE CallBound DEF Returned, Writing, Lead, Targeted
<1>1. TypeOK' BY DEF BInv, TypeOK, Write
<1>2. OneLeader' BY DEF BInv, TypeOK, OneLeader, Write
<1>3. inFlight' # 0 => \E d \in Callers : pc'[d] \in Lead BY DEF BInv, TypeOK, Write
<1>4. (\E d \in Callers : pc'[d] = "parked") => inFlight' # 0 BY DEF BInv, TypeOK, Write
<1>5. OkMeansDurable' BY DEF BInv, TypeOK, OkMeansDurable, Write
<1>6. \A d \in Callers : Ordered(d)' BY DEF BInv, TypeOK, Ordered, Write
<1> QED BY <1>1, <1>2, <1>3, <1>4, <1>5, <1>6 DEF BInv

\* A thread reads its target: no generation has reached it.
LEMMA ReadTargetKeeps ==
  ASSUME BInv, NEW c \in Callers, ReadTarget(c)
  PROVE  BInv'
<1> USE CallBound DEF Returned, Writing, Lead, Targeted
<1>1. TypeOK' BY DEF BInv, TypeOK, ReadTarget
<1>2. OneLeader' BY DEF BInv, TypeOK, OneLeader, ReadTarget
<1>3. inFlight' # 0 => \E d \in Callers : pc'[d] \in Lead BY DEF BInv, TypeOK, ReadTarget
<1>4. (\E d \in Callers : pc'[d] = "parked") => inFlight' # 0 BY DEF BInv, TypeOK, ReadTarget
<1>5. OkMeansDurable' BY DEF BInv, TypeOK, OkMeansDurable, ReadTarget
<1>6. target'[c] > completed /\ target'[c] > inFlight /\ target'[c] <= completed + 2
  BY DEF BInv, TypeOK, OneLeader, ReadTarget
<1>7. \A d \in Callers : Ordered(d)' BY <1>6 DEF BInv, TypeOK, Ordered, ReadTarget
<1> QED BY <1>1, <1>2, <1>3, <1>4, <1>5, <1>7 DEF BInv

\* A thread returns, parks, or leads a generation that has not begun to sync.
LEMMA LoopKeeps ==
  ASSUME BInv, NEW c \in Callers, Loop(c)
  PROVE  BInv'
<1> USE CallBound DEF Returned, Writing, Lead, Targeted
<1>1. TypeOK' BY DEF BInv, TypeOK, Loop
<1>2. OneLeader' BY DEF BInv, TypeOK, OneLeader, Loop
<1>3. inFlight' # 0 => \E d \in Callers : pc'[d] \in Lead BY DEF BInv, TypeOK, Loop
<1>4. (\E d \in Callers : pc'[d] = "parked") => inFlight' # 0 BY DEF BInv, TypeOK, Loop
<1>5. OkMeansDurable' BY DEF BInv, TypeOK, OkMeansDurable, Ordered, Loop
<1>6. \A d \in Callers : Ordered(d)' BY DEF BInv, TypeOK, OneLeader, Ordered, Loop
<1> QED BY <1>1, <1>2, <1>3, <1>4, <1>5, <1>6 DEF BInv

\* syncfs begins: every thread with a target has written.
LEMMA EnterKernelKeeps ==
  ASSUME BInv, NEW c \in Callers, EnterKernel(c)
  PROVE  BInv'
<1> USE CallBound DEF Returned, Writing, Lead, Targeted
<1>1. TypeOK' BY DEF BInv, TypeOK, EnterKernel
<1>2. OneLeader' BY DEF BInv, TypeOK, OneLeader, EnterKernel
<1>3. inFlight' # 0 => \E d \in Callers : pc'[d] \in Lead BY DEF BInv, TypeOK, EnterKernel
<1>4. (\E d \in Callers : pc'[d] = "parked") => inFlight' # 0 BY DEF BInv, TypeOK, EnterKernel
<1>5. OkMeansDurable' BY DEF BInv, TypeOK, OkMeansDurable, EnterKernel
<1>6. \A d \in Callers : Ordered(d)' BY DEF BInv, TypeOK, Ordered, EnterKernel
<1> QED BY <1>1, <1>2, <1>3, <1>4, <1>5, <1>6 DEF BInv

\* syncfs ends: what it covered is durable when it succeeded.
LEMMA LeaveKernelKeeps ==
  ASSUME BInv, NEW c \in Callers, LeaveKernel(c)
  PROVE  BInv'
<1> USE CallBound DEF Returned, Writing, Lead, Targeted
<1>1. TypeOK' BY DEF BInv, TypeOK, LeaveKernel
<1>2. OneLeader' BY DEF BInv, TypeOK, OneLeader, LeaveKernel
<1>3. inFlight' # 0 => \E d \in Callers : pc'[d] \in Lead BY DEF BInv, TypeOK, LeaveKernel
<1>4. (\E d \in Callers : pc'[d] = "parked") => inFlight' # 0 BY DEF BInv, TypeOK, LeaveKernel
<1>5. OkMeansDurable' BY DEF BInv, TypeOK, OkMeansDurable, LeaveKernel
<1>6. \A d \in Callers : Ordered(d)' BY DEF BInv, TypeOK, OneLeader, Ordered, LeaveKernel
<1> QED BY <1>1, <1>2, <1>3, <1>4, <1>5, <1>6 DEF BInv

\* The outcome is published: `completed` advances to a generation whose sync
\* succeeded, or not at all.
LEMMA PublishOutcomeKeeps ==
  ASSUME BInv, NEW c \in Callers, PublishOutcome(c)
  PROVE  BInv'
<1> USE CallBound DEF Returned, Writing, Lead, Targeted
<1>1. TypeOK' BY DEF BInv, TypeOK, PublishOutcome
<1>2. OneLeader' BY DEF BInv, TypeOK, OneLeader, PublishOutcome
<1>3. inFlight' # 0 => \E d \in Callers : pc'[d] \in Lead BY DEF PublishOutcome
<1>4. (\E d \in Callers : pc'[d] = "parked") => inFlight' # 0
  BY DEF BInv, TypeOK, PublishOutcome
<1>5. OkMeansDurable' BY DEF BInv, TypeOK, OkMeansDurable, PublishOutcome
<1>6. \A d \in Callers : Ordered(d)'
  BY DEF BInv, TypeOK, OneLeader, Ordered, PublishOutcome
<1> QED BY <1>1, <1>2, <1>3, <1>4, <1>5, <1>6 DEF BInv

\* The invariant holds in every reachable state.
THEOREM BarrierInductive == Safety => []BInv
<1>1. BInv /\ [Next]_vars => BInv'
  <2> SUFFICES ASSUME BInv, [Next]_vars PROVE BInv' OBVIOUS
  <2>1. ASSUME NEW c \in Callers, Write(c) \/ Wait(c) PROVE BInv'
    BY <2>1, WriteKeeps, ReadTargetKeeps, LoopKeeps, EnterKernelKeeps, LeaveKernelKeeps,
       PublishOutcomeKeeps DEF Wait
  <2>2. CASE UNCHANGED vars
    BY <2>2 DEF vars, BInv, TypeOK, OneLeader, OkMeansDurable, Ordered
  <2> QED BY <2>1, <2>2 DEF Next
<1> QED BY InitBInv, <1>1, PTL DEF Safety

\* An acknowledged batch is on stable storage.
THEOREM OkIsDurable == Safety => []OkMeansDurable
<1>1. BInv => OkMeansDurable BY DEF BInv
<1> QED BY BarrierInductive, <1>1, PTL

\* One leader at a time, leading the generation after the completed one.
THEOREM SingleLeader == Safety => []OneLeader
<1>1. BInv => OneLeader BY DEF BInv
<1> QED BY BarrierInductive, <1>1, PTL

\* No thread is parked without a leader that will notify it.
THEOREM NobodyParkedAlone == Safety => []ParkedHasLeader
<1>1. BInv => ParkedHasLeader BY DEF BInv, ParkedHasLeader, Lead
<1> QED BY BarrierInductive, <1>1, PTL

\* No thread waits for more than two successful barriers.
THEOREM TwoBarriers == Safety => []AtMostTwoBarriers
<1>1. BInv => AtMostTwoBarriers BY DEF BInv, Ordered, Targeted, AtMostTwoBarriers
<1> QED BY BarrierInductive, <1>1, PTL

\* The gate's counters and the threads' places have their types.
THEOREM BarrierTypes == Safety => []TypeOK
<1>1. BInv => TypeOK BY DEF BInv
<1> QED BY BarrierInductive, <1>1, PTL
=============================================================================
