---------------------------- MODULE MCBarrierGate ----------------------------
(* Three threads that finish two batches each.                               *)
EXTENDS BarrierGate
=============================================================================
