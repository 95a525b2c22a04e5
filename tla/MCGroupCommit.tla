---------------------------- MODULE MCGroupCommit ----------------------------
(* Three writers calling once, or two calling twice, and transactions outside *)
(* the group.                                                                 *)
EXTENDS GroupCommit
=============================================================================
