------------------------------- MODULE MCFsck -------------------------------
(* One session that loses a race while an online fsck runs. *)
EXTENDS MCSessions, Fsck

MCOneMount == {<< <<"w">>, Shared >>}
MCOnePath  == {<<"w", "x">>}
=============================================================================
