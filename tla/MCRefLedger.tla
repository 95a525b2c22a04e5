----------------------------- MODULE MCRefLedger -----------------------------
(* Small ledgers for TLC: one with the ref classes that are published and     *)
(* retired, one with a session, its mounts and the inbox.                      *)
EXTENDS RefLedger

CONSTANTS c0, c1, b1, h1

MCIntroduces == [c \in {c0, c1} |-> IF c = c1 THEN {b1} ELSE {}]
MCLiveRef == [s \in Sessions |-> h1]
=============================================================================
