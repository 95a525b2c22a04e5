-------------------------------- MODULE Caps --------------------------------
(***************************************************************************)
(* Capabilities (forge-cap/src/lib.rs): a token is a list of caveats under *)
(* a chain of MACs, and holding one with more caveats means less.  The     *)
(* chain is symbolic: hmac(sig, c) is Append(sig, c), so two chains are    *)
(* equal exactly when key, id and caveats are.  A list of ref globs is the *)
(* set of the names it matches.  Token encoding and the agent name of a    *)
(* capability are left out, conflicting agent caveats are not.             *)
(***************************************************************************)
EXTENDS Naturals, Sequences

CONSTANTS
  Ops,         \* read, write, branch, merge, grant, seal
  RefNames,    \* ref names
  NoRef,       \* a check with no ref name
  Agents,      \* values of agent=
  MaxCaveats   \* MAX_CAVEATS

ASSUME CapConstants == NoRef \notin RefNames /\ MaxCaveats \in Nat

\* One record for every caveat; the fields its kind does not use are empty.
Caveat == [kind : {"ops", "allow", "not", "ref", "time", "agent"},
           ops : SUBSET Ops, refs : SUBSET RefNames, time : Nat, agents : SUBSET Agents]

OpsCaveat(S)       == [kind |-> "ops", ops |-> S, refs |-> {}, time |-> 0, agents |-> {}]
AllowCaveat(op, R) == [kind |-> "allow", ops |-> {op}, refs |-> R, time |-> 0, agents |-> {}]
NotCaveat(R)       == [kind |-> "not", ops |-> {}, refs |-> R, time |-> 0, agents |-> {}]
RefCaveat(R)       == [kind |-> "ref", ops |-> {}, refs |-> R, time |-> 0, agents |-> {}]
TimeCaveat(t)      == [kind |-> "time", ops |-> {}, refs |-> {}, time |-> t, agents |-> {}]
AgentCaveat(a)     == [kind |-> "agent", ops |-> {}, refs |-> {}, time |-> 0, agents |-> {a}]

Cap == [id : STRING, caveats : Seq(Caveat), sig : Seq(Caveat)]

\* The caveats of one kind.
OfKind(cap, k) == {c \in {cap.caveats[i] : i \in 1..Len(cap.caveats)} : c.kind = k}

-----------------------------------------------------------------------------
(* parse_caveats and allows *)

\* The intersection of every ops= caveat; none at all grants nothing.
OpsOf(cap) ==
  {op \in Ops : OfKind(cap, "ops") # {} /\ \A c \in OfKind(cap, "ops") : op \in c.ops}

AgentConflict(cap) ==
  \E c, d \in OfKind(cap, "agent") : c.agents # d.agents

Expired(cap, now) == \E c \in OfKind(cap, "time") : now > c.time

Covers(cap, op, name) ==
  /\ \A c \in OfKind(cap, "not") : name \notin c.refs
  /\ \A c \in OfKind(cap, "ref") : name \in c.refs
  /\ \A c \in OfKind(cap, "allow") : op \in c.ops => name \in c.refs

Allows(cap, op, name, now) ==
  /\ ~AgentConflict(cap)
  /\ op \in OpsOf(cap)
  /\ ~Expired(cap, now)
  /\ name # NoRef => Covers(cap, op, name)

HasUnrestrictedRefScope(cap) ==
  OfKind(cap, "ref") \cup OfKind(cap, "allow") \cup OfKind(cap, "not") = {}

-----------------------------------------------------------------------------
(* Minting, attenuating and verifying *)

Mint(id, caveats) == [id |-> id, caveats |-> caveats, sig |-> caveats]

Verify(cap) == cap.sig = cap.caveats

\* Faulty variant: the new caveats replace those of their kind.
AttenuateHolderReplaces(cap, extra) ==
  LET kinds == {extra[i].kind : i \in 1..Len(extra)}
      keep  == SelectSeq(cap.caveats, LAMBDA c : c.kind \notin kinds) IN
  [id |-> cap.id, caveats |-> keep \o extra, sig |-> keep \o extra]

\* The holder extends the chain from the signature it holds.
AttenuateHolder(cap, extra) ==
  [id |-> cap.id, caveats |-> cap.caveats \o extra, sig |-> cap.sig \o extra]

MintRoot == Mint("root", <<OpsCaveat(Ops)>>)
=============================================================================
