---------------------------- MODULE Integration ----------------------------
(***************************************************************************)
(* Integration (forge-api/src/integration.rs, refs.rs, import.rs and       *)
(* authority.rs): merge, resolve, seal, import, branch, inbox push and     *)
(* grant, by several callers on one catalog.  A call reads the catalog,    *)
(* computes on what it read and then runs one transaction of RefLedger;    *)
(* another caller may run between any two of these steps.                  *)
(*                                                                         *)
(* Commits, conflicts and snapshots are stored under fresh oids, except    *)
(* that an equal conflict is the same object (a commit and a snapshot      *)
(* carry a timestamp).  A call that is refused returns to idle; the        *)
(* objects it stored stay.  The algorithms over trees and the walks over   *)
(* the object graph are parameters; module IntegrationTrees defines them.  *)
(***************************************************************************)
EXTENDS RefLedger, Ancestry, Caps, FiniteSets

CONSTANTS
  Callers,       \* concurrent calls, each with a capability of its own
  FiledUnder,    \* FiledUnder[c]: the ref in conflicts/<ref>/<ulid>
  ResolutionOf,  \* ResolutionOf[c]: resolutions/<ulid> of that ulid
  Histories,     \* bound: <<base, ours, theirs>> trees the checks start from
  Played,        \* bound: the histories on which calls are made
  Sources,       \* bound: trees of import_dir and of resolve --tree
  Topics,        \* <<t1, t2>>: two heads that start one commit after main
  Branched, Imported,   \* bound: refs that branch and import write
  Targets,       \* bound: <<into, from>> of merge
  Attenuations,  \* bound: caveats a caller adds to its own capability
  CapOf,         \* CapOf[k]: the capability k starts with
  Now,           \* now_ms
  Absent,        \* the base of a merge without one
  Merged(_, _, _),           \* auto_merge_tree: a tree and the unresolved paths
  InScope(_, _, _, _, _),    \* what `resolve --tree` accepts of a conflict
  ProvenanceScope(_, _, _, _), \* verified_provenance_scope of a commit and a tree
  MaxCalls       \* bound: calls made

VARIABLES
  commits,   \* commits[c]: the object, or NoObject
  conflicts, \* conflicts[o]: the object, or NoObject
  snaps,     \* snaps[o]: the object, or NoObject
  cap,       \* cap[k]: the capability k presents
  job,       \* job[k]: what the call of k knows
  calls      \* calls made

objects == <<commits, conflicts, snaps>>
ivars   == <<refs, reflog, seals, landmarks, intro, live, spec,
             commits, conflicts, snaps, cap, job, calls>>

ASSUME IntegrationConstants ==
  /\ FiledUnder \in [Conflicts -> Names] /\ ResolutionOf \in [Conflicts -> Resolutions]
  /\ \A c, d \in Conflicts : ResolutionOf[c] = ResolutionOf[d] => c = d
  /\ Topics \in Heads \X Heads /\ Topics[1] # Topics[2] /\ Main \notin {Topics[1], Topics[2]}
  /\ Commits \subseteq Nat /\ {First + 1, First + 2} \subseteq Commits
  /\ \A c \in Commits : First <= c
  /\ Played \subseteq Histories /\ MaxCalls \in Nat
  /\ Branched \cup Imported \subseteq Names /\ Targets \subseteq Names \X Names /\ Sessions = {}
  /\ CapOf \in [Callers -> Cap] /\ Attenuations \subseteq Seq(Caveat)

\* Callers branch, import and merge to refs they name themselves; the names below
\* resolutions/ are generated.
ASSUME CallerNames ==
  (Branched \cup Imported \cup {t[1] : t \in Targets}) \cap Resolutions = {}

-----------------------------------------------------------------------------
(* Objects *)

NoObject == [none |-> TRUE]
Idle     == [at |-> "idle"]

Commit(tree, parents, msg) == [tree |-> tree, parents |-> parents, msg |-> msg]
Stored(c)  == commits[c] # NoObject
Parents    == [c \in {d \in Commits : Stored(d)} |-> commits[c].parents]
Ancestors(c) == AncestorMap(Parents, c)
Objects    == [commits |-> commits, conflicts |-> conflicts, snaps |-> snaps]

\* An oid no object has; the least one stands for any.
Fresh(o, table) == /\ table[o] = NoObject
                   /\ \A p \in DOMAIN table : table[p] = NoObject => o <= p

\* The trees the behaviour started from.
Base   == commits[First].tree
Ours   == commits[First + 1].tree
Theirs == commits[First + 2].tree

Busy(k, at)  == job[k].at = at
Ready(k)     == Busy(k, "idle") /\ calls < MaxCalls /\ <<Base, Ours, Theirs>> \in Played
Begin(k, j)  == job' = [job EXCEPT ![k] = j] /\ calls' = calls + 1
Go(k, j)     == job' = [job EXCEPT ![k] = j] /\ UNCHANGED calls
NoCatalog    == UNCHANGED vars
Kept         == UNCHANGED <<objects, cap>>

-----------------------------------------------------------------------------
(* authority.rs *)

Can(k, op, n) == Verify(cap[k]) /\ Allows(cap[k], op, n, Now)

\* grant: the caller goes on with the attenuated capability.
Grant(k, extra) ==
  /\ Ready(k) /\ cap[k] = CapOf[k] /\ Can(k, "grant", NoRef)
  /\ Len(cap[k].caveats) + Len(extra) <= MaxCaveats
  /\ cap' = [cap EXCEPT ![k] = AttenuateHolder(@, extra)]
  /\ NoCatalog /\ UNCHANGED <<objects, job, calls>>

\* Faulty variant: a protected ref asks for no more than any other.
MayMoveAsWriter(k, row, n) == Can(k, "write", n)

\* A protected ref takes merge authority, any other write authority.
MayMove(k, row, n) == IF row.protected THEN Can(k, "merge", n) ELSE Can(k, "write", n)

-----------------------------------------------------------------------------
(* peel_commit: a ref of a commit, or of a snapshot that names one *)

Peelable(n) == Exists(n) /\ refs[n].kind \in {"commit", "snapshot"}
PeelCommit(n) == IF refs[n].kind = "snapshot" THEN snaps[refs[n].oid].commit ELSE refs[n].oid

Branch(k, from, n) ==
  /\ Ready(k) /\ Can(k, "branch", n) /\ Can(k, "read", from) /\ Peelable(from)
  /\ Begin(k, [at |-> "branch", into |-> n, oid |-> PeelCommit(from)])
  /\ NoCatalog /\ Kept

BranchInsert(k) ==
  LET j == job[k] IN
  /\ Busy(k, "branch") /\ Go(k, Idle) /\ Kept
  /\ IF Exists(j.into) THEN NoCatalog ELSE InsertRef(j.into, "commit", j.oid)

-----------------------------------------------------------------------------
(* import_dir_with *)

\* The ref is read before the directory; a missing ref will be created.
Import(k, n) ==
  /\ Ready(k) /\ Can(k, "write", n) /\ (Exists(n) => refs[n].kind = "commit")
  /\ Begin(k, [at |-> "import", into |-> n, row |-> refs[n]])
  /\ NoCatalog /\ Kept

ImportTree(k, tree) ==
  LET j == job[k]
      parents == IF j.row.oid = NoOid THEN <<>> ELSE <<j.row.oid>> IN
  /\ Busy(k, "import")
  /\ \E c \in Commits : /\ Fresh(c, commits)
                        /\ commits' = [commits EXCEPT ![c] = Commit(tree, parents, "import")]
                        /\ Go(k, [at |-> "publish", into |-> j.into, expected |-> j.row.oid,
                                  commit |-> c, allow |-> FALSE])
  /\ NoCatalog /\ UNCHANGED <<conflicts, snaps, cap>>

-----------------------------------------------------------------------------
(* merge *)

Merge(k, into, from) ==
  /\ Ready(k) /\ Exists(into) /\ refs[into].kind = "commit"
  /\ MayMove(k, refs[into], into) /\ Can(k, "read", from)
  /\ Begin(k, [at |-> "merge", into |-> into, from |-> from, row |-> refs[into]])
  /\ NoCatalog /\ Kept

\* put_conflict: an equal conflict is the object already stored.
PutConflict(k, into, body) ==
  /\ \E o \in ConflictObjs :
       /\ IF \E p \in ConflictObjs : conflicts[p] = body
          THEN conflicts[o] = body ELSE Fresh(o, conflicts)
       /\ conflicts' = [conflicts EXCEPT ![o] = body]
       /\ Go(k, [at |-> "file", into |-> into, oid |-> o])
  /\ UNCHANGED <<commits, snaps>>

\* Everything after the second read, on the two commits it read: several bases
\* are a conflict without paths, one or none is merged.
MergeOnto(k, into, expected, allow, theirs) ==
  LET bases == MergeBases(Parents, expected, theirs)
      base  == IF bases = {} THEN Absent ELSE commits[CHOOSE c \in bases : TRUE].tree
      a     == commits[expected].tree
      b     == commits[theirs].tree
      m     == Merged(base, a, b)
      body(g, paths) == [bases |-> g, ours |-> a, theirs |-> b, paths |-> paths,
                         causal |-> <<expected, theirs>>]
  IN  IF Cardinality(bases) > 1
      THEN PutConflict(k, into, body({commits[c].tree : c \in bases}, {}))
      ELSE IF m.paths # {}
      THEN PutConflict(k, into, body({base} \ {Absent}, m.paths))
      ELSE /\ \E c \in Commits :
                /\ Fresh(c, commits)
                /\ commits' = [commits EXCEPT ![c] = Commit(m.tree, <<expected, theirs>>, "merge")]
                /\ Go(k, [at |-> "publish", into |-> into, expected |-> expected,
                          commit |-> c, allow |-> allow])
           /\ UNCHANGED <<conflicts, snaps>>

MergePeel(k) ==
  LET j == job[k] IN
  /\ Busy(k, "merge") /\ Peelable(j.from)
  /\ MergeOnto(k, j.into, j.row.oid, j.row.protected, PeelCommit(j.from))
  /\ NoCatalog /\ UNCHANGED cap

MergePeelFails(k) ==
  /\ Busy(k, "merge") /\ ~Peelable(job[k].from)
  /\ Go(k, Idle) /\ NoCatalog /\ Kept

\* insert_ref under a fresh ulid; the caller is told MergeConflict.
FileConflict(k) ==
  LET j == job[k] IN
  /\ Busy(k, "file")
  /\ \E c \in Conflicts : FiledUnder[c] = j.into /\ Unused(c) /\ InsertRef(c, "conflict", j.oid)
  /\ Go(k, Idle) /\ Kept

\* Faulty variant: the swap expects the tip the ref has by now.
PublishOverTip(k) ==
  LET j == job[k]  n == j.into IN
  /\ Busy(k, "publish")
  /\ IF Retired(n) \/ (Exists(n) /\ ~Movable(n, "commit", j.allow))
     THEN NoCatalog
     ELSE CasRef(n, "commit", refs[n].oid, j.commit, j.allow)
  /\ Go(k, Idle) /\ Kept

\* cas_ref_with_intros of import and merge: moved, created, forked or refused.
Publish(k) ==
  LET j == job[k]  n == j.into IN
  /\ Busy(k, "publish")
  /\ IF Retired(n) \/ (Exists(n) /\ ~Movable(n, "commit", j.allow))
     THEN NoCatalog
     ELSE CasRef(n, "commit", j.expected, j.commit, j.allow)
  /\ Go(k, Idle) /\ Kept

-----------------------------------------------------------------------------
(* resolve *)

\* ResolveChoice.
Choices == [side : {"ours", "theirs"}, tree : {Absent}] \cup [side : {"tree"}, tree : Sources]

ResolveCall(k, o, into, choice) ==
  /\ Ready(k) /\ Exists(into) /\ refs[into].kind = "commit"
  /\ MayMove(k, refs[into], into) /\ conflicts[o] # NoObject
  /\ Begin(k, [at |-> "resolve", into |-> into, row |-> refs[into], oid |-> o, choice |-> choice])
  /\ NoCatalog /\ Kept

Filed(c, o, into) == /\ FiledUnder[c] = into /\ Exists(c)
                     /\ refs[c].kind = "conflict" /\ refs[c].oid = o

\* Faulty variant: a scoped tree is taken as it is.
AcceptedUnscoped(body, tree) == TRUE

\* Ours and theirs are whole trees.  Any other tree has to stay inside the
\* conflict's paths, and a conflict of several bases has none.
Accepted(body, tree) ==
  \/ tree \in {body.ours, body.theirs} /\ body.paths = {}
  \/ /\ body.paths # {} /\ Cardinality(body.bases) <= 1
     /\ InScope(IF body.bases = {} THEN Absent ELSE CHOOSE g \in body.bases : TRUE,
                body.ours, body.theirs, body.paths, tree)

\* list_refs finds the conflict, its causal pair has to name the tip read first.
ResolveFind(k) ==
  LET j == job[k]  body == conflicts[j.oid]
      tree == IF j.choice.side = "ours" THEN body.ours
              ELSE IF j.choice.side = "theirs" THEN body.theirs ELSE j.choice.tree
      scoped == j.choice.side = "tree" => Accepted(body, tree)
      found == {c \in Conflicts : Filed(c, j.oid, j.into)}
      causal == \E i \in 1..2 : body.causal[i] = j.row.oid IN
  /\ Busy(k, "resolve") /\ NoCatalog
  /\ IF found # {} /\ causal /\ scoped
     THEN /\ \E c \in found, n \in Commits :
               /\ Fresh(n, commits)
               /\ commits' = [commits EXCEPT ![n] = Commit(tree, body.causal, "resolve")]
               /\ Go(k, [at |-> "bind", into |-> j.into, expected |-> j.row.oid, commit |-> n,
                         ref |-> c, oid |-> j.oid, allow |-> j.row.protected])
          /\ UNCHANGED <<conflicts, snaps, cap>>
     ELSE Go(k, Idle) /\ Kept

\* publish_resolution: all three refs or none.
ResolveBind(k) ==
  LET j == job[k]  n == j.into  r == ResolutionOf[j.ref] IN
  /\ Busy(k, "bind")
  /\ IF \/ ~Movable(n, "commit", j.allow) \/ refs[n].oid # j.expected
        \/ ~Movable(j.ref, "conflict", FALSE) \/ refs[j.ref].oid # j.oid
        \/ Exists(r) \/ Retired(r)
     THEN NoCatalog
     ELSE PublishResolution(n, j.expected, j.commit, j.ref, j.oid, r, j.allow)
  /\ Go(k, Idle) /\ Kept

-----------------------------------------------------------------------------
(* seal, verify_tag and inbox_push *)

\* The snapshot is built from the row read here, and signed with a manifest of
\* everything in its tree.
Seal(k, n, t) ==
  LET c == refs[n].oid  scope == ProvenanceScope(Objects, c, commits[c].tree, {}) IN
  /\ Ready(k) /\ Can(k, "seal", n) /\ Can(k, "seal", t)
  /\ Exists(n) /\ refs[n].kind = "commit" /\ scope.answer = "ok"
  /\ \E o \in Snapshots :
       /\ Fresh(o, snaps)
       /\ snaps' = [snaps EXCEPT ![o] = [tag |-> t, commit |-> c, tree |-> commits[c].tree,
                                         prov |-> scope.ids]]
       /\ Begin(k, [at |-> "seal", ref |-> n, tag |-> t, oid |-> o, commit |-> c])
  /\ NoCatalog /\ UNCHANGED <<commits, conflicts, cap>>

\* Faulty variant: the transaction takes the commit the ref holds by now.
SealTagLate(k) ==
  LET j == job[k] IN
  /\ Busy(k, "seal") /\ Exists(j.ref) /\ ~Exists(j.tag)
  /\ CommitSeal(j.tag, j.oid, j.ref, refs[j.ref].oid)
  /\ Go(k, Idle) /\ Kept

SealTag(k) ==
  LET j == job[k] IN
  /\ Busy(k, "seal")
  /\ IF Exists(j.tag) \/ ~Exists(j.ref) \/ refs[j.ref].oid # j.commit
     THEN NoCatalog ELSE CommitSeal(j.tag, j.oid, j.ref, j.commit)
  /\ Go(k, Idle) /\ Kept

\* verify_tag: the tag, its seals row, the snapshot and the commit agree, and
\* the manifest lists exactly what the walks find.  The signature holds for
\* every stored snapshot.
VerifyTag(t, lost) ==
  LET s == seals[t]  o == snaps[s.snap]
      scope == ProvenanceScope(Objects, s.commit, o.tree, lost) IN
  /\ refs[t].oid = s.snap /\ refs[t].kind = "snapshot" /\ refs[t].protected /\ refs[t].sealed
  /\ o # NoObject /\ <<"snapshot", s.snap>> \notin lost /\ o.tag = t /\ o.commit = s.commit
  /\ Stored(o.commit) /\ commits[o.commit].tree = o.tree
  /\ <<"blob", o.prov>> \notin lost
  /\ scope.answer = "ok" /\ scope.ids = o.prov

InboxPush(k, from, n) ==
  /\ Ready(k) /\ Can(k, "read", from) /\ Can(k, "write", n)
  /\ Exists(from) /\ refs[from].kind = "snapshot"
  /\ Begin(k, [at |-> "push", into |-> n, oid |-> refs[from].oid])
  /\ NoCatalog /\ Kept

\* cas_ref expecting no row: a second push of the task forks.
InboxStore(k) ==
  LET j == job[k] IN
  /\ Busy(k, "push") /\ CasRef(j.into, "snapshot", NoOid, j.oid, FALSE)
  /\ Go(k, Idle) /\ Kept

Abandon(n) == AbandonRef(n) /\ UNCHANGED <<objects, cap, job, calls>>

-----------------------------------------------------------------------------
(* The specification.  History up to First is elided: main holds the base of a *)
(* member of Histories and each topic one commit on top of it.                 *)

Call(k) ==
  \/ \E extra \in Attenuations : Grant(k, extra)
  \/ \E n \in Branched : Branch(k, Main, n)
  \/ \E n \in Imported : Import(k, n)
  \/ \E t \in Targets : Merge(k, t[1], t[2])
  \/ \E o \in ConflictObjs, n \in {t[1] : t \in Targets}, choice \in Choices :
       ResolveCall(k, o, n, choice)
  \/ \E t \in Tags, n \in {Main, Topics[1]} : Seal(k, n, t)
  \/ \E t \in Tags, n \in Inbox : InboxPush(k, t, n)

Step(k) ==
  \/ BranchInsert(k)
  \/ \E tree \in Sources : ImportTree(k, tree)
  \/ MergePeel(k) \/ MergePeelFails(k) \/ FileConflict(k) \/ Publish(k)
  \/ ResolveFind(k) \/ ResolveBind(k)
  \/ SealTag(k) \/ InboxStore(k)

IntegrationInit ==
  /\ refs = [n \in Names |->
       IF n = Main THEN [oid |-> First, kind |-> "commit", protected |-> TRUE, sealed |-> FALSE]
       ELSE IF n = Topics[1] THEN Row(First + 1, "commit")
       ELSE IF n = Topics[2] THEN Row(First + 2, "commit") ELSE NoRow]
  /\ reflog = [n \in Names |->
       IF n = Main THEN <<Entry(NoOid, First, "init")>>
       ELSE IF Exists(n) THEN <<Entry(NoOid, First, "insert"), Entry(First, refs[n].oid, "cas")>>
       ELSE <<>>]
  /\ seals = [t \in Tags |-> NoSeal] /\ landmarks = {First}
  /\ intro = [b \in Blobs |-> NoOid] /\ live = [s \in Sessions |-> NoName]
  /\ spec = [s \in Sessions |-> [m \in MountPaths |-> NoName]]
  /\ \E h \in Histories : commits = [c \in Commits |->
       IF c = First THEN Commit(h[1], <<>>, "import")
       ELSE IF c \in {First + 1, First + 2} THEN Commit(h[c - First + 1], <<First>>, "import")
       ELSE NoObject]
  /\ conflicts = [o \in ConflictObjs |-> NoObject]
  /\ snaps = [o \in Snapshots |-> NoObject]
  /\ cap = CapOf /\ job = [k \in Callers |-> Idle] /\ calls = 0

IntegrationNext ==
  \/ \E k \in Callers : Call(k) \/ Step(k)
  \/ \E n \in Forks \cup InboxForks : Abandon(n)

IntegrationSpec == IntegrationInit /\ [][IntegrationNext]_ivars

-----------------------------------------------------------------------------
(* Properties *)

\* I5: a ref never loses a commit.  Between two states a name keeps its value,
\* is created, is retired, or moves to a commit with the old one in its
\* ancestry, whoever else published since the mover read it; inbox and conflict
\* refs never change at all.
RefsMoveForward ==
  [][\A n \in Names : Exists(n) /\ refs'[n].oid \notin {NoOid, refs[n].oid} =>
       /\ refs[n].kind = "commit"
       /\ refs[n].oid \in AncestorMap(Parents', refs'[n].oid)]_ivars

\* docs/CONFLICTS.md: a conflict ref is gone exactly when its resolution ref is
\* there, and the resolution is a commit on both causal parents that the ref the
\* conflict was filed under contains for good.
ResolutionBinds ==
  \A c \in Conflicts : LET r == ResolutionOf[c] IN
    /\ Retired(c) <=> Exists(r)
    /\ Exists(r) =>
         /\ commits[refs[r].oid].parents = conflicts[Last(reflog[c]).old].causal
         /\ Exists(FiledUnder[c]) => refs[r].oid \in Ancestors(refs[FiledUnder[c]].oid)

\* A protected ref is moved only by a caller whose capability allows merge on
\* it, in every interleaving with the calls of others.
ProtectedNeedsMerge ==
  [][\A n \in Names : refs[n].protected /\ refs'[n] # refs[n] =>
       \E k \in Callers : /\ job[k].at \in {"publish", "bind"} /\ job[k].into = n
                          /\ job'[k] = Idle /\ Can(k, "merge", n)]_ivars

\* I13: an attenuated capability still verifies and allows nothing that the one
\* it was made from does not.
GrantsNarrow ==
  [][\A k \in Callers : cap'[k] # cap[k] =>
       /\ Verify(cap'[k])
       /\ \A op \in Ops, n \in RefNames \cup {NoRef}, now \in {Now, Now + 1} :
            Allows(cap'[k], op, n, now) => Allows(cap[k], op, n, now)
       /\ HasUnrestrictedRefScope(cap'[k]) => HasUnrestrictedRefScope(cap[k])]_ivars
=============================================================================
