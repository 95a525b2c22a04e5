------------------------------ MODULE RefLedger ------------------------------
(***************************************************************************)
(* The ref ledger of the SQLite catalog (crates/forge-store/src/meta.rs):  *)
(* the tables refs, reflog, seals, landmarks and object_intro, and the two *)
(* columns of other tables that decide whether a ref may be retired        *)
(* (namespaces.live_ref and mounts.spec).                                  *)
(*                                                                         *)
(* Every action is one BEGIN IMMEDIATE transaction; a refused transaction  *)
(* rolls back and leaves no trace, so refusals are the states in which an  *)
(* action is not enabled.  Arguments are arbitrary: the ledger has to be   *)
(* consistent whatever its callers read before they called.                *)
(*                                                                         *)
(* A ref name is a member of the class its prefix puts it in, an oid a     *)
(* member of the type of the object it names.  A generated name carries a  *)
(* fresh ULID: it is drawn from the names that have no reflog row.         *)
(***************************************************************************)
EXTENDS Naturals, Sequences

CONSTANTS
  Heads,        \* main and heads/...
  Forks,        \* forks/... and heads/agents/<agent>/forks/..., kind commit
  InboxForks,   \* forks/inbox/...
  Conflicts,    \* conflicts/...
  Resolutions,  \* resolutions/...
  Inbox,        \* inbox/<agent>/<task>
  Tags,         \* tags/...
  Free,         \* names whose prefix mandates no kind
  Main,         \* the ref `main`
  NoName,       \* SQL: no row
  Commits, Snapshots, ConflictObjs,   \* oids by object type
  Blobs,        \* oids of tree content, the keys of object_intro
  Introduces,   \* Introduces[c]: the content commit c introduces
  NoOid,        \* SQL NULL
  First,        \* the commit `init` publishes
  Sessions,     \* namespace ids
  LiveRef,      \* LiveRef[s]: heads/agents/<agent>/<s>
  MountPaths, Root, MainPath,   \* /, /main and others
  Marked,       \* bound: the objects callers landmark explicitly
  MaxLog        \* bound: reflog rows per name

Names == Heads \cup Forks \cup InboxForks \cup Conflicts \cup Resolutions
           \cup Inbox \cup Tags \cup Free
Kinds == {"commit", "snapshot", "conflict"}
Oids  == Commits \cup Snapshots \cup ConflictObjs
Reasons == {"init", "insert", "session", "cas", "fork", "resolve", "seal", "abandon"}

ASSUME NameClasses ==
  /\ Heads \cap (Forks \cup InboxForks \cup Conflicts \cup Resolutions \cup Inbox \cup Tags \cup Free) = {}
  /\ Forks \cap (InboxForks \cup Conflicts \cup Resolutions \cup Inbox \cup Tags \cup Free) = {}
  /\ InboxForks \cap (Conflicts \cup Resolutions \cup Inbox \cup Tags \cup Free) = {}
  /\ Conflicts \cap (Resolutions \cup Inbox \cup Tags \cup Free) = {}
  /\ Resolutions \cap (Inbox \cup Tags \cup Free) = {}
  /\ Inbox \cap (Tags \cup Free) = {} /\ Tags \cap Free = {}
  /\ Main \in Heads /\ NoName \notin Names
ASSUME OidTypes ==
  /\ Commits \cap Snapshots = {} /\ Commits \cap ConflictObjs = {}
  /\ Snapshots \cap ConflictObjs = {} /\ NoOid \notin Oids /\ First \in Commits
ASSUME SessionNames ==
  /\ LiveRef \in [Sessions -> Heads]
  /\ \A s \in Sessions : LiveRef[s] # Main
  /\ Introduces \in [Commits -> SUBSET Blobs]
  /\ Root \in MountPaths /\ MainPath \in MountPaths /\ Root # MainPath
  /\ Marked \subseteq Oids /\ MaxLog \in Nat

VARIABLES
  refs,       \* refs[n]: the row of n, or NoRow
  reflog,     \* reflog[n]: the rows of n in id order
  seals,      \* seals[t]: the row of tag t, or NoSeal
  landmarks,  \* oids with a landmark row (its kind is the object's type)
  intro,      \* object_intro: intro[b] is the commit that introduced b
  live,       \* live[s]: namespaces.live_ref, NoName when s has no row
  spec        \* spec[s][m]: the ref mounts.spec names, NoName when no row

vars == <<refs, reflog, seals, landmarks, intro, live, spec>>

-----------------------------------------------------------------------------
(* Rows and helpers *)

RefRow == [oid : Oids, kind : Kinds, protected : BOOLEAN, sealed : BOOLEAN]
NoRow  == [oid |-> NoOid, kind |-> "none", protected |-> FALSE, sealed |-> FALSE]
LogRow == [old : Oids \cup {NoOid}, new : Oids, reason : Reasons]
SealRow == [snap : Snapshots, commit : Commits]
NoSeal  == [snap |-> NoOid, commit |-> NoOid]

Row(o, k)         == [oid |-> o, kind |-> k, protected |-> FALSE, sealed |-> FALSE]
Moved(row, o)     == [oid |-> o, kind |-> row.kind,
                      protected |-> row.protected, sealed |-> row.sealed]
Entry(old, new, r) == [old |-> old, new |-> new, reason |-> r]
Last(s)           == s[Len(s)]

Exists(n)  == refs[n].oid # NoOid
Retired(n) == reflog[n] # <<>> /\ Last(reflog[n]).reason = "abandon"
Unused(n)  == reflog[n] = <<>> /\ ~Exists(n)   \* a fresh ULID
HasRoom(n) == Len(reflog[n]) < MaxLog

ObjectsOf(k) == IF k = "commit" THEN Commits
                ELSE IF k = "snapshot" THEN Snapshots ELSE ConflictObjs

KindAllowed(n, k) ==
  /\ n \in Heads \cup Forks \cup Resolutions => k = "commit"
  /\ n \in Tags \cup Inbox \cup InboxForks   => k = "snapshot"
  /\ n \in Conflicts                         => k = "conflict"

IsForkRef(n) == n \in Forks \cup InboxForks

\* `forks/<n>/...` starts with forks/inbox/ exactly when n is an inbox ref; any
\* other fork name mandates a commit, so other kinds cannot fork.
ForkNames(n, k) == IF n \in Inbox THEN InboxForks
                   ELSE IF k = "commit" THEN Forks ELSE {}

Introduce(k, c) ==
  intro' = [b \in Blobs |-> IF /\ intro[b] = NoOid
                               /\ k = "commit" /\ b \in Introduces[c]
                            THEN c ELSE intro[b]]

Held(n) == \/ \E s \in Sessions : live[s] = n
           \/ \E s \in Sessions, m \in MountPaths : spec[s][m] = n

-----------------------------------------------------------------------------
(* The transactions *)

\* Faulty variant: deny_retired is not called.
InsertRefResurrects(n, k, o) ==
  /\ n \notin Tags /\ KindAllowed(n, k) /\ HasRoom(n) /\ ~Exists(n)
  /\ refs'   = [refs EXCEPT ![n] = Row(o, k)]
  /\ reflog' = [reflog EXCEPT ![n] = Append(@, Entry(NoOid, o, "insert"))]
  /\ UNCHANGED <<seals, landmarks, intro, live, spec>>

InsertRef(n, k, o) ==
  /\ n \notin Tags /\ KindAllowed(n, k) /\ HasRoom(n)
  /\ ~Exists(n) /\ ~Retired(n)
  /\ refs'   = [refs EXCEPT ![n] = Row(o, k)]
  /\ reflog' = [reflog EXCEPT ![n] = Append(@, Entry(NoOid, o, "insert"))]
  /\ UNCHANGED <<seals, landmarks, intro, live, spec>>

\* Faulty variant: deny_retired is not called.
CasCreateResurrects(n, k, new) ==
  /\ ~Exists(n)
  /\ refs'   = [refs EXCEPT ![n] = Row(new, k)]
  /\ reflog' = [reflog EXCEPT ![n] = Append(@, Entry(NoOid, new, "cas"))]

CasCreate(n, k, new) ==
  /\ ~Exists(n) /\ ~Retired(n)
  /\ refs'   = [refs EXCEPT ![n] = Row(new, k)]
  /\ reflog' = [reflog EXCEPT ![n] = Append(@, Entry(NoOid, new, "cas"))]

\* Kind is immutable, a sealed ref never moves, a protected one only for a
\* caller that may move it.
Movable(n, k, allowProtected) ==
  /\ Exists(n) /\ refs[n].kind = k /\ ~refs[n].sealed
  /\ refs[n].protected => allowProtected

MoveRef(n, expected, new, reason) ==
  /\ refs'   = [refs EXCEPT ![n] = Moved(@, new)]
  /\ reflog' = [reflog EXCEPT ![n] = Append(@, Entry(expected, new, reason))]

ForkRef(f, k, current, new) ==
  /\ refs'   = [refs EXCEPT ![f] = Row(new, k)]
  /\ reflog' = [reflog EXCEPT ![f] = Append(@, Entry(current, new, "fork"))]

\* Faulty variant: the provenance rows of a refused swap are kept.
CasRefLeaksIntros(n, k, expected, new, allowProtected) ==
  /\ n \notin Tags /\ KindAllowed(n, k) /\ ~Movable(n, k, allowProtected)
  /\ Introduce(k, new)
  /\ UNCHANGED <<refs, reflog, seals, landmarks, live, spec>>

CasRef(n, k, expected, new, allowProtected) ==
  /\ n \notin Tags /\ KindAllowed(n, k) /\ HasRoom(n)
  /\ \/ CasCreate(n, k, new)
     \/ /\ Movable(n, k, allowProtected) /\ refs[n].oid = expected
        /\ MoveRef(n, expected, new, "cas")
     \/ /\ Movable(n, k, allowProtected) /\ refs[n].oid # expected
        /\ \E f \in ForkNames(n, k) :
             /\ Unused(f) /\ HasRoom(f)
             /\ ForkRef(f, k, refs[n].oid, new)
  /\ Introduce(k, new)
  /\ UNCHANGED <<seals, landmarks, live, spec>>

\* The ledger half of cas_ref_session: it fails when the mount row (and, for
\* the root mount, the namespace row) it has to repin is missing.
CasRefSession(s, m, n, expected, new) ==
  /\ Movable(n, "commit", FALSE) /\ HasRoom(n)
  /\ spec[s][m] # NoName
  /\ m = Root => live[s] # NoName
  /\ \/ /\ refs[n].oid = expected
        /\ MoveRef(n, expected, new, "cas")
        /\ UNCHANGED spec
     \/ /\ refs[n].oid # expected
        /\ \E f \in Forks :
             /\ Unused(f) /\ HasRoom(f)
             /\ ForkRef(f, "commit", refs[n].oid, new)
             /\ spec' = [spec EXCEPT ![s][m] = f]
  /\ Introduce("commit", new)
  /\ UNCHANGED <<seals, landmarks, live>>

\* The UNIQUE keys of namespaces, refs and mounts refuse a second session of the
\* same id, whose live ref outlives it.
CreateSession(s, pinned, mountMain) ==
  LET n     == LiveRef[s]
      paths == {Root} \cup (IF mountMain THEN {MainPath} ELSE {}) IN
  /\ live[s] = NoName /\ ~Exists(n) /\ HasRoom(n)
  /\ \A m \in paths : spec[s][m] = NoName
  /\ refs'   = [refs EXCEPT ![n] = Row(pinned, "commit")]
  /\ reflog' = [reflog EXCEPT ![n] = Append(@, Entry(NoOid, pinned, "session"))]
  /\ live'   = [live EXCEPT ![s] = n]
  /\ spec'   = [spec EXCEPT ![s] = [m \in MountPaths |->
                  IF m = Root THEN n ELSE IF m \in paths THEN Main ELSE @[m]]]
  /\ UNCHANGED <<seals, landmarks, intro>>

\* INSERT OR REPLACE with no check of its own: the caller resolved n earlier.
InsertMount(s, m, n) ==
  /\ reflog[n] # <<>>
  /\ spec' = [spec EXCEPT ![s][m] = n]
  /\ UNCHANGED <<refs, reflog, seals, landmarks, intro, live>>

\* Faulty variant: the mounts table is not asked.
AbandonRefAsksLiveOnly(n) ==
  /\ IsForkRef(n) /\ Exists(n) /\ HasRoom(n)
  /\ ~refs[n].sealed /\ ~refs[n].protected
  /\ \A s \in Sessions : live[s] # n
  /\ reflog' = [reflog EXCEPT ![n] = Append(@, Entry(refs[n].oid, refs[n].oid, "abandon"))]
  /\ refs'   = [refs EXCEPT ![n] = NoRow]
  /\ UNCHANGED <<seals, landmarks, intro, live, spec>>

AbandonRef(n) ==
  /\ IsForkRef(n) /\ Exists(n) /\ HasRoom(n)
  /\ ~refs[n].sealed /\ ~refs[n].protected
  /\ ~Held(n)
  /\ reflog' = [reflog EXCEPT ![n] = Append(@, Entry(refs[n].oid, refs[n].oid, "abandon"))]
  /\ refs'   = [refs EXCEPT ![n] = NoRow]
  /\ UNCHANGED <<seals, landmarks, intro, live, spec>>

\* Faulty variant: the conflict ref is deleted without its reflog row.
PublishResolutionSilent(into, expected, commit, c, conflict, r, allowProtected) ==
  /\ into \notin Tags /\ Movable(into, "commit", allowProtected) /\ HasRoom(into)
  /\ refs[into].oid = expected
  /\ Movable(c, "conflict", FALSE) /\ refs[c].oid = conflict /\ ~Held(c)
  /\ ~Exists(r) /\ ~Retired(r) /\ HasRoom(r)
  /\ refs'   = [refs EXCEPT ![into] = Moved(@, commit), ![r] = Row(commit, "commit"), ![c] = NoRow]
  /\ reflog' = [reflog EXCEPT
                  ![into] = Append(@, Entry(expected, commit, "resolve")),
                  ![r]    = Append(@, Entry(NoOid, commit, "resolve"))]
  /\ Introduce("commit", commit)
  /\ UNCHANGED <<seals, landmarks, live, spec>>

\* Never a fork: a resolution that lost the race for `into` is refused.
PublishResolution(into, expected, commit, c, conflict, r, allowProtected) ==
  /\ into \notin Tags /\ Movable(into, "commit", allowProtected) /\ HasRoom(into)
  /\ refs[into].oid = expected
  /\ Movable(c, "conflict", FALSE) /\ HasRoom(c)
  /\ refs[c].oid = conflict /\ ~Held(c)
  /\ ~Exists(r) /\ ~Retired(r) /\ HasRoom(r)
  /\ refs'   = [refs EXCEPT ![into] = Moved(@, commit), ![r] = Row(commit, "commit"), ![c] = NoRow]
  /\ reflog' = [reflog EXCEPT
                  ![into] = Append(@, Entry(expected, commit, "resolve")),
                  ![r]    = Append(@, Entry(NoOid, commit, "resolve")),
                  ![c]    = Append(@, Entry(conflict, conflict, "abandon"))]
  /\ Introduce("commit", commit)
  /\ UNCHANGED <<seals, landmarks, live, spec>>

\* Faulty variant: an existing tag is sealed again.
CommitSealOverwrites(t, snap, n, commit) ==
  /\ HasRoom(t) /\ Exists(n) /\ refs[n].oid = commit
  /\ refs'   = [refs EXCEPT ![t] = [oid |-> snap, kind |-> "snapshot",
                                    protected |-> TRUE, sealed |-> TRUE]]
  /\ reflog' = [reflog EXCEPT ![t] = Append(@, Entry(refs[t].oid, snap, "seal"))]
  /\ seals'  = [seals EXCEPT ![t] = [snap |-> snap, commit |-> commit]]
  /\ landmarks' = landmarks \cup {snap, commit}
  /\ UNCHANGED <<intro, live, spec>>

CommitSeal(t, snap, n, commit) ==
  /\ ~Exists(t) /\ HasRoom(t)
  /\ Exists(n) /\ refs[n].oid = commit
  /\ refs'   = [refs EXCEPT ![t] = [oid |-> snap, kind |-> "snapshot",
                                    protected |-> TRUE, sealed |-> TRUE]]
  /\ reflog' = [reflog EXCEPT ![t] = Append(@, Entry(NoOid, snap, "seal"))]
  /\ seals'  = [seals EXCEPT ![t] = [snap |-> snap, commit |-> commit]]
  /\ landmarks' = landmarks \cup {snap, commit}
  /\ UNCHANGED <<intro, live, spec>>

Landmark(o) ==
  /\ landmarks' = landmarks \cup {o}
  /\ UNCHANGED <<refs, reflog, seals, intro, live, spec>>

\* The session's live head stays: it is published history.
AbandonSession(s) ==
  /\ live[s] # NoName
  /\ live' = [live EXCEPT ![s] = NoName]
  /\ spec' = [spec EXCEPT ![s] = [m \in MountPaths |-> NoName]]
  /\ UNCHANGED <<refs, reflog, seals, landmarks, intro>>

-----------------------------------------------------------------------------
(* The specification.  Init is the catalog `init` publishes. *)

Init ==
  /\ refs   = [n \in Names |-> IF n = Main
                 THEN [oid |-> First, kind |-> "commit", protected |-> TRUE, sealed |-> FALSE]
                 ELSE NoRow]
  /\ reflog = [n \in Names |-> IF n = Main THEN <<Entry(NoOid, First, "init")>> ELSE <<>>]
  /\ seals  = [t \in Tags |-> NoSeal]
  /\ landmarks = {First}
  /\ intro  = [b \in Blobs |-> IF b \in Introduces[First] THEN First ELSE NoOid]
  /\ live   = [s \in Sessions |-> NoName]
  /\ spec   = [s \in Sessions |-> [m \in MountPaths |-> NoName]]

Next ==
  \/ \E n \in Names, k \in Kinds : \E o \in ObjectsOf(k) : InsertRef(n, k, o)
  \/ \E n \in Names, k \in Kinds, allow \in BOOLEAN :
       \E expected \in ObjectsOf(k) \cup {NoOid}, new \in ObjectsOf(k) :
         CasRef(n, k, expected, new, allow)
  \/ \E s \in Sessions, m \in MountPaths, n \in Names, expected, new \in Commits :
       CasRefSession(s, m, n, expected, new)
  \/ \E s \in Sessions, pinned \in Commits, mountMain \in BOOLEAN :
       CreateSession(s, pinned, mountMain)
  \/ \E s \in Sessions, m \in MountPaths, n \in Names : InsertMount(s, m, n)
  \/ \E n \in Names : AbandonRef(n)
  \/ \E into \in Names, c \in Conflicts, r \in Resolutions, expected, commit \in Commits,
        conflict \in ConflictObjs, allow \in BOOLEAN :
       PublishResolution(into, expected, commit, c, conflict, r, allow)
  \/ \E t \in Tags, n \in Names, snap \in Snapshots, commit \in Commits :
       CommitSeal(t, snap, n, commit)
  \/ \E o \in Marked : Landmark(o)
  \/ \E s \in Sessions : AbandonSession(s)

Spec == Init /\ [][Next]_vars

-----------------------------------------------------------------------------
(* Properties *)

TypeOK ==
  /\ refs \in [Names -> RefRow \cup {NoRow}]
  /\ reflog \in [Names -> Seq(LogRow)]
  /\ seals \in [Tags -> SealRow \cup {NoSeal}]
  /\ landmarks \subseteq Oids
  /\ intro \in [Blobs -> Commits \cup {NoOid}]
  /\ live \in [Sessions -> Names \cup {NoName}]
  /\ spec \in [Sessions -> [MountPaths -> Names \cup {NoName}]]

\* audit_catalog REFLOG_CHAIN: each reflog row of a name starts where the
\* previous one ended, and a first row starts from nothing unless it creates a
\* fork.  Every transaction that moves, creates or retires a ref has to write
\* the row that continues the chain of that name, also after a retirement.
ReflogChain ==
  \A n \in Names :
    /\ \A i \in 2..Len(reflog[n]) : reflog[n][i].old = reflog[n][i-1].new
    /\ reflog[n] # <<>> => \/ reflog[n][1].old = NoOid
                           \/ reflog[n][1].reason = "fork"

\* audit_catalog REFLOG_MISSING, REFLOG_TERMINAL and REFLOG_ORPHAN: a ref holds
\* exactly what the last reflog row of its name says, and a name with reflog
\* rows and no ref was retired by an abandon row.  The ref table can therefore
\* be rebuilt from the reflog alone.
ReflogTerminal ==
  \A n \in Names :
    /\ Exists(n) => /\ reflog[n] # <<>>
                    /\ Last(reflog[n]).new = refs[n].oid
                    /\ ~Retired(n)
    /\ ~Exists(n) => reflog[n] = <<>> \/ Retired(n)

\* An `abandon` row is the last row of its name: no path of creation resurrects
\* a retired name, although create_session, commit_seal and both fork paths
\* insert without asking deny_retired.
AbandonIsTerminal ==
  \A n \in Names : \A i \in 1..Len(reflog[n]) :
    reflog[n][i].reason = "abandon" => i = Len(reflog[n])

\* audit_catalog REF_KIND, TAG_FLAGS, SEAL_TAG_REF, SEAL_ROW and SEAL_LANDMARK:
\* the kind of every ref is the one its name mandates, tags are protected and
\* sealed, and tag, seals row and landmarks come and stay together.
SealsAgree ==
  /\ \A n \in Names : Exists(n) => /\ KindAllowed(n, refs[n].kind)
                                   /\ refs[n].oid \in ObjectsOf(refs[n].kind)
  /\ \A t \in Tags :
       /\ Exists(t) <=> seals[t] # NoSeal
       /\ Exists(t) => /\ refs[t].protected /\ refs[t].sealed
                       /\ refs[t].oid = seals[t].snap
                       /\ {seals[t].snap, seals[t].commit} \subseteq landmarks

\* audit_catalog NS_LIVE_REF and NS_LIVE_TYPE: the live ref of every open
\* session is an existing commit ref, whatever abandon_ref and
\* publish_resolution delete meanwhile.
LiveHeadsExist ==
  \A s \in Sessions : live[s] # NoName => Exists(live[s]) /\ refs[live[s]].kind = "commit"

\* The abandon_ref contract: a ref that is the live head of a session or that a
\* mount names is never deleted, neither by abandon_ref nor by
\* publish_resolution, so a session that was moved to its fork keeps it.
HeldRefStays ==
  [][\A n \in Names : Held(n) /\ Exists(n) => refs'[n].oid # NoOid]_vars

\* I6: the reflog is append-only, and every change of a ref is the last row of
\* its reflog, from the value the ref had to the value it gets.
EveryMoveLogged ==
  [][\A n \in Names :
       /\ Len(reflog'[n]) >= Len(reflog[n])
       /\ \A i \in 1..Len(reflog[n]) : reflog'[n][i] = reflog[n][i]
       /\ refs'[n] # refs[n] =>
            /\ Len(reflog'[n]) = Len(reflog[n]) + 1
            /\ Exists(n) => Last(reflog'[n]).old = refs[n].oid
            /\ refs'[n].oid # NoOid => Last(reflog'[n]).new = refs'[n].oid]_vars

\* I3, I10: once sealed, a ref row never changes again, and neither do its
\* seals row and the provenance an object was first introduced with.
SealedIsForever ==
  [][/\ \A n \in Names : refs[n].sealed => refs'[n] = refs[n]
     /\ \A t \in Tags : seals[t] # NoSeal => seals'[t] = seals[t]
     /\ \A b \in Blobs : intro[b] # NoOid => intro'[b] = intro[b]]_vars

\* Provenance rows name published history: the commit an object_intro row
\* points to was the new value of some reflog row.
IntroPublished ==
  \A b \in Blobs : intro[b] # NoOid =>
    \E n \in Names : \E i \in 1..Len(reflog[n]) : reflog[n][i].new = intro[b]
=============================================================================
