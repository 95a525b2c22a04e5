---------------------------- MODULE CatalogAudit ----------------------------
(***************************************************************************)
(* audit_catalog (crates/forge-store/src/meta.rs): the findings a full     *)
(* fsck reports about the rows of one catalog snapshot.  A finding is a    *)
(* pair of a code and the row it is about.  The clauses about the stored   *)
(* form of a row (table shapes, the width of an oid, a kind that is no     *)
(* known word) are left out: the model has no such rows.                   *)
(***************************************************************************)
EXTENDS Sessions

RefFindings ==
  {<<"REF_KIND", n>> : n \in {x \in Names : Exists(x) /\ ~KindAllowed(x, refs[x].kind)}}
    \cup {<<"TAG_FLAGS", n>> : n \in {x \in Tags : Exists(x) /\
             ~(refs[x].protected /\ refs[x].sealed /\ refs[x].kind = "snapshot")}}

ChainBreaks(n) ==
  \E i \in 1..Len(reflog[n]) :
    IF i > 1 THEN reflog[n][i].old # reflog[n][i-1].new
    ELSE reflog[n][i].old # NoOid /\ reflog[n][i].reason # "fork"

ReflogFindings ==
  {<<"REFLOG_CHAIN", n>> : n \in {x \in Names : ChainBreaks(x)}}
    \cup {<<"REFLOG_MISSING", n>> : n \in {x \in Names : Exists(x) /\ reflog[x] = <<>>}}
    \cup {<<"REFLOG_TERMINAL", n>> : n \in {x \in Names :
             Exists(x) /\ reflog[x] # <<>> /\ Last(reflog[x]).new # refs[x].oid}}
    \cup {<<"REFLOG_ORPHAN", n>> : n \in {x \in Names :
             reflog[x] # <<>> /\ ~Exists(x) /\ ~Retired(x)}}

NamespaceFindings ==
  {<<"NS_PIN", s>> : s \in {x \in Sessions : Open(x) /\ pin[x] = NoOid}}
    \cup {<<"NS_LIVE_REF", s>> : s \in {x \in Sessions : Open(x) /\ ~Exists(live[x])}}
    \cup {<<"NS_LIVE_TYPE", s>> : s \in {x \in Sessions :
             Open(x) /\ Exists(live[x]) /\ refs[live[x]].kind # "commit"}}

HasMount(s, m) == mount[s][m].mode # "none"

MountFindings ==
  {<<"MOUNT_NAMESPACE", x>> : x \in {y \in Sessions \X MountPaths :
      HasMount(y[1], y[2]) /\ ~Open(y[1])}}

\* collect_full_catalog: the mounts of the snapshot against its refs.
MountRefFindings ==
  {<<"MOUNT_REF", x>> : x \in {y \in Sessions \X MountPaths :
      HasMount(y[1], y[2]) /\ ~Exists(spec[y[1]][y[2]])}}

\* An observation or a staged row belongs to a namespace and to one of its mounts.
ObservationFindings ==
  {<<IF Open(x[1]) THEN "OBSERVATION_MOUNT" ELSE "OBSERVATION_NAMESPACE", x>> :
     x \in {y \in Sessions \X MountPaths : seen[y[1]][y[2]] # Nothing /\
              ~(Open(y[1]) /\ HasMount(y[1], y[2]))}}
OverlayFindings ==
  {<<IF Open(x[1]) THEN "OVERLAY_MOUNT" ELSE "OVERLAY_NAMESPACE", x>> :
     x \in {y \in Sessions \X MountPaths : overlay[y[1]][y[2]] # Nothing /\
              ~(Open(y[1]) /\ HasMount(y[1], y[2]))}}

SealFindings ==
  {<<"SEAL_TAG_REF", t>> : t \in {x \in Tags : seals[x] # NoSeal /\
      ~(/\ Exists(x) /\ refs[x].oid = seals[x].snap /\ refs[x].kind = "snapshot"
        /\ refs[x].protected /\ refs[x].sealed)}}
    \cup {<<"SEAL_ROW", t>> : t \in {x \in Tags : Exists(x) /\ seals[x] = NoSeal}}
    \cup {<<"SEAL_LANDMARK", t>> : t \in {x \in Tags : seals[x] # NoSeal /\
             ~({seals[x].snap, seals[x].commit} \subseteq landmarks)}}

AuditFindings ==
  RefFindings \cup ReflogFindings \cup NamespaceFindings \cup MountFindings
    \cup MountRefFindings \cup ObservationFindings \cup OverlayFindings \cup SealFindings

\* fsck --full on a repository that only this code has written finds nothing:
\* whatever step of whatever call an audit falls between, the columns hold what
\* they may and the rows of all eight tables agree.
AuditClean == SessionTypeOK /\ AuditFindings = {}
=============================================================================
