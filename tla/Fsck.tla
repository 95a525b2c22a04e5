-------------------------------- MODULE Fsck --------------------------------
(***************************************************************************)
(* The online fsck (crates/forge-api/src/fsck.rs, collect_reachable_roots):*)
(* it overlaps the writers and reads the refs, the namespaces and each     *)
(* namespace's mounts in separate queries; a ref its first query did not   *)
(* see is looked up again.  Rooting and the walk of the objects are left   *)
(* out: they add nothing to what is reported about rows.                   *)
(***************************************************************************)
EXTENDS CatalogAudit

VARIABLE scan   \* the fsck in progress: what it has read and reported

Off == [phase |-> "off", refs |-> {}, ns |-> {}, live |-> Nothing, s |-> "none",
        mounts |-> {}, found |-> {}]
fvars == <<svars, scan>>

\* late_ref: the name is resolved again, as it is now.
LateRef(n) == Exists(n)

ListRefs ==
  /\ scan.phase = "off"
  /\ scan' = [scan EXCEPT !.phase = "namespaces", !.refs = {n \in Names : Exists(n)}]

ListNamespaces ==
  /\ scan.phase = "namespaces"
  /\ LET ns == {s \in Sessions : Open(s)} IN
     scan' = [scan EXCEPT !.phase = "next", !.ns = ns,
                          !.live = [s \in ns |-> [ref |-> live[s], pin |-> pin[s]]]]

\* The pin and the live ref of one namespace.
CheckLive(s) ==
  /\ scan.phase = "next" /\ s \in scan.ns
  /\ LET row == scan.live[s] IN
     scan' = [scan EXCEPT !.phase = "mounts", !.s = s, !.ns = @ \ {s},
       !.found = @ \cup (IF row.pin = NoOid THEN {<<"NS_PIN", s>>} ELSE {})
                   \cup (IF row.ref \in scan.refs \/ LateRef(row.ref) THEN {}
                         ELSE {<<"NS_LIVE_REF", s>>})]

ListMounts ==
  /\ scan.phase = "mounts"
  /\ scan' = [scan EXCEPT !.phase = "mount",
       !.mounts = {<<m, spec[scan.s][m]>> : m \in {x \in MountPaths : HasMount(scan.s, x)}}]

CheckMount ==
  /\ scan.phase = "mount"
  /\ IF scan.mounts = {} THEN scan' = [scan EXCEPT !.phase = "next"]
     ELSE \E x \in scan.mounts :
            scan' = [scan EXCEPT !.mounts = @ \ {x},
              !.found = @ \cup (IF x[2] \in scan.refs \/ LateRef(x[2]) THEN {}
                                ELSE {<<"MOUNT_REF", <<scan.s, x[1]>> >>})]

Report ==
  /\ scan.phase = "next" /\ scan.ns = {}
  /\ scan' = [scan EXCEPT !.phase = "done"]

FsckStep == ListRefs \/ ListNamespaces \/ (\E s \in Sessions : CheckLive(s))
              \/ ListMounts \/ CheckMount \/ Report

FsckInit == SessionInit /\ scan = Off
FsckNext == \/ SessionNext /\ UNCHANGED scan
            \/ FsckStep /\ UNCHANGED svars
FsckSpec == FsckInit /\ [][FsckNext]_fvars

\* late_ref "is sound rather than a mitigation": a scan that overlaps writers
\* reports nothing about a catalog in which the audit of one snapshot finds
\* nothing.
FsckSound == scan.found # {} => AuditFindings # {}
=============================================================================
