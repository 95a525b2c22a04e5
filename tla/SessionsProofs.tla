--------------------------- MODULE SessionsProofs ---------------------------
(***************************************************************************)
(* Proofs about the session plane and the audit of its catalog, for any    *)
(* sets of sessions, clients, refs and paths.                              *)
(***************************************************************************)
EXTENDS CatalogAudit, RefLedgerProofs

-----------------------------------------------------------------------------
(* Tables *)

\* A table with one cell per session and mount path.
Table(f) == f = [s \in Sessions |-> [m \in MountPaths |-> f[s][m]]]

\* A hypothesis of the theorems about the rows of one session: no two clients
\* work in the same session.
OneClient == \A k, l \in Clients : NsOf[k] = NsOf[l] => k = l

-----------------------------------------------------------------------------
(* The inductive invariant *)

InMount  == {"look", "observe", "move", "stage", "row", "rows", "check", "outside", "noop", "cas"}
Mounting == {"retarget", "insert"}
Checking == {"row", "rows", "check", "outside"}

MountJob == [phase : Mounting, m : MountPaths, spec : Names, mode : {"ro", "rw"},
             base : Commits \cup {NoOid}]
MountRow == [mode : {"none", "ro", "rw"}, base : Commits \cup {NoOid}, spec : Names \cup {NoName}]

\* What a call has read so far, by phase.
JobTyped(j) ==
  /\ j.phase = "create" => j.base \in Commits
  /\ j.phase \in Mounting => j \in MountJob /\ (j.mode = "rw" => j.base # NoOid)
  /\ j.phase \in InMount => j.m \in MountPaths
  /\ j.phase \in Checking => /\ j.mts \in [MountPaths -> MountRow]
                             /\ j.mts[j.m].mode = "rw" /\ j.mts[j.m].base # NoOid
                             /\ j.mts[j.m].spec # NoName
  /\ j.phase = "noop" => j.base \in Commits
  /\ j.phase = "cas" => j.spec \in Names /\ j.contrib.base \in Commits

\* Needed by the composition: the arguments of every transaction are in range,
\* and `main` is there to be opened, branched and published to.
LInv ==
  /\ IInv /\ SessionTypeOK /\ Exists(Main)
  /\ Table(mount) /\ Table(overlay) /\ Table(seen)
  /\ tree = [c \in Commits |-> tree[c]]
  /\ job = [k \in Clients |-> job[k]]
  /\ \A k \in Clients : JobTyped(job[k])

-----------------------------------------------------------------------------
(* Rows, mounts and refs *)

\* The mount rows as list_mounts returns them.
LEMMA MountsTyped ==
  ASSUME LInv, NEW s \in Sessions
  PROVE  /\ Mounts(s) \in [MountPaths -> MountRow]
         /\ \A m \in MountPaths :
              /\ Mounts(s)[m].mode = mount[s][m].mode
              /\ Mounts(s)[m].base = mount[s][m].base
              /\ Mounts(s)[m].spec = spec[s][m]
              /\ (mount[s][m].mode = "none") = (spec[s][m] = NoName)
<1>1. \A m \in MountPaths : /\ mount[s][m].mode \in {"none", "ro", "rw"}
                            /\ mount[s][m].base \in Commits \cup {NoOid}
                            /\ spec[s][m] \in Names \cup {NoName}
                            /\ (mount[s][m].mode = "none") = (spec[s][m] = NoName)
  BY DEF LInv, SessionTypeOK, TypeOK
<1> QED BY <1>1, Zenon DEF Mounts, MountRow

\* A path that some mount covers has a longest mount.
LEMMA Longest ==
  ASSUME NEW mts, NEW a, Covering(mts, a) # {}
  PROVE  /\ LongestMount(mts, a) \in MountPaths
         /\ Has(mts, LongestMount(mts, a)) /\ Under(a, LongestMount(mts, a))
<1>1. Covering(mts, a) \in SUBSET MountPaths BY Zenon DEF Covering
<1>2. \E m \in Covering(mts, a) : \A o \in Covering(mts, a) : Len(o) <= Len(m)
  BY <1>1, SessionConstants, Zenon
<1>3. LongestMount(mts, a) \in Covering(mts, a) BY <1>2, Zenon DEF LongestMount
<1> QED BY <1>3, Zenon DEF Covering

\* A ref of kind commit names a commit, and a head is of that kind.
LEMMA RefCommit ==
  ASSUME IInv, NEW n \in Names, Exists(n), refs[n].kind = "commit" \/ n \in Heads
  PROVE  refs[n].kind = "commit" /\ refs[n].oid \in Commits
<1>1. refs[n].kind = "commit" BY Zenon DEF IInv, SealsAgree, KindAllowed
<1> QED BY <1>1, CommitObjects, Zenon DEF IInv, SealsAgree

\* `main` is a head, and no head is ever retired.
LEMMA HeadNames ==
  /\ Main \in Names /\ Shared \in Names /\ Main \in Heads /\ Shared \in Heads
  /\ \A s \in Sessions : LiveRef[s] \in Heads
  /\ Heads \subseteq Names /\ Forks \subseteq Names /\ NoName \notin Names
  /\ Heads \cap Retirable = {}
  BY NameClasses, SessionNames, SessionConstants, Zenon DEF Names, Retirable

\* A ref that is held, or that is no fork and no conflict, is not deleted.
LEMMA RefStays ==
  ASSUME IInv, [Next]_vars, NEW n \in Names, Exists(n), Held(n) \/ n \notin Retirable
  PROVE  Exists(n)'
<1>1. Logged(n) BY StepShape, Zenon DEF Shape
<1> QED BY <1>1, RowPresent, Zenon DEF Logged, Exists

\* The clauses of LInv about the ledger hold after any of its transactions.
LEMMA LedgerKept ==
  ASSUME LInv, [Next]_vars
  PROVE  IInv' /\ TypeOK' /\ Exists(Main)'
<1>1. IInv' BY StepShape, ShapeKeepsInv, Zenon DEF LInv
<1>2. Exists(Main)' BY HeadNames, RefStays, Zenon DEF LInv
<1> QED BY <1>1, <1>2, Zenon DEF IInv

\* The counters of a call that begins.
LEMMA CallsBegin ==
  ASSUME LInv, NEW k \in Clients, calls[k] < MaxCalls, calls' = [calls EXCEPT ![k] = @ + 1]
  PROVE  calls' \in [Clients -> 0..MaxCalls]
<1>1. calls[k] \in 0..MaxCalls /\ calls \in [Clients -> 0..MaxCalls] BY Zenon DEF LInv, SessionTypeOK
<1>2. calls[k] + 1 \in 0..MaxCalls BY <1>1, SessionConstants
<1> QED BY <1>1, <1>2, Zenon

\* A client's job is replaced.
JobSet(k, j) ==
  /\ job' = [job EXCEPT ![k] = j]
  /\ calls' \in [Clients -> 0..MaxCalls]
  /\ \A l \in Clients : l # k => calls'[l] = calls[l]

LEMMA JobWritten ==
  ASSUME LInv, NEW k \in Clients, NEW j, JobSet(k, j), JobTyped(j)
  PROVE  /\ job' = [l \in Clients |-> job'[l]] /\ job'[k] = j
         /\ \A l \in Clients : l # k => job'[l] = job[l]
         /\ \A l \in Clients : JobTyped(job'[l])
<1>1. DOMAIN job = Clients BY Zenon DEF LInv
<1>2. job' = [job EXCEPT ![k] = j] BY Zenon DEF JobSet
<1>3. /\ job' = [l \in Clients |-> job'[l]] /\ job'[k] = j
      /\ \A l \in Clients : l # k => job'[l] = job[l]
  BY <1>1, <1>2, Zenon
<1>4. \A l \in Clients : JobTyped(job[l]) BY Zenon DEF LInv
<1> QED BY <1>3, <1>4, Zenon

\* How the calls write their job.
LEMMA JobMoves ==
  ASSUME LInv, NEW k \in Clients, NEW j
  PROVE  Begin(k, j) \/ Go(k, j) => JobSet(k, j)
<1>1. calls \in [Clients -> 0..MaxCalls] BY Zenon DEF LInv, SessionTypeOK
<1>2. Go(k, j) => JobSet(k, j) BY <1>1, Zenon DEF Go, JobSet
<1>3. ASSUME Begin(k, j) PROVE JobSet(k, j)
  <2>1. calls' \in [Clients -> 0..MaxCalls] BY <1>3, CallsBegin, Zenon DEF Begin
  <2>2. \A l \in Clients : l # k => calls'[l] = calls[l] BY <1>1, <1>3, Zenon DEF Begin
  <2> QED BY <1>3, <2>1, <2>2, Zenon DEF Begin, JobSet
<1> QED BY <1>2, <1>3, Zenon

LEMMA IdleTyped == JobTyped(Idle)
  BY Zenon DEF JobTyped, Idle, Mounting, InMount, Checking

\* A step that only reads.
LEMMA QuietTyped ==
  ASSUME LInv, NEW k \in Clients, NEW j, JobSet(k, j), JobTyped(j), ReadOnly
  PROVE  LInv' /\ [Next]_vars
<1>1. UNCHANGED vars BY Zenon DEF ReadOnly
<1>2. IInv' /\ TypeOK' /\ Exists(Main)' BY <1>1, LedgerKept, Zenon
<1>3. UNCHANGED <<spec, tree, pin, mount, overlay, seen, foreign>>
  BY Zenon DEF ReadOnly, vars, stored, sessionTables
<1>4. calls' \in [Clients -> 0..MaxCalls] BY Zenon DEF JobSet
<1>5. SessionTypeOK' BY <1>2, <1>3, <1>4, Zenon DEF LInv, SessionTypeOK
<1>6. Table(mount)' /\ Table(overlay)' /\ Table(seen)' /\ tree' = [c \in Commits |-> tree'[c]]
  BY <1>3, Zenon DEF LInv, Table
<1> QED BY <1>1, <1>2, <1>5, <1>6, JobWritten, Zenon DEF LInv

-----------------------------------------------------------------------------
(* The steps that only read keep LInv *)

LEMMA SessionOpenTyped ==
  ASSUME LInv, NEW k \in Clients, SessionOpen(k, Main)
  PROVE  LInv' /\ [Next]_vars
<1> DEFINE j == [phase |-> "create", base |-> refs[Main].oid]
<1>1. refs[Main].oid \in Commits BY HeadNames, RefCommit, Zenon DEF SessionOpen, LInv
<1>2. JobTyped(j) BY <1>1, Zenon DEF JobTyped, Mounting, InMount, Checking
<1>3. Go(k, j) /\ ReadOnly BY Zenon DEF SessionOpen
<1> HIDE DEF j
<1> QED BY <1>2, <1>3, JobMoves, QuietTyped, Zenon

LEMMA MountCallTyped ==
  ASSUME LInv, NEW k \in Clients, NEW mn \in Mountable, NEW rw \in BOOLEAN,
         MountCall(k, mn[1], mn[2], rw)
  PROVE  LInv' /\ [Next]_vars
<1> DEFINE m == mn[1]
           n == mn[2]
           j == [phase |-> "retarget", m |-> m, spec |-> n,
                 mode |-> IF rw THEN "rw" ELSE "ro",
                 base |-> IF rw THEN refs[n].oid ELSE NoOid]
<1>1. m \in MountPaths /\ n \in Names BY SessionConstants, Zenon
<1>2. Exists(n) /\ (rw => refs[n].kind = "commit") BY Zenon DEF MountCall
<1>3. rw => refs[n].oid \in Commits BY <1>1, <1>2, RefCommit, Zenon DEF LInv
<1>4. j \in MountJob BY <1>1, <1>3, Zenon DEF MountJob, Mounting
<1>5. j.mode = "rw" => j.base # NoOid BY <1>3, OidTypes, Zenon DEF Oids
<1>6. j.phase = "retarget" BY Zenon
<1>7. Begin(k, j) /\ ReadOnly BY Zenon DEF MountCall
<1> HIDE DEF j
<1>8. JobTyped(j) BY <1>4, <1>5, <1>6, Zenon DEF JobTyped, Mounting, InMount, Checking
<1> QED BY <1>7, <1>8, JobMoves, QuietTyped, Zenon

LEMMA RefuseRetargetingTyped ==
  ASSUME LInv, NEW k \in Clients, RefuseRetargeting(k)
  PROVE  LInv' /\ [Next]_vars
<1> DEFINE j == [job[k] EXCEPT !.phase = "insert"]
<1>1. job[k].phase = "retarget" /\ JobTyped(job[k]) BY Zenon DEF RefuseRetargeting, AtPhase, LInv
<1>2. job[k] \in MountJob /\ (job[k].mode = "rw" => job[k].base # NoOid)
  BY <1>1, Zenon DEF JobTyped, Mounting
<1>3. j \in MountJob /\ (j.mode = "rw" => j.base # NoOid) /\ j.phase = "insert"
  BY <1>2, Zenon DEF MountJob, Mounting
<1>4. ReadOnly /\ (Go(k, j) \/ Go(k, Idle)) BY Zenon DEF RefuseRetargeting, Return
<1> HIDE DEF j
<1>5. JobTyped(j) BY <1>3, Zenon DEF JobTyped, Mounting, InMount, Checking
<1> QED BY <1>4, <1>5, IdleTyped, JobMoves, QuietTyped, Zenon

\* The jobs of a read, a rename and a staged write.
LEMMA LookTyped ==
  ASSUME NEW m \in MountPaths, NEW mt, NEW rel, NEW to, NEW rows, NEW t, NEW saw, NEW v
  PROVE  /\ JobTyped([phase |-> "look", m |-> m, mt |-> mt, rel |-> rel, to |-> to])
         /\ JobTyped([phase |-> "observe", m |-> m, rel |-> rel, to |-> to,
                      rows |-> rows, tree |-> t, saw |-> saw])
         /\ JobTyped([phase |-> "move", m |-> m, rel |-> rel, to |-> to, rows |-> rows])
         /\ JobTyped([phase |-> "stage", m |-> m, rel |-> rel, val |-> v])
  BY Zenon DEF JobTyped, Mounting, InMount, Checking

LEMMA ReadCallTyped ==
  ASSUME LInv, NEW k \in Clients, NEW a, ReadCall(k, a)
  PROVE  LInv' /\ [Next]_vars
<1> DEFINE mts == Mounts(NsOf[k])
           m == LongestMount(mts, a)
           j == [phase |-> "look", m |-> m, mt |-> mts[m], rel |-> RelOf(m, a), to |-> Nothing]
<1>1. m \in MountPaths BY Longest, Zenon DEF ReadCall
<1>2. JobTyped(j) BY <1>1, LookTyped, Zenon
<1>3. Begin(k, j) /\ ReadOnly BY Zenon DEF ReadCall
<1> HIDE DEF j
<1> QED BY <1>2, <1>3, JobMoves, QuietTyped, Zenon

LEMMA RenameCallTyped ==
  ASSUME LInv, NEW k \in Clients, NEW a, NEW b, RenameCall(k, a, b)
  PROVE  LInv' /\ [Next]_vars
<1> DEFINE mts == Mounts(NsOf[k])
           m == LongestMount(mts, a)
           j == [phase |-> "look", m |-> m, mt |-> mts[m], rel |-> RelOf(m, a), to |-> RelOf(m, b)]
<1>1. m \in MountPaths BY Longest, Zenon DEF RenameCall
<1>2. JobTyped(j) BY <1>1, LookTyped, Zenon
<1>3. Begin(k, j) /\ ReadOnly BY Zenon DEF RenameCall
<1> HIDE DEF j
<1> QED BY <1>2, <1>3, JobMoves, QuietTyped, Zenon

LEMMA StageCallTyped ==
  ASSUME LInv, NEW k \in Clients, NEW a, NEW v, StageCall(k, a, v)
  PROVE  LInv' /\ [Next]_vars
<1> DEFINE mts == Mounts(NsOf[k])
           m == LongestMount(mts, a)
           j == [phase |-> "stage", m |-> m, rel |-> RelOf(m, a), val |-> v]
<1>1. m \in MountPaths BY Longest, Zenon DEF StageCall
<1>2. JobTyped(j) BY <1>1, LookTyped, Zenon
<1>3. Begin(k, j) /\ ReadOnly BY Zenon DEF StageCall
<1> HIDE DEF j
<1> QED BY <1>2, <1>3, JobMoves, QuietTyped, Zenon

LEMMA LookStepTyped ==
  ASSUME LInv, NEW k \in Clients, Look(k)
  PROVE  LInv' /\ [Next]_vars
<1> DEFINE rows == overlay[NsOf[k]][job[k].m]
           t == SessionMountTree(job[k].mt)
           j == [phase |-> "observe", m |-> job[k].m, rel |-> job[k].rel, to |-> job[k].to,
                 rows |-> rows, tree |-> t, saw |-> SeenIn(rows, t, job[k].rel)]
<1>1. job[k].m \in MountPaths BY Zenon DEF Look, AtPhase, LInv, JobTyped, InMount
<1>2. JobTyped(j) BY <1>1, LookTyped, Zenon
<1>3. ReadOnly /\ (Go(k, j) \/ Go(k, Idle)) BY Zenon DEF Look, Return
<1> HIDE DEF j
<1> QED BY <1>2, <1>3, IdleTyped, JobMoves, QuietTyped, Zenon

LEMMA DrainReadTyped ==
  ASSUME LInv, NEW k \in Clients, DrainRead(k)
  PROVE  LInv' /\ [Next]_vars
<1>1. PICK m \in MountPaths : \E p \in DOMAIN seen[NsOf[k]][m] :
         Go(k, [phase |-> "look", m |-> m, mt |-> Mounts(NsOf[k])[m], rel |-> p, to |-> Nothing])
  BY Zenon DEF DrainRead
<1>0. PICK p \in DOMAIN seen[NsOf[k]][m] :
         Go(k, [phase |-> "look", m |-> m, mt |-> Mounts(NsOf[k])[m], rel |-> p, to |-> Nothing])
  BY <1>1, Zenon
<1> DEFINE j == [phase |-> "look", m |-> m, mt |-> Mounts(NsOf[k])[m], rel |-> p, to |-> Nothing]
<1>2. JobTyped(j) BY LookTyped, Zenon
<1>3. Go(k, j) /\ ReadOnly BY <1>0, Zenon DEF DrainRead
<1> HIDE DEF j
<1> QED BY <1>2, <1>3, JobMoves, QuietTyped, Zenon

\* The jobs of a checkin that has read the mounts.
LEMMA CheckingTyped ==
  ASSUME NEW m \in MountPaths, NEW mts \in [MountPaths -> MountRow],
         mts[m].mode = "rw", mts[m].base # NoOid, mts[m].spec # NoName,
         NEW row, NEW rows, NEW reads, NEW clash, NEW t, NEW r, r.base = mts[m].base
  PROVE  /\ mts[m].base \in Commits /\ mts[m].spec \in Names
         /\ JobTyped([phase |-> "row", m |-> m, mts |-> mts])
         /\ JobTyped([phase |-> "rows", m |-> m, mts |-> mts, row |-> row])
         /\ JobTyped([phase |-> "check", m |-> m, mts |-> mts, row |-> row,
                      rows |-> rows, reads |-> reads, clash |-> clash])
         /\ JobTyped([phase |-> "outside", m |-> m, mts |-> mts])
         /\ JobTyped([phase |-> "noop", m |-> m, base |-> mts[m].base])
         /\ JobTyped([phase |-> "cas", m |-> m, spec |-> mts[m].spec, tree |-> t, contrib |-> r])
<1>1. mts[m].base \in Commits /\ mts[m].spec \in Names BY Zenon DEF MountRow
<1> QED BY <1>1, Zenon DEF JobTyped, Mounting, InMount, Checking

LEMMA CheckinBegins ==
  ASSUME LInv, NEW k \in Clients, NEW m \in MountPaths, CheckinReady(NsOf[k], m)
  PROVE  JobTyped([phase |-> "row", m |-> m, mts |-> Mounts(NsOf[k])])
<1> DEFINE mts == Mounts(NsOf[k])
<1>1. NsOf[k] \in Sessions BY SessionConstants, Zenon
<1>2. mts \in [MountPaths -> MountRow] BY <1>1, MountsTyped, Zenon
<1>3. mts[m].mode = "rw" /\ mts[m].base # NoOid /\ mts[m].spec # NoName
  BY <1>1, MountsTyped, Zenon DEF CheckinReady
<1> HIDE DEF mts
<1>4. JobTyped([phase |-> "row", m |-> m, mts |-> mts])
  BY <1>2, <1>3, Zenon DEF JobTyped, Mounting, InMount, Checking
<1> QED BY <1>4, Zenon DEF mts

LEMMA CheckinCallTyped ==
  ASSUME LInv, NEW k \in Clients, NEW m \in MountPaths, CheckinCall(k, m) \/ DrainCheckin(k, m)
  PROVE  LInv' /\ [Next]_vars
<1> DEFINE j == [phase |-> "row", m |-> m, mts |-> Mounts(NsOf[k])]
<1>1. JobTyped(j) BY CheckinBegins, Zenon DEF CheckinCall, DrainCheckin
<1>2. ReadOnly /\ (Begin(k, j) \/ Go(k, j)) BY Zenon DEF CheckinCall, DrainCheckin
<1> HIDE DEF j
<1> QED BY <1>1, <1>2, JobMoves, QuietTyped, Zenon

\* What the job of a checkin in progress holds.
LEMMA CheckingJob ==
  ASSUME LInv, NEW k \in Clients, job[k].phase \in Checking
  PROVE  /\ job[k].m \in MountPaths /\ job[k].mts \in [MountPaths -> MountRow]
         /\ job[k].mts[job[k].m].mode = "rw" /\ job[k].mts[job[k].m].base # NoOid
         /\ job[k].mts[job[k].m].spec # NoName
  BY Zenon DEF LInv, JobTyped, Checking, InMount

LEMMA CheckinStepsTyped ==
  ASSUME LInv, NEW k \in Clients,
         CheckinRow(k) \/ CheckinRows(k) \/ CheckinCheck(k) \/ CheckinOutside(k)
  PROVE  LInv' /\ [Next]_vars
<1> DEFINE s == NsOf[k]
           m == job[k].m
           mts == job[k].mts
           row == refs[mts[m].spec].oid
           new == Fold(tree[mts[m].base], job[k].rows)
           r == Contribution(mts[m].base, m, job[k].rows, job[k].reads)
           j1 == [phase |-> "rows", m |-> m, mts |-> mts, row |-> row]
           j2 == [phase |-> "check", m |-> m, mts |-> mts, row |-> job[k].row,
                  rows |-> overlay[s][m], reads |-> ContributionReads(seen[s]),
                  clash |-> AmbiguousReads(seen[s])]
           j3 == [phase |-> "outside", m |-> m, mts |-> mts]
           j4 == [phase |-> "cas", m |-> m, spec |-> mts[m].spec, tree |-> new, contrib |-> r]
           j5 == [phase |-> "noop", m |-> m, base |-> mts[m].base]
<1>1. job[k].phase \in Checking
  BY Zenon DEF CheckinRow, CheckinRows, CheckinCheck, CheckinOutside, AtPhase, Checking
<1>2. /\ m \in MountPaths /\ mts \in [MountPaths -> MountRow]
      /\ mts[m].mode = "rw" /\ mts[m].base # NoOid /\ mts[m].spec # NoName
  BY <1>1, CheckingJob, Zenon
<1>3. r.base = mts[m].base BY Zenon DEF Contribution
<1>4. /\ ReadOnly
      /\ \/ Go(k, Idle) \/ Go(k, j1) \/ Go(k, j2) \/ Go(k, j3) \/ Go(k, j4) \/ Go(k, j5)
  BY Zenon DEF CheckinRow, CheckinRows, CheckinCheck, CheckinOutside, Return
<1> HIDE DEF r, new, row, mts, m
<1>5. JobTyped(j1) BY <1>2, <1>3, CheckingTyped, Zenon
<1>6. JobTyped(j2) BY <1>2, <1>3, CheckingTyped, Zenon
<1>7. JobTyped(j3) BY <1>2, <1>3, CheckingTyped, Zenon
<1>8. JobTyped(j4) BY <1>2, <1>3, CheckingTyped, Zenon
<1>9. JobTyped(j5) BY <1>2, <1>3, CheckingTyped, Zenon
<1> HIDE DEF j1, j2, j3, j4, j5
<1> QED BY <1>4, <1>5, <1>6, <1>7, <1>8, <1>9, IdleTyped, JobMoves, QuietTyped, Zenon

-----------------------------------------------------------------------------
(* What the transactions write *)

MountCell == [mode : {"none", "ro", "rw"}, base : Commits \cup {NoOid}]

\* A table of cells in R.
LEMMA TableTyped ==
  ASSUME NEW f, NEW R, Table(f), \A s \in Sessions, m \in MountPaths : f[s][m] \in R
  PROVE  f \in [Sessions -> [MountPaths -> R]]
<1>1. \A s \in Sessions : f[s] = [m \in MountPaths |-> f[s][m]] BY Zenon DEF Table
<1>2. \A s \in Sessions : f[s] \in [MountPaths -> R] BY <1>1, Zenon
<1>3. f = [s \in Sessions |-> f[s]] BY Zenon DEF Table
<1> QED BY <1>2, <1>3, Zenon

\* The tables of LInv are tables.
LEMMA Tables ==
  ASSUME LInv
  PROVE  /\ Table(mount) /\ Table(overlay) /\ Table(seen) /\ Table(spec)
         /\ \A s \in Sessions, m \in MountPaths :
              mount[s][m] \in MountCell /\ spec[s][m] \in Names \cup {NoName}
         /\ pin \in [Sessions -> Commits \cup {NoOid}]
         /\ live \in [Sessions -> Names \cup {NoName}]
  BY DEF LInv, SessionTypeOK, TypeOK, Table, MountCell

\* The sessions other than s keep their rows.
Elsewhere(s) ==
  \A t \in Sessions : t # s =>
    /\ pin'[t] = pin[t] /\ live'[t] = live[t] /\ spec'[t] = spec[t]
    /\ mount'[t] = mount[t] /\ overlay'[t] = overlay[t] /\ seen'[t] = seen[t]

TablesWritten == Table(mount)' /\ Table(overlay)' /\ Table(seen)' /\ Table(spec)'

\* create_session
Created(s, base, mountMain) ==
  /\ live'[s] = LiveRef[s] /\ pin'[s] = base
  /\ \A m \in MountPaths :
       /\ mount'[s][m] = IF m = Root THEN [mode |-> "rw", base |-> base]
                         ELSE IF m = MainPath /\ mountMain THEN [mode |-> "ro", base |-> NoOid]
                         ELSE mount[s][m]
       /\ spec'[s][m] = IF m = Root THEN LiveRef[s]
                        ELSE IF m = MainPath /\ mountMain THEN Main ELSE spec[s][m]
       /\ m = Root \/ (m = MainPath /\ mountMain) => spec[s][m] = NoName
  /\ UNCHANGED <<tree, overlay, seen>>

LEMMA CreateWrites ==
  ASSUME LInv, NEW s \in Sessions, NEW base \in Commits, NEW mountMain \in BOOLEAN,
         CreateSession(s, base, mountMain),
         pin' = [pin EXCEPT ![s] = base],
         mount' = [mount EXCEPT
                       ![s][Root] = [mode |-> "rw", base |-> base],
                       ![s][MainPath] = IF mountMain THEN [mode |-> "ro", base |-> NoOid] ELSE @],
         UNCHANGED <<stored, overlay, seen, foreign>>
  PROVE  Created(s, base, mountMain) /\ Elsewhere(s) /\ TablesWritten
<1> DEFINE a == [mode |-> "rw", base |-> base]
           b == [mode |-> "ro", base |-> NoOid]
           r == [m \in MountPaths |->
                  IF m = Root THEN LiveRef[s]
                  ELSE IF m \in {Root} \cup (IF mountMain THEN {MainPath} ELSE {}) THEN Main
                  ELSE spec[s][m]]
<1>0. Root \in MountPaths /\ MainPath \in MountPaths /\ Root # MainPath BY SessionNames, Zenon
<1>1. Table(mount) /\ Table(spec) BY Tables, Zenon
<1>2. mount' = [mount EXCEPT ![s][Root] = a, ![s][MainPath] = IF mountMain THEN b ELSE @]
  BY Zenon
<1> HIDE DEF a, b
<1>3. /\ Table(mount')
      /\ \A m \in MountPaths :
           mount'[s][m] = IF m = Root THEN a
                          ELSE IF m = MainPath /\ mountMain THEN b ELSE mount[s][m]
      /\ \A t \in Sessions : t # s => mount'[t] = mount[t]
  BY ONLY <1>0, <1>1, <1>2, s \in Sessions, mountMain \in BOOLEAN, Zenon DEF Table
<1>4. Table(mount)' BY <1>3, Zenon DEF Table
<1>5. spec' = [spec EXCEPT ![s] = r]
  BY Tables, Zenon DEF CreateSession
<1>6. Table(spec)' /\ spec'[s] = r /\ \A t \in Sessions : t # s => spec'[t] = spec[t]
  <2>1. r = [m \in MountPaths |-> r[m]] BY Zenon
  <2> HIDE DEF r
  <2>2. Table(spec') /\ spec'[s] = r /\ \A t \in Sessions : t # s => spec'[t] = spec[t]
    BY <1>1, <1>5, <2>1, Zenon DEF Table
  <2> QED BY <2>2, Zenon DEF Table
<1>7. /\ pin'[s] = base /\ live'[s] = LiveRef[s]
      /\ \A t \in Sessions : t # s => pin'[t] = pin[t] /\ live'[t] = live[t]
  BY Tables, Zenon DEF CreateSession
<1>8. UNCHANGED <<tree, overlay, seen>> BY Zenon DEF stored
<1>9. /\ \A m \in MountPaths : m = Root \/ (m = MainPath /\ mountMain) => spec[s][m] = NoName
      /\ \A m \in MountPaths : spec'[s][m] = IF m = Root THEN LiveRef[s]
                        ELSE IF m = MainPath /\ mountMain THEN Main ELSE spec[s][m]
  BY <1>6 DEF CreateSession
<1>10. Created(s, base, mountMain) BY <1>3, <1>7, <1>8, <1>9, Zenon DEF Created, a, b
<1>11. Elsewhere(s) BY <1>3, <1>6, <1>7, <1>8, Zenon DEF Elsewhere
<1>12. Table(overlay)' /\ Table(seen)' BY <1>8, Tables, Zenon DEF Table
<1> QED BY <1>4, <1>6, <1>10, <1>11, <1>12, Zenon DEF TablesWritten

\* insert_mount
Remounted(s, m, n, mt) ==
  /\ spec'[s][m] = n /\ mount'[s][m] = mt
  /\ \A o \in MountPaths : o # m => spec'[s][o] = spec[s][o] /\ mount'[s][o] = mount[s][o]
  /\ UNCHANGED <<refs, live, tree, pin, overlay, seen>>

LEMMA MountWrites ==
  ASSUME LInv, NEW s \in Sessions, NEW m \in MountPaths, NEW n \in Names, NEW mt,
         InsertMount(s, m, n), mount' = [mount EXCEPT ![s][m] = mt],
         UNCHANGED <<stored, pin, overlay, seen, foreign>>
  PROVE  Remounted(s, m, n, mt) /\ Elsewhere(s) /\ TablesWritten
<1>1. Table(mount) /\ Table(spec) /\ Table(overlay) /\ Table(seen) BY Tables, Zenon
<1>2. UNCHANGED <<refs, live, tree, pin, overlay, seen>> BY Zenon DEF InsertMount, stored
<1>3. spec' = [spec EXCEPT ![s][m] = n] BY Zenon DEF InsertMount
<1>4. /\ Table(spec') /\ spec'[s][m] = n
      /\ \A o \in MountPaths : o # m => spec'[s][o] = spec[s][o]
      /\ \A t \in Sessions : t # s => spec'[t] = spec[t]
  BY ONLY <1>1, <1>3, s \in Sessions, m \in MountPaths, Zenon DEF Table
<1>5. /\ Table(mount') /\ mount'[s][m] = mt
      /\ \A o \in MountPaths : o # m => mount'[s][o] = mount[s][o]
      /\ \A t \in Sessions : t # s => mount'[t] = mount[t]
  BY ONLY <1>1, mount' = [mount EXCEPT ![s][m] = mt], s \in Sessions, m \in MountPaths, Zenon DEF Table
<1>6. TablesWritten BY <1>1, <1>2, <1>4, <1>5 DEF TablesWritten, Table
<1> QED BY <1>2, <1>4, <1>5, <1>6, Zenon DEF Remounted, Elsewhere

\* observe, overlay_upsert and overlay_rename write rows of one mount.
Observed(s, m, rows) ==
  /\ seen'[s][m] = rows
  /\ \A o \in MountPaths : o # m => seen'[s][o] = seen[s][o]
  /\ UNCHANGED <<vars, tree, pin, mount, overlay>>
StagedRows(s, m, rows) ==
  /\ overlay'[s][m] = rows
  /\ \A o \in MountPaths : o # m => overlay'[s][o] = overlay[s][o]
  /\ UNCHANGED <<vars, tree, pin, mount, seen>>

LEMMA ObserveWrites ==
  ASSUME LInv, NEW s \in Sessions, NEW m \in MountPaths, NEW rows,
         seen' = [seen EXCEPT ![s][m] = rows], UNCHANGED <<vars, stored, pin, mount, overlay, foreign>>
  PROVE  Observed(s, m, rows) /\ Elsewhere(s) /\ TablesWritten
<1>1. Table(mount) /\ Table(spec) /\ Table(overlay) /\ Table(seen) BY Tables, Zenon
<1>2. UNCHANGED <<vars, tree, pin, mount, overlay>> /\ UNCHANGED <<live, spec>> BY Zenon DEF stored, vars
<1>3. /\ Table(seen') /\ seen'[s][m] = rows
      /\ \A o \in MountPaths : o # m => seen'[s][o] = seen[s][o]
      /\ \A t \in Sessions : t # s => seen'[t] = seen[t]
  BY ONLY <1>1, seen' = [seen EXCEPT ![s][m] = rows], s \in Sessions, m \in MountPaths, Zenon DEF Table
<1>4. TablesWritten BY <1>1, <1>2, <1>3 DEF TablesWritten, Table
<1> QED BY <1>2, <1>3, <1>4, Zenon DEF Observed, Elsewhere

LEMMA StageWrites ==
  ASSUME LInv, NEW s \in Sessions, NEW m \in MountPaths, NEW rows,
         overlay' = [overlay EXCEPT ![s][m] = rows],
         UNCHANGED <<vars, stored, pin, mount, seen, foreign>>
  PROVE  StagedRows(s, m, rows) /\ Elsewhere(s) /\ TablesWritten
<1>1. Table(mount) /\ Table(spec) /\ Table(overlay) /\ Table(seen) BY Tables, Zenon
<1>2. UNCHANGED <<vars, tree, pin, mount, seen>> /\ UNCHANGED <<live, spec>> BY Zenon DEF stored, vars
<1>3. /\ Table(overlay') /\ overlay'[s][m] = rows
      /\ \A o \in MountPaths : o # m => overlay'[s][o] = overlay[s][o]
      /\ \A t \in Sessions : t # s => overlay'[t] = overlay[t]
  BY ONLY <1>1, overlay' = [overlay EXCEPT ![s][m] = rows], s \in Sessions, m \in MountPaths, Zenon DEF Table
<1>4. TablesWritten BY <1>1, <1>2, <1>3 DEF TablesWritten, Table
<1> QED BY <1>2, <1>3, <1>4, Zenon DEF StagedRows, Elsewhere

\* Both ends of a checkin.
Settled(s, m, c) ==
  /\ overlay'[s][m] = Nothing /\ seen'[s][m] = Nothing
  /\ mount'[s][m] \in MountCell /\ mount'[s][m].mode = mount[s][m].mode /\ mount'[s][m].base = c
  /\ \A o \in MountPaths : o # m => /\ overlay'[s][o] = overlay[s][o] /\ seen'[s][o] = seen[s][o]
                                    /\ mount'[s][o] = mount[s][o]
  /\ pin'[s] = IF m = Root THEN c ELSE pin[s]
  /\ pin' \in [Sessions -> Commits \cup {NoOid}]
SettledElsewhere(s) ==
  \A t \in Sessions : t # s => /\ pin'[t] = pin[t] /\ mount'[t] = mount[t]
                               /\ overlay'[t] = overlay[t] /\ seen'[t] = seen[t]

LEMMA SettleWrites ==
  ASSUME LInv, NEW s \in Sessions, NEW m \in MountPaths, NEW c \in Commits, Settle(s, m, c)
  PROVE  /\ Settled(s, m, c) /\ SettledElsewhere(s)
         /\ Table(mount)' /\ Table(overlay)' /\ Table(seen)'
<1>1. Table(mount) /\ Table(overlay) /\ Table(seen) BY Tables, Zenon
<1>2. /\ Table(overlay') /\ overlay'[s][m] = Nothing
      /\ \A o \in MountPaths : o # m => overlay'[s][o] = overlay[s][o]
      /\ \A t \in Sessions : t # s => overlay'[t] = overlay[t]
  <2>1. overlay' = [overlay EXCEPT ![s][m] = Nothing] BY Zenon DEF Settle
  <2> QED BY ONLY <1>1, <2>1, s \in Sessions, m \in MountPaths, Zenon DEF Table
<1>3. /\ Table(seen') /\ seen'[s][m] = Nothing
      /\ \A o \in MountPaths : o # m => seen'[s][o] = seen[s][o]
      /\ \A t \in Sessions : t # s => seen'[t] = seen[t]
  <2>1. seen' = [seen EXCEPT ![s][m] = Nothing] BY Zenon DEF Settle
  <2> QED BY ONLY <1>1, <2>1, s \in Sessions, m \in MountPaths, Zenon DEF Table
<1>4. mount[s][m] \in MountCell BY Tables, Zenon
<1> DEFINE mt == [mount[s][m] EXCEPT !.base = c]
<1>5. mt \in MountCell /\ mt.mode = mount[s][m].mode /\ mt.base = c
  BY <1>4, Zenon DEF MountCell
<1>6. mount' = [mount EXCEPT ![s][m] = mt] BY Zenon DEF Settle
<1> HIDE DEF mt
<1>7. /\ Table(mount') /\ mount'[s][m] = mt
      /\ \A o \in MountPaths : o # m => mount'[s][o] = mount[s][o]
      /\ \A t \in Sessions : t # s => mount'[t] = mount[t]
  BY ONLY <1>1, <1>6, s \in Sessions, m \in MountPaths, Zenon DEF Table
<1>8. /\ pin'[s] = (IF m = Root THEN c ELSE pin[s])
      /\ \A t \in Sessions : t # s => pin'[t] = pin[t]
      /\ pin' \in [Sessions -> Commits \cup {NoOid}]
  BY Tables, Zenon DEF Settle
<1> QED BY <1>2, <1>3, <1>5, <1>7, <1>8, Zenon DEF Settled, SettledElsewhere, Table

\* abandon_session
Closed(s) ==
  /\ live'[s] = NoName /\ pin'[s] = NoOid
  /\ \A m \in MountPaths : /\ spec'[s][m] = NoName /\ mount'[s][m] = NoMount
                           /\ overlay'[s][m] = Nothing /\ seen'[s][m] = Nothing
  /\ pin' \in [Sessions -> Commits \cup {NoOid}]
  /\ UNCHANGED <<refs, tree>>

LEMMA AbandonWrites ==
  ASSUME LInv, NEW k \in Clients, NEW discard, Abandon(k, discard)
  PROVE  Closed(NsOf[k]) /\ Elsewhere(NsOf[k]) /\ TablesWritten
<1> DEFINE s == NsOf[k]
<1>0. s \in Sessions BY SessionConstants, Zenon
<1>1. Table(mount) /\ Table(spec) /\ Table(overlay) /\ Table(seen) BY Tables, Zenon
<1>2. /\ mount' = [mount EXCEPT ![s] = [m \in MountPaths |-> NoMount]]
      /\ overlay' = [overlay EXCEPT ![s] = [m \in MountPaths |-> Nothing]]
      /\ seen' = [seen EXCEPT ![s] = [m \in MountPaths |-> Nothing]]
      /\ spec' = [spec EXCEPT ![s] = [m \in MountPaths |-> NoName]]
      /\ live' = [live EXCEPT ![s] = NoName] /\ pin' = [pin EXCEPT ![s] = NoOid]
      /\ UNCHANGED <<refs, tree>>
  BY Zenon DEF Abandon, AbandonSession, stored
<1>3. /\ live'[s] = NoName /\ pin'[s] = NoOid
      /\ \A t \in Sessions : t # s => pin'[t] = pin[t] /\ live'[t] = live[t]
      /\ pin' \in [Sessions -> Commits \cup {NoOid}]
  BY <1>0, <1>2, Tables, Zenon
<1>4. /\ Table(mount') /\ \A m \in MountPaths : mount'[s][m] = NoMount
      /\ \A t \in Sessions : t # s => mount'[t] = mount[t]
  BY ONLY <1>0, <1>1, <1>2, Zenon DEF Table
<1>5. /\ Table(overlay') /\ \A m \in MountPaths : overlay'[s][m] = Nothing
      /\ \A t \in Sessions : t # s => overlay'[t] = overlay[t]
  BY ONLY <1>0, <1>1, <1>2, Zenon DEF Table
<1>6. /\ Table(seen') /\ \A m \in MountPaths : seen'[s][m] = Nothing
      /\ \A t \in Sessions : t # s => seen'[t] = seen[t]
  BY ONLY <1>0, <1>1, <1>2, Zenon DEF Table
<1>7. /\ Table(spec') /\ \A m \in MountPaths : spec'[s][m] = NoName
      /\ \A t \in Sessions : t # s => spec'[t] = spec[t]
  BY ONLY <1>0, <1>1, <1>2, Zenon DEF Table
<1>8. TablesWritten BY <1>4, <1>5, <1>6, <1>7, Zenon DEF TablesWritten, Table
<1> QED BY <1>2, <1>3, <1>4, <1>5, <1>6, <1>7, <1>8, Zenon DEF Closed, Elsewhere

-----------------------------------------------------------------------------
(* The transactions keep LInv *)

\* A mount row has a mode exactly when the mounts table names a ref for it.
Paired(s) ==
  \A m \in MountPaths : /\ mount[s][m] \in MountCell
                        /\ (mount[s][m].mode = "none") = (spec[s][m] = NoName)

LEMMA ClientTyped ==
  ASSUME LInv, [Next]_vars, NEW k \in Clients, NEW j, JobSet(k, j), JobTyped(j),
         Elsewhere(NsOf[k]), Table(mount)', Table(overlay)', Table(seen)', Paired(NsOf[k])',
         tree' = [c \in Commits |-> tree'[c]], pin' \in [Sessions -> Commits \cup {NoOid}],
         UNCHANGED foreign
  PROVE  LInv'
<1>1. IInv' /\ TypeOK' /\ Exists(Main)' BY LedgerKept, Zenon
<1>2. \A s \in Sessions, m \in MountPaths :
        mount'[s][m] \in MountCell /\ (mount'[s][m].mode = "none") = (spec'[s][m] = NoName)
  <2> SUFFICES ASSUME NEW s \in Sessions, NEW m \in MountPaths
               PROVE  mount'[s][m] \in MountCell /\ (mount'[s][m].mode = "none") = (spec'[s][m] = NoName)
    BY Zenon
  <2>1. CASE s = NsOf[k] BY <2>1, Zenon DEF Paired
  <2>2. CASE s # NsOf[k]
    <3>1. mount'[s] = mount[s] /\ spec'[s] = spec[s] BY <2>2, Zenon DEF Elsewhere
    <3> QED BY <3>1, Tables DEF LInv, SessionTypeOK
  <2> QED BY <2>1, <2>2, Zenon
<1>3. mount' \in [Sessions -> [MountPaths -> MountCell]]
  BY <1>2 DEF Table
<1>4. calls' \in [Clients -> 0..MaxCalls] BY Zenon DEF JobSet
<1>5. SessionTypeOK' BY <1>1, <1>2, <1>3, <1>4, Zenon DEF LInv, SessionTypeOK, MountCell
<1> QED BY <1>1, <1>5, JobWritten, Zenon DEF LInv

LEMMA Cells ==
  ASSUME LInv, NEW s \in Sessions
  PROVE  Paired(s)
  BY Tables, Zenon DEF Paired, LInv, SessionTypeOK

LEMMA CreateTyped ==
  ASSUME LInv, NEW k \in Clients, NEW mountMain \in BOOLEAN, Create(k, mountMain)
  PROVE  LInv' /\ [Next]_vars
<1> DEFINE s == NsOf[k]
           base == job[k].base
<1>0. s \in Sessions BY SessionConstants, Zenon
<1>1. base \in Commits BY Zenon DEF Create, AtPhase, LInv, JobTyped
<1>2. JobSet(k, Idle) BY JobMoves, Zenon DEF Create, Return
<1>3. CASE ReadOnly BY <1>2, <1>3, IdleTyped, QuietTyped, Zenon
<1>4. CASE ~ReadOnly
  <2>1. /\ CreateSession(s, base, mountMain)
        /\ pin'   = [pin EXCEPT ![s] = base]
        /\ mount' = [mount EXCEPT
                       ![s][Root] = [mode |-> "rw", base |-> base],
                       ![s][MainPath] = IF mountMain THEN [mode |-> "ro", base |-> NoOid] ELSE @]
        /\ UNCHANGED <<stored, overlay, seen, foreign>>
    BY <1>4, Zenon DEF Create
  <2>2. Next BY <1>0, <1>1, <2>1, Zenon DEF Next
  <2>3. Created(s, base, mountMain) /\ Elsewhere(s) /\ TablesWritten
    BY <1>0, <1>1, <2>1, CreateWrites, Zenon
  <2>4. LiveRef[s] # NoName /\ Main # NoName BY <1>0, HeadNames, Zenon
  <2>5. Paired(s)'
    BY ONLY LInv, <1>0, <1>1, <2>3, <2>4, Cells DEF Created, Paired, MountCell
  <2>6. tree' = [c \in Commits |-> tree'[c]] BY <2>3, Zenon DEF Created, LInv
  <2>7. pin' \in [Sessions -> Commits \cup {NoOid}] BY <1>1, <2>1, Tables, Zenon
  <2>8. UNCHANGED foreign BY <2>1, Zenon
  <2> QED BY <1>2, <2>2, <2>3, <2>5, <2>6, <2>7, <2>8, IdleTyped, ClientTyped, Zenon DEF TablesWritten
<1> QED BY <1>3, <1>4, Zenon

LEMMA MountTxnTyped ==
  ASSUME LInv, NEW k \in Clients, MountTxn(k)
  PROVE  LInv' /\ [Next]_vars
<1> DEFINE s == NsOf[k]
           m == job[k].m
           mt == [mode |-> job[k].mode, base |-> job[k].base]
<1>0. s \in Sessions BY SessionConstants, Zenon
<1>1. job[k] \in MountJob BY Zenon DEF MountTxn, AtPhase, LInv, JobTyped, Mounting
<1>2. m \in MountPaths /\ job[k].spec \in Names BY <1>1, Zenon DEF MountJob
<1>3. mt \in MountCell /\ mt.mode # "none" BY <1>1, Zenon DEF MountJob, MountCell
<1>4. JobSet(k, Idle) BY JobMoves, Zenon DEF MountTxn, Return
<1>5. InsertMount(s, m, job[k].spec) /\ mount' = [mount EXCEPT ![s][m] = mt]
      /\ UNCHANGED <<stored, pin, overlay, seen, foreign>>
  BY Zenon DEF MountTxn
<1> HIDE DEF mt
<1>6. Remounted(s, m, job[k].spec, mt) /\ Elsewhere(s) /\ TablesWritten
  BY <1>0, <1>2, <1>5, MountWrites, Zenon
<1>7. Next BY <1>0, <1>2, <1>5, Zenon DEF Next
<1>8. job[k].spec # NoName BY <1>2, HeadNames, Zenon
<1>9. Paired(s)'
  BY <1>0, <1>2, <1>3, <1>6, <1>8, Cells, ZenonT(30) DEF Remounted, Paired
<1>10. tree' = [c \in Commits |-> tree'[c]] BY <1>6, Zenon DEF Remounted, LInv
<1>11. pin' \in [Sessions -> Commits \cup {NoOid}] BY <1>5, Tables, Zenon
<1> QED BY <1>4, <1>5, <1>6, <1>7, <1>9, <1>10, <1>11, IdleTyped, ClientTyped, Zenon DEF TablesWritten

\* A step that leaves the ledger, the mounts and the pins as they are.
LEMMA RowsTyped ==
  ASSUME LInv, NEW k \in Clients, NEW j, JobSet(k, j), JobTyped(j),
         Elsewhere(NsOf[k]), TablesWritten, UNCHANGED <<vars, tree, pin, mount, foreign>>
  PROVE  LInv' /\ [Next]_vars
<1>0. NsOf[k] \in Sessions BY SessionConstants, Zenon
<1>1. UNCHANGED vars /\ UNCHANGED <<spec, tree, pin, mount, foreign>> BY Zenon DEF vars
<1>2. Paired(NsOf[k])' BY <1>0, <1>1, Cells, Zenon DEF Paired
<1>3. tree' = [c \in Commits |-> tree'[c]] BY <1>1, Zenon DEF LInv
<1>4. pin' \in [Sessions -> Commits \cup {NoOid}] BY <1>1, Tables, Zenon
<1> QED BY <1>1, <1>2, <1>3, <1>4, ClientTyped, Zenon DEF TablesWritten

LEMMA ObserveTyped ==
  ASSUME LInv, NEW k \in Clients, Observe(k)
  PROVE  LInv' /\ [Next]_vars
<1> DEFINE s == NsOf[k]
           m == job[k].m
           j == [phase |-> "move", m |-> m, rel |-> job[k].rel, to |-> job[k].to,
                 rows |-> Destinations(job[k].rows, job[k].tree, job[k].rel, job[k].to)]
<1>0. s \in Sessions BY SessionConstants, Zenon
<1>1. m \in MountPaths BY Zenon DEF Observe, AtPhase, LInv, JobTyped, InMount
<1>2. /\ seen' = [seen EXCEPT ![s][m] = With(seen[s][m], job[k].rel, job[k].saw)]
      /\ UNCHANGED <<vars, stored, pin, mount, overlay, foreign>>
  BY Zenon DEF Observe
<1>3. Elsewhere(s) /\ TablesWritten BY <1>0, <1>1, <1>2, ObserveWrites, Zenon
<1>4. UNCHANGED <<vars, tree, pin, mount, foreign>> BY <1>2, Zenon DEF stored
<1>5. JobTyped(j) BY <1>1, LookTyped, Zenon
<1>6. Go(k, Idle) \/ Go(k, j) BY Zenon DEF Observe, Return
<1> HIDE DEF j
<1> QED BY <1>3, <1>4, <1>5, <1>6, IdleTyped, JobMoves, RowsTyped, Zenon

LEMMA StageTyped ==
  ASSUME LInv, NEW k \in Clients, Move(k) \/ Upsert(k)
  PROVE  LInv' /\ [Next]_vars
<1> DEFINE s == NsOf[k]
           m == job[k].m
<1>0. s \in Sessions BY SessionConstants, Zenon
<1>1. m \in MountPaths BY Zenon DEF Move, Upsert, AtPhase, LInv, JobTyped, InMount
<1>2. UNCHANGED <<vars, stored, pin, mount, seen, foreign>> /\ Go(k, Idle)
  BY Zenon DEF Move, Upsert, Return
<1>3. JobSet(k, Idle) BY <1>2, JobMoves, Zenon
<1>4. \/ UNCHANGED overlay
      \/ \E rows : overlay' = [overlay EXCEPT ![s][m] = rows]
  BY Zenon DEF Move, Upsert
<1>5. CASE UNCHANGED overlay
  <2>1. ReadOnly BY <1>2, <1>5, Zenon DEF ReadOnly, sessionTables
  <2> QED BY <1>3, <2>1, IdleTyped, QuietTyped, Zenon
<1>6. CASE \E rows : overlay' = [overlay EXCEPT ![s][m] = rows]
  <2>1. PICK rows : overlay' = [overlay EXCEPT ![s][m] = rows] BY <1>6, Zenon
  <2>2. Elsewhere(s) /\ TablesWritten BY <1>0, <1>1, <1>2, <2>1, StageWrites, Zenon
  <2>3. UNCHANGED <<vars, tree, pin, mount, foreign>> BY <1>2, Zenon DEF stored
  <2> QED BY <1>3, <2>2, <2>3, IdleTyped, RowsTyped, Zenon
<1> QED BY <1>4, <1>5, <1>6, Zenon

\* The table half of complete_noop_session and of cas_ref_session.
LEMMA SettlePaired ==
  ASSUME LInv, NEW s \in Sessions, NEW m \in MountPaths, NEW c \in Commits,
         Settled(s, m, c), spec[s][m] # NoName, spec'[s][m] # NoName,
         \A o \in MountPaths : o # m => spec'[s][o] = spec[s][o]
  PROVE  Paired(s)'
<1>1. Paired(s) BY Cells, Zenon
<1> QED BY <1>1 DEF Paired, Settled

LEMMA NoopTyped ==
  ASSUME LInv, NEW k \in Clients, NoopTxn(k)
  PROVE  LInv' /\ [Next]_vars
<1> DEFINE s == NsOf[k]
           m == job[k].m
<1>0. s \in Sessions BY SessionConstants, Zenon
<1>1. m \in MountPaths /\ job[k].base \in Commits
  BY Zenon DEF NoopTxn, AtPhase, LInv, JobTyped, InMount
<1>2. UNCHANGED <<vars, stored, foreign>> /\ Go(k, Idle) BY Zenon DEF NoopTxn, Return
<1>3. JobSet(k, Idle) BY <1>2, JobMoves, Zenon
<1>4. CASE UNCHANGED sessionTables
  <2>1. ReadOnly BY <1>2, <1>4, Zenon DEF ReadOnly
  <2> QED BY <1>3, <2>1, IdleTyped, QuietTyped, Zenon
<1>5. CASE spec[s][m] # NoName /\ Settle(s, m, job[k].base)
  <2>1. /\ Settled(s, m, job[k].base) /\ SettledElsewhere(s)
        /\ Table(mount)' /\ Table(overlay)' /\ Table(seen)'
    BY <1>0, <1>1, <1>5, SettleWrites, Zenon
  <2>2. UNCHANGED <<vars, live, spec, tree, foreign>> BY <1>2, Zenon DEF vars, stored
  <2>3. Elsewhere(s) BY <2>1, <2>2, Zenon DEF SettledElsewhere, Elsewhere
  <2>4. Paired(s)' BY <1>0, <1>1, <1>5, <2>1, <2>2, SettlePaired, Zenon
  <2>5. tree' = [c \in Commits |-> tree'[c]] BY <2>2, Zenon DEF LInv
  <2>6. pin' \in [Sessions -> Commits \cup {NoOid}] BY <2>1, Zenon DEF Settled
  <2>7. [Next]_vars /\ UNCHANGED foreign BY <2>2, Zenon
  <2> QED BY <1>3, <2>1, <2>3, <2>4, <2>5, <2>6, <2>7, IdleTyped, ClientTyped, Zenon
<1> QED BY <1>4, <1>5, Zenon DEF NoopTxn

\* The two outcomes of cas_ref_session that write.
LEMMA CasSpec ==
  ASSUME LInv, NEW s \in Sessions, NEW m \in MountPaths, NEW n, NEW e, NEW c,
         CasRefSession(s, m, n, e, c)
  PROVE  /\ live' = live /\ spec[s][m] # NoName
         /\ spec'[s][m] # NoName /\ (spec'[s][m] = spec[s][m] \/ spec'[s][m] \in Forks)
         /\ \A o \in MountPaths : o # m => spec'[s][o] = spec[s][o]
         /\ \A t \in Sessions : t # s => spec'[t] = spec[t]
         /\ Table(spec)'
<1>1. Table(spec) BY Tables, Zenon
<1>2. live' = live /\ spec[s][m] # NoName BY Zenon DEF CasRefSession
<1>3. CASE UNCHANGED spec BY <1>1, <1>2, <1>3, Zenon DEF Table
<1>4. CASE \E f \in Forks : spec' = [spec EXCEPT ![s][m] = f]
  <2>1. PICK f \in Forks : spec' = [spec EXCEPT ![s][m] = f] BY <1>4, Zenon
  <2>2. f # NoName BY HeadNames, Zenon
  <2>3. /\ Table(spec') /\ spec'[s][m] = f
        /\ \A o \in MountPaths : o # m => spec'[s][o] = spec[s][o]
        /\ \A t \in Sessions : t # s => spec'[t] = spec[t]
    BY ONLY <1>1, <2>1, s \in Sessions, m \in MountPaths, Zenon DEF Table
  <2> QED BY <1>2, <2>2, <2>3, Zenon DEF Table
<1> QED BY <1>3, <1>4, Zenon DEF CasRefSession

\* What the publishing transaction of a checkin does.
Published(k, c) ==
  LET s == NsOf[k]  j == job[k] IN
  /\ c \in Commits /\ Fresh(c)
  /\ tree' = [tree EXCEPT ![c] = j.tree]
  /\ CasRefSession(s, j.m, j.spec, j.contrib.base, c)
  /\ Settled(s, j.m, c) /\ Elsewhere(s) /\ TablesWritten

LEMMA CasWrites ==
  ASSUME LInv, NEW k \in Clients, CasTxn(k), ~ReadOnly
  PROVE  \E c \in Commits : Published(k, c)
<1> DEFINE s == NsOf[k]
           j == job[k]
<1>0. s \in Sessions BY SessionConstants, Zenon
<1>1. j.m \in MountPaths BY Zenon DEF CasTxn, AtPhase, LInv, JobTyped, InMount
<1>2. PICK c \in Commits : /\ Fresh(c) /\ tree' = [tree EXCEPT ![c] = j.tree]
                           /\ CasRefSession(s, j.m, j.spec, j.contrib.base, c)
                           /\ Settle(s, j.m, c)
  BY Zenon DEF CasTxn, ReadOnly
<1>3. /\ Settled(s, j.m, c) /\ SettledElsewhere(s)
      /\ Table(mount)' /\ Table(overlay)' /\ Table(seen)'
  BY <1>0, <1>1, <1>2, SettleWrites, Zenon
<1>4. live' = live /\ Table(spec)' /\ \A t \in Sessions : t # s => spec'[t] = spec[t]
  BY <1>0, <1>1, <1>2, CasSpec, Zenon
<1>5. Elsewhere(s) /\ TablesWritten BY <1>3, <1>4, Zenon DEF SettledElsewhere, Elsewhere, TablesWritten
<1> QED BY <1>2, <1>3, <1>5, Zenon DEF Published

LEMMA CasTyped ==
  ASSUME LInv, NEW k \in Clients, CasTxn(k)
  PROVE  LInv' /\ [Next]_vars
<1> DEFINE s == NsOf[k]
           j == job[k]
<1>0. s \in Sessions BY SessionConstants, Zenon
<1>1. j.m \in MountPaths /\ j.spec \in Names /\ j.contrib.base \in Commits
  BY Zenon DEF CasTxn, AtPhase, LInv, JobTyped, InMount
<1>2. JobSet(k, Idle) /\ UNCHANGED foreign BY JobMoves, Zenon DEF CasTxn, Return
<1>3. CASE ReadOnly BY <1>2, <1>3, IdleTyped, QuietTyped, Zenon
<1>4. CASE ~ReadOnly
  <2>1. PICK c \in Commits : Published(k, c) BY <1>4, CasWrites, Zenon
  <2>2. CasRefSession(s, j.m, j.spec, j.contrib.base, c) /\ tree' = [tree EXCEPT ![c] = j.tree]
        /\ Settled(s, j.m, c) /\ Elsewhere(s) /\ TablesWritten
    BY <2>1, Zenon DEF Published
  <2>3. Next BY <1>0, <1>1, <2>2, Zenon DEF Next
  <2>4. Paired(s)'
    <3>1. /\ spec[s][j.m] # NoName /\ spec'[s][j.m] # NoName
          /\ \A o \in MountPaths : o # j.m => spec'[s][o] = spec[s][o]
      BY <1>0, <1>1, <2>2, CasSpec, Zenon
    <3> QED BY <1>0, <1>1, <2>2, <3>1, SettlePaired, Zenon
  <2>5. tree' = [d \in Commits |-> tree'[d]] BY <2>2, Zenon DEF LInv
  <2>6. pin' \in [Sessions -> Commits \cup {NoOid}] BY <2>2, Zenon DEF Settled
  <2> QED BY <1>2, <2>2, <2>3, <2>4, <2>5, <2>6, IdleTyped, ClientTyped, Zenon DEF TablesWritten
<1> QED BY <1>3, <1>4, Zenon

LEMMA AbandonTyped ==
  ASSUME LInv, NEW k \in Clients, NEW discard, Abandon(k, discard)
  PROVE  LInv' /\ [Next]_vars
<1> DEFINE s == NsOf[k]
<1>0. s \in Sessions BY SessionConstants, Zenon
<1>1. Closed(s) /\ Elsewhere(s) /\ TablesWritten BY AbandonWrites, Zenon
<1>2. AbandonSession(s) /\ job' = job /\ UNCHANGED foreign BY Zenon DEF Abandon
<1>3. Next BY <1>0, <1>2, Zenon DEF Next
<1>4. IInv' /\ TypeOK' /\ Exists(Main)' BY <1>3, LedgerKept, Zenon
<1>5. calls' \in [Clients -> 0..MaxCalls] BY CallsBegin, Zenon DEF Abandon
<1>6. JobSet(k, job[k])
  <2>1. \A l \in Clients : l # k => calls'[l] = calls[l] BY Zenon DEF Abandon, LInv, SessionTypeOK
  <2>2. job' = [job EXCEPT ![k] = job[k]] BY <1>2, Zenon DEF LInv
  <2> QED BY <1>5, <2>1, <2>2, Zenon DEF JobSet
<1>7. Paired(s)' BY <1>1 DEF Closed, Paired, NoMount, MountCell
<1>8. tree' = [c \in Commits |-> tree'[c]] BY <1>1, Zenon DEF Closed, LInv
<1>9. pin' \in [Sessions -> Commits \cup {NoOid}] BY <1>1, Zenon DEF Closed
<1>10. JobTyped(job[k]) BY Zenon DEF LInv
<1> QED BY <1>1, <1>2, <1>3, <1>6, <1>7, <1>8, <1>9, <1>10, ClientTyped, Zenon DEF TablesWritten

\* The other agents leave the sessions alone.
LEMMA OthersStep ==
  ASSUME LInv, Others
  PROVE  /\ Next /\ UNCHANGED <<live, spec, sessionTables, job, calls>>
         /\ foreign' \in 0..MaxForeign
         /\ \/ UNCHANGED tree
            \/ \E c \in Commits, t \in Foreign : Fresh(c) /\ CanMake /\ tree' = [tree EXCEPT ![c] = t]
<1>0. foreign \in 0..MaxForeign BY Zenon DEF LInv, SessionTypeOK
<1>1. CASE Branch
  <2>1. refs[Main].oid \in Commits BY HeadNames, RefCommit, Zenon DEF LInv
  <2>2. Next BY <1>1, <2>1, HeadNames, CommitObjects, Zenon DEF Branch, Next
  <2> QED BY <1>0, <1>1, <2>2, Zenon DEF Branch, InsertRef, stored
<1>2. ASSUME NEW n \in {Main, Shared}, NEW t \in Foreign, Publish(n, t)
      PROVE  /\ Next /\ UNCHANGED <<live, spec, sessionTables, job, calls>>
             /\ foreign' \in 0..MaxForeign
             /\ \E c \in Commits : Fresh(c) /\ CanMake /\ tree' = [tree EXCEPT ![c] = t]
  <2>1. n \in Names /\ n \in Heads BY HeadNames, Zenon
  <2>2. refs[n].oid \in Commits BY <1>2, <2>1, RefCommit, Zenon DEF Publish, LInv
  <2>3. PICK c \in Commits : Fresh(c) /\ CasRef(n, "commit", refs[n].oid, c, TRUE)
                             /\ tree' = [tree EXCEPT ![c] = t]
    BY <1>2, Zenon DEF Publish
  <2>4. Next BY <2>1, <2>2, <2>3, CommitObjects, Zenon DEF Next
  <2>5. foreign' \in 0..MaxForeign BY <1>0, <1>2, SessionConstants DEF Publish
  <2> QED BY <1>2, <2>3, <2>4, <2>5, Zenon DEF Publish, CasRef
<1>3. ASSUME NEW f \in Forks, Retire(f)
      PROVE  /\ Next /\ UNCHANGED <<live, spec, sessionTables, job, calls, tree, foreign>>
  <2>1. Next BY <1>3, HeadNames, Zenon DEF Retire, Next
  <2> QED BY <1>3, <2>1, Zenon DEF Retire, AbandonRef, stored
<1> QED BY <1>0, <1>1, <1>2, <1>3, Zenon DEF Others

LEMMA OthersTyped ==
  ASSUME LInv, Others
  PROVE  LInv' /\ [Next]_vars
<1>1. /\ Next /\ UNCHANGED <<spec, pin, mount, overlay, seen, job, calls>>
      /\ foreign' \in 0..MaxForeign
  BY OthersStep, Zenon DEF sessionTables
<1>2. tree' = [c \in Commits |-> tree'[c]] BY OthersStep, Zenon DEF LInv
<1>3. IInv' /\ TypeOK' /\ Exists(Main)' BY <1>1, LedgerKept, Zenon
<1>4. SessionTypeOK' BY <1>1, <1>3, Zenon DEF LInv, SessionTypeOK
<1>5. Table(mount)' /\ Table(overlay)' /\ Table(seen)' BY <1>1, Zenon DEF LInv, Table
<1> QED BY <1>1, <1>2, <1>3, <1>4, <1>5, Zenon DEF LInv

-----------------------------------------------------------------------------
(* The composition *)

LEMMA SessionStarts == SessionInit => LInv
<1> SUFFICES ASSUME SessionInit PROVE LInv BY Zenon
<1>1. IInv /\ TypeOK BY InitInv, Zenon DEF SessionInit, IInv
<1>2. Exists(Main) BY HeadNames, OidTypes, Zenon DEF SessionInit, Init, Exists, Oids
<1>3. /\ pin \in [Sessions -> Commits \cup {NoOid}]
      /\ \A s \in Sessions, m \in MountPaths : mount[s][m] = NoMount /\ spec[s][m] = NoName
      /\ calls \in [Clients -> 0..MaxCalls] /\ foreign \in 0..MaxForeign
  BY ONLY SessionInit, SessionConstants DEF SessionInit, Init
<1>4. NoMount \in MountCell /\ NoMount.mode = "none" BY Zenon DEF NoMount, MountCell
<1>5. mount \in [Sessions -> [MountPaths -> MountCell]] BY <1>4, Zenon DEF SessionInit
<1>6. SessionTypeOK BY <1>1, <1>3, <1>4, <1>5, Zenon DEF SessionTypeOK, MountCell
<1>7. Table(mount) /\ Table(overlay) /\ Table(seen) BY Zenon DEF SessionInit, Table
<1>8. tree = [c \in Commits |-> tree[c]] BY Zenon DEF SessionInit
<1>9. job = [k \in Clients |-> job[k]] /\ \A k \in Clients : job[k] = Idle BY Zenon DEF SessionInit
<1>10. \A k \in Clients : JobTyped(job[k]) BY <1>9, IdleTyped, Zenon
<1> QED BY <1>1, <1>2, <1>6, <1>7, <1>8, <1>9, <1>10, Zenon DEF LInv

LEMMA SessionStepTyped ==
  ASSUME LInv, [SessionNext]_svars
  PROVE  LInv' /\ [Next]_vars
<1>1. ASSUME NEW k \in Clients, Call(k) PROVE LInv' /\ [Next]_vars
  BY <1>1, SessionOpenTyped, MountCallTyped, ReadCallTyped, StageCallTyped, RenameCallTyped,
     CheckinCallTyped, AbandonTyped, Zenon DEF Call
<1>2. ASSUME NEW k \in Clients, Step(k) PROVE LInv' /\ [Next]_vars
  BY <1>2, CreateTyped, RefuseRetargetingTyped, MountTxnTyped, LookStepTyped, ObserveTyped,
     StageTyped, CheckinStepsTyped, NoopTyped, CasTyped, Zenon DEF Step
<1>3. ASSUME NEW k \in Clients, Drain(k) PROVE LInv' /\ [Next]_vars
  BY <1>3, DrainReadTyped, CheckinCallTyped, Zenon DEF Drain
<1>4. CASE UNCHANGED svars
  <2>1. UNCHANGED <<vars, spec, tree, pin, mount, overlay, seen, job, calls, foreign>>
    BY <1>4, Zenon DEF svars, vars, stored, sessionTables
  <2>2. IInv' /\ TypeOK' /\ Exists(Main)' BY <2>1, LedgerKept, Zenon
  <2>3. SessionTypeOK' BY <2>1, <2>2, Zenon DEF LInv, SessionTypeOK
  <2>4. Table(mount)' /\ Table(overlay)' /\ Table(seen)' BY <2>1, Zenon DEF LInv, Table
  <2>5. tree' = [c \in Commits |-> tree'[c]] BY <2>1, Zenon DEF LInv
  <2> QED BY <2>1, <2>2, <2>3, <2>4, <2>5, Zenon DEF LInv
<1> QED BY <1>1, <1>2, <1>3, <1>4, OthersTyped, Zenon DEF SessionNext

\* The invariant of the composition is inductive.
THEOREM SessionsInductive == SessionSpec => []LInv
<1> QED BY SessionStarts, SessionStepTyped, PTL DEF SessionSpec

\* Every step of every call of the session API is a transaction of the ref
\* ledger or leaves it alone, with arguments the ledger accepts: what the API
\* read before it called is in range whatever happened since.  Every theorem
\* about the ledger therefore holds of the session plane.
THEOREM SessionsUseTheLedger == SessionSpec => Spec
<1>1. SessionInit => Init BY Zenon DEF SessionInit
<1>2. LInv /\ [SessionNext]_svars => [Next]_vars BY SessionStepTyped, Zenon
<1> QED BY <1>1, <1>2, SessionsInductive, PTL DEF SessionSpec, Spec

\* The columns of the session tables hold what they may, and a mount row has a
\* mode exactly when it names a ref.
THEOREM SessionTypesHold == SessionSpec => []SessionTypeOK
<1>1. LInv => SessionTypeOK BY Zenon DEF LInv
<1> QED BY <1>1, SessionsInductive, PTL

-----------------------------------------------------------------------------
(* The audit of the catalog finds nothing when every session has one client *)

\* Clients mount refs that no transaction retires.
StableMounts == \A mn \in Mountable : mn[2] \notin Retirable

-----------------------------------------------------------------------------
(* The inductive invariant of the audit *)

\* Needed by AuditClean: what a call is about to write belongs to an open
\* session and to one of its mounts, and the ref it is about to mount is there.
RowsBelong(s) ==
  /\ Open(s) => pin[s] # NoOid
  /\ \A m \in MountPaths :
       /\ HasMount(s, m) => Open(s) /\ Exists(spec[s][m])
       /\ overlay[s][m] # Nothing \/ seen[s][m] # Nothing => Open(s) /\ HasMount(s, m)
Belongs(s, j) ==
  /\ j.phase \in Mounting \cup InMount => Open(s)
  /\ j.phase \in Mounting => j.spec \notin Retirable /\ Exists(j.spec)
  /\ j.phase \in InMount => HasMount(s, j.m)
AInv == (\A s \in Sessions : RowsBelong(s)) /\ (\A k \in Clients : Belongs(NsOf[k], job[k]))

-----------------------------------------------------------------------------
(* The rows of the other sessions *)

\* The rows of session s stay as they are.
Same(s) ==
  /\ pin'[s] = pin[s] /\ live'[s] = live[s] /\ spec'[s] = spec[s]
  /\ mount'[s] = mount[s] /\ overlay'[s] = overlay[s] /\ seen'[s] = seen[s]

\* A ref that a mount names is held.
LEMMA MountedRef ==
  ASSUME LInv, NEW s \in Sessions, NEW m \in MountPaths, HasMount(s, m)
  PROVE  spec[s][m] \in Names /\ Held(spec[s][m])
<1>1. spec[s][m] # NoName /\ spec[s][m] \in Names \cup {NoName}
  BY Tables, Zenon DEF HasMount, LInv, SessionTypeOK
<1> QED BY <1>1, Zenon DEF Held

\* No step of others detaches a row of a session from its namespace, its mount
\* or its ref.
LEMMA RowsStay ==
  ASSUME LInv, [Next]_vars, NEW s \in Sessions, RowsBelong(s), Same(s)
  PROVE  RowsBelong(s)'
<1>1. IInv BY Zenon DEF LInv
<1>2. \A m \in MountPaths : HasMount(s, m) => Exists(spec[s][m])'
  BY <1>1, MountedRef, RefStays, Zenon DEF RowsBelong, Same, Exists
<1> QED BY <1>2, Zenon DEF RowsBelong, Same, HasMount, Open, Exists

LEMMA JobStays ==
  ASSUME LInv, [Next]_vars, NEW k \in Clients, Belongs(NsOf[k], job[k]),
         Same(NsOf[k]), job'[k] = job[k]
  PROVE  Belongs(NsOf[k], job[k])'
<1>1. IInv /\ JobTyped(job[k]) BY Zenon DEF LInv
<1>2. job[k].phase \in Mounting => job[k].spec \in Names BY <1>1, Zenon DEF JobTyped, MountJob
<1>3. job[k].phase \in Mounting => refs'[job[k].spec].oid # NoOid
  BY <1>1, <1>2, RefStays, Zenon DEF Belongs, Exists
<1> QED BY <1>3, Zenon DEF Belongs, Same, HasMount, Open, Exists

\* A step that only reads.
LEMMA QuietBelongs ==
  ASSUME LInv, AInv, NEW k \in Clients, NEW j, JobSet(k, j), JobTyped(j), ReadOnly,
         Belongs(NsOf[k], j)
  PROVE  AInv'
<1>1. UNCHANGED <<refs, live, spec, pin, mount, overlay, seen>>
  BY Zenon DEF ReadOnly, vars, sessionTables
<1>2. job'[k] = j /\ \A l \in Clients : l # k => job'[l] = job[l] BY JobWritten, Zenon
<1>3. \A s \in Sessions : RowsBelong(s)'
  BY <1>1, Zenon DEF AInv, RowsBelong, HasMount, Open, Exists
<1>4. ASSUME NEW l \in Clients PROVE Belongs(NsOf[l], job[l])'
  <2>1. Belongs(NsOf[l], job'[l]) BY <1>2, Zenon DEF AInv
  <2> QED BY <1>1, <2>1, Zenon DEF Belongs, HasMount, Open, Exists
<1> QED BY <1>3, <1>4, Zenon DEF AInv

\* A transaction of the one client of a session.
LEMMA ClientBelongs ==
  ASSUME LInv, AInv, OneClient, [Next]_vars, NEW k \in Clients, Elsewhere(NsOf[k]),
         \A l \in Clients : l # k => job'[l] = job[l],
         RowsBelong(NsOf[k])', Belongs(NsOf[k], job[k])'
  PROVE  AInv'
<1>0. NsOf \in [Clients -> Sessions] BY SessionConstants, Zenon
<1>1. \A s \in Sessions : s # NsOf[k] => Same(s) BY Zenon DEF Elsewhere, Same
<1>2. \A s \in Sessions : RowsBelong(s)'
  <2> SUFFICES ASSUME NEW s \in Sessions PROVE RowsBelong(s)' BY Zenon
  <2>1. CASE s = NsOf[k] BY <2>1, Zenon
  <2>2. CASE s # NsOf[k] BY <1>1, <2>2, RowsStay, Zenon DEF AInv
  <2> QED BY <2>1, <2>2, Zenon
<1>3. ASSUME NEW l \in Clients PROVE Belongs(NsOf[l], job[l])'
  <2>1. CASE l = k BY <2>1, Zenon
  <2>2. CASE l # k
    <3>1. NsOf[l] # NsOf[k] /\ NsOf[l] \in Sessions BY <1>0, <2>2, Zenon DEF OneClient
    <3>2. Same(NsOf[l]) BY <1>1, <3>1, Zenon
    <3> QED BY <2>2, <3>2, JobStays, Zenon DEF AInv
  <2> QED BY <2>1, <2>2, Zenon
<1> QED BY <1>2, <1>3, Zenon DEF AInv

\* A finished call holds nothing.
LEMMA IdleBelongs ==
  ASSUME NEW s PROVE Belongs(s, Idle)
  BY Zenon DEF Belongs, Idle, Mounting, InMount

LEMMA FinishedBelongs ==
  ASSUME LInv, NEW k \in Clients, JobSet(k, Idle)
  PROVE  /\ Belongs(NsOf[k], job[k])'
         /\ \A l \in Clients : l # k => job'[l] = job[l]
<1>1. job'[k] = Idle /\ \A l \in Clients : l # k => job'[l] = job[l]
  BY IdleTyped, JobWritten, Zenon
<1> QED BY <1>1 DEF Belongs, Idle, Mounting, InMount

LEMMA OthersBelong ==
  ASSUME LInv, AInv, Others
  PROVE  AInv'
<1>1. [Next]_vars /\ UNCHANGED <<live, spec, pin, mount, overlay, seen, job>>
  BY OthersStep, Zenon DEF sessionTables
<1>2. \A s \in Sessions : Same(s) BY <1>1, Zenon DEF Same
<1>3. NsOf \in [Clients -> Sessions] BY SessionConstants, Zenon
<1>4. \A s \in Sessions : RowsBelong(s)' BY <1>1, <1>2, RowsStay, Zenon DEF AInv
<1>5. \A l \in Clients : Belongs(NsOf[l], job[l])' BY <1>1, <1>2, <1>3, JobStays, Zenon DEF AInv
<1> QED BY <1>4, <1>5, Zenon DEF AInv

\* A call that works in a mount of its open session.
LEMMA InMountBelongs ==
  ASSUME NEW s, NEW j, j.phase \in InMount, Open(s), HasMount(s, j.m)
  PROVE  Belongs(s, j)
  BY Zenon DEF Belongs, InMount, Mounting

LEMMA MountCallBelongs ==
  ASSUME LInv, AInv, StableMounts, NEW k \in Clients, NEW mn \in Mountable, NEW rw \in BOOLEAN,
         MountCall(k, mn[1], mn[2], rw)
  PROVE  AInv'
<1> DEFINE m == mn[1]
           n == mn[2]
           j == [phase |-> "retarget", m |-> m, spec |-> n,
                 mode |-> IF rw THEN "rw" ELSE "ro",
                 base |-> IF rw THEN refs[n].oid ELSE NoOid]
<1>1. m \in MountPaths /\ n \in Names BY SessionConstants, Zenon
<1>2. Exists(n) /\ Open(NsOf[k]) /\ (rw => refs[n].kind = "commit") BY Zenon DEF MountCall
<1>3. rw => refs[n].oid \in Commits BY <1>1, <1>2, RefCommit, Zenon DEF LInv
<1>4. j \in MountJob BY <1>1, <1>3, Zenon DEF MountJob, Mounting
<1>5. j.mode = "rw" => j.base # NoOid BY <1>3, OidTypes, Zenon DEF Oids
<1>6. j.phase = "retarget" /\ j.spec = n BY Zenon
<1>7. Begin(k, j) /\ ReadOnly BY Zenon DEF MountCall
<1> HIDE DEF j
<1>8. JobTyped(j) BY <1>4, <1>5, <1>6, Zenon DEF JobTyped, Mounting, InMount, Checking
<1>9. Belongs(NsOf[k], j)
  BY <1>2, <1>6, Zenon DEF Belongs, StableMounts, Mounting, InMount
<1> QED BY <1>7, <1>8, <1>9, JobMoves, QuietBelongs, Zenon

LEMMA RefuseRetargetingBelongs ==
  ASSUME LInv, AInv, NEW k \in Clients, RefuseRetargeting(k)
  PROVE  AInv'
<1> DEFINE j == [job[k] EXCEPT !.phase = "insert"]
<1>1. job[k].phase = "retarget" /\ JobTyped(job[k]) BY Zenon DEF RefuseRetargeting, AtPhase, LInv
<1>2. job[k] \in MountJob /\ (job[k].mode = "rw" => job[k].base # NoOid)
  BY <1>1, Zenon DEF JobTyped, Mounting
<1>3. /\ j \in MountJob /\ (j.mode = "rw" => j.base # NoOid) /\ j.phase = "insert"
      /\ j.spec = job[k].spec
  BY <1>2, Zenon DEF MountJob, Mounting
<1>4. ReadOnly /\ (Go(k, j) \/ Go(k, Idle)) BY Zenon DEF RefuseRetargeting, Return
<1> HIDE DEF j
<1>5. JobTyped(j) BY <1>3, Zenon DEF JobTyped, Mounting, InMount, Checking
<1>6. Belongs(NsOf[k], job[k]) BY Zenon DEF AInv
<1>7. Belongs(NsOf[k], j) BY <1>1, <1>3, <1>6, Zenon DEF Belongs, Mounting, InMount
<1> QED BY <1>4, <1>5, <1>7, IdleTyped, IdleBelongs, JobMoves, QuietBelongs, Zenon

\* The calls that find their mount in what list_mounts returned.
LEMMA FoundMount ==
  ASSUME LInv, NEW s \in Sessions, NEW a, Covering(Mounts(s), a) # {}
  PROVE  /\ LongestMount(Mounts(s), a) \in MountPaths
         /\ HasMount(s, LongestMount(Mounts(s), a))
<1>1. LongestMount(Mounts(s), a) \in MountPaths /\ Has(Mounts(s), LongestMount(Mounts(s), a))
  BY Longest, Zenon
<1> QED BY <1>1, MountsTyped, Zenon DEF Has, HasMount

LEMMA PathCallBelongs ==
  ASSUME LInv, AInv, NEW k \in Clients,
         \/ \E a : ReadCall(k, a)
         \/ \E a, v : StageCall(k, a, v)
         \/ \E a, b : RenameCall(k, a, b)
  PROVE  AInv'
<1> DEFINE s == NsOf[k]
           mts == Mounts(s)
<1>0. s \in Sessions BY SessionConstants, Zenon
<1>1. ASSUME NEW a, ReadCall(k, a) PROVE AInv'
  <2> DEFINE m == LongestMount(mts, a)
             j == [phase |-> "look", m |-> m, mt |-> mts[m], rel |-> RelOf(m, a), to |-> Nothing]
  <2>1. m \in MountPaths /\ HasMount(s, m) /\ Open(s) BY <1>0, <1>1, FoundMount, Zenon DEF ReadCall
  <2>2. JobTyped(j) BY <2>1, LookTyped, Zenon
  <2>3. j.phase = "look" /\ j.m = m BY Zenon
  <2>4. Begin(k, j) /\ ReadOnly BY <1>1, Zenon DEF ReadCall
  <2> HIDE DEF j
  <2>5. Belongs(s, j) BY <2>1, <2>3, InMountBelongs DEF InMount
  <2> QED BY <2>2, <2>4, <2>5, JobMoves, QuietBelongs, Zenon
<1>2. ASSUME NEW a, NEW v, StageCall(k, a, v) PROVE AInv'
  <2> DEFINE m == LongestMount(mts, a)
             j == [phase |-> "stage", m |-> m, rel |-> RelOf(m, a), val |-> v]
  <2>1. m \in MountPaths /\ HasMount(s, m) /\ Open(s) BY <1>0, <1>2, FoundMount, Zenon DEF StageCall
  <2>2. JobTyped(j) BY <2>1, LookTyped, Zenon
  <2>3. j.phase = "stage" /\ j.m = m BY Zenon
  <2>4. Begin(k, j) /\ ReadOnly BY <1>2, Zenon DEF StageCall
  <2> HIDE DEF j
  <2>5. Belongs(s, j) BY <2>1, <2>3, InMountBelongs DEF InMount
  <2> QED BY <2>2, <2>4, <2>5, JobMoves, QuietBelongs, Zenon
<1>3. ASSUME NEW a, NEW b, RenameCall(k, a, b) PROVE AInv'
  <2> DEFINE m == LongestMount(mts, a)
             j == [phase |-> "look", m |-> m, mt |-> mts[m], rel |-> RelOf(m, a), to |-> RelOf(m, b)]
  <2>1. m \in MountPaths /\ HasMount(s, m) /\ Open(s) BY <1>0, <1>3, FoundMount, Zenon DEF RenameCall
  <2>2. JobTyped(j) BY <2>1, LookTyped, Zenon
  <2>3. j.phase = "look" /\ j.m = m BY Zenon
  <2>4. Begin(k, j) /\ ReadOnly BY <1>3, Zenon DEF RenameCall
  <2> HIDE DEF j
  <2>5. Belongs(s, j) BY <2>1, <2>3, InMountBelongs DEF InMount
  <2> QED BY <2>2, <2>4, <2>5, JobMoves, QuietBelongs, Zenon
<1> QED BY <1>1, <1>2, <1>3, Zenon

LEMMA DrainReadBelongs ==
  ASSUME LInv, AInv, NEW k \in Clients, DrainRead(k)
  PROVE  AInv'
<1> DEFINE s == NsOf[k]
<1>0. s \in Sessions BY SessionConstants, Zenon
<1>1. PICK m \in MountPaths : \E p \in DOMAIN seen[s][m] :
         /\ StaleAt(s, Mounts(s), m, p)
         /\ Go(k, [phase |-> "look", m |-> m, mt |-> Mounts(s)[m], rel |-> p, to |-> Nothing])
  BY Zenon DEF DrainRead
<1>2. PICK p \in DOMAIN seen[s][m] :
         /\ StaleAt(s, Mounts(s), m, p)
         /\ Go(k, [phase |-> "look", m |-> m, mt |-> Mounts(s)[m], rel |-> p, to |-> Nothing])
  BY <1>1, Zenon
<1> DEFINE j == [phase |-> "look", m |-> m, mt |-> Mounts(s)[m], rel |-> p, to |-> Nothing]
<1>3. JobTyped(j) BY LookTyped, Zenon
<1>4. j.phase = "look" /\ j.m = m BY Zenon
<1>5. Go(k, j) /\ ReadOnly /\ Open(s) BY <1>2, Zenon DEF DrainRead
<1> HIDE DEF j
<1>6. HasMount(s, m) BY <1>0, <1>2, MountsTyped, Zenon DEF StaleAt, Has, HasMount
<1>7. Belongs(s, j) BY <1>4, <1>5, <1>6, InMountBelongs DEF InMount
<1> QED BY <1>3, <1>5, <1>7, JobMoves, QuietBelongs, Zenon

LEMMA CheckinCallBelongs ==
  ASSUME LInv, AInv, NEW k \in Clients, NEW m \in MountPaths,
         CheckinCall(k, m) \/ DrainCheckin(k, m)
  PROVE  AInv'
<1> DEFINE j == [phase |-> "row", m |-> m, mts |-> Mounts(NsOf[k])]
<1>1. JobTyped(j) BY CheckinBegins, Zenon DEF CheckinCall, DrainCheckin
<1>2. ReadOnly /\ (Begin(k, j) \/ Go(k, j)) BY Zenon DEF CheckinCall, DrainCheckin
<1>3. j.phase = "row" /\ j.m = m BY Zenon
<1> HIDE DEF j
<1>4. Open(NsOf[k]) /\ HasMount(NsOf[k], m)
  BY Zenon DEF CheckinCall, DrainCheckin, CheckinReady, HasMount
<1>5. Belongs(NsOf[k], j) BY <1>3, <1>4, InMountBelongs DEF InMount
<1> QED BY <1>1, <1>2, <1>5, JobMoves, QuietBelongs, Zenon

\* A step within a call stays in the mount the call works in.
LEMMA WithinCall ==
  ASSUME AInv, NEW k \in Clients, NEW j, job[k].phase \in InMount,
         j.phase \in InMount, j.m = job[k].m
  PROVE  Belongs(NsOf[k], j)
<1>1. Belongs(NsOf[k], job[k]) BY Zenon DEF AInv
<1>2. Open(NsOf[k]) /\ HasMount(NsOf[k], j.m) BY <1>1, Zenon DEF Belongs
<1> QED BY <1>2, InMountBelongs, Zenon

LEMMA LookBelongs ==
  ASSUME LInv, AInv, NEW k \in Clients, Look(k)
  PROVE  AInv'
<1> DEFINE rows == overlay[NsOf[k]][job[k].m]
           t == SessionMountTree(job[k].mt)
           j == [phase |-> "observe", m |-> job[k].m, rel |-> job[k].rel, to |-> job[k].to,
                 rows |-> rows, tree |-> t, saw |-> SeenIn(rows, t, job[k].rel)]
<1>1. job[k].phase \in InMount /\ job[k].m \in MountPaths
  BY Zenon DEF Look, AtPhase, LInv, JobTyped, InMount
<1>2. JobTyped(j) BY <1>1, LookTyped, Zenon
<1>3. j.phase \in InMount /\ j.m = job[k].m BY Zenon DEF InMount
<1>4. ReadOnly /\ (Go(k, j) \/ Go(k, Idle)) BY Zenon DEF Look, Return
<1> HIDE DEF j
<1>5. Belongs(NsOf[k], j) BY <1>1, <1>3, WithinCall, Zenon
<1> QED BY <1>2, <1>4, <1>5, IdleTyped, IdleBelongs, JobMoves, QuietBelongs, Zenon

LEMMA CheckinStepsBelong ==
  ASSUME LInv, AInv, NEW k \in Clients,
         CheckinRow(k) \/ CheckinRows(k) \/ CheckinCheck(k) \/ CheckinOutside(k)
  PROVE  AInv'
<1> DEFINE s == NsOf[k]
           m == job[k].m
           mts == job[k].mts
           row == refs[mts[m].spec].oid
           new == Fold(tree[mts[m].base], job[k].rows)
           r == Contribution(mts[m].base, m, job[k].rows, job[k].reads)
           j1 == [phase |-> "rows", m |-> m, mts |-> mts, row |-> row]
           j2 == [phase |-> "check", m |-> m, mts |-> mts, row |-> job[k].row,
                  rows |-> overlay[s][m], reads |-> ContributionReads(seen[s]),
                  clash |-> AmbiguousReads(seen[s])]
           j3 == [phase |-> "outside", m |-> m, mts |-> mts]
           j4 == [phase |-> "cas", m |-> m, spec |-> mts[m].spec, tree |-> new, contrib |-> r]
           j5 == [phase |-> "noop", m |-> m, base |-> mts[m].base]
           Fits(j) == JobTyped(j) /\ j.phase \in InMount /\ j.m = job[k].m
<1>1. job[k].phase \in Checking /\ job[k].phase \in InMount
  BY Zenon DEF CheckinRow, CheckinRows, CheckinCheck, CheckinOutside, AtPhase, Checking, InMount
<1>2. /\ m \in MountPaths /\ mts \in [MountPaths -> MountRow]
      /\ mts[m].mode = "rw" /\ mts[m].base # NoOid /\ mts[m].spec # NoName
  BY <1>1, CheckingJob, Zenon
<1>3. r.base = mts[m].base BY Zenon DEF Contribution
<1>4. /\ ReadOnly
      /\ \/ Go(k, Idle) \/ Go(k, j1) \/ Go(k, j2) \/ Go(k, j3) \/ Go(k, j4) \/ Go(k, j5)
  BY Zenon DEF CheckinRow, CheckinRows, CheckinCheck, CheckinOutside, Return
<1> HIDE DEF r, new, row, mts
<1>5. Fits(j1) BY <1>2, <1>3, CheckingTyped, Zenon DEF InMount
<1>6. Fits(j2) BY <1>2, <1>3, CheckingTyped, Zenon DEF InMount
<1>7. Fits(j3) BY <1>2, <1>3, CheckingTyped, Zenon DEF InMount
<1>8. Fits(j4) BY <1>2, <1>3, CheckingTyped, Zenon DEF InMount
<1>9. Fits(j5) BY <1>2, <1>3, CheckingTyped, Zenon DEF InMount
<1> HIDE DEF j1, j2, j3, j4, j5
<1>10. ASSUME NEW j, Fits(j), Go(k, j) PROVE AInv'
  <2>1. Belongs(NsOf[k], j) BY <1>1, <1>10, WithinCall, Zenon
  <2> QED BY <1>4, <1>10, <2>1, JobMoves, QuietBelongs, Zenon
<1>11. Go(k, Idle) => AInv' BY <1>4, IdleTyped, IdleBelongs, JobMoves, QuietBelongs, Zenon
<1> HIDE DEF Fits
<1> QED BY <1>4, <1>5, <1>6, <1>7, <1>8, <1>9, <1>10, <1>11, Zenon

LEMMA SessionOpenBelongs ==
  ASSUME LInv, AInv, NEW k \in Clients, SessionOpen(k, Main)
  PROVE  AInv'
<1> DEFINE j == [phase |-> "create", base |-> refs[Main].oid]
<1>1. refs[Main].oid \in Commits BY HeadNames, RefCommit, Zenon DEF SessionOpen, LInv
<1>2. JobTyped(j) BY <1>1, Zenon DEF JobTyped, Mounting, InMount, Checking
<1>3. Belongs(NsOf[k], j) BY Zenon DEF Belongs, Mounting, InMount
<1>4. Go(k, j) /\ ReadOnly BY Zenon DEF SessionOpen
<1> HIDE DEF j
<1> QED BY <1>2, <1>3, <1>4, JobMoves, QuietBelongs, Zenon

LEMMA CreateBelongs ==
  ASSUME LInv, AInv, OneClient, NEW k \in Clients, NEW mountMain \in BOOLEAN, Create(k, mountMain)
  PROVE  AInv'
<1> DEFINE s == NsOf[k]
           base == job[k].base
<1>0. s \in Sessions BY SessionConstants, Zenon
<1>1. base \in Commits /\ base # NoOid BY OidTypes, Zenon DEF Create, AtPhase, LInv, JobTyped, Oids
<1>2. JobSet(k, Idle) BY JobMoves, Zenon DEF Create, Return
<1>3. CASE ReadOnly BY <1>2, <1>3, IdleTyped, IdleBelongs, QuietBelongs, Zenon
<1>4. CASE ~ReadOnly
  <2>1. /\ CreateSession(s, base, mountMain)
        /\ pin'   = [pin EXCEPT ![s] = base]
        /\ mount' = [mount EXCEPT
                       ![s][Root] = [mode |-> "rw", base |-> base],
                       ![s][MainPath] = IF mountMain THEN [mode |-> "ro", base |-> NoOid] ELSE @]
        /\ UNCHANGED <<stored, overlay, seen, foreign>>
    BY <1>4, Zenon DEF Create
  <2>2. Next BY <1>0, <1>1, <2>1, Zenon DEF Next
  <2>3. Created(s, base, mountMain) /\ Elsewhere(s)
    BY <1>0, <1>1, <2>1, CreateWrites, Zenon
  <2>4. ~Open(s) BY <2>1, Zenon DEF CreateSession, Open
  <2>5. \A m \in MountPaths : ~HasMount(s, m) /\ overlay[s][m] = Nothing /\ seen[s][m] = Nothing
    BY <1>0, <2>4, Zenon DEF AInv, RowsBelong
  <2>6. LiveRef[s] # NoName BY <1>0, HeadNames, Zenon
  <2>7. refs'[LiveRef[s]].oid # NoOid /\ refs'[Main].oid # NoOid
    BY <1>0, <2>2, <2>3, <2>6, LedgerKept, Zenon DEF IInv, LiveHeadsExist, Exists, Created
  <2>8. \A m \in MountPaths : mount'[s][m].mode # "none" => refs'[spec'[s][m]].oid # NoOid
    BY <2>3, <2>5, <2>7, Zenon DEF Created, HasMount
  <2>9. RowsBelong(s)'
    BY <1>1, <2>3, <2>5, <2>6, <2>8, Zenon DEF Created, RowsBelong, HasMount, Open, Exists
  <2> QED BY <1>2, <2>2, <2>3, <2>9, FinishedBelongs, ClientBelongs, Zenon
<1> QED BY <1>3, <1>4, Zenon

LEMMA MountTxnBelongs ==
  ASSUME LInv, AInv, OneClient, NEW k \in Clients, MountTxn(k)
  PROVE  AInv'
<1> DEFINE s == NsOf[k]
           m == job[k].m
           n == job[k].spec
           mt == [mode |-> job[k].mode, base |-> job[k].base]
<1>0. s \in Sessions BY SessionConstants, Zenon
<1>1. job[k] \in MountJob /\ job[k].phase \in Mounting
  BY Zenon DEF MountTxn, AtPhase, LInv, JobTyped, Mounting
<1>2. m \in MountPaths /\ n \in Names BY <1>1, Zenon DEF MountJob
<1>3. mt.mode # "none" BY <1>1, Zenon DEF MountJob
<1>4. JobSet(k, Idle) BY JobMoves, Zenon DEF MountTxn, Return
<1>5. InsertMount(s, m, n) /\ mount' = [mount EXCEPT ![s][m] = mt]
      /\ UNCHANGED <<stored, pin, overlay, seen, foreign>>
  BY Zenon DEF MountTxn
<1> HIDE DEF mt
<1>6. Remounted(s, m, n, mt) /\ Elsewhere(s) BY <1>0, <1>2, <1>5, MountWrites, Zenon
<1>7. Next BY <1>0, <1>2, <1>5, Zenon DEF Next
<1>8. Open(s) /\ Exists(n) BY <1>1, Zenon DEF AInv, Belongs
<1>9. RowsBelong(s) BY <1>0, Zenon DEF AInv
<1>10. RowsBelong(s)'
  BY <1>2, <1>3, <1>6, <1>8, <1>9, Zenon DEF Remounted, RowsBelong, HasMount, Open, Exists
<1> QED BY <1>4, <1>6, <1>7, <1>10, FinishedBelongs, ClientBelongs, Zenon

LEMMA ObserveBelongs ==
  ASSUME LInv, AInv, OneClient, NEW k \in Clients, Observe(k)
  PROVE  AInv'
<1> DEFINE s == NsOf[k]
           m == job[k].m
           rows == With(seen[s][m], job[k].rel, job[k].saw)
           j == [phase |-> "move", m |-> m, rel |-> job[k].rel, to |-> job[k].to,
                 rows |-> Destinations(job[k].rows, job[k].tree, job[k].rel, job[k].to)]
<1>0. s \in Sessions BY SessionConstants, Zenon
<1>1. m \in MountPaths /\ job[k].phase \in InMount
  BY Zenon DEF Observe, AtPhase, LInv, JobTyped, InMount
<1>2. /\ seen' = [seen EXCEPT ![s][m] = rows]
      /\ UNCHANGED <<vars, stored, pin, mount, overlay, foreign>>
  BY Zenon DEF Observe
<1> HIDE DEF rows
<1>3. Observed(s, m, rows) /\ Elsewhere(s) BY <1>0, <1>1, <1>2, ObserveWrites, Zenon
<1>4. [Next]_vars /\ UNCHANGED <<refs, live, spec, pin, mount, overlay>>
  BY <1>2, Zenon DEF vars
<1>5. Open(s) /\ HasMount(s, m) BY <1>1, Zenon DEF AInv, Belongs
<1>6. RowsBelong(s)'
  BY <1>0, <1>3, <1>4, <1>5, ZenonT(30) DEF AInv, Observed, RowsBelong, HasMount, Open, Exists
<1>7. JobTyped(j) BY <1>1, LookTyped, Zenon
<1>8. j.phase = "move" /\ j.m = m BY Zenon
<1>9. Go(k, Idle) \/ Go(k, j) BY Zenon DEF Observe, Return
<1> HIDE DEF j
<1>10. CASE Go(k, Idle)
  BY <1>3, <1>4, <1>6, <1>10, JobMoves, FinishedBelongs, ClientBelongs, Zenon
<1>11. CASE Go(k, j)
  <2>1. job'[k] = j /\ \A l \in Clients : l # k => job'[l] = job[l]
    BY <1>7, <1>11, JobMoves, JobWritten, Zenon
  <2>2. Belongs(s, job[k])'
    BY <1>4, <1>5, <1>8, <2>1, Zenon DEF Belongs, HasMount, Open, Mounting
  <2> QED BY <1>3, <1>4, <1>6, <2>1, <2>2, ClientBelongs, Zenon
<1> QED BY <1>9, <1>10, <1>11, Zenon

LEMMA StageBelongs ==
  ASSUME LInv, AInv, OneClient, NEW k \in Clients, Move(k) \/ Upsert(k)
  PROVE  AInv'
<1> DEFINE s == NsOf[k]
           m == job[k].m
<1>0. s \in Sessions BY SessionConstants, Zenon
<1>1. m \in MountPaths /\ job[k].phase \in InMount
  BY Zenon DEF Move, Upsert, AtPhase, LInv, JobTyped, InMount
<1>2. UNCHANGED <<vars, stored, pin, mount, seen, foreign>> /\ Go(k, Idle)
  BY Zenon DEF Move, Upsert, Return
<1>3. JobSet(k, Idle) BY <1>2, JobMoves, Zenon
<1>4. \/ UNCHANGED overlay
      \/ \E rows : overlay' = [overlay EXCEPT ![s][m] = rows]
  BY Zenon DEF Move, Upsert
<1>5. CASE UNCHANGED overlay
  <2>1. ReadOnly BY <1>2, <1>5, Zenon DEF ReadOnly, sessionTables
  <2> QED BY <1>3, <2>1, IdleTyped, IdleBelongs, QuietBelongs, Zenon
<1>6. CASE \E rows : overlay' = [overlay EXCEPT ![s][m] = rows]
  <2>1. PICK rows : overlay' = [overlay EXCEPT ![s][m] = rows] BY <1>6, Zenon
  <2>2. StagedRows(s, m, rows) /\ Elsewhere(s) BY <1>0, <1>1, <1>2, <2>1, StageWrites, Zenon
  <2>3. [Next]_vars /\ UNCHANGED <<refs, live, spec, pin, mount, seen>> BY <1>2, Zenon DEF vars
  <2>4. Open(s) /\ HasMount(s, m) BY <1>1, Zenon DEF AInv, Belongs
  <2>5. RowsBelong(s)'
    BY <1>0, <2>2, <2>3, <2>4, ZenonT(30) DEF AInv, StagedRows, RowsBelong, HasMount, Open, Exists
  <2> QED BY <1>3, <2>2, <2>3, <2>5, FinishedBelongs, ClientBelongs, Zenon
<1> QED BY <1>4, <1>5, <1>6, Zenon

LEMMA NoopBelongs ==
  ASSUME LInv, AInv, OneClient, NEW k \in Clients, NoopTxn(k)
  PROVE  AInv'
<1> DEFINE s == NsOf[k]
           m == job[k].m
           c == job[k].base
<1>0. s \in Sessions BY SessionConstants, Zenon
<1>1. m \in MountPaths /\ c \in Commits /\ c # NoOid
  BY OidTypes, Zenon DEF NoopTxn, AtPhase, LInv, JobTyped, InMount, Oids
<1>2. UNCHANGED <<vars, stored, foreign>> /\ Go(k, Idle) BY Zenon DEF NoopTxn, Return
<1>3. JobSet(k, Idle) BY <1>2, JobMoves, Zenon
<1>4. CASE UNCHANGED sessionTables
  <2>1. ReadOnly BY <1>2, <1>4, Zenon DEF ReadOnly
  <2> QED BY <1>3, <2>1, IdleTyped, IdleBelongs, QuietBelongs, Zenon
<1>5. CASE Settle(s, m, c)
  <2>1. Settled(s, m, c) /\ SettledElsewhere(s) BY <1>0, <1>1, <1>5, SettleWrites, Zenon
  <2>2. [Next]_vars /\ UNCHANGED <<refs, live, spec>> BY <1>2, Zenon DEF vars
  <2>3. Elsewhere(s) BY <2>1, <2>2, Zenon DEF SettledElsewhere, Elsewhere
  <2>4. RowsBelong(s) BY <1>0, Zenon DEF AInv
  <2>5. RowsBelong(s)'
    BY <1>1, <2>1, <2>2, <2>4, Zenon DEF Settled, RowsBelong, HasMount, Open, Exists
  <2> QED BY <1>3, <2>2, <2>3, <2>5, FinishedBelongs, ClientBelongs, Zenon
<1> QED BY <1>4, <1>5, Zenon DEF NoopTxn

\* The ref a mount names after cas_ref_session moved or forked it is there.
LEMMA CasExists ==
  ASSUME LInv, NEW s \in Sessions, NEW m \in MountPaths, NEW n \in Names, NEW e,
         NEW c \in Commits, CasRefSession(s, m, n, e, c), [Next]_vars, Exists(spec[s][m])
  PROVE  Exists(spec[s][m])'
<1>1. c # NoOid BY OidTypes, Zenon DEF Oids
<1>2. spec[s][m] \in Names /\ Held(spec[s][m])
  BY Tables, Zenon DEF CasRefSession, Held
<1>3. refs'[spec[s][m]].oid # NoOid BY <1>2, RefStays, Zenon DEF LInv, Exists
<1>4. CASE UNCHANGED spec BY <1>3, <1>4, Zenon DEF Exists
<1>5. CASE \E f \in Forks : refs' = [refs EXCEPT ![f] = Row(c, "commit")]
                            /\ spec' = [spec EXCEPT ![s][m] = f]
  <2>1. PICK f \in Forks : refs' = [refs EXCEPT ![f] = Row(c, "commit")]
                           /\ spec' = [spec EXCEPT ![s][m] = f]
    BY <1>5, Zenon
  <2>2. f \in DOMAIN refs BY HeadNames, Zenon DEF LInv, SessionTypeOK, TypeOK
  <2>3. refs'[f].oid = c BY <2>1, <2>2, Zenon DEF Row
  <2>4. Table(spec) BY Tables, Zenon
  <2>5. spec'[s][m] = f
    BY ONLY <2>1, <2>4, s \in Sessions, m \in MountPaths, Zenon DEF Table
  <2> QED BY <1>1, <2>3, <2>5, Zenon DEF Exists
<1> QED BY <1>4, <1>5, Zenon DEF CasRefSession, ForkRef

LEMMA CasBelongs ==
  ASSUME LInv, AInv, OneClient, NEW k \in Clients, CasTxn(k)
  PROVE  AInv'
<1> DEFINE s == NsOf[k]
           j == job[k]
<1>0. s \in Sessions BY SessionConstants, Zenon
<1>1. j.m \in MountPaths /\ j.spec \in Names /\ j.contrib.base \in Commits
      /\ j.phase \in InMount
  BY Zenon DEF CasTxn, AtPhase, LInv, JobTyped, InMount
<1>2. JobSet(k, Idle) BY JobMoves, Zenon DEF CasTxn, Return
<1>3. CASE ReadOnly BY <1>2, <1>3, IdleTyped, IdleBelongs, QuietBelongs, Zenon
<1>4. CASE ~ReadOnly
  <2>1. PICK c \in Commits : Published(k, c) BY <1>4, CasWrites, Zenon
  <2>2. CasRefSession(s, j.m, j.spec, j.contrib.base, c) /\ Settled(s, j.m, c) /\ Elsewhere(s)
    BY <2>1, Zenon DEF Published
  <2>3. Next BY <1>0, <1>1, <2>2, Zenon DEF Next
  <2>4. Open(s) /\ HasMount(s, j.m) /\ RowsBelong(s) BY <1>0, <1>1, Zenon DEF AInv, Belongs
  <2>5. live' = live /\ \A o \in MountPaths : o # j.m => spec'[s][o] = spec[s][o]
    BY <1>0, <1>1, <2>2, CasSpec, Zenon
  <2>6. refs'[spec'[s][j.m]].oid # NoOid
    BY <1>0, <1>1, <2>2, <2>3, <2>4, CasExists, Zenon DEF RowsBelong, Exists
  <2>7. \A o \in MountPaths : o # j.m /\ HasMount(s, o) => refs'[spec'[s][o]].oid # NoOid
    BY <1>0, <2>3, <2>4, <2>5, MountedRef, RefStays, Zenon DEF RowsBelong, Exists, LInv
  <2>8. c # NoOid BY OidTypes, Zenon DEF Oids
  <2>9. RowsBelong(s)'
    BY <1>1, <2>2, <2>4, <2>5, <2>6, <2>7, <2>8, Zenon DEF Settled, RowsBelong, HasMount, Open, Exists
  <2> QED BY <1>2, <2>2, <2>3, <2>9, FinishedBelongs, ClientBelongs, Zenon
<1> QED BY <1>3, <1>4, Zenon

LEMMA AbandonBelongs ==
  ASSUME LInv, AInv, OneClient, NEW k \in Clients, NEW discard, Abandon(k, discard)
  PROVE  AInv'
<1> DEFINE s == NsOf[k]
<1>0. s \in Sessions BY SessionConstants, Zenon
<1>1. Closed(s) /\ Elsewhere(s) BY AbandonWrites, Zenon
<1>2. AbandonSession(s) /\ job' = job /\ job[k] = Idle BY Zenon DEF Abandon
<1>3. Next BY <1>0, <1>2, Zenon DEF Next
<1>4. RowsBelong(s)'
  <2>1. ~Open(s)' BY <1>1, Zenon DEF Closed, Open
  <2>2. \A m \in MountPaths : /\ mount'[s][m] = NoMount
                              /\ overlay'[s][m] = Nothing /\ seen'[s][m] = Nothing
    BY <1>1, Zenon DEF Closed
  <2>3. \A m \in MountPaths : ~HasMount(s, m)' BY <2>2 DEF HasMount, NoMount
  <2> QED BY <2>1, <2>2, <2>3, Zenon DEF RowsBelong
<1>5. Belongs(s, job[k])' BY <1>2 DEF Belongs, Idle, Mounting, InMount
<1> QED BY <1>1, <1>2, <1>3, <1>4, <1>5, ClientBelongs, Zenon

LEMMA SessionStepBelongs ==
  ASSUME LInv, AInv, OneClient, StableMounts, [SessionNext]_svars
  PROVE  AInv'
<1>1. ASSUME NEW k \in Clients, Call(k) PROVE AInv'
  BY <1>1, SessionOpenBelongs, MountCallBelongs, PathCallBelongs, CheckinCallBelongs,
     AbandonBelongs, Zenon DEF Call
<1>2. ASSUME NEW k \in Clients, Step(k) PROVE AInv'
  BY <1>2, CreateBelongs, RefuseRetargetingBelongs, MountTxnBelongs, LookBelongs, ObserveBelongs,
     StageBelongs, CheckinStepsBelong, NoopBelongs, CasBelongs, Zenon DEF Step
<1>3. ASSUME NEW k \in Clients, Drain(k) PROVE AInv'
  BY <1>3, DrainReadBelongs, CheckinCallBelongs, Zenon DEF Drain
<1>4. CASE UNCHANGED svars
  <2>1. UNCHANGED <<refs, live, spec, pin, mount, overlay, seen, job>>
    BY <1>4, Zenon DEF svars, vars, sessionTables
  <2> QED BY <2>1, Zenon DEF AInv, RowsBelong, Belongs, HasMount, Open, Exists
<1> QED BY <1>1, <1>2, <1>3, <1>4, OthersBelong, Zenon DEF SessionNext

LEMMA AuditStarts == SessionInit => AInv
<1> SUFFICES ASSUME SessionInit PROVE AInv BY Zenon
<1>1. \A s \in Sessions : live[s] = NoName BY Zenon DEF SessionInit, Init
<1>2. \A s \in Sessions, m \in MountPaths :
        mount[s][m] = NoMount /\ overlay[s][m] = Nothing /\ seen[s][m] = Nothing
  BY Zenon DEF SessionInit
<1>3. \A s \in Sessions : RowsBelong(s)
  BY <1>1, <1>2 DEF RowsBelong, HasMount, NoMount, Open
<1>4. \A k \in Clients : job[k] = Idle BY Zenon DEF SessionInit
<1> QED BY <1>3, <1>4, IdleBelongs, Zenon DEF AInv

\* No clause of audit_catalog has anything to report.
LEMMA AuditFindsNothing ==
  ASSUME LInv, AInv
  PROVE  AuditClean
<1>0. ReflogChain /\ ReflogTerminal /\ SealsAgree /\ LiveHeadsExist /\ TypeOK /\ SessionTypeOK
  BY Zenon DEF LInv, IInv
<1>1. Tags \subseteq Names BY Zenon DEF Names
<1>2. RefFindings = {} BY <1>0, <1>1, Zenon DEF RefFindings, SealsAgree, KindAllowed
<1>3. ReflogFindings = {}
  <2>1. \A n \in Names : ~ChainBreaks(n)
    <3> SUFFICES ASSUME NEW n \in Names, NEW i \in 1..Len(reflog[n])
                 PROVE  IF i > 1 THEN reflog[n][i].old = reflog[n][i-1].new
                        ELSE reflog[n][i].old = NoOid \/ reflog[n][i].reason = "fork"
      BY Zenon DEF ChainBreaks
    <3>1. reflog[n] \in Seq(LogRow) BY <1>0, Zenon DEF TypeOK
    <3>2. CASE i > 1 BY <1>0, <3>1, <3>2 DEF ReflogChain
    <3>3. CASE ~(i > 1)
      <4>1. i = 1 /\ reflog[n] # <<>> BY <3>1, <3>3
      <4> QED BY <1>0, <4>1 DEF ReflogChain
    <3> QED BY <3>2, <3>3, Zenon
  <2> QED BY <1>0, <2>1, Zenon DEF ReflogFindings, ReflogTerminal
<1>4. NamespaceFindings = {}
  BY <1>0, Zenon DEF NamespaceFindings, LiveHeadsExist, AInv, RowsBelong, Open
<1>5. MountFindings = {} /\ MountRefFindings = {}
  BY Zenon DEF MountFindings, MountRefFindings, AInv, RowsBelong
<1>6. ObservationFindings = {} /\ OverlayFindings = {}
  BY Zenon DEF ObservationFindings, OverlayFindings, AInv, RowsBelong
<1>7. SealFindings = {} BY <1>0, <1>1, Zenon DEF SealFindings, SealsAgree, KindAllowed
<1> QED BY <1>0, <1>2, <1>3, <1>4, <1>5, <1>6, <1>7, Zenon DEF AuditClean, AuditFindings

\* When every session has one client and clients mount no fork, fsck --full
\* finds nothing, between whatever steps of whatever calls it runs.
THEOREM AuditHolds ==
  ASSUME OneClient, StableMounts
  PROVE  SessionSpec => []AuditClean
<1>1. LInv /\ AInv /\ [SessionNext]_svars => AInv' BY SessionStepBelongs, Zenon
<1>2. LInv /\ AInv => AuditClean BY AuditFindsNothing, Zenon
<1> QED BY <1>1, <1>2, AuditStarts, SessionsInductive, PTL DEF SessionSpec
=============================================================================
