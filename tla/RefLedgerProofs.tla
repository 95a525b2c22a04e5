--------------------------- MODULE RefLedgerProofs ----------------------------
(***************************************************************************)
(* Proofs that the ref ledger keeps the clauses of audit_catalog for any   *)
(* sets of names, objects and sessions.                                    *)
(*                                                                         *)
(* The argument: every transaction changes the ledger one name at a time   *)
(* in one of three ways (Logged): it leaves the name alone, it appends the *)
(* row of a creation or a move, or it appends an `abandon` row and deletes *)
(* the ref (StepShape).  That shape preserves the clauses about the        *)
(* reflog; the clauses about tags, sessions and provenance follow from the *)
(* parts TagStep, LiveStep and IntroStep.                                  *)
(***************************************************************************)
EXTENDS RefLedger, TLAPS

\* The names a transaction may retire: abandon_ref accepts fork refs only and
\* publish_resolution retires the conflict ref it settles.
Retirable == Forks \cup InboxForks \cup Conflicts

\* Needed by AbandonIsTerminal: create_session and commit_seal do not ask
\* deny_retired, and never have to, because no head and no tag is ever retired.
OnlyRetirableRetired == \A n \in Names : Retired(n) => n \in Retirable

\* Needed by LiveHeadsExist: a live ref is a head, so it is not retirable.
LiveIsHead == \A s \in Sessions : live[s] # NoName => live[s] = LiveRef[s]

IInv ==
  /\ TypeOK
  /\ ReflogChain
  /\ ReflogTerminal
  /\ AbandonIsTerminal
  /\ OnlyRetirableRetired
  /\ SealsAgree
  /\ LiveIsHead
  /\ LiveHeadsExist

\* What a transaction may do to one name.
Logged(n) ==
  \/ refs'[n] = refs[n] /\ reflog'[n] = reflog[n]
  \/ \E e \in LogRow :
       /\ reflog'[n] = Append(reflog[n], e)
       /\ ~refs[n].sealed
       /\ IF refs[n].oid # NoOid THEN e.old = refs[n].oid
          ELSE reflog[n] = <<>> /\ (e.old = NoOid \/ e.reason = "fork")
       /\ \/ /\ e.reason # "abandon"
             /\ refs'[n] \in RefRow /\ refs'[n].oid = e.new
             /\ KindAllowed(n, refs'[n].kind) /\ refs'[n].oid \in ObjectsOf(refs'[n].kind)
          \/ /\ e.reason = "abandon"
             /\ refs'[n] = NoRow
             /\ n \in Retirable /\ refs[n].oid # NoOid /\ ~Held(n)

\* What a transaction may do to one tag: nothing, or seal it.
TagStep(t) ==
  \/ refs'[t] = refs[t] /\ seals'[t] = seals[t]
  \/ /\ refs[t].oid = NoOid
     /\ refs'[t].oid # NoOid /\ refs'[t].protected /\ refs'[t].sealed
     /\ seals'[t] \in SealRow /\ refs'[t].oid = seals'[t].snap
     /\ {seals'[t].snap, seals'[t].commit} \subseteq landmarks'

\* What a transaction may do to one session's live_ref.
LiveStep(s) ==
  \/ live'[s] = live[s]
  \/ live'[s] = NoName
  \/ live'[s] = LiveRef[s] /\ refs'[LiveRef[s]].oid # NoOid

\* What a transaction may do to one provenance row.
IntroStep(b) ==
  \/ intro'[b] = intro[b]
  \/ /\ intro[b] = NoOid
     /\ \E n \in Names : reflog'[n] # reflog[n] /\ Last(reflog'[n]).new = intro'[b]

Shape ==
  /\ TypeOK'
  /\ \A n \in Names : Logged(n)
  /\ \A t \in Tags : TagStep(t)
  /\ landmarks \subseteq landmarks'
  /\ \A s \in Sessions : LiveStep(s)
  /\ \A b \in Blobs : IntroStep(b)

-----------------------------------------------------------------------------
(* Rows and sequences *)

\* What Append does to a reflog.
LEMMA AppendRow ==
  ASSUME NEW l \in Seq(LogRow), NEW e \in LogRow
  PROVE  /\ Append(l, e) \in Seq(LogRow)
         /\ Append(l, e) # <<>>
         /\ Len(Append(l, e)) = Len(l) + 1
         /\ Last(Append(l, e)) = e
         /\ Append(l, e)[Len(l) + 1] = e
         /\ \A i \in 1..Len(l) : Append(l, e)[i] = l[i]
  BY DEF Last

\* The last row of a non-empty reflog is a row of it.
LEMMA LastRow ==
  ASSUME NEW l \in Seq(LogRow), l # <<>>
  PROVE  Len(l) \in 1..Len(l) /\ Len(l) \in Nat /\ Last(l) = l[Len(l)] /\ Last(l) \in LogRow
  BY DEF Last

\* A row is present exactly when it is not NoRow.
LEMMA RowPresent ==
  /\ \A r \in RefRow : r.oid # NoOid /\ r # NoRow
  /\ NoRow.oid = NoOid
  BY OidTypes DEF RefRow, NoRow

\* The helper Row builds an unprotected, unsealed row.
LEMMA RowType ==
  ASSUME NEW o \in Oids, NEW k \in Kinds
  PROVE  /\ Row(o, k) \in RefRow /\ Row(o, k).oid = o /\ Row(o, k).kind = k
         /\ Row(o, k).protected = FALSE /\ Row(o, k).sealed = FALSE
  BY Zenon DEF Row, RefRow

\* The helper Entry builds a reflog row.
LEMMA EntryType ==
  ASSUME NEW old \in Oids \cup {NoOid}, NEW new \in Oids, NEW r \in Reasons
  PROVE  /\ Entry(old, new, r) \in LogRow
         /\ Entry(old, new, r).old = old /\ Entry(old, new, r).new = new
         /\ Entry(old, new, r).reason = r
  BY Zenon DEF Entry, LogRow

\* Objects of a kind are objects.
LEMMA ObjectsAreOids ==
  ASSUME NEW k \in Kinds
  PROVE  ObjectsOf(k) \subseteq Oids
  BY Zenon DEF ObjectsOf, Kinds, Oids

\* The objects a ref of each kind may name.
LEMMA CommitObjects ==
  /\ "commit" \in Kinds /\ "snapshot" \in Kinds /\ "conflict" \in Kinds
  /\ ObjectsOf("commit") = Commits
  /\ ObjectsOf("snapshot") = Snapshots
  /\ ObjectsOf("conflict") = ConflictObjs
  BY Zenon DEF ObjectsOf, Kinds

\* One mount row changes.
LEMMA Respec ==
  ASSUME TypeOK, NEW s \in Sessions, NEW m \in MountPaths, NEW f \in Names
  PROVE  [spec EXCEPT ![s][m] = f] \in [Sessions -> [MountPaths -> Names \cup {NoName}]]
<1>1. [spec[s] EXCEPT ![m] = f] \in [MountPaths -> Names \cup {NoName}]
  BY Zenon DEF TypeOK
<1> QED BY <1>1, Zenon DEF TypeOK

-----------------------------------------------------------------------------
(* What Logged preserves *)

\* A step that is Logged at every name preserves the clauses about the reflog.
LEMMA LoggedKeepsReflog ==
  ASSUME TypeOK, ReflogChain, ReflogTerminal, AbandonIsTerminal, OnlyRetirableRetired,
         \A n \in Names : Logged(n)
  PROVE  ReflogChain' /\ ReflogTerminal' /\ AbandonIsTerminal' /\ OnlyRetirableRetired'
<1> SUFFICES ASSUME NEW n \in Names
             PROVE  /\ \A i \in 2..Len(reflog'[n]) : reflog'[n][i].old = reflog'[n][i-1].new
                    /\ reflog'[n] # <<>> => \/ reflog'[n][1].old = NoOid
                                            \/ reflog'[n][1].reason = "fork"
                    /\ refs'[n].oid # NoOid => /\ reflog'[n] # <<>>
                                               /\ Last(reflog'[n]).new = refs'[n].oid
                                               /\ Last(reflog'[n]).reason # "abandon"
                    /\ refs'[n].oid = NoOid => \/ reflog'[n] = <<>>
                                               \/ Last(reflog'[n]).reason = "abandon"
                    /\ \A i \in 1..Len(reflog'[n]) :
                         reflog'[n][i].reason = "abandon" => i = Len(reflog'[n])
                    /\ reflog'[n] # <<>> /\ Last(reflog'[n]).reason = "abandon"
                         => n \in Retirable
  BY Zenon DEF ReflogChain, ReflogTerminal, AbandonIsTerminal, OnlyRetirableRetired, Exists, Retired
<1> DEFINE l == reflog[n]
<1>0. l \in Seq(LogRow) BY Zenon DEF TypeOK
<1>1. /\ \A i \in 2..Len(l) : l[i].old = l[i-1].new
      /\ l # <<>> => l[1].old = NoOid \/ l[1].reason = "fork"
      /\ refs[n].oid # NoOid => l # <<>> /\ Last(l).new = refs[n].oid /\ Last(l).reason # "abandon"
      /\ refs[n].oid = NoOid => l = <<>> \/ Last(l).reason = "abandon"
      /\ \A i \in 1..Len(l) : l[i].reason = "abandon" => i = Len(l)
      /\ l # <<>> /\ Last(l).reason = "abandon" => n \in Retirable
  BY Zenon DEF ReflogChain, ReflogTerminal, AbandonIsTerminal, OnlyRetirableRetired, Exists, Retired
<1>2. CASE refs'[n] = refs[n] /\ reflog'[n] = reflog[n]
  BY <1>1, <1>2, Zenon
<1>3. ASSUME NEW e \in LogRow,
             reflog'[n] = Append(l, e),
             IF refs[n].oid # NoOid THEN e.old = refs[n].oid
             ELSE l = <<>> /\ (e.old = NoOid \/ e.reason = "fork"),
             \/ e.reason # "abandon" /\ refs'[n] \in RefRow /\ refs'[n].oid = e.new
             \/ e.reason = "abandon" /\ refs'[n] = NoRow /\ n \in Retirable /\ refs[n].oid # NoOid
      PROVE  /\ \A i \in 2..Len(reflog'[n]) : reflog'[n][i].old = reflog'[n][i-1].new
             /\ reflog'[n] # <<>> => \/ reflog'[n][1].old = NoOid
                                     \/ reflog'[n][1].reason = "fork"
             /\ refs'[n].oid # NoOid => /\ reflog'[n] # <<>>
                                        /\ Last(reflog'[n]).new = refs'[n].oid
                                        /\ Last(reflog'[n]).reason # "abandon"
             /\ refs'[n].oid = NoOid => \/ reflog'[n] = <<>>
                                        \/ Last(reflog'[n]).reason = "abandon"
             /\ \A i \in 1..Len(reflog'[n]) :
                  reflog'[n][i].reason = "abandon" => i = Len(reflog'[n])
             /\ reflog'[n] # <<>> /\ Last(reflog'[n]).reason = "abandon" => n \in Retirable
  <2> DEFINE m == Append(l, e)
  <2>1. /\ m # <<>> /\ Len(m) = Len(l) + 1 /\ Last(m) = e /\ m[Len(l) + 1] = e
        /\ \A i \in 1..Len(l) : m[i] = l[i]
        /\ Len(l) \in Nat
    BY <1>0, AppendRow
  <2>2. l # <<>> => Len(l) > 0 /\ Last(l) = l[Len(l)] /\ e.old = l[Len(l)].new
                    /\ l[Len(l)].reason # "abandon"
    BY <1>0, <1>1, <1>3, LastRow
  <2>3. l = <<>> => Len(l) = 0 /\ (e.old = NoOid \/ e.reason = "fork")
    BY <1>0, <1>1, <1>3, Zenon
  <2> HIDE DEF l, m
  <2>4. \A i \in 2..Len(m) : m[i].old = m[i-1].new
    BY <1>1, <2>1, <2>2, <2>3
  <2>5. m[1].old = NoOid \/ m[1].reason = "fork"
    BY <1>1, <2>1, <2>2, <2>3
  <2>6. \A i \in 1..Len(m) : m[i].reason = "abandon" => i = Len(m)
    BY <1>1, <2>1, <2>2, <2>3
  <2>7. /\ refs'[n].oid # NoOid => e.new = refs'[n].oid /\ e.reason # "abandon"
        /\ refs'[n].oid = NoOid => e.reason = "abandon"
        /\ e.reason = "abandon" => n \in Retirable
    BY <1>3, RowPresent, Zenon
  <2>8. reflog'[n] = m
    BY <1>3, Zenon DEF m
  <2> QED BY Zenon, <2>1, <2>4, <2>5, <2>6, <2>7, <2>8
<1> QED BY <1>2, <1>3, Zenon DEF Logged

-----------------------------------------------------------------------------
(* Every transaction has the shape *)

\* Writing one ref together with its reflog row is Logged at every name.
LEMMA WriteOne ==
  ASSUME TypeOK, NEW n \in Names, NEW row \in RefRow, NEW e \in LogRow,
         e.new = row.oid, e.reason # "abandon",
         KindAllowed(n, row.kind), row.oid \in ObjectsOf(row.kind),
         ~refs[n].sealed,
         IF refs[n].oid # NoOid THEN e.old = refs[n].oid
         ELSE reflog[n] = <<>> /\ (e.old = NoOid \/ e.reason = "fork"),
         refs' = [refs EXCEPT ![n] = row],
         reflog' = [reflog EXCEPT ![n] = Append(@, e)]
  PROVE  /\ refs' \in [Names -> RefRow \cup {NoRow}]
         /\ reflog' \in [Names -> Seq(LogRow)]
         /\ \A x \in Names : Logged(x)
         /\ refs'[n] = row
         /\ \A x \in Names : x # n => refs'[x] = refs[x]
         /\ reflog'[n] # reflog[n] /\ Last(reflog'[n]).new = row.oid
<1>1. /\ Append(reflog[n], e) \in Seq(LogRow)
      /\ Last(Append(reflog[n], e)) = e
      /\ Append(reflog[n], e) # reflog[n]
  <2>1. reflog[n] \in Seq(LogRow) BY Zenon DEF TypeOK
  <2>2. Len(Append(reflog[n], e)) = Len(reflog[n]) + 1 /\ Len(reflog[n]) \in Nat
    BY <2>1, AppendRow
  <2> QED BY <2>1, <2>2, AppendRow
<1>2. \A x \in Names : Logged(x)
  BY Zenon DEF TypeOK, Logged
<1> QED BY <1>1, <1>2, Zenon DEF TypeOK

\* insert_intros_tx runs in the transaction that publishes the commit.
LEMMA IntroduceShape ==
  ASSUME TypeOK, NEW k \in Kinds, NEW c \in ObjectsOf(k), Introduce(k, c),
         \E n \in Names : reflog'[n] # reflog[n] /\ Last(reflog'[n]).new = c
  PROVE  intro' \in [Blobs -> Commits \cup {NoOid}] /\ \A b \in Blobs : IntroStep(b)
  BY Zenon DEF TypeOK, Introduce, IntroStep, ObjectsOf

\* insert_ref
LEMMA InsertRefShape ==
  ASSUME IInv, NEW n \in Names, NEW k \in Kinds, NEW o \in ObjectsOf(k), InsertRef(n, k, o)
  PROVE  Shape
<1> DEFINE e == Entry(NoOid, o, "insert")
<1>1. o \in Oids BY ObjectsAreOids, Zenon
<1>2. Row(o, k) \in RefRow /\ Row(o, k).oid = o /\ Row(o, k).kind = k
  BY Zenon, <1>1, RowType
<1>3. e \in LogRow /\ e.old = NoOid /\ e.new = o /\ e.reason = "insert"
  BY <1>1, EntryType DEF Reasons
<1> HIDE DEF e
<1>4. refs[n].oid = NoOid /\ reflog[n] = <<>> /\ ~refs[n].sealed
  BY RowPresent DEF IInv, InsertRef, ReflogTerminal, Exists, TypeOK, NoRow
<1>5. /\ refs' = [refs EXCEPT ![n] = Row(o, k)]
      /\ reflog' = [reflog EXCEPT ![n] = Append(@, e)]
      /\ KindAllowed(n, k)
  BY Zenon DEF InsertRef, e
<1>6. /\ refs' \in [Names -> RefRow \cup {NoRow}]
      /\ reflog' \in [Names -> Seq(LogRow)]
      /\ \A x \in Names : Logged(x)
      /\ \A x \in Names : x # n => refs'[x] = refs[x]
  BY Zenon, <1>2, <1>3, <1>4, <1>5, WriteOne DEF IInv
<1>7. TypeOK'
  BY <1>6, Zenon DEF IInv, InsertRef, TypeOK
<1>8. \A t \in Tags : TagStep(t)
  BY <1>6, Zenon DEF InsertRef, TagStep, Names
<1> QED BY <1>6, <1>7, <1>8, Zenon DEF Shape, InsertRef, LiveStep, IntroStep

\* A ref that Movable lets a caller move has a row of kind k and is no tag.
LEMMA MovableRow ==
  ASSUME IInv, NEW n \in Names, NEW k \in Kinds, NEW allow, Movable(n, k, allow)
  PROVE  /\ refs[n] \in RefRow /\ refs[n].oid # NoOid /\ ~refs[n].sealed
         /\ refs[n].kind = k /\ KindAllowed(n, k)
         /\ refs[n].oid \in ObjectsOf(k) /\ n \notin Tags
  BY RowPresent, Zenon DEF IInv, TypeOK, SealsAgree, Movable, Exists

\* The row of MoveRef: the old row with the new oid.
LEMMA MovedRow ==
  ASSUME NEW r \in RefRow, NEW o \in Oids
  PROVE  /\ Moved(r, o) \in RefRow
         /\ Moved(r, o).oid = o /\ Moved(r, o).kind = r.kind
  BY Zenon DEF RefRow, Moved

\* The UPDATE of a ref row, and its reflog row.
LEMMA MoveRefShape ==
  ASSUME IInv, NEW n \in Names, NEW k \in Kinds, NEW allow, NEW new \in ObjectsOf(k),
         NEW reason \in Reasons, reason # "abandon",
         Movable(n, k, allow), MoveRef(n, refs[n].oid, new, reason)
  PROVE  /\ refs' \in [Names -> RefRow \cup {NoRow}]
         /\ reflog' \in [Names -> Seq(LogRow)]
         /\ \A x \in Names : Logged(x)
         /\ \A x \in Names : x # n => refs'[x] = refs[x]
         /\ reflog'[n] # reflog[n] /\ Last(reflog'[n]).new = new
<1> DEFINE e == Entry(refs[n].oid, new, reason)
           row == Moved(refs[n], new)
<1>1. new \in Oids /\ refs[n].oid \in Oids BY MovableRow, ObjectsAreOids, Zenon
<1>2. e \in LogRow /\ e.old = refs[n].oid /\ e.new = new /\ e.reason = reason
  BY <1>1, EntryType
<1>3. row \in RefRow /\ row.oid = new /\ row.kind = k
  BY <1>1, MovableRow, MovedRow
<1>4. refs[n].oid # NoOid /\ ~refs[n].sealed /\ KindAllowed(n, k)
  BY MovableRow, Zenon
<1>5. refs' = [refs EXCEPT ![n] = row] /\ reflog' = [reflog EXCEPT ![n] = Append(@, e)]
  BY Zenon DEF MoveRef, IInv, TypeOK
<1> HIDE DEF e, row
<1>6. TypeOK BY Zenon DEF IInv
<1>7. /\ e.new = row.oid /\ e.reason # "abandon"
      /\ KindAllowed(n, row.kind) /\ row.oid \in ObjectsOf(row.kind)
      /\ IF refs[n].oid # NoOid THEN e.old = refs[n].oid
         ELSE reflog[n] = <<>> /\ (e.old = NoOid \/ e.reason = "fork")
  BY <1>2, <1>3, <1>4, Zenon
<1> QED BY ZenonT(60), <1>2, <1>3, <1>4, <1>5, <1>6, <1>7, WriteOne

\* The INSERT of a fork of a ref at `current`, and its reflog row.
LEMMA ForkRefShape ==
  ASSUME IInv, NEW f \in Names, NEW k \in Kinds, NEW current \in ObjectsOf(k),
         NEW new \in ObjectsOf(k), Unused(f), KindAllowed(f, k), ForkRef(f, k, current, new)
  PROVE  /\ refs' \in [Names -> RefRow \cup {NoRow}]
         /\ reflog' \in [Names -> Seq(LogRow)]
         /\ \A x \in Names : Logged(x)
         /\ \A x \in Names : x # f => refs'[x] = refs[x]
         /\ reflog'[f] # reflog[f] /\ Last(reflog'[f]).new = new
<1> DEFINE e == Entry(current, new, "fork")
<1>1. new \in Oids /\ current \in Oids BY ObjectsAreOids, Zenon
<1>2. e \in LogRow /\ e.old = current /\ e.new = new /\ e.reason = "fork"
  BY <1>1, EntryType DEF Reasons
<1>3. Row(new, k) \in RefRow /\ Row(new, k).oid = new /\ Row(new, k).kind = k
  BY Zenon, <1>1, RowType
<1>4. refs[f].oid = NoOid /\ reflog[f] = <<>> /\ ~refs[f].sealed
  BY RowPresent DEF IInv, TypeOK, Unused, Exists, NoRow
<1>5. refs' = [refs EXCEPT ![f] = Row(new, k)] /\ reflog' = [reflog EXCEPT ![f] = Append(@, e)]
  BY Zenon DEF ForkRef
<1> HIDE DEF e
<1>6. TypeOK BY Zenon DEF IInv
<1> QED BY ZenonT(60), <1>2, <1>3, <1>4, <1>5, <1>6, WriteOne

\* What the three outcomes of a compare-and-swap have in common: one name x is
\* written, to the object `new`.
Wrote(x, new) ==
  /\ refs' \in [Names -> RefRow \cup {NoRow}]
  /\ reflog' \in [Names -> Seq(LogRow)]
  /\ \A y \in Names : Logged(y)
  /\ \A y \in Names : y # x => refs'[y] = refs[y]
  /\ reflog'[x] # reflog[x] /\ Last(reflog'[x]).new = new

\* cas_ref and cas_ref_with_intros
LEMMA CasRefShape ==
  ASSUME IInv, NEW n \in Names, NEW k \in Kinds, NEW expected, NEW new \in ObjectsOf(k),
         NEW allow, CasRef(n, k, expected, new, allow)
  PROVE  Shape
<1>1. ASSUME CasCreate(n, k, new) PROVE Wrote(n, new)
  <2> DEFINE e == Entry(NoOid, new, "cas")
  <2>1. new \in Oids BY ObjectsAreOids, Zenon
  <2>2. Row(new, k) \in RefRow /\ Row(new, k).oid = new /\ Row(new, k).kind = k
    BY Zenon, <2>1, RowType
  <2>3. e \in LogRow /\ e.old = NoOid /\ e.new = new /\ e.reason = "cas"
    BY <2>1, EntryType DEF Reasons
  <2>4. refs[n].oid = NoOid /\ reflog[n] = <<>> /\ ~refs[n].sealed
    BY <1>1, RowPresent DEF IInv, CasCreate, ReflogTerminal, Exists, TypeOK, NoRow
  <2>5. /\ refs' = [refs EXCEPT ![n] = Row(new, k)]
        /\ reflog' = [reflog EXCEPT ![n] = Append(@, e)]
        /\ KindAllowed(n, k)
    BY <1>1, Zenon DEF CasCreate, CasRef
  <2> HIDE DEF e
  <2> QED BY ZenonT(60), <2>2, <2>3, <2>4, <2>5, WriteOne DEF IInv, Wrote
<1>2. ASSUME Movable(n, k, allow), refs[n].oid = expected, MoveRef(n, expected, new, "cas")
      PROVE  Wrote(n, new)
  BY Zenon, <1>2, MoveRefShape DEF Reasons, Wrote
<1>3. ASSUME Movable(n, k, allow), NEW f \in ForkNames(n, k), Unused(f),
             ForkRef(f, k, refs[n].oid, new)
      PROVE  f \in Names \ Tags /\ Wrote(f, new)
  <2>1. KindAllowed(f, k) /\ f \in Names /\ f \notin Tags
    BY NameClasses, Zenon DEF ForkNames, KindAllowed, Names, CasRef
  <2>2. refs[n].oid \in ObjectsOf(k)
    BY <1>3, MovableRow, Zenon
  <2> QED BY Zenon, <1>3, <2>1, <2>2, ForkRefShape DEF Wrote
<1>4. PICK x \in Names \ Tags : Wrote(x, new)
  BY Zenon, <1>1, <1>2, <1>3 DEF CasRef
<1>5. intro' \in [Blobs -> Commits \cup {NoOid}] /\ \A b \in Blobs : IntroStep(b)
  BY Zenon, <1>4, IntroduceShape DEF Wrote, IInv, CasRef
<1>6. TypeOK'
  BY <1>4, <1>5, Zenon DEF Wrote, IInv, CasRef, TypeOK
<1>7. \A t \in Tags : TagStep(t)
  BY <1>4, Zenon DEF CasRef, TagStep, Names, Wrote
<1> QED BY <1>4, <1>5, <1>6, <1>7, Zenon DEF Shape, CasRef, LiveStep, Wrote

\* cas_ref_session
LEMMA CasRefSessionShape ==
  ASSUME IInv, NEW s \in Sessions, NEW m \in MountPaths, NEW n \in Names, NEW expected,
         NEW new \in Commits, CasRefSession(s, m, n, expected, new)
  PROVE  Shape
<1> DEFINE k == "commit"
<1>0. k \in Kinds /\ new \in ObjectsOf(k) BY CommitObjects, Zenon
<1>1. ASSUME refs[n].oid = expected, MoveRef(n, expected, new, "cas")
      PROVE  n \in Names \ Tags /\ Wrote(n, new)
  <2>1. Movable(n, k, FALSE) BY Zenon DEF CasRefSession
  <2>2. n \notin Tags BY Zenon, <1>0, <2>1, MovableRow
  <2> QED BY ZenonT(60), <1>0, <1>1, <2>1, <2>2, MoveRefShape DEF Reasons, Wrote
<1>2. ASSUME NEW f \in Forks, Unused(f), ForkRef(f, k, refs[n].oid, new)
      PROVE  f \in Names \ Tags /\ Wrote(f, new)
  <2>1. KindAllowed(f, k) /\ f \in Names /\ f \notin Tags
    BY NameClasses, Zenon DEF KindAllowed, Names
  <2>2. refs[n].oid \in ObjectsOf(k)
    BY Zenon, <1>0, MovableRow DEF CasRefSession
  <2> QED BY <1>0, <1>2, <2>1, <2>2, ForkRefShape, Zenon DEF Wrote
<1>3. PICK x \in Names \ Tags : Wrote(x, new)
  BY <1>1, <1>2, Zenon DEF CasRefSession
<1>4. intro' \in [Blobs -> Commits \cup {NoOid}] /\ \A b \in Blobs : IntroStep(b)
  BY Zenon, <1>0, <1>3, IntroduceShape DEF Wrote, IInv, CasRefSession
<1>5. spec' \in [Sessions -> [MountPaths -> Names \cup {NoName}]]
  <2>1. \A f \in Forks : f \in Names BY Zenon DEF Names
  <2>2. TypeOK BY Zenon DEF IInv
  <2>3. CASE UNCHANGED spec BY <2>2, <2>3, Zenon DEF TypeOK
  <2>4. ASSUME NEW f \in Forks, spec' = [spec EXCEPT ![s][m] = f]
        PROVE  spec' \in [Sessions -> [MountPaths -> Names \cup {NoName}]]
    BY <2>1, <2>2, <2>4, Respec, Zenon
  <2> QED BY <2>3, <2>4, Zenon DEF CasRefSession
<1>6. TypeOK'
  BY <1>3, <1>4, <1>5, Zenon DEF Wrote, IInv, CasRefSession, TypeOK
<1>7. \A t \in Tags : TagStep(t)
  BY Zenon, <1>3 DEF CasRefSession, TagStep, Names, Wrote
<1> QED BY <1>3, <1>4, <1>6, <1>7, Zenon DEF Shape, CasRefSession, LiveStep, Wrote

\* A name that may not be retired and has no row was never used.
LEMMA NeverRetired ==
  ASSUME IInv, NEW n \in Names, n \notin Retirable, ~Exists(n)
  PROVE  reflog[n] = <<>> /\ refs[n].oid = NoOid /\ ~refs[n].sealed
  BY SMTT(60), RowPresent DEF IInv, TypeOK, ReflogTerminal, OnlyRetirableRetired, Exists, NoRow

\* create_session
LEMMA CreateSessionShape ==
  ASSUME IInv, NEW s \in Sessions, NEW pinned \in Commits, NEW mountMain \in BOOLEAN,
         CreateSession(s, pinned, mountMain)
  PROVE  Shape
<1> DEFINE n == LiveRef[s]
           row == Row(pinned, "commit")
           e == Entry(NoOid, pinned, "session")
<1>0. n \in Names /\ n \in Heads /\ n \notin Retirable /\ n \notin Tags
  BY SessionNames, NameClasses, Zenon DEF Names, Retirable
<1>1. pinned \in Oids /\ pinned \in ObjectsOf("commit") BY CommitObjects, Zenon DEF Oids
<1>2. row \in RefRow /\ row.oid = pinned /\ row.kind = "commit"
  BY Zenon, <1>1, RowType, CommitObjects
<1>3. e \in LogRow /\ e.old = NoOid /\ e.new = pinned /\ e.reason = "session"
  BY <1>1, EntryType DEF Reasons
<1>4. /\ refs' = [refs EXCEPT ![n] = row] /\ reflog' = [reflog EXCEPT ![n] = Append(@, e)]
      /\ ~Exists(n)
  BY Zenon DEF CreateSession
<1>5. KindAllowed(n, "commit")
  BY <1>0, NameClasses, Zenon DEF KindAllowed
<1> HIDE DEF n, row, e
<1>6. reflog[n] = <<>> /\ refs[n].oid = NoOid /\ ~refs[n].sealed
  BY <1>0, <1>4, NeverRetired, Zenon
<1>7. Wrote(n, pinned) /\ refs'[n] = row
  BY ZenonT(60), <1>0, <1>1, <1>2, <1>3, <1>4, <1>5, <1>6, WriteOne DEF IInv, Wrote
<1>8. live' \in [Sessions -> Names \cup {NoName}]
  BY <1>0, Zenon DEF CreateSession, IInv, TypeOK, n
<1>9. spec' \in [Sessions -> [MountPaths -> Names \cup {NoName}]]
  <2>1. Main \in Names BY NameClasses, Zenon DEF Names
  <2> QED BY <1>0, <2>1 DEF CreateSession, IInv, TypeOK, n
<1>10. TypeOK'
  BY <1>7, <1>8, <1>9, Zenon DEF CreateSession, IInv, TypeOK, Wrote
<1>11. \A t \in Tags : TagStep(t)
  BY Zenon, <1>0, <1>7 DEF CreateSession, TagStep, Names, Wrote
<1>12. \A x \in Sessions : LiveStep(x)
  <2>1. refs'[n].oid # NoOid BY Zenon, <1>2, <1>7, RowPresent
  <2> QED BY <2>1, Zenon DEF CreateSession, LiveStep, IInv, TypeOK, n
<1> QED BY <1>7, <1>10, <1>11, <1>12, Zenon DEF Shape, CreateSession, IntroStep, Wrote

\* insert_mount
LEMMA InsertMountShape ==
  ASSUME IInv, NEW s \in Sessions, NEW m \in MountPaths, NEW n \in Names, InsertMount(s, m, n)
  PROVE  Shape
<1>1. spec' \in [Sessions -> [MountPaths -> Names \cup {NoName}]]
  BY Zenon, Respec DEF IInv, InsertMount
<1> QED BY <1>1, Zenon DEF IInv, InsertMount, TypeOK, Shape, Logged, TagStep, LiveStep, IntroStep

\* abandon_ref
LEMMA AbandonRefShape ==
  ASSUME IInv, NEW n \in Names, AbandonRef(n)
  PROVE  Shape
<1> DEFINE e == Entry(refs[n].oid, refs[n].oid, "abandon")
<1>1. refs[n].oid # NoOid /\ refs[n] \in RefRow /\ refs[n].oid \in Oids /\ ~refs[n].sealed
  BY RowPresent, Zenon DEF AbandonRef, Exists, IInv, TypeOK, RefRow
<1>2. e \in LogRow /\ e.old = refs[n].oid /\ e.reason = "abandon"
  BY <1>1, EntryType DEF Reasons
<1>3. refs' = [refs EXCEPT ![n] = NoRow] /\ reflog' = [reflog EXCEPT ![n] = Append(@, e)]
  BY Zenon DEF AbandonRef
<1>4. n \in Retirable /\ n \notin Tags /\ ~Held(n)
  BY Zenon, NameClasses DEF AbandonRef, IsForkRef, Retirable
<1> HIDE DEF e
<1>5. Append(reflog[n], e) \in Seq(LogRow)
  BY <1>2, AppendRow, Zenon DEF IInv, TypeOK
<1>6. TypeOK'
  BY Zenon, <1>3, <1>5 DEF IInv, AbandonRef, TypeOK
<1>7. \A x \in Names : Logged(x)
  BY Zenon, <1>1, <1>2, <1>3, <1>4 DEF IInv, TypeOK, Logged
<1>8. \A t \in Tags : TagStep(t)
  BY Zenon, <1>3, <1>4 DEF IInv, TypeOK, AbandonRef, TagStep, Names
<1> QED BY <1>6, <1>7, <1>8, Zenon DEF Shape, AbandonRef, LiveStep, IntroStep

\* publish_resolution
LEMMA PublishResolutionShape ==
  ASSUME IInv, NEW into \in Names, NEW c \in Conflicts, NEW r \in Resolutions,
         NEW expected \in Commits, NEW commit \in Commits, NEW conflict \in ConflictObjs,
         NEW allow \in BOOLEAN,
         PublishResolution(into, expected, commit, c, conflict, r, allow)
  PROVE  Shape
<1> DEFINE e1 == Entry(expected, commit, "resolve")
           e2 == Entry(NoOid, commit, "resolve")
           e3 == Entry(conflict, conflict, "abandon")
           row1 == Moved(refs[into], commit)
           row2 == Row(commit, "commit")
<1>0. c \in Names /\ r \in Names /\ c \in Retirable /\ r \notin Retirable
      /\ c \notin Tags /\ r \notin Tags /\ c # r
  BY NameClasses, Zenon DEF Names, Retirable
<1>1. /\ Movable(into, "commit", allow) /\ Movable(c, "conflict", FALSE)
      /\ refs[into].oid = expected /\ refs[c].oid = conflict /\ ~Exists(r) /\ ~Held(c)
  BY Zenon DEF PublishResolution
<1>2. /\ refs[into] \in RefRow /\ refs[into].oid # NoOid /\ ~refs[into].sealed
      /\ refs[into].kind = "commit" /\ KindAllowed(into, "commit") /\ into \notin Tags
  BY <1>1, MovableRow, CommitObjects, Zenon
<1>3. /\ refs[c].oid # NoOid /\ ~refs[c].sealed /\ refs[c].kind = "conflict"
  BY Zenon, <1>0, <1>1, MovableRow, CommitObjects
<1>4. refs[r].oid = NoOid /\ reflog[r] = <<>> /\ ~refs[r].sealed
  BY <1>0, <1>1, NeverRetired, Zenon
<1>5. into # c /\ into # r
  BY <1>2, <1>3, <1>4, Zenon
<1>6. /\ expected \in Oids /\ commit \in Oids /\ conflict \in Oids /\ "commit" \in Kinds
      /\ commit \in ObjectsOf("commit")
  BY Zenon, CommitObjects DEF Oids
<1>7. /\ e1 \in LogRow /\ e1.old = expected /\ e1.new = commit /\ e1.reason = "resolve"
      /\ e2 \in LogRow /\ e2.old = NoOid /\ e2.new = commit /\ e2.reason = "resolve"
      /\ e3 \in LogRow /\ e3.old = conflict /\ e3.reason = "abandon"
  <2>1. "resolve" \in Reasons /\ "abandon" \in Reasons BY Zenon DEF Reasons
  <2>2. e1 \in LogRow /\ e1.old = expected /\ e1.new = commit /\ e1.reason = "resolve"
    BY <1>6, <2>1, EntryType
  <2>3. e2 \in LogRow /\ e2.old = NoOid /\ e2.new = commit /\ e2.reason = "resolve"
    BY <1>6, <2>1, EntryType
  <2>4. e3 \in LogRow /\ e3.old = conflict /\ e3.reason = "abandon"
    BY <1>6, <2>1, EntryType
  <2> QED BY <2>2, <2>3, <2>4, Zenon
<1>8. /\ row1 \in RefRow /\ row1.oid = commit /\ row1.kind = "commit"
      /\ row2 \in RefRow /\ row2.oid = commit /\ row2.kind = "commit"
  <2>1. row1 \in RefRow /\ row1.oid = commit /\ row1.kind = "commit"
    BY <1>2, <1>6, MovedRow, Zenon
  <2>2. row2 \in RefRow /\ row2.oid = commit /\ row2.kind = "commit"
    BY Zenon, <1>6, RowType
  <2> QED BY <2>1, <2>2, Zenon
<1>9. /\ refs' = [refs EXCEPT ![into] = row1, ![r] = row2, ![c] = NoRow]
      /\ reflog' = [reflog EXCEPT ![into] = Append(@, e1), ![r] = Append(@, e2),
                                  ![c] = Append(@, e3)]
  BY Zenon DEF PublishResolution, IInv, TypeOK
<1>10. KindAllowed(r, "commit")
  BY NameClasses, Zenon DEF KindAllowed
<1> HIDE DEF e1, e2, e3, row1, row2
<1>11. /\ refs'[into] = row1 /\ refs'[r] = row2 /\ refs'[c] = NoRow
       /\ reflog'[into] = Append(reflog[into], e1)
       /\ reflog'[r] = Append(reflog[r], e2)
       /\ reflog'[c] = Append(reflog[c], e3)
       /\ \A x \in Names : x # into /\ x # r /\ x # c =>
            refs'[x] = refs[x] /\ reflog'[x] = reflog[x]
  BY Zenon, <1>0, <1>5, <1>9 DEF IInv, TypeOK
<1>12. /\ Append(reflog[into], e1) \in Seq(LogRow) /\ Append(reflog[r], e2) \in Seq(LogRow)
       /\ Append(reflog[c], e3) \in Seq(LogRow)
       /\ Append(reflog[into], e1) # reflog[into] /\ Last(Append(reflog[into], e1)) = e1
  <2>1. reflog[into] \in Seq(LogRow) /\ reflog[r] \in Seq(LogRow) /\ reflog[c] \in Seq(LogRow)
    BY Zenon, <1>0 DEF IInv, TypeOK
  <2>2. Len(Append(reflog[into], e1)) = Len(reflog[into]) + 1 /\ Len(reflog[into]) \in Nat
    BY <1>7, <2>1, AppendRow
  <2> QED BY <1>7, <2>1, <2>2, AppendRow
<1>13. refs' \in [Names -> RefRow \cup {NoRow}] /\ reflog' \in [Names -> Seq(LogRow)]
  BY Zenon, <1>8, <1>9, <1>12 DEF IInv, TypeOK
<1>14. intro' \in [Blobs -> Commits \cup {NoOid}] /\ \A b \in Blobs : IntroStep(b)
  <2>1. reflog'[into] # reflog[into] /\ Last(reflog'[into]).new = commit
    BY <1>7, <1>11, <1>12, Zenon
  <2>2. TypeOK /\ Introduce("commit", commit)
    BY Zenon DEF IInv, PublishResolution
  <2> QED BY <1>6, <2>1, <2>2, IntroduceShape, Zenon
<1>15. TypeOK'
  BY ZenonT(60), <1>13, <1>14 DEF IInv, PublishResolution, TypeOK
<1>16. Logged(into)
  BY <1>1, <1>2, <1>6, <1>7, <1>8, <1>11, Zenon DEF Logged
<1>17. Logged(r)
  BY Zenon, <1>4, <1>6, <1>7, <1>8, <1>10, <1>11 DEF Logged
<1>18. Logged(c)
  BY <1>0, <1>1, <1>3, <1>7, <1>11, Zenon DEF Logged
<1>19. \A x \in Names : Logged(x)
  <2> TAKE x \in Names
  <2>1. CASE x # into /\ x # r /\ x # c BY Zenon, <1>11, <2>1 DEF Logged
  <2> QED BY <1>16, <1>17, <1>18, <2>1, Zenon
<1>20. \A t \in Tags : TagStep(t)
  BY ZenonT(60), <1>0, <1>2, <1>11 DEF PublishResolution, TagStep, Names
<1> QED BY Zenon, <1>14, <1>15, <1>19, <1>20 DEF Shape, PublishResolution, LiveStep

\* commit_seal
LEMMA CommitSealShape ==
  ASSUME IInv, NEW t \in Tags, NEW n \in Names, NEW snap \in Snapshots, NEW commit \in Commits,
         CommitSeal(t, snap, n, commit)
  PROVE  Shape
<1> DEFINE e == Entry(NoOid, snap, "seal")
           row == [oid |-> snap, kind |-> "snapshot", protected |-> TRUE, sealed |-> TRUE]
           seal == [snap |-> snap, commit |-> commit]
<1>0. t \in Names /\ t \notin Retirable
  BY NameClasses, Zenon DEF Names, Retirable
<1>1. snap \in Oids /\ commit \in Oids /\ snap \in ObjectsOf("snapshot") /\ "snapshot" \in Kinds
  BY CommitObjects, Zenon DEF Oids
<1>2. /\ row \in RefRow /\ row.oid = snap /\ row.kind = "snapshot"
      /\ row.protected = TRUE /\ row.sealed = TRUE
  BY <1>1, Zenon DEF RefRow
<1>3. e \in LogRow /\ e.old = NoOid /\ e.new = snap /\ e.reason = "seal"
  <2>1. "seal" \in Reasons BY Zenon DEF Reasons
  <2> QED BY <1>1, <2>1, EntryType
<1>4. seal \in SealRow /\ seal.snap = snap /\ seal.commit = commit
  BY Zenon DEF SealRow
<1>5. /\ refs' = [refs EXCEPT ![t] = row] /\ reflog' = [reflog EXCEPT ![t] = Append(@, e)]
      /\ seals' = [seals EXCEPT ![t] = seal] /\ landmarks' = landmarks \cup {snap, commit}
      /\ ~Exists(t)
  BY Zenon DEF CommitSeal
<1>6. KindAllowed(t, "snapshot")
  BY NameClasses, Zenon DEF KindAllowed
<1> HIDE DEF e, row, seal
<1>7. reflog[t] = <<>> /\ refs[t].oid = NoOid /\ ~refs[t].sealed
  BY Zenon, <1>0, <1>5, NeverRetired
<1>8. Wrote(t, snap) /\ refs'[t] = row
  BY ZenonT(60), <1>0, <1>1, <1>2, <1>3, <1>5, <1>6, <1>7, WriteOne DEF IInv, Wrote
<1>9. TypeOK'
  <2>1. seals' \in [Tags -> SealRow \cup {NoSeal}] BY <1>4, <1>5, Zenon DEF IInv, TypeOK
  <2>2. landmarks' \subseteq Oids BY <1>1, <1>5, Zenon DEF IInv, TypeOK, Oids
  <2>3. refs' \in [Names -> RefRow \cup {NoRow}] /\ reflog' \in [Names -> Seq(LogRow)]
    BY <1>8, Zenon DEF Wrote
  <2>4. intro' = intro /\ live' = live /\ spec' = spec BY Zenon DEF CommitSeal
  <2> QED BY <2>1, <2>2, <2>3, <2>4, Zenon DEF IInv, TypeOK
<1>10. TagStep(t)
  <2>1. refs'[t].oid # NoOid BY <1>2, <1>8, RowPresent, Zenon
  <2>2. seals'[t] = seal BY <1>5, Zenon DEF IInv, TypeOK
  <2>3. {snap, commit} \subseteq landmarks' BY <1>5, Zenon
  <2> QED BY <1>2, <1>4, <1>7, <1>8, <2>1, <2>2, <2>3, Zenon DEF TagStep
<1>11. ASSUME NEW x \in Tags, x # t PROVE TagStep(x)
  BY ZenonT(60), <1>5, <1>8, <1>11 DEF TagStep, Wrote, IInv, TypeOK, Names
<1> QED BY Zenon, <1>5, <1>8, <1>9, <1>10, <1>11 DEF Shape, CommitSeal, LiveStep, IntroStep, Wrote

\* landmark
LEMMA LandmarkShape ==
  ASSUME IInv, NEW o \in Marked, Landmark(o)
  PROVE  Shape
  BY ZenonT(60), SessionNames DEF IInv, Landmark, TypeOK, Shape, Logged, TagStep, LiveStep, IntroStep

\* abandon_session
LEMMA AbandonSessionShape ==
  ASSUME IInv, NEW s \in Sessions, AbandonSession(s)
  PROVE  Shape
<1>1. TypeOK'
  BY Zenon DEF IInv, AbandonSession, TypeOK
<1> QED BY Zenon, <1>1 DEF IInv, TypeOK, AbandonSession, Shape, Logged, TagStep, LiveStep, IntroStep

\* No transaction.
LEMMA StutterShape ==
  ASSUME IInv, UNCHANGED vars
  PROVE  Shape
<1>1. TypeOK' BY Zenon DEF IInv, TypeOK, vars
<1> QED BY <1>1, Zenon DEF vars, Shape, Logged, TagStep, LiveStep, IntroStep

\* Every step of the ledger has the shape.
LEMMA StepShape ==
  ASSUME IInv, [Next]_vars
  PROVE  Shape
<1>1. CASE \E n \in Names, k \in Kinds : \E o \in ObjectsOf(k) : InsertRef(n, k, o)
  BY <1>1, InsertRefShape, Zenon
<1>2. CASE \E n \in Names, k \in Kinds, allow \in BOOLEAN :
             \E expected \in ObjectsOf(k) \cup {NoOid}, new \in ObjectsOf(k) :
               CasRef(n, k, expected, new, allow)
  BY <1>2, CasRefShape, Zenon
<1>3. CASE \E s \in Sessions, m \in MountPaths, n \in Names, expected, new \in Commits :
             CasRefSession(s, m, n, expected, new)
  BY <1>3, CasRefSessionShape, Zenon
<1>4. CASE \E s \in Sessions, pinned \in Commits, mountMain \in BOOLEAN :
             CreateSession(s, pinned, mountMain)
  BY <1>4, CreateSessionShape, Zenon
<1>5. CASE \E s \in Sessions, m \in MountPaths, n \in Names : InsertMount(s, m, n)
  BY <1>5, InsertMountShape, Zenon
<1>6. CASE \E n \in Names : AbandonRef(n)
  BY <1>6, AbandonRefShape, Zenon
<1>7. CASE \E into \in Names, c \in Conflicts, r \in Resolutions, expected, commit \in Commits,
              conflict \in ConflictObjs, allow \in BOOLEAN :
             PublishResolution(into, expected, commit, c, conflict, r, allow)
  BY <1>7, PublishResolutionShape, Zenon
<1>8. CASE \E t \in Tags, n \in Names, snap \in Snapshots, commit \in Commits :
             CommitSeal(t, snap, n, commit)
  BY <1>8, CommitSealShape, Zenon
<1>9. CASE \E o \in Marked : Landmark(o)
  BY <1>9, LandmarkShape, Zenon
<1>10. CASE \E s \in Sessions : AbandonSession(s)
  BY <1>10, AbandonSessionShape, Zenon
<1>11. CASE UNCHANGED vars
  BY <1>11, StutterShape, Zenon
<1> QED BY <1>1, <1>2, <1>3, <1>4, <1>5, <1>6, <1>7, <1>8, <1>9, <1>10, <1>11, Zenon DEF Next


-----------------------------------------------------------------------------
(* The shape preserves the invariant *)

\* The catalog that init publishes satisfies the invariant.
LEMMA InitInv == Init => IInv
<1> SUFFICES ASSUME Init PROVE IInv BY Zenon
<1> DEFINE e == Entry(NoOid, First, "init")
           row == [oid |-> First, kind |-> "commit", protected |-> TRUE, sealed |-> FALSE]
<1>1. First \in Oids /\ First \in Commits /\ First \in ObjectsOf("commit") /\ "commit" \in Kinds
  BY OidTypes, CommitObjects, Zenon DEF Oids
<1>2. row \in RefRow /\ row.oid = First /\ row.kind = "commit" BY <1>1, Zenon DEF RefRow
<1>3. e \in LogRow /\ e.old = NoOid /\ e.new = First /\ e.reason = "init"
  BY <1>1, EntryType DEF Reasons
<1>4. <<e>> \in Seq(LogRow) /\ <<>> \in Seq(LogRow) /\ <<e>> # <<>> /\ Last(<<e>>) = e
      /\ Len(<<e>>) = 1 /\ <<e>>[1] = e /\ Len(<<>>) = 0
  BY <1>3 DEF Last
<1>5. /\ refs = [n \in Names |-> IF n = Main THEN row ELSE NoRow]
      /\ reflog = [n \in Names |-> IF n = Main THEN <<e>> ELSE <<>>]
  BY Zenon DEF Init
<1>6. Main \in Names /\ Main \in Heads /\ Main \notin Tags BY NameClasses, Zenon DEF Names
<1> HIDE DEF e, row
<1>7. TypeOK
  BY ZenonT(60), <1>1, <1>2, <1>4, <1>5, OidTypes DEF Init, TypeOK, Oids
<1>8. ReflogChain
  BY <1>3, <1>4, <1>5 DEF ReflogChain
<1>9. ReflogTerminal
  BY <1>2, <1>3, <1>4, <1>5, RowPresent, Zenon DEF ReflogTerminal, Exists, Retired
<1>10. AbandonIsTerminal
  BY <1>3, <1>4, <1>5 DEF AbandonIsTerminal
<1>11. OnlyRetirableRetired
  BY <1>3, <1>4, <1>5, Zenon DEF OnlyRetirableRetired, Retired
<1>12. SealsAgree
  <2>1. KindAllowed(Main, "commit") BY <1>6, NameClasses, Zenon DEF KindAllowed
  <2>2. \A t \in Tags : refs[t] = NoRow /\ seals[t] = NoSeal
    BY <1>5, <1>6, Zenon DEF Init, Names
  <2> QED BY <1>1, <1>2, <1>5, <2>1, <2>2, RowPresent, Zenon DEF SealsAgree, Exists
<1>13. LiveIsHead /\ LiveHeadsExist
  BY Zenon DEF Init, LiveIsHead, LiveHeadsExist
<1> QED BY <1>7, <1>8, <1>9, <1>10, <1>11, <1>12, <1>13, Zenon DEF IInv

\* A step of the shape preserves the invariant.
LEMMA ShapeKeepsInv ==
  ASSUME IInv, Shape
  PROVE  IInv'
<1>1. TypeOK' BY Zenon DEF Shape
<1>2. ReflogChain' /\ ReflogTerminal' /\ AbandonIsTerminal' /\ OnlyRetirableRetired'
  BY LoggedKeepsReflog, Zenon DEF IInv, Shape
<1>3. SealsAgree'
  <2>1. ASSUME NEW n \in Names, refs'[n].oid # NoOid
        PROVE  KindAllowed(n, refs'[n].kind) /\ refs'[n].oid \in ObjectsOf(refs'[n].kind)
    <3>1. Logged(n) BY Zenon DEF Shape
    <3> QED BY <2>1, <3>1, RowPresent, Zenon DEF Logged, IInv, SealsAgree, Exists
  <2>2. ASSUME NEW t \in Tags
        PROVE  /\ refs'[t].oid # NoOid <=> seals'[t] # NoSeal
               /\ refs'[t].oid # NoOid =>
                    /\ refs'[t].protected /\ refs'[t].sealed
                    /\ refs'[t].oid = seals'[t].snap
                    /\ {seals'[t].snap, seals'[t].commit} \subseteq landmarks'
    <3>1. \A x \in SealRow : x # NoSeal
      BY OidTypes DEF SealRow, NoSeal, Oids
    <3>2. TagStep(t) /\ landmarks \subseteq landmarks' BY Zenon DEF Shape
    <3> QED BY <3>1, <3>2, Zenon DEF TagStep, IInv, SealsAgree, Exists
  <2> QED BY <2>1, <2>2, Zenon DEF SealsAgree, Exists
<1>4. LiveIsHead'
  BY Zenon DEF IInv, Shape, LiveIsHead, LiveStep
<1>5. LiveHeadsExist'
  <2> SUFFICES ASSUME NEW s \in Sessions, live'[s] # NoName
               PROVE  refs'[live'[s]].oid # NoOid /\ refs'[live'[s]].kind = "commit"
    BY Zenon DEF LiveHeadsExist, Exists
  <2> DEFINE n == LiveRef[s]
  <2>1. n \in Names /\ n \in Heads /\ n \notin Retirable
    BY SessionNames, NameClasses, Zenon DEF Names, Retirable
  <2>2. live'[s] = n BY <1>4, Zenon DEF LiveIsHead
  <2>3. Logged(n) /\ LiveStep(s) BY <2>1, Zenon DEF Shape
  <2> HIDE DEF n
  <2>4. refs'[n].oid # NoOid
    BY <2>1, <2>2, <2>3, RowPresent, Zenon DEF Logged, LiveStep, IInv, LiveHeadsExist, Exists, n
  <2>5. KindAllowed(n, refs'[n].kind)
    BY <1>3, <2>1, <2>4, Zenon DEF SealsAgree, Exists
  <2> QED BY <2>1, <2>2, <2>4, <2>5, Zenon DEF KindAllowed
<1> QED BY <1>1, <1>2, <1>3, <1>4, <1>5, Zenon DEF IInv

-----------------------------------------------------------------------------
(* Theorems *)

\* The invariant holds in every reachable catalog.
THEOREM Inductive == Spec => []IInv
<1>1. IInv /\ [Next]_vars => IInv' BY StepShape, ShapeKeepsInv, Zenon
<1> QED BY InitInv, <1>1, PTL DEF Spec

\* The rows of every table have the types their columns promise.
THEOREM TypeCorrect == Spec => []TypeOK
<1>1. IInv => TypeOK BY Zenon DEF IInv
<1> QED BY Inductive, <1>1, PTL

\* The reflog is a chain per name, whichever transactions ran.
THEOREM ChainHolds == Spec => []ReflogChain
<1>1. IInv => ReflogChain BY Zenon DEF IInv
<1> QED BY Inductive, <1>1, PTL

\* The ref table is what the last rows of the reflog say.
THEOREM TerminalHolds == Spec => []ReflogTerminal
<1>1. IInv => ReflogTerminal BY Zenon DEF IInv
<1> QED BY Inductive, <1>1, PTL

\* No transaction writes a reflog row after an abandon row.
THEOREM NoResurrection == Spec => []AbandonIsTerminal
<1>1. IInv => AbandonIsTerminal BY Zenon DEF IInv
<1> QED BY Inductive, <1>1, PTL

\* Tags, seals rows and landmarks agree, and every ref has its mandated kind.
THEOREM SealsHold == Spec => []SealsAgree
<1>1. IInv => SealsAgree BY Zenon DEF IInv
<1> QED BY Inductive, <1>1, PTL

\* Every open session's live ref exists and names a commit.
THEOREM LiveHeadsHold == Spec => []LiveHeadsExist
<1>1. IInv => LiveHeadsExist BY Zenon DEF IInv
<1> QED BY Inductive, <1>1, PTL

\* What every step does to the reflog.
AppendsRows ==
  \A n \in Names :
    /\ Len(reflog'[n]) >= Len(reflog[n])
    /\ \A i \in 1..Len(reflog[n]) : reflog'[n][i] = reflog[n][i]
    /\ refs'[n] # refs[n] =>
         /\ Len(reflog'[n]) = Len(reflog[n]) + 1
         /\ Exists(n) => Last(reflog'[n]).old = refs[n].oid
         /\ refs'[n].oid # NoOid => Last(reflog'[n]).new = refs'[n].oid

LEMMA ShapeAppends ==
  ASSUME IInv, Shape
  PROVE  AppendsRows
<1> SUFFICES ASSUME NEW n \in Names
             PROVE  /\ Len(reflog'[n]) >= Len(reflog[n])
                    /\ \A i \in 1..Len(reflog[n]) : reflog'[n][i] = reflog[n][i]
                    /\ refs'[n] # refs[n] =>
                         /\ Len(reflog'[n]) = Len(reflog[n]) + 1
                         /\ refs[n].oid # NoOid => Last(reflog'[n]).old = refs[n].oid
                         /\ refs'[n].oid # NoOid => Last(reflog'[n]).new = refs'[n].oid
  BY Zenon DEF AppendsRows, Exists
<1>1. Logged(n) BY Zenon DEF Shape
<1>2. reflog[n] \in Seq(LogRow) /\ Len(reflog[n]) \in Nat BY DEF IInv, TypeOK
<1>3. CASE refs'[n] = refs[n] /\ reflog'[n] = reflog[n] BY <1>2, <1>3
<1>4. ASSUME NEW e \in LogRow, reflog'[n] = Append(reflog[n], e),
             IF refs[n].oid # NoOid THEN e.old = refs[n].oid ELSE TRUE,
             refs'[n].oid = e.new \/ refs'[n] = NoRow
      PROVE  /\ Len(reflog'[n]) = Len(reflog[n]) + 1 /\ Len(reflog'[n]) >= Len(reflog[n])
             /\ \A i \in 1..Len(reflog[n]) : reflog'[n][i] = reflog[n][i]
             /\ refs[n].oid # NoOid => Last(reflog'[n]).old = refs[n].oid
             /\ refs'[n].oid # NoOid => Last(reflog'[n]).new = refs'[n].oid
  BY <1>2, <1>4, AppendRow, RowPresent
<1> QED BY <1>1, <1>3, <1>4, Zenon DEF Logged

\* What no step does to sealed rows.
KeepsSealed ==
  /\ \A n \in Names : refs[n].sealed => refs'[n] = refs[n]
  /\ \A t \in Tags : seals[t] # NoSeal => seals'[t] = seals[t]
  /\ \A b \in Blobs : intro[b] # NoOid => intro'[b] = intro[b]

LEMMA ShapeKeepsSealed ==
  ASSUME IInv, Shape
  PROVE  KeepsSealed
<1>1. \A n \in Names : refs[n].sealed => refs'[n] = refs[n] BY Zenon DEF Shape, Logged
<1>2. \A t \in Tags : seals[t] # NoSeal => seals'[t] = seals[t]
  BY Zenon DEF Shape, TagStep, IInv, SealsAgree, Exists
<1>3. \A b \in Blobs : intro[b] # NoOid => intro'[b] = intro[b] BY Zenon DEF Shape, IntroStep
<1> QED BY <1>1, <1>2, <1>3, Zenon DEF KeepsSealed

\* The reflog is append-only and complete: no ref changes without its row.
THEOREM MovesLogged == Spec => EveryMoveLogged
<1>1. IInv /\ [Next]_vars => AppendsRows BY StepShape, ShapeAppends, Zenon
<1> QED BY Inductive, <1>1, PTL DEF Spec, EveryMoveLogged, AppendsRows

\* A sealed ref, its seals row and a provenance row never change again.
THEOREM SealedStays == Spec => SealedIsForever
<1>1. IInv /\ [Next]_vars => KeepsSealed BY StepShape, ShapeKeepsSealed, Zenon
<1> QED BY Inductive, <1>1, PTL DEF Spec, SealedIsForever, KeepsSealed

\* No transaction deletes a ref that a session or a mount names.
THEOREM HeldStays == Spec => HeldRefStays
<1> DEFINE A == \A n \in Names : Held(n) /\ Exists(n) => refs'[n].oid # NoOid
<1>1. IInv /\ [Next]_vars => A
  BY StepShape, RowPresent, Zenon DEF Shape, Logged, Exists
<1> QED BY Inductive, <1>1, PTL DEF Spec, HeldRefStays

\* Every provenance row names a commit some ref was moved to.
THEOREM IntroHolds == Spec => []IntroPublished
<1>1. Init => IntroPublished
  <2> SUFFICES ASSUME Init PROVE IntroPublished BY Zenon
  <2> DEFINE e == Entry(NoOid, First, "init")
  <2>1. Main \in Names /\ reflog[Main] = <<e>> BY NameClasses, Zenon DEF Init, Names
  <2>2. e.new = First BY Zenon DEF Entry
  <2>3. Len(<<e>>) = 1 /\ <<e>>[1] = e BY Zenon
  <2>4. \A b \in Blobs : intro[b] # NoOid => intro[b] = First BY Zenon DEF Init
  <2> HIDE DEF e
  <2>5. 1 \in 1..Len(reflog[Main]) /\ reflog[Main][1].new = First
    BY <2>1, <2>2, <2>3
  <2> QED BY <2>1, <2>4, <2>5, Zenon DEF IntroPublished
<1>2. IInv /\ IntroPublished /\ [Next]_vars => IntroPublished'
  <2> SUFFICES ASSUME IInv, IntroPublished, [Next]_vars, NEW b \in Blobs, intro'[b] # NoOid
               PROVE  \E n \in Names : \E i \in 1..Len(reflog'[n]) : reflog'[n][i].new = intro'[b]
    BY Zenon DEF IntroPublished
  <2>0. Shape BY StepShape, Zenon
  <2>1. CASE intro'[b] = intro[b]
    <3>1. PICK n \in Names : \E i \in 1..Len(reflog[n]) : reflog[n][i].new = intro[b]
      BY <2>1, Zenon DEF IntroPublished
    <3>2. PICK i \in 1..Len(reflog[n]) : reflog[n][i].new = intro[b] BY <3>1, Zenon
    <3>3. reflog[n] \in Seq(LogRow) /\ Len(reflog[n]) \in Nat BY DEF IInv, TypeOK
    <3>4. i \in 1..Len(reflog'[n]) /\ reflog'[n][i] = reflog[n][i]
      <4>1. CASE reflog'[n] = reflog[n] BY <4>1, Zenon
      <4>2. ASSUME NEW e \in LogRow, reflog'[n] = Append(reflog[n], e)
            PROVE  i \in 1..Len(reflog'[n]) /\ reflog'[n][i] = reflog[n][i]
        <5>1. Len(reflog'[n]) = Len(reflog[n]) + 1 /\ reflog'[n][i] = reflog[n][i]
          BY <3>3, <4>2, AppendRow
        <5> QED BY <3>3, <5>1
      <4> QED BY <2>0, <4>1, <4>2, Zenon DEF Shape, Logged
    <3> QED BY <2>1, <3>2, <3>4, Zenon
  <2>2. CASE intro'[b] # intro[b]
    <3>1. PICK n \in Names : reflog'[n] # reflog[n] /\ Last(reflog'[n]).new = intro'[b]
      BY <2>0, <2>2, Zenon DEF Shape, IntroStep
    <3>2. reflog'[n] # <<>> /\ reflog'[n] \in Seq(LogRow)
      <4>1. PICK e \in LogRow : reflog'[n] = Append(reflog[n], e)
        BY <2>0, <3>1, Zenon DEF Shape, Logged
      <4> QED BY <4>1, AppendRow DEF IInv, TypeOK
    <3> QED BY <3>1, <3>2, LastRow, Zenon
  <2> QED BY <2>1, <2>2, Zenon
<1> QED BY Inductive, <1>1, <1>2, PTL DEF Spec

===============================================================================
