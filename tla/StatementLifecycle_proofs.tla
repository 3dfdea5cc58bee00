--------------------- MODULE StatementLifecycle_proofs ---------------------
(***************************************************************************)
(* Statement drafts, versions and hand-offs for any number of requests,    *)
(* drafts, tenancies and versions: the properties of StatementLifecycle.   *)
(***************************************************************************)
EXTENDS StatementLifecycle, TLAPS, FiniteSetTheorems, SequenceTheorems

ClaimRow == [tenancy: Tenancy, source: DOMAIN statement, cents: Nat \ {0}, batch: Nat]

\* What the inputs can settle.
Settlements ==
    [Tenancy -> UNION {{i.saldo[t] : t \in Tenancy} \cup {0} : i \in Source}]

\* The draft a finalisation names, as it was read.
DraftRead(t) ==
    /\ t.id \in Draft \cup {None}
    /\ t.id # None => /\ t.id \in Draft /\ Exists(t.id)
                      /\ t.row \in DraftRow /\ t.row.version < MaxVersion

\* The version a request is about to insert: the one after the version that was
\* the latest when it looked.
NextVersion(t) ==
    /\ t.latest \in 0 .. Len(statement)
    /\ t.new \in StatementRow /\ t.new.status = "FINALIZED"
    /\ t.new.version = t.latest + 1 /\ t.new.supersedes = t.latest
    /\ t.new.settlement \in Settlements

\* What a request has read and decided.
Claim(s) ==
    LET t == txn[s] IN
    /\ t.op = "create" => t.id \in Draft /\ t.new \in DraftRow
    /\ t.op = "edit" => /\ t.id \in Draft /\ Exists(t.id)
                        /\ t.row \in DraftRow /\ t.new \in DraftRow
    /\ t.op \in {"finalize", "archive"} => DraftRead(t)
    /\ t.op = "archive" => NextVersion(t)
    /\ t.op = "handoff" => t.source \in DOMAIN statement /\ Owing(t.source) # {}

Shape ==
    /\ draft \in [Draft -> DraftRow \cup {Absent}]
    /\ statement \in Seq(StatementRow) /\ Len(statement) <= MaxStatement
    /\ claim \subseteq ClaimRow /\ IsFiniteSet(claim)
    /\ source \in Source /\ late \in BOOLEAN
    /\ DOMAIN txn = Session

RaceInv == Shape /\ OneVersionChain /\ ChargedOnce /\ \A s \in Session : Claim(s)

-----------------------------------------------------------------------------
(* Draft rows.                                                             *)

LEMMA AbsentIsNoRow == Absent \notin DraftRow
  BY DEF Absent, DraftRow, Status

LEMMA FlushedRow ==
    ASSUME NEW row \in DraftRow, NEW old \in DraftRow, NEW new \in DraftRow
    PROVE  Flushed(row, old, new) \in DraftRow
  BY DEF Flushed, DraftRow, Column, Status

\* Nothing happened between the read and the flush.
LEMMA FlushedAlone ==
    ASSUME NEW row \in DraftRow, NEW new \in DraftRow
    PROVE  Flushed(row, row, new) = new
  BY DEF Flushed, DraftRow, Column, Status

\* What the four endpoints write.
LEMMA CreatedRow ==
    ASSUME NEW content \in Content, NEW correction \in 0 .. MaxStatement, NEW reason \in BOOLEAN
    PROVE  LET new == [status |-> "DRAFT", version |-> 1, content |-> content,
                       correction |-> correction, reason |-> reason, final |-> 0]
           IN  new \in DraftRow /\ new.status = "DRAFT" /\ new.final = 0
<1>1. 1 \in 1 .. MaxVersion /\ 0 \in 0 .. MaxStatement
  BY StatementAssumption
<1> QED
  BY <1>1 DEF DraftRow, Status

LEMMA EditedRow ==
    ASSUME NEW row \in DraftRow, row.version < MaxVersion, NEW content \in Content,
           NEW reason \in BOOLEAN
    PROVE  /\ Edited(row, content, reason) \in DraftRow
           /\ Edited(row, content, reason).status = "DRAFT"
           /\ Edited(row, content, reason).final = row.final
<1>1. row.version + 1 \in 1 .. MaxVersion
  BY StatementAssumption DEF DraftRow
<1> DEFINE v == row.version + 1
<1>2. Edited(row, content, reason) =
          [row EXCEPT !.content = content, !.reason = reason, !.status = "DRAFT", !.version = v]
  BY DEF Edited
<1> HIDE DEF v
<1>3. v \in 1 .. MaxVersion
  BY <1>1 DEF v
<1> QED
  BY <1>2, <1>3 DEF DraftRow, Status

\* A row with another status and the next version.
LEMMA NextRow ==
    ASSUME NEW row \in DraftRow, row.version < MaxVersion, NEW status \in Status
    PROVE  LET new == [row EXCEPT !.status = status, !.version = @ + 1] IN
           /\ new \in DraftRow /\ new.status = status /\ new.final = row.final
           /\ new.correction = row.correction /\ new.reason = row.reason
<1>1. row.version + 1 \in 1 .. MaxVersion
  BY StatementAssumption DEF DraftRow
<1> DEFINE v == row.version + 1
<1>2. [row EXCEPT !.status = status, !.version = @ + 1] =
          [row EXCEPT !.status = status, !.version = v]
  OBVIOUS
<1> HIDE DEF v
<1>3. v \in 1 .. MaxVersion
  BY <1>1 DEF v
<1> QED
  BY <1>2, <1>3 DEF DraftRow

LEMMA FinalRow ==
    ASSUME NEW row \in DraftRow, row.version < MaxVersion, NEW id \in 0 .. MaxStatement
    PROVE  LET new == [row EXCEPT !.status = "FINALIZED", !.final = id, !.version = @ + 1] IN
           /\ new \in DraftRow /\ new.status = "FINALIZED" /\ new.final = id
           /\ new.content = row.content /\ new.correction = row.correction
           /\ new.reason = row.reason
<1>1. row.version + 1 \in 1 .. MaxVersion
  BY StatementAssumption DEF DraftRow
<1> DEFINE v == row.version + 1
<1>2. [row EXCEPT !.status = "FINALIZED", !.final = id, !.version = @ + 1] =
          [row EXCEPT !.status = "FINALIZED", !.final = id, !.version = v]
  OBVIOUS
<1> HIDE DEF v
<1>3. v \in 1 .. MaxVersion
  BY <1>1 DEF v
<1> QED
  BY <1>2, <1>3 DEF DraftRow, Status

LEMMA OverallStatus ==
    ASSUME NEW row
    PROVE  /\ Overall(row) \in Status \ {"FINALIZED", "CANCELLED", "DRAFT"}
           /\ Overall(row) = "READY" => (row.correction # 0 => row.reason)
  BY DEF Overall, Blocked, Status

-----------------------------------------------------------------------------
(* Versions.                                                               *)

\* The latest version is the last one.
LEMMA LatestIsLast ==
    ASSUME RaceInv
    PROVE  Latest = Len(statement)
<1>1. /\ statement \in Seq(StatementRow) /\ DOMAIN statement = 1 .. Len(statement)
      /\ Len(statement) \in Nat
  BY DEF RaceInv, Shape
<1>2. \A i \in DOMAIN statement : statement[i].version = i
  BY DEF RaceInv, OneVersionChain
<1>3. CASE statement = <<>>
  BY <1>3 DEF Latest
<1>4. CASE statement # <<>>
  <2>1. Len(statement) \in DOMAIN statement
    BY <1>1, <1>4
  <2> DEFINE Highest(i) == i \in DOMAIN statement /\ \A j \in DOMAIN statement :
                               statement[j].version <= statement[i].version
  <2>2. Highest(Len(statement))
    BY <1>1, <1>2, <2>1
  <2>3. \A i : Highest(i) => i = Len(statement)
    BY <1>1, <1>2, <2>1
  <2>4. HighestOf(DOMAIN statement) = CHOOSE i : Highest(i)
    BY DEF HighestOf
  <2> HIDE DEF Highest
  <2>5. HighestOf(DOMAIN statement) = Len(statement)
    BY <2>2, <2>3, <2>4
  <2> QED
    BY <1>4, <2>5 DEF Latest
<1> QED
  BY <1>3, <1>4

\* Two rows that differ in their status at most.
SameButStatus(new, old) ==
    /\ new.version = old.version /\ new.supersedes = old.supersedes
    /\ new.settlement = old.settlement /\ new.draft = old.draft /\ new.content = old.content

\* A row that is superseded keeps everything but its status.
LEMMA SupersededRows ==
    ASSUME statement \in Seq(StatementRow), NEW i \in Nat
    PROVE  /\ Superseded(i) \in Seq(StatementRow) /\ Len(Superseded(i)) = Len(statement)
           /\ \A j \in 1 .. Len(statement) :
                 /\ Superseded(i)[j] \in StatementRow
                 /\ SameButStatus(Superseded(i)[j], statement[j])
                 /\ j = i => Superseded(i)[j].status = "SUPERSEDED"
                 /\ j # i => Superseded(i)[j] = statement[j]
<1>1. DOMAIN statement = 1 .. Len(statement) /\ \A j \in 1 .. Len(statement) : statement[j] \in StatementRow
  OBVIOUS
<1>2. ASSUME NEW j \in 1 .. Len(statement)
      PROVE  /\ Superseded(i)[j] \in StatementRow
             /\ SameButStatus(Superseded(i)[j], statement[j])
             /\ j = i => Superseded(i)[j].status = "SUPERSEDED"
             /\ j # i => Superseded(i)[j] = statement[j]
  <2>1. CASE j # i
    <3>1. Superseded(i)[j] = statement[j]
      BY <1>1, <2>1 DEF Superseded
    <3> QED
      BY <1>1, <2>1, <3>1 DEF SameButStatus
  <2>2. CASE j = i
    <3>1. Superseded(i)[j] = [statement[j] EXCEPT !.status = "SUPERSEDED"]
      BY <1>1, <2>2 DEF Superseded
    <3>2. PICK row \in StatementRow : row = statement[j]
      BY <1>1
    <3>3. Superseded(i)[j] = [row EXCEPT !.status = "SUPERSEDED"]
      BY <3>1, <3>2
    <3>4. [row EXCEPT !.status = "SUPERSEDED"] \in StatementRow
      BY DEF StatementRow
    <3> QED
      BY <2>2, <3>2, <3>3, <3>4 DEF SameButStatus, StatementRow
  <2> QED
    BY <2>1, <2>2
<1>3. Superseded(i) = [j \in 1 .. Len(statement) |-> Superseded(i)[j]]
  BY <1>1 DEF Superseded
<1>4. Superseded(i) \in [1 .. Len(statement) -> StatementRow]
  BY <1>2, <1>3
<1>5. Superseded(i) \in Seq(StatementRow) /\ Len(Superseded(i)) = Len(statement)
  BY <1>4, <1>1
<1> QED
  BY <1>2, <1>5

\* The statements after a finalisation.
LEMMA AppendedRows ==
    ASSUME statement \in Seq(StatementRow), NEW i \in Nat, NEW new \in StatementRow,
           statement' = Append(Superseded(i), new)
    PROVE  /\ statement' \in Seq(StatementRow) /\ Len(statement') = Len(statement) + 1
           /\ statement'[Len(statement) + 1] = new
           /\ \A j \in 1 .. Len(statement) : statement'[j] = Superseded(i)[j]
  BY SupersededRows

-----------------------------------------------------------------------------
(* What the requests have read survives the steps of the others: no draft is *)
(* deleted, and a version keeps what it settled.                             *)

Grows ==
    /\ \A d \in Draft : Exists(d) => Exists(d)'
    /\ Len(statement) \in Nat /\ Len(statement') \in Nat /\ Len(statement) <= Len(statement')
    /\ \A i \in DOMAIN statement :
          i \in DOMAIN statement' /\ statement'[i].settlement = statement[i].settlement

LEMMA StillGrows ==
    ASSUME RaceInv, UNCHANGED <<draft, statement>>
    PROVE  Grows
  BY DEF RaceInv, Shape, Grows, Exists

LEMMA ClaimStands ==
    ASSUME Grows, NEW t, txn'[t] = txn[t], Claim(t)
    PROVE  Claim(t)'
<1> DEFINE u == txn[t]
<1>1. u.op = "edit" => Exists(u.id)'
  BY DEF Claim, Grows
<1>2. DraftRead(u) => DraftRead(txn[t])'
  BY DEF DraftRead, Grows
<1>3. NextVersion(u) => NextVersion(txn[t])'
  BY DEF NextVersion, Grows
<1>4. u.op = "handoff" => u.source \in DOMAIN statement' /\ Owing(txn[t].source)' # {}
  BY DEF Claim, Grows, Owing
<1> QED
  BY <1>1, <1>2, <1>3, <1>4 DEF Claim

LEMMA ClaimsStand ==
    ASSUME Shape, \A t \in Session : Claim(t), Grows, NEW s \in Session, NEW next,
           txn' = [txn EXCEPT ![s] = next], Claim(s)'
    PROVE  DOMAIN txn' = Session /\ \A t \in Session : Claim(t)'
<1>1. DOMAIN txn' = Session /\ \A t \in Session : t # s => txn'[t] = txn[t]
  BY DEF Shape
<1> QED
  BY <1>1, ClaimStands

\* A request that has ended claims nothing.
LEMMA EndedClaims ==
    ASSUME Shape, NEW s \in Session, txn' = [txn EXCEPT ![s] = Idle]
    PROVE  Claim(s)'
<1>1. txn'[s] = [op |-> "idle"]
  BY DEF Shape, Idle
<1> QED
  BY <1>1 DEF Claim

-----------------------------------------------------------------------------
(* Steps.                                                                  *)

\* A request reads, decides and waits.
LEMMA ReadStep ==
    ASSUME RaceInv, NEW s \in Session, NEW next, txn' = [txn EXCEPT ![s] = next],
           UNCHANGED <<draft, statement, claim, source, late>>, Claim(s)'
    PROVE  RaceInv'
<1>1. DOMAIN txn' = Session /\ \A t \in Session : Claim(t)'
  BY StillGrows, ClaimsStand DEF RaceInv
<1>2. Shape'
  BY <1>1 DEF RaceInv, Shape, ClaimRow
<1>3. OneVersionChain' /\ ChargedOnce'
  BY DEF RaceInv, OneVersionChain, ChargedOnce
<1> QED
  BY <1>1, <1>2, <1>3 DEF RaceInv

LEMMA CreateDraftStep ==
    ASSUME RaceInv, NEW s \in Session, NEW d \in Draft, NEW content \in Content,
           NEW correction \in 0 .. Len(statement), NEW reason \in BOOLEAN,
           CreateDraft(s, d, content, correction, reason)
    PROVE  RaceInv'
<1> DEFINE new == [status |-> "DRAFT", version |-> 1, content |-> content,
                   correction |-> correction, reason |-> reason, final |-> 0]
<1>1. correction \in 0 .. MaxStatement
  BY StatementAssumption DEF RaceInv, Shape
<1>2. PICK row \in DraftRow : row = new
  BY <1>1, CreatedRow
<1>3. txn' = [txn EXCEPT ![s] = [op |-> "create", id |-> d, new |-> row]]
  BY <1>2 DEF CreateDraft
<1>4. txn'[s] = [op |-> "create", id |-> d, new |-> row]
  BY <1>3 DEF RaceInv, Shape
<1>5. Claim(s)'
  BY <1>4 DEF Claim
<1> QED
  BY <1>3, <1>5, ReadStep DEF CreateDraft

\* The three endpoints that read a draft and decide its new row.
LEMMA ReadForEditStep ==
    ASSUME RaceInv, NEW s \in Session, NEW d \in Draft, NEW seen, NEW new \in DraftRow,
           ReadForEdit(s, d, seen, new)
    PROVE  RaceInv'
<1>1. PICK row \in DraftRow : row = draft[d]
  BY DEF ReadForEdit, Exists, RaceInv, Shape
<1>2. txn' = [txn EXCEPT ![s] = [op |-> "edit", id |-> d, seen |-> seen, row |-> row, new |-> new]]
  BY <1>1 DEF ReadForEdit
<1>3. txn'[s] = [op |-> "edit", id |-> d, seen |-> seen, row |-> row, new |-> new]
  BY <1>2 DEF RaceInv, Shape
<1>4. Exists(d)'
  BY DEF ReadForEdit, Exists
<1>5. Claim(s)'
  BY <1>3, <1>4 DEF Claim
<1> QED
  BY <1>2, <1>5, ReadStep DEF ReadForEdit

\* A row that can be read for an edit.
LEMMA ReadRow ==
    ASSUME RaceInv, NEW s, NEW d \in Draft, NEW seen, NEW new, ReadForEdit(s, d, seen, new)
    PROVE  draft[d] \in DraftRow /\ draft[d].version < MaxVersion
  BY DEF ReadForEdit, Exists, RaceInv, Shape

LEMMA UpdateDraftStep ==
    ASSUME RaceInv, NEW s \in Session, NEW d \in Draft, NEW seen \in 1 .. MaxVersion,
           NEW content \in Content, NEW reason \in BOOLEAN,
           UpdateDraft(s, d, seen, content, reason)
    PROVE  RaceInv'
<1>1. ReadForEdit(s, d, seen, Edited(draft[d], content, reason))
  BY DEF UpdateDraft
<1>2. Edited(draft[d], content, reason) \in DraftRow
  BY <1>1, ReadRow, EditedRow
<1> QED
  BY <1>1, <1>2, ReadForEditStep

LEMMA CancelDraftStep ==
    ASSUME RaceInv, NEW s \in Session, NEW d \in Draft, CancelDraft(s, d)
    PROVE  RaceInv'
<1>1. ReadForEdit(s, d, 0, Cancelled(draft[d]))
  BY DEF CancelDraft
<1>2. draft[d] \in DraftRow /\ draft[d].version < MaxVersion
  BY <1>1, ReadRow
<1>3. Cancelled(draft[d]) \in DraftRow
  BY <1>2, NextRow DEF Cancelled, Status
<1> QED
  BY <1>1, <1>3, ReadForEditStep

LEMMA CheckReadinessStep ==
    ASSUME RaceInv, NEW s \in Session, NEW d \in Draft, CheckReadiness(s, d)
    PROVE  RaceInv'
<1>1. ReadForEdit(s, d, 0, Reassessed(draft[d]))
  BY DEF CheckReadiness
<1>2. draft[d] \in DraftRow /\ draft[d].version < MaxVersion
  BY <1>1, ReadRow
<1>3. PICK status \in Status : status = Overall(draft[d])
  BY OverallStatus
<1>4. Reassessed(draft[d]) = [draft[d] EXCEPT !.status = status, !.version = @ + 1]
  BY <1>3 DEF Reassessed
<1>5. Reassessed(draft[d]) \in DraftRow
  BY <1>2, <1>4, NextRow
<1> QED
  BY <1>1, <1>5, ReadForEditStep

\* A commit that touches drafts only.
LEMMA DraftStep ==
    ASSUME RaceInv, NEW s \in Session, NEW d \in Draft, NEW row \in DraftRow,
           draft' = [draft EXCEPT ![d] = row], txn' = [txn EXCEPT ![s] = Idle],
           UNCHANGED <<statement, claim, source, late>>
    PROVE  RaceInv'
<1>1. draft' \in [Draft -> DraftRow \cup {Absent}]
  BY DEF RaceInv, Shape
<1>2. Grows
  BY AbsentIsNoRow DEF RaceInv, Shape, Grows, Exists
<1>3. DOMAIN txn' = Session /\ \A t \in Session : Claim(t)'
  BY <1>2, ClaimsStand, EndedClaims DEF RaceInv
<1>4. Shape'
  BY <1>1, <1>3 DEF RaceInv, Shape, ClaimRow
<1>5. OneVersionChain' /\ ChargedOnce'
  BY DEF RaceInv, OneVersionChain, ChargedOnce
<1> QED
  BY <1>3, <1>4, <1>5 DEF RaceInv

LEMMA CommitCreateStep ==
    ASSUME RaceInv, NEW s \in Session, CommitCreate(s)
    PROVE  RaceInv'
<1>1. txn[s].id \in Draft /\ txn[s].new \in DraftRow
  BY DEF CommitCreate, RaceInv, Claim
<1> QED
  BY <1>1, DraftStep DEF CommitCreate

LEMMA CommitEditStep ==
    ASSUME RaceInv, NEW s \in Session, CommitEdit(s)
    PROVE  RaceInv'
<1> DEFINE t == txn[s]
<1>1. t.id \in Draft /\ Exists(t.id) /\ t.row \in DraftRow /\ t.new \in DraftRow
  BY DEF CommitEdit, RaceInv, Claim
<1>2. draft[t.id] \in DraftRow
  BY <1>1 DEF RaceInv, Shape, Exists
<1>3. PICK row \in DraftRow : row = Flushed(draft[t.id], t.row, t.new)
  BY <1>1, <1>2, FlushedRow
<1>4. draft' = [draft EXCEPT ![t.id] = row]
  BY <1>3 DEF CommitEdit
<1> QED
  BY <1>1, <1>4, DraftStep DEF CommitEdit

LEMMA FinalizeBeginStep ==
    ASSUME RaceInv, NEW s \in Session, NEW d \in Draft \cup {None}, NEW seen, NEW supersedes,
           NEW exception, FinalizeBegin(s, d, seen, supersedes, exception)
    PROVE  RaceInv'
<1>1. PICK row : row = IF d = None THEN Absent ELSE draft[d]
  OBVIOUS
<1>2. txn' = [txn EXCEPT ![s] = [op |-> "finalize", id |-> d, row |-> row,
                                 supersedes |-> supersedes, exception |-> exception]]
  BY <1>1 DEF FinalizeBegin
<1>3. txn'[s] = [op |-> "finalize", id |-> d, row |-> row,
                 supersedes |-> supersedes, exception |-> exception]
  BY <1>2 DEF RaceInv, Shape
<1>4. d # None => d \in Draft /\ Exists(d)' /\ row \in DraftRow /\ row.version < MaxVersion
  BY <1>1 DEF FinalizeBegin, Exists, RaceInv, Shape
<1>5. Claim(s)'
  BY <1>3, <1>4 DEF Claim, DraftRead
<1> QED
  BY <1>2, <1>5, ReadStep DEF FinalizeBegin

\* What the inputs settle, with the late claims left out.
LEMMA ConsequenceSettles ==
    ASSUME NEW input \in Source, NEW isLate, NEW exception
    PROVE  /\ Consequence(input.saldo, isLate, exception) \in Settlements
           /\ Consequence(input.saldo, isLate, exception) \in [Tenancy -> Int]
<1> DEFINE cents == Consequence(input.saldo, isLate, exception)
<1>1. input.saldo \in [Tenancy -> Int]
  BY StatementAssumption
<1>2. \A t \in Tenancy : cents[t] = 0 \/ cents[t] = input.saldo[t]
  BY DEF Consequence
<1>3. cents = [t \in Tenancy |-> cents[t]]
  BY DEF Consequence
<1> HIDE DEF cents
<1>4. cents \in [Tenancy -> Int]
  BY <1>1, <1>2, <1>3
<1>5. \A t \in Tenancy : cents[t] \in UNION {{i.saldo[u] : u \in Tenancy} \cup {0} : i \in Source}
  BY <1>2
<1>6. cents \in Settlements
  BY <1>3, <1>5 DEF Settlements
<1> QED
  BY <1>4, <1>6 DEF cents

LEMMA FinalizeComputeStep ==
    ASSUME RaceInv, NEW s \in Session, FinalizeCompute(s)
    PROVE  RaceInv'
<1> DEFINE t == txn[s]
<1>1. Latest = Len(statement) /\ Len(statement) \in Nat /\ Len(statement) <= MaxStatement
  BY LatestIsLast DEF RaceInv, Shape
<1>2. DraftRead(t)
  BY DEF FinalizeCompute, RaceInv, Claim
<1>3. PICK cents \in Settlements : /\ cents \in [Tenancy -> Int]
                                  /\ cents = Consequence(source.saldo, late, t.exception)
  BY ConsequenceSettles DEF RaceInv, Shape
<1>4. PICK content \in Content \cup {None} :
          content = IF t.id = None THEN None ELSE t.row.content
  BY <1>2 DEF DraftRead, DraftRow
<1>5. PICK version \in Nat \ {0} : /\ version = Len(statement) + 1
          /\ version = IF Latest = 0 THEN 1 ELSE statement[Latest].version + 1
  <2>1. Len(statement) # 0 => statement[Len(statement)].version = Len(statement)
    BY <1>1 DEF RaceInv, Shape, OneVersionChain
  <2> QED
    BY <1>1, <2>1
<1> DEFINE new == [version |-> version, status |-> "FINALIZED", supersedes |-> Latest,
                   settlement |-> cents, draft |-> t.id, content |-> content]
<1>6. PICK row : row = new
  OBVIOUS
<1>7. /\ row \in StatementRow /\ row.status = "FINALIZED" /\ row.version = Len(statement) + 1
      /\ row.supersedes = Len(statement) /\ row.settlement \in Settlements
  <2>1. Latest \in 0 .. MaxStatement
    BY <1>1, StatementAssumption
  <2>2. t.id \in Draft \cup {None}
    BY <1>2 DEF DraftRead
  <2> QED
    BY <1>1, <1>3, <1>5, <1>6, <2>1, <2>2 DEF StatementRow
<1>8. PICK next : next = [op |-> "archive", id |-> t.id, row |-> t.row, latest |-> Latest, new |-> row]
  OBVIOUS
<1>9. txn' = [txn EXCEPT ![s] = next] /\ txn'[s] = next
  <2>1. txn' = [txn EXCEPT ![s] = [op |-> "archive", id |-> t.id, row |-> t.row,
                                   latest |-> Latest, new |-> new]]
    BY <1>3, <1>4, <1>5 DEF FinalizeCompute
  <2> HIDE DEF new
  <2> QED
    BY <1>6, <1>8, <2>1 DEF RaceInv, Shape
<1>10. /\ next.op = "archive" /\ next.id = t.id /\ next.row = t.row
       /\ next.latest = Len(statement) /\ next.new = row
  BY <1>1, <1>8
<1>11. DraftRead(t) => DraftRead(txn[s])'
  BY <1>9, <1>10 DEF DraftRead, FinalizeCompute, Exists
<1>12. NextVersion(txn[s])'
  BY <1>1, <1>7, <1>9, <1>10 DEF NextVersion, FinalizeCompute
<1>13. Claim(s)'
  BY <1>2, <1>9, <1>10, <1>11, <1>12 DEF Claim
<1> QED
  BY <1>9, <1>13, ReadStep DEF FinalizeCompute

\* The unique version makes a finalisation that looked too early fail.
LEMMA IssuedInOrder ==
    ASSUME RaceInv, NEW s \in Session, CommitFinalize(s)
    PROVE  /\ txn[s].latest = Len(statement) /\ txn[s].new \in StatementRow
           /\ txn[s].new.version = Len(statement) + 1 /\ txn[s].new.supersedes = Len(statement)
           /\ txn[s].new.status = "FINALIZED" /\ txn[s].new.settlement \in Settlements
           /\ statement' = Append(Superseded(Len(statement)), txn[s].new)
<1>1. txn[s].op = "archive" /\ NextVersion(txn[s])
  BY DEF CommitFinalize, RaceInv, Claim
<1>2. Len(statement) \in Nat /\ DOMAIN statement = 1 .. Len(statement)
  BY DEF RaceInv, Shape
<1>3. txn[s].latest = Len(statement)
  <2> SUFFICES ASSUME txn[s].latest + 1 \in DOMAIN statement PROVE FALSE
    BY <1>1, <1>2 DEF NextVersion
  <2>1. statement[txn[s].latest + 1].version = txn[s].new.version
    BY <1>1 DEF RaceInv, OneVersionChain, NextVersion
  <2> QED
    BY <2>1 DEF CommitFinalize, VersionTaken
<1> QED
  BY <1>1, <1>2, <1>3 DEF NextVersion, CommitFinalize

\* The statements after a finalisation, row by row.
LEMMA StatementsAfter ==
    ASSUME RaceInv, NEW s \in Session, CommitFinalize(s)
    PROVE  /\ statement' \in Seq(StatementRow) /\ Len(statement') = Len(statement) + 1
           /\ statement'[Len(statement) + 1] = txn[s].new
           /\ \A j \in 1 .. Len(statement) :
                 /\ SameButStatus(statement'[j], statement[j])
                 /\ statement'[j].status = "SUPERSEDED"
<1>1. statement \in Seq(StatementRow) /\ Len(statement) \in Nat
  BY DEF RaceInv, Shape
<1>2. txn[s].new \in StatementRow /\ statement' = Append(Superseded(Len(statement)), txn[s].new)
  BY IssuedInOrder
<1>3. /\ statement' \in Seq(StatementRow) /\ Len(statement') = Len(statement) + 1
      /\ statement'[Len(statement) + 1] = txn[s].new
      /\ \A j \in 1 .. Len(statement) : statement'[j] = Superseded(Len(statement))[j]
  BY <1>1, <1>2, AppendedRows
<1>4. ASSUME NEW j \in 1 .. Len(statement)
      PROVE  SameButStatus(statement'[j], statement[j]) /\ statement'[j].status = "SUPERSEDED"
  <2>1. statement[j] \in StatementRow /\ (j # Len(statement) => statement[j].status # "FINALIZED")
    BY <1>1 DEF RaceInv, OneVersionChain
  <2>2. j # Len(statement) => statement[j].status = "SUPERSEDED"
    BY <2>1 DEF StatementRow
  <2> QED
    BY <1>1, <1>3, <2>2, SupersededRows
<1> QED
  BY <1>3, <1>4

LEMMA CommitFinalizeStep ==
    ASSUME RaceInv, NEW s \in Session, CommitFinalize(s)
    PROVE  RaceInv'
<1> DEFINE t == txn[s]
           n == Len(statement)
<1>1. /\ n \in Nat /\ n + 1 <= MaxStatement /\ DOMAIN statement = 1 .. n
      /\ t.op = "archive" /\ DraftRead(t)
      /\ txn' = [txn EXCEPT ![s] = Idle] /\ UNCHANGED <<claim, source, late>>
  BY DEF CommitFinalize, RaceInv, Claim, Shape
<1>2. /\ statement' \in Seq(StatementRow) /\ Len(statement') = n + 1
      /\ DOMAIN statement' = 1 .. n + 1 /\ statement'[n + 1] = t.new
      /\ \A j \in 1 .. n : /\ SameButStatus(statement'[j], statement[j])
                           /\ statement'[j].status = "SUPERSEDED"
  BY <1>1, StatementsAfter
<1>3. draft' \in [Draft -> DraftRow \cup {Absent}] /\ \A d \in Draft : Exists(d) => Exists(d)'
  <2>1. draft \in [Draft -> DraftRow \cup {Absent}]
    BY DEF RaceInv, Shape
  <2>2. CASE t.id = None
    BY <2>1, <2>2 DEF CommitFinalize, Exists
  <2>3. CASE t.id # None
    <3> DEFINE final == [t.row EXCEPT !.status = "FINALIZED", !.final = n + 1, !.version = @ + 1]
    <3>1. t.id \in Draft /\ draft[t.id] \in DraftRow /\ t.row \in DraftRow /\ t.row.version < MaxVersion
      BY <1>1, <2>1, <2>3 DEF DraftRead, Exists
    <3>2. n + 1 \in 0 .. MaxStatement
      BY <1>1, StatementAssumption
    <3>3. final \in DraftRow
      BY <3>1, <3>2, FinalRow
    <3>4. draft' = [draft EXCEPT ![t.id] = Flushed(draft[t.id], t.row, final)]
      BY <2>3 DEF CommitFinalize
    <3> HIDE DEF final
    <3>5. Flushed(draft[t.id], t.row, final) \in DraftRow
      BY <3>1, <3>3, FlushedRow
    <3> QED
      BY <2>1, <3>1, <3>4, <3>5, AbsentIsNoRow DEF Exists
  <2> QED
    BY <2>2, <2>3
<1>4. Grows
  BY <1>1, <1>2, <1>3 DEF Grows, SameButStatus
<1>5. DOMAIN txn' = Session /\ \A u \in Session : Claim(u)'
  BY <1>1, <1>4, ClaimsStand, EndedClaims DEF RaceInv
<1>6. claim' \subseteq ClaimRow'
  BY <1>1, <1>2 DEF RaceInv, Shape, ClaimRow
<1>7. Shape'
  BY <1>1, <1>2, <1>3, <1>5, <1>6 DEF RaceInv, Shape
<1>8. OneVersionChain'
  <2> SUFFICES ASSUME NEW i \in 1 .. n + 1
               PROVE  /\ statement'[i].version = i /\ statement'[i].supersedes = i - 1
                      /\ statement'[i].status = "FINALIZED" <=> i = n + 1
    BY <1>2 DEF OneVersionChain
  <2>1. CASE i = n + 1
    BY <1>1, <1>2, <2>1, IssuedInOrder
  <2>2. CASE i # n + 1
    BY <1>1, <1>2, <2>2 DEF RaceInv, OneVersionChain, SameButStatus
  <2> QED
    BY <2>1, <2>2
<1>9. ChargedOnce'
  BY <1>1, <1>2 DEF RaceInv, Shape, ClaimRow, ChargedOnce, SameButStatus
<1> QED
  BY <1>5, <1>7, <1>8, <1>9 DEF RaceInv

LEMMA HandOffBeginStep ==
    ASSUME RaceInv, NEW s \in Session, NEW i \in DOMAIN statement, HandOffBegin(s, i)
    PROVE  RaceInv'
<1>1. txn'[s] = [op |-> "handoff", source |-> i]
  BY DEF HandOffBegin, RaceInv, Shape
<1>2. Claim(s)'
  BY <1>1 DEF HandOffBegin, Claim, Owing
<1> QED
  BY <1>2, ReadStep DEF HandOffBegin

LEMMA CommitHandOffStep ==
    ASSUME RaceInv, NEW s \in Session, CommitHandOff(s)
    PROVE  RaceInv'
<1> DEFINE i == txn[s].source
<1>1. i \in DOMAIN statement /\ statement[i] \in StatementRow /\ IsFiniteSet(claim)
  BY DEF CommitHandOff, RaceInv, Claim, Shape
<1>2. PICK batch \in Nat : batch = Cardinality(claim)
  BY <1>1, FS_CardinalityType
<1>3. NewClaims(i) = {[tenancy |-> t, source |-> i, cents |-> statement[i].settlement[t],
                       batch |-> batch] : t \in Owing(i)}
  BY <1>2 DEF NewClaims
<1>4. Owing(i) \subseteq Tenancy /\ \A t \in Owing(i) : statement[i].settlement[t] \in Nat \ {0}
  BY <1>1 DEF Owing, StatementRow
<1>5. \A c \in NewClaims(i) :
          /\ c \in ClaimRow /\ c.tenancy \in Owing(i) /\ c.source = i
          /\ c = [tenancy |-> c.tenancy, source |-> i,
                   cents |-> statement[i].settlement[c.tenancy], batch |-> batch]
          /\ c.cents = statement[i].settlement[c.tenancy]
  BY <1>1, <1>2, <1>3, <1>4 DEF ClaimRow
<1>6. IsFiniteSet(NewClaims(i))
  <2> DEFINE debtor == [c \in NewClaims(i) |-> c.tenancy]
  <2>1. debtor \in Injection(NewClaims(i), Tenancy)
    BY <1>4, <1>5 DEF Injection, IsInjective
  <2> QED
    BY <2>1, FS_Injection, StatementAssumption
<1>7. claim' \subseteq ClaimRow /\ IsFiniteSet(claim')
  BY <1>5, <1>6, FS_Union DEF CommitHandOff, RaceInv, Shape
<1>8. Grows
  BY StillGrows DEF CommitHandOff
<1>9. DOMAIN txn' = Session /\ \A u \in Session : Claim(u)'
  BY <1>8, ClaimsStand, EndedClaims DEF CommitHandOff, RaceInv
<1>10. Shape'
  BY <1>7, <1>9 DEF CommitHandOff, RaceInv, Shape, ClaimRow
<1>11. ChargedOnce'
  <2>1. \A c, e \in claim' : c.tenancy = e.tenancy => c = e
    <3>1. \A c \in claim, e \in NewClaims(i) : c.tenancy # e.tenancy
      BY <1>5 DEF CommitHandOff, ClaimTaken
    <3>2. \A c, e \in NewClaims(i) : c.tenancy = e.tenancy => c = e
      BY <1>5
    <3> QED
      BY <3>1, <3>2 DEF CommitHandOff, RaceInv, ChargedOnce
  <2>2. \A c \in claim' : c.cents = statement[c.source].settlement[c.tenancy]
    BY <1>5 DEF CommitHandOff, RaceInv, ChargedOnce
  <2> QED
    BY <2>1, <2>2 DEF CommitHandOff, ChargedOnce
<1>12. OneVersionChain'
  BY DEF CommitHandOff, RaceInv, OneVersionChain
<1> QED
  BY <1>9, <1>10, <1>11, <1>12 DEF RaceInv

LEMMA SurroundingsStep ==
    ASSUME RaceInv, UNCHANGED <<draft, statement, claim, txn>>,
           source' \in Source, late' \in BOOLEAN
    PROVE  RaceInv'
<1>1. Shape'
  BY DEF RaceInv, Shape, ClaimRow
<1>2. OneVersionChain' /\ ChargedOnce'
  BY DEF RaceInv, OneVersionChain, ChargedOnce
<1>3. \A t \in Session : Claim(t)'
  BY StillGrows, ClaimStands DEF RaceInv
<1> QED
  BY <1>1, <1>2, <1>3 DEF RaceInv

LEMMA AbortStep ==
    ASSUME RaceInv, NEW s \in Session, Abort(s)
    PROVE  RaceInv'
  BY EndedClaims, ReadStep DEF Abort, RaceInv

LEMMA RaceInit == Init => RaceInv
<1> SUFFICES ASSUME Init PROVE RaceInv
  OBVIOUS
<1>1. statement \in Seq(StatementRow) /\ Len(statement) <= MaxStatement
  BY StatementAssumption DEF Init
<1>2. draft \in [Draft -> DraftRow \cup {Absent}] /\ DOMAIN txn = Session
  BY DEF Init
<1>3. claim \subseteq ClaimRow /\ IsFiniteSet(claim) /\ source \in Source /\ late \in BOOLEAN
  BY FS_EmptySet DEF Init
<1>4. Shape
  BY <1>1, <1>2, <1>3 DEF Shape
<1>5. OneVersionChain /\ ChargedOnce
  BY DEF Init, OneVersionChain, ChargedOnce
<1>6. \A s \in Session : Claim(s)
  BY DEF Init, Claim, Idle
<1> QED
  BY <1>4, <1>5, <1>6 DEF RaceInv

LEMMA RaceStep == RaceInv /\ [Next]_vars => RaceInv'
<1> SUFFICES ASSUME RaceInv, [Next]_vars PROVE RaceInv'
  OBVIOUS
<1>1. ASSUME NEW s \in Session, EditDrafts(s) PROVE RaceInv'
  <2>1. PICK d \in Draft :
          \/ \E content \in Content, reason \in BOOLEAN :
                \/ \E correction \in 0 .. Len(statement) :
                      CreateDraft(s, d, content, correction, reason)
                \/ \E seen \in 1 .. MaxVersion : UpdateDraft(s, d, seen, content, reason)
          \/ CancelDraft(s, d)
          \/ CheckReadiness(s, d)
    BY <1>1 DEF EditDrafts
  <2> QED
    BY <2>1, CreateDraftStep, UpdateDraftStep, CancelDraftStep, CheckReadinessStep
<1>2. ASSUME NEW s \in Session, Finalize(s) PROVE RaceInv'
  BY <1>2, FinalizeBeginStep, FinalizeComputeStep, CommitFinalizeStep DEF Finalize
<1>3. CASE ReviseSource
  BY <1>3, SurroundingsStep DEF ReviseSource, RaceInv, Shape
<1>4. CASE TimePasses
  BY <1>4, SurroundingsStep DEF TimePasses, RaceInv, Shape
<1>5. CASE UNCHANGED vars
  BY <1>5, SurroundingsStep DEF vars, RaceInv, Shape
<1> QED
  BY <1>1, <1>2, <1>3, <1>4, <1>5, CommitCreateStep, CommitEditStep, HandOffBeginStep,
     CommitHandOffStep, AbortStep DEF Next

\* The races of any number of requests keep the whole of RaceInv.
THEOREM RacesAreSafe == Spec => []RaceInv
  BY RaceInit, RaceStep, PTL DEF Spec

\* Every row a request can leave behind is in its domain.
THEOREM StatementTypes == Spec => []TypeOK
<1>1. RaceInv => TypeOK
  BY DEF RaceInv, Shape, TypeOK, Exists, ClaimRow
<1> QED
  BY <1>1, RacesAreSafe, PTL

\* Version k + 1 supersedes version k and only the last version is final,
\* however many finalisations of the period run at once.
THEOREM VersionsFormOneChain == Spec => []OneVersionChain
<1>1. RaceInv => OneVersionChain
  BY DEF RaceInv
<1> QED
  BY <1>1, RacesAreSafe, PTL

\* No tenancy is charged twice for a period, and each is charged what the
\* version handed over settled.
THEOREM TenancyChargedOnce == Spec => []ChargedOnce
<1>1. RaceInv => ChargedOnce
  BY DEF RaceInv
<1> QED
  BY <1>1, RacesAreSafe, PTL

-----------------------------------------------------------------------------
(* Finalising and handing over implement the register.                     *)

Issued == [i \in DOMAIN statement |-> statement[i].settlement]
Charged == [t \in Tenancy |-> ChargedBy(t)]

\* A tenancy is charged by the one claim it has.
LEMMA ChargedByClaim ==
    ASSUME ChargedOnce, NEW c \in claim
    PROVE  ChargedBy(c.tenancy) = c.source
<1> DEFINE e == CHOOSE e \in claim : e.tenancy = c.tenancy
<1>1. e \in claim /\ e.tenancy = c.tenancy
  OBVIOUS
<1> QED
  BY <1>1 DEF ChargedOnce, ChargedBy, Claimed

LEMMA RegisterInit == Init => Register!Init
<1> SUFFICES ASSUME Init PROVE Register!Init
  OBVIOUS
<1>1. Issued = <<>>
  BY DEF Init, Issued
<1>2. Charged = [t \in Tenancy |-> 0]
  BY DEF Init, Charged, ChargedBy, Claimed
<1> QED
  BY <1>1, <1>2 DEF Register!Init, Issued, Charged

LEMMA FunctionIsSequence ==
    ASSUME NEW n \in Nat, NEW S, NEW f \in [1 .. n -> S]
    PROVE  f \in Seq(S) /\ Len(f) = n
  OBVIOUS

LEMMA RegisterStutters ==
    ASSUME UNCHANGED <<statement, claim>>
    PROVE  UNCHANGED Register!vars
  BY DEF Register!vars, ChargedBy, Claimed

LEMMA FinalizeIssues ==
    ASSUME RaceInv, NEW s \in Session, CommitFinalize(s)
    PROVE  Register!Next
<1> DEFINE n == Len(statement)
<1>1. PICK cents \in Settlements : cents = txn[s].new.settlement
  BY IssuedInOrder
<1>2. n \in Nat /\ DOMAIN statement = 1 .. n /\ statement \in Seq(StatementRow)
  BY DEF RaceInv, Shape
<1>3. /\ Len(statement') = n + 1 /\ DOMAIN statement' = 1 .. n + 1
      /\ statement'[n + 1].settlement = cents
      /\ \A j \in 1 .. n : statement'[j].settlement = statement[j].settlement
  BY <1>1, <1>2, StatementsAfter DEF SameButStatus
<1>4. Issued' = Append(Issued, cents)
  <2>1. Issued = [i \in 1 .. n |-> statement[i].settlement]
    BY <1>2 DEF Issued
  <2>2. Issued' = [i \in 1 .. n + 1 |-> statement'[i].settlement]
    BY <1>3 DEF Issued
  <2>3. Issued \in Seq([Tenancy -> Int]) /\ Len(Issued) = n
    <3>1. \A i \in 1 .. n : statement[i].settlement \in [Tenancy -> Int]
      <4>1. \A i \in 1 .. n : statement[i] \in StatementRow
        BY <1>2
      <4> QED
        BY <4>1 DEF StatementRow
    <3>2. Issued \in [1 .. n -> [Tenancy -> Int]]
      BY <2>1, <3>1
    <3> QED
      BY <1>2, <3>2, FunctionIsSequence
  <2>4. cents \in [Tenancy -> Int]
    BY <1>1, IssuedInOrder DEF StatementRow
  <2>5. /\ Issued'[n + 1] = cents /\ \A i \in 1 .. n : Issued'[i] = Issued[i]
        /\ Issued' \in [1 .. n + 1 -> [Tenancy -> Int]]
    <3>1. Issued'[n + 1] = cents
      BY <1>2, <1>3, <2>2
    <3>2. \A i \in 1 .. n : Issued'[i] = Issued[i] /\ Issued'[i] \in [Tenancy -> Int]
      BY <1>2, <1>3, <2>1, <2>2, <2>3
    <3>3. \A i \in 1 .. n + 1 : Issued'[i] \in [Tenancy -> Int]
      BY <1>2, <2>4, <3>1, <3>2
    <3> QED
      BY <2>2, <3>1, <3>2, <3>3
  <2>6. Issued' \in Seq([Tenancy -> Int]) /\ Len(Issued') = n + 1
    BY <1>2, <2>5, FunctionIsSequence
  <2>7. Append(Issued, cents) \in Seq([Tenancy -> Int]) /\ Len(Append(Issued, cents)) = n + 1
    BY <2>3, <2>4, AppendProperties
  <2>8. \A i \in 1 .. n + 1 : Issued'[i] = Append(Issued, cents)[i]
    BY <1>2, <2>3, <2>4, <2>5, AppendProperties
  <2> QED
    BY <2>6, <2>7, <2>8, SeqEqual
<1>5. Charged' = Charged
  BY DEF CommitFinalize, Charged, ChargedBy, Claimed
<1>6. Register!Issue(cents)
  BY <1>4, <1>5 DEF Register!Issue, Issued, Charged
<1> QED
  BY <1>1, <1>6 DEF Register!Next, Settlements

LEMMA HandOffCharges ==
    ASSUME RaceInv, RaceInv', NEW s \in Session, CommitHandOff(s)
    PROVE  Register!Next
<1>1. PICK i \in DOMAIN statement : i = txn[s].source
  BY DEF CommitHandOff, RaceInv, Claim
<1>2. /\ Owing(i) # {} /\ Owing(i) \subseteq Tenancy
      /\ \A t \in Owing(i) : ~Claimed(t)
      /\ claim' = claim \cup NewClaims(i) /\ statement' = statement
  BY <1>1 DEF CommitHandOff, RaceInv, Claim, Owing, Claimed, ClaimTaken
<1>3. {t \in Tenancy : Issued[i][t] > 0} = Owing(i)
  BY DEF Issued, Owing
<1>4. \A t \in Owing(i) : Charged[t] = 0
  BY <1>2 DEF Charged, ChargedBy
<1>5. ASSUME NEW t \in Tenancy
      PROVE  ChargedBy(t)' = IF t \in Owing(i) THEN i ELSE ChargedBy(t)
  <2>1. CASE t \in Owing(i)
    <3>1. PICK c \in claim' : c.tenancy = t /\ c.source = i
      <4> DEFINE c == [tenancy |-> t, source |-> i, cents |-> statement[i].settlement[t],
                       batch |-> Cardinality(claim)]
      <4>1. c \in claim'
        BY <1>2, <2>1 DEF NewClaims
      <4> QED
        BY <4>1
    <3>2. \A e \in claim' : e.tenancy = t => e = c
      BY <3>1 DEF RaceInv, ChargedOnce
    <3>3. (CHOOSE e \in claim' : e.tenancy = t) = c
      BY <3>1, <3>2
    <3> QED
      BY <2>1, <3>1, <3>3 DEF ChargedBy, Claimed
  <2>2. CASE t \notin Owing(i)
    <3>1. \A c \in NewClaims(i) : c.tenancy # t
      BY <2>2 DEF NewClaims
    <3>2. CASE Claimed(t)
      <4>1. PICK c \in claim : c.tenancy = t
        BY <3>2 DEF Claimed
      <4> QED
        BY <1>2, <2>2, <4>1, ChargedByClaim DEF RaceInv, ChargedBy, Claimed, ChargedOnce
    <3>3. CASE ~Claimed(t)
      BY <1>2, <2>2, <3>1, <3>3 DEF ChargedBy, Claimed
    <3> QED
      BY <3>2, <3>3
  <2> QED
    BY <2>1, <2>2
<1>6. Charged' = [t \in Tenancy |-> IF t \in Owing(i) THEN i ELSE Charged[t]]
  BY <1>5 DEF Charged
<1>7. Issued' = Issued /\ i \in DOMAIN Issued
  BY <1>2 DEF Issued
<1>8. Register!Charge(i)
  BY <1>2, <1>3, <1>4, <1>6, <1>7 DEF Register!Charge, Issued, Charged
<1> QED
  BY <1>7, <1>8 DEF Register!Next, Issued

\* A step that keeps statements and claims is a stutter of the register; the
\* two that do not are its actions.
LEMMA RegisterStep ==
    ASSUME RaceInv, RaceInv', [Next]_vars
    PROVE  [Register!Next]_(Register!vars)
<1>1. CASE UNCHANGED <<statement, claim>>
  BY <1>1, RegisterStutters
<1>2. CASE \E s \in Session : CommitFinalize(s)
  BY <1>2, FinalizeIssues
<1>3. CASE \E s \in Session : CommitHandOff(s)
  BY <1>3, HandOffCharges
<1>4. ASSUME NEW s \in Session, EditDrafts(s) PROVE UNCHANGED <<statement, claim>>
  BY <1>4 DEF EditDrafts, CreateDraft, UpdateDraft, CancelDraft, CheckReadiness, ReadForEdit
<1>5. ASSUME NEW s \in Session, Finalize(s)
      PROVE  CommitFinalize(s) \/ UNCHANGED <<statement, claim>>
  BY <1>5 DEF Finalize, FinalizeBegin, FinalizeCompute
<1>6. ASSUME NEW s \in Session,
             CommitCreate(s) \/ CommitEdit(s) \/ Abort(s)
                 \/ \E i \in DOMAIN statement : HandOffBegin(s, i)
      PROVE  UNCHANGED <<statement, claim>>
  BY <1>6 DEF CommitCreate, CommitEdit, Abort, HandOffBegin
<1>7. CASE ReviseSource \/ TimePasses \/ UNCHANGED vars
  BY <1>1, <1>7 DEF ReviseSource, TimePasses, vars
<1> QED
  BY <1>1, <1>2, <1>3, <1>4, <1>5, <1>6, <1>7 DEF Next

\* Finalising and handing over, with every request, refusal and lost race
\* between them, implement the register: what a version settled never changes,
\* and all debtors of one version are charged together, once.
THEOREM LifecycleImplementsRegister == Spec => ImplementsRegister
<1>1. Init => Register!Init
  BY RegisterInit
<1>2. RaceInv /\ RaceInv' /\ [Next]_vars => [Register!Next]_(Register!vars)
  BY RegisterStep
<1> QED
  BY <1>1, <1>2, RacesAreSafe, PTL DEF Spec, ImplementsRegister, Register!Spec

-----------------------------------------------------------------------------
(* One request at a time.                                                  *)

OneAtATime == \A s, t \in Session : s = t

\* A draft that is ready to be finalised and corrects a version says why.
Fit(row) == row.status = "READY" => (row.correction # 0 => row.reason)

\* What an undisturbed request has read is still so.
Undisturbed(s) ==
    LET t == txn[s] IN
    /\ t.op = "create" => t.new.final = 0 /\ Fit(t.new)
    /\ t.op = "edit" => /\ t.row = draft[t.id] /\ t.row.status # "FINALIZED"
                        /\ t.new.final = t.row.final /\ Fit(t.new)
                        /\ t.seen # 0 => t.row.version = t.seen
    /\ t.op \in {"finalize", "archive"} /\ t.id # None =>
          t.row = draft[t.id] /\ t.row.status = "READY"
    /\ t.op = "archive" /\ t.id # None =>
          t.new.draft = t.id /\ t.new.content = t.row.content
    /\ t.op = "handoff" => statement[t.source].status = "FINALIZED"

DraftsFit ==
    \A d \in Draft : Exists(d) => Fit(draft[d]) /\ draft[d].final \in 0 .. Len(statement)

AloneInv ==
    RaceInv /\ FinalDraftFrozen /\ DraftsFit /\ \A s \in Session : Undisturbed(s)

LEMMA EndedIsUndisturbed ==
    ASSUME Shape, NEW s \in Session, txn' = [txn EXCEPT ![s] = Idle]
    PROVE  Undisturbed(s)'
<1>1. txn'[s] = [op |-> "idle"]
  BY DEF Shape, Idle
<1> QED
  BY <1>1 DEF Undisturbed

\* A step of the only request that leaves drafts and statements alone.
LEMMA AloneReads ==
    ASSUME OneAtATime, AloneInv, RaceInv', NEW s \in Session, Undisturbed(s)',
           UNCHANGED <<draft, statement>>
    PROVE  AloneInv'
<1>1. FinalDraftFrozen' /\ DraftsFit'
  BY DEF AloneInv, FinalDraftFrozen, DraftsFit, Exists
<1> QED
  BY <1>1 DEF AloneInv, OneAtATime

LEMMA AloneEdits ==
    ASSUME OneAtATime, AloneInv, RaceInv', NEW s \in Session, NEW d \in Draft, NEW seen,
           NEW new \in DraftRow, ReadForEdit(s, d, seen, new), draft[d].status # "FINALIZED",
           new.final = draft[d].final, Fit(new), seen # 0 => draft[d].version = seen
    PROVE  AloneInv'
<1>1. PICK row : row = draft[d]
  OBVIOUS
<1>2. txn'[s] = [op |-> "edit", id |-> d, seen |-> seen, row |-> row, new |-> new]
  BY <1>1 DEF ReadForEdit, AloneInv, RaceInv, Shape
<1>3. Undisturbed(s)'
  BY <1>1, <1>2 DEF Undisturbed, ReadForEdit
<1> QED
  BY <1>3, AloneReads DEF ReadForEdit

LEMMA AloneCreateDraft ==
    ASSUME OneAtATime, AloneInv, RaceInv', NEW s \in Session, NEW d \in Draft,
           NEW content \in Content, NEW correction \in 0 .. Len(statement),
           NEW reason \in BOOLEAN, CreateDraft(s, d, content, correction, reason)
    PROVE  AloneInv'
<1> DEFINE new == [status |-> "DRAFT", version |-> 1, content |-> content,
                   correction |-> correction, reason |-> reason, final |-> 0]
<1>1. PICK row : row = new
  OBVIOUS
<1>2. txn'[s] = [op |-> "create", id |-> d, new |-> row]
  BY <1>1 DEF CreateDraft, AloneInv, RaceInv, Shape
<1>3. row.final = 0 /\ Fit(row)
  BY <1>1 DEF Fit
<1>4. Undisturbed(s)'
  BY <1>2, <1>3 DEF Undisturbed
<1> QED
  BY <1>4, AloneReads DEF CreateDraft

LEMMA AloneUpdateDraft ==
    ASSUME OneAtATime, AloneInv, RaceInv', NEW s \in Session, NEW d \in Draft,
           NEW seen \in 1 .. MaxVersion, NEW content \in Content, NEW reason \in BOOLEAN,
           UpdateDraft(s, d, seen, content, reason)
    PROVE  AloneInv'
<1>1. ReadForEdit(s, d, seen, Edited(draft[d], content, reason))
  BY DEF UpdateDraft
<1>2. draft[d] \in DraftRow /\ draft[d].version < MaxVersion
  BY <1>1, ReadRow DEF AloneInv
<1>3. PICK new \in DraftRow : /\ new = Edited(draft[d], content, reason)
                             /\ new.status = "DRAFT" /\ new.final = draft[d].final
  BY <1>2, EditedRow
<1>4. Fit(new)
  BY <1>3 DEF Fit
<1> QED
  BY <1>1, <1>3, <1>4, AloneEdits DEF UpdateDraft, Editable, VersionMatches

LEMMA AloneCancelDraft ==
    ASSUME OneAtATime, AloneInv, RaceInv', NEW s \in Session, NEW d \in Draft,
           CancelDraft(s, d)
    PROVE  AloneInv'
<1>1. ReadForEdit(s, d, 0, Cancelled(draft[d]))
  BY DEF CancelDraft
<1>2. draft[d] \in DraftRow /\ draft[d].version < MaxVersion
  BY <1>1, ReadRow DEF AloneInv
<1>3. PICK new \in DraftRow : /\ new = Cancelled(draft[d])
                             /\ new.status = "CANCELLED" /\ new.final = draft[d].final
  BY <1>2, NextRow DEF Cancelled, Status
<1>4. Fit(new)
  BY <1>3 DEF Fit
<1> QED
  BY <1>1, <1>3, <1>4, AloneEdits DEF CancelDraft, Cancellable

LEMMA AloneCheckReadiness ==
    ASSUME OneAtATime, AloneInv, RaceInv', NEW s \in Session, NEW d \in Draft,
           CheckReadiness(s, d)
    PROVE  AloneInv'
<1>1. ReadForEdit(s, d, 0, Reassessed(draft[d]))
  BY DEF CheckReadiness
<1>2. PICK row \in DraftRow : row = draft[d] /\ row.version < MaxVersion
  BY <1>1, ReadRow DEF AloneInv
<1>3. PICK status \in Status :
          /\ status = Overall(row)
          /\ status = "READY" => (row.correction # 0 => row.reason)
  BY OverallStatus
<1>4. PICK new \in DraftRow :
          /\ new = Reassessed(draft[d]) /\ new.status = status /\ new.final = row.final
          /\ new.correction = row.correction /\ new.reason = row.reason
  <2>1. Reassessed(draft[d]) = [row EXCEPT !.status = status, !.version = @ + 1]
    BY <1>2, <1>3 DEF Reassessed
  <2>2. PICK new : new = [row EXCEPT !.status = status, !.version = @ + 1]
    OBVIOUS
  <2>3. /\ new \in DraftRow /\ new.status = status /\ new.final = row.final
        /\ new.correction = row.correction /\ new.reason = row.reason
    BY <1>2, <2>2, NextRow
  <2> QED
    BY <2>1, <2>2, <2>3
<1>5. Fit(new)
  BY <1>3, <1>4 DEF Fit
<1> QED
  BY <1>1, <1>2, <1>4, <1>5, AloneEdits DEF CheckReadiness, ToReassess

LEMMA AloneCommitCreate ==
    ASSUME OneAtATime, AloneInv, RaceInv', NEW s \in Session, CommitCreate(s)
    PROVE  AloneInv'
<1> DEFINE t == txn[s]
<1>1. t.id \in Draft /\ t.new \in DraftRow /\ t.new.final = 0 /\ Fit(t.new)
  BY DEF CommitCreate, AloneInv, RaceInv, Claim, Undisturbed
<1>2. \A d \in Draft : draft'[d] = IF d = t.id THEN t.new ELSE draft[d]
  BY DEF CommitCreate, AloneInv, RaceInv, Shape
<1>3. Len(statement') \in Nat /\ statement' = statement
  BY DEF CommitCreate, AloneInv, RaceInv, Shape
<1>4. DraftsFit'
  BY <1>1, <1>2, <1>3 DEF AloneInv, DraftsFit, Exists, Fit
<1>5. FinalDraftFrozen'
  BY <1>1, <1>2, <1>3 DEF AloneInv, FinalDraftFrozen, Exists
<1>6. Undisturbed(s)'
  BY EndedIsUndisturbed DEF CommitCreate, AloneInv, RaceInv
<1> QED
  BY <1>4, <1>5, <1>6 DEF AloneInv, OneAtATime

LEMMA AloneCommitEdit ==
    ASSUME OneAtATime, AloneInv, RaceInv', NEW s \in Session, CommitEdit(s)
    PROVE  AloneInv'
<1> DEFINE t == txn[s]
<1>1. /\ t.id \in Draft /\ Exists(t.id) /\ t.row \in DraftRow /\ t.new \in DraftRow
      /\ t.row = draft[t.id] /\ t.row.status # "FINALIZED"
      /\ t.new.final = t.row.final /\ Fit(t.new)
  BY DEF CommitEdit, AloneInv, RaceInv, Claim, Undisturbed
<1>2. Flushed(draft[t.id], t.row, t.new) = t.new
  BY <1>1, FlushedAlone
<1>3. \A d \in Draft : draft'[d] = IF d = t.id THEN t.new ELSE draft[d]
  BY <1>1, <1>2 DEF CommitEdit, AloneInv, RaceInv, Shape
<1>4. Len(statement') \in Nat /\ statement' = statement
  BY DEF CommitEdit, AloneInv, RaceInv, Shape
<1>5. draft[t.id].final = 0
  BY <1>1 DEF AloneInv, FinalDraftFrozen
<1>6. DraftsFit'
  BY <1>1, <1>3, <1>4, <1>5 DEF AloneInv, DraftsFit, Exists, Fit
<1>7. FinalDraftFrozen'
  BY <1>1, <1>3, <1>4, <1>5 DEF AloneInv, FinalDraftFrozen, Exists
<1>8. Undisturbed(s)'
  BY EndedIsUndisturbed DEF CommitEdit, AloneInv, RaceInv
<1> QED
  BY <1>6, <1>7, <1>8 DEF AloneInv, OneAtATime

LEMMA AloneFinalizeBegin ==
    ASSUME OneAtATime, AloneInv, RaceInv', NEW s \in Session, NEW d \in Draft \cup {None},
           NEW seen, NEW supersedes, NEW exception,
           FinalizeBegin(s, d, seen, supersedes, exception)
    PROVE  AloneInv'
<1>1. PICK row : row = IF d = None THEN Absent ELSE draft[d]
  OBVIOUS
<1>2. txn'[s] = [op |-> "finalize", id |-> d, row |-> row,
                 supersedes |-> supersedes, exception |-> exception]
  BY <1>1 DEF FinalizeBegin, AloneInv, RaceInv, Shape
<1>3. d # None => row = draft'[d] /\ row.status = "READY"
  BY <1>1 DEF FinalizeBegin, Finalizable
<1>4. Undisturbed(s)'
  BY <1>2, <1>3 DEF Undisturbed
<1> QED
  BY <1>4, AloneReads DEF FinalizeBegin

LEMMA AloneFinalizeCompute ==
    ASSUME OneAtATime, AloneInv, RaceInv', NEW s \in Session, FinalizeCompute(s)
    PROVE  AloneInv'
<1> DEFINE t == txn[s]
<1>1. t.id # None => t.row = draft[t.id] /\ t.row.status = "READY"
  BY DEF FinalizeCompute, AloneInv, Undisturbed
<1>2. txn'[s] =
          [op |-> "archive", id |-> t.id, row |-> t.row, latest |-> Latest,
           new |-> [version |-> IF Latest = 0 THEN 1 ELSE statement[Latest].version + 1,
                    status |-> "FINALIZED", supersedes |-> Latest,
                    settlement |-> Consequence(source.saldo, late, t.exception),
                    draft |-> t.id,
                    content |-> IF t.id = None THEN None ELSE t.row.content]]
  BY DEF FinalizeCompute, AloneInv, RaceInv, Shape
<1>3. /\ txn'[s].op = "archive" /\ txn'[s].id = t.id /\ txn'[s].row = t.row
      /\ txn'[s].new.draft = t.id /\ (t.id # None => txn'[s].new.content = t.row.content)
  BY <1>2
<1>4. draft' = draft
  BY DEF FinalizeCompute
<1>5. Undisturbed(s)'
  BY <1>1, <1>3, <1>4 DEF Undisturbed
<1> QED
  BY <1>5, AloneReads DEF FinalizeCompute

LEMMA AloneCommitFinalize ==
    ASSUME OneAtATime, AloneInv, RaceInv', NEW s \in Session, CommitFinalize(s)
    PROVE  AloneInv'
<1> DEFINE t == txn[s]
           n == Len(statement)
<1>1. /\ n \in Nat /\ n + 1 <= MaxStatement /\ t.op = "archive" /\ DraftRead(t)
      /\ draft \in [Draft -> DraftRow \cup {Absent}]
  BY DEF CommitFinalize, AloneInv, RaceInv, Claim, Shape
<1>2. /\ Len(statement') = n + 1 /\ statement'[n + 1] = t.new
      /\ \A j \in 1 .. n : SameButStatus(statement'[j], statement[j])
  BY StatementsAfter DEF AloneInv
<1>3. ASSUME NEW d \in Draft, t.id = d
      PROVE  /\ Exists(d) /\ draft'[d] \in DraftRow /\ draft'[d].status = "FINALIZED"
             /\ draft'[d].final = n + 1 /\ t.new.draft = d
             /\ draft'[d].content = t.new.content
  <2>1. /\ t.id # None /\ d \in Draft /\ Exists(d) /\ t.row = draft[d]
        /\ t.row \in DraftRow /\ t.row.version < MaxVersion
        /\ t.new.draft = d /\ t.new.content = t.row.content
    BY <1>1, <1>3, StatementAssumption DEF DraftRead, AloneInv, Undisturbed
  <2>2. n + 1 \in 0 .. MaxStatement
    BY <1>1, StatementAssumption
  <2>3. PICK final \in DraftRow :
            /\ final = [t.row EXCEPT !.status = "FINALIZED", !.final = n + 1, !.version = @ + 1]
            /\ final.status = "FINALIZED" /\ final.final = n + 1
            /\ final.content = t.row.content
    <3>1. PICK final : final = [t.row EXCEPT !.status = "FINALIZED", !.final = n + 1,
                                             !.version = @ + 1]
      OBVIOUS
    <3>2. /\ final \in DraftRow /\ final.status = "FINALIZED" /\ final.final = n + 1
          /\ final.content = t.row.content
      BY <2>1, <2>2, <3>1, FinalRow
    <3> QED
      BY <3>1, <3>2
  <2>4. draft'[d] = Flushed(draft[d], t.row, final)
    BY <1>1, <1>3, <2>1, <2>3 DEF CommitFinalize
  <2>5. draft'[d] = final
    BY <2>1, <2>3, <2>4, FlushedAlone
  <2> QED
    BY <2>1, <2>3, <2>5
<1>4. \A d \in Draft : t.id # d => draft'[d] = draft[d]
  BY <1>1 DEF CommitFinalize
<1>5. DraftsFit'
  <2> SUFFICES ASSUME NEW d \in Draft, Exists(d)'
               PROVE  Fit(draft'[d]) /\ draft'[d].final \in 0 .. n + 1
    BY <1>2 DEF DraftsFit, Fit
  <2>1. CASE t.id = d
    BY <1>1, <1>3, <2>1 DEF Fit
  <2>2. CASE t.id # d
    BY <1>1, <1>4, <2>2 DEF AloneInv, DraftsFit, Exists
  <2> QED
    BY <2>1, <2>2
<1>6. FinalDraftFrozen'
  <2> SUFFICES ASSUME NEW d \in Draft, Exists(d)', draft'[d].final # 0
               PROVE  /\ draft'[d].status = "FINALIZED"
                      /\ statement'[draft'[d].final].draft = d
                      /\ statement'[draft'[d].final].content = draft'[d].content
    BY DEF FinalDraftFrozen
  <2>1. CASE t.id = d
    BY <1>2, <1>3, <2>1
  <2>2. CASE t.id # d
    <3>1. draft'[d] = draft[d] /\ Exists(d) /\ draft[d].final \in 1 .. n
      BY <1>1, <1>4, <2>2 DEF AloneInv, DraftsFit, Exists
    <3> QED
      BY <1>2, <3>1 DEF AloneInv, FinalDraftFrozen, SameButStatus
  <2> QED
    BY <2>1, <2>2
<1>7. Undisturbed(s)'
  BY EndedIsUndisturbed DEF CommitFinalize, AloneInv, RaceInv
<1> QED
  BY <1>5, <1>6, <1>7 DEF AloneInv, OneAtATime

LEMMA AloneHandOffBegin ==
    ASSUME OneAtATime, AloneInv, RaceInv', NEW s \in Session, NEW i \in DOMAIN statement,
           HandOffBegin(s, i)
    PROVE  AloneInv'
<1>1. txn'[s] = [op |-> "handoff", source |-> i]
  BY DEF HandOffBegin, AloneInv, RaceInv, Shape
<1>2. Undisturbed(s)'
  BY <1>1 DEF Undisturbed, HandOffBegin
<1> QED
  BY <1>2, AloneReads DEF HandOffBegin

LEMMA AloneEnds ==
    ASSUME OneAtATime, AloneInv, RaceInv', NEW s \in Session, CommitHandOff(s) \/ Abort(s)
    PROVE  AloneInv'
<1>1. txn' = [txn EXCEPT ![s] = Idle] /\ UNCHANGED <<draft, statement>>
  BY DEF CommitHandOff, Abort
<1>2. Undisturbed(s)'
  BY <1>1, EndedIsUndisturbed DEF AloneInv, RaceInv
<1> QED
  BY <1>1, <1>2, AloneReads

LEMMA AloneInit == Init => AloneInv
<1> SUFFICES ASSUME Init PROVE AloneInv
  OBVIOUS
<1>1. FinalDraftFrozen /\ DraftsFit
  BY DEF Init, FinalDraftFrozen, DraftsFit, Exists
<1>2. \A s \in Session : Undisturbed(s)
  BY DEF Init, Undisturbed, Idle
<1> QED
  BY <1>1, <1>2, RaceInit DEF AloneInv

LEMMA AloneStep == ASSUME OneAtATime PROVE AloneInv /\ [Next]_vars => AloneInv'
<1> SUFFICES ASSUME AloneInv, [Next]_vars PROVE AloneInv'
  OBVIOUS
<1>1. RaceInv'
  BY RaceStep DEF AloneInv
<1>2. ASSUME NEW s \in Session, EditDrafts(s) PROVE AloneInv'
  <2>1. PICK d \in Draft :
          \/ \E content \in Content, reason \in BOOLEAN :
                \/ \E correction \in 0 .. Len(statement) :
                      CreateDraft(s, d, content, correction, reason)
                \/ \E seen \in 1 .. MaxVersion : UpdateDraft(s, d, seen, content, reason)
          \/ CancelDraft(s, d)
          \/ CheckReadiness(s, d)
    BY <1>2 DEF EditDrafts
  <2> QED
    BY <1>1, <2>1, AloneCreateDraft, AloneUpdateDraft, AloneCancelDraft, AloneCheckReadiness
<1>3. ASSUME NEW s \in Session, Finalize(s) PROVE AloneInv'
  BY <1>1, <1>3, AloneFinalizeBegin, AloneFinalizeCompute, AloneCommitFinalize DEF Finalize
<1>4. CASE ReviseSource \/ TimePasses \/ UNCHANGED vars
  <2>1. UNCHANGED <<draft, statement, txn>>
    BY <1>4 DEF ReviseSource, TimePasses, vars
  <2>2. FinalDraftFrozen' /\ DraftsFit'
    BY <2>1 DEF AloneInv, FinalDraftFrozen, DraftsFit, Exists
  <2>3. \A s \in Session : Undisturbed(s)'
    BY <2>1 DEF AloneInv, Undisturbed
  <2> QED
    BY <1>1, <2>2, <2>3 DEF AloneInv
<1> QED
  BY <1>1, <1>2, <1>3, <1>4, AloneCommitCreate, AloneCommitEdit, AloneHandOffBegin, AloneEnds
     DEF Next

\* While one request runs at a time, a finalised draft stays as its archive was
\* made from it, and a correction is archived with its reason.
THEOREM FinalDraftsStandAlone == ASSUME OneAtATime PROVE Spec => []FinalDraftsStand
<1>1. AloneInv => FinalDraftsStand
  <2> SUFFICES ASSUME AloneInv, NEW s \in Session, txn[s].op \in {"finalize", "archive"},
                      txn[s].id # None, txn[s].row.correction # 0
               PROVE  txn[s].row.reason
    BY DEF FinalDraftsStand, CorrectionHasReason, AloneInv
  <2>1. DraftRead(txn[s]) /\ txn[s].row = draft[txn[s].id] /\ txn[s].row.status = "READY"
    BY DEF AloneInv, RaceInv, Claim, Undisturbed
  <2> QED
    BY <2>1 DEF AloneInv, DraftsFit, Fit, DraftRead
<1> QED
  BY <1>1, AloneInit, AloneStep, PTL DEF Spec

\* While one request runs at a time, an accepted update replaces the version its
\* client had seen.
THEOREM EditsFollowReadsAlone == ASSUME OneAtATime PROVE Spec => EditsFollowReads
<1>1. AloneInv /\ [Next]_vars =>
          [\A s \in Session :
              txn[s].op = "edit" /\ txn[s].seen # 0 /\ CommitEdit(s) =>
                  draft[txn[s].id].version = txn[s].seen]_vars
  BY DEF AloneInv, Undisturbed
<1> QED
  BY <1>1, AloneInit, AloneStep, PTL DEF Spec, EditsFollowReads

\* While one request runs at a time, claims come from a statement that is final
\* and not superseded.
THEOREM ClaimsFromCurrentAlone == ASSUME OneAtATime PROVE Spec => ClaimsFromCurrent
<1>1. AloneInv /\ [Next]_vars =>
          [\A c \in claim' \ claim : statement[c.source].status = "FINALIZED"]_vars
  <2> SUFFICES ASSUME AloneInv, [Next]_vars, NEW c \in claim' \ claim
               PROVE  statement[c.source].status = "FINALIZED"
    OBVIOUS
  <2>1. PICK s \in Session : CommitHandOff(s)
    <3>1. ASSUME NEW s \in Session, EditDrafts(s) PROVE claim' = claim
      BY <3>1 DEF EditDrafts, CreateDraft, UpdateDraft, CancelDraft, CheckReadiness, ReadForEdit
    <3>2. ASSUME NEW s \in Session, Finalize(s) PROVE claim' = claim
      BY <3>2 DEF Finalize, FinalizeBegin, FinalizeCompute, CommitFinalize
    <3>3. ASSUME NEW s \in Session,
                 CommitCreate(s) \/ CommitEdit(s) \/ Abort(s)
                     \/ \E i \in DOMAIN statement : HandOffBegin(s, i)
          PROVE  claim' = claim
      BY <3>3 DEF CommitCreate, CommitEdit, Abort, HandOffBegin
    <3>4. ReviseSource \/ TimePasses \/ UNCHANGED vars => claim' = claim
      BY DEF ReviseSource, TimePasses, vars
    <3> QED
      BY <3>1, <3>2, <3>3, <3>4 DEF Next
  <2>2. c.source = txn[s].source
    BY <2>1 DEF CommitHandOff, NewClaims
  <2> QED
    BY <2>1, <2>2 DEF AloneInv, Undisturbed, CommitHandOff
<1> QED
  BY <1>1, AloneInit, AloneStep, PTL DEF Spec, ClaimsFromCurrent

====================================
