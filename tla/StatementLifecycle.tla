------------------------- MODULE StatementLifecycle -------------------------
(***************************************************************************)
(* Statement drafts, finalisation, correction and the hand-off of balances *)
(* (apps/api: routers/statement_drafts.py, routers/finalized_statements.py *)
(* and create_receivables_from_statement of routers/payments.py) for one   *)
(* building and one billing period; every query of these handlers filters  *)
(* by both.                                                                *)
(*                                                                         *)
(* No handler locks a row before it writes. A request reads a draft,       *)
(* decides, and flushes an UPDATE by primary key that names the changed    *)
(* columns only; other requests commit in between.                         *)
(***************************************************************************)
EXTENDS Integers, Sequences, FiniteSets

CONSTANTS
    Session,      \* concurrent requests
    Draft,        \* ids of statement_draft rows
    Content,      \* title, selected units and overrides of a draft
    Tenancy,      \* tenancies with days in the period
    PartyCount,   \* how many renters each tenancy has
    Source,       \* states of the live inputs: [blocked, saldo]
    MaxVersion,   \* bound: no draft is edited beyond this version
    MaxStatement, \* bound: statements finalised in a behaviour
    None

ASSUME StatementAssumption ==
    /\ PartyCount \in [Tenancy -> Nat]
    /\ \A i \in Source : i.blocked \in BOOLEAN /\ i.saldo \in [Tenancy -> Int]
    /\ IsFiniteSet(Tenancy)
    /\ MaxVersion \in Nat \ {0} /\ MaxStatement \in Nat
    /\ None \notin Draft /\ Content # {}

VARIABLES
    draft,      \* statement_draft: committed rows
    statement,  \* statement with its archive and settlements, by insertion
    claim,      \* receivable rows of category nk_nachzahlung
    source,     \* costs, readings, advances, addresses, instructions
    late,       \* today is more than a year past the end of the period
    txn         \* what each request has read

vars == <<draft, statement, claim, source, late, txn>>

Status == {"DRAFT", "REVIEW_REQUIRED", "READY", "FINALIZED", "CANCELLED"}

\* correction and final name statements by their position, 0 for NULL.
DraftRow ==
    [status: Status, version: 1 .. MaxVersion, content: Content,
     correction: 0 .. MaxStatement, reason: BOOLEAN, final: 0 .. MaxStatement]

Column == {"status", "version", "content", "correction", "reason", "final"}

Absent == [status |-> "ABSENT"]

Idle == [op |-> "idle"]

Exists(d) == draft[d] # Absent

Init ==
    /\ draft = [d \in Draft |-> Absent]
    /\ statement = <<>>
    /\ claim = {}
    /\ source \in Source
    /\ late = FALSE
    /\ txn = [s \in Session |-> Idle]

----------------------------------------------------------------------------
(* Queries.                                                                *)

Finalized == {i \in DOMAIN statement : statement[i].status = "FINALIZED"}

HighestOf(S) ==
    CHOOSE i \in S : \A j \in S : statement[j].version <= statement[i].version

\* The statement with the highest version, 0 when there is none.
Latest == IF statement = <<>> THEN 0 ELSE HighestOf(DOMAIN statement)

----------------------------------------------------------------------------
(* Drafts: create_statement_draft, update_statement_draft,                 *)
(* cancel_statement_draft, statement_draft_readiness.                      *)

\* Only the latest finalised version can be corrected, and only with a
\* reason; a draft that corrects nothing may carry one all the same.
CreateDraft(s, d, content, correction, reason) ==
    /\ txn[s] = Idle /\ ~Exists(d)
    /\ correction # 0 =>
          /\ correction \in Finalized
          /\ correction = HighestOf(Finalized)
          /\ reason
    /\ txn' = [txn EXCEPT ![s] =
          [op |-> "create", id |-> d,
           new |-> [status |-> "DRAFT", version |-> 1, content |-> content,
                    correction |-> correction, reason |-> reason, final |-> 0]]]
    /\ UNCHANGED <<draft, statement, claim, source, late>>

CommitCreate(s) ==
    /\ txn[s].op = "create" /\ ~Exists(txn[s].id)
    /\ draft' = [draft EXCEPT ![txn[s].id] = txn[s].new]
    /\ txn' = [txn EXCEPT ![s] = Idle]
    /\ UNCHANGED <<statement, claim, source, late>>

\* Mutant: the client's version is not compared.
VersionMatchesAlways(row, seen) == TRUE

\* The version the client has seen must be the one the request reads.
VersionMatches(row, seen) == row.version = seen

Editable(row) == row.status \notin {"FINALIZED", "CANCELLED"}

Edited(row, content, reason) ==
    [row EXCEPT !.content = content, !.reason = reason,
                !.status = "DRAFT", !.version = @ + 1]

\* Mutant: a finalised draft can be cancelled.
CancellableAlways(row) == TRUE

\* A cancellation names no version and may be repeated.
Cancellable(row) == row.status # "FINALIZED"

Cancelled(row) == [row EXCEPT !.status = "CANCELLED", !.version = @ + 1]

\* Missing or invalid inputs block, and so does a correction with no reason.
Blocked(row) == source.blocked \/ (row.correction # 0 /\ ~row.reason)

Overall(row) == IF Blocked(row) THEN "REVIEW_REQUIRED" ELSE "READY"

\* The readiness check stores its verdict on every draft that is not final,
\* cancelled ones included.
Reassessed(row) == [row EXCEPT !.status = Overall(row), !.version = @ + 1]

ToReassess(row) == row.status # "FINALIZED" /\ row.status # Overall(row)

\* One of the three endpoints has read the draft and decided its new row.
ReadForEdit(s, d, seen, new) ==
    /\ txn[s] = Idle /\ Exists(d) /\ draft[d].version < MaxVersion
    /\ txn' = [txn EXCEPT ![s] = [op |-> "edit", id |-> d, seen |-> seen,
                                  row |-> draft[d], new |-> new]]
    /\ UNCHANGED <<draft, statement, claim, source, late>>

UpdateDraft(s, d, seen, content, reason) ==
    /\ Exists(d) /\ Editable(draft[d]) /\ VersionMatches(draft[d], seen)
    /\ ReadForEdit(s, d, seen, Edited(draft[d], content, reason))

CancelDraft(s, d) ==
    /\ Exists(d) /\ Cancellable(draft[d])
    /\ ReadForEdit(s, d, 0, Cancelled(draft[d]))

CheckReadiness(s, d) ==
    /\ Exists(d) /\ ToReassess(draft[d])
    /\ ReadForEdit(s, d, 0, Reassessed(draft[d]))

\* UPDATE ... WHERE id = d, naming the columns the request changed.
Flushed(row, old, new) ==
    [c \in Column |-> IF new[c] # old[c] THEN new[c] ELSE row[c]]

CommitEdit(s) ==
    LET t == txn[s] IN
    /\ t.op = "edit"
    /\ draft' = [draft EXCEPT ![t.id] = Flushed(@, t.row, t.new)]
    /\ txn' = [txn EXCEPT ![s] = Idle]
    /\ UNCHANGED <<statement, claim, source, late>>

----------------------------------------------------------------------------
(* finalize_statement.                                                     *)

Finalizable(row, seen) == VersionMatches(row, seen) /\ row.status = "READY"

\* The request names a draft and the version it has seen, or no draft at all.
FinalizeBegin(s, d, seen, supersedes, exception) ==
    /\ txn[s] = Idle /\ Len(statement) < MaxStatement
    /\ d # None => /\ Exists(d) /\ Finalizable(draft[d], seen)
                   /\ draft[d].version < MaxVersion
    /\ txn' = [txn EXCEPT ![s] =
          [op |-> "finalize", id |-> d,
           row |-> IF d = None THEN Absent ELSE draft[d],
           supersedes |-> supersedes, exception |-> exception]]
    /\ UNCHANGED <<draft, statement, claim, source, late>>

\* A correction names the latest version, which must be finalised; a first
\* version names none.
Names(supersedes) ==
    /\ supersedes = Latest
    /\ Latest # 0 => statement[Latest].status = "FINALIZED"

\* A zero balance has no consequence; a late claim needs a recorded reason.
Consequence(saldo, isLate, exception) ==
    [t \in Tenancy |->
        IF isLate /\ saldo[t] > 0 /\ ~exception THEN 0 ELSE saldo[t]]

\* The live inputs are computed and frozen, the predecessor is looked up, and
\* every document is rendered before anything is inserted.
FinalizeCompute(s) ==
    LET t == txn[s] IN
    /\ t.op = "finalize"
    /\ ~source.blocked
    /\ Names(t.supersedes)
    /\ txn' = [txn EXCEPT ![s] =
          [op |-> "archive", id |-> t.id, row |-> t.row, latest |-> Latest,
           new |-> [version |-> IF Latest = 0 THEN 1
                                ELSE statement[Latest].version + 1,
                    status |-> "FINALIZED", supersedes |-> Latest,
                    settlement |-> Consequence(source.saldo, late, t.exception),
                    draft |-> t.id,
                    content |-> IF t.id = None THEN None ELSE t.row.content]]]
    /\ UNCHANGED <<draft, statement, claim, source, late>>

\* Mutant: the database constraint on versions is missing.
VersionTakenNever(version) == FALSE

\* Unique (building_id, period_start, period_end, version).
VersionTaken(version) ==
    \E i \in DOMAIN statement : statement[i].version = version

\* The database lets a final statement change from FINALIZED to SUPERSEDED.
MayBecomeSuperseded(i) == statement[i].status = "FINALIZED"

\* Mutant: the predecessor's archive is rewritten when it is superseded.
SupersededAndCleared(i) ==
    [j \in DOMAIN statement |->
        IF j = i THEN [statement[j] EXCEPT !.status = "SUPERSEDED",
                                           !.settlement = [t \in Tenancy |-> 0]]
        ELSE statement[j]]

Superseded(i) ==
    [j \in DOMAIN statement |->
        IF j = i THEN [statement[j] EXCEPT !.status = "SUPERSEDED"]
        ELSE statement[j]]

\* Statement, archives, settlements, the predecessor and the draft commit
\* together; a constraint that refuses one of them rolls all back (Abort).
CommitFinalize(s) ==
    LET t == txn[s]
        id == Len(statement) + 1 IN
    /\ t.op = "archive" /\ id <= MaxStatement
    /\ ~VersionTaken(t.new.version)
    /\ t.latest # 0 => MayBecomeSuperseded(t.latest)
    /\ statement' = Append(Superseded(t.latest), t.new)
    /\ draft' = IF t.id = None THEN draft
                ELSE [draft EXCEPT ![t.id] =
                        Flushed(@, t.row, [t.row EXCEPT !.status = "FINALIZED",
                                                        !.final = id,
                                                        !.version = @ + 1])]
    /\ txn' = [txn EXCEPT ![s] = Idle]
    /\ UNCHANGED <<claim, source, late>>

----------------------------------------------------------------------------
(* create_receivables_from_statement.                                      *)

\* Mutant: a superseded statement can still be handed over.
OwingOfSaldo(i) == {t \in Tenancy : statement[i].settlement[t] # 0}

Owing(i) == {t \in Tenancy : statement[i].settlement[t] > 0}

Claimed(t) == \E c \in claim : c.tenancy = t

\* Mutant: the hand-off ignores the statement's status.
HandOffBeginAnyStatus(s, i) ==
    /\ txn[s] = Idle
    /\ ~\E c \in claim : c.source = i
    /\ \A t \in Owing(i) : PartyCount[t] = 1 /\ ~Claimed(t)
    /\ Owing(i) # {}
    /\ txn' = [txn EXCEPT ![s] = [op |-> "handoff", source |-> i]]
    /\ UNCHANGED <<draft, statement, claim, source, late>>

\* One renter per tenancy, and no claim for the tenancy and period yet: one
\* tenancy that fails refuses the whole statement.
HandOffBegin(s, i) ==
    /\ txn[s] = Idle
    /\ statement[i].status = "FINALIZED"
    /\ ~\E c \in claim : c.source = i
    /\ \A t \in Owing(i) : PartyCount[t] = 1 /\ ~Claimed(t)
    /\ Owing(i) # {}
    /\ txn' = [txn EXCEPT ![s] = [op |-> "handoff", source |-> i]]
    /\ UNCHANGED <<draft, statement, claim, source, late>>

\* Mutant: the unique indexes on receivables are missing.
ClaimTakenNever(t, i) == FALSE

\* uq_receivable_source and uq_receivable_nk_nachzahlung_period.
ClaimTaken(t, i) == \E c \in claim : c.tenancy = t

NewClaims(i) ==
    {[tenancy |-> t, source |-> i, cents |-> statement[i].settlement[t],
      batch |-> Cardinality(claim)] : t \in Owing(i)}

CommitHandOff(s) ==
    LET i == txn[s].source IN
    /\ txn[s].op = "handoff"
    /\ \A t \in Owing(i) : ~ClaimTaken(t, i)
    /\ claim' = claim \cup NewClaims(i)
    /\ txn' = [txn EXCEPT ![s] = Idle]
    /\ UNCHANGED <<draft, statement, source, late>>

----------------------------------------------------------------------------
(* The surroundings.                                                       *)

\* Other endpoints change costs, readings, reconciliations or addresses.
ReviseSource ==
    /\ source' \in Source \ {source}
    /\ UNCHANGED <<draft, statement, claim, late, txn>>

TimePasses ==
    /\ ~late /\ late' = TRUE
    /\ UNCHANGED <<draft, statement, claim, source, txn>>

\* A refusal, a violated constraint or a lost connection rolls all back.
Abort(s) ==
    /\ txn[s] # Idle
    /\ txn' = [txn EXCEPT ![s] = Idle]
    /\ UNCHANGED <<draft, statement, claim, source, late>>

EditDrafts(s) ==
    \E d \in Draft :
        \/ \E content \in Content, reason \in BOOLEAN :
              \/ \E correction \in 0 .. Len(statement) :
                    CreateDraft(s, d, content, correction, reason)
              \/ \E seen \in 1 .. MaxVersion :
                    UpdateDraft(s, d, seen, content, reason)
        \/ CancelDraft(s, d)
        \/ CheckReadiness(s, d)

Finalize(s) ==
    \/ \E d \in Draft \cup {None}, seen \in 1 .. MaxVersion,
          supersedes \in 0 .. Len(statement), exception \in BOOLEAN :
            FinalizeBegin(s, d, seen, supersedes, exception)
    \/ FinalizeCompute(s)
    \/ CommitFinalize(s)

Next ==
    \/ \E s \in Session :
          \/ EditDrafts(s) \/ CommitCreate(s) \/ CommitEdit(s)
          \/ Finalize(s)
          \/ \E i \in DOMAIN statement : HandOffBegin(s, i)
          \/ CommitHandOff(s)
          \/ Abort(s)
    \/ ReviseSource
    \/ TimePasses

Spec == Init /\ [][Next]_vars

----------------------------------------------------------------------------
(* Properties.                                                             *)

StatementRow ==
    [version: Nat \ {0}, status: {"FINALIZED", "SUPERSEDED"},
     supersedes: 0 .. MaxStatement, settlement: [Tenancy -> Int],
     draft: Draft \cup {None}, content: Content \cup {None}]

\* Every row is in its domain.
TypeOK ==
    /\ \A d \in Draft : Exists(d) => draft[d] \in DraftRow
    /\ statement \in Seq(StatementRow) /\ Len(statement) <= MaxStatement
    /\ claim \subseteq [tenancy: Tenancy, source: DOMAIN statement,
                        cents: Nat \ {0}, batch: Nat]
    /\ source \in Source /\ late \in BOOLEAN

\* Finalised versions form one chain however many corrections race: version
\* k + 1 supersedes version k, and only the last one is not superseded.
OneVersionChain ==
    \A i \in DOMAIN statement :
        /\ statement[i].version = i
        /\ statement[i].supersedes = i - 1
        /\ statement[i].status = "FINALIZED" <=> i = Len(statement)

\* A tenancy is charged once for the period, whichever versions were handed
\* over at the same time, and with the cents that version settled.
ChargedOnce ==
    /\ \A c, e \in claim : c.tenancy = e.tenancy => c = e
    /\ \A c \in claim : c.cents = statement[c.source].settlement[c.tenancy]

ChargedBy(t) ==
    IF Claimed(t) THEN (CHOOSE c \in claim : c.tenancy = t).source ELSE 0

\* Finalising and handing over implement the register: what a version settled
\* never changes, and all debtors of one version are charged together.
Register == INSTANCE StatementRegister WITH
    Settlement <- [Tenancy -> UNION {{i.saldo[t] : t \in Tenancy} \cup {0} :
                                       i \in Source}],
    issued <- [i \in DOMAIN statement |-> statement[i].settlement],
    charged <- [t \in Tenancy |-> ChargedBy(t)]

ImplementsRegister == Register!Spec

\* A draft that was finalised stays so ("Eine finalisierte Abrechnung bleibt
\* unverändert") and still shows what its archive was made from.
FinalDraftFrozen ==
    \A d \in Draft :
        Exists(d) /\ draft[d].final # 0 =>
            /\ draft[d].status = "FINALIZED"
            /\ statement[draft[d].final].draft = d
            /\ statement[draft[d].final].content = draft[d].content

\* An update that is accepted replaces the version its client had seen; else
\* the client is told that the draft was changed elsewhere.
EditsFollowReads ==
    [][\A s \in Session :
          txn[s].op = "edit" /\ txn[s].seen # 0 /\ CommitEdit(s) =>
              draft[txn[s].id].version = txn[s].seen]_vars

\* A claim is created from a statement that is finalised and not yet
\* superseded when the claim is.
ClaimsFromCurrent ==
    [][\A c \in claim' \ claim : statement[c.source].status = "FINALIZED"]_vars

\* A correction is archived with the reason it was made for.
CorrectionHasReason ==
    \A s \in Session :
        txn[s].op \in {"finalize", "archive"} /\ txn[s].id # None =>
            (txn[s].row.correction # 0 => txn[s].row.reason)

\* What was finalised stays as it was, and was fit to be: both, while one
\* request runs at a time. (Code: statement_drafts.py 195-324,
\* finalized_statements.py 1275-1526.)
FinalDraftsStand == FinalDraftFrozen /\ CorrectionHasReason

=============================================================================
