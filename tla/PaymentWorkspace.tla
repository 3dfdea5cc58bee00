-------------------------- MODULE PaymentWorkspace --------------------------
(***************************************************************************)
(* What an owner sees of the bank movements (apps/api: routers/payments.py,*)
(* _workspace_rows() and payment_workspace_transactions()): one row per    *)
(* movement, derived from its proposal, its ledger entry and its labels,   *)
(* in pages.  A query reads committed rows only and writes nothing.        *)
(***************************************************************************)
EXTENDS BankMatching

\* There are finitely many movements, and "none" is not one of them.
ASSUME WorkspaceAssumption ==
    /\ IsFiniteSet(Movement) /\ None \notin Movement
    /\ \A t \in Movement : Tx[t].booked \in Int

Direction == {"all", "incoming", "outgoing"}

RowStatus == {"unassigned", "review", "assigned", "partial", "ignored"}

InDirection(d) ==
    (IF d = "outgoing" THEN {} ELSE Payment) \cup (IF d = "incoming" THEN {} ELSE Return)

\* `named` are the movements of the chosen account whose name or purpose
\* contains the search text.
Found(q) ==
    {t \in InDirection(q.direction) \cap q.named : Tx[t].booked \in q.from .. q.to}

\* By booking date, the latest first, then by an id that says nothing.
NewestFirst ==
    CHOOSE place \in [Movement -> 1 .. Cardinality(Movement)] :
        \A t, u \in Movement :
            t # u => /\ place[t] # place[u]
                     /\ Tx[t].booked > Tx[u].booked => place[t] < place[u]

InOrder(S) ==
    CHOOSE rows \in [1 .. Cardinality(S) -> S] :
        \A i, j \in DOMAIN rows : i < j => NewestFirst[rows[i]] < NewestFirst[rows[j]]

Listing(q) == InOrder(Found(q))
-----------------------------------------------------------------------------
EntriesOf(t) == {i \in 1 .. Len(ledger) : ledger[i].tx = t}

\* A return stores no proposal.
FirstProposal(t) == IF t \in Payment THEN run[t] ELSE NoRun

\* payment_allocation.after_status: a reversal restores the row before.
AfterStatus(e, r) ==
    IF e.kind = "PAYMENT" THEN Pay(e.before[r], e.parts[r]).status
    ELSE ledger[e.reverses].before[r].status

\* The allocations are read without an order and the first one speaks for the
\* entry: None where the entry has none.
FirstDebts(t) ==
    LET debts == UNION {DOMAIN ledger[i].parts : i \in EntriesOf(t)}
    IN  IF debts = {} THEN {None} ELSE debts

LeftPartial(t, r) ==
    r # None /\ \E i \in EntriesOf(t) : AfterStatus(ledger[i], r) = "partial"

\* The label wins over the ledger, the ledger over the proposal, and what the
\* owner decided about the proposal is not asked.
StatusOf(t, r) ==
    IF label[t] = "IGNORED" THEN "ignored"
    ELSE IF LeftPartial(t, r) THEN "partial"
    ELSE IF EntriesOf(t) # {} THEN "assigned"
    ELSE IF FirstProposal(t).decision = "NEEDS_REVIEW" THEN "review"
    ELSE "unassigned"

Actions(t) ==
    IF label[t] = "IGNORED" THEN {"restore"}
    ELSE IF EntriesOf(t) # {} THEN {} ELSE {"ignore", "assign"}

RowsOf(t) ==
    {[id |-> t, status |-> StatusOf(t, r), actions |-> Actions(t),
      renter |-> IF r = None THEN FirstProposal(t).renter ELSE Debt[r].renter,
      open |-> IF r = None THEN 0 ELSE Total(rcv[r])] : r \in FirstDebts(t)}
-----------------------------------------------------------------------------
\* A cursor that is not among the rows (any more) starts again at the first.
Page(rows, cursor, limit) ==
    LET at == {i \in DOMAIN rows : rows[i] = cursor}
        start == IF at = {} THEN 0 ELSE CHOOSE i \in at : TRUE
        page == SubSeq(rows, start + 1, Least(start + limit, Len(rows)))
    IN  [rows |-> page,
         next |-> IF start + limit < Len(rows) /\ page # <<>> THEN page[Len(page)] ELSE None]

\* The rows of the status that is asked for; `shown` picks each movement's row.
Kept(q, shown) == InOrder({t \in Found(q) : q.status \in {"all", shown[t].status}})

\* GET /payment-workspace/transactions.
Answer(q, shown, cursor) ==
    LET rows == Listing(q)
        kept == Kept(q, shown)
    IN  [page |-> Page(kept, cursor, q.limit),
         counts |-> [s \in RowStatus |->
                        Cardinality({i \in DOMAIN rows : shown[rows[i]].status = s})],
         total |-> Len(kept)]
-----------------------------------------------------------------------------
(* Properties.                                                             *)

\* The queries of the workspace over everything that is booked, in small pages.
PageSize == 2

Queries ==
    {q \in [direction : Direction, named : {Movement}, from : {0}, to : {9},
            status : RowStatus \cup {"all"}, limit : {PageSize}] :
        "all" \in {q.direction, q.status}}

Shown == {f \in [Movement -> UNION {RowsOf(t) : t \in Movement}] :
             \A t \in Movement : f[t] \in RowsOf(t)}

\* Following the cursors shows every row of the answer once, in order, and
\* stops, and the counters agree with the lists.
PagesAgree(q, shown) ==
    LET answer[n \in 1 .. Cardinality(Movement) + 1] ==
            Answer(q, shown, IF n = 1 THEN None ELSE answer[n - 1].page.next)
        kept == Kept(q, shown)
    IN  /\ answer[1].total = IF q.status = "all" THEN Cardinality(Found(q))
                             ELSE answer[1].counts[q.status]
        /\ \A n \in DOMAIN answer :
              (n - 1) * q.limit < Len(kept) =>
                  /\ answer[n].page.rows =
                        SubSeq(kept, (n - 1) * q.limit + 1, Least(n * q.limit, Len(kept)))
                  /\ (answer[n].page.next = None) = (n * q.limit >= Len(kept))

\* A row that is shown as partly paid has used the whole payment, the renter
\* of a row is the one its run names, and a row of a payment nobody ignored
\* is at the stage its life has reached.
RowAgrees(t, row) ==
    /\ row.status = "partial" => \A i \in EntriesOf(t) : ledger[i].credit = 0
    /\ t \in Payment => row.renter = run[t].renter
    /\ t \in Payment /\ row.status # "ignored" =>
          CASE StageOf(t) \in {"imported", "unmatched"} -> row.status = "unassigned"
            [] StageOf(t) \in {"review", "rejected", "duplicate"} -> row.status = "review"
            [] OTHER -> row.status \in {"assigned", "partial"} /\ row.actions = {}

(***************************************************************************)
(* What an owner is shown of the money is what the ledger says: every debt *)
(* is open by its opening amount less all that was allocated, every        *)
(* movement's row agrees with its entry, its run and its stage, and the    *)
(* pages of every query together show each of its movements once.  Looked  *)
(* at between transactions: a query sees committed rows only.              *)
(***************************************************************************)
WorkspaceShowsLedger ==
    /\ ProjectionMatchesLedger
    /\ (\A s \in Session : txn[s].pc = "idle") =>
          /\ \A t \in Movement : \A row \in RowsOf(t) : RowAgrees(t, row)
          /\ \A q \in Queries, shown \in Shown : PagesAgree(q, shown)
=============================================================================
