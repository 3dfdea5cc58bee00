--------------------------- MODULE AdvanceLedger ---------------------------
(***************************************************************************)
(* Advance payments of one tenancy (apps/api: routers/advances.py).        *)
(* Payments and their allocations are append-only; a reversal is a second  *)
(* positive row that names the first. A reconciliation freezes the sum of  *)
(* the allocations its caller selects.                                     *)
(*                                                                         *)
(* Requests read without locks and insert later. Only the trigger and the  *)
(* unique keys of migration 0015 are checked against what is committed by  *)
(* then.                                                                   *)
(***************************************************************************)
EXTENDS Integers, Sequences, FiniteSets, FiniteSetsExt

CONSTANTS
    Session,          \* concurrent requests
    Period,           \* billing periods
    Amount,           \* cents of a payment
    Start,            \* days on which a contractual advance may begin
    MaxPayment,       \* bound: payments and reversals together
    MaxReconciliation \* bound: reconciliations

VARIABLES
    payment,        \* advance_payment with its advance_allocation, by insertion
    reconciliation, \* advance_reconciliation with its selected allocations
    schedule,       \* advance_payment_period: [start, predecessor]
    advanceRequest  \* what each request has read

vars == <<payment, reconciliation, schedule, advanceRequest>>

\* A payment names no original (0), a reversal names a payment by position.
Payment == [period: Period, amount: Amount, reverses: 0 .. MaxPayment]

Reconciliation ==
    [period: Period, version: 1 .. MaxReconciliation, total: Int,
     selected: SUBSET (1 .. MaxPayment), supersedes: 0 .. MaxReconciliation]

\* The tenancy was created with the contractual advance of day 0.
FirstAdvance == [start |-> 0, predecessor |-> -1]

Idle == [op |-> "idle"]

Init ==
    /\ payment = <<>>
    /\ reconciliation = {}
    /\ schedule = {FirstAdvance}
    /\ advanceRequest = [s \in Session |-> Idle]

Continue(s, state) == advanceRequest' = [advanceRequest EXCEPT ![s] = state]

\* A refused or abandoned request is rolled back.
GiveUp(s) ==
    /\ advanceRequest[s] # Idle
    /\ Continue(s, Idle)
    /\ UNCHANGED <<payment, reconciliation, schedule>>

----------------------------------------------------------------------------
(* create_advance_payment, reverse_advance_payment.                        *)

\* Payment and allocation are inserted by one flush.
CreatePayment(s, p, a) ==
    /\ advanceRequest[s] = Idle /\ Len(payment) < MaxPayment
    /\ payment' = Append(payment, [period |-> p, amount |-> a, reverses |-> 0])
    /\ UNCHANGED <<reconciliation, schedule, advanceRequest>>

\* A reversal cannot itself be reversed.
ReadOriginal(s, i) ==
    /\ advanceRequest[s] = Idle /\ payment[i].reverses = 0
    /\ Continue(s, [op |-> "reverse", original |-> i])
    /\ UNCHANGED <<payment, reconciliation, schedule>>

\* Mutant: neither the trigger nor the unique index is there.
NotYetReversedUnchecked(i) == TRUE

\* The trigger locks the original first; the partial unique index agrees.
NotYetReversed(i) == \A j \in DOMAIN payment : payment[j].reverses # i

InsertReversal(s) ==
    LET i == advanceRequest[s].original IN
    /\ advanceRequest[s].op = "reverse" /\ Len(payment) < MaxPayment
    /\ NotYetReversed(i)
    /\ payment' = Append(payment, [payment[i] EXCEPT !.reverses = i])
    /\ Continue(s, Idle)
    /\ UNCHANGED <<reconciliation, schedule>>

----------------------------------------------------------------------------
(* confirm_advance_reconciliation.                                         *)

AllocationsOf(p) == {i \in DOMAIN payment : payment[i].period = p}

\* The selection may be empty, and must be of this tenancy and period.
SelectAllocations(s, p, S) ==
    /\ advanceRequest[s] = Idle /\ S \subseteq AllocationsOf(p)
    /\ Continue(s, [op |-> "sum", period |-> p, selected |-> S])
    /\ UNCHANGED <<payment, reconciliation, schedule>>

Signed(i) == IF payment[i].reverses # 0 THEN -payment[i].amount ELSE payment[i].amount

\* The ids of the reversals are read after the selected allocations.
AddUp(s) ==
    LET r == advanceRequest[s] IN
    /\ r.op = "sum"
    /\ Continue(s, [op |-> "version", period |-> r.period, selected |-> r.selected,
                    total |-> MapThenSumSet(Signed, r.selected)])
    /\ UNCHANGED <<payment, reconciliation, schedule>>

VersionsOf(p) == {r.version : r \in {x \in reconciliation : x.period = p}}

ReadLatest(s) ==
    LET r == advanceRequest[s]
        latest == Max({0} \cup VersionsOf(r.period))
    IN  /\ r.op = "version" /\ latest < MaxReconciliation
        /\ Continue(s, [op |-> "confirm", row |->
              [period |-> r.period, version |-> latest + 1, total |-> r.total,
               selected |-> r.selected, supersedes |-> latest]])
        /\ UNCHANGED <<payment, reconciliation, schedule>>

\* uq_advance_reconciliation_version
InsertReconciliation(s) ==
    LET row == advanceRequest[s].row IN
    /\ advanceRequest[s].op = "confirm"
    /\ row.version \notin VersionsOf(row.period)
    /\ reconciliation' = reconciliation \cup {row}
    /\ Continue(s, Idle)
    /\ UNCHANGED <<payment, schedule>>

----------------------------------------------------------------------------
(* add_advance_schedule_successor.                                         *)

Starts == {row.start : row \in schedule}

\* The predecessor is the advance in force on the day before, not the last
\* one declared: a change may be declared between two others.
ReadPredecessor(s, day) ==
    /\ advanceRequest[s] = Idle /\ day \notin Starts
    /\ Continue(s, [op |-> "succeed", row |->
          [start |-> day, predecessor |-> Max({d \in Starts : d < day})]])
    /\ UNCHANGED <<payment, reconciliation, schedule>>

\* uq_advance_payment_period_tenancy_start
InsertSuccessor(s) ==
    LET row == advanceRequest[s].row IN
    /\ advanceRequest[s].op = "succeed" /\ row.start \notin Starts
    /\ schedule' = schedule \cup {row}
    /\ Continue(s, Idle)
    /\ UNCHANGED <<payment, reconciliation>>

----------------------------------------------------------------------------

Next ==
    \E s \in Session :
        \/ \E p \in Period, a \in Amount : CreatePayment(s, p, a)
        \/ \E i \in DOMAIN payment : ReadOriginal(s, i)
        \/ InsertReversal(s)
        \/ \E p \in Period : \E S \in SUBSET AllocationsOf(p) : SelectAllocations(s, p, S)
        \/ AddUp(s) \/ ReadLatest(s) \/ InsertReconciliation(s)
        \/ \E day \in Start : ReadPredecessor(s, day)
        \/ InsertSuccessor(s)
        \/ GiveUp(s)

Spec == Init /\ [][Next]_vars

----------------------------------------------------------------------------

TypeOK ==
    /\ payment \in Seq(Payment) /\ Len(payment) <= MaxPayment
    /\ reconciliation \subseteq Reconciliation
    /\ \A row \in schedule : row.start \in {0} \cup Start /\ row.predecessor < row.start

\* The payments of a selection that no reversal in it takes back.
Standing(S) ==
    {i \in S : payment[i].reverses = 0 /\ \A j \in S : payment[j].reverses # i}

(***************************************************************************)
(* A confirmed total is the money that stands: when the selection has the  *)
(* original of each of its reversals, the total is the sum of the payments *)
(* that were not taken back, so it is never negative and no payment is     *)
(* taken back twice, whichever requests ran at the same time. (Code:       *)
(* advances.py 161-169 and the single-reversal trigger.)                   *)
(***************************************************************************)
AdvancesAddUp ==
    \A r \in reconciliation :
        (\A i \in r.selected : payment[i].reverses \in {0} \cup r.selected)
        => r.total = MapThenSumSet(LAMBDA i : payment[i].amount, Standing(r.selected))
=============================================================================
