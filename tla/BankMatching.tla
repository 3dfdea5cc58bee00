---------------------------- MODULE BankMatching ----------------------------
(***************************************************************************)
(* Matching, deciding, reversing and classifying imported bank movements   *)
(* (apps/api: matching_service.py, routers/payments.py) as concurrent      *)
(* PostgreSQL transactions at READ COMMITTED.                              *)
(*                                                                         *)
(* A session is one HTTP request: it opens a transaction, reads, waits for *)
(* row locks, and commits everything at once or rolls everything back.     *)
(* What it wrote becomes visible at its commit, so the writes are in the   *)
(* commit step; the reads and the locks are steps of their own, because    *)
(* other sessions commit between them.                                     *)
(***************************************************************************)
EXTENDS Settlement

CONSTANTS
    Session,     \* concurrent database sessions
    Payment,     \* bank_transaction rows with a positive amount
    Return,      \* bank_transaction rows with a negative amount
    Receivable,  \* receivable ids, ordered
    Renter,      \* renters, each with a matching profile
    Iban,        \* counterpart IBANs
    Tx,          \* the immutable columns of every bank_transaction
    Debt,        \* the immutable columns of every receivable
    Opening,     \* every receivable's row before the first payment
    KnownIban,   \* iban_history rows that are already active: <<renter, iban>>
    None         \* no session, no renter, no IBAN, no reference

Movement == Payment \cup Return

Decision == {"AUTO_MATCH", "NEEDS_REVIEW", "UNMATCHED"}

Outcome == {"CONFIRMED", "REJECTED", "DUPLICATE"}

ASSUME SetsAssumption ==
    /\ IsFiniteSet(Session)
    /\ Receivable \subseteq Nat /\ IsFiniteSet(Receivable)
    /\ Payment \cap Return = {}
    /\ None \notin Session \cup Renter \cup Iban

ASSUME TxAssumption ==
    \A t \in Movement :
        /\ Tx[t].amount \in Nat \ {0}   \* the absolute amount
        /\ Tx[t].iban \in Iban \cup {None}

ASSUME DebtAssumption ==
    /\ \A r \in Receivable :
          /\ Debt[r].renter \in Renter
          /\ Debt[r].nominal \in [1 .. 4 -> Nat] /\ Nominal(Debt[r].nominal) > 0
          /\ Opening[r].principal <= Nominal(Debt[r].nominal)
    /\ Opening \in [Receivable -> Row]
    /\ KnownIban \subseteq Renter \X Iban

VARIABLES
    rcv,      \* receivable: the committed open amounts and status
    run,      \* match_proposal: the committed rank-1 row of each payment's run
    verdict,  \* match_confirmation: the committed decision on each payment
    iban,     \* iban_history: the active <<renter, iban>> rows
    ledger,   \* payment_ledger_entry with its payment_allocation rows, in order
    label,    \* bank_transaction_classification_event: the latest action
    txn,      \* what each session has read and still has to lock
    txLock,   \* FOR UPDATE holder of each bank_transaction row
    rowLock,  \* FOR UPDATE holder of each receivable row
    keyShare  \* FOR KEY SHARE holders of each receivable row (foreign keys)

store == <<rcv, run, verdict, iban, ledger, label>>
locks == <<txLock, rowLock, keyShare>>
vars  == <<rcv, run, verdict, iban, ledger, label, txn, txLock, rowLock, keyShare>>

NoRun == [decision |-> "NONE", renter |-> None]

NothingSeen == [r \in {} |-> Opening[r]]

Idle == [pc |-> "idle", tx |-> None, seen |-> NothingSeen, todo |-> <<>>, rows |-> {},
         run |-> NoRun, outcome |-> "NONE", original |-> 0]

Init ==
    /\ rcv = Opening
    /\ run = [t \in Payment |-> NoRun]
    /\ verdict = [t \in Payment |-> "NONE"]
    /\ iban = KnownIban
    /\ ledger = <<>>
    /\ label = [t \in Movement |-> "NONE"]
    /\ txn = [s \in Session |-> Idle]
    /\ txLock = [t \in Movement |-> None]
    /\ rowLock = [r \in Receivable |-> None]
    /\ keyShare = [r \in Receivable |-> {}]
-----------------------------------------------------------------------------
(* Ending a transaction.                                                   *)

\* Commit and rollback both give up every lock the session holds.
EndTransaction(s) ==
    /\ txn' = [txn EXCEPT ![s] = Idle]
    /\ txLock' = [t \in Movement |-> IF txLock[t] = s THEN None ELSE txLock[t]]
    /\ rowLock' = [r \in Receivable |-> IF rowLock[r] = s THEN None ELSE rowLock[r]]
    /\ keyShare' = [r \in Receivable |-> keyShare[r] \ {s}]

Rollback(s) == EndTransaction(s) /\ UNCHANGED store

\* Mutant: SELECT without FOR UPDATE.
LockMovementUnlocked(s, t) ==
    /\ txn[s].pc = "idle"
    /\ txLock' = [txLock EXCEPT ![t] = s]
    /\ UNCHANGED <<rowLock, keyShare>>

\* The session that issues the first statement takes the movement's row lock.
LockMovement(s, t) ==
    /\ txn[s].pc = "idle"
    /\ txLock[t] = None
    /\ txLock' = [txLock EXCEPT ![t] = s]
    /\ UNCHANGED <<rowLock, keyShare>>
-----------------------------------------------------------------------------
(* Proposing: the scores of the matching engine.                           *)

OpenDebts == {r \in Receivable : rcv[r].status \in {"open", "partial"}}

Owners(t) == {o \in Renter : <<o, Tx[t].iban>> \in iban}

UniqueIban == 60
SharedIban == 20
ExactAmount == 30
PaymentCode == 15
Surname == 10
PeriodToken == 5
ReviewFloor == 40

IbanSignal(t, renter) ==
    IF renter \notin Owners(t) THEN 0
    ELSE IF Cardinality(Owners(t)) = 1 THEN UniqueIban ELSE SharedIban

AmountSignal(t, row) == IF Tx[t].amount = row.principal THEN ExactAmount ELSE 0

\* The purpose names the payment code, else the surname: never both.
NameSignal(t, renter) ==
    IF renter \in Tx[t].codes THEN PaymentCode
    ELSE IF renter \in Tx[t].surnames THEN Surname ELSE 0

PeriodSignal(t, r) == IF Debt[r].period \in Tx[t].periods THEN PeriodToken ELSE 0

Confidence(t, r, row) ==
    Least(100, IbanSignal(t, Debt[r].renter) + AmountSignal(t, row)
               + NameSignal(t, Debt[r].renter) + PeriodSignal(t, r))

\* Amount, then name, then confidence, then id (the E2E signal is always 0).
RankedBefore(t, seen, a, b) ==
    LET key(r) == <<- AmountSignal(t, seen[r]), - NameSignal(t, Debt[r].renter),
                    - Confidence(t, r, seen[r]), r>>
    IN  \E k \in 1 .. 4 : /\ key(a)[k] < key(b)[k]
                          /\ \A j \in 1 .. k - 1 : key(a)[j] = key(b)[j]

Ranking(t, seen) ==
    {p \in (DOMAIN seen) \X (DOMAIN seen) : RankedBefore(t, seen, p[1], p[2])}

UniquelyOwning(t, seen) ==
    {Debt[r].renter : r \in {d \in DOMAIN seen :
                                IbanSignal(t, Debt[d].renter) = UniqueIban}}

\* The decision order of propose(): duplicate, unique IBAN, no candidate, floor.
Decide(t, seen, ranked) ==
    IF Tx[t].duplicate THEN "NEEDS_REVIEW"
    ELSE IF Cardinality(UniquelyOwning(t, seen)) = 1 THEN "AUTO_MATCH"
    ELSE IF ranked = <<>> THEN "UNMATCHED"
    ELSE IF Confidence(t, ranked[1], seen[ranked[1]]) >= ReviewFloor
         THEN "NEEDS_REVIEW" ELSE "UNMATCHED"

\* The rank-1 row: without a candidate it names no renter.
RankOne(t, seen, ranked) ==
    [decision |-> Decide(t, seen, ranked),
     renter |-> IF ranked = <<>> THEN None ELSE Debt[ranked[1]].renter]
-----------------------------------------------------------------------------
(* run_match() on a positive amount.                                       *)

\* Lock the movement; an existing run is returned as it is (no step).  Then
\* load the open debts, without a lock, into the session's identity map.
MatchBegin(s, t) ==
    /\ run[t] = NoRun
    /\ LockMovement(s, t)
    /\ txn' = [txn EXCEPT ![s] = [Idle EXCEPT !.pc = "propose", !.tx = t,
                                              !.seen = [r \in OpenDebts |-> rcv[r]]]]
    /\ UNCHANGED store

\* Read the active IBANs, rank, and start inserting the run: every row with a
\* receivable takes a key-share lock on it, in rank order.
MatchPropose(s) ==
    LET t == txn[s].tx
    IN  /\ txn[s].pc = "propose"
        /\ \E q \in Sorted(DOMAIN txn[s].seen, Ranking(t, txn[s].seen)) :
              txn' = [txn EXCEPT ![s].pc = "insert", ![s].todo = q,
                                 ![s].run = RankOne(t, txn[s].seen, q)]
        /\ UNCHANGED <<store, locks>>

KeyShareNext(s) ==
    LET r == Head(txn[s].todo)
    IN  /\ txn[s].pc = "insert" /\ txn[s].todo # <<>>
        /\ rowLock[r] \in {None, s}
        /\ keyShare' = [keyShare EXCEPT ![r] = @ \cup {s}]
        /\ txn' = [txn EXCEPT ![s].todo = Tail(@)]
        /\ UNCHANGED <<store, txLock, rowLock>>

\* Mutant: every run is committed before it is settled.
CommitRunFirst(s) ==
    /\ txn[s].pc = "insert" /\ txn[s].todo = <<>>
    /\ run' = [run EXCEPT ![txn[s].tx] = txn[s].run]
    /\ UNCHANGED <<rcv, verdict, iban, ledger, label>>
    /\ EndTransaction(s)

\* NEEDS_REVIEW and UNMATCHED store their run and move no money.
CommitRun(s) ==
    /\ txn[s].pc = "insert" /\ txn[s].todo = <<>>
    /\ txn[s].run.decision # "AUTO_MATCH"
    /\ run' = [run EXCEPT ![txn[s].tx] = txn[s].run]
    /\ UNCHANGED <<rcv, verdict, iban, ledger, label>>
    /\ EndTransaction(s)
-----------------------------------------------------------------------------
(* _settle_payment(): the debts are locked one by one, then paid.          *)

DueBefore(a, b) == Debt[a].due < Debt[b].due \/ (Debt[a].due = Debt[b].due /\ a < b)

\* SELECT ... FOR UPDATE takes its snapshot, then locks the rows in order.
SelectForUpdate(s, rows, order) ==
    \E q \in Sorted(rows, order) :
        txn' = [txn EXCEPT ![s].pc = "lock", ![s].todo = q, ![s].rows = rows]

SelectDebts(s) ==
    LET rows == {r \in OpenDebts : Debt[r].renter = txn[s].run.renter}
    IN  /\ \/ txn[s].pc = "insert" /\ txn[s].todo = <<>>
              /\ txn[s].run.decision = "AUTO_MATCH"
           \/ txn[s].pc = "settle"
        /\ SelectForUpdate(s, rows, {p \in rows \X rows : DueBefore(p[1], p[2])})
        /\ UNCHANGED <<store, locks>>

RowLockNext(s) ==
    LET r == Head(txn[s].todo)
    IN  /\ txn[s].pc = "lock" /\ txn[s].todo # <<>>
        /\ rowLock[r] \in {None, s} /\ keyShare[r] \subseteq {s}
        /\ rowLock' = [rowLock EXCEPT ![r] = s]
        /\ txn' = [txn EXCEPT ![s].todo = Tail(@)]
        /\ UNCHANGED <<store, txLock, keyShare>>

\* A row whose status changed while it was waited for is not returned.
Returned(s) == txn[s].rows \cap OpenDebts

\* The returned objects: one that is already in the identity map keeps the
\* attributes it was loaded with, the query refreshes only new ones.
View(s) ==
    [r \in Returned(s) |-> IF r \in DOMAIN txn[s].seen THEN txn[s].seen[r] ELSE rcv[r]]

\* The periods the purpose names, by period or by receivable id.
Designated(s) ==
    {Debt[r].period : r \in {d \in Returned(s) : \/ Debt[d].period \in Tx[txn[s].tx].periods
                                                 \/ d \in Tx[txn[s].tx].ids}}

\* The flush writes a column only where the session changed its own value of it.
Column(db, old, new) == IF new # old THEN new ELSE db

Flushed(db, old, new) ==
    [costs     |-> Column(db.costs, old.costs, new.costs),
     interest  |-> Column(db.interest, old.interest, new.interest),
     principal |-> Column(db.principal, old.principal, new.principal),
     status    |-> Column(db.status, old.status, new.status)]

Projection(old, parts) ==
    [r \in Receivable |-> IF r \in DOMAIN parts
                          THEN Flushed(rcv[r], old[r], Pay(old[r], parts[r])) ELSE rcv[r]]

\* ck_receivable_settled_has_nothing_open.
RowCheck(row) == (row.status = "settled") = (Total(row) = 0)

\* Nachzahlungen and rents alike: the split of the principal must not tie.
SplitsRefused(parts) ==
    \E r \in DOMAIN parts : SplitRefused(Debt[r].nominal, parts[r].principal)

PaymentEntry(t, b) ==
    [kind |-> "PAYMENT", tx |-> t, credit |-> b.credit, parts |-> b.parts,
     before |-> [r \in DOMAIN b.parts |-> b.seen[r]], reverses |-> 0]

Settled(s) ==
    UNION {Settlements(q, View(s), Tx[txn[s].tx].amount) :
              q \in Sorted(Returned(s),
                           PayOrder(Returned(s), Debt, Designated(s), Tx[txn[s].tx].booked))}

\* What the session is about to write: one booking, its order being total.
Bookings(s) ==
    LET view == View(s)
    IN  {[credit |-> x.credit, parts |-> Allocations(x, view), seen |-> view] : x \in Settled(s)}

\* A tie in a split, or a CHECK of a flushed row, refuses it.
Refused(b) ==
    \/ SplitsRefused(b.parts)
    \/ \E r \in Receivable : ~ RowCheck(Projection(b.seen, b.parts)[r])

\* should_learn_iban(): after a confirmation, never twice for one renter.
Learned(s) ==
    IF txn[s].outcome = "CONFIRMED" /\ Tx[txn[s].tx].iban # None
    THEN {<<txn[s].run.renter, Tx[txn[s].tx].iban>>} ELSE {}

\* Reads the locked rows and commits the run or the decision with the booking.
Book(s) ==
    LET t == txn[s].tx
    IN  /\ txn[s].pc = "lock" /\ txn[s].todo = <<>> /\ t \in Payment
        /\ Cardinality(Designated(s)) <= 1
        /\ \E b \in Bookings(s) :
              /\ ~ Refused(b)
              /\ rcv' = Projection(b.seen, b.parts)
              /\ ledger' = Append(ledger, PaymentEntry(t, b))
        /\ run' = [run EXCEPT ![t] = txn[s].run]
        /\ verdict' = [verdict EXCEPT ![t] = txn[s].outcome]
        /\ iban' = iban \cup Learned(s)
        /\ UNCHANGED label
        /\ EndTransaction(s)

\* Several designated periods, a tie, or a CHECK violation: nothing is kept.
BookRefused(s) ==
    /\ txn[s].pc = "lock" /\ txn[s].todo = <<>> /\ txn[s].tx \in Payment
    /\ \/ Cardinality(Designated(s)) > 1
       \/ \E b \in Bookings(s) : Refused(b)
    /\ Rollback(s)
-----------------------------------------------------------------------------
(* decide_match(): the owner's decision on a NEEDS_REVIEW run.             *)

\* Mutant: a decided run may be decided again.
DecidableAgain(t) == run[t].decision = "NEEDS_REVIEW"

\* Another outcome for a decided run is a conflict, the same one a repetition.
Decidable(t) == run[t].decision = "NEEDS_REVIEW" /\ verdict[t] = "NONE"

DecideConfirm(s, t) ==
    /\ Decidable(t) /\ run[t].renter # None
    /\ LockMovement(s, t)
    /\ txn' = [txn EXCEPT ![s] = [Idle EXCEPT !.pc = "settle", !.tx = t, !.run = run[t],
                                              !.outcome = "CONFIRMED"]]
    /\ UNCHANGED store

\* Mutant: every decision about a run teaches the IBAN.
DecideNegativeTeaches(s, t) ==
    /\ Decidable(t) /\ run[t].renter # None
    /\ txn[s].pc = "idle" /\ txLock[t] = None
    /\ verdict' = [verdict EXCEPT ![t] = "REJECTED"]
    /\ iban' = iban \cup {<<run[t].renter, i>> : i \in {Tx[t].iban} \ {None}}
    /\ UNCHANGED <<rcv, run, ledger, label, txn, locks>>

\* A negative decision reads and writes under the movement's lock alone.
DecideNegative(s, t) ==
    /\ Decidable(t)
    /\ txn[s].pc = "idle" /\ txLock[t] = None
    /\ \E outcome \in {"REJECTED", "DUPLICATE"} :
          verdict' = [verdict EXCEPT ![t] = outcome]
    /\ UNCHANGED <<rcv, run, iban, ledger, label, txn, locks>>
-----------------------------------------------------------------------------
(* _reverse_payment(): a returned payment.                                 *)

Entries(kind) == {i \in 1 .. Len(ledger) : ledger[i].kind = kind}

\* Reference first; the fallback only when no payment carries the reference.
Matching(t) ==
    LET byE2e == {i \in Entries("PAYMENT") : /\ Tx[t].e2e # None
                                             /\ Tx[ledger[i].tx].e2e = Tx[t].e2e}
        byMandate == {i \in Entries("PAYMENT") :
                         /\ Tx[t].mandate # None
                         /\ Tx[ledger[i].tx].mandate = Tx[t].mandate}
        byFacts == {i \in Entries("PAYMENT") :
                       /\ Tx[t].iban # None
                       /\ Tx[ledger[i].tx].iban = Tx[t].iban
                       /\ Tx[ledger[i].tx].amount = Tx[t].amount
                       /\ Tx[ledger[i].tx].booked = Tx[t].booked}
    IN  IF byE2e # {} THEN byE2e ELSE IF byMandate # {} THEN byMandate ELSE byFacts

Reversed(i) == \E j \in Entries("REVERSAL") : ledger[j].reverses = i

\* Resolve the one original payment, check that it is not reversed, and start
\* locking its debts in id order.  Every refusal leaves the store as it is.
ReturnBegin(s, t) ==
    /\ ~ \E j \in Entries("REVERSAL") : ledger[j].tx = t
    /\ Cardinality(Matching(t)) = 1
    /\ LockMovement(s, t)
    /\ \E i \in Matching(t) :
          LET rows == DOMAIN ledger[i].parts
          IN  /\ ~ Reversed(i) /\ rows # {}
              /\ \E q \in Sorted(rows, {p \in rows \X rows : p[1] < p[2]}) :
                    txn' = [txn EXCEPT ![s] = [Idle EXCEPT !.pc = "lock", !.tx = t,
                                                 !.todo = q, !.rows = rows, !.original = i]]
    /\ UNCHANGED store

\* Mutant: later bookings on the same debts are not noticed.
RestorableAlways(s) == Tx[txn[s].tx].amount = Tx[ledger[txn[s].original].tx].amount

\* The projection is still the one the original payment left, and the return is
\* for its full amount, credit included.
Restorable(s) ==
    LET entry == ledger[txn[s].original]
    IN  /\ \A r \in DOMAIN entry.parts : rcv[r] = Pay(entry.before[r], entry.parts[r])
        /\ Tx[txn[s].tx].amount = Tx[entry.tx].amount

Negated(part) ==
    [costs |-> - part.costs, interest |-> - part.interest, principal |-> - part.principal]

ReversalEntry(t, i) ==
    [kind |-> "REVERSAL", tx |-> t, credit |-> 0,
     parts |-> [r \in DOMAIN ledger[i].parts |-> Negated(ledger[i].parts[r])],
     before |-> [r \in DOMAIN ledger[i].parts |-> rcv[r]], reverses |-> i]

\* Mutant: without the unique index.
ReversalUnchecked(i) == TRUE

\* uq_payment_ledger_one_reversal.
ReversalUnique(i) == ~ Reversed(i)

BookReturn(s) ==
    LET i == txn[s].original
    IN  /\ txn[s].pc = "lock" /\ txn[s].todo = <<>> /\ txn[s].tx \in Return
        /\ Restorable(s) /\ ReversalUnique(i)
        /\ ledger' = Append(ledger, ReversalEntry(txn[s].tx, i))
        /\ rcv' = [r \in Receivable |-> IF r \in DOMAIN ledger[i].parts
                                        THEN ledger[i].before[r] ELSE rcv[r]]
        /\ UNCHANGED <<run, verdict, iban, label>>
        /\ EndTransaction(s)

BookReturnRefused(s) ==
    /\ txn[s].pc = "lock" /\ txn[s].todo = <<>> /\ txn[s].tx \in Return
    /\ ~ (Restorable(s) /\ ReversalUnique(txn[s].original))
    /\ Rollback(s)
-----------------------------------------------------------------------------
(* _append_classification(): ignoring a movement and restoring it.         *)

\* The checks are plain reads.
ClassifyBegin(s, t, action) ==
    /\ txn[s].pc = "idle"
    /\ ~ \E i \in 1 .. Len(ledger) : ledger[i].tx = t
    /\ IF action = "IGNORED" THEN label[t] # "IGNORED" ELSE label[t] = "IGNORED"
    /\ txn' = [txn EXCEPT ![s] = [Idle EXCEPT !.pc = "classify", !.tx = t,
                                              !.outcome = action]]
    /\ UNCHANGED <<store, locks>>

\* The insert's foreign key waits while another session holds the movement.
CommitLabel(s) ==
    /\ txn[s].pc = "classify" /\ txLock[txn[s].tx] = None
    /\ label' = [label EXCEPT ![txn[s].tx] = txn[s].outcome]
    /\ UNCHANGED <<rcv, run, verdict, iban, ledger>>
    /\ EndTransaction(s)
-----------------------------------------------------------------------------
(* What the database and the network do to a session.                      *)

\* The sessions whose lock on a receivable this session is waiting for.
Blockers(s) ==
    IF txn[s].todo = <<>> THEN {}
    ELSE LET r == Head(txn[s].todo)
             holder == {rowLock[r]} \ {None, s}
         IN  CASE txn[s].pc = "insert" -> holder
               [] txn[s].pc = "lock"   -> holder \cup (keyShare[r] \ {s})
               [] OTHER -> {}

Deadlocked(s) ==
    \E C \in SUBSET Session :
        /\ s \in C
        /\ \A x \in C : Blockers(x) \cap C # {} /\ \E y \in C : x \in Blockers(y)

\* Mutant: no deadlock detector.
NoDeadlockVictim(s) == FALSE

\* The deadlock detector cancels one session of the cycle.
DeadlockVictim(s) == Deadlocked(s) /\ Rollback(s)

\* A lost connection, a timeout or a killed worker before the commit.
Abort(s) == txn[s].pc # "idle" /\ Rollback(s)

\* One step of an open transaction.
Step(s) ==
    \/ MatchPropose(s) \/ KeyShareNext(s) \/ CommitRun(s)
    \/ SelectDebts(s) \/ RowLockNext(s) \/ Book(s) \/ BookRefused(s)
    \/ BookReturn(s) \/ BookReturnRefused(s) \/ CommitLabel(s)
    \/ DeadlockVictim(s)

Next ==
    \E s \in Session :
        \/ Step(s)
        \/ Abort(s)
        \/ \E t \in Payment : MatchBegin(s, t) \/ DecideConfirm(s, t) \/ DecideNegative(s, t)
        \/ \E t \in Return : ReturnBegin(s, t)
        \/ \E t \in Movement, action \in {"IGNORED", "RESTORED"} : ClassifyBegin(s, t, action)

Spec == Init /\ [][Next]_vars

\* A request does not stop inside its transaction, and the lock queues are fair.
FairSpec == Spec /\ \A s \in Session : SF_vars(Step(s))
-----------------------------------------------------------------------------
(* Properties.                                                             *)

Kinds == {"PAYMENT", "REVERSAL"}

PCs == {"idle", "propose", "insert", "settle", "lock", "classify"}

Runs == [decision : Decision \cup {"NONE"}, renter : Renter \cup {None}]

\* Which movement, outcome and original a transaction has at its pc, while the
\* ledger has that many entries.
TransactionOK(x, entries) ==
    /\ x.pc \in PCs
    /\ x.pc \in {"propose", "insert", "settle"} => x.tx \in Payment
    /\ x.pc \in {"lock", "classify"} => x.tx \in Movement
    /\ DOMAIN x.seen \subseteq Receivable /\ \A r \in DOMAIN x.seen : x.seen[r] \in Row
    /\ x.todo \in Seq(Receivable) /\ x.rows \subseteq Receivable
    /\ x.run \in Runs
    /\ x.outcome \in IF x.pc = "classify" THEN {"IGNORED", "RESTORED"}
                                          ELSE {"NONE", "CONFIRMED"}
    /\ x.outcome = "CONFIRMED" => x.pc \in {"settle", "lock"} /\ x.run.renter \in Renter
    /\ x.original \in 0 .. entries
    /\ x.pc = "lock" /\ x.tx \in Return => x.original # 0

EntryOK(e, entries) ==
    /\ e.kind \in Kinds /\ e.tx \in Movement
    /\ e.kind = "PAYMENT" <=> e.tx \in Payment
    /\ e.credit \in Nat /\ e.reverses \in 0 .. entries
    /\ DOMAIN e.parts \subseteq Receivable /\ DOMAIN e.before = DOMAIN e.parts
    /\ \A r \in DOMAIN e.before : e.before[r] \in Row

\* Every variable stays in its domain: what the columns and CHECKs allow.
TypeOK ==
    /\ rcv \in [Receivable -> Row]
    /\ run \in [Payment -> Runs]
    /\ verdict \in [Payment -> Outcome \cup {"NONE"}]
    /\ iban \subseteq Renter \X Iban
    /\ \A i \in 1 .. Len(ledger) : EntryOK(ledger[i], Len(ledger))
    /\ label \in [Movement -> {"NONE", "IGNORED", "RESTORED"}]
    /\ \A s \in Session : TransactionOK(txn[s], Len(ledger))
    /\ txLock \in [Movement -> Session \cup {None}]
    /\ rowLock \in [Receivable -> Session \cup {None}]
    /\ keyShare \in [Receivable -> SUBSET Session]

(***************************************************************************)
(* No bank movement is ever booked twice, whatever requests race for it:   *)
(* a payment by run_match() and again by decide_match(), a return by two   *)
(* deliveries of the same request.                                         *)
(***************************************************************************)
BookedOnce ==
    \A i, j \in 1 .. Len(ledger) : ledger[i].tx = ledger[j].tx => i = j

(***************************************************************************)
(* Money moves exactly on evidence: a payment is booked if and only if its *)
(* run is an automatic match or a review the owner confirmed, so a         *)
(* rejected or duplicate movement never moves money and a confirmed one    *)
(* never loses it; and it pays only debts of the renter the run names.     *)
(***************************************************************************)
Evidenced(t) ==
    \/ run[t].decision = "AUTO_MATCH"
    \/ run[t].decision = "NEEDS_REVIEW" /\ verdict[t] = "CONFIRMED"

EvidenceBeforeMoney ==
    /\ \A t \in Payment : Evidenced(t) <=> \E i \in 1 .. Len(ledger) : ledger[i].tx = t
    /\ \A i \in Entries("PAYMENT") : \A r \in DOMAIN ledger[i].parts :
          Debt[r].renter = run[ledger[i].tx].renter

(***************************************************************************)
(* A payment is reversed at most once, also when two returns name it and   *)
(* its debts are back in the state it left (paid again by a later payment  *)
(* of the same amount): only uq_payment_ledger_one_reversal stops that.    *)
(***************************************************************************)
ReversedOnce ==
    \A i, j \in Entries("REVERSAL") : ledger[i].reverses = ledger[j].reverses => i = j

(***************************************************************************)
(* The receivable row is a projection of the append-only ledger: in every  *)
(* tier, what is open is the opening amount less all that was allocated,   *)
(* reversals counted back.                                                 *)
(***************************************************************************)
Allocated(r, tier) ==
    LET amount[n \in 0 .. Len(ledger)] ==
          IF n = 0 THEN 0
          ELSE amount[n - 1] +
               (IF r \in DOMAIN ledger[n].parts THEN ledger[n].parts[r][tier] ELSE 0)
    IN  amount[Len(ledger)]

ProjectionMatchesLedger ==
    \A r \in Receivable : \A tier \in {"costs", "interest", "principal"} :
        rcv[r][tier] = Opening[r][tier] - Allocated(r, tier)

(***************************************************************************)
(* An IBAN becomes a renter's only by a confirmation the owner gave for    *)
(* that renter on a movement from that IBAN: no automatic match teaches.   *)
(***************************************************************************)
LearnedByConfirmation ==
    \A p \in iban \ KnownIban :
        \E t \in Payment : /\ verdict[t] = "CONFIRMED"
                           /\ run[t].renter = p[1] /\ Tx[t].iban = p[2]

(***************************************************************************)
(* A payment that is booked automatically belongs to the renter whose IBAN *)
(* identified it (docs/15 section 4, step 3: the amount steers the         *)
(* allocation, not the identity).                                          *)
(***************************************************************************)
AutoMatchNamesOwner ==
    \A t \in Payment : run[t].decision = "AUTO_MATCH" => run[t].renter \in Owners(t)

(***************************************************************************)
(* No request hangs: sessions that wait for each other's rows (a run holds *)
(* key-share locks on every candidate while it wants FOR UPDATE; a         *)
(* settlement locks by due date, a return by id) come to an end.           *)
(***************************************************************************)
SessionsFinish ==
    \A s \in Session : txn[s].pc # "idle" ~> txn[s].pc = "idle"

(***************************************************************************)
(* Sessions, locks and rollbacks implement the life of a payment.          *)
(***************************************************************************)
StageOf(t) ==
    LET booked == {i \in 1 .. Len(ledger) : ledger[i].tx = t}
        stored == run[t].decision
    IN  IF booked # {}
        THEN IF \E i \in booked : Reversed(i) THEN "returned" ELSE "booked"
        ELSE CASE stored = "NONE"      -> "imported"
               [] stored = "UNMATCHED" -> "unmatched"
               [] stored = "NEEDS_REVIEW" /\ verdict[t] = "NONE"      -> "review"
               [] stored = "NEEDS_REVIEW" /\ verdict[t] = "REJECTED"  -> "rejected"
               [] stored = "NEEDS_REVIEW" /\ verdict[t] = "DUPLICATE" -> "duplicate"
               [] OTHER -> "evidence without money"

OriginOf(t) ==
    IF \E j \in Entries("REVERSAL") : ledger[j].tx = t
    THEN ledger[ledger[CHOOSE j \in Entries("REVERSAL") : ledger[j].tx = t].reverses].tx
    ELSE None

Lifecycle == INSTANCE PaymentLifecycle WITH
    stage  <- [t \in Payment |-> StageOf(t)],
    origin <- [t \in Return |-> OriginOf(t)]

\* run_match(), decide_match() and _reverse_payment() keep that promise under
\* every interleaving of requests, rollbacks and deadlock victims.
ImplementsLifecycle == Lifecycle!Spec
=============================================================================
