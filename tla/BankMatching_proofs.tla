------------------------ MODULE BankMatching_proofs ------------------------
(***************************************************************************)
(* Proofs about BankMatching and PaymentWorkspace, for every number of     *)
(* sessions, movements, renters and debts: type correctness, and from it   *)
(* that no movement is booked twice, no payment reversed twice, no money   *)
(* moved without evidence; when the receivable rows are the projection of  *)
(* the ledger; and that the owner is then shown what the ledger says.      *)
(***************************************************************************)
EXTENDS PaymentWorkspace, SumTheorems, SequenceTheorems

\* Sets that hold the structured values: rows of some receivables, signed
\* amounts of some receivables, transactions and ledger entries.
Views == UNION {[S -> Row] : S \in SUBSET Receivable}

SignedPart == [costs : Int, interest : Int, principal : Int]

SignedParts == UNION {[S -> SignedPart] : S \in SUBSET Receivable}

Outcomes == Outcome \cup {"NONE", "IGNORED", "RESTORED"}

Transaction ==
    [pc : PCs, tx : Movement \cup {None}, seen : Views, todo : Seq(Receivable),
     rows : SUBSET Receivable, run : Runs, outcome : Outcomes, original : Nat]

Entry ==
    [kind : Kinds, tx : Movement, credit : Nat, parts : SignedParts, before : Views,
     reverses : Nat]

\* TypeOK and the containers' own sets.
TypeInv ==
    /\ TypeOK
    /\ ledger \in Seq(Entry)
    /\ txn \in [Session -> Transaction]
-----------------------------------------------------------------------------
(* The operators of Settlement.                                            *)

LEMMA LeastType ==
    ASSUME NEW a \in Nat, NEW b \in Nat
    PROVE  Least(a, b) \in Nat /\ Least(a, b) <= a /\ Least(a, b) <= b
  BY DEF Least

\* A part of a row is non-negative in every tier and never more than is open.
LEMMA AssignBounds ==
    ASSUME NEW row \in Row, NEW available \in Nat
    PROVE  /\ Assign(row, available) \in Part
           /\ Assign(row, available).costs <= row.costs
           /\ Assign(row, available).interest <= row.interest
           /\ Assign(row, available).principal <= row.principal
  <1> DEFINE costs    == Least(available, row.costs)
             interest == Least(available - costs, row.interest)
             principal == Least(available - costs - interest, row.principal)
  <1>1. row.costs \in Nat /\ row.interest \in Nat /\ row.principal \in Nat
    BY DEF Row
  <1>2. costs \in Nat /\ costs <= available /\ costs <= row.costs
    BY <1>1, LeastType
  <1> HIDE DEF costs
  <1>3. available - costs \in Nat
    BY <1>2
  <1>4. interest \in Nat /\ interest <= available - costs /\ interest <= row.interest
    BY <1>1, <1>3, LeastType
  <1> HIDE DEF interest
  <1>5. available - costs - interest \in Nat
    BY <1>2, <1>3, <1>4
  <1>6. principal \in Nat /\ principal <= row.principal
    BY <1>1, <1>5, LeastType
  <1> HIDE DEF principal
  <1>7. Assign(row, available)
          = [costs |-> costs, interest |-> interest, principal |-> principal]
    BY DEF Assign, costs, interest, principal
  <1> QED
    BY <1>2, <1>4, <1>6, <1>7 DEF Part

\* Paying a part that fits leaves a row.
LEMMA PayType ==
    ASSUME NEW row \in Row, NEW part \in Part, part.costs <= row.costs,
           part.interest <= row.interest, part.principal <= row.principal
    PROVE  Pay(row, part) \in Row
  BY DEF Pay, Row, Part, Status

\* A sorted order of some receivables is a sequence of receivables, and it is
\* empty only if there are none.
LEMMA SortedType ==
    ASSUME NEW S \in SUBSET Receivable, NEW less, NEW q \in Sorted(S, less)
    PROVE  q \in Seq(Receivable) /\ (q # <<>> => q[1] \in S)
  <1>1. IsFiniteSet(S)
    BY SetsAssumption, FS_Subset
  <1>2. Cardinality(S) \in Nat
    BY <1>1, FS_CardinalityType
  <1>3. q \in [1 .. Cardinality(S) -> S]
    BY DEF Sorted
  <1>4. q \in Seq(S) /\ Len(q) = Cardinality(S)
    BY <1>2, <1>3
  <1>5. q # <<>> => q[1] \in S
    BY <1>4, EmptySeq
  <1>6. q \in Seq(Receivable)
    BY <1>4, SeqMonotonic
  <1> QED
    BY <1>5, <1>6
-----------------------------------------------------------------------------
(* What every step does to the sessions and their locks.                   *)

LEMMA TransactionMonotone ==
    ASSUME NEW x, NEW m \in Nat, NEW n \in Nat, m <= n, TransactionOK(x, m)
    PROVE  TransactionOK(x, n)
  BY DEF TransactionOK

LEMMA EntryMonotone ==
    ASSUME NEW e, NEW m \in Nat, NEW n \in Nat, m <= n, EntryOK(e, m)
    PROVE  EntryOK(e, n)
  BY DEF EntryOK

LEMMA IdleType ==
    ASSUME NEW n \in Nat
    PROVE  Idle \in Transaction /\ TransactionOK(Idle, n)
  <1>1. NothingSeen \in Views /\ DOMAIN NothingSeen = {}
    <2>1. NothingSeen \in [{} -> Row]
      BY DEF NothingSeen
    <2> QED
      BY <2>1 DEF Views, NothingSeen
  <1>2. <<>> \in Seq(Receivable)
    BY EmptySeq
  <1>3. NoRun \in Runs
    BY DEF NoRun, Runs
  <1> QED
    BY <1>1, <1>2, <1>3 DEF Idle, Transaction, TransactionOK, PCs, Outcomes, Outcome

\* A session moves to the transaction x and the ledger stays or grows.
LEMMA SessionMoves ==
    ASSUME TypeInv, NEW s \in Session, NEW x \in Transaction, TransactionOK(x, Len(ledger)),
           txn' = [txn EXCEPT ![s] = x], Len(ledger) <= Len(ledger'), Len(ledger') \in Nat
    PROVE  /\ txn' \in [Session -> Transaction]
           /\ \A y \in Session : TransactionOK(txn'[y], Len(ledger'))
  <1>1. Len(ledger) \in Nat
    BY LenProperties DEF TypeInv
  <1>2. \A y \in Session : TransactionOK(txn'[y], Len(ledger))
    BY DEF TypeInv, TypeOK
  <1> QED
    BY <1>1, <1>2, TransactionMonotone DEF TypeInv

\* Ending a transaction keeps the types of the sessions and of the locks.
LEMMA EndTransactionType ==
    ASSUME TypeInv, NEW s \in Session, EndTransaction(s),
           Len(ledger) <= Len(ledger'), Len(ledger') \in Nat
    PROVE  /\ txn' \in [Session -> Transaction]
           /\ \A y \in Session : TransactionOK(txn'[y], Len(ledger'))
           /\ txLock' \in [Movement -> Session \cup {None}]
           /\ rowLock' \in [Receivable -> Session \cup {None}]
           /\ keyShare' \in [Receivable -> SUBSET Session]
  <1>1. Len(ledger) \in Nat
    BY LenProperties DEF TypeInv
  <1>2. /\ txn' \in [Session -> Transaction]
        /\ \A y \in Session : TransactionOK(txn'[y], Len(ledger'))
    BY <1>1, IdleType, SessionMoves DEF EndTransaction
  <1>3. /\ txLock' \in [Movement -> Session \cup {None}]
        /\ rowLock' \in [Receivable -> Session \cup {None}]
        /\ keyShare' \in [Receivable -> SUBSET Session]
    BY DEF EndTransaction, TypeInv, TypeOK
  <1> QED
    BY <1>2, <1>3

LEMMA LockMovementType ==
    ASSUME TypeInv, NEW s \in Session, NEW t \in Movement, LockMovement(s, t)
    PROVE  /\ txLock' \in [Movement -> Session \cup {None}]
           /\ rowLock' \in [Receivable -> Session \cup {None}]
           /\ keyShare' \in [Receivable -> SUBSET Session]
  BY DEF LockMovement, TypeInv, TypeOK

\* A step that leaves the store alone keeps TypeInv if it keeps the sessions'
\* and the locks' types.
LEMMA StoreUnchanged ==
    ASSUME TypeInv, UNCHANGED store,
           txn' \in [Session -> Transaction],
           \A y \in Session : TransactionOK(txn'[y], Len(ledger)),
           txLock' \in [Movement -> Session \cup {None}],
           rowLock' \in [Receivable -> Session \cup {None}],
           keyShare' \in [Receivable -> SUBSET Session]
    PROVE  TypeInv'
  BY DEF TypeInv, TypeOK, store

LEMMA SessionStep ==
    ASSUME TypeInv, NEW s \in Session, NEW x \in Transaction, TransactionOK(x, Len(ledger)),
           txn' = [txn EXCEPT ![s] = x], UNCHANGED store,
           txLock' \in [Movement -> Session \cup {None}],
           rowLock' \in [Receivable -> Session \cup {None}],
           keyShare' \in [Receivable -> SUBSET Session]
    PROVE  TypeInv'
  <1>1. ledger' = ledger /\ Len(ledger') = Len(ledger) /\ Len(ledger) \in Nat
    BY LenProperties DEF store, TypeInv
  <1>2. Len(ledger) <= Len(ledger') /\ Len(ledger') \in Nat
    BY <1>1
  <1>3. /\ txn' \in [Session -> Transaction]
        /\ \A y \in Session : TransactionOK(txn'[y], Len(ledger'))
    BY <1>2, SessionMoves
  <1> QED
    BY <1>1, <1>3, StoreUnchanged

LEMMA RollbackType ==
    ASSUME TypeInv, NEW s \in Session, Rollback(s)
    PROVE  TypeInv'
  <1>1. UNCHANGED store /\ UNCHANGED ledger /\ Len(ledger) \in Nat
    BY LenProperties DEF Rollback, store, TypeInv
  <1> QED
    BY <1>1, EndTransactionType, StoreUnchanged DEF Rollback
-----------------------------------------------------------------------------
(* Type correctness, action by action.                                     *)

\* What TypeInv says of one session.
LEMMA SessionFacts ==
    ASSUME TypeInv, NEW s \in Session
    PROVE  txn[s] \in Transaction /\ TransactionOK(txn[s], Len(ledger)) /\ Len(ledger) \in Nat
  BY LenProperties DEF TypeInv, TypeOK

LEMMA MatchBeginType ==
    ASSUME TypeInv, NEW s \in Session, NEW t \in Payment, MatchBegin(s, t)
    PROVE  TypeInv'
  <1> DEFINE x == [Idle EXCEPT !.pc = "propose", !.tx = t,
                               !.seen = [r \in OpenDebts |-> rcv[r]]]
  <1>1. Len(ledger) \in Nat
    BY LenProperties DEF TypeInv
  <1>2. [r \in OpenDebts |-> rcv[r]] \in Views
        /\ OpenDebts \subseteq Receivable /\ \A r \in OpenDebts : rcv[r] \in Row
    <2>1. OpenDebts \in SUBSET Receivable /\ \A r \in OpenDebts : rcv[r] \in Row
      BY DEF OpenDebts, TypeInv, TypeOK
    <2>2. [r \in OpenDebts |-> rcv[r]] \in [OpenDebts -> Row]
      BY <2>1
    <2> QED
      BY <2>1, <2>2 DEF Views
  <1>3. x \in Transaction /\ TransactionOK(x, Len(ledger))
    BY <1>1, <1>2, IdleType DEF Idle, Transaction, TransactionOK, PCs, Movement
  <1>4. txn' = [txn EXCEPT ![s] = x] /\ UNCHANGED store /\ UNCHANGED ledger
    BY DEF MatchBegin, store
  <1>5. LockMovement(s, t) /\ t \in Movement
    BY DEF MatchBegin, Movement
  <1> HIDE DEF x
  <1> QED
    BY <1>3, <1>4, <1>5, LockMovementType, SessionStep

LEMMA RankOneType ==
    ASSUME TypeInv, NEW s \in Session, NEW t \in Movement,
           NEW q \in Sorted(DOMAIN txn[s].seen, Ranking(t, txn[s].seen))
    PROVE  RankOne(t, txn[s].seen, q) \in Runs /\ q \in Seq(Receivable)
  <1>1. DOMAIN txn[s].seen \in SUBSET Receivable
    BY SessionFacts DEF TransactionOK
  <1>2. q \in Seq(Receivable) /\ (q # <<>> => q[1] \in Receivable)
    BY <1>1, SortedType
  <1>3. Decide(t, txn[s].seen, q) \in Decision
    BY DEF Decide, Decision
  <1>4. (IF q = <<>> THEN None ELSE Debt[q[1]].renter) \in Renter \cup {None}
    BY <1>2, DebtAssumption
  <1> QED
    BY <1>2, <1>3, <1>4 DEF RankOne, Runs

LEMMA MatchProposeType ==
    ASSUME TypeInv, NEW s \in Session, MatchPropose(s)
    PROVE  TypeInv'
  <1>1. PICK q \in Sorted(DOMAIN txn[s].seen, Ranking(txn[s].tx, txn[s].seen)) :
           txn' = [txn EXCEPT ![s].pc = "insert", ![s].todo = q,
                              ![s].run = RankOne(txn[s].tx, txn[s].seen, q)]
    BY DEF MatchPropose
  <1>2. txn[s].tx \in Payment /\ txn[s].tx \in Movement
    BY SessionFacts DEF MatchPropose, TransactionOK, Movement
  <1>3. RankOne(txn[s].tx, txn[s].seen, q) \in Runs /\ q \in Seq(Receivable)
    BY <1>2, RankOneType
  <1> DEFINE x == [txn[s] EXCEPT !.pc = "insert", !.todo = q,
                                 !.run = RankOne(txn[s].tx, txn[s].seen, q)]
  <1>4. x \in Transaction /\ TransactionOK(x, Len(ledger))
    BY <1>2, <1>3, SessionFacts DEF Transaction, TransactionOK, PCs, MatchPropose
  <1>5. txn' = [txn EXCEPT ![s] = x]
    BY <1>1, SessionFacts DEF TypeInv, Transaction
  <1>6. UNCHANGED <<store, locks>>
    BY DEF MatchPropose
  <1> HIDE DEF x
  <1> QED
    BY <1>4, <1>5, <1>6, SessionStep DEF locks, TypeInv, TypeOK

\* Taking the next row of the list that is still to be locked.
LEMMA TodoShrinks ==
    ASSUME TypeInv, NEW s \in Session, txn[s].todo # <<>>,
           txn' = [txn EXCEPT ![s].todo = Tail(@)], Len(ledger') = Len(ledger)
    PROVE  /\ Head(txn[s].todo) \in Receivable
           /\ txn' \in [Session -> Transaction]
           /\ \A y \in Session : TransactionOK(txn'[y], Len(ledger))
  <1>1. txn[s].todo \in Seq(Receivable)
    BY SessionFacts DEF Transaction
  <1>2. Head(txn[s].todo) \in Receivable /\ Tail(txn[s].todo) \in Seq(Receivable)
    BY <1>1, HeadTailProperties
  <1> DEFINE x == [txn[s] EXCEPT !.todo = Tail(@)]
  <1>3. x \in Transaction /\ TransactionOK(x, Len(ledger))
    BY <1>2, SessionFacts DEF Transaction, TransactionOK
  <1>4. txn' = [txn EXCEPT ![s] = x]
    BY SessionFacts DEF TypeInv, Transaction
  <1> HIDE DEF x
  <1>5. Len(ledger) \in Nat /\ Len(ledger) <= Len(ledger') /\ Len(ledger') \in Nat
    BY SessionFacts
  <1>6. /\ txn' \in [Session -> Transaction]
        /\ \A y \in Session : TransactionOK(txn'[y], Len(ledger'))
    BY <1>3, <1>4, <1>5, SessionMoves
  <1> QED
    BY <1>2, <1>6

LEMMA KeyShareNextType ==
    ASSUME TypeInv, NEW s \in Session, KeyShareNext(s)
    PROVE  TypeInv'
  <1>1. UNCHANGED store /\ UNCHANGED ledger /\ UNCHANGED <<txLock, rowLock>>
    BY DEF KeyShareNext, store
  <1>2. /\ Head(txn[s].todo) \in Receivable
        /\ txn' \in [Session -> Transaction]
        /\ \A y \in Session : TransactionOK(txn'[y], Len(ledger))
    BY <1>1, TodoShrinks DEF KeyShareNext
  <1>3. keyShare' \in [Receivable -> SUBSET Session]
    BY <1>2 DEF KeyShareNext, TypeInv, TypeOK
  <1> QED
    BY <1>1, <1>2, <1>3, StoreUnchanged DEF TypeInv, TypeOK

LEMMA RowLockNextType ==
    ASSUME TypeInv, NEW s \in Session, RowLockNext(s)
    PROVE  TypeInv'
  <1>1. UNCHANGED store /\ UNCHANGED ledger /\ UNCHANGED <<txLock, keyShare>>
    BY DEF RowLockNext, store
  <1>2. /\ Head(txn[s].todo) \in Receivable
        /\ txn' \in [Session -> Transaction]
        /\ \A y \in Session : TransactionOK(txn'[y], Len(ledger))
    BY <1>1, TodoShrinks DEF RowLockNext
  <1>3. rowLock' \in [Receivable -> Session \cup {None}]
    BY <1>2 DEF RowLockNext, TypeInv, TypeOK
  <1> QED
    BY <1>1, <1>2, <1>3, StoreUnchanged DEF TypeInv, TypeOK

LEMMA CommitRunType ==
    ASSUME TypeInv, NEW s \in Session, CommitRun(s)
    PROVE  TypeInv'
  <1>1. run' \in [Payment -> Runs]
    BY SessionFacts DEF CommitRun, TypeInv, TypeOK, TransactionOK
  <1>2. UNCHANGED <<rcv, verdict, iban, ledger, label>> /\ EndTransaction(s)
    BY DEF CommitRun
  <1> QED
    BY <1>1, <1>2, EndTransactionType, SessionFacts DEF TypeInv, TypeOK

LEMMA SelectDebtsType ==
    ASSUME TypeInv, NEW s \in Session, SelectDebts(s)
    PROVE  TypeInv'
  <1> DEFINE rows == {r \in OpenDebts : Debt[r].renter = txn[s].run.renter}
             order == {p \in rows \X rows : DueBefore(p[1], p[2])}
  <1>1. rows \in SUBSET Receivable
    BY DEF OpenDebts
  <1>2. PICK q \in Sorted(rows, order) :
           txn' = [txn EXCEPT ![s].pc = "lock", ![s].todo = q, ![s].rows = rows]
    BY DEF SelectDebts, SelectForUpdate
  <1>3. q \in Seq(Receivable)
    BY <1>1, <1>2, SortedType
  <1>4. txn[s].pc \in {"insert", "settle"}
    BY DEF SelectDebts
  <1>5. UNCHANGED <<store, locks>>
    BY DEF SelectDebts
  <1> HIDE DEF rows
  <1> DEFINE x == [txn[s] EXCEPT !.pc = "lock", !.todo = q, !.rows = rows]
  <1>6. txn[s].tx \notin Return /\ txn[s].tx \in Movement
    BY <1>4, SessionFacts, SetsAssumption DEF TransactionOK, Movement
  <1>7. x \in Transaction /\ TransactionOK(x, Len(ledger))
    BY <1>1, <1>3, <1>4, <1>6, SessionFacts DEF Transaction, TransactionOK, PCs
  <1>8. txn' = [txn EXCEPT ![s] = x]
    BY <1>2, SessionFacts DEF TypeInv, Transaction
  <1> HIDE DEF x
  <1> QED
    BY <1>5, <1>7, <1>8, SessionStep DEF locks, TypeInv, TypeOK
-----------------------------------------------------------------------------
(* Booking a payment.                                                      *)

\* A settlement allocates to the given rows only, and never more than is open.
LEMMA AllocationBounds ==
    ASSUME NEW S \in SUBSET Receivable, NEW view \in [S -> Row], NEW less,
           NEW q \in Sorted(S, less), NEW amount \in Nat,
           NEW x \in Settlements(q, view, amount)
    PROVE  /\ x.credit \in Nat
           /\ DOMAIN Allocations(x, view) \subseteq S
           /\ Allocations(x, view) \in [DOMAIN Allocations(x, view) -> Part]
           /\ \A r \in DOMAIN Allocations(x, view) :
                 /\ Allocations(x, view)[r].costs <= view[r].costs
                 /\ Allocations(x, view)[r].interest <= view[r].interest
                 /\ Allocations(x, view)[r].principal <= view[r].principal
  <1> DEFINE D == {q[i] : i \in 1 .. Len(q)}
             paid == {d \in D : Total(Assign(view[d], x.avail[d])) > 0}
  <1>1. x.avail \in [D -> 0 .. amount] /\ x.credit \in 0 .. amount
    BY DEF Settlements
  <1>2. D \subseteq S
    <2>1. IsFiniteSet(S)
      BY SetsAssumption, FS_Subset
    <2>2. Cardinality(S) \in Nat
      BY <2>1, FS_CardinalityType
    <2>3. q \in [1 .. Cardinality(S) -> S]
      BY DEF Sorted
    <2>4. Len(q) = Cardinality(S)
      BY <2>2, <2>3
    <2> QED
      BY <2>3, <2>4
  <1> HIDE DEF D
  <1>3. Allocations(x, view) = [r \in paid |-> Assign(view[r], x.avail[r])]
    BY <1>1 DEF Allocations
  <1>4. paid \subseteq D
    OBVIOUS
  <1> HIDE DEF paid
  <1>5. \A r \in paid : view[r] \in Row /\ x.avail[r] \in Nat
    BY <1>1, <1>2, <1>4
  <1>6. \A r \in paid : /\ Assign(view[r], x.avail[r]) \in Part
                        /\ Assign(view[r], x.avail[r]).costs <= view[r].costs
                        /\ Assign(view[r], x.avail[r]).interest <= view[r].interest
                        /\ Assign(view[r], x.avail[r]).principal <= view[r].principal
    BY <1>5, AssignBounds
  <1> QED
    BY <1>1, <1>2, <1>3, <1>4, <1>6

\* What one flush of booked rows leaves in the table.
LEMMA ProjectionType ==
    ASSUME TypeInv, NEW old, NEW parts,
           \A r \in Receivable : r \in DOMAIN parts =>
              /\ old[r] \in Row /\ parts[r] \in Part
              /\ parts[r].costs <= old[r].costs /\ parts[r].interest <= old[r].interest
              /\ parts[r].principal <= old[r].principal
    PROVE  Projection(old, parts) \in [Receivable -> Row]
  <1> SUFFICES ASSUME NEW r \in Receivable
               PROVE  (IF r \in DOMAIN parts
                       THEN Flushed(rcv[r], old[r], Pay(old[r], parts[r])) ELSE rcv[r]) \in Row
    BY DEF Projection
  <1>1. rcv[r] \in Row
    BY DEF TypeInv, TypeOK
  <1>2. CASE r \notin DOMAIN parts
    BY <1>1, <1>2
  <1>3. CASE r \in DOMAIN parts
    <2>1. Pay(old[r], parts[r]) \in Row
      BY <1>3, PayType
    <2> HIDE <1>3
    <2>2. Flushed(rcv[r], old[r], Pay(old[r], parts[r])) \in Row
      BY <1>1, <2>1 DEF Flushed, Column, Row
    <2> QED
      BY <1>3, <2>2
  <1> QED
    BY <1>2, <1>3

\* The facts about a booking that the invariants need.
LEMMA BookingFacts ==
    ASSUME TypeInv, NEW s \in Session, txn[s].tx \in Payment, NEW b \in Bookings(s)
    PROVE  /\ b.credit \in Nat
           /\ DOMAIN b.parts \subseteq Returned(s)
           /\ Returned(s) \subseteq txn[s].rows /\ Returned(s) \subseteq Receivable
           /\ b.parts \in [DOMAIN b.parts -> Part]
           /\ \A r \in DOMAIN b.parts :
                 /\ b.seen[r] \in Row
                 /\ b.parts[r].costs <= b.seen[r].costs
                 /\ b.parts[r].interest <= b.seen[r].interest
                 /\ b.parts[r].principal <= b.seen[r].principal
  <1> DEFINE S == Returned(s)
             order == PayOrder(S, Debt, Designated(s), Tx[txn[s].tx].booked)
             amount == Tx[txn[s].tx].amount
  <1>1. S \subseteq txn[s].rows /\ S \in SUBSET Receivable
    BY SessionFacts DEF Returned, OpenDebts, TransactionOK
  <1>2. View(s) \in [S -> Row]
    <2>1. \A r \in S : r \in DOMAIN txn[s].seen => txn[s].seen[r] \in Row
      BY SessionFacts DEF TransactionOK
    <2>2. \A r \in S : rcv[r] \in Row
      BY <1>1 DEF TypeInv, TypeOK
    <2> QED
      BY <2>1, <2>2 DEF View
  <1>3. amount \in Nat
    BY TxAssumption DEF Movement
  <1>4. PICK x \in Settled(s) :
           b = [credit |-> x.credit, parts |-> Allocations(x, View(s)), seen |-> View(s)]
    BY DEF Bookings
  <1>5. PICK q \in Sorted(S, order) : x \in Settlements(q, View(s), amount)
    BY <1>4 DEF Settled
  <1> HIDE DEF S, order, amount
  <1>6. /\ x.credit \in Nat
        /\ DOMAIN Allocations(x, View(s)) \subseteq S
        /\ Allocations(x, View(s)) \in [DOMAIN Allocations(x, View(s)) -> Part]
        /\ \A r \in DOMAIN Allocations(x, View(s)) :
              /\ Allocations(x, View(s))[r].costs <= View(s)[r].costs
              /\ Allocations(x, View(s))[r].interest <= View(s)[r].interest
              /\ Allocations(x, View(s))[r].principal <= View(s)[r].principal
    BY <1>1, <1>2, <1>3, <1>5, AllocationBounds
  <1>7. b.credit = x.credit /\ b.parts = Allocations(x, View(s)) /\ b.seen = View(s)
    BY <1>4
  <1> QED
    BY <1>1, <1>2, <1>6, <1>7 DEF S

\* The ledger grows by one entry at its end.
LEMMA LedgerGrows ==
    ASSUME TypeInv, NEW e \in Entry, EntryOK(e, Len(ledger)), ledger' = Append(ledger, e)
    PROVE  /\ ledger' \in Seq(Entry)
           /\ Len(ledger) \in Nat /\ Len(ledger') = Len(ledger) + 1
           /\ \A i \in 1 .. Len(ledger) : ledger'[i] = ledger[i]
           /\ ledger'[Len(ledger')] = e
           /\ \A i \in 1 .. Len(ledger') : EntryOK(ledger'[i], Len(ledger'))
  <1>1. /\ ledger' \in Seq(Entry)
        /\ Len(ledger) \in Nat /\ Len(ledger') = Len(ledger) + 1
        /\ \A i \in 1 .. Len(ledger) : ledger'[i] = ledger[i]
        /\ ledger'[Len(ledger')] = e
    BY LenProperties, AppendProperties DEF TypeInv
  <1>2. ASSUME NEW i \in 1 .. Len(ledger')
        PROVE  EntryOK(ledger'[i], Len(ledger'))
    <2>1. Len(ledger') \in Nat /\ Len(ledger) <= Len(ledger')
      BY <1>1
    <2>2. CASE i = Len(ledger')
      BY <1>1, <2>1, <2>2, EntryMonotone
    <2>3. CASE i \in 1 .. Len(ledger)
      <3>1. EntryOK(ledger[i], Len(ledger)) /\ ledger'[i] = ledger[i]
        BY <1>1, <2>3 DEF TypeInv, TypeOK
      <3> QED
        BY <1>1, <2>1, <3>1, EntryMonotone
    <2> QED
      BY <1>1, <2>2, <2>3
  <1> QED
    BY <1>1, <1>2

LEMMA PaymentEntryType ==
    ASSUME TypeInv, NEW s \in Session, txn[s].tx \in Payment, NEW b \in Bookings(s)
    PROVE  /\ PaymentEntry(txn[s].tx, b) \in Entry
           /\ EntryOK(PaymentEntry(txn[s].tx, b), Len(ledger))
  <1> DEFINE D == DOMAIN b.parts
             before == [r \in D |-> b.seen[r]]
  <1>1. D \in SUBSET Receivable /\ b.parts \in [D -> Part] /\ b.credit \in Nat
        /\ \A r \in D : b.seen[r] \in Row
    BY BookingFacts
  <1>2. b.parts \in SignedParts
    <2>1. \A r \in D : b.parts[r] \in SignedPart
      BY <1>1 DEF Part, SignedPart
    <2>2. b.parts \in [D -> SignedPart]
      BY <1>1, <2>1
    <2> QED
      BY <1>1, <2>2 DEF SignedParts
  <1>3. before \in Views /\ DOMAIN before = D /\ \A r \in D : before[r] \in Row
    <2>1. before \in [D -> Row]
      BY <1>1
    <2> QED
      BY <1>1, <2>1 DEF Views
  <1>4. PaymentEntry(txn[s].tx, b) =
          [kind |-> "PAYMENT", tx |-> txn[s].tx, credit |-> b.credit, parts |-> b.parts,
           before |-> before, reverses |-> 0]
    BY DEF PaymentEntry
  <1>5. Len(ledger) \in Nat
    BY SessionFacts
  <1> HIDE DEF before
  <1> QED
    BY <1>1, <1>2, <1>3, <1>4, <1>5 DEF Entry, EntryOK, Kinds, Movement

LEMMA BookType ==
    ASSUME TypeInv, NEW s \in Session, Book(s)
    PROVE  TypeInv'
  <1>1. txn[s].tx \in Payment /\ txn[s].pc = "lock"
    BY DEF Book
  <1>2. PICK b \in Bookings(s) : /\ rcv' = Projection(b.seen, b.parts)
                                 /\ ledger' = Append(ledger, PaymentEntry(txn[s].tx, b))
    BY DEF Book
  <1>3. rcv' \in [Receivable -> Row]
    <2>1. \A r \in DOMAIN b.parts : b.parts[r] \in Part
      BY <1>1, BookingFacts
    <2>2. \A r \in DOMAIN b.parts :
             /\ b.seen[r] \in Row
             /\ b.parts[r].costs <= b.seen[r].costs
             /\ b.parts[r].interest <= b.seen[r].interest
             /\ b.parts[r].principal <= b.seen[r].principal
      BY <1>1, BookingFacts
    <2> QED
      BY <1>2, <2>1, <2>2, ProjectionType
  <1>4. /\ ledger' \in Seq(Entry)
        /\ \A i \in 1 .. Len(ledger') : EntryOK(ledger'[i], Len(ledger'))
        /\ Len(ledger) <= Len(ledger') /\ Len(ledger') \in Nat
    BY <1>1, <1>2, PaymentEntryType, LedgerGrows
  <1>5. run' \in [Payment -> Runs] /\ verdict' \in [Payment -> Outcome \cup {"NONE"}]
    <2>1. txn[s].run \in Runs /\ txn[s].outcome \in {"NONE", "CONFIRMED"}
      BY <1>1, SessionFacts DEF TransactionOK
    <2> QED
      BY <2>1 DEF Book, TypeInv, TypeOK, Outcome
  <1>6. iban' \subseteq Renter \X Iban
    <2>1. CASE Learned(s) = {}
      BY <2>1 DEF Book, TypeInv, TypeOK
    <2>2. CASE Learned(s) # {}
      <3>1. /\ txn[s].outcome = "CONFIRMED" /\ Tx[txn[s].tx].iban # None
            /\ Learned(s) = {<<txn[s].run.renter, Tx[txn[s].tx].iban>>}
        BY <2>2 DEF Learned
      <3>2. txn[s].run.renter \in Renter
        BY <3>1, SessionFacts DEF TransactionOK
      <3>3. Tx[txn[s].tx].iban \in Iban
        BY <1>1, <3>1, TxAssumption DEF Movement
      <3> QED
        BY <3>1, <3>2, <3>3 DEF Book, TypeInv, TypeOK
    <2> QED
      BY <2>1, <2>2
  <1>7. label' = label /\ EndTransaction(s)
    BY DEF Book
  <1> QED
    BY <1>3, <1>4, <1>5, <1>6, <1>7, EndTransactionType DEF TypeInv, TypeOK

LEMMA DecideConfirmType ==
    ASSUME TypeInv, NEW s \in Session, NEW t \in Payment, DecideConfirm(s, t)
    PROVE  TypeInv'
  <1> DEFINE x == [Idle EXCEPT !.pc = "settle", !.tx = t, !.run = run[t],
                               !.outcome = "CONFIRMED"]
  <1>1. Len(ledger) \in Nat
    BY LenProperties DEF TypeInv
  <1>2. run[t] \in Runs /\ run[t].renter \in Renter
    BY DEF DecideConfirm, TypeInv, TypeOK, Runs
  <1>3. x \in Transaction /\ TransactionOK(x, Len(ledger))
    BY <1>1, <1>2, IdleType
       DEF Idle, Transaction, TransactionOK, PCs, Movement, Outcomes, Outcome
  <1>4. txn' = [txn EXCEPT ![s] = x] /\ UNCHANGED store
    BY DEF DecideConfirm
  <1>5. LockMovement(s, t) /\ t \in Movement
    BY DEF DecideConfirm, Movement
  <1> HIDE DEF x
  <1> QED
    BY <1>3, <1>4, <1>5, LockMovementType, SessionStep

LEMMA DecideNegativeType ==
    ASSUME TypeInv, NEW s \in Session, NEW t \in Payment, DecideNegative(s, t)
    PROVE  TypeInv'
  <1>1. verdict' \in [Payment -> Outcome \cup {"NONE"}]
    BY DEF DecideNegative, TypeInv, TypeOK, Outcome
  <1> QED
    BY <1>1 DEF DecideNegative, TypeInv, TypeOK, locks

LEMMA ReturnBeginType ==
    ASSUME TypeInv, NEW s \in Session, NEW t \in Return, ReturnBegin(s, t)
    PROVE  TypeInv'
  <1>1. PICK i \in Matching(t) :
           LET rows == DOMAIN ledger[i].parts
           IN  \E q \in Sorted(rows, {p \in rows \X rows : p[1] < p[2]}) :
                  txn' = [txn EXCEPT ![s] = [Idle EXCEPT !.pc = "lock", !.tx = t,
                                               !.todo = q, !.rows = rows, !.original = i]]
    BY DEF ReturnBegin
  <1> DEFINE rows == DOMAIN ledger[i].parts
  <1>2. PICK q \in Sorted(rows, {p \in rows \X rows : p[1] < p[2]}) :
           txn' = [txn EXCEPT ![s] = [Idle EXCEPT !.pc = "lock", !.tx = t,
                                        !.todo = q, !.rows = rows, !.original = i]]
    BY <1>1
  <1> DEFINE x == [Idle EXCEPT !.pc = "lock", !.tx = t, !.todo = q, !.rows = rows,
                               !.original = i]
  <1>3. i \in 1 .. Len(ledger) /\ Len(ledger) \in Nat
    BY SessionFacts DEF Matching, Entries
  <1>4. rows \in SUBSET Receivable
    BY <1>3 DEF TypeInv, TypeOK, EntryOK
  <1>5. q \in Seq(Receivable)
    BY <1>2, <1>4, SortedType
  <1> HIDE DEF rows
  <1>6. x \in Transaction /\ TransactionOK(x, Len(ledger))
    <2>1. Idle \in Transaction /\ Idle.outcome = "NONE" /\ Idle.run \in Runs
      BY IdleType DEF Idle, Transaction
    <2>2. DOMAIN Idle.seen \subseteq Receivable /\ \A r \in DOMAIN Idle.seen : Idle.seen[r] \in Row
      BY <1>3, IdleType DEF TransactionOK
    <2>3. i \in Nat /\ i \in 0 .. Len(ledger) /\ i # 0
      BY <1>3
    <2>4. x \in Transaction
      BY <1>4, <1>5, <2>1, <2>3 DEF Transaction, PCs, Movement
    <2>5. /\ x.pc = "lock" /\ x.tx = t /\ x.seen = Idle.seen /\ x.todo = q /\ x.rows = rows
          /\ x.run = Idle.run /\ x.outcome = "NONE" /\ x.original = i
      BY DEF Idle
    <2> HIDE DEF x
    <2>6. TransactionOK(x, Len(ledger))
      BY <1>4, <1>5, <2>1, <2>2, <2>3, <2>5 DEF TransactionOK, PCs, Movement
    <2> QED
      BY <2>4, <2>6
  <1>7. txn' = [txn EXCEPT ![s] = x] /\ UNCHANGED store
    BY <1>2 DEF ReturnBegin
  <1>8. LockMovement(s, t) /\ t \in Movement
    BY DEF ReturnBegin, Movement
  <1> HIDE DEF x
  <1> QED
    BY <1>6, <1>7, <1>8, LockMovementType, SessionStep

LEMMA BookReturnType ==
    ASSUME TypeInv, NEW s \in Session, BookReturn(s)
    PROVE  TypeInv'
  <1> DEFINE i == txn[s].original
             entry == ReversalEntry(txn[s].tx, i)
  <1>1. txn[s].tx \in Return /\ txn[s].pc = "lock"
    BY DEF BookReturn
  <1>2. i \in 1 .. Len(ledger) /\ Len(ledger) \in Nat
    BY <1>1, SessionFacts DEF TransactionOK
  <1>3. /\ DOMAIN ledger[i].parts \in SUBSET Receivable
        /\ DOMAIN ledger[i].before = DOMAIN ledger[i].parts
        /\ \A r \in DOMAIN ledger[i].before : ledger[i].before[r] \in Row
    BY <1>2 DEF TypeInv, TypeOK, EntryOK
  <1>4. \A r \in DOMAIN ledger[i].parts : ledger[i].parts[r] \in SignedPart
    <2>1. ledger[i] \in Entry
      BY <1>2, ElementOfSeq DEF TypeInv
    <2>2. ledger[i].parts \in SignedParts
      BY <2>1 DEF Entry
    <2>3. PICK S \in SUBSET Receivable : ledger[i].parts \in [S -> SignedPart]
      BY <2>2 DEF SignedParts
    <2> QED
      BY <2>3
  <1>5. entry \in Entry /\ EntryOK(entry, Len(ledger))
    <2> DEFINE D == DOMAIN ledger[i].parts
               parts == [r \in D |-> Negated(ledger[i].parts[r])]
               before == [r \in D |-> rcv[r]]
    <2>1. \A r \in D : Negated(ledger[i].parts[r]) \in SignedPart
      BY <1>4 DEF Negated, SignedPart
    <2>2. parts \in SignedParts /\ DOMAIN parts = D
      <3>1. parts \in [D -> SignedPart]
        BY <2>1
      <3> QED
        BY <1>3, <3>1 DEF SignedParts
    <2>3. before \in Views /\ DOMAIN before = D /\ \A r \in D : before[r] \in Row
      <3>1. before \in [D -> Row] /\ \A r \in D : before[r] \in Row
        BY <1>3 DEF TypeInv, TypeOK
      <3> QED
        BY <1>3, <3>1 DEF Views
    <2>4. entry = [kind |-> "REVERSAL", tx |-> txn[s].tx, credit |-> 0, parts |-> parts,
                   before |-> before, reverses |-> i]
      BY DEF ReversalEntry
    <2>5. txn[s].tx \in Movement /\ txn[s].tx \notin Payment
      BY <1>1, SetsAssumption DEF Movement
    <2> HIDE DEF parts, before
    <2> QED
      BY <1>2, <1>3, <2>2, <2>3, <2>4, <2>5 DEF Entry, EntryOK, Kinds
  <1>6. ledger' = Append(ledger, entry)
    BY DEF BookReturn
  <1> HIDE DEF entry
  <1>7. /\ ledger' \in Seq(Entry)
        /\ \A j \in 1 .. Len(ledger') : EntryOK(ledger'[j], Len(ledger'))
        /\ Len(ledger) <= Len(ledger') /\ Len(ledger') \in Nat
    BY <1>5, <1>6, LedgerGrows
  <1>8. rcv' \in [Receivable -> Row]
    BY <1>3 DEF BookReturn, TypeInv, TypeOK
  <1>9. UNCHANGED <<run, verdict, iban, label>> /\ EndTransaction(s)
    BY DEF BookReturn
  <1> QED
    BY <1>7, <1>8, <1>9, EndTransactionType DEF TypeInv, TypeOK

LEMMA ClassifyBeginType ==
    ASSUME TypeInv, NEW s \in Session, NEW t \in Movement,
           NEW action \in {"IGNORED", "RESTORED"}, ClassifyBegin(s, t, action)
    PROVE  TypeInv'
  <1> DEFINE x == [Idle EXCEPT !.pc = "classify", !.tx = t, !.outcome = action]
  <1>1. Len(ledger) \in Nat
    BY LenProperties DEF TypeInv
  <1>2. x \in Transaction /\ TransactionOK(x, Len(ledger))
    BY <1>1, IdleType DEF Idle, Transaction, TransactionOK, PCs, Outcomes
  <1>3. txn' = [txn EXCEPT ![s] = x] /\ UNCHANGED <<store, locks>>
    BY DEF ClassifyBegin
  <1> HIDE DEF x
  <1> QED
    BY <1>2, <1>3, SessionStep DEF locks, TypeInv, TypeOK

LEMMA CommitLabelType ==
    ASSUME TypeInv, NEW s \in Session, CommitLabel(s)
    PROVE  TypeInv'
  <1>1. label' \in [Movement -> {"NONE", "IGNORED", "RESTORED"}]
    BY SessionFacts DEF CommitLabel, TypeInv, TypeOK, TransactionOK
  <1>2. UNCHANGED <<rcv, run, verdict, iban, ledger>> /\ EndTransaction(s)
    BY DEF CommitLabel
  <1> QED
    BY <1>1, <1>2, EndTransactionType, SessionFacts DEF TypeInv, TypeOK
-----------------------------------------------------------------------------
LEMMA InitType == Init => TypeInv
  <1> SUFFICES ASSUME Init PROVE TypeInv
    OBVIOUS
  <1>1. ledger = <<>> /\ Len(ledger) = 0 /\ ledger \in Seq(Entry)
    BY EmptySeq DEF Init
  <1>2. Idle \in Transaction /\ TransactionOK(Idle, 0)
    BY IdleType
  <1>3. txn \in [Session -> Transaction] /\ \A s \in Session : TransactionOK(txn[s], 0)
    BY <1>2 DEF Init
  <1>4. NoRun \in Runs
    BY DEF NoRun, Runs
  <1> QED
    BY <1>1, <1>3, <1>4, DebtAssumption DEF Init, TypeInv, TypeOK

LEMMA NextType == TypeInv /\ [Next]_vars => TypeInv'
  <1> SUFFICES ASSUME TypeInv, [Next]_vars PROVE TypeInv'
    OBVIOUS
  <1>1. CASE UNCHANGED vars
    BY <1>1 DEF vars, TypeInv, TypeOK, TransactionOK, EntryOK
  <1>2. ASSUME NEW s \in Session, Step(s) PROVE TypeInv'
    BY <1>2, MatchProposeType, KeyShareNextType, CommitRunType, SelectDebtsType,
       RowLockNextType, BookType, BookReturnType, CommitLabelType, RollbackType
       DEF Step, BookRefused, BookReturnRefused, DeadlockVictim
  <1>3. ASSUME NEW s \in Session, Abort(s) PROVE TypeInv'
    BY <1>3, RollbackType DEF Abort
  <1>4. ASSUME NEW s \in Session, NEW t \in Payment,
               MatchBegin(s, t) \/ DecideConfirm(s, t) \/ DecideNegative(s, t)
        PROVE  TypeInv'
    BY <1>4, MatchBeginType, DecideConfirmType, DecideNegativeType
  <1>5. ASSUME NEW s \in Session, NEW t \in Return, ReturnBegin(s, t) PROVE TypeInv'
    BY <1>5, ReturnBeginType
  <1>6. ASSUME NEW s \in Session, NEW t \in Movement,
               NEW action \in {"IGNORED", "RESTORED"}, ClassifyBegin(s, t, action)
        PROVE  TypeInv'
    BY <1>6, ClassifyBeginType
  <1> QED
    BY <1>1, <1>2, <1>3, <1>4, <1>5, <1>6 DEF Next

(***************************************************************************)
(* Type correctness: in every reachable state of every account each row    *)
(* has its columns' types, no open amount is negative, and a session that  *)
(* holds work points at a movement and a ledger entry that exist.          *)
(***************************************************************************)
THEOREM TypeCorrect == Spec => []TypeOK
  <1>1. TypeInv => TypeOK
    BY DEF TypeInv
  <1> QED
    BY <1>1, InitType, NextType, PTL DEF Spec
-----------------------------------------------------------------------------
(* The safety invariants.  They are not inductive alone: what a session    *)
(* read under its movement's lock must still hold when it commits.         *)

Unbooked(t) == \A i \in 1 .. Len(ledger) : ledger[i].tx # t

\* The two ways to evidence, as a session carries them to its booking.
Reviewed(x) ==
    /\ run[x.tx] = x.run /\ x.run.decision = "NEEDS_REVIEW"
    /\ verdict[x.tx] = "NONE" /\ x.outcome = "CONFIRMED"

Automatic(x) ==
    /\ run[x.tx] = NoRun /\ x.run.decision = "AUTO_MATCH" /\ x.outcome = "NONE"

\* What a session relies on: its movement is its own, and as it read it.
Claim(s) ==
    LET x == txn[s]
    IN  /\ x.pc \in {"propose", "insert", "settle", "lock"} => txLock[x.tx] = s
        /\ x.pc \in {"propose", "insert"} => run[x.tx] = NoRun
        /\ x.pc = "settle" => Reviewed(x)
        /\ x.pc = "lock" /\ x.tx \in Payment =>
              /\ Reviewed(x) \/ Automatic(x)
              /\ \A r \in x.rows : Debt[r].renter = x.run.renter
        /\ x.pc = "lock" /\ x.tx \in Return => Unbooked(x.tx)

\* Only a stored run is decided.
DecidedRuns == \A t \in Payment : run[t] = NoRun => verdict[t] = "NONE"

Safe == BookedOnce /\ EvidenceBeforeMoney /\ ReversedOnce

SafeInv == TypeInv /\ Safe /\ DecidedRuns /\ \A s \in Session : Claim(s)

\* A step that leaves the store alone keeps the invariant when it keeps the
\* other sessions and their locks, and the session's own claim.
LEMMA ClaimKept ==
    ASSUME SafeInv, TypeInv', NEW s \in Session, UNCHANGED store, Claim(s)',
           \A y \in Session \ {s} : txn'[y] = txn[y],
           \A t \in Movement : txLock[t] \in Session \ {s} => txLock'[t] = txLock[t]
    PROVE  SafeInv'
  <1>1. Safe' /\ DecidedRuns'
    BY DEF SafeInv, Safe, DecidedRuns, store, BookedOnce, EvidenceBeforeMoney, Evidenced,
           ReversedOnce, Entries
  <1>2. ASSUME NEW y \in Session \ {s} PROVE Claim(y)'
    <2>1. Claim(y) /\ txn'[y] = txn[y]
      BY DEF SafeInv
    <2>2. txn[y].pc \in {"propose", "insert", "settle", "lock"} => txn[y].tx \in Movement
      BY SessionFacts DEF SafeInv, TransactionOK, Movement
    <2>3. txn[y].pc \in {"propose", "insert", "settle", "lock"} =>
             txLock'[txn[y].tx] = y
      BY <2>1, <2>2 DEF Claim
    <2> QED
      BY <2>1, <2>3 DEF Claim, store, Reviewed, Automatic, Unbooked
  <1> QED
    BY <1>1, <1>2 DEF SafeInv

\* An idle session, or one that classifies, claims nothing.
LEMMA NoClaim ==
    ASSUME NEW s \in Session, txn[s].pc \in {"idle", "classify"}
    PROVE  Claim(s)
  BY DEF Claim

LEMMA RollbackSafe ==
    ASSUME SafeInv, NEW s \in Session, Rollback(s)
    PROVE  SafeInv'
  <1>1. TypeInv'
    BY RollbackType DEF SafeInv
  <1>2. /\ txn' = [txn EXCEPT ![s] = Idle]
        /\ txLock' = [t \in Movement |-> IF txLock[t] = s THEN None ELSE txLock[t]]
        /\ UNCHANGED store
    BY DEF Rollback, EndTransaction
  <1>3. txn'[s].pc = "idle" /\ \A y \in Session \ {s} : txn'[y] = txn[y]
    BY <1>2 DEF SafeInv, TypeInv, Idle
  <1>4. Claim(s)'
    BY <1>3 DEF Claim
  <1>5. \A t \in Movement : txLock[t] \in Session \ {s} => txLock'[t] = txLock[t]
    BY <1>2
  <1> QED
    BY <1>1, <1>2, <1>3, <1>4, <1>5, ClaimKept

\* Taking a free movement disturbs no other session's lock.
LEMMA LockMovementKeeps ==
    ASSUME SafeInv, NEW s \in Session, NEW t \in Movement, LockMovement(s, t)
    PROVE  /\ txLock'[t] = s
           /\ \A u \in Movement : txLock[u] \in Session \ {s} => txLock'[u] = txLock[u]
  <1>1. txLock \in [Movement -> Session \cup {None}] /\ txLock[t] = None /\ None \notin Session
    BY SetsAssumption DEF LockMovement, SafeInv, TypeInv, TypeOK
  <1> QED
    BY <1>1 DEF LockMovement

LEMMA MatchBeginSafe ==
    ASSUME SafeInv, NEW s \in Session, NEW t \in Payment, MatchBegin(s, t)
    PROVE  SafeInv'
  <1>1. TypeInv' /\ t \in Movement
    BY MatchBeginType DEF SafeInv, Movement
  <1>2. LockMovement(s, t) /\ UNCHANGED store
    BY DEF MatchBegin
  <1>3. /\ txn'[s].pc = "propose" /\ txn'[s].tx = t
        /\ \A y \in Session \ {s} : txn'[y] = txn[y]
    BY DEF MatchBegin, SafeInv, TypeInv, Idle
  <1>4. run'[t] = NoRun
    BY DEF MatchBegin, store
  <1>5. Claim(s)'
    BY <1>1, <1>2, <1>3, <1>4, LockMovementKeeps DEF Claim
  <1> QED
    BY <1>1, <1>2, <1>3, <1>5, LockMovementKeeps, ClaimKept

LEMMA MatchProposeSafe ==
    ASSUME SafeInv, NEW s \in Session, MatchPropose(s)
    PROVE  SafeInv'
  <1>1. TypeInv'
    BY MatchProposeType DEF SafeInv
  <1>2. UNCHANGED <<store, locks>>
    BY DEF MatchPropose
  <1>3. /\ txn[s].pc = "propose" /\ txn'[s].pc = "insert" /\ txn'[s].tx = txn[s].tx
        /\ \A y \in Session \ {s} : txn'[y] = txn[y]
    BY SessionFacts DEF MatchPropose, SafeInv, TypeInv, Transaction
  <1>4. Claim(s)'
    BY <1>2, <1>3 DEF SafeInv, Claim, store, locks
  <1> QED
    BY <1>1, <1>2, <1>3, <1>4, ClaimKept DEF locks

\* Shortening the list of rows to lock changes no claim.
LEMMA TodoSafe ==
    ASSUME SafeInv, TypeInv', NEW s \in Session, UNCHANGED <<store, txLock>>,
           txn' = [txn EXCEPT ![s].todo = Tail(@)]
    PROVE  SafeInv'
  <1>1. /\ txn'[s].pc = txn[s].pc /\ txn'[s].tx = txn[s].tx /\ txn'[s].run = txn[s].run
        /\ txn'[s].rows = txn[s].rows /\ txn'[s].outcome = txn[s].outcome
        /\ \A y \in Session \ {s} : txn'[y] = txn[y]
    BY SessionFacts DEF SafeInv, TypeInv, Transaction
  <1>2. Claim(s)'
    BY <1>1 DEF SafeInv, Claim, store, Reviewed, Automatic, Unbooked
  <1> QED
    BY <1>1, <1>2, ClaimKept DEF store

LEMMA KeyShareNextSafe ==
    ASSUME SafeInv, NEW s \in Session, KeyShareNext(s)
    PROVE  SafeInv'
  <1>1. TypeInv'
    BY KeyShareNextType DEF SafeInv
  <1> QED
    BY <1>1, TodoSafe DEF KeyShareNext

LEMMA RowLockNextSafe ==
    ASSUME SafeInv, NEW s \in Session, RowLockNext(s)
    PROVE  SafeInv'
  <1>1. TypeInv'
    BY RowLockNextType DEF SafeInv
  <1> QED
    BY <1>1, TodoSafe DEF RowLockNext

LEMMA SelectDebtsSafe ==
    ASSUME SafeInv, NEW s \in Session, SelectDebts(s)
    PROVE  SafeInv'
  <1> DEFINE rows == {r \in OpenDebts : Debt[r].renter = txn[s].run.renter}
  <1>1. TypeInv'
    BY SelectDebtsType DEF SafeInv
  <1>2. PICK q : txn' = [txn EXCEPT ![s].pc = "lock", ![s].todo = q, ![s].rows = rows]
    BY DEF SelectDebts, SelectForUpdate
  <1>3. UNCHANGED <<store, locks>>
    BY DEF SelectDebts
  <1>4. /\ txn'[s].pc = "lock" /\ txn'[s].tx = txn[s].tx /\ txn'[s].run = txn[s].run
        /\ txn'[s].rows = rows /\ txn'[s].outcome = txn[s].outcome
        /\ \A y \in Session \ {s} : txn'[y] = txn[y]
    BY <1>2, SessionFacts DEF SafeInv, TypeInv, Transaction
  <1>5. txn[s].tx \in Payment /\ txn[s].tx \notin Return
    BY SessionFacts, SetsAssumption DEF SafeInv, SelectDebts, TransactionOK
  <1>6. Reviewed(txn[s]) \/ Automatic(txn[s])
    <2>1. CASE txn[s].pc = "insert" /\ txn[s].run.decision = "AUTO_MATCH"
      <3>1. txn[s].outcome = "NONE"
        BY <2>1, SessionFacts DEF SafeInv, TransactionOK
      <3> QED
        BY <2>1, <3>1 DEF SafeInv, Claim, Automatic
    <2>2. CASE txn[s].pc = "settle"
      BY <2>2 DEF SafeInv, Claim
    <2> QED
      BY <2>1, <2>2 DEF SelectDebts
  <1>7. \A r \in rows : Debt[r].renter = txn[s].run.renter
    OBVIOUS
  <1>8. txLock'[txn[s].tx] = s
    BY <1>3 DEF SafeInv, Claim, SelectDebts, locks
  <1> HIDE DEF rows
  <1>9. Claim(s)'
    BY <1>3, <1>4, <1>5, <1>6, <1>7, <1>8 DEF Claim, store, Reviewed, Automatic
  <1> QED
    BY <1>1, <1>3, <1>4, <1>9, ClaimKept DEF locks

LEMMA DecideConfirmSafe ==
    ASSUME SafeInv, NEW s \in Session, NEW t \in Payment, DecideConfirm(s, t)
    PROVE  SafeInv'
  <1>1. TypeInv' /\ t \in Movement
    BY DecideConfirmType DEF SafeInv, Movement
  <1>2. LockMovement(s, t) /\ UNCHANGED store
    BY DEF DecideConfirm
  <1>3. /\ txn'[s].pc = "settle" /\ txn'[s].tx = t /\ txn'[s].run = run[t]
        /\ txn'[s].outcome = "CONFIRMED"
        /\ \A y \in Session \ {s} : txn'[y] = txn[y]
    BY DEF DecideConfirm, SafeInv, TypeInv, Idle
  <1>4. run[t].decision = "NEEDS_REVIEW" /\ verdict[t] = "NONE"
    BY DEF DecideConfirm, Decidable
  <1>5. Claim(s)'
    BY <1>1, <1>2, <1>3, <1>4, LockMovementKeeps DEF Claim, Reviewed, store
  <1> QED
    BY <1>1, <1>2, <1>3, <1>5, LockMovementKeeps, ClaimKept

LEMMA ReturnBeginSafe ==
    ASSUME SafeInv, NEW s \in Session, NEW t \in Return, ReturnBegin(s, t)
    PROVE  SafeInv'
  <1>1. TypeInv' /\ t \in Movement /\ t \notin Payment
    BY ReturnBeginType, SetsAssumption DEF SafeInv, Movement
  <1>2. LockMovement(s, t) /\ UNCHANGED store
    BY DEF ReturnBegin
  <1>3. /\ txn'[s].pc = "lock" /\ txn'[s].tx = t
        /\ \A y \in Session \ {s} : txn'[y] = txn[y]
    BY DEF ReturnBegin, SafeInv, TypeInv, Idle
  <1>4. Unbooked(t)
    <2> SUFFICES ASSUME NEW i \in 1 .. Len(ledger), ledger[i].tx = t PROVE FALSE
      BY DEF Unbooked
    <2>1. ledger[i].kind = "REVERSAL"
      BY <1>1 DEF SafeInv, TypeInv, TypeOK, EntryOK, Kinds
    <2> QED
      BY <2>1 DEF ReturnBegin, Entries
  <1>5. Claim(s)'
    BY <1>1, <1>2, <1>3, <1>4, LockMovementKeeps DEF Claim, Unbooked, store
  <1> QED
    BY <1>1, <1>2, <1>3, <1>5, LockMovementKeeps, ClaimKept

LEMMA ClassifyBeginSafe ==
    ASSUME SafeInv, NEW s \in Session, NEW t \in Movement,
           NEW action \in {"IGNORED", "RESTORED"}, ClassifyBegin(s, t, action)
    PROVE  SafeInv'
  <1>1. TypeInv'
    BY ClassifyBeginType DEF SafeInv
  <1>2. UNCHANGED <<store, locks>>
    BY DEF ClassifyBegin
  <1>3. txn'[s].pc = "classify" /\ \A y \in Session \ {s} : txn'[y] = txn[y]
    BY DEF ClassifyBegin, SafeInv, TypeInv, Idle
  <1>4. Claim(s)'
    BY <1>3 DEF Claim
  <1> QED
    BY <1>1, <1>2, <1>3, <1>4, ClaimKept DEF locks

\* A commit that changes the store for the session's own movement only, under
\* its lock, keeps every claim.
LEMMA CommitKeepsClaims ==
    ASSUME SafeInv, NEW s \in Session, EndTransaction(s),
           NEW t \in Movement, txLock[t] = s,
           \A u \in Payment \ {t} : run'[u] = run[u] /\ verdict'[u] = verdict[u],
           \A u \in Movement \ {t} :
              Unbooked(u) => \A i \in 1 .. Len(ledger') : ledger'[i].tx # u
    PROVE  \A y \in Session : Claim(y)'
  <1>1. /\ txn' = [txn EXCEPT ![s] = Idle]
        /\ txLock' = [u \in Movement |-> IF txLock[u] = s THEN None ELSE txLock[u]]
    BY DEF EndTransaction
  <1>2. Claim(s)'
    <2>1. txn'[s].pc = "idle"
      BY <1>1 DEF SafeInv, TypeInv, Idle
    <2> QED
      BY <2>1 DEF Claim
  <1>3. ASSUME NEW y \in Session \ {s} PROVE Claim(y)'
    <2>1. Claim(y) /\ txn'[y] = txn[y]
      BY <1>1 DEF SafeInv, TypeInv
    <2>2. CASE txn[y].pc \in {"propose", "insert", "settle", "lock"}
      <3>1. txn[y].tx \in Movement /\ txLock[txn[y].tx] = y
        BY <2>1, <2>2, SessionFacts DEF SafeInv, TransactionOK, Movement, Claim
      <3>2. txn[y].tx # t /\ txLock'[txn[y].tx] = y
        BY <1>1, <3>1
      <3>3. txn[y].tx \in Payment => run'[txn[y].tx] = run[txn[y].tx]
                                     /\ verdict'[txn[y].tx] = verdict[txn[y].tx]
        BY <3>2
      <3>4. Unbooked(txn[y].tx) => \A i \in 1 .. Len(ledger') : ledger'[i].tx # txn[y].tx
        BY <3>1, <3>2
      <3>5. txn[y].pc \in {"propose", "insert", "settle"} => txn[y].tx \in Payment
        BY SessionFacts DEF SafeInv, TransactionOK
      <3> QED
        BY <2>1, <3>2, <3>3, <3>4, <3>5 DEF Claim, Reviewed, Automatic, Unbooked
    <2>3. CASE txn[y].pc \notin {"propose", "insert", "settle", "lock"}
      BY <2>1, <2>3 DEF Claim
    <2> QED
      BY <2>2, <2>3
  <1> QED
    BY <1>2, <1>3

LEMMA CommitRunSafe ==
    ASSUME SafeInv, NEW s \in Session, CommitRun(s)
    PROVE  SafeInv'
  <1>1. TypeInv'
    BY CommitRunType DEF SafeInv
  <1> PICK t \in Payment : t = txn[s].tx
    BY SessionFacts DEF SafeInv, CommitRun, TransactionOK
  <1>2. /\ t \in Movement /\ txLock[t] = s /\ run[t] = NoRun
        /\ verdict[t] = "NONE"
    BY SessionFacts DEF SafeInv, CommitRun, TransactionOK, Claim, DecidedRuns, Movement
  <1>3. /\ run' = [run EXCEPT ![t] = txn[s].run] /\ txn[s].run.decision # "AUTO_MATCH"
        /\ UNCHANGED <<rcv, verdict, iban, ledger, label>> /\ EndTransaction(s)
    BY DEF CommitRun
  <1>4. \A u \in Payment : run'[u] = IF u = t THEN txn[s].run ELSE run[u]
    BY <1>3 DEF SafeInv, TypeInv, TypeOK
  <1>5. \A y \in Session : Claim(y)'
    BY <1>2, <1>3, <1>4, CommitKeepsClaims DEF Unbooked
  <1>6. ~ Evidenced(t) /\ ~ Evidenced(t)' /\ \A u \in Payment \ {t} : Evidenced(u) <=> Evidenced(u)'
    BY <1>2, <1>3, <1>4 DEF Evidenced, NoRun
  <1>7. EvidenceBeforeMoney'
    <2>1. \A u \in Payment : Evidenced(u)' <=> \E i \in 1 .. Len(ledger) : ledger[i].tx = u
      BY <1>6 DEF SafeInv, Safe, EvidenceBeforeMoney
    <2>2. ASSUME NEW i \in Entries("PAYMENT")
          PROVE  ledger[i].tx \in Payment /\ ledger[i].tx # t
      <3>1. i \in 1 .. Len(ledger) /\ ledger[i].tx \in Payment
        BY DEF Entries, SafeInv, TypeInv, TypeOK, EntryOK
      <3> QED
        BY <1>2, <1>6, <3>1 DEF SafeInv, Safe, EvidenceBeforeMoney
    <2>3. \A i \in Entries("PAYMENT") : \A r \in DOMAIN ledger[i].parts :
             Debt[r].renter = run'[ledger[i].tx].renter
      BY <1>4, <2>2 DEF SafeInv, Safe, EvidenceBeforeMoney
    <2> QED
      BY <1>3, <2>1, <2>3 DEF EvidenceBeforeMoney, Evidenced, Entries
  <1>8. DecidedRuns'
    BY <1>2, <1>3, <1>4 DEF SafeInv, DecidedRuns
  <1>9. BookedOnce' /\ ReversedOnce'
    BY <1>3 DEF SafeInv, Safe, BookedOnce, ReversedOnce, Entries
  <1> QED
    BY <1>1, <1>5, <1>7, <1>8, <1>9 DEF SafeInv, Safe

LEMMA DecideNegativeSafe ==
    ASSUME SafeInv, NEW s \in Session, NEW t \in Payment, DecideNegative(s, t)
    PROVE  SafeInv'
  <1>1. TypeInv' /\ t \in Movement
    BY DecideNegativeType DEF SafeInv, Movement
  <1>2. PICK outcome \in {"REJECTED", "DUPLICATE"} : verdict' = [verdict EXCEPT ![t] = outcome]
    BY DEF DecideNegative
  <1>3. /\ UNCHANGED <<rcv, run, iban, ledger, label, txn, txLock>>
        /\ run[t].decision = "NEEDS_REVIEW" /\ verdict[t] = "NONE" /\ txLock[t] = None
    BY DEF DecideNegative, Decidable, locks
  <1>4. \A u \in Payment : verdict'[u] = IF u = t THEN outcome ELSE verdict[u]
    BY <1>2 DEF SafeInv, TypeInv, TypeOK
  <1>5. ASSUME NEW y \in Session PROVE Claim(y)'
    <2>1. Claim(y) /\ y # None
      BY SetsAssumption DEF SafeInv
    <2>2. txn[y].pc \in {"propose", "insert", "settle"} => txn[y].tx \in Payment
      BY SessionFacts DEF SafeInv, TransactionOK
    <2>3. txn[y].pc \in {"propose", "insert", "settle", "lock"} => txn[y].tx # t
      BY <1>3, <2>1 DEF Claim
    <2> QED
      BY <1>3, <1>4, <2>1, <2>2, <2>3 DEF Claim, Reviewed, Automatic, Unbooked
  <1>6. \A u \in Payment : Evidenced(u) <=> Evidenced(u)'
    BY <1>3, <1>4 DEF Evidenced
  <1>7. Safe'
    BY <1>3, <1>6 DEF SafeInv, Safe, BookedOnce, EvidenceBeforeMoney, ReversedOnce, Entries
  <1>8. DecidedRuns'
    BY <1>3, <1>4 DEF SafeInv, DecidedRuns, NoRun
  <1> QED
    BY <1>1, <1>5, <1>7, <1>8 DEF SafeInv

LEMMA CommitLabelSafe ==
    ASSUME SafeInv, NEW s \in Session, CommitLabel(s)
    PROVE  SafeInv'
  <1>1. TypeInv'
    BY CommitLabelType DEF SafeInv
  <1>2. UNCHANGED <<rcv, run, verdict, iban, ledger>> /\ EndTransaction(s)
    BY DEF CommitLabel
  <1>3. /\ \A y \in Session \ {s} : txn'[y] = txn[y]
        /\ txn'[s].pc = "idle"
        /\ \A u \in Movement : txLock[u] \in Session \ {s} => txLock'[u] = txLock[u]
    BY <1>2 DEF EndTransaction, SafeInv, TypeInv, Idle
  <1>4. ASSUME NEW y \in Session PROVE Claim(y)'
    <2>1. CASE y = s
      BY <1>3, <2>1 DEF Claim
    <2>2. CASE y # s
      <3>1. Claim(y) /\ txn'[y] = txn[y]
        BY <1>3, <2>2 DEF SafeInv
      <3>2. txn[y].pc \in {"propose", "insert", "settle", "lock"} => txn[y].tx \in Movement
        BY SessionFacts DEF SafeInv, TransactionOK, Movement
      <3>3. txn[y].pc \in {"propose", "insert", "settle", "lock"} => txLock'[txn[y].tx] = y
        BY <1>3, <2>2, <3>1, <3>2 DEF Claim
      <3> QED
        BY <1>2, <3>1, <3>3 DEF Claim, Reviewed, Automatic, Unbooked
    <2> QED
      BY <2>1, <2>2
  <1>5. Safe' /\ DecidedRuns'
    BY <1>2 DEF SafeInv, Safe, DecidedRuns, BookedOnce, EvidenceBeforeMoney, Evidenced,
                ReversedOnce, Entries
  <1> QED
    BY <1>1, <1>4, <1>5 DEF SafeInv

\* The movement of a new entry is new to the ledger: no second booking.
LEMMA AppendBookedOnce ==
    ASSUME SafeInv, NEW e \in Entry, EntryOK(e, Len(ledger)), Unbooked(e.tx),
           ledger' = Append(ledger, e)
    PROVE  BookedOnce'
  <1>1. /\ Len(ledger) \in Nat /\ Len(ledger') = Len(ledger) + 1
        /\ \A i \in 1 .. Len(ledger) : ledger'[i] = ledger[i]
        /\ ledger'[Len(ledger')] = e
    BY LedgerGrows DEF SafeInv
  <1> SUFFICES ASSUME NEW i \in 1 .. Len(ledger'), NEW j \in 1 .. Len(ledger'),
                      ledger'[i].tx = ledger'[j].tx
               PROVE  i = j
    BY DEF BookedOnce
  <1>2. CASE i \in 1 .. Len(ledger) /\ j \in 1 .. Len(ledger)
    BY <1>1, <1>2 DEF SafeInv, Safe, BookedOnce
  <1>3. CASE i = Len(ledger') /\ j \in 1 .. Len(ledger)
    BY <1>1, <1>3 DEF Unbooked
  <1>4. CASE i \in 1 .. Len(ledger) /\ j = Len(ledger')
    BY <1>1, <1>4 DEF Unbooked
  <1>5. CASE i = Len(ledger') /\ j = Len(ledger')
    BY <1>5
  <1> QED
    BY <1>1, <1>2, <1>3, <1>4, <1>5

LEMMA BookSafe ==
    ASSUME SafeInv, NEW s \in Session, Book(s)
    PROVE  SafeInv'
  <1>1. TypeInv' /\ TypeInv
    BY BookType DEF SafeInv
  <1> PICK t \in Payment : t = txn[s].tx
    BY DEF Book
  <1> PICK x \in Transaction : x = txn[s]
    BY SessionFacts DEF SafeInv
  <1>2. PICK b \in Bookings(s) : ledger' = Append(ledger, PaymentEntry(t, b))
    BY DEF Book
  <1> PICK e \in Entry : e = PaymentEntry(t, b) /\ EntryOK(e, Len(ledger))
    BY <1>1, PaymentEntryType
  <1>3. /\ run' = [run EXCEPT ![t] = x.run] /\ verdict' = [verdict EXCEPT ![t] = x.outcome]
        /\ EndTransaction(s) /\ x.pc = "lock"
    BY DEF Book
  <1>4. /\ \A u \in Payment : run'[u] = IF u = t THEN x.run ELSE run[u]
        /\ \A u \in Payment : verdict'[u] = IF u = t THEN x.outcome ELSE verdict[u]
    BY <1>1, <1>3 DEF TypeInv, TypeOK
  <1>5. /\ txLock[t] = s /\ t \in Movement
        /\ \/ run[t] = x.run /\ x.run.decision = "NEEDS_REVIEW" /\ verdict[t] = "NONE"
              /\ x.outcome = "CONFIRMED"
           \/ run[t] = NoRun /\ x.run.decision = "AUTO_MATCH" /\ x.outcome = "NONE"
        /\ \A r \in x.rows : Debt[r].renter = x.run.renter
    BY <1>3 DEF SafeInv, Claim, Reviewed, Automatic, Movement
  <1>6. ~ Evidenced(t) /\ Unbooked(t)
    BY <1>5 DEF Evidenced, NoRun, SafeInv, Safe, EvidenceBeforeMoney, Unbooked
  <1>7. /\ Len(ledger) \in Nat /\ Len(ledger') = Len(ledger) + 1
        /\ \A i \in 1 .. Len(ledger) : ledger'[i] = ledger[i]
        /\ ledger'[Len(ledger')] = e
    BY <1>1, <1>2, LedgerGrows
  <1>8. e.kind = "PAYMENT" /\ e.tx = t /\ e.parts = b.parts
    BY DEF PaymentEntry
  <1>9. \A r \in DOMAIN e.parts : Debt[r].renter = x.run.renter
    BY <1>1, <1>5, <1>8, BookingFacts
  <1>10. \A y \in Session : Claim(y)'
    <2>1. \A u \in Movement \ {t} :
             Unbooked(u) => \A i \in 1 .. Len(ledger') : ledger'[i].tx # u
      BY <1>7, <1>8 DEF Unbooked
    <2> QED
      BY <1>3, <1>4, <1>5, <2>1, CommitKeepsClaims
  <1>11. BookedOnce'
    BY <1>2, <1>6, <1>8, AppendBookedOnce
  <1>12. EvidenceBeforeMoney'
    <2>1. Evidenced(t)' /\ \A u \in Payment \ {t} : Evidenced(u)' <=> Evidenced(u)
      BY <1>4, <1>5 DEF Evidenced
    <2>2. \A u \in Payment \ {t} :
             (\E i \in 1 .. Len(ledger) : ledger[i].tx = u)
               <=> (\E i \in 1 .. Len(ledger') : ledger'[i].tx = u)
      BY <1>7, <1>8
    <2>3. \E i \in 1 .. Len(ledger') : ledger'[i].tx = t
      BY <1>7, <1>8
    <2>4. \A u \in Payment : Evidenced(u)' <=> \E i \in 1 .. Len(ledger') : ledger'[i].tx = u
      BY <2>1, <2>2, <2>3 DEF SafeInv, Safe, EvidenceBeforeMoney
    <2>5. ASSUME NEW i \in 1 .. Len(ledger'), ledger'[i].kind = "PAYMENT",
                 NEW r \in DOMAIN ledger'[i].parts
          PROVE  Debt[r].renter = run'[ledger'[i].tx].renter
      <3>1. CASE i = Len(ledger')
        BY <1>4, <1>7, <1>8, <1>9, <3>1
      <3>2. CASE i \in 1 .. Len(ledger)
        <4>1. ledger'[i] = ledger[i] /\ i \in Entries("PAYMENT")
          BY <1>7, <2>5, <3>2 DEF Entries
        <4>2. ledger[i].tx \in Payment /\ ledger[i].tx # t
          BY <1>6, <3>2, <4>1 DEF Entries, SafeInv, TypeInv, TypeOK, EntryOK, Unbooked
        <4> QED
          BY <1>4, <2>5, <4>1, <4>2 DEF SafeInv, Safe, EvidenceBeforeMoney
      <3> QED
        BY <1>7, <3>1, <3>2
    <2> QED
      BY <2>4, <2>5 DEF EvidenceBeforeMoney, Entries
  <1>13. ReversedOnce'
    BY <1>7, <1>8 DEF SafeInv, Safe, ReversedOnce, Entries
  <1>14. DecidedRuns'
    BY <1>4, <1>5 DEF SafeInv, DecidedRuns, NoRun
  <1> QED
    BY <1>1, <1>10, <1>11, <1>12, <1>13, <1>14 DEF SafeInv, Safe

LEMMA BookReturnSafe ==
    ASSUME SafeInv, NEW s \in Session, BookReturn(s)
    PROVE  SafeInv'
  <1>1. TypeInv' /\ TypeInv
    BY BookReturnType DEF SafeInv
  <1> PICK t \in Return : t = txn[s].tx
    BY DEF BookReturn
  <1> PICK k \in Nat : k = txn[s].original
    BY SessionFacts DEF SafeInv, Transaction
  <1>2. ledger' = Append(ledger, ReversalEntry(t, k)) /\ ~ Reversed(k)
    BY DEF BookReturn, ReversalUnique
  <1>3. UNCHANGED <<run, verdict>> /\ EndTransaction(s) /\ txn[s].pc = "lock"
    BY DEF BookReturn
  <1>4. txLock[t] = s /\ t \in Movement /\ Unbooked(t)
    BY <1>3 DEF SafeInv, Claim, Movement
  <1>5. /\ Len(ledger) \in Nat /\ Len(ledger') = Len(ledger) + 1
        /\ \A i \in 1 .. Len(ledger) : ledger'[i] = ledger[i]
        /\ ledger'[Len(ledger')] = ReversalEntry(t, k)
    BY <1>1, <1>2, LenProperties, AppendProperties DEF TypeInv, ReversalEntry
  <1>6. /\ ReversalEntry(t, k).kind = "REVERSAL" /\ ReversalEntry(t, k).tx = t
        /\ ReversalEntry(t, k).reverses = k
    BY DEF ReversalEntry
  <1>7. \A y \in Session : Claim(y)'
    <2>1. \A u \in Movement \ {t} :
             Unbooked(u) => \A i \in 1 .. Len(ledger') : ledger'[i].tx # u
      BY <1>5, <1>6 DEF Unbooked
    <2> QED
      BY <1>3, <1>4, <2>1, CommitKeepsClaims
  <1>8. BookedOnce'
    BY <1>4, <1>5, <1>6 DEF SafeInv, Safe, BookedOnce, Unbooked
  <1>9. EvidenceBeforeMoney'
    <2>1. t \notin Payment
      BY SetsAssumption
    <2>2. \A u \in Payment :
             (\E i \in 1 .. Len(ledger) : ledger[i].tx = u)
               <=> (\E i \in 1 .. Len(ledger') : ledger'[i].tx = u)
      BY <1>5, <1>6, <2>1
    <2>3. \A i \in 1 .. Len(ledger') : ledger'[i].kind = "PAYMENT" =>
             i \in Entries("PAYMENT") /\ ledger'[i] = ledger[i]
      BY <1>5, <1>6 DEF Entries
    <2> QED
      BY <1>3, <2>2, <2>3 DEF SafeInv, Safe, EvidenceBeforeMoney, Evidenced, Entries
  <1>10. ReversedOnce'
    <2> SUFFICES ASSUME NEW i \in 1 .. Len(ledger'), NEW j \in 1 .. Len(ledger'),
                        ledger'[i].kind = "REVERSAL", ledger'[j].kind = "REVERSAL",
                        ledger'[i].reverses = ledger'[j].reverses
                 PROVE  i = j
      BY DEF ReversedOnce, Entries
    <2>1. \A m \in 1 .. Len(ledger) : ledger[m].kind = "REVERSAL" => ledger[m].reverses # k
      BY <1>2 DEF Reversed, Entries
    <2>2. CASE i \in 1 .. Len(ledger) /\ j \in 1 .. Len(ledger)
      BY <1>5, <2>2 DEF SafeInv, Safe, ReversedOnce, Entries
    <2>3. CASE i = Len(ledger') /\ j \in 1 .. Len(ledger)
      BY <1>5, <1>6, <2>1, <2>3
    <2>4. CASE i \in 1 .. Len(ledger) /\ j = Len(ledger')
      BY <1>5, <1>6, <2>1, <2>4
    <2> QED
      BY <1>5, <2>2, <2>3, <2>4
  <1>11. DecidedRuns'
    BY <1>3 DEF SafeInv, DecidedRuns
  <1> QED
    BY <1>1, <1>7, <1>8, <1>9, <1>10, <1>11 DEF SafeInv, Safe
-----------------------------------------------------------------------------
LEMMA InitSafe == Init => SafeInv
  <1> SUFFICES ASSUME Init PROVE SafeInv
    OBVIOUS
  <1>1. TypeInv
    BY InitType
  <1>2. ledger = <<>> /\ Len(ledger) = 0
    BY EmptySeq DEF Init
  <1>3. Safe
    BY <1>2 DEF Init, Safe, BookedOnce, EvidenceBeforeMoney, ReversedOnce, Entries, Evidenced,
                NoRun
  <1>4. DecidedRuns /\ \A s \in Session : Claim(s)
    BY DEF Init, DecidedRuns, Claim, Idle
  <1> QED
    BY <1>1, <1>3, <1>4 DEF SafeInv

LEMMA NextSafe == SafeInv /\ [Next]_vars => SafeInv'
  <1> SUFFICES ASSUME SafeInv, [Next]_vars PROVE SafeInv'
    OBVIOUS
  <1>1. CASE UNCHANGED vars
    <2>1. TypeInv'
      BY <1>1, NextType DEF SafeInv
    <2> QED
      BY <1>1, <2>1 DEF vars, SafeInv, Safe, DecidedRuns, Claim, Reviewed, Automatic, Unbooked,
                        BookedOnce, EvidenceBeforeMoney, Evidenced, ReversedOnce, Entries
  <1>2. ASSUME NEW s \in Session, Step(s) PROVE SafeInv'
    BY <1>2, MatchProposeSafe, KeyShareNextSafe, CommitRunSafe, SelectDebtsSafe,
       RowLockNextSafe, BookSafe, BookReturnSafe, CommitLabelSafe, RollbackSafe
       DEF Step, BookRefused, BookReturnRefused, DeadlockVictim
  <1>3. ASSUME NEW s \in Session, Abort(s) PROVE SafeInv'
    BY <1>3, RollbackSafe DEF Abort
  <1>4. ASSUME NEW s \in Session, NEW t \in Payment,
               MatchBegin(s, t) \/ DecideConfirm(s, t) \/ DecideNegative(s, t)
        PROVE  SafeInv'
    BY <1>4, MatchBeginSafe, DecideConfirmSafe, DecideNegativeSafe
  <1>5. ASSUME NEW s \in Session, NEW t \in Return, ReturnBegin(s, t) PROVE SafeInv'
    BY <1>5, ReturnBeginSafe
  <1>6. ASSUME NEW s \in Session, NEW t \in Movement,
               NEW action \in {"IGNORED", "RESTORED"}, ClassifyBegin(s, t, action)
        PROVE  SafeInv'
    BY <1>6, ClassifyBeginSafe
  <1> QED
    BY <1>1, <1>2, <1>3, <1>4, <1>5, <1>6 DEF Next

(***************************************************************************)
(* No movement is booked twice, however many requests race for it: the     *)
(* FOR UPDATE lock on the bank_transaction row keeps what run_match() and  *)
(* decide_match() read about it true until they commit.                    *)
(***************************************************************************)
THEOREM NeverBookedTwice == Spec => []BookedOnce
  <1>1. SafeInv => BookedOnce
    BY DEF SafeInv, Safe
  <1> QED
    BY <1>1, InitSafe, NextSafe, PTL DEF Spec

(***************************************************************************)
(* Money moves if and only if there is an automatic match or a confirmed   *)
(* review, and only on debts of the renter that evidence names.            *)
(***************************************************************************)
THEOREM MoneyNeedsEvidence == Spec => []EvidenceBeforeMoney
  <1>1. SafeInv => EvidenceBeforeMoney
    BY DEF SafeInv, Safe
  <1> QED
    BY <1>1, InitSafe, NextSafe, PTL DEF Spec

(***************************************************************************)
(* A payment is reversed at most once, also when the debts have come back  *)
(* to the state it left before a second return of it commits.              *)
(***************************************************************************)
THEOREM NeverReversedTwice == Spec => []ReversedOnce
  <1>1. SafeInv => ReversedOnce
    BY DEF SafeInv, Safe
  <1> QED
    BY <1>1, InitSafe, NextSafe, PTL DEF Spec
-----------------------------------------------------------------------------
(* What a step may change of the store.                                    *)

\* The steps that do not commit a run, a decision or an entry.
LEMMA StoreSteps ==
    ASSUME [Next]_vars
    PROVE  \/ UNCHANGED <<run, verdict, iban, ledger>>
           \/ \E s \in Session : CommitRun(s) \/ Book(s) \/ BookReturn(s)
           \/ \E s \in Session, t \in Payment : DecideNegative(s, t)
  <1>1. CASE UNCHANGED vars
    BY <1>1 DEF vars
  <1>2. ASSUME NEW s \in Session, Rollback(s)
        PROVE  UNCHANGED <<run, verdict, iban, ledger>>
    BY <1>2 DEF Rollback, store
  <1>3. ASSUME NEW s \in Session, Step(s)
        PROVE  \/ UNCHANGED <<run, verdict, iban, ledger>>
               \/ CommitRun(s) \/ Book(s) \/ BookReturn(s)
    BY <1>2, <1>3 DEF Step, MatchPropose, KeyShareNext, SelectDebts, RowLockNext, BookRefused,
                      BookReturnRefused, CommitLabel, DeadlockVictim, store
  <1>4. ASSUME NEW s \in Session, NEW t \in Payment, MatchBegin(s, t) \/ DecideConfirm(s, t)
        PROVE  UNCHANGED <<run, verdict, iban, ledger>>
    BY <1>4 DEF MatchBegin, DecideConfirm, store
  <1>5. ASSUME NEW s \in Session, NEW t \in Return, ReturnBegin(s, t)
        PROVE  UNCHANGED <<run, verdict, iban, ledger>>
    BY <1>5 DEF ReturnBegin, store
  <1>6. ASSUME NEW s \in Session, NEW t \in Movement, NEW action, ClassifyBegin(s, t, action)
        PROVE  UNCHANGED <<run, verdict, iban, ledger>>
    BY <1>6 DEF ClassifyBegin, store
  <1> QED
    BY <1>1, <1>2, <1>3, <1>4, <1>5, <1>6 DEF Next, Abort

\* A run that is committed is the first of its movement, and is not decided.
LEMMA CommitRunFacts ==
    ASSUME SafeInv, NEW s \in Session, CommitRun(s)
    PROVE  /\ txn[s].tx \in Payment /\ run[txn[s].tx] = NoRun /\ verdict[txn[s].tx] = "NONE"
           /\ txn[s].run \in Runs /\ txn[s].run.decision # "AUTO_MATCH"
           /\ Unbooked(txn[s].tx)
           /\ run' = [run EXCEPT ![txn[s].tx] = txn[s].run]
           /\ UNCHANGED <<verdict, iban, ledger>>
  <1>1. txn[s].tx \in Payment /\ txn[s].run \in Runs
    BY SessionFacts DEF SafeInv, CommitRun, TransactionOK
  <1>2. run[txn[s].tx] = NoRun /\ verdict[txn[s].tx] = "NONE"
    BY <1>1 DEF SafeInv, Claim, CommitRun, DecidedRuns
  <1>3. Unbooked(txn[s].tx)
    BY <1>1, <1>2 DEF SafeInv, Safe, EvidenceBeforeMoney, Evidenced, Unbooked, NoRun
  <1> QED
    BY <1>1, <1>2, <1>3 DEF CommitRun

\* A booking follows an automatic match that it commits too, or a review that
\* it confirms.
LEMMA BookFacts ==
    ASSUME SafeInv, NEW s \in Session, Book(s)
    PROVE  /\ txn[s].tx \in Payment /\ Unbooked(txn[s].tx) /\ verdict[txn[s].tx] = "NONE"
           /\ \/ /\ run[txn[s].tx] = txn[s].run /\ txn[s].run.decision = "NEEDS_REVIEW"
                 /\ txn[s].outcome = "CONFIRMED"
              \/ /\ run[txn[s].tx] = NoRun /\ txn[s].run.decision = "AUTO_MATCH"
                 /\ txn[s].outcome = "NONE"
           /\ run' = [run EXCEPT ![txn[s].tx] = txn[s].run]
           /\ verdict' = [verdict EXCEPT ![txn[s].tx] = txn[s].outcome]
           /\ iban' = iban \cup Learned(s)
           /\ \E e \in Entry : /\ ledger' = Append(ledger, e)
                               /\ e.kind = "PAYMENT" /\ e.tx = txn[s].tx
  <1>1. txn[s].tx \in Payment /\ TypeInv
    BY DEF Book, SafeInv
  <1>2. Reviewed(txn[s]) \/ Automatic(txn[s])
    BY <1>1 DEF Book, SafeInv, Claim
  <1>3. verdict[txn[s].tx] = "NONE" /\ ~ Evidenced(txn[s].tx)
    BY <1>1, <1>2 DEF Reviewed, Automatic, SafeInv, DecidedRuns, Evidenced, NoRun
  <1>4. Unbooked(txn[s].tx)
    BY <1>1, <1>3 DEF SafeInv, Safe, EvidenceBeforeMoney, Unbooked
  <1>5. PICK b \in Bookings(s) : ledger' = Append(ledger, PaymentEntry(txn[s].tx, b))
    BY DEF Book
  <1>6. PICK e \in Entry : e = PaymentEntry(txn[s].tx, b)
    BY <1>1, PaymentEntryType DEF Book
  <1>7. e.kind = "PAYMENT" /\ e.tx = txn[s].tx
    BY <1>6 DEF PaymentEntry
  <1> QED
    BY <1>1, <1>2, <1>3, <1>4, <1>5, <1>6, <1>7 DEF Book, Reviewed, Automatic

\* A confirmed run stays as it was confirmed.
LEMMA ConfirmedKept ==
    ASSUME SafeInv, [Next]_vars, NEW t \in Payment, verdict[t] = "CONFIRMED"
    PROVE  verdict'[t] = "CONFIRMED" /\ run'[t] = run[t]
  <1>1. CASE UNCHANGED <<run, verdict, iban, ledger>>
    BY <1>1
  <1>2. ASSUME NEW s \in Session, CommitRun(s) PROVE verdict'[t] = verdict[t] /\ run'[t] = run[t]
    BY <1>2, CommitRunFacts DEF SafeInv, TypeInv, TypeOK
  <1>3. ASSUME NEW s \in Session, Book(s) PROVE verdict'[t] = verdict[t] /\ run'[t] = run[t]
    BY <1>3, BookFacts DEF SafeInv, TypeInv, TypeOK
  <1>4. ASSUME NEW s \in Session, BookReturn(s) PROVE UNCHANGED <<run, verdict>>
    BY <1>4 DEF BookReturn
  <1>5. ASSUME NEW s \in Session, NEW u \in Payment, DecideNegative(s, u)
        PROVE  verdict'[t] = verdict[t] /\ run'[t] = run[t]
    BY <1>5 DEF DecideNegative, Decidable, SafeInv, TypeInv, TypeOK
  <1> QED
    BY <1>1, <1>2, <1>3, <1>4, <1>5, StoreSteps

(***************************************************************************)
(* An IBAN becomes a renter's only by a confirmation for that renter on a  *)
(* movement from that IBAN, and that confirmation is never taken back.     *)
(***************************************************************************)
THEOREM LearnedOnlyByConfirmation == Spec => []LearnedByConfirmation
  <1>1. Init => LearnedByConfirmation
    BY DEF Init, LearnedByConfirmation
  <1>2. SafeInv /\ LearnedByConfirmation /\ [Next]_vars => LearnedByConfirmation'
    <2> SUFFICES ASSUME SafeInv, LearnedByConfirmation, [Next]_vars, NEW p \in iban' \ KnownIban
                 PROVE  \E t \in Payment : /\ verdict'[t] = "CONFIRMED"
                                          /\ run'[t].renter = p[1] /\ Tx[t].iban = p[2]
      BY DEF LearnedByConfirmation
    <2>1. CASE p \in iban
      BY <2>1, ConfirmedKept DEF LearnedByConfirmation
    <2>2. CASE p \notin iban
      <3>1. \A s \in Session : CommitRun(s) => iban' = iban
        BY DEF CommitRun
      <3>2. \A s \in Session : BookReturn(s) => iban' = iban
        BY DEF BookReturn
      <3>3. \A s \in Session, t \in Payment : DecideNegative(s, t) => iban' = iban
        BY DEF DecideNegative
      <3>4. PICK s \in Session : Book(s)
        BY <2>2, <3>1, <3>2, <3>3, StoreSteps
      <3>5. p \in Learned(s)
        BY <2>2, <3>4 DEF Book
      <3>6. txn[s].outcome = "CONFIRMED" /\ p = <<txn[s].run.renter, Tx[txn[s].tx].iban>>
        BY <3>5 DEF Learned
      <3>7. /\ txn[s].tx \in Payment /\ verdict'[txn[s].tx] = "CONFIRMED"
            /\ run'[txn[s].tx] = txn[s].run
        BY <3>4, <3>6, BookFacts DEF SafeInv, TypeInv, TypeOK
      <3> QED
        BY <3>6, <3>7
    <2> QED
      BY <2>1, <2>2
  <1> QED
    BY <1>1, <1>2, InitSafe, NextSafe, PTL DEF Spec
-----------------------------------------------------------------------------
(* The life of a payment: sessions implement PaymentLifecycle.             *)

\* A return points at a payment, in the ledger and in the session about to
\* book it.
ReturnInv ==
    /\ \A j \in Entries("REVERSAL") : ledger[j].reverses \in Entries("PAYMENT")
    /\ \A s \in Session : txn[s].pc = "lock" /\ txn[s].tx \in Return =>
          txn[s].original \in Entries("PAYMENT")

LifeInv == SafeInv /\ ReturnInv

\* Entries are appended, never changed.
LEMMA LedgerAppends ==
    ASSUME TypeInv, NEW e, ledger' = Append(ledger, e)
    PROVE  /\ Len(ledger) \in Nat /\ Len(ledger') = Len(ledger) + 1
           /\ \A i \in 1 .. Len(ledger) : ledger'[i] = ledger[i]
           /\ ledger'[Len(ledger) + 1] = e
  BY LenProperties DEF TypeInv

\* A step after which a session that returns is the same as before, or new and
\* pointing at a payment.
LEMMA ReturnKept ==
    ASSUME LifeInv, UNCHANGED ledger, NEW s \in Session,
           \A y \in Session \ {s} : txn'[y] = txn[y],
           txn'[s].pc = "lock" /\ txn'[s].tx \in Return =>
               txn'[s].original \in Entries("PAYMENT")
    PROVE  ReturnInv'
  BY DEF LifeInv, ReturnInv, Entries

LEMMA EndedReturns ==
    ASSUME TypeInv, NEW s \in Session, EndTransaction(s)
    PROVE  txn'[s].pc = "idle" /\ \A y \in Session \ {s} : txn'[y] = txn[y]
  BY DEF EndTransaction, TypeInv, Idle

\* A commit that appends no reversal, or one of a payment.
LEMMA AppendKeepsReturns ==
    ASSUME LifeInv, NEW s \in Session, EndTransaction(s), NEW e, ledger' = Append(ledger, e),
           e.kind = "REVERSAL" => e.reverses \in Entries("PAYMENT")
    PROVE  ReturnInv'
  <1>1. /\ Len(ledger) \in Nat /\ Len(ledger') = Len(ledger) + 1
        /\ \A i \in 1 .. Len(ledger) : ledger'[i] = ledger[i]
        /\ ledger'[Len(ledger) + 1] = e
    BY LedgerAppends DEF LifeInv, SafeInv
  <1>2. \A i \in Entries("PAYMENT") : i \in Entries("PAYMENT")'
    BY <1>1 DEF Entries
  <1>3. \A j \in Entries("REVERSAL")' : ledger'[j].reverses \in Entries("PAYMENT")
    BY <1>1 DEF LifeInv, ReturnInv, Entries
  <1>4. txn'[s].pc = "idle" /\ \A y \in Session \ {s} : txn'[y] = txn[y]
    BY EndedReturns DEF LifeInv, SafeInv
  <1> QED
    BY <1>2, <1>3, <1>4 DEF LifeInv, ReturnInv

LEMMA NextReturns == LifeInv /\ [Next]_vars => LifeInv'
  <1> SUFFICES ASSUME LifeInv, [Next]_vars PROVE ReturnInv'
    BY NextSafe DEF LifeInv
  <1> USE DEF LifeInv
  <1>1. CASE UNCHANGED vars
    BY <1>1 DEF vars, ReturnInv, Entries
  <1>2. ASSUME NEW s \in Session, EndTransaction(s), UNCHANGED ledger PROVE ReturnInv'
    BY <1>2, EndedReturns, ReturnKept DEF SafeInv
  <1>3. ASSUME NEW s \in Session, Rollback(s) PROVE ReturnInv'
    BY <1>2, <1>3 DEF Rollback, store
  <1>4. ASSUME NEW s \in Session, MatchPropose(s) PROVE ReturnInv'
    <2>1. /\ UNCHANGED ledger /\ txn'[s].pc = "insert"
          /\ \A y \in Session \ {s} : txn'[y] = txn[y]
      BY <1>4, SessionFacts DEF MatchPropose, store, SafeInv, TypeInv, Transaction
    <2> QED
      BY <2>1, ReturnKept
  <1>5. ASSUME NEW s \in Session, KeyShareNext(s) \/ RowLockNext(s) PROVE ReturnInv'
    <2>1. UNCHANGED ledger /\ txn' = [txn EXCEPT ![s].todo = Tail(@)]
      BY <1>5 DEF KeyShareNext, RowLockNext, store
    <2>2. /\ txn'[s].pc = txn[s].pc /\ txn'[s].tx = txn[s].tx
          /\ txn'[s].original = txn[s].original
          /\ \A y \in Session \ {s} : txn'[y] = txn[y]
      BY <2>1, SessionFacts DEF SafeInv, TypeInv, Transaction
    <2> QED
      BY <2>1, <2>2, ReturnKept DEF ReturnInv
  <1>6. ASSUME NEW s \in Session, CommitRun(s) \/ CommitLabel(s) PROVE ReturnInv'
    BY <1>2, <1>6 DEF CommitRun, CommitLabel
  <1>7. ASSUME NEW s \in Session, SelectDebts(s) PROVE ReturnInv'
    <2>1. PICK q, rows : txn' = [txn EXCEPT ![s].pc = "lock", ![s].todo = q, ![s].rows = rows]
      BY <1>7 DEF SelectDebts, SelectForUpdate
    <2>2. txn[s].tx \in Payment /\ txn[s].tx \notin Return
      BY <1>7, SessionFacts, SetsAssumption DEF SafeInv, SelectDebts, TransactionOK
    <2>3. txn'[s].tx = txn[s].tx /\ \A y \in Session \ {s} : txn'[y] = txn[y]
      BY <2>1, SessionFacts DEF SafeInv, TypeInv, Transaction
    <2>4. UNCHANGED ledger
      BY <1>7 DEF SelectDebts, store
    <2> QED
      BY <2>2, <2>3, <2>4, ReturnKept
  <1>8. ASSUME NEW s \in Session, Book(s) PROVE ReturnInv'
    <2>1. PICK e \in Entry : ledger' = Append(ledger, e) /\ e.kind = "PAYMENT"
      BY <1>8, BookFacts
    <2> QED
      BY <1>8, <2>1, AppendKeepsReturns DEF Book
  <1>9. ASSUME NEW s \in Session, BookReturn(s) PROVE ReturnInv'
    <2>1. PICK e : e = ReversalEntry(txn[s].tx, txn[s].original)
      OBVIOUS
    <2>2. e.reverses = txn[s].original
      BY <2>1 DEF ReversalEntry
    <2>3. txn[s].original \in Entries("PAYMENT")
      BY <1>9 DEF BookReturn, ReturnInv
    <2> QED
      BY <1>9, <2>1, <2>2, <2>3, AppendKeepsReturns DEF BookReturn
  <1>10. ASSUME NEW s \in Session, NEW t \in Payment, MatchBegin(s, t) \/ DecideConfirm(s, t)
         PROVE  ReturnInv'
    <2>1. /\ UNCHANGED ledger /\ txn'[s].pc \in {"propose", "settle"}
          /\ \A y \in Session \ {s} : txn'[y] = txn[y]
      BY <1>10 DEF MatchBegin, DecideConfirm, store, SafeInv, TypeInv, Idle
    <2> QED
      BY <2>1, ReturnKept
  <1>11. ASSUME NEW s \in Session, NEW t \in Payment, DecideNegative(s, t) PROVE ReturnInv'
    BY <1>11 DEF DecideNegative, ReturnInv, Entries
  <1>12. ASSUME NEW s \in Session, NEW t \in Return, ReturnBegin(s, t) PROVE ReturnInv'
    <2>0. PICK i \in Matching(t) : \E rows, q :
             txn' = [txn EXCEPT ![s] = [Idle EXCEPT !.pc = "lock", !.tx = t, !.todo = q,
                                                    !.rows = rows, !.original = i]]
      BY <1>12 DEF ReturnBegin
    <2>1. PICK rows, q :
             txn' = [txn EXCEPT ![s] = [Idle EXCEPT !.pc = "lock", !.tx = t, !.todo = q,
                                                    !.rows = rows, !.original = i]]
      BY <2>0
    <2>2. i \in Entries("PAYMENT")
      BY DEF Matching
    <2>3. txn'[s].original = i /\ \A y \in Session \ {s} : txn'[y] = txn[y]
      BY <2>1 DEF SafeInv, TypeInv, Idle
    <2>4. UNCHANGED ledger
      BY <1>12 DEF ReturnBegin, store
    <2> QED
      BY <2>2, <2>3, <2>4, ReturnKept
  <1>13. ASSUME NEW s \in Session, NEW t \in Movement, NEW action, ClassifyBegin(s, t, action)
         PROVE  ReturnInv'
    <2>1. /\ UNCHANGED ledger /\ txn'[s].pc = "classify"
          /\ \A y \in Session \ {s} : txn'[y] = txn[y]
      BY <1>13 DEF ClassifyBegin, store, SafeInv, TypeInv, Idle
    <2> QED
      BY <2>1, ReturnKept
  <1>14. ASSUME NEW s \in Session, Step(s) PROVE ReturnInv'
    BY <1>3, <1>4, <1>5, <1>6, <1>7, <1>8, <1>9, <1>14
       DEF Step, BookRefused, BookReturnRefused, DeadlockVictim
  <1> QED
    BY <1>1, <1>3, <1>10, <1>11, <1>12, <1>13, <1>14 DEF Next, Abort

\* The stages of a payment that has no entry and of one that has.
Stages ==
    \A t \in Payment :
        /\ Unbooked(t) =>
              /\ run[t].decision = "NONE" => StageOf(t) = "imported"
              /\ run[t].decision = "UNMATCHED" => StageOf(t) = "unmatched"
              /\ run[t].decision = "NEEDS_REVIEW" =>
                    /\ verdict[t] = "NONE" => StageOf(t) = "review"
                    /\ verdict[t] = "REJECTED" => StageOf(t) = "rejected"
                    /\ verdict[t] = "DUPLICATE" => StageOf(t) = "duplicate"
        /\ BookedOnce => \A i \in 1 .. Len(ledger) : ledger[i].tx = t =>
              StageOf(t) = IF Reversed(i) THEN "returned" ELSE "booked"

LEMMA StagesHold == Stages
  <1> SUFFICES ASSUME NEW t \in Payment
               PROVE  /\ Unbooked(t) =>
                            /\ run[t].decision = "NONE" => StageOf(t) = "imported"
                            /\ run[t].decision = "UNMATCHED" => StageOf(t) = "unmatched"
                            /\ run[t].decision = "NEEDS_REVIEW" =>
                                  /\ verdict[t] = "NONE" => StageOf(t) = "review"
                                  /\ verdict[t] = "REJECTED" => StageOf(t) = "rejected"
                                  /\ verdict[t] = "DUPLICATE" => StageOf(t) = "duplicate"
                      /\ BookedOnce => \A i \in 1 .. Len(ledger) : ledger[i].tx = t =>
                            StageOf(t) = IF Reversed(i) THEN "returned" ELSE "booked"
    BY DEF Stages
  <1>1. CASE Unbooked(t)
    <2>1. {i \in 1 .. Len(ledger) : ledger[i].tx = t} = {}
      BY <1>1 DEF Unbooked
    <2> QED
      BY <1>1, <2>1 DEF StageOf, Unbooked
  <1>2. ASSUME BookedOnce, NEW i \in 1 .. Len(ledger), ledger[i].tx = t
        PROVE  StageOf(t) = IF Reversed(i) THEN "returned" ELSE "booked"
    <2>1. {k \in 1 .. Len(ledger) : ledger[k].tx = t} = {i}
      BY <1>2 DEF BookedOnce
    <2> QED
      BY <2>1 DEF StageOf
  <1> QED
    BY <1>1, <1>2

Origins ==
    \A r : \A j \in Entries("REVERSAL") :
        BookedOnce /\ ledger[j].tx = r => OriginOf(r) = ledger[ledger[j].reverses].tx

LEMMA OriginsHold == Origins
  <1> SUFFICES ASSUME NEW r, NEW j \in Entries("REVERSAL"), BookedOnce, ledger[j].tx = r
               PROVE  OriginOf(r) = ledger[ledger[j].reverses].tx
    BY DEF Origins
  <1>1. \A k \in Entries("REVERSAL") : ledger[k].tx = r => k = j
    BY DEF BookedOnce, Entries
  <1>2. (CHOOSE k \in Entries("REVERSAL") : ledger[k].tx = r) = j
    BY <1>1
  <1> QED
    BY <1>2 DEF OriginOf

\* The same of the next state.
LEMMA NextStages == Stages' /\ Origins'
  BY StagesHold, OriginsHold, PTL

LEMMA LifeStutters ==
    ASSUME UNCHANGED <<run, verdict, ledger>>
    PROVE  UNCHANGED Lifecycle!vars
  BY DEF Lifecycle!vars, StageOf, OriginOf, Reversed, Entries

\* A new entry moves its own payment only, and the one it reverses.
LEMMA AppendStage ==
    ASSUME LifeInv, LifeInv', NEW e, ledger' = Append(ledger, e), NEW u \in Payment,
           e.tx # u, run'[u] = run[u], verdict'[u] = verdict[u],
           e.kind = "REVERSAL" => ledger[e.reverses].tx # u
    PROVE  StageOf(u)' = StageOf(u)
  <1>1. /\ Len(ledger) \in Nat /\ Len(ledger') = Len(ledger) + 1
        /\ \A i \in 1 .. Len(ledger) : ledger'[i] = ledger[i]
        /\ ledger'[Len(ledger) + 1] = e
    BY LedgerAppends DEF LifeInv, SafeInv
  <1>2. CASE Unbooked(u)
    <2>1. /\ {i \in 1 .. Len(ledger) : ledger[i].tx = u} = {}
          /\ {i \in 1 .. Len(ledger') : ledger'[i].tx = u} = {}
      BY <1>1, <1>2 DEF Unbooked
    <2> QED
      BY <2>1 DEF StageOf
  <1>3. CASE ~ Unbooked(u)
    <2>1. PICK i \in 1 .. Len(ledger) : ledger[i].tx = u
      BY <1>3 DEF Unbooked
    <2>2. i \in 1 .. Len(ledger') /\ ledger'[i].tx = u
      BY <1>1, <2>1
    <2>3. Reversed(i)' <=> Reversed(i)
      BY <1>1, <2>1 DEF Reversed, Entries
    <2>4. BookedOnce /\ BookedOnce'
      BY DEF LifeInv, SafeInv, Safe
    <2>5. StageOf(u) = IF Reversed(i) THEN "returned" ELSE "booked"
      BY <2>1, <2>4, StagesHold DEF Stages
    <2>6. StageOf(u)' = IF Reversed(i)' THEN "returned" ELSE "booked"
      BY <2>2, <2>4, NextStages DEF Stages
    <2> QED
      BY <2>3, <2>5, <2>6
  <1> QED
    BY <1>2, <1>3

LEMMA AppendOrigin ==
    ASSUME LifeInv, LifeInv', NEW e, ledger' = Append(ledger, e), NEW r,
           e.kind = "REVERSAL" => e.tx # r
    PROVE  OriginOf(r)' = OriginOf(r)
  <1>1. /\ Len(ledger) \in Nat /\ Len(ledger') = Len(ledger) + 1
        /\ \A i \in 1 .. Len(ledger) : ledger'[i] = ledger[i]
        /\ ledger'[Len(ledger) + 1] = e
    BY LedgerAppends DEF LifeInv, SafeInv
  <1>2. BookedOnce /\ BookedOnce'
    BY DEF LifeInv, SafeInv, Safe
  <1>3. CASE \E j \in Entries("REVERSAL") : ledger[j].tx = r
    <2>1. PICK j \in Entries("REVERSAL") : ledger[j].tx = r
      BY <1>3
    <2>2. j \in Entries("REVERSAL")' /\ ledger'[j] = ledger[j]
      BY <1>1 DEF Entries
    <2>3. ledger[j].reverses \in 1 .. Len(ledger)
      BY DEF LifeInv, ReturnInv, Entries
    <2>4. OriginOf(r) = ledger[ledger[j].reverses].tx
      BY <1>2, <2>1, OriginsHold DEF Origins
    <2>5. OriginOf(r)' = ledger'[ledger'[j].reverses].tx
      BY <1>2, <2>1, <2>2, NextStages DEF Origins
    <2> QED
      BY <1>1, <2>2, <2>3, <2>4, <2>5
  <1>4. CASE ~ \E j \in Entries("REVERSAL") : ledger[j].tx = r
    <2>1. ~ \E j \in Entries("REVERSAL")' : ledger'[j].tx = r
      BY <1>1, <1>4 DEF Entries
    <2> QED
      BY <1>4, <2>1 DEF OriginOf
  <1> QED
    BY <1>3, <1>4

\* A step that changes one stage and no origin.
LEMMA OneStage ==
    ASSUME NEW t \in Payment, \A u \in Payment \ {t} : StageOf(u)' = StageOf(u),
           \A r \in Return : OriginOf(r)' = OriginOf(r),
           \/ StageOf(t)' = StageOf(t)
           \/ StageOf(t) = "imported" /\ StageOf(t)' \in {"unmatched", "review", "booked"}
           \/ StageOf(t) = "review" /\ StageOf(t)' \in {"booked", "rejected", "duplicate"}
    PROVE  [Lifecycle!Next]_(Lifecycle!vars)
  <1> DEFINE stage == [u \in Payment |-> StageOf(u)]
             origin == [r \in Return |-> OriginOf(r)]
  <1>1. origin' = origin
    OBVIOUS
  <1>2. PICK next : next = StageOf(t)'
    OBVIOUS
  <1>3. stage' = [stage EXCEPT ![t] = next]
    BY <1>2
  <1>4. CASE StageOf(t)' = StageOf(t)
    BY <1>1, <1>4 DEF Lifecycle!vars
  <1>5. CASE StageOf(t) = "imported" /\ next \in {"unmatched", "review", "booked"}
    <2>1. Lifecycle!Propose(t)
      BY <1>1, <1>3, <1>5 DEF Lifecycle!Propose
    <2> QED
      BY <2>1 DEF Lifecycle!Next
  <1>6. CASE StageOf(t) = "review" /\ next \in {"booked", "rejected", "duplicate"}
    <2>1. Lifecycle!Decide(t)
      BY <1>1, <1>3, <1>6 DEF Lifecycle!Decide
    <2> QED
      BY <2>1 DEF Lifecycle!Next
  <1> QED
    BY <1>2, <1>4, <1>5, <1>6

LEMMA CommitRunProposes ==
    ASSUME LifeInv, LifeInv', NEW s \in Session, CommitRun(s)
    PROVE  [Lifecycle!Next]_(Lifecycle!vars)
  <1>1. PICK t \in Payment : t = txn[s].tx
    BY CommitRunFacts DEF LifeInv
  <1>2. /\ run[t] = NoRun /\ verdict[t] = "NONE" /\ Unbooked(t)
        /\ txn[s].run \in Runs /\ txn[s].run.decision # "AUTO_MATCH"
        /\ run' = [run EXCEPT ![t] = txn[s].run] /\ UNCHANGED <<verdict, ledger>>
    BY <1>1, CommitRunFacts DEF LifeInv
  <1>3. run'[t] = txn[s].run /\ \A u \in Payment \ {t} : run'[u] = run[u]
    BY <1>2 DEF LifeInv, SafeInv, TypeInv, TypeOK
  <1>4. /\ \A u \in Payment \ {t} : StageOf(u)' = StageOf(u)
        /\ \A r \in Return : OriginOf(r)' = OriginOf(r)
    BY <1>2, <1>3 DEF StageOf, OriginOf, Reversed, Entries
  <1>5. StageOf(t) = "imported"
    BY <1>2, StagesHold DEF Stages, NoRun
  <1>6. StageOf(t)' \in {"imported", "unmatched", "review"}
    <2>1. Unbooked(t)' /\ verdict'[t] = "NONE"
      BY <1>2 DEF Unbooked
    <2>2. run'[t].decision \in {"NONE", "UNMATCHED", "NEEDS_REVIEW"}
      BY <1>2, <1>3 DEF Runs, Decision
    <2> QED
      BY <2>1, <2>2, NextStages DEF Stages
  <1> QED
    BY <1>4, <1>5, <1>6, OneStage

LEMMA DecideNegativeDecides ==
    ASSUME LifeInv, LifeInv', NEW s \in Session, NEW t \in Payment, DecideNegative(s, t)
    PROVE  [Lifecycle!Next]_(Lifecycle!vars)
  <1>1. /\ run[t].decision = "NEEDS_REVIEW" /\ verdict[t] = "NONE"
        /\ UNCHANGED <<run, ledger>>
    BY DEF DecideNegative, Decidable
  <1>2. Unbooked(t)
    BY <1>1 DEF LifeInv, SafeInv, Safe, EvidenceBeforeMoney, Evidenced, Unbooked
  <1>3. /\ verdict'[t] \in {"REJECTED", "DUPLICATE"}
        /\ \A u \in Payment \ {t} : verdict'[u] = verdict[u]
    BY DEF DecideNegative, LifeInv, SafeInv, TypeInv, TypeOK
  <1>4. /\ \A u \in Payment \ {t} : StageOf(u)' = StageOf(u)
        /\ \A r \in Return : OriginOf(r)' = OriginOf(r)
    BY <1>1, <1>3 DEF StageOf, OriginOf, Reversed, Entries
  <1>5. StageOf(t) = "review"
    BY <1>1, <1>2, StagesHold DEF Stages
  <1>6. StageOf(t)' \in {"rejected", "duplicate"}
    <2>1. Unbooked(t)' /\ run'[t].decision = "NEEDS_REVIEW"
      BY <1>1, <1>2 DEF Unbooked
    <2> QED
      BY <1>3, <2>1, NextStages DEF Stages
  <1> QED
    BY <1>4, <1>5, <1>6, OneStage

LEMMA BookBooks ==
    ASSUME LifeInv, LifeInv', NEW s \in Session, Book(s)
    PROVE  [Lifecycle!Next]_(Lifecycle!vars)
  <1>1. PICK t \in Payment : t = txn[s].tx
    BY BookFacts DEF LifeInv
  <1>2. /\ Unbooked(t) /\ verdict[t] = "NONE"
        /\ run[t].decision = "NEEDS_REVIEW" \/ run[t].decision = "NONE"
        /\ run' = [run EXCEPT ![t] = txn[s].run]
        /\ verdict' = [verdict EXCEPT ![t] = txn[s].outcome]
    BY <1>1, BookFacts DEF LifeInv, NoRun
  <1>3. PICK e \in Entry : ledger' = Append(ledger, e) /\ e.kind = "PAYMENT" /\ e.tx = t
    BY <1>1, BookFacts DEF LifeInv
  <1>4. \A u \in Payment \ {t} : run'[u] = run[u] /\ verdict'[u] = verdict[u]
    BY <1>2 DEF LifeInv, SafeInv, TypeInv, TypeOK
  <1>5. /\ \A u \in Payment \ {t} : StageOf(u)' = StageOf(u)
        /\ \A r \in Return : OriginOf(r)' = OriginOf(r)
    BY <1>3, <1>4, AppendStage, AppendOrigin
  <1>6. StageOf(t) \in {"imported", "review"}
    BY <1>2, StagesHold DEF Stages
  <1>7. StageOf(t)' = "booked"
    <2>1. /\ Len(ledger) \in Nat /\ Len(ledger') = Len(ledger) + 1
          /\ \A i \in 1 .. Len(ledger) : ledger'[i] = ledger[i]
          /\ ledger'[Len(ledger) + 1] = e
      BY <1>3, LedgerAppends DEF LifeInv, SafeInv
    <2>2. \A j \in Entries("REVERSAL") : ledger[j].reverses # Len(ledger) + 1
      BY <2>1 DEF LifeInv, ReturnInv, Entries
    <2>3. \A j \in Entries("REVERSAL")' : ledger'[j].reverses # Len(ledger) + 1
      BY <1>3, <2>1, <2>2 DEF Entries
    <2>4. PICK n : n = Len(ledger) + 1
      OBVIOUS
    <2>5. ~ Reversed(n)'
      BY <2>3, <2>4 DEF Reversed
    <2>6. n \in 1 .. Len(ledger') /\ ledger'[n].tx = t
      BY <1>3, <2>1, <2>4
    <2>7. BookedOnce'
      BY DEF LifeInv, SafeInv, Safe
    <2> QED
      BY <2>5, <2>6, <2>7, NextStages DEF Stages
  <1> QED
    BY <1>5, <1>6, <1>7, OneStage

LEMMA BookReturnGivesBack ==
    ASSUME LifeInv, LifeInv', NEW s \in Session, BookReturn(s)
    PROVE  Lifecycle!Next
  <1> DEFINE stage == [u \in Payment |-> StageOf(u)]
             origin == [r \in Return |-> OriginOf(r)]
  <1>1. PICK r \in Return : r = txn[s].tx
    BY DEF BookReturn
  <1>2. PICK i : i = txn[s].original
    OBVIOUS
  <1>3. /\ i \in Entries("PAYMENT") /\ ~ Reversed(i) /\ Unbooked(r)
        /\ ledger' = Append(ledger, ReversalEntry(r, i)) /\ UNCHANGED <<run, verdict>>
    BY <1>1, <1>2 DEF BookReturn, ReversalUnique, LifeInv, ReturnInv, SafeInv, Claim
  <1>4. PICK e : e = ReversalEntry(r, i)
    OBVIOUS
  <1>5. ledger' = Append(ledger, e) /\ e.kind = "REVERSAL" /\ e.tx = r /\ e.reverses = i
    BY <1>3, <1>4 DEF ReversalEntry
  <1>6. PICK p \in Payment : p = ledger[i].tx
    BY <1>3 DEF Entries, LifeInv, SafeInv, TypeInv, TypeOK, EntryOK
  <1>7. /\ Len(ledger) \in Nat /\ Len(ledger') = Len(ledger) + 1
        /\ \A k \in 1 .. Len(ledger) : ledger'[k] = ledger[k]
        /\ ledger'[Len(ledger) + 1] = e
    BY <1>5, LedgerAppends DEF LifeInv, SafeInv
  <1>8. i \in 1 .. Len(ledger) /\ BookedOnce /\ BookedOnce' /\ r \notin Payment
    BY <1>3, SetsAssumption DEF Entries, LifeInv, SafeInv, Safe
  <1>9. PICK n : n = Len(ledger) + 1 /\ n \in Entries("REVERSAL")'
    BY <1>5, <1>7 DEF Entries
  <1>10. StageOf(p) = "booked"
    BY <1>3, <1>6, <1>8, StagesHold DEF Stages
  <1>11. StageOf(p)' = "returned"
    <2>1. Reversed(i)' /\ i \in 1 .. Len(ledger') /\ ledger'[i].tx = p
      BY <1>5, <1>6, <1>7, <1>8, <1>9 DEF Reversed
    <2> QED
      BY <1>8, <2>1, NextStages DEF Stages
  <1>12. \A u \in Payment \ {p} : StageOf(u)' = StageOf(u)
    BY <1>3, <1>5, <1>6, <1>8, AppendStage
  <1>13. OriginOf(r) = None
    BY <1>3 DEF OriginOf, Unbooked, Entries
  <1>14. OriginOf(r)' = p
    <2>1. ledger'[n].tx = r /\ ledger'[ledger'[n].reverses].tx = p
      BY <1>5, <1>6, <1>7, <1>8, <1>9
    <2> QED
      BY <1>8, <1>9, <2>1, NextStages DEF Origins
  <1>15. \A q \in Return \ {r} : OriginOf(q)' = OriginOf(q)
    BY <1>5, AppendOrigin
  <1>16. stage' = [stage EXCEPT ![p] = "returned"] /\ origin' = [origin EXCEPT ![r] = p]
    BY <1>11, <1>12, <1>14, <1>15
  <1>17. Lifecycle!GiveBack(p, r)
    BY <1>10, <1>13, <1>16 DEF Lifecycle!GiveBack
  <1> QED
    BY <1>17 DEF Lifecycle!Next

(***************************************************************************)
(* Requests, locks, rollbacks and deadlock victims implement the life of a *)
(* payment: proposed once, decided once, booked once, given back once.     *)
(***************************************************************************)
THEOREM SessionsImplementLifecycle == Spec => ImplementsLifecycle
  <1>1. Init => Lifecycle!Init
    <2> SUFFICES ASSUME Init PROVE Lifecycle!Init
      OBVIOUS
    <2>1. ledger = <<>> /\ Len(ledger) = 0
      BY EmptySeq DEF Init
    <2>2. \A t \in Payment : StageOf(t) = "imported"
      <3>1. \A t \in Payment : Unbooked(t) /\ run[t].decision = "NONE"
        BY <2>1 DEF Init, Unbooked, NoRun
      <3> QED
        BY <3>1, StagesHold DEF Stages
    <2>3. \A r \in Return : OriginOf(r) = None
      BY <2>1 DEF OriginOf, Entries
    <2> QED
      BY <2>2, <2>3 DEF Lifecycle!Init
  <1>2. Init => LifeInv
    <2> SUFFICES ASSUME Init PROVE ReturnInv
      BY InitSafe DEF LifeInv
    <2>1. ledger = <<>> /\ Len(ledger) = 0
      BY EmptySeq DEF Init
    <2> QED
      BY <2>1 DEF Init, ReturnInv, Entries, Idle
  <1>3. LifeInv /\ LifeInv' /\ [Next]_vars => [Lifecycle!Next]_(Lifecycle!vars)
    BY StoreSteps, LifeStutters, CommitRunProposes, BookBooks, BookReturnGivesBack,
       DecideNegativeDecides
  <1> QED
    BY <1>1, <1>2, <1>3, NextReturns, PTL DEF Spec, ImplementsLifecycle, Lifecycle!Spec
-----------------------------------------------------------------------------
(* The receivables as a projection of the ledger.                          *)

Tiers == {"costs", "interest", "principal"}

\* What the k-th entry of a ledger allocates to a debt.
Given(entries, k, r, tier) ==
    IF r \in DOMAIN entries[k].parts THEN entries[k].parts[r][tier] ELSE 0

\* The recursive function of Allocated, up to n entries.
IsAmount(f, entries, r, tier, n) ==
    f = [k \in 0 .. n |-> IF k = 0 THEN 0 ELSE f[k - 1] + Given(entries, k, r, tier)]

\* There is such a function: otherwise there were a least n without one.
LEMMA AmountExists ==
    ASSUME NEW entries, NEW r, NEW tier, NEW n \in Nat
    PROVE  \E f : IsAmount(f, entries, r, tier, n)
<1> DEFINE D == {k \in 0 .. n : ~ \E f : IsAmount(f, entries, r, tier, k)}
<1>1. SUFFICES ASSUME D # {} PROVE FALSE
  <2>1. n \in 0 .. n
    OBVIOUS
  <2> QED
    BY <1>1, <2>1
<1>2. PICK k \in D : \A e \in D : k <= e
  <2>1. D \subseteq Nat
    OBVIOUS
  <2> HIDE DEF D
  <2> QED
    BY <1>1, <2>1, LeastOf
<1>3. k \in 0 .. n /\ ~ \E f : IsAmount(f, entries, r, tier, k)
  OBVIOUS
<1>4. CASE k = 0
  <2> DEFINE none == [i \in 0 .. 0 |-> 0]
  <2>1. IsAmount(none, entries, r, tier, 0)
    BY DEF IsAmount
  <2> QED
    BY <1>3, <1>4, <2>1
<1>5. CASE k # 0
  <2>1. k - 1 \in 0 .. n /\ ~(k <= k - 1)
    BY <1>3, <1>5
  <2>2. k - 1 \notin D
    <3> HIDE DEF D
    <3> QED
      BY <1>2, <2>1
  <2>3. PICK f : IsAmount(f, entries, r, tier, k - 1)
    BY <2>1, <2>2
  <2> HIDE DEF D
  <2> DEFINE g == [i \in 0 .. k |-> IF i = 0 THEN 0 ELSE f[i - 1] + Given(entries, i, r, tier)]
  <2>4. \A i \in 0 .. k : i # 0 => i - 1 \in 0 .. k - 1 /\ i - 1 \in 0 .. k
    BY <1>3
  <2>5. \A i \in 0 .. k - 1 : f[i] = IF i = 0 THEN 0 ELSE f[i - 1] + Given(entries, i, r, tier)
    <3> HIDE DEF g
    <3> QED
      BY <2>3 DEF IsAmount
  <2>6. \A i \in 0 .. k - 1 : g[i] = f[i]
    <3>1. \A i \in 0 .. k - 1 : i \in 0 .. k
      BY <1>3
    <3> QED
      BY <2>5, <3>1
  <2>7. \A i \in 0 .. k : i # 0 => g[i - 1] = f[i - 1]
    BY <2>4, <2>6
  <2>8. IsAmount(g, entries, r, tier, k)
    <3>1. \A i \in 0 .. k : g[i] = IF i = 0 THEN 0 ELSE g[i - 1] + Given(entries, i, r, tier)
      BY <2>7
    <3>2. g = [i \in 0 .. k |-> g[i]]
      OBVIOUS
    <3> HIDE DEF g
    <3> QED
      BY <3>1, <3>2 DEF IsAmount
  <2> QED
    BY <1>3, <2>8
<1> QED
  BY <1>4, <1>5

\* Ledgers that begin alike have allocated the same after that beginning.
LEMMA AmountsAgree ==
    ASSUME NEW entries, NEW longer, NEW r, NEW tier, NEW n \in Nat, NEW m \in Nat, n <= m,
           \A k \in 1 .. n : longer[k] = entries[k] /\ Given(entries, k, r, tier) \in Int,
           NEW f, IsAmount(f, entries, r, tier, n), NEW g, IsAmount(g, longer, r, tier, m)
    PROVE  g[n] = f[n] /\ f[n] \in Int
<1> DEFINE D == {k \in 0 .. n : ~(g[k] = f[k] /\ f[k] \in Int)}
<1>1. SUFFICES ASSUME D # {} PROVE FALSE
  <2>1. n \in 0 .. n
    OBVIOUS
  <2> QED
    BY <1>1, <2>1
<1>2. PICK k \in D : \A e \in D : k <= e
  <2>1. D \subseteq Nat
    OBVIOUS
  <2> HIDE DEF D
  <2> QED
    BY <1>1, <2>1, LeastOf
<1>3. k \in 0 .. n /\ k \in 0 .. m /\ ~(g[k] = f[k] /\ f[k] \in Int)
  OBVIOUS
<1>4. /\ f[k] = IF k = 0 THEN 0 ELSE f[k - 1] + Given(entries, k, r, tier)
      /\ g[k] = IF k = 0 THEN 0 ELSE g[k - 1] + Given(longer, k, r, tier)
  <2> HIDE DEF D
  <2>1. f[k] = IF k = 0 THEN 0 ELSE f[k - 1] + Given(entries, k, r, tier)
    BY <1>3 DEF IsAmount
  <2>2. g[k] = IF k = 0 THEN 0 ELSE g[k - 1] + Given(longer, k, r, tier)
    BY <1>3 DEF IsAmount
  <2> QED
    BY <2>1, <2>2
<1>5. k # 0
  BY <1>3, <1>4
<1>6. k - 1 \in 0 .. n /\ ~(k <= k - 1) /\ k \in 1 .. n
  BY <1>3, <1>5
<1>7. k - 1 \notin D
  <2> HIDE DEF D
  <2> QED
    BY <1>2, <1>6
<1>8. g[k - 1] = f[k - 1] /\ f[k - 1] \in Int
  BY <1>6, <1>7
<1>9. Given(longer, k, r, tier) = Given(entries, k, r, tier) /\ Given(entries, k, r, tier) \in Int
  BY <1>6 DEF Given
<1> HIDE DEF D
<1> QED
  BY <1>3, <1>4, <1>5, <1>8, <1>9

AllocatedIn(entries, r, tier) ==
    LET amount[n \in 0 .. Len(entries)] ==
          IF n = 0 THEN 0
          ELSE amount[n - 1] +
               (IF r \in DOMAIN entries[n].parts THEN entries[n].parts[r][tier] ELSE 0)
    IN  amount[Len(entries)]

LEMMA AllocatedIs ==
    ASSUME NEW entries, Len(entries) \in Nat, NEW r, NEW tier
    PROVE  \E f : /\ IsAmount(f, entries, r, tier, Len(entries))
                  /\ AllocatedIn(entries, r, tier) = f[Len(entries)]
<1>1. \E f : IsAmount(f, entries, r, tier, Len(entries))
  BY AmountExists
<1> QED
  BY <1>1 DEF IsAmount, AllocatedIn, Given

\* The amounts of entries are numbers.
LEMMA GivenType ==
    ASSUME NEW entries \in Seq(Entry), NEW k \in 1 .. Len(entries), NEW r, NEW tier \in Tiers
    PROVE  Given(entries, k, r, tier) \in Int
<1>1. entries[k] \in Entry
  BY ElementOfSeq
<1>2. PICK S \in SUBSET Receivable : entries[k].parts \in [S -> SignedPart]
  BY <1>1 DEF Entry, SignedParts
<1>3. r \in DOMAIN entries[k].parts => entries[k].parts[r] \in SignedPart
  BY <1>2
<1>4. \A p \in SignedPart : p["costs"] \in Int /\ p["interest"] \in Int /\ p["principal"] \in Int
  BY DEF SignedPart
<1> QED
  BY <1>3, <1>4 DEF Given, Tiers

\* An entry adds what it allocates.
LEMMA AllocatedAppend ==
    ASSUME NEW entries \in Seq(Entry), NEW e \in Entry, NEW r, NEW tier \in Tiers
    PROVE  /\ AllocatedIn(entries, r, tier) \in Int
           /\ AllocatedIn(Append(entries, e), r, tier) =
                 AllocatedIn(entries, r, tier) +
                 (IF r \in DOMAIN e.parts THEN e.parts[r][tier] ELSE 0)
<1> DEFINE longer == Append(entries, e)
           n == Len(entries)
<1>1. /\ n \in Nat /\ Len(longer) = n + 1 /\ longer[n + 1] = e
      /\ \A k \in 1 .. n : longer[k] = entries[k]
  BY AppendProperties, LenProperties
<1>2. \A k \in 1 .. n : Given(entries, k, r, tier) \in Int
  BY GivenType
<1> HIDE DEF longer, n
<1>3. PICK f : IsAmount(f, entries, r, tier, n) /\ AllocatedIn(entries, r, tier) = f[n]
  BY <1>1, AllocatedIs DEF n
<1>4. PICK g : IsAmount(g, longer, r, tier, n + 1) /\ AllocatedIn(longer, r, tier) = g[n + 1]
  <2>1. Len(longer) \in Nat
    BY <1>1
  <2> QED
    BY <1>1, <2>1, AllocatedIs
<1>5. g[n] = f[n] /\ f[n] \in Int
  <2>1. n + 1 \in Nat /\ n <= n + 1
    BY <1>1
  <2> QED
    BY <1>1, <1>2, <1>3, <1>4, <2>1, AmountsAgree
<1>6. g[n + 1] = g[n] + Given(longer, n + 1, r, tier)
  <2>1. n + 1 \in 0 .. n + 1 /\ n + 1 # 0 /\ (n + 1) - 1 = n
    BY <1>1
  <2>2. g[n + 1] = IF n + 1 = 0 THEN 0 ELSE g[(n + 1) - 1] + Given(longer, n + 1, r, tier)
    BY <1>4, <2>1 DEF IsAmount
  <2> QED
    BY <2>1, <2>2
<1>7. Given(longer, n + 1, r, tier) = IF r \in DOMAIN e.parts THEN e.parts[r][tier] ELSE 0
  BY <1>1 DEF Given
<1>8. AllocatedIn(entries, r, tier) = f[n] /\ AllocatedIn(longer, r, tier) = g[n + 1]
  BY <1>3, <1>4
<1> QED
  BY <1>5, <1>6, <1>7, <1>8 DEF longer

\* A settlement sees the rows it has locked as they are committed.  An object
\* that was loaded before the lock may be older: finding 1.
SettlesCurrentRows ==
    \A s \in Session :
        txn[s].pc = "lock" /\ txn[s].todo = <<>> /\ txn[s].tx \in Payment =>
            \A r \in Returned(s) : View(s)[r] = rcv[r]

\* The rows give up what the entry allocates.
Moves(e) ==
    \A r \in Receivable, tier \in Tiers :
        /\ rcv[r][tier] \in Int
        /\ rcv'[r][tier] = rcv[r][tier] - (IF r \in DOMAIN e.parts THEN e.parts[r][tier] ELSE 0)

\* The columns of a flushed row are those of the row the session paid.
LEMMA FlushedIsPaid ==
    ASSUME NEW row \in Row, NEW part \in Part
    PROVE  /\ Flushed(row, row, Pay(row, part)).costs = row.costs - part.costs
           /\ Flushed(row, row, Pay(row, part)).interest = row.interest - part.interest
           /\ Flushed(row, row, Pay(row, part)).principal = row.principal - part.principal
  BY DEF Flushed, Column, Pay

LEMMA BookMoves ==
    ASSUME TypeInv, SettlesCurrentRows, NEW s \in Session, Book(s)
    PROVE  \E e \in Entry : ledger' = Append(ledger, e) /\ Moves(e)
<1>1. txn[s].tx \in Payment
  BY DEF Book
<1>2. PICK b \in Bookings(s) : /\ rcv' = Projection(b.seen, b.parts)
                               /\ ledger' = Append(ledger, PaymentEntry(txn[s].tx, b))
  BY DEF Book
<1>3. PICK e \in Entry : e = PaymentEntry(txn[s].tx, b)
  BY <1>1, <1>2, PaymentEntryType DEF Book
<1>4. e.parts = b.parts
  BY <1>3 DEF PaymentEntry
<1>5. b.seen = View(s)
  BY DEF Bookings
<1>6. /\ DOMAIN b.parts \subseteq Returned(s) /\ Returned(s) \subseteq Receivable
      /\ b.parts \in [DOMAIN b.parts -> Part]
  BY <1>1, BookingFacts
<1>7. \A r \in DOMAIN b.parts : b.seen[r] = rcv[r]
  BY <1>1, <1>5, <1>6 DEF SettlesCurrentRows, Book
<1>8. \A r \in Receivable : rcv[r] \in Row
  BY DEF TypeInv, TypeOK
<1>9. ASSUME NEW r \in Receivable, NEW tier \in Tiers
      PROVE  /\ rcv[r][tier] \in Int
             /\ rcv'[r][tier] = rcv[r][tier] -
                                (IF r \in DOMAIN b.parts THEN b.parts[r][tier] ELSE 0)
  <2>1. /\ rcv[r]["costs"] \in Int /\ rcv[r]["interest"] \in Int
        /\ rcv[r]["principal"] \in Int
    BY <1>8 DEF Row
  <2>2. CASE r \in DOMAIN b.parts
    <3>1. rcv'[r] = Flushed(rcv[r], rcv[r], Pay(rcv[r], b.parts[r]))
      BY <1>2, <1>7, <2>2 DEF Projection
    <3>2. rcv[r] \in Row /\ b.parts[r] \in Part
      BY <1>6, <1>8, <2>2
    <3>3. /\ rcv'[r].costs = rcv[r].costs - b.parts[r].costs
          /\ rcv'[r].interest = rcv[r].interest - b.parts[r].interest
          /\ rcv'[r].principal = rcv[r].principal - b.parts[r].principal
      BY <3>1, <3>2, FlushedIsPaid
    <3> QED
      BY <2>1, <2>2, <3>3 DEF Tiers
  <2>3. CASE r \notin DOMAIN b.parts
    <3>1. rcv'[r] = rcv[r]
      BY <1>2, <2>3 DEF Projection
    <3> QED
      BY <2>1, <2>3, <3>1 DEF Tiers
  <2> QED
    BY <2>2, <2>3
<1> QED
  BY <1>2, <1>3, <1>4, <1>9 DEF Moves

LEMMA BookReturnMoves ==
    ASSUME TypeInv, NEW s \in Session, BookReturn(s)
    PROVE  \E e \in Entry : ledger' = Append(ledger, e) /\ Moves(e)
<1> DEFINE i == txn[s].original
           D == DOMAIN ledger[i].parts
<1>1. txn[s].tx \in Return /\ txn[s].pc = "lock"
  BY DEF BookReturn
<1>2. i \in 1 .. Len(ledger) /\ Len(ledger) \in Nat
  BY <1>1, SessionFacts DEF TransactionOK
<1>3. D \subseteq Receivable /\ \A r \in D : ledger[i].before[r] \in Row
  BY <1>2 DEF TypeInv, TypeOK, EntryOK
<1>4. \A r \in D : ledger[i].parts[r] \in SignedPart
  <2>1. ledger[i] \in Entry
    BY <1>2, ElementOfSeq DEF TypeInv
  <2>2. PICK S \in SUBSET Receivable : ledger[i].parts \in [S -> SignedPart]
    BY <2>1 DEF Entry, SignedParts
  <2> QED
    BY <2>2
<1>5. PICK e : e = ReversalEntry(txn[s].tx, i) /\ ledger' = Append(ledger, e)
  BY DEF BookReturn
<1>6. e \in Entry
  <2>1. ledger' \in Seq(Entry)
    BY BookReturnType DEF TypeInv
  <2>2. Len(ledger') = Len(ledger) + 1 /\ ledger'[Len(ledger) + 1] = e
    BY <1>5, AppendProperties DEF TypeInv
  <2> QED
    BY <1>2, <2>1, <2>2, ElementOfSeq
<1>7. e.parts = [r \in D |-> Negated(ledger[i].parts[r])]
  BY <1>5 DEF ReversalEntry
<1>8. /\ \A r \in D : rcv[r] = Pay(ledger[i].before[r], ledger[i].parts[r])
      /\ rcv' = [r \in Receivable |-> IF r \in D THEN ledger[i].before[r] ELSE rcv[r]]
  BY DEF BookReturn, Restorable
<1>9. \A r \in Receivable : rcv[r] \in Row
  BY DEF TypeInv, TypeOK
<1> HIDE DEF D
<1>10. ASSUME NEW r \in Receivable, NEW tier \in Tiers
       PROVE  /\ rcv[r][tier] \in Int
              /\ rcv'[r][tier] = rcv[r][tier] - (IF r \in D THEN e.parts[r][tier] ELSE 0)
  <2>1. /\ rcv[r]["costs"] \in Int /\ rcv[r]["interest"] \in Int
        /\ rcv[r]["principal"] \in Int
    BY <1>9 DEF Row
  <2>2. CASE r \in D
    <3>1. PICK row \in Row, part \in SignedPart :
             row = ledger[i].before[r] /\ part = ledger[i].parts[r]
      BY <1>3, <1>4, <2>2
    <3>2. rcv'[r] = row /\ rcv[r] = Pay(row, part) /\ e.parts[r] = Negated(part)
      BY <1>7, <1>8, <2>2, <3>1
    <3>3. /\ rcv[r].costs = row.costs - part.costs
          /\ rcv[r].interest = row.interest - part.interest
          /\ rcv[r].principal = row.principal - part.principal
      BY <3>2 DEF Pay
    <3>4. /\ e.parts[r].costs = - part.costs
          /\ e.parts[r].interest = - part.interest
          /\ e.parts[r].principal = - part.principal
      BY <3>2 DEF Negated
    <3>5. /\ row.costs \in Int /\ row.interest \in Int /\ row.principal \in Int
          /\ part.costs \in Int /\ part.interest \in Int /\ part.principal \in Int
      BY <3>1 DEF Row, SignedPart
    <3>6. /\ rcv'[r].costs = rcv[r].costs - e.parts[r].costs
          /\ rcv'[r].interest = rcv[r].interest - e.parts[r].interest
          /\ rcv'[r].principal = rcv[r].principal - e.parts[r].principal
      BY <3>2, <3>3, <3>4, <3>5
    <3> QED
      BY <2>1, <2>2, <3>6 DEF Tiers
  <2>3. CASE r \notin D
    <3>1. rcv'[r] = rcv[r]
      BY <1>8, <2>3
    <3> QED
      BY <2>1, <2>3, <3>1 DEF Tiers
  <2> QED
    BY <2>2, <2>3
<1>11. DOMAIN e.parts = D
  BY <1>7
<1> QED
  BY <1>5, <1>6, <1>10, <1>11 DEF Moves

\* Only these two steps move money.
LEMMA MoneySteps ==
    ASSUME [Next]_vars
    PROVE  \/ UNCHANGED <<rcv, ledger>>
           \/ \E s \in Session : Book(s) \/ BookReturn(s)
  <1>1. CASE UNCHANGED vars
    BY <1>1 DEF vars
  <1>2. ASSUME NEW s \in Session, Rollback(s)
        PROVE  UNCHANGED <<rcv, ledger>>
    BY <1>2 DEF Rollback, store
  <1>3. ASSUME NEW s \in Session, Step(s)
        PROVE  UNCHANGED <<rcv, ledger>> \/ Book(s) \/ BookReturn(s)
    BY <1>2, <1>3 DEF Step, MatchPropose, KeyShareNext, SelectDebts, RowLockNext, BookRefused,
                      BookReturnRefused, CommitRun, CommitLabel, DeadlockVictim, store
  <1>4. ASSUME NEW s \in Session, NEW t \in Payment,
               MatchBegin(s, t) \/ DecideConfirm(s, t) \/ DecideNegative(s, t)
        PROVE  UNCHANGED <<rcv, ledger>>
    BY <1>4 DEF MatchBegin, DecideConfirm, DecideNegative, store
  <1>5. ASSUME NEW s \in Session, NEW t \in Return, ReturnBegin(s, t)
        PROVE  UNCHANGED <<rcv, ledger>>
    BY <1>5 DEF ReturnBegin, store
  <1>6. ASSUME NEW s \in Session, NEW t \in Movement, NEW action, ClassifyBegin(s, t, action)
        PROVE  UNCHANGED <<rcv, ledger>>
    BY <1>6 DEF ClassifyBegin, store
  <1> QED
    BY <1>1, <1>2, <1>3, <1>4, <1>5, <1>6 DEF Next, Abort

Projected ==
    \A r \in Receivable, tier \in Tiers :
        rcv[r][tier] = Opening[r][tier] - AllocatedIn(ledger, r, tier)

LEMMA MovesKeepProjected ==
    ASSUME TypeInv, Projected, NEW e \in Entry, ledger' = Append(ledger, e), Moves(e)
    PROVE  Projected'
<1> SUFFICES ASSUME NEW r \in Receivable, NEW tier \in Tiers
             PROVE  rcv'[r][tier] = Opening[r][tier] - AllocatedIn(ledger', r, tier)
  BY DEF Projected
<1> DEFINE given == IF r \in DOMAIN e.parts THEN e.parts[r][tier] ELSE 0
<1>1. rcv[r][tier] \in Int /\ rcv'[r][tier] = rcv[r][tier] - given
  BY DEF Moves
<1>2. /\ AllocatedIn(ledger, r, tier) \in Int
      /\ AllocatedIn(ledger', r, tier) = AllocatedIn(ledger, r, tier) + given
  BY AllocatedAppend DEF TypeInv
<1>3. rcv[r][tier] = Opening[r][tier] - AllocatedIn(ledger, r, tier)
  BY DEF Projected
<1>4. Opening[r][tier] \in Int
  <2>1. Opening[r] \in Row
    BY DebtAssumption
  <2> QED
    BY <2>1 DEF Row, Tiers
<1>5. given \in Int
  <2>1. PICK S \in SUBSET Receivable : e.parts \in [S -> SignedPart]
    BY DEF Entry, SignedParts
  <2>2. r \in DOMAIN e.parts => e.parts[r] \in SignedPart
    BY <2>1
  <2> QED
    BY <2>2 DEF SignedPart, Tiers
<1> HIDE DEF given
<1> QED
  BY <1>1, <1>2, <1>3, <1>4, <1>5

LEMMA InitProjected == Init => Projected
<1> SUFFICES ASSUME Init, NEW r \in Receivable, NEW tier \in Tiers
             PROVE  rcv[r][tier] = Opening[r][tier] - AllocatedIn(ledger, r, tier)
  BY DEF Projected
<1>1. rcv = Opening /\ ledger = <<>> /\ Len(ledger) = 0
  BY DEF Init
<1>2. PICK f : IsAmount(f, ledger, r, tier, 0) /\ AllocatedIn(ledger, r, tier) = f[0]
  BY <1>1, AllocatedIs
<1>3. f[0] = 0
  BY <1>2 DEF IsAmount
<1>4. Opening[r][tier] \in Int
  <2>1. Opening[r] \in Row
    BY DebtAssumption
  <2> QED
    BY <2>1 DEF Row, Tiers
<1> QED
  BY <1>1, <1>2, <1>3, <1>4

LEMMA NextProjected == TypeInv /\ Projected /\ SettlesCurrentRows /\ [Next]_vars => Projected'
<1> SUFFICES ASSUME TypeInv, Projected, SettlesCurrentRows, [Next]_vars PROVE Projected'
  OBVIOUS
<1>1. CASE UNCHANGED <<rcv, ledger>>
  BY <1>1 DEF Projected, AllocatedIn
<1>2. ASSUME NEW s \in Session, Book(s) \/ BookReturn(s) PROVE Projected'
  BY <1>2, BookMoves, BookReturnMoves, MovesKeepProjected
<1> QED
  BY <1>1, <1>2, MoneySteps

LEMMA ProjectedMatches == Projected => ProjectionMatchesLedger
  BY DEF Projected, ProjectionMatchesLedger, Allocated, AllocatedIn, Tiers

\* Where every settlement sees current rows, whatever else interleaves, the
\* receivable rows are the projection of the ledger: nothing but a row that was
\* loaded before its lock (matching_service.py 341-350) makes finding 1.
THEOREM CurrentRowsProject ==
    Spec /\ []SettlesCurrentRows => []ProjectionMatchesLedger
<1>1. Init => TypeInv /\ Projected
  BY InitType, InitProjected
<1>2. TypeInv /\ Projected /\ SettlesCurrentRows /\ [Next]_vars => TypeInv' /\ Projected'
  BY NextType, NextProjected
<1> QED
  BY <1>1, <1>2, ProjectedMatches, PTL DEF Spec

\* How a step changes what a session has loaded.
Loads(s, x) ==
    \/ DOMAIN x.seen = {}
    \/ /\ UNCHANGED rcv
       /\ \/ x.seen = txn[s].seen /\ x.outcome = txn[s].outcome
          \/ x.seen = [r \in OpenDebts |-> rcv[r]] /\ x.outcome = "NONE"

LEMMA LoadSteps ==
    ASSUME TypeInv, [Next]_vars
    PROVE  \/ UNCHANGED <<rcv, txn>>
           \/ \E s \in Session : \E x : txn' = [txn EXCEPT ![s] = x] /\ Loads(s, x)
<1> DEFINE Loaded(s) == \E x : txn' = [txn EXCEPT ![s] = x] /\ Loads(s, x)
<1>1. ASSUME UNCHANGED vars PROVE UNCHANGED <<rcv, txn>>
  BY <1>1 DEF vars
<1>2. ASSUME NEW s \in Session, EndTransaction(s) PROVE Loaded(s)
  <2>1. DOMAIN Idle.seen = {}
    BY DEF Idle, NothingSeen
  <2> QED
    BY <1>2, <2>1 DEF EndTransaction, Loads
<1>3. ASSUME NEW s \in Session, MatchPropose(s) \/ KeyShareNext(s) \/ SelectDebts(s)
                              \/ RowLockNext(s)
      PROVE  Loaded(s)
  <2>1. UNCHANGED rcv
    BY <1>3 DEF MatchPropose, KeyShareNext, SelectDebts, RowLockNext, store
  <2>2. txn[s] \in Transaction
    BY SessionFacts
  <2>3. PICK pc, todo, rows, done :
           txn' = [txn EXCEPT ![s] = [txn[s] EXCEPT !.pc = pc, !.todo = todo,
                                                    !.rows = rows, !.run = done]]
    <3>1. CASE MatchPropose(s)
      <4>1. PICK q : txn' = [txn EXCEPT ![s].pc = "insert", ![s].todo = q,
                                 ![s].run = RankOne(txn[s].tx, txn[s].seen, q)]
        BY <3>1 DEF MatchPropose
      <4>2. txn' = [txn EXCEPT ![s] = [txn[s] EXCEPT !.pc = "insert", !.todo = q,
                                 !.rows = txn[s].rows,
                                 !.run = RankOne(txn[s].tx, txn[s].seen, q)]]
        BY <2>2, <4>1 DEF Transaction, TypeInv
      <4> QED
        BY <4>2
    <3>2. CASE KeyShareNext(s) \/ RowLockNext(s)
      <4>1. txn' = [txn EXCEPT ![s].todo = Tail(@)]
        BY <3>2 DEF KeyShareNext, RowLockNext
      <4>2. txn' = [txn EXCEPT ![s] = [txn[s] EXCEPT !.pc = txn[s].pc, !.todo = Tail(txn[s].todo),
                                 !.rows = txn[s].rows, !.run = txn[s].run]]
        BY <2>2, <4>1 DEF Transaction, TypeInv
      <4> QED
        BY <4>2
    <3>3. CASE SelectDebts(s)
      <4>1. PICK q, rows : txn' = [txn EXCEPT ![s].pc = "lock", ![s].todo = q, ![s].rows = rows]
        BY <3>3 DEF SelectDebts, SelectForUpdate
      <4>2. txn' = [txn EXCEPT ![s] = [txn[s] EXCEPT !.pc = "lock", !.todo = q,
                                 !.rows = rows, !.run = txn[s].run]]
        BY <2>2, <4>1 DEF Transaction, TypeInv
      <4> QED
        BY <4>2
    <3> QED
      BY <1>3, <3>1, <3>2, <3>3
  <2> DEFINE x == [txn[s] EXCEPT !.pc = pc, !.todo = todo, !.rows = rows, !.run = done]
  <2>4. x.seen = txn[s].seen /\ x.outcome = txn[s].outcome
    BY <2>2 DEF Transaction
  <2> HIDE DEF x
  <2>5. txn' = [txn EXCEPT ![s] = x]
    BY <2>3 DEF x
  <2> QED
    BY <2>1, <2>4, <2>5 DEF Loads
<1>4. ASSUME NEW s \in Session, Step(s) \/ Abort(s) PROVE Loaded(s)
  <2>1. \/ EndTransaction(s)
        \/ MatchPropose(s) \/ KeyShareNext(s) \/ SelectDebts(s) \/ RowLockNext(s)
    BY <1>4 DEF Step, Abort, Rollback, CommitRun, Book, BookRefused, BookReturn,
                BookReturnRefused, CommitLabel, DeadlockVictim
  <2> QED
    BY <1>2, <1>3, <2>1
<1>5. ASSUME NEW s \in Session, NEW t \in Payment, MatchBegin(s, t) PROVE Loaded(s)
  <2> DEFINE x == [Idle EXCEPT !.pc = "propose", !.tx = t, !.seen = [r \in OpenDebts |-> rcv[r]]]
  <2>1. x.seen = [r \in OpenDebts |-> rcv[r]] /\ x.outcome = "NONE"
    BY DEF Idle
  <2>2. txn' = [txn EXCEPT ![s] = x] /\ UNCHANGED rcv
    BY <1>5 DEF MatchBegin, store
  <2> HIDE DEF x
  <2> QED
    BY <2>1, <2>2 DEF Loads
<1>6. ASSUME NEW s \in Session, NEW t \in Payment, DecideConfirm(s, t) PROVE Loaded(s)
  <2> DEFINE x == [Idle EXCEPT !.pc = "settle", !.tx = t, !.run = run[t], !.outcome = "CONFIRMED"]
  <2>1. DOMAIN x.seen = {}
    BY DEF Idle, NothingSeen
  <2>2. txn' = [txn EXCEPT ![s] = x]
    BY <1>6 DEF DecideConfirm
  <2> HIDE DEF x
  <2> QED
    BY <2>1, <2>2 DEF Loads
<1>7. ASSUME NEW s \in Session, NEW t \in Return, ReturnBegin(s, t) PROVE Loaded(s)
  <2>1. PICK i, q, rows :
           txn' = [txn EXCEPT ![s] = [Idle EXCEPT !.pc = "lock", !.tx = t,
                                        !.todo = q, !.rows = rows, !.original = i]]
    BY <1>7 DEF ReturnBegin
  <2> DEFINE x == [Idle EXCEPT !.pc = "lock", !.tx = t, !.todo = q, !.rows = rows, !.original = i]
  <2>2. DOMAIN x.seen = {}
    BY DEF Idle, NothingSeen
  <2> HIDE DEF x
  <2>3. txn' = [txn EXCEPT ![s] = x]
    BY <2>1 DEF x
  <2> QED
    BY <2>2, <2>3 DEF Loads
<1>8. ASSUME NEW s \in Session, NEW t \in Movement, NEW action, ClassifyBegin(s, t, action)
      PROVE  Loaded(s)
  <2> DEFINE x == [Idle EXCEPT !.pc = "classify", !.tx = t, !.outcome = action]
  <2>1. DOMAIN x.seen = {}
    BY DEF Idle, NothingSeen
  <2>2. txn' = [txn EXCEPT ![s] = x]
    BY <1>8 DEF ClassifyBegin
  <2> HIDE DEF x
  <2> QED
    BY <2>1, <2>2 DEF Loads
<1>9. ASSUME NEW s \in Session, NEW t \in Payment, DecideNegative(s, t)
      PROVE  UNCHANGED <<rcv, txn>>
  BY <1>9 DEF DecideNegative
<1> HIDE DEF Loaded
<1>10. UNCHANGED <<rcv, txn>> \/ \E s \in Session : Loaded(s)
  <2> SUFFICES ASSUME ~ UNCHANGED vars PROVE UNCHANGED <<rcv, txn>> \/ \E s \in Session : Loaded(s)
    BY <1>1
  <2>1. PICK s \in Session :
           \/ Step(s) \/ Abort(s)
           \/ \E t \in Payment : MatchBegin(s, t) \/ DecideConfirm(s, t) \/ DecideNegative(s, t)
           \/ \E t \in Return : ReturnBegin(s, t)
           \/ \E t \in Movement, action \in {"IGNORED", "RESTORED"} : ClassifyBegin(s, t, action)
    BY DEF Next
  <2>2. CASE Step(s) \/ Abort(s)
    BY <1>4, <2>2
  <2>3. CASE \E t \in Payment : MatchBegin(s, t) \/ DecideConfirm(s, t) \/ DecideNegative(s, t)
    BY <1>5, <1>6, <1>9, <2>3
  <2>4. CASE \E t \in Return : ReturnBegin(s, t)
    BY <1>7, <2>4
  <2>5. CASE \E t \in Movement, action \in {"IGNORED", "RESTORED"} : ClassifyBegin(s, t, action)
    BY <1>8, <2>5
  <2> QED
    BY <2>1, <2>2, <2>3, <2>4, <2>5
<1> QED
  BY <1>10 DEF Loaded

-----------------------------------------------------------------------------
(* One request at a time.                                                  *)

OneAtATime == \A s, t \in Session : s = t

\* What a session has loaded is still so.
Undisturbed == \A s \in Session : \A r \in DOMAIN txn[s].seen : txn[s].seen[r] = rcv[r]

LEMMA AloneUndisturbed ==
    ASSUME OneAtATime, TypeInv, Undisturbed, [Next]_vars
    PROVE  Undisturbed'
<1>1. CASE UNCHANGED <<rcv, txn>>
  BY <1>1 DEF Undisturbed
<1>2. ASSUME NEW s \in Session, NEW x, txn' = [txn EXCEPT ![s] = x], Loads(s, x)
      PROVE  Undisturbed'
  <2>1. txn'[s] = x
    BY <1>2 DEF TypeInv
  <2>2. \A r \in DOMAIN x.seen : x.seen[r] = rcv'[r]
    <3>1. CASE DOMAIN x.seen = {}
      BY <3>1
    <3>2. CASE rcv' = rcv /\ x.seen = txn[s].seen
      BY <3>2 DEF Undisturbed
    <3>3. CASE rcv' = rcv /\ x.seen = [r \in OpenDebts |-> rcv[r]]
      BY <3>3
    <3> QED
      BY <1>2, <3>1, <3>2, <3>3 DEF Loads
  <2> QED
    BY <2>1, <2>2 DEF Undisturbed, OneAtATime
<1> QED
  BY <1>1, <1>2, LoadSteps

LEMMA UndisturbedSettles == Undisturbed => SettlesCurrentRows
  BY DEF Undisturbed, SettlesCurrentRows, View

\* Without a concurrent request the receivable rows are the projection of the
\* ledger, through every settlement, return and refusal (matching_service.py).
THEOREM ProjectionAlone == OneAtATime => (Spec => []ProjectionMatchesLedger)
<1> SUFFICES ASSUME OneAtATime PROVE Spec => []ProjectionMatchesLedger
  OBVIOUS
<1>1. Init => TypeInv /\ Undisturbed
  <2>1. Init => Undisturbed
    BY DEF Init, Undisturbed, Idle, NothingSeen
  <2> QED
    BY <2>1, InitType
<1>2. TypeInv /\ Undisturbed /\ [Next]_vars => TypeInv' /\ Undisturbed'
  BY NextType, AloneUndisturbed
<1> QED
  BY <1>1, <1>2, UndisturbedSettles, CurrentRowsProject, PTL DEF Spec

-----------------------------------------------------------------------------
(* Confirmations.                                                          *)

\* No session is about to book a run that nobody has reviewed.
NothingAutomatic == \A s \in Session : txn[s].run.decision # "AUTO_MATCH"

\* decide_match() loads no receivable before it locks it.
ConfirmsUnseen ==
    \A s \in Session : txn[s].outcome = "CONFIRMED" => DOMAIN txn[s].seen = {}

LEMMA NextUnseen == TypeInv /\ ConfirmsUnseen /\ [Next]_vars => ConfirmsUnseen'
<1> SUFFICES ASSUME TypeInv, ConfirmsUnseen, [Next]_vars PROVE ConfirmsUnseen'
  OBVIOUS
<1>1. CASE UNCHANGED <<rcv, txn>>
  BY <1>1 DEF ConfirmsUnseen
<1>2. ASSUME NEW s \in Session, NEW x, txn' = [txn EXCEPT ![s] = x], Loads(s, x)
      PROVE  ConfirmsUnseen'
  <2>1. txn'[s] = x /\ \A y \in Session : y # s => txn'[y] = txn[y]
    BY <1>2 DEF TypeInv
  <2>2. x.outcome = "CONFIRMED" => DOMAIN x.seen = {}
    BY <1>2 DEF Loads, ConfirmsUnseen
  <2> QED
    BY <2>1, <2>2 DEF ConfirmsUnseen
<1> QED
  BY <1>1, <1>2, LoadSteps

LEMMA ConfirmationsSettleCurrent ==
    SafeInv /\ ConfirmsUnseen /\ NothingAutomatic => SettlesCurrentRows
<1> SUFFICES ASSUME SafeInv, ConfirmsUnseen, NothingAutomatic, NEW s \in Session,
                    txn[s].pc = "lock", txn[s].todo = <<>>, txn[s].tx \in Payment,
                    NEW r \in Returned(s)
             PROVE  View(s)[r] = rcv[r]
  BY DEF SettlesCurrentRows
<1>1. Reviewed(txn[s]) \/ Automatic(txn[s])
  BY DEF SafeInv, Claim
<1>2. txn[s].outcome = "CONFIRMED"
  BY <1>1 DEF Reviewed, Automatic, NothingAutomatic
<1> QED
  BY <1>2 DEF ConfirmsUnseen, View

\* Where every booking is one that the owner confirmed, the receivable rows are
\* the projection of the ledger for any number of concurrent requests: a
\* confirmation locks its debts before it reads them (matching_service.py).
THEOREM ConfirmedPaymentsProject ==
    Spec /\ []NothingAutomatic => []ProjectionMatchesLedger
<1>1. Init => SafeInv /\ ConfirmsUnseen
  <2>1. Init => ConfirmsUnseen
    BY DEF Init, ConfirmsUnseen, Idle, NothingSeen
  <2> QED
    BY <2>1, InitSafe
<1>2. SafeInv /\ ConfirmsUnseen /\ [Next]_vars => SafeInv' /\ ConfirmsUnseen'
  BY NextSafe, NextUnseen DEF SafeInv
<1> QED
  BY <1>1, <1>2, ConfirmationsSettleCurrent, CurrentRowsProject, PTL DEF Spec

-----------------------------------------------------------------------------
(* The workspace: the movements of a query in one order.                   *)

\* One of finitely many has the least value.
LEMMA LeastIn ==
    ASSUME NEW S, IsFiniteSet(S), S # {}, NEW h, \A t \in S : h[t] \in Int
    PROVE  \E u \in S : \A t \in S : h[u] <= h[t]
<1> DEFINE F == {s \in SUBSET S : s # {} /\ ~ \E u \in s : \A t \in s : h[u] <= h[t]}
<1>1. SUFFICES ASSUME F # {} PROVE FALSE
  OBVIOUS
<1>2. PICK s \in F : \A t \in F : t \subseteq s => t = s
  <2>1. \A t \in F : IsFiniteSet(t)
    BY FS_Subset
  <2> HIDE DEF F
  <2> QED
    BY <1>1, <2>1, SmallestOf
<1>3. PICK x : x \in s
  OBVIOUS
<1>4. /\ s \subseteq S /\ s \ {x} \subseteq s /\ s \ {x} # s
      /\ ~ \E u \in s : \A t \in s : h[u] <= h[t]
  BY <1>3
<1>5. s \ {x} \notin F
  BY <1>2, <1>4
<1>6. CASE s \ {x} = {}
  <2>1. s = {x} /\ h[x] \in Int
    BY <1>3, <1>4, <1>6
  <2> QED
    BY <1>4, <2>1
<1>7. CASE s \ {x} # {}
  <2>1. PICK u \in s \ {x} : \A t \in s \ {x} : h[u] <= h[t]
    BY <1>4, <1>5, <1>7
  <2>2. \A t \in s : h[t] \in Int
    BY <1>4
  <2>3. CASE h[u] <= h[x]
    <3>1. \A t \in s : h[u] <= h[t]
      BY <2>1, <2>3
    <3> QED
      BY <1>4, <2>1, <3>1
  <2>4. CASE ~(h[u] <= h[x])
    <3>1. \A t \in s : h[x] <= h[t]
      BY <1>3, <2>1, <2>2, <2>4
    <3> QED
      BY <1>3, <1>4, <3>1
  <2> QED
    BY <2>3, <2>4
<1> QED
  BY <1>6, <1>7

\* The places of the movements of S, the latest booking date first.
Places(place, S) ==
    \A t, u \in S : t # u => /\ place[t] # place[u]
                             /\ Tx[t].booked > Tx[u].booked => place[t] < place[u]

\* They can be numbered: the oldest has the last place.
LEMMA PlacesExist ==
    \E place \in [Movement -> 1 .. Cardinality(Movement)] : Places(place, Movement)
<1> DEFINE Numbered(s) == \E place \in [s -> 1 .. Cardinality(s)] : Places(place, s)
           F == {s \in SUBSET Movement : ~ Numbered(s)}
<1>1. SUFFICES ASSUME F # {} PROVE FALSE
  OBVIOUS
<1>2. PICK s \in F : \A t \in F : t \subseteq s => t = s
  <2>1. \A t \in F : IsFiniteSet(t)
    BY FS_Subset, WorkspaceAssumption
  <2> HIDE DEF F
  <2> QED
    BY <1>1, <2>1, SmallestOf
<1>3. s \subseteq Movement /\ IsFiniteSet(s) /\ ~ Numbered(s)
  BY FS_Subset, WorkspaceAssumption
<1>4. s # {}
  <2>1. SUFFICES ASSUME s = {} PROVE FALSE
    OBVIOUS
  <2>2. [t \in {} |-> 1] \in [s -> 1 .. Cardinality(s)]
    BY <2>1
  <2>3. Places([t \in {} |-> 1], s)
    BY <2>1 DEF Places
  <2> QED
    BY <1>3, <2>2, <2>3
<1>5. PICK u \in s : \A t \in s : Tx[u].booked <= Tx[t].booked
  <2> DEFINE h == [t \in s |-> Tx[t].booked]
  <2>1. \A t \in s : h[t] \in Int
    BY <1>3, WorkspaceAssumption
  <2>2. PICK u \in s : \A t \in s : h[u] <= h[t]
    <3> HIDE DEF h
    <3> QED
      BY <1>3, <1>4, <2>1, LeastIn
  <2> QED
    BY <2>2
<1> DEFINE others == s \ {u}
           n == Cardinality(s)
<1>6. n \in Nat /\ Cardinality(others) = n - 1
  BY <1>3, FS_CardinalityType, FS_RemoveElement
<1>7. Numbered(others)
  <2>1. others \subseteq s /\ others # s /\ others \subseteq Movement
    BY <1>3
  <2>2. others \notin F
    <3> HIDE DEF F, others
    <3> QED
      BY <1>2, <2>1
  <2> HIDE DEF others, Numbered
  <2> QED
    BY <2>1, <2>2
<1>8. PICK place \in [others -> 1 .. n - 1] : Places(place, others)
  BY <1>6, <1>7
<1> DEFINE all == [t \in s |-> IF t = u THEN n ELSE place[t]]
<1>9. n >= 1
  <2>1. Cardinality(s) # 0
    BY <1>3, <1>4, FS_EmptySet
  <2> QED
    BY <1>6, <2>1
<1>10. \A t \in s : t # u => all[t] = place[t] /\ place[t] \in 1 .. n - 1
  OBVIOUS
<1>11. all[u] = n
  OBVIOUS
<1>12. all \in [s -> 1 .. n]
  <2>1. \A t \in s : all[t] \in 1 .. n
    BY <1>6, <1>9, <1>10, <1>11
  <2> QED
    BY <2>1
<1>13. Places(all, s)
  <2> SUFFICES ASSUME NEW t \in s, NEW v \in s, t # v
               PROVE  /\ all[t] # all[v]
                      /\ Tx[t].booked > Tx[v].booked => all[t] < all[v]
    BY DEF Places
  <2> HIDE DEF all
  <2>1. CASE t # u /\ v # u
    BY <1>8, <1>10, <2>1 DEF Places
  <2>2. CASE t = u
    <3>1. v # u /\ all[v] \in 1 .. n - 1 /\ ~(Tx[u].booked > Tx[v].booked)
      BY <1>3, <1>5, <1>10, <2>2, WorkspaceAssumption
    <3> QED
      BY <1>6, <1>11, <2>2, <3>1
  <2>3. CASE v = u
    <3>1. t # u /\ all[t] \in 1 .. n - 1
      BY <1>10, <2>3
    <3> QED
      BY <1>6, <1>11, <2>3, <3>1
  <2> QED
    BY <2>1, <2>2, <2>3
<1> HIDE DEF all
<1> QED
  BY <1>3, <1>12, <1>13

LEMMA NewestFirstIs ==
    /\ NewestFirst \in [Movement -> 1 .. Cardinality(Movement)]
    /\ \A t, u \in Movement : t # u => NewestFirst[t] # NewestFirst[u]
    /\ \A t \in Movement : NewestFirst[t] \in Nat
<1>1. \E place \in [Movement -> 1 .. Cardinality(Movement)] :
         \A t, u \in Movement :
            t # u => /\ place[t] # place[u]
                     /\ Tx[t].booked > Tx[u].booked => place[t] < place[u]
  BY PlacesExist DEF Places
<1>2. /\ NewestFirst \in [Movement -> 1 .. Cardinality(Movement)]
      /\ \A t, u \in Movement : t # u => NewestFirst[t] # NewestFirst[u]
  BY <1>1 DEF NewestFirst
<1>3. Cardinality(Movement) \in Nat
  BY FS_CardinalityType, WorkspaceAssumption
<1> QED
  BY <1>2, <1>3

\* Rows of S in their order.
Ordered(rows) ==
    \A i, j \in DOMAIN rows : i < j => NewestFirst[rows[i]] < NewestFirst[rows[j]]

LEMMA OrderExists ==
    ASSUME NEW S \in SUBSET Movement
    PROVE  \E rows \in [1 .. Cardinality(S) -> S] : Ordered(rows)
<1> DEFINE Listable(s) == \E rows \in [1 .. Cardinality(s) -> s] : Ordered(rows)
           F == {s \in SUBSET Movement : ~ Listable(s)}
<1>1. SUFFICES ASSUME F # {} PROVE FALSE
  OBVIOUS
<1>2. PICK s \in F : \A t \in F : t \subseteq s => t = s
  <2>1. \A t \in F : IsFiniteSet(t)
    BY FS_Subset, WorkspaceAssumption
  <2> HIDE DEF F
  <2> QED
    BY <1>1, <2>1, SmallestOf
<1>3. s \subseteq Movement /\ IsFiniteSet(s) /\ ~ Listable(s)
  BY FS_Subset, WorkspaceAssumption
<1>4. s # {}
  <2>1. SUFFICES ASSUME s = {} PROVE FALSE
    OBVIOUS
  <2>2. Cardinality(s) = 0
    BY <2>1, FS_EmptySet
  <2>3. [i \in 1 .. 0 |-> i] \in [1 .. Cardinality(s) -> s]
    BY <2>1, <2>2
  <2>4. Ordered([i \in 1 .. 0 |-> i])
    BY DEF Ordered
  <2> QED
    BY <1>3, <2>3, <2>4
<1>5. PICK u \in s : \A t \in s : NewestFirst[t] <= NewestFirst[u]
  <2> DEFINE h == [t \in s |-> 0 - NewestFirst[t]]
  <2>0. \A t \in s : NewestFirst[t] \in Nat
    BY <1>3, NewestFirstIs
  <2>1. \A t \in s : h[t] \in Int
    BY <2>0
  <2>2. PICK u \in s : \A t \in s : h[u] <= h[t]
    <3> HIDE DEF h
    <3> QED
      BY <1>3, <1>4, <2>1, LeastIn
  <2>3. \A t \in s : NewestFirst[t] <= NewestFirst[u]
    BY <2>0, <2>2
  <2> QED
    BY <2>3
<1> DEFINE others == s \ {u}
           n == Cardinality(s)
<1>6. n \in Nat /\ Cardinality(others) = n - 1
  BY <1>3, FS_CardinalityType, FS_RemoveElement
<1>7. Listable(others)
  <2>1. others \subseteq s /\ others # s /\ others \subseteq Movement
    BY <1>3
  <2>2. others \notin F
    <3> HIDE DEF F, others
    <3> QED
      BY <1>2, <2>1
  <2> HIDE DEF others, Listable
  <2> QED
    BY <2>1, <2>2
<1>8. PICK rows \in [1 .. n - 1 -> others] : Ordered(rows)
  BY <1>6, <1>7
<1> DEFINE all == [i \in 1 .. n |-> IF i = n THEN u ELSE rows[i]]
<1>9. n >= 1
  <2>1. Cardinality(s) # 0
    BY <1>3, <1>4, FS_EmptySet
  <2> QED
    BY <1>6, <2>1
<1>10. \A i \in 1 .. n : i # n => i \in 1 .. n - 1 /\ all[i] = rows[i] /\ rows[i] \in others
  BY <1>6
<1>11. all[n] = u /\ n \in 1 .. n
  BY <1>6, <1>9
<1>12. all \in [1 .. n -> s]
  <2>1. \A i \in 1 .. n : all[i] \in s
    BY <1>10, <1>11
  <2> QED
    BY <2>1
<1>13. Ordered(all)
  <2>1. DOMAIN all = 1 .. n
    OBVIOUS
  <2> SUFFICES ASSUME NEW i \in 1 .. n, NEW j \in 1 .. n, i < j
               PROVE  NewestFirst[all[i]] < NewestFirst[all[j]]
    BY <2>1 DEF Ordered
  <2> HIDE DEF all
  <2>2. i # n
    BY <1>6
  <2>3. CASE j # n
    <3>1. i \in DOMAIN rows /\ j \in DOMAIN rows
      BY <1>10, <2>2, <2>3
    <3> QED
      BY <1>8, <1>10, <2>2, <2>3, <3>1 DEF Ordered
  <2>4. CASE j = n
    <3>1. all[i] \in s /\ all[i] # u
      BY <1>10, <2>2
    <3>2. NewestFirst[all[i]] <= NewestFirst[u] /\ NewestFirst[all[i]] # NewestFirst[u]
      BY <1>3, <1>5, <3>1, NewestFirstIs
    <3>3. NewestFirst[all[i]] \in Nat /\ NewestFirst[u] \in Nat
      BY <1>3, <3>1, NewestFirstIs
    <3> QED
      BY <1>11, <2>4, <3>2, <3>3
  <2> QED
    BY <2>3, <2>4
<1> HIDE DEF all
<1> QED
  BY <1>3, <1>12, <1>13

\* A list names each of its movements once.
LEMMA InOrderLists ==
    ASSUME NEW S \in SUBSET Movement
    PROVE  /\ Cardinality(S) \in Nat /\ IsFiniteSet(S)
           /\ InOrder(S) \in [1 .. Cardinality(S) -> S]
           /\ InOrder(S) \in Seq(S) /\ Len(InOrder(S)) = Cardinality(S)
           /\ \A i, j \in 1 .. Cardinality(S) : InOrder(S)[i] = InOrder(S)[j] => i = j
           /\ \A t \in S : \E i \in 1 .. Cardinality(S) : InOrder(S)[i] = t
<1> DEFINE n == Cardinality(S)
           rows == InOrder(S)
<1>1. IsFiniteSet(S) /\ n \in Nat
  BY FS_Subset, FS_CardinalityType, WorkspaceAssumption
<1>2. rows \in [1 .. n -> S] /\ Ordered(rows)
  BY OrderExists DEF InOrder, Ordered
<1>3. rows \in Seq(S) /\ Len(rows) = n
  BY <1>1, <1>2
<1> HIDE DEF n, rows
<1>4. ASSUME NEW i \in 1 .. n, NEW j \in 1 .. n, rows[i] = rows[j] PROVE i = j
  <2>1. NewestFirst[rows[i]] \in Nat
    BY <1>2, NewestFirstIs
  <2>2. ~(i < j) /\ ~(j < i)
    BY <1>2, <1>4, <2>1 DEF Ordered
  <2> QED
    BY <1>1, <2>2
<1>5. rows \in Injection(1 .. n, S)
  BY <1>2, <1>4 DEF Injection, IsInjective
<1>6. Cardinality(1 .. n) = n
  BY <1>1, FS_Interval
<1>7. rows \in Surjection(1 .. n, S)
  BY <1>1, <1>5, <1>6, FS_Injection DEF n
<1>8. \A t \in S : \E i \in 1 .. n : rows[i] = t
  BY <1>7 DEF Surjection
<1> QED
  BY <1>1, <1>2, <1>3, <1>4, <1>8 DEF n, rows

-----------------------------------------------------------------------------
(* The pages.                                                              *)

\* A list names each of its rows once.
Distinct(rows) == \A i, j \in 1 .. Len(rows) : rows[i] = rows[j] => i = j

\* The cursor after k rows.
CursorAt(rows, k) == IF k = 0 THEN None ELSE rows[k]

\* The page shows the rows after k, and its cursor is the last of them.
PageAfter(rows, cursor, limit, k) ==
    /\ Page(rows, cursor, limit).rows = SubSeq(rows, k + 1, Least(k + limit, Len(rows)))
    /\ Page(rows, cursor, limit).next = IF k + limit < Len(rows) THEN rows[k + limit] ELSE None

\* A page begins after the row its cursor names, without a cursor at the first.
LEMMA PageFollows ==
    ASSUME NEW rows \in Seq(Movement), Distinct(rows), NEW limit \in Nat \ {0},
           NEW k \in Nat, k < Len(rows), NEW cursor, cursor = CursorAt(rows, k)
    PROVE  PageAfter(rows, cursor, limit, k)
<1> DEFINE at == {i \in DOMAIN rows : rows[i] = cursor}
           start == IF at = {} THEN 0 ELSE CHOOSE i \in at : TRUE
           last == Least(start + limit, Len(rows))
           page == SubSeq(rows, start + 1, last)
<1>1. /\ Len(rows) \in Nat /\ DOMAIN rows = 1 .. Len(rows)
      /\ \A i \in 1 .. Len(rows) : rows[i] \in Movement
  BY LenProperties, ElementOfSeq
<1>2. start = k
  <2>1. CASE k = 0
    <3>1. \A i \in DOMAIN rows : rows[i] # cursor
      BY <1>1, <2>1, WorkspaceAssumption DEF CursorAt
    <3>2. at = {}
      BY <3>1
    <3> QED
      BY <2>1, <3>2
  <2>2. CASE k # 0
    <3>1. k \in DOMAIN rows /\ cursor = rows[k]
      BY <1>1, <2>2 DEF CursorAt
    <3>2. at = {k}
      BY <1>1, <3>1 DEF Distinct
    <3> QED
      BY <3>2
  <2> QED
    BY <2>1, <2>2
<1> HIDE DEF at, start
<1>3. k + limit < Len(rows) => page # <<>> /\ page[Len(page)] = rows[k + limit]
  <2> SUFFICES ASSUME k + limit < Len(rows)
               PROVE  page # <<>> /\ page[Len(page)] = rows[k + limit]
    OBVIOUS
  <2>1. last = k + limit
    BY <1>1, <1>2 DEF Least
  <2> HIDE DEF last
  <2>2. \A i \in k + 1 .. k + limit : rows[i] \in Movement
    BY <1>1
  <2>3. /\ Len(page) = limit
        /\ \A i \in 1 .. limit : page[i] = rows[k + i]
    <3>1. /\ Len(page) = IF k + 1 <= k + limit THEN (k + limit) - (k + 1) + 1 ELSE 0
          /\ \A i \in 1 .. (k + limit) - (k + 1) + 1 : page[i] = rows[(k + 1) + i - 1]
      <4>1. k + 1 \in Int /\ k + limit \in Int
        OBVIOUS
      <4> QED
        BY <1>2, <2>1, <2>2, <4>1, SubSeqProperties
    <3>2. (k + limit) - (k + 1) + 1 = limit /\ k + 1 <= k + limit
      OBVIOUS
    <3>3. \A i \in 1 .. limit : (k + 1) + i - 1 = k + i
      OBVIOUS
    <3> QED
      BY <3>1, <3>2, <3>3
  <2>4. limit \in 1 .. limit
    OBVIOUS
  <2>5. page[limit] = rows[k + limit]
    BY <2>3, <2>4
  <2>6. page # <<>>
    <3>1. Len(<<>>) = 0
      OBVIOUS
    <3> QED
      BY <2>3, <3>1
  <2> QED
    BY <2>3, <2>5, <2>6
<1>4. Page(rows, cursor, limit) =
         [rows |-> page,
          next |-> IF start + limit < Len(rows) /\ page # <<>> THEN page[Len(page)] ELSE None]
  BY DEF Page, at, start
<1> DEFINE beyond == IF start + limit < Len(rows) /\ page # <<>> THEN page[Len(page)] ELSE None
<1>5. beyond = IF k + limit < Len(rows) THEN rows[k + limit] ELSE None
  <2> HIDE DEF page
  <2> QED
    BY <1>2, <1>3
<1>6. page = SubSeq(rows, k + 1, Least(k + limit, Len(rows)))
  BY <1>2
<1>7. Page(rows, cursor, limit) = [rows |-> page, next |-> beyond]
  BY <1>4
<1> HIDE DEF page, beyond, last
<1>8. Page(rows, cursor, limit).rows = page /\ Page(rows, cursor, limit).next = beyond
  BY <1>7
<1> QED
  BY <1>5, <1>6, <1>8 DEF PageAfter

\* Following the cursors of a query: the n-th answer.
IsAnswers(f, q, shown, m) ==
    f = [n \in 1 .. m |-> Answer(q, shown, IF n = 1 THEN None ELSE f[n - 1].page.next)]

LEMMA AnswersExist ==
    ASSUME NEW q, NEW shown, NEW m \in Nat
    PROVE  \E f : IsAnswers(f, q, shown, m)
<1> DEFINE D == {k \in 0 .. m : ~ \E f : IsAnswers(f, q, shown, k)}
<1>1. SUFFICES ASSUME D # {} PROVE FALSE
  <2>1. m \in 0 .. m
    OBVIOUS
  <2> QED
    BY <1>1, <2>1
<1>2. PICK k \in D : \A e \in D : k <= e
  <2>1. D \subseteq Nat
    OBVIOUS
  <2> HIDE DEF D
  <2> QED
    BY <1>1, <2>1, LeastOf
<1>3. k \in 0 .. m /\ ~ \E f : IsAnswers(f, q, shown, k)
  OBVIOUS
<1>4. CASE k = 0
  <2> DEFINE none == [i \in 1 .. 0 |-> 0]
  <2>1. \A i \in 1 .. 0 : FALSE
    OBVIOUS
  <2>2. none = [n \in 1 .. 0 |-> Answer(q, shown, IF n = 1 THEN None ELSE none[n - 1].page.next)]
    BY <2>1
  <2>3. IsAnswers(none, q, shown, 0)
    <3> HIDE DEF none
    <3> QED
      BY <2>2 DEF IsAnswers
  <2> QED
    BY <1>3, <1>4, <2>3
<1>5. CASE k # 0
  <2>1. k - 1 \in 0 .. m /\ ~(k <= k - 1)
    BY <1>3, <1>5
  <2>2. k - 1 \notin D
    <3> HIDE DEF D
    <3> QED
      BY <1>2, <2>1
  <2>3. PICK f : IsAnswers(f, q, shown, k - 1)
    BY <2>1, <2>2
  <2> HIDE DEF D
  <2> DEFINE g == [i \in 1 .. k |-> Answer(q, shown, IF i = 1 THEN None ELSE f[i - 1].page.next)]
  <2>4. \A i \in 1 .. k : i # 1 => i - 1 \in 1 .. k - 1 /\ i - 1 \in 1 .. k
    BY <1>3
  <2>5. \A i \in 1 .. k - 1 :
           f[i] = Answer(q, shown, IF i = 1 THEN None ELSE f[i - 1].page.next)
    <3> HIDE DEF g
    <3> QED
      BY <2>3 DEF IsAnswers
  <2>6. \A i \in 1 .. k - 1 : g[i] = f[i]
    <3>1. \A i \in 1 .. k - 1 : i \in 1 .. k
      BY <1>3
    <3> QED
      BY <2>5, <3>1
  <2>7. \A i \in 1 .. k : i # 1 => g[i - 1] = f[i - 1]
    <3> HIDE DEF g
    <3> QED
      BY <2>4, <2>6
  <2>8. IsAnswers(g, q, shown, k)
    <3>1. \A i \in 1 .. k : g[i] = Answer(q, shown, IF i = 1 THEN None ELSE g[i - 1].page.next)
      BY <2>7
    <3>2. g = [i \in 1 .. k |-> g[i]]
      OBVIOUS
    <3> HIDE DEF g
    <3> QED
      BY <3>1, <3>2 DEF IsAnswers
  <2> QED
    BY <1>3, <2>8
<1> QED
  BY <1>4, <1>5

\* The movements of a list.
KeptIn(q, shown) == {t \in Found(q) : q.status \in {"all", shown[t].status}}

LEMMA FoundMovements ==
    ASSUME NEW q, NEW shown
    PROVE  Found(q) \in SUBSET Movement /\ KeptIn(q, shown) \in SUBSET Movement
  BY DEF Found, InDirection, KeptIn, Movement

\* The arithmetic of pages of equal length.
LEMMA PageBounds ==
    ASSUME NEW limit \in Nat \ {0}, NEW n \in Nat \ {0}
    PROVE  /\ (n - 1) * limit \in Nat /\ n * limit \in Nat
           /\ (n - 1) * limit + limit = n * limit
           /\ (n - 1) * limit = 0 <=> n = 1
<1>1. (n - 1) * limit \in Nat /\ n * limit \in Nat
  OBVIOUS
<1>2. (n - 1) * limit + limit = n * limit
  OBVIOUS
<1>3. n = 1 => (n - 1) * limit = 0
  OBVIOUS
<1>4. n # 1 => (n - 1) * limit # 0
  <2> SUFFICES ASSUME n # 1 PROVE (n - 1) * limit # 0
    OBVIOUS
  <2>1. PICK m \in Nat : m = n - 1 /\ m # 0
    OBVIOUS
  <2>2. m * limit # 0
    BY <2>1
  <2> QED
    BY <2>1, <2>2
<1> QED
  BY <1>1, <1>2, <1>3, <1>4

\* What the n-th answer shows of the list.
ShowsPage(a, kept, limit, n) ==
    (n - 1) * limit < Len(kept) =>
        /\ a.page.rows = SubSeq(kept, (n - 1) * limit + 1, Least(n * limit, Len(kept)))
        /\ a.page.next = IF n * limit < Len(kept) THEN kept[n * limit] ELSE None

LEMMA AnswersShowPages ==
    ASSUME NEW q, q.limit \in Nat \ {0}, NEW shown, NEW m \in Nat,
           NEW f, IsAnswers(f, q, shown, m), NEW n \in 1 .. m
    PROVE  ShowsPage(f[n], Kept(q, shown), q.limit, n)
<1> DEFINE D == {k \in 1 .. m : ~ ShowsPage(f[k], Kept(q, shown), q.limit, k)}
           kept == Kept(q, shown)
           limit == q.limit
<1>1. SUFFICES ASSUME D # {} PROVE FALSE
  BY <1>1
<1>2. PICK k \in D : \A e \in D : k <= e
  <2>1. D \subseteq Nat
    OBVIOUS
  <2> HIDE DEF D
  <2> QED
    BY <1>1, <2>1, LeastOf
<1>3. k \in 1 .. m /\ ~ ShowsPage(f[k], kept, limit, k)
  OBVIOUS
<1>4. /\ kept \in Seq(Movement)
      /\ Distinct(kept)
      /\ Len(kept) \in Nat
  <2>1. KeptIn(q, shown) \in SUBSET Movement /\ kept = InOrder(KeptIn(q, shown))
    BY FoundMovements DEF Kept, KeptIn
  <2> HIDE DEF kept
  <2>2. /\ kept \in Seq(KeptIn(q, shown)) /\ Len(kept) = Cardinality(KeptIn(q, shown))
        /\ \A i, j \in 1 .. Len(kept) : kept[i] = kept[j] => i = j
    BY <2>1, InOrderLists
  <2>3. kept \in Seq(Movement)
    BY <2>1, <2>2
  <2> QED
    BY <2>2, <2>3, LenProperties DEF Distinct
<1>5. limit \in Nat \ {0}
  OBVIOUS
<1> HIDE DEF kept, limit
<1> DEFINE start == (k - 1) * limit
           cursor == IF k = 1 THEN None ELSE f[k - 1].page.next
<1>6. /\ k \in Nat \ {0} /\ start \in Nat /\ start + limit = k * limit /\ k * limit \in Nat
      /\ start = 0 <=> k = 1
  <2>1. k \in Nat \ {0}
    BY <1>3
  <2> QED
    BY <2>1, <1>5, PageBounds
<1>7. start < Len(kept)
  BY <1>3 DEF ShowsPage
<1>8. cursor = CursorAt(kept, start)
  <2>1. CASE k = 1
    BY <1>6, <2>1 DEF CursorAt
  <2>2. CASE k # 1
    <3>1. k - 1 \in 1 .. m /\ ~(k <= k - 1) /\ k - 1 \in Nat \ {0}
      BY <1>3, <2>2
    <3>2. k - 1 \notin D
      <4> HIDE DEF D
      <4> QED
        BY <1>2, <3>1
    <3>3. ShowsPage(f[k - 1], kept, limit, k - 1)
      BY <3>1, <3>2 DEF kept, limit
    <3>4. /\ ((k - 1) - 1) * limit \in Nat
          /\ ((k - 1) - 1) * limit + limit = start
      BY <1>5, <3>1, PageBounds
    <3>5. ((k - 1) - 1) * limit < Len(kept)
      BY <1>4, <1>5, <1>6, <1>7, <3>4
    <3>6. f[k - 1].page.next = kept[start]
      BY <1>7, <3>3, <3>5 DEF ShowsPage
    <3> QED
      BY <1>6, <2>2, <3>6 DEF CursorAt
  <2> QED
    BY <2>1, <2>2
<1>9. f[k] = Answer(q, shown, cursor)
  <2> HIDE DEF D
  <2> QED
    BY <1>3 DEF IsAnswers
<1>10. f[k].page = Page(kept, cursor, limit)
  BY <1>9 DEF Answer, kept, limit
<1> HIDE DEF start, cursor, D
<1>11. PageAfter(kept, cursor, limit, start)
  <2>1. kept \in Seq(Movement) /\ Distinct(kept) /\ start \in Nat
    BY <1>4, <1>6
  <2> QED
    BY <1>5, <1>7, <1>8, <2>1, PageFollows
<1>12. ShowsPage(f[k], kept, limit, k)
  BY <1>6, <1>10, <1>11 DEF ShowsPage, PageAfter, start
<1> QED
  BY <1>3, <1>12

\* The counter of a status is the length of its list.
LEMMA CountersAgree ==
    ASSUME NEW q, NEW shown, NEW cursor, q.status # "all" => q.status \in RowStatus
    PROVE  Answer(q, shown, cursor).total =
              IF q.status = "all" THEN Cardinality(Found(q))
              ELSE Answer(q, shown, cursor).counts[q.status]
<1> DEFINE rows == Listing(q)
           kept == Kept(q, shown)
           K == KeptIn(q, shown)
           N == Cardinality(Found(q))
<1>1. Answer(q, shown, cursor).total = Cardinality(K)
  <2>1. Len(kept) = Cardinality(K)
    BY FoundMovements, InOrderLists DEF Kept, KeptIn
  <2> QED
    BY <2>1 DEF Answer
<1>2. CASE q.status = "all"
  <2>1. K = Found(q)
    BY <1>2 DEF KeptIn
  <2> QED
    BY <1>1, <1>2, <2>1
<1>3. CASE q.status # "all"
  <2> DEFINE at == {i \in DOMAIN rows : shown[rows[i]].status = q.status}
  <2>1. Answer(q, shown, cursor).counts[q.status] = Cardinality(at)
    BY <1>3 DEF Answer
  <2>2. /\ rows \in [1 .. N -> Found(q)] /\ N \in Nat
        /\ \A i, j \in 1 .. N : rows[i] = rows[j] => i = j
        /\ \A t \in Found(q) : \E i \in 1 .. N : rows[i] = t
    BY FoundMovements, InOrderLists DEF Listing
  <2>3. K = {t \in Found(q) : shown[t].status = q.status}
    BY <1>3 DEF KeptIn
  <2> HIDE DEF rows, K
  <2>4. IsFiniteSet(at)
    <3>1. at \subseteq 1 .. N /\ IsFiniteSet(1 .. N)
      BY <2>2, FS_Interval
    <3> QED
      BY <3>1, FS_Subset
  <2> DEFINE b == [i \in at |-> rows[i]]
  <2>5. b \in Bijection(at, K)
    <3>1. b \in [at -> K]
      BY <2>2, <2>3
    <3>2. \A i, j \in at : b[i] = b[j] => i = j
      BY <2>2
    <3>3. \A t \in K : \E i \in at : b[i] = t
      BY <2>2, <2>3
    <3> HIDE DEF b, at
    <3> QED
      BY <3>1, <3>2, <3>3 DEF Bijection, Injection, Surjection, IsInjective
  <2>6. Cardinality(K) = Cardinality(at)
    <3>1. ExistsBijection(at, K)
      BY <2>5 DEF ExistsBijection
    <3> HIDE DEF at
    <3> QED
      BY <2>4, <3>1, FS_Bijection
  <2> HIDE DEF at
  <2> QED
    BY <1>1, <1>3, <2>1, <2>6
<1> QED
  BY <1>2, <1>3

\* What PagesAgree says of the answers.
InPages(answer, q, shown) ==
    LET kept == Kept(q, shown)
    IN  /\ answer[1].total = IF q.status = "all" THEN Cardinality(Found(q))
                             ELSE answer[1].counts[q.status]
        /\ \A n \in DOMAIN answer :
              (n - 1) * q.limit < Len(kept) =>
                  /\ answer[n].page.rows =
                        SubSeq(kept, (n - 1) * q.limit + 1, Least(n * q.limit, Len(kept)))
                  /\ (answer[n].page.next = None) = (n * q.limit >= Len(kept))

\* The pages of every query together show each movement it finds once.
LEMMA PagesAlwaysAgree ==
    ASSUME NEW q, q.limit \in Nat \ {0}, q.status \in RowStatus \cup {"all"}, NEW shown
    PROVE  PagesAgree(q, shown)
<1> DEFINE m == Cardinality(Movement) + 1
           kept == Kept(q, shown)
           Steps == CHOOSE f : IsAnswers(f, q, shown, m)
<1>1. Cardinality(Movement) \in Nat
  BY FS_CardinalityType, WorkspaceAssumption
<1>2. m \in Nat /\ 1 \in 1 .. m
  BY <1>1
<1>3. IsAnswers(Steps, q, shown, m)
  BY <1>2, AnswersExist
<1>4. DOMAIN Steps = 1 .. m
  <2> HIDE DEF Steps, m
  <2> QED
    BY <1>3 DEF IsAnswers
<1>5. Steps[1].total = IF q.status = "all" THEN Cardinality(Found(q))
                       ELSE Steps[1].counts[q.status]
  <2>1. Steps[1] = Answer(q, shown, None)
    <3> HIDE DEF Steps, m
    <3> QED
      BY <1>2, <1>3 DEF IsAnswers
  <2>2. q.status # "all" => q.status \in RowStatus
    OBVIOUS
  <2> HIDE DEF Steps, m
  <2> QED
    BY <2>1, <2>2, CountersAgree
<1>6. ASSUME NEW n \in 1 .. m, (n - 1) * q.limit < Len(kept)
      PROVE  /\ Steps[n].page.rows =
                   SubSeq(kept, (n - 1) * q.limit + 1, Least(n * q.limit, Len(kept)))
             /\ (Steps[n].page.next = None) = (n * q.limit >= Len(kept))
  <2>1. ShowsPage(Steps[n], kept, q.limit, n)
    <3> HIDE DEF Steps, m
    <3> QED
      BY <1>2, <1>3, AnswersShowPages
  <2>2. /\ Steps[n].page.rows =
              SubSeq(kept, (n - 1) * q.limit + 1, Least(n * q.limit, Len(kept)))
        /\ Steps[n].page.next = IF n * q.limit < Len(kept) THEN kept[n * q.limit] ELSE None
    <3> HIDE DEF Steps, m, kept
    <3> QED
      BY <1>6, <2>1 DEF ShowsPage
  <2>3. kept \in Seq(Movement)
    <3>1. KeptIn(q, shown) \in SUBSET Movement /\ kept = InOrder(KeptIn(q, shown))
      BY FoundMovements DEF Kept, KeptIn
    <3> HIDE DEF kept
    <3>2. kept \in Seq(KeptIn(q, shown))
      BY <3>1, InOrderLists
    <3> QED
      BY <3>1, <3>2
  <2>4. n * q.limit \in Nat /\ n * q.limit > 0
    <3>1. n \in Nat \ {0}
      BY <1>2
    <3>2. /\ n * q.limit \in Nat /\ (n - 1) * q.limit \in Nat
          /\ (n - 1) * q.limit + q.limit = n * q.limit
      BY <3>1, PageBounds
    <3> QED
      BY <3>2
  <2> HIDE DEF Steps, kept, m
  <2>5. n * q.limit < Len(kept) => kept[n * q.limit] # None
    <3> SUFFICES ASSUME n * q.limit < Len(kept) PROVE kept[n * q.limit] # None
      OBVIOUS
    <3>1. n * q.limit \in 1 .. Len(kept)
      BY <2>3, <2>4, LenProperties
    <3> QED
      BY <2>3, <3>1, ElementOfSeq, WorkspaceAssumption
  <2>6. Len(kept) \in Nat
    BY <2>3, LenProperties
  <2> QED
    BY <2>2, <2>4, <2>5, <2>6
<1>7. InPages(Steps, q, shown)
  <2> HIDE DEF Steps, m
  <2> QED
    BY <1>4, <1>5, <1>6 DEF InPages
<1> QED
  BY <1>7 DEF PagesAgree, InPages, IsAnswers

-----------------------------------------------------------------------------
(* The rows: a payment that leaves a credit has settled its debts.         *)

LEMMA TotalType ==
    ASSUME NEW row \in Row
    PROVE  Total(row) \in Nat
<1>1. row.costs \in Nat /\ row.interest \in Nat /\ row.principal \in Nat
  BY DEF Row
<1> QED
  BY <1>1 DEF Total

\* Once a debt takes all that is left, nothing is left at the end.
LEMMA CreditLeaves ==
    ASSUME NEW S, NEW view \in [S -> Row], NEW q \in Seq(S), NEW amount \in Nat,
           NEW x \in Settlements(q, view, amount), x.credit # 0, NEW i \in 1 .. Len(q)
    PROVE  x.avail[q[i]] \in Nat /\ Total(view[q[i]]) <= x.avail[q[i]]
<1> DEFINE n == Len(q)
           avail == x.avail
           open(k) == Total(view[q[k]])
           rest(k) == avail[q[k]] - Least(avail[q[k]], open(k))
           D == {k \in i .. n : rest(k) # 0}
<1>1. n \in Nat /\ n # 0 /\ \A k \in 1 .. n : q[k] \in S
  BY LenProperties, ElementOfSeq
<1>2. /\ avail \in [{q[k] : k \in 1 .. n} -> 0 .. amount]
      /\ \A k \in 1 .. n - 1 : avail[q[k + 1]] = rest(k)
      /\ x.credit = IF n = 0 THEN amount ELSE rest(n)
  BY DEF Settlements
<1>3. \A k \in 1 .. n : avail[q[k]] \in Nat /\ open(k) \in Nat
  <2> SUFFICES ASSUME NEW k \in 1 .. n PROVE avail[q[k]] \in Nat /\ open(k) \in Nat
    OBVIOUS
  <2>1. avail[q[k]] \in 0 .. amount
    BY <1>2
  <2>2. avail[q[k]] \in Nat
    BY <2>1
  <2>3. PICK row \in Row : row = view[q[k]]
    BY <1>1
  <2>4. Total(row) \in Nat
    BY <2>3, TotalType
  <2> QED
    BY <2>2, <2>3, <2>4
<1> HIDE DEF avail, open
<1>4. \A k \in 1 .. n : avail[q[k]] = 0 => rest(k) = 0
  BY <1>3 DEF Least
<1>5. \A k \in 1 .. n : rest(k) # 0 => open(k) <= avail[q[k]]
  BY <1>3 DEF Least
<1>6. n \in D
  BY <1>1, <1>2
<1>7. PICK k \in D : \A e \in D : k <= e
  <2>1. D \subseteq Nat
    OBVIOUS
  <2> HIDE DEF D
  <2> QED
    BY <1>6, <2>1, LeastOf
<1>8. k = i
  <2> SUFFICES ASSUME k # i PROVE FALSE
    OBVIOUS
  <2>1. k \in i .. n /\ rest(k) # 0 /\ k \in 1 .. n
    OBVIOUS
  <2>2. k - 1 \in i .. n /\ k - 1 \in 1 .. n - 1 /\ ~(k <= k - 1)
    BY <1>1, <2>1
  <2>3. k - 1 \notin D
    <3> HIDE DEF D
    <3> QED
      BY <1>7, <2>2
  <2>4. rest(k - 1) = 0
    BY <2>2, <2>3
  <2>5. (k - 1) + 1 = k
    BY <2>1
  <2> HIDE DEF D, rest
  <2>6. avail[q[(k - 1) + 1]] = rest(k - 1)
    BY <1>2, <2>2
  <2>7. avail[q[k]] = 0
    BY <2>4, <2>5, <2>6
  <2> QED
    BY <1>4, <2>1, <2>7
<1>9. rest(i) # 0
  BY <1>7, <1>8
<1> HIDE DEF rest
<1> QED
  BY <1>3, <1>5, <1>9 DEF avail, open

\* Who has enough for a debt pays all of it.
LEMMA EnoughSettles ==
    ASSUME NEW row \in Row, NEW available \in Nat, Total(row) <= available
    PROVE  Pay(row, Assign(row, available)).status = "settled"
<1>1. row.costs \in Nat /\ row.interest \in Nat /\ row.principal \in Nat
  BY DEF Row
<1>2. row.costs + row.interest + row.principal <= available
  BY DEF Total
<1>3. Least(available, row.costs) = row.costs
  BY <1>1, <1>2 DEF Least
<1>4. Least(available - row.costs, row.interest) = row.interest
  BY <1>1, <1>2 DEF Least
<1>5. Least(available - row.costs - row.interest, row.principal) = row.principal
  BY <1>1, <1>2 DEF Least
<1>6. Assign(row, available) =
         [costs |-> row.costs, interest |-> row.interest, principal |-> row.principal]
  BY <1>3, <1>4, <1>5 DEF Assign
<1>7. Total(Assign(row, available)) = Total(row)
  BY <1>6 DEF Total
<1> QED
  BY <1>7 DEF Pay

\* A credit is left only by a payment that settled every debt it was given to.
CreditSettles(e) ==
    e.credit # 0 =>
        /\ e.kind = "PAYMENT"
        /\ \A r \in DOMAIN e.parts : Pay(e.before[r], e.parts[r]).status = "settled"

Credits == \A i \in 1 .. Len(ledger) : CreditSettles(ledger[i])

LEMMA BookingSettles ==
    ASSUME TypeInv, NEW s \in Session, txn[s].tx \in Payment, NEW b \in Bookings(s),
           b.credit # 0, NEW r \in DOMAIN b.parts
    PROVE  Pay(b.seen[r], b.parts[r]).status = "settled"
<1> DEFINE S == Returned(s)
           view == View(s)
           order == PayOrder(S, Debt, Designated(s), Tx[txn[s].tx].booked)
           amount == Tx[txn[s].tx].amount
<1>1. S \in SUBSET Receivable
  BY SessionFacts DEF Returned, OpenDebts, TransactionOK
<1>2. view \in [S -> Row]
  <2>1. \A d \in S : d \in DOMAIN txn[s].seen => txn[s].seen[d] \in Row
    BY SessionFacts DEF TransactionOK
  <2>2. \A d \in S : rcv[d] \in Row
    BY <1>1 DEF TypeInv, TypeOK
  <2> QED
    BY <2>1, <2>2 DEF View
<1>3. amount \in Nat
  BY TxAssumption DEF Movement
<1>4. PICK x \in Settled(s) :
         b = [credit |-> x.credit, parts |-> Allocations(x, View(s)), seen |-> View(s)]
  BY DEF Bookings
<1>5. PICK q \in Sorted(S, order) : x \in Settlements(q, view, amount)
  BY <1>4 DEF Settled
<1> HIDE DEF S, order, amount, view
<1>6. q \in Seq(S)
  <2>1. IsFiniteSet(S)
    BY <1>1, SetsAssumption, FS_Subset
  <2>2. Cardinality(S) \in Nat
    BY <2>1, FS_CardinalityType
  <2>3. q \in [1 .. Cardinality(S) -> S]
    BY <1>5 DEF Sorted
  <2> QED
    BY <2>2, <2>3
<1>7. b.credit = x.credit /\ b.parts = Allocations(x, view) /\ b.seen = view
  BY <1>4 DEF view
<1>8. r \in DOMAIN x.avail /\ b.parts[r] = Assign(view[r], x.avail[r])
  BY <1>7 DEF Allocations
<1>9. PICK i \in 1 .. Len(q) : r = q[i]
  BY <1>5, <1>8 DEF Settlements
<1>10. x.avail[r] \in Nat /\ Total(view[r]) <= x.avail[r]
  BY <1>2, <1>3, <1>5, <1>6, <1>7, <1>9, CreditLeaves
<1>11. view[r] \in Row
  BY <1>2, <1>6, <1>9, ElementOfSeq
<1> QED
  BY <1>7, <1>8, <1>10, <1>11, EnoughSettles

LEMMA NextCredits == TypeInv /\ Credits /\ [Next]_vars => Credits'
<1> SUFFICES ASSUME TypeInv, Credits, [Next]_vars PROVE Credits'
  OBVIOUS
<1>1. ASSUME NEW e, ledger' = Append(ledger, e), CreditSettles(e) PROVE Credits'
  <2>1. /\ Len(ledger) \in Nat /\ Len(ledger') = Len(ledger) + 1
        /\ \A i \in 1 .. Len(ledger) : ledger'[i] = ledger[i]
        /\ ledger'[Len(ledger) + 1] = e
    <3>1. ledger \in Seq(Entry)
      BY DEF TypeInv
    <3> QED
      BY <1>1, <3>1
  <2>2. \A i \in 1 .. Len(ledger') : i \in 1 .. Len(ledger) \/ i = Len(ledger) + 1
    BY <2>1
  <2> QED
    BY <1>1, <2>1, <2>2 DEF Credits
<1>2. ASSUME NEW s \in Session, Book(s) PROVE Credits'
  <2>1. txn[s].tx \in Payment
    BY <1>2 DEF Book
  <2>2. PICK b \in Bookings(s) : ledger' = Append(ledger, PaymentEntry(txn[s].tx, b))
    BY <1>2 DEF Book
  <2> DEFINE e == PaymentEntry(txn[s].tx, b)
  <2>3. /\ e.kind = "PAYMENT" /\ e.credit = b.credit /\ e.parts = b.parts
        /\ \A r \in DOMAIN b.parts : e.before[r] = b.seen[r]
    BY DEF PaymentEntry
  <2> HIDE DEF e
  <2>4. CreditSettles(e)
    BY <2>1, <2>2, <2>3, BookingSettles DEF CreditSettles
  <2> QED
    BY <1>1, <2>2, <2>4 DEF e
<1>3. ASSUME NEW s \in Session, BookReturn(s) PROVE Credits'
  <2> DEFINE e == ReversalEntry(txn[s].tx, txn[s].original)
  <2>1. ledger' = Append(ledger, e)
    BY <1>3 DEF BookReturn
  <2>2. CreditSettles(e)
    BY DEF ReversalEntry, CreditSettles
  <2> HIDE DEF e
  <2> QED
    BY <1>1, <2>1, <2>2
<1>4. CASE UNCHANGED <<rcv, ledger>>
  BY <1>4 DEF Credits
<1> QED
  BY <1>2, <1>3, <1>4, MoneySteps

\* The rows of a movement, as the invariants have its entry and its run.
LEMMA RowsAgree ==
    ASSUME SafeInv, Credits, NEW t \in Movement, NEW row \in RowsOf(t)
    PROVE  RowAgrees(t, row)
<1>1. PICK r \in FirstDebts(t) :
         row = [id |-> t, status |-> StatusOf(t, r), actions |-> Actions(t),
                renter |-> IF r = None THEN FirstProposal(t).renter ELSE Debt[r].renter,
                open |-> IF r = None THEN 0 ELSE Total(rcv[r])]
  BY DEF RowsOf
<1>2. /\ row.status = StatusOf(t, r) /\ row.actions = Actions(t)
      /\ row.renter = IF r = None THEN FirstProposal(t).renter ELSE Debt[r].renter
  BY <1>1
<1>3. TypeInv /\ BookedOnce /\ EvidenceBeforeMoney
  BY DEF SafeInv, Safe
<1>4. \A i, j \in EntriesOf(t) : i = j
  BY <1>3 DEF EntriesOf, BookedOnce
<1>5. \A i \in EntriesOf(t) : i \in 1 .. Len(ledger) /\ ledger[i].tx = t
  BY DEF EntriesOf
<1>6. r # None => \E i \in EntriesOf(t) : r \in DOMAIN ledger[i].parts
  BY DEF FirstDebts
<1>7. row.status = "partial" => \A i \in EntriesOf(t) : ledger[i].credit = 0
  <2> SUFFICES ASSUME row.status = "partial", NEW i \in EntriesOf(t), ledger[i].credit # 0
               PROVE  FALSE
    OBVIOUS
  <2>1. LeftPartial(t, r)
    BY <1>2 DEF StatusOf
  <2>2. r \in DOMAIN ledger[i].parts /\ AfterStatus(ledger[i], r) = "partial"
    BY <1>4, <1>6, <2>1 DEF LeftPartial
  <2>3. CreditSettles(ledger[i])
    BY <1>5 DEF Credits
  <2> QED
    BY <2>2, <2>3 DEF CreditSettles, AfterStatus
<1>8. t \in Payment => row.renter = run[t].renter
  <2> SUFFICES ASSUME t \in Payment, r # None PROVE Debt[r].renter = run[t].renter
    BY <1>2 DEF FirstProposal
  <2>1. PICK i \in EntriesOf(t) : r \in DOMAIN ledger[i].parts
    BY <1>6
  <2>2. i \in 1 .. Len(ledger) /\ ledger[i].tx = t
    BY <1>5, <2>1
  <2>3. ledger[i].kind = "PAYMENT"
    BY <1>3, <2>2 DEF TypeInv, TypeOK, EntryOK
  <2> QED
    BY <1>3, <2>1, <2>2, <2>3 DEF EvidenceBeforeMoney, Entries
<1>9. ASSUME t \in Payment, row.status # "ignored"
      PROVE  CASE StageOf(t) \in {"imported", "unmatched"} -> row.status = "unassigned"
               [] StageOf(t) \in {"review", "rejected", "duplicate"} -> row.status = "review"
               [] OTHER -> row.status \in {"assigned", "partial"} /\ row.actions = {}
  <2>1. label[t] # "IGNORED"
    BY <1>2, <1>9 DEF StatusOf
  <2>2. CASE EntriesOf(t) = {}
    <3>1. Unbooked(t) /\ ~ Evidenced(t)
      BY <1>3, <1>9, <2>2 DEF Unbooked, EntriesOf, EvidenceBeforeMoney
    <3>2. row.status = IF run[t].decision = "NEEDS_REVIEW" THEN "review" ELSE "unassigned"
      BY <1>2, <1>9, <2>1, <2>2 DEF StatusOf, LeftPartial, FirstProposal
    <3>3. /\ run[t].decision \in {"NONE", "AUTO_MATCH", "NEEDS_REVIEW", "UNMATCHED"}
          /\ verdict[t] \in {"NONE", "CONFIRMED", "REJECTED", "DUPLICATE"}
      BY <1>3, <1>9 DEF TypeInv, TypeOK, Runs, Decision, Outcome
    <3>4. /\ run[t].decision = "NONE" => StageOf(t) = "imported"
          /\ run[t].decision = "UNMATCHED" => StageOf(t) = "unmatched"
          /\ run[t].decision = "NEEDS_REVIEW" =>
                /\ verdict[t] = "NONE" => StageOf(t) = "review"
                /\ verdict[t] = "REJECTED" => StageOf(t) = "rejected"
                /\ verdict[t] = "DUPLICATE" => StageOf(t) = "duplicate"
      BY <1>9, <3>1, StagesHold DEF Stages
    <3> QED
      BY <3>1, <3>2, <3>3, <3>4 DEF Evidenced
  <2>3. CASE EntriesOf(t) # {}
    <3>1. PICK i \in 1 .. Len(ledger) : ledger[i].tx = t
      BY <2>3 DEF EntriesOf
    <3>2. StageOf(t) \in {"returned", "booked"}
      BY <1>3, <1>9, <3>1, StagesHold DEF Stages
    <3>3. row.status \in {"assigned", "partial"} /\ row.actions = {}
      BY <1>2, <2>1, <2>3 DEF StatusOf, Actions
    <3> QED
      BY <3>2, <3>3
  <2> QED
    BY <2>2, <2>3
<1> QED
  BY <1>7, <1>8, <1>9 DEF RowAgrees

LEMMA ShownAsBooked ==
    SafeInv /\ Credits /\ ProjectionMatchesLedger => WorkspaceShowsLedger
<1>1. ASSUME NEW q \in Queries, NEW shown PROVE PagesAgree(q, shown)
  <2>1. q.limit \in Nat \ {0} /\ q.status \in RowStatus \cup {"all"}
    BY DEF Queries, PageSize
  <2> QED
    BY <2>1, PagesAlwaysAgree
<1> QED
  BY <1>1, RowsAgree DEF WorkspaceShowsLedger

LEMMA BooksHold == Spec => [](SafeInv /\ Credits)
<1>1. Init => SafeInv /\ Credits
  <2>1. Init => Credits
    BY DEF Init, Credits
  <2> QED
    BY <2>1, InitSafe
<1>2. SafeInv /\ Credits /\ [Next]_vars => SafeInv' /\ Credits'
  BY NextSafe, NextCredits DEF SafeInv
<1> QED
  BY <1>1, <1>2, PTL DEF Spec

\* Where every settlement sees current rows, the workspace shows an owner what
\* the ledger says, whatever is searched for and whichever allocation a query
\* reads first (_workspace_rows() and payment_workspace_transactions()).
THEOREM WorkspaceShowsCurrentRows ==
    Spec /\ []SettlesCurrentRows => []WorkspaceShowsLedger
  BY BooksHold, ShownAsBooked, CurrentRowsProject, PTL

\* So it does after one request at a time ...
THEOREM WorkspaceAlone == OneAtATime => (Spec => []WorkspaceShowsLedger)
<1> SUFFICES ASSUME OneAtATime PROVE Spec => []WorkspaceShowsLedger
  OBVIOUS
<1>1. Spec => []ProjectionMatchesLedger
  BY ProjectionAlone
<1> QED
  BY <1>1, BooksHold, ShownAsBooked, PTL

\* ... and while the owners confirm every booking, however many do at once.
THEOREM WorkspaceShowsConfirmed ==
    Spec /\ []NothingAutomatic => []WorkspaceShowsLedger
  BY BooksHold, ShownAsBooked, ConfirmedPaymentsProject, PTL
=============================================================================
