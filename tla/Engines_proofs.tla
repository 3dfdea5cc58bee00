-------------------------- MODULE Engines_proofs ---------------------------
(***************************************************************************)
(* The settlement rules for any finite set of debts, any payment and any   *)
(* nominal components: the results of settle() and split_principal() are   *)
(* those of the references in MCSettlement.  settle() is a loop over the   *)
(* debts in a sorted order: what is left before a debt is the payment less *)
(* what the debts before it owe, and those are the debts that the          *)
(* reference serves first.  split_principal() gives the cents that the     *)
(* floors leave to the largest remainders: without a tie there is one such *)
(* distribution, with a tie at least two.                                  *)
(*                                                                         *)
(* The allocation of costs, for any set of buildings that the tables can   *)
(* hold: by each key, the amounts are those that the days of the units     *)
(* give. The lines and their days are in CostAllocation_proofs; here are   *)
(* the rounding and the residual of the owner.                             *)
(*                                                                         *)
(* The guards, for any set of subjects: the calendar, in which a day is a  *)
(* number; each guard against its rule; the lists that the engine sorts,   *)
(* and the loop in which the money received pays the oldest debts first.   *)
(*                                                                         *)
(* The exports, for any set of ledgers: the year of a payment, the result  *)
(* as a sum over the payments that stand, and the sorted rows for DATEV.   *)
(***************************************************************************)
EXTENDS CostAllocation_proofs

-----------------------------------------------------------------------------
(* The order of paragraph 366 BGB.                                         *)

\* The ranks that PaidFirst compares, without what the due dates already say.
Precedes(debt, designated, a, b) ==
    IF debt[a].period \in designated <=> debt[b].period \in designated
    THEN debt[a].due < debt[b].due \/ (debt[a].due = debt[b].due /\ a < b)
    ELSE debt[a].period \in designated

\* Finitely many debts, whose ids and due dates are ordered.
DebtsOf(S, debt) ==
    S \subseteq Int /\ IsFiniteSet(S) /\ \A r \in S : debt[r].due \in Int

\* Debts of one side of the designation are ranked by due date, then by id.
LEMMA PaidFirstIs ==
    ASSUME NEW debt, NEW designated, NEW booked \in Int, NEW a \in Int, NEW b \in Int,
           debt[a].due \in Int, debt[b].due \in Int
    PROVE  PaidFirst(debt, designated, booked, a, b) <=> Precedes(debt, designated, a, b)
<1> DEFINE rank(r) == <<IF debt[r].period \in designated THEN 0 ELSE 1,
                        IF debt[r].due <= booked THEN 0 ELSE 1,
                        debt[r].due, r>>
<1>1. PaidFirst(debt, designated, booked, a, b) <=>
         \E k \in 1 .. 4 : /\ rank(a)[k] < rank(b)[k]
                           /\ \A j \in 1 .. k - 1 : rank(a)[j] = rank(b)[j]
  BY DEF PaidFirst
<1> HIDE DEF rank
<1>2. (\E k \in 1 .. 4 : /\ rank(a)[k] < rank(b)[k]
                         /\ \A j \in 1 .. k - 1 : rank(a)[j] = rank(b)[j])
      <=> \/ rank(a)[1] < rank(b)[1]
          \/ rank(a)[1] = rank(b)[1] /\ rank(a)[2] < rank(b)[2]
          \/ /\ rank(a)[1] = rank(b)[1] /\ rank(a)[2] = rank(b)[2]
             /\ rank(a)[3] < rank(b)[3]
          \/ /\ rank(a)[1] = rank(b)[1] /\ rank(a)[2] = rank(b)[2]
             /\ rank(a)[3] = rank(b)[3] /\ rank(a)[4] < rank(b)[4]
  <2>1. 1 .. 1 - 1 = {} /\ 1 .. 2 - 1 = {1} /\ 1 .. 3 - 1 = {1, 2} /\ 1 .. 4 - 1 = {1, 2, 3}
    OBVIOUS
  <2>2. 1 .. 4 = {1, 2, 3, 4}
    OBVIOUS
  <2> QED
    BY <2>1, <2>2
<1> USE DEF rank
<1>3. /\ rank(a)[1] = IF debt[a].period \in designated THEN 0 ELSE 1
      /\ rank(a)[2] = IF debt[a].due <= booked THEN 0 ELSE 1
      /\ rank(a)[3] = debt[a].due /\ rank(a)[4] = a
      /\ rank(b)[1] = IF debt[b].period \in designated THEN 0 ELSE 1
      /\ rank(b)[2] = IF debt[b].due <= booked THEN 0 ELSE 1
      /\ rank(b)[3] = debt[b].due /\ rank(b)[4] = b
  OBVIOUS
<1> HIDE DEF rank
<1> QED
  BY <1>1, <1>2, <1>3 DEF Precedes

\* The places 1 .. n of q hold each element of S once.
Lists(q, n, S) ==
    /\ n \in Nat /\ q \in [1 .. n -> S]
    /\ \A r \in S : \E i \in 1 .. n : q[i] = r
    /\ \A i, j \in 1 .. n : q[i] = q[j] => i = j

\* A sorted order names every element once.
LEMMA SortedNamesAll ==
    ASSUME NEW S, IsFiniteSet(S), NEW less, \A a \in S : <<a, a>> \notin less,
           NEW q \in Sorted(S, less)
    PROVE  /\ Lists(q, Cardinality(S), S)
           /\ \A i, j \in 1 .. Cardinality(S) : i < j => <<q[i], q[j]>> \in less
<1> DEFINE n == Cardinality(S)
<1>1. n \in Nat
  BY FS_CardinalityType
<1>2. q \in [1 .. n -> S] /\ \A i, j \in 1 .. n : i < j => <<q[i], q[j]>> \in less
  BY DEF Sorted
<1> HIDE DEF n
<1>3. ASSUME NEW i \in 1 .. n, NEW j \in 1 .. n, q[i] = q[j] PROVE i = j
  <2>1. q[i] \in S /\ q[j] \in S
    BY <1>2
  <2>2. ~(i < j) /\ ~(j < i)
    BY <1>2, <1>3, <2>1
  <2> QED
    BY <1>1, <2>2
<1>4. q \in Injection(1 .. n, S)
  BY <1>2, <1>3 DEF Injection, IsInjective
<1>5. Cardinality(1 .. n) = n
  BY <1>1, FS_Interval
<1>6. q \in Surjection(1 .. n, S)
  BY <1>4, <1>5, FS_Injection DEF n
<1> QED
  BY <1>1, <1>2, <1>3, <1>6 DEF Surjection, Lists, n

\* The order in which a payment reaches the debts lists each of them once.
LEMMA PayOrderLists ==
    ASSUME NEW S, NEW debt, DebtsOf(S, debt), NEW designated, NEW booked \in Int,
           NEW q \in Sorted(S, PayOrder(S, debt, designated, booked))
    PROVE  Lists(q, Cardinality(S), S)
<1> USE DEF DebtsOf
<1> DEFINE less == PayOrder(S, debt, designated, booked)
<1>1. ASSUME NEW a \in S PROVE <<a, a>> \notin less
  <2>1. PaidFirst(debt, designated, booked, a, a) <=> Precedes(debt, designated, a, a)
    BY PaidFirstIs
  <2>2. ~Precedes(debt, designated, a, a)
    BY DEF Precedes
  <2> QED
    BY <2>1, <2>2 DEF PayOrder
<1> QED
  BY <1>1, SortedNamesAll

\* What comes before place i.
Prefix(q, i) == {q[j] : j \in 1 .. i - 1}

\* A debt's predecessors are those that are paid first.
LEMMA AheadIsPrefix ==
    ASSUME NEW S, NEW debt, DebtsOf(S, debt), NEW designated, NEW booked \in Int,
           NEW q \in Sorted(S, PayOrder(S, debt, designated, booked)),
           NEW i \in 1 .. Cardinality(S)
    PROVE  Prefix(q, i) = {d \in S : Precedes(debt, designated, d, q[i])}
<1> USE DEF DebtsOf
<1> DEFINE n == Cardinality(S)
           less == PayOrder(S, debt, designated, booked)
<1>1. \A a, b \in S : <<a, b>> \in less <=> Precedes(debt, designated, a, b)
  <2> SUFFICES ASSUME NEW a \in S, NEW b \in S
               PROVE  <<a, b>> \in less <=> Precedes(debt, designated, a, b)
    OBVIOUS
  <2>1. PaidFirst(debt, designated, booked, a, b) <=> Precedes(debt, designated, a, b)
    BY PaidFirstIs
  <2> QED
    BY <2>1 DEF PayOrder
<1>2. \A a \in S : <<a, a>> \notin less
  BY <1>1 DEF Precedes
<1> HIDE DEF less
<1>8. Lists(q, n, S) /\ \A k, j \in 1 .. n : k < j => <<q[k], q[j]>> \in less
  BY <1>2, SortedNamesAll DEF less
<1>3. /\ n \in Nat /\ q \in [1 .. n -> S] /\ \A r \in S : \E k \in 1 .. n : q[k] = r
      /\ \A k, j \in 1 .. n : k < j => <<q[k], q[j]>> \in less
  BY <1>8 DEF Lists
<1> HIDE DEF n
<1>4. \A a, b \in S : Precedes(debt, designated, a, b) => ~Precedes(debt, designated, b, a)
  BY DEF Precedes
<1>5. i \in 1 .. n /\ i \in Int
  BY DEF n
<1>6. ASSUME NEW d \in Prefix(q, i) PROVE d \in S /\ Precedes(debt, designated, d, q[i])
  <2>1. PICK j \in 1 .. i - 1 : d = q[j]
    BY DEF Prefix
  <2>2. j \in 1 .. n /\ j < i
    BY <1>3, <1>5
  <2> QED
    BY <1>1, <1>3, <1>5, <2>1, <2>2
<1>7. ASSUME NEW d \in S, Precedes(debt, designated, d, q[i]) PROVE d \in Prefix(q, i)
  <2>1. PICK k \in 1 .. n : q[k] = d
    BY <1>3
  <2>2. q[i] \in S
    BY <1>3, <1>5
  <2>3. ~(i < k)
    BY <1>1, <1>3, <1>4, <1>5, <1>7, <2>1, <2>2
  <2>4. i # k
    BY <1>4, <1>7, <2>1, <2>2
  <2>5. k \in 1 .. i - 1
    BY <1>3, <1>5, <2>3, <2>4
  <2> QED
    BY <2>1, <2>5 DEF Prefix
<1> QED
  BY <1>6, <1>7

\* The loop takes the debts one by one.
LEMMA PrefixGrows ==
    ASSUME NEW S, NEW n, NEW q, Lists(q, n, S)
    PROVE  /\ Prefix(q, 1) = {} /\ Prefix(q, n + 1) = S
           /\ \A i \in 1 .. n + 1 : Prefix(q, i) \subseteq S
           /\ \A i \in 1 .. n : /\ q[i] \in Prefix(q, i + 1)
                               /\ Prefix(q, i + 1) \ {q[i]} = Prefix(q, i)
<1> USE DEF Lists
<1>1. Prefix(q, 1) = {} /\ Prefix(q, n + 1) = S
  <2>1. 1 .. 1 - 1 = {} /\ 1 .. (n + 1) - 1 = 1 .. n
    OBVIOUS
  <2> QED
    BY <2>1 DEF Prefix
<1>2. ASSUME NEW i \in 1 .. n + 1 PROVE Prefix(q, i) \subseteq S
  <2>1. 1 .. i - 1 \subseteq 1 .. n
    OBVIOUS
  <2> QED
    BY <2>1 DEF Prefix
<1>3. ASSUME NEW i \in 1 .. n
      PROVE  q[i] \in Prefix(q, i + 1) /\ Prefix(q, i + 1) \ {q[i]} = Prefix(q, i)
  <2>1. 1 .. (i + 1) - 1 = (1 .. i - 1) \cup {i} /\ 1 .. i - 1 \subseteq 1 .. n
    OBVIOUS
  <2>2. \A j \in 1 .. i - 1 : q[j] # q[i]
    <3>1. \A j \in 1 .. i - 1 : j \in 1 .. n /\ j # i
      OBVIOUS
    <3> QED
      BY <3>1
  <2> QED
    BY <2>1, <2>2 DEF Prefix
<1> QED
  BY <1>1, <1>2, <1>3

-----------------------------------------------------------------------------
(* Paragraph 367 BGB: the tiers of one debt.                               *)

\* A debt takes what is there, up to its total, and the tiers in their order.
LEMMA AssignFills ==
    ASSUME NEW row \in Row, NEW available \in Nat
    PROVE  LET part == Assign(row, available)
               left == Pay(row, part)
           IN  /\ part \in Part /\ Total(part) = Least(available, Total(row))
               /\ part.interest > 0 => left.costs = 0
               /\ part.principal > 0 => left.costs = 0 /\ left.interest = 0
               /\ left \in Row
               /\ left.status = "settled" <=> Total(left) = 0
<1> DEFINE part == Assign(row, available)
           left == Pay(row, part)
<1>1. row.costs \in Nat /\ row.interest \in Nat /\ row.principal \in Nat
  BY DEF Row
<1>2. /\ part.costs = Least(available, row.costs)
      /\ part.interest = Least(available - part.costs, row.interest)
      /\ part.principal = Least(available - part.costs - part.interest, row.principal)
  BY DEF Assign
<1>3. part = [costs |-> part.costs, interest |-> part.interest, principal |-> part.principal]
  BY DEF Assign
<1> HIDE DEF part
<1>4. /\ part.costs \in 0 .. row.costs /\ part.interest \in 0 .. row.interest
      /\ part.principal \in 0 .. row.principal
  BY <1>1, <1>2 DEF Least
<1>5. part \in Part
  BY <1>3, <1>4, <1>1 DEF Part
<1>6. Total(part) = Least(available, Total(row))
  <2>1. CASE available <= row.costs
    BY <1>1, <1>2, <1>4, <2>1 DEF Least, Total
  <2>2. CASE row.costs < available /\ available <= row.costs + row.interest
    BY <1>1, <1>2, <1>4, <2>2 DEF Least, Total
  <2>3. CASE row.costs + row.interest < available
    BY <1>1, <1>2, <1>4, <2>3 DEF Least, Total
  <2> QED
    BY <1>1, <2>1, <2>2, <2>3
<1>7. /\ left.costs = row.costs - part.costs /\ left.interest = row.interest - part.interest
      /\ left.principal = row.principal - part.principal
      /\ left.status = IF Total(part) = Total(row) THEN "settled" ELSE "partial"
      /\ left = [costs |-> left.costs, interest |-> left.interest,
                 principal |-> left.principal, status |-> left.status]
  BY DEF Pay
<1> HIDE DEF left
<1>8. left \in Row
  <2>1. left.costs \in Nat /\ left.interest \in Nat /\ left.principal \in Nat
    BY <1>1, <1>4, <1>7
  <2>2. left.status \in Status
    BY <1>7 DEF Status
  <2> QED
    BY <1>7, <2>1, <2>2 DEF Row
<1>9. part.interest > 0 => left.costs = 0
  BY <1>1, <1>2, <1>4, <1>7 DEF Least
<1>10. part.principal > 0 => left.costs = 0 /\ left.interest = 0
  BY <1>1, <1>2, <1>4, <1>7 DEF Least
<1>11. left.status = "settled" <=> Total(left) = 0
  BY <1>1, <1>4, <1>7 DEF Total
<1> QED
  BY <1>5, <1>6, <1>8, <1>9, <1>10, <1>11 DEF part, left

-----------------------------------------------------------------------------
(* The loop of settle().                                                   *)

\* What is left of the payment when place i is reached.
Left(q, s, n, i) == IF i <= n THEN s.avail[q[i]] ELSE s.credit

AtLeastZero(x) == IF x >= 0 THEN x ELSE 0

\* A turn of the loop passes on what its debt does not take.
LEMMA LoopSteps ==
    ASSUME NEW S, NEW n, NEW q, Lists(q, n, S), NEW row \in [S -> Row],
           NEW amount \in Nat, NEW s \in Settlements(q, row, amount)
    PROVE  /\ s.avail \in [S -> 0 .. amount]
           /\ Left(q, s, n, 1) = amount
           /\ \A i \in 1 .. n : Left(q, s, n, i + 1) =
                 s.avail[q[i]] - Least(s.avail[q[i]], Total(row[q[i]]))
<1> USE DEF Lists
<1>1. q \in Seq(S) /\ Len(q) = n
  OBVIOUS
<1>2. {q[i] : i \in 1 .. n} = S
  OBVIOUS
<1> DEFINE rest(i) == s.avail[q[i]] - Least(s.avail[q[i]], Total(row[q[i]]))
<1>3. /\ s.avail \in [S -> 0 .. amount]
      /\ n > 0 => s.avail[q[1]] = amount
      /\ \A i \in 1 .. n - 1 : s.avail[q[i + 1]] = rest(i)
      /\ s.credit = IF n = 0 THEN amount ELSE rest(n)
  BY <1>1, <1>2 DEF Settlements
<1> HIDE DEF rest
<1>4. Left(q, s, n, 1) = amount
  BY <1>3 DEF Left
<1>5. ASSUME NEW i \in 1 .. n PROVE Left(q, s, n, i + 1) = rest(i)
  <2>1. CASE i = n
    BY <1>3, <2>1 DEF Left
  <2>2. CASE i # n
    BY <1>3, <2>2 DEF Left
  <2> QED
    BY <2>1, <2>2
<1> QED
  BY <1>3, <1>4, <1>5 DEF rest

\* Whatever place is reached, what came before has taken all it could.
OwedBy(owed, row, S) == \A r \in S : owed[r] = Total(row[r])

TakenBy(taken, s, row, S) == \A r \in S : taken[r] = Least(s.avail[r], Total(row[r]))

ServedUpTo(q, s, n, amount, owed, taken) ==
    \A i \in 1 .. n + 1 :
       /\ Left(q, s, n, i) = AtLeastZero(amount - Sum(owed, Prefix(q, i)))
       /\ Left(q, s, n, i) = amount - Sum(taken, Prefix(q, i))

\* Before each turn, the payment less what the debts before it owe is left,
\* and nothing that was taken is missing.
LEMMA LoopInvariant ==
    ASSUME NEW S, IsFiniteSet(S), NEW n, NEW q, Lists(q, n, S), NEW row \in [S -> Row],
           NEW amount \in Nat, NEW s \in Settlements(q, row, amount),
           NEW owed, OwedBy(owed, row, S), NEW taken, TakenBy(taken, s, row, S)
    PROVE  ServedUpTo(q, s, n, amount, owed, taken)
<1> USE DEF OwedBy, TakenBy, ServedUpTo
<1> DEFINE Reaches(i) ==
              /\ Left(q, s, n, i) = AtLeastZero(amount - Sum(owed, Prefix(q, i)))
              /\ Left(q, s, n, i) = amount - Sum(taken, Prefix(q, i))
           D == {i \in 1 .. n + 1 : ~Reaches(i)}
<1>0. n \in Nat
  BY DEF Lists
<1>1. /\ s.avail \in [S -> 0 .. amount] /\ Left(q, s, n, 1) = amount
      /\ \A i \in 1 .. n : Left(q, s, n, i + 1) =
            s.avail[q[i]] - Least(s.avail[q[i]], Total(row[q[i]]))
  BY LoopSteps
<1>2. /\ Prefix(q, 1) = {}
      /\ \A i \in 1 .. n + 1 : Prefix(q, i) \subseteq S
      /\ \A i \in 1 .. n : /\ q[i] \in Prefix(q, i + 1)
                          /\ Prefix(q, i + 1) \ {q[i]} = Prefix(q, i)
  BY PrefixGrows
<1>3. ASSUME NEW r \in S PROVE owed[r] \in Nat /\ taken[r] \in Nat /\ s.avail[r] \in Nat
  <2>1. row[r] \in Row /\ s.avail[r] \in Nat
    BY <1>1
  <2>2. Total(row[r]) \in Nat
    BY <2>1 DEF Row, Total
  <2> QED
    BY <2>1, <2>2 DEF Least
<1>4. Reaches(1)
  <2>1. Sum(owed, {}) = 0 /\ Sum(taken, {}) = 0
    BY SumOfNone
  <2>2. amount - 0 = amount /\ AtLeastZero(amount) = amount
    BY DEF AtLeastZero
  <2> QED
    BY <1>1, <1>2, <2>1, <2>2
<1>5. ASSUME NEW i \in 1 .. n, Reaches(i) PROVE Reaches(i + 1)
  <2> DEFINE r == q[i]
             before == Prefix(q, i)
             after == Prefix(q, i + 1)
  <2>1. i \in 1 .. n + 1 /\ i + 1 \in 1 .. n + 1
    BY <1>0
  <2>2. /\ r \in S /\ r \in after /\ after \ {r} = before
        /\ before \subseteq S /\ after \subseteq S
        /\ IsFiniteSet(before) /\ IsFiniteSet(after)
    BY <1>2, <2>1, FS_Subset
  <2>3. Left(q, s, n, i) = s.avail[r]
    BY <1>0 DEF Left
  <2> HIDE DEF r, before, after
  <2>4. Sum(owed, after) = owed[r] + Sum(owed, before) /\ Sum(owed, before) \in Int
    <3>1. \A x \in after : owed[x] \in Int
      BY <1>3, <2>2
    <3>2. \A x \in before : owed[x] \in Int
      BY <1>3, <2>2
    <3> QED
      BY <2>2, <3>1, <3>2, SumWithout, SumType
  <2>5. Sum(taken, after) = taken[r] + Sum(taken, before) /\ Sum(taken, before) \in Int
    <3>1. \A x \in after : taken[x] \in Int
      BY <1>3, <2>2
    <3>2. \A x \in before : taken[x] \in Int
      BY <1>3, <2>2
    <3> QED
      BY <2>2, <3>1, <3>2, SumWithout, SumType
  <2>6. Left(q, s, n, i + 1) = s.avail[r] - taken[r]
        /\ taken[r] = Least(s.avail[r], owed[r])
    BY <1>1, <2>2 DEF r
  <2>7. /\ s.avail[r] = AtLeastZero(amount - Sum(owed, before))
        /\ s.avail[r] = amount - Sum(taken, before)
    BY <1>5, <2>3 DEF before
  <2>8. s.avail[r] \in Nat /\ owed[r] \in Nat /\ taken[r] \in Nat
    BY <1>3, <2>2
  <2>9. /\ Left(q, s, n, i + 1) = AtLeastZero(amount - Sum(owed, after))
        /\ Left(q, s, n, i + 1) = amount - Sum(taken, after)
    BY <2>4, <2>5, <2>6, <2>7, <2>8 DEF AtLeastZero, Least
  <2> QED
    BY <2>9 DEF after
<1> HIDE DEF Reaches
<1>6. SUFFICES ASSUME D # {} PROVE FALSE
  BY DEF Reaches
<1>7. D \subseteq Nat
  BY <1>0
<1>8. PICK d \in D : \A e \in D : d <= e
  BY <1>6, <1>7, LeastOf
<1>9. d \in 1 .. n + 1 /\ d # 1
  BY <1>4, <1>8
<1>10. d - 1 \in 1 .. n /\ (d - 1) + 1 = d
  BY <1>0, <1>9
<1>11. Reaches(d - 1)
  <2> SUFFICES ASSUME ~Reaches(d - 1) PROVE FALSE
    OBVIOUS
  <2>1. d - 1 \in 1 .. n + 1
    BY <1>0, <1>10
  <2>2. d - 1 \in D
    BY <2>1
  <2> HIDE DEF D
  <2>3. d <= d - 1
    BY <1>8, <2>2
  <2> QED
    BY <1>0, <1>9, <2>3
<1> QED
  BY <1>5, <1>8, <1>10, <1>11

-----------------------------------------------------------------------------
(* What MCSettlement asks of settle().                                     *)

\* The reference's bound on what a debt gets is the lesser of two numbers.
LEMMA LeastOfTwo ==
    ASSUME NEW x \in Int, NEW y \in Nat
    PROVE  Max({0, Min({x, y})}) = Least(AtLeastZero(x), y)
<1>1. Min({x, y}) = Least(x, y)
  <2>1. \A m \in {x, y} : (\A e \in {x, y} : m =< e) => m = Least(x, y)
    BY DEF Least
  <2>2. \E m \in {x, y} : \A e \in {x, y} : m =< e
    OBVIOUS
  <2>3. Min({x, y}) \in {x, y} /\ \A e \in {x, y} : Min({x, y}) =< e
    BY <2>2 DEF Min
  <2> QED
    BY <2>1, <2>3
<1> DEFINE z == Least(x, y)
<1>2. z \in Int
  BY DEF Least
<1>3. Max({0, z}) = AtLeastZero(z)
  <2> HIDE DEF z
  <2>1. \A m \in {0, z} : (\A e \in {0, z} : m >= e) => m = AtLeastZero(z)
    BY <1>2 DEF AtLeastZero
  <2>2. \E m \in {0, z} : \A e \in {0, z} : m >= e
    BY <1>2
  <2>3. Max({0, z}) \in {0, z} /\ \A e \in {0, z} : Max({0, z}) >= e
    BY <2>2 DEF Max
  <2> QED
    BY <2>1, <2>3
<1>4. AtLeastZero(z) = Least(AtLeastZero(x), y)
  BY DEF AtLeastZero, Least
<1> QED
  BY <1>1, <1>3, <1>4

\* What the debts of S owe together.
Owed(row, S) == MapThenSumSet(LAMBDA d : Total(row[d]), S)

\* The reference's sum of what is owed is the sum the loop counts with.
LEMMA OwedIs ==
    ASSUME NEW row, NEW S, IsFiniteSet(S), NEW h, \A d \in S : h[d] = Total(row[d])
    PROVE  Owed(row, S) = Sum(h, S)
<1>1. PICK g : IsSum(g, h, S)
  BY SumExists
<1>0. \A s \in SUBSET S : s # {} => h[One(s)] = Total(row[One(s)])
  BY OneOf
<1>2. g = [s \in SUBSET S |-> IF s = {} THEN 0 ELSE Total(row[One(s)]) + g[Rest(s)]]
  BY <1>0, <1>1 DEF IsSum
<1>3. PICK f : /\ f = [s \in SUBSET S |-> IF s = {} THEN 0 ELSE Total(row[One(s)]) + f[Rest(s)]]
               /\ Owed(row, S) = f[S]
  BY <1>2, ZenonT(40) DEF One, Rest, Owed, MapThenSumSet, MapThenFoldSet
<1>4. IsSum(f, h, S)
  BY <1>0, <1>3 DEF IsSum
<1> QED
  BY <1>3, <1>4, SumIs

\* What the debts of S get together.
Shared(S) == MapThenSumSet(LAMBDA d : Share(d), S)

\* So is its sum of what the debts get.
LEMMA SharedIs ==
    ASSUME NEW S, IsFiniteSet(S), NEW h, \A d \in S : h[d] = Share(d)
    PROVE  Shared(S) = Sum(h, S)
<1>1. PICK g : IsSum(g, h, S)
  BY SumExists
<1>0. \A s \in SUBSET S : s # {} => h[One(s)] = Share(One(s))
  BY OneOf
<1>2. g = [s \in SUBSET S |-> IF s = {} THEN 0 ELSE Share(One(s)) + g[Rest(s)]]
  BY <1>0, <1>1 DEF IsSum
<1>3. PICK f : /\ f = [s \in SUBSET S |-> IF s = {} THEN 0 ELSE Share(One(s)) + f[Rest(s)]]
               /\ Shared(S) = f[S]
  BY <1>2 DEF One, Rest, Shared, MapThenSumSet, MapThenFoldSet
<1>4. IsSum(f, h, S)
  BY <1>0, <1>3 DEF IsSum
<1> QED
  BY <1>3, <1>4, SumIs

\* What a call of settle() passes.
LEMMA SettleCallTypes ==
    ASSUME NEW c \in SettleCalls
    PROVE  /\ c.kind = "settle" /\ c.amount \in Nat
           /\ DOMAIN c.row \subseteq Int /\ IsFiniteSet(DOMAIN c.row)
           /\ c.row \in [DOMAIN c.row -> Row]
           /\ \A r \in DOMAIN c.row : DebtFacts[r].due \in Int
<1>1. c.kind = "settle" /\ c.amount \in 1 .. MaxAmount
  BY DEF SettleCalls
<1>2. PICK S \in SUBSET Debts : c.row \in [S -> OpenRows]
  BY DEF SettleCalls
<1>3. OpenRows \subseteq Row
  BY SettlementAssumption DEF OpenRows, Row, Status
<1>4. DOMAIN c.row = S /\ S \subseteq Int /\ IsFiniteSet(S)
  BY <1>2, SettlementAssumption, FS_Subset
<1>5. \A r \in Debts : DebtFacts[r].due \in Int
  BY DEF DebtFacts
<1>6. c.row \in [S -> Row] /\ DOMAIN c.row = S
  BY <1>2, <1>3
<1>7. c.amount \in Nat
  BY <1>1, SettlementAssumption
<1> QED
  BY <1>1, <1>4, <1>5, <1>6, <1>7

\* The result of settle() is the reference's, for every sorted order.
LEMMA SettleIsStatutory ==
    ASSUME call \in SettleCalls, NEW q \in Sorted(DOMAIN call.row, OrderOf(call)),
           NEW s \in Settlements(q, call.row, call.amount),
           result = [kind |-> "settled", credit |-> s.credit,
                     parts |-> Allocations(s, call.row)]
    PROVE  StatutoryOrder
<1> DEFINE S == DOMAIN call.row
           n == Cardinality(S)
           amount == call.amount
           owed == [r \in S |-> Total(call.row[r])]
           taken == [r \in S |-> Least(s.avail[r], Total(call.row[r]))]
<1>1. /\ amount \in Nat /\ S \subseteq Int /\ IsFiniteSet(S) /\ call.row \in [S -> Row]
      /\ \A r \in S : DebtFacts[r].due \in Int
  BY SettleCallTypes
<1>2. q \in Sorted(S, PayOrder(S, DebtFacts, call.designated, 5))
  BY DEF OrderOf, BookedOn
<1> HIDE DEF S, n, amount, owed, taken
<1>0. DebtsOf(S, DebtFacts) /\ 5 \in Int
  BY <1>1 DEF DebtsOf
<1>3. Lists(q, n, S)
  BY <1>0, <1>2, PayOrderLists DEF n
<1>4. ASSUME NEW r \in S
      PROVE  ServedBefore(r) = {d \in S : Precedes(DebtFacts, call.designated, d, r)}
  BY DEF ServedBefore, Named, Older, Precedes, S
<1>5. /\ \A r \in S : owed[r] = Total(call.row[r])
      /\ \A r \in S : taken[r] = Least(s.avail[r], Total(call.row[r]))
  BY DEF owed, taken
<1>6. s \in Settlements(q, call.row, amount)
  BY DEF amount
<1>7. \A i \in 1 .. n + 1 :
          /\ Left(q, s, n, i) = AtLeastZero(amount - Sum(owed, Prefix(q, i)))
          /\ Left(q, s, n, i) = amount - Sum(taken, Prefix(q, i))
  <2>1. OwedBy(owed, call.row, S) /\ TakenBy(taken, s, call.row, S)
    BY <1>5 DEF OwedBy, TakenBy
  <2>2. ServedUpTo(q, s, n, amount, owed, taken)
    BY <1>1, <1>3, <1>6, <2>1, LoopInvariant
  <2> QED
    BY <2>2 DEF ServedUpTo
<1>8. s.avail \in [S -> 0 .. amount]
  BY <1>1, <1>3, <1>6, LoopSteps
<1>9. ASSUME NEW r \in S
      PROVE  /\ Total(call.row[r]) \in Nat /\ s.avail[r] \in Nat
             /\ Total(Assign(call.row[r], s.avail[r])) = taken[r]
             /\ taken[r] \in Nat
  <2>1. call.row[r] \in Row /\ s.avail[r] \in Nat
    BY <1>1, <1>8
  <2>2. Total(call.row[r]) \in Nat
    BY <2>1 DEF Row, Total
  <2>3. Total(Assign(call.row[r], s.avail[r])) = Least(s.avail[r], Total(call.row[r]))
    BY <2>1, AssignFills
  <2> QED
    BY <1>5, <2>1, <2>2, <2>3 DEF Least
\* What is left when a debt is reached is what the debts served before leave.
<1>10. ASSUME NEW r \in S
       PROVE  /\ Reached(r) \in Int /\ s.avail[r] = AtLeastZero(Reached(r))
  <2>1. PICK i \in 1 .. n : q[i] = r
    BY <1>3 DEF Lists
  <2>2. n \in Nat /\ i \in 1 .. n + 1 /\ i <= n
    BY <1>3, <2>1 DEF Lists
  <2>3. ServedBefore(r) = Prefix(q, i)
    <3>1. \A k \in 1 .. n :
             Prefix(q, k) = {d \in S : Precedes(DebtFacts, call.designated, d, q[k])}
      BY <1>0, <1>2, AheadIsPrefix DEF n
    <3> QED
      BY <1>4, <2>1, <3>1
  <2>4. ServedBefore(r) \subseteq S /\ IsFiniteSet(ServedBefore(r))
    <3>1. ServedBefore(r) \in SUBSET S
      BY <1>4
    <3> QED
      BY <1>1, <3>1, FS_Subset
  <2>5. Owed(call.row, ServedBefore(r)) = Sum(owed, ServedBefore(r))
    BY <1>5, <2>4, OwedIs
  <2>6. Sum(owed, ServedBefore(r)) \in Int
    <3>1. \A x \in ServedBefore(r) : owed[x] \in Int
      BY <1>5, <1>9, <2>4
    <3> QED
      BY <2>4, <3>1, SumType
  <2>7. Reached(r) = amount - Sum(owed, ServedBefore(r))
    BY <2>5 DEF Reached, Owed, amount
  <2>8. Left(q, s, n, i) = s.avail[r]
    BY <2>1, <2>2 DEF Left
  <2> QED
    BY <1>1, <1>7, <2>2, <2>3, <2>6, <2>7, <2>8
<1>11. ASSUME NEW r \in S PROVE Share(r) = taken[r]
  <2>1. Share(r) = Least(AtLeastZero(Reached(r)), Total(call.row[r]))
    BY <1>9, <1>10, LeastOfTwo DEF Share
  <2> QED
    BY <1>5, <1>10, <2>1
<1>12. s.credit = amount - Sum(taken, S)
  <2>1. n \in Nat /\ n + 1 \in 1 .. n + 1 /\ ~(n + 1 <= n)
    BY <1>3 DEF Lists
  <2>2. Left(q, s, n, n + 1) = s.credit
    BY <2>1 DEF Left
  <2>3. Prefix(q, n + 1) = S
    BY <1>3, PrefixGrows
  <2> QED
    BY <1>7, <2>1, <2>2, <2>3
<1>13. Shared(S) = Sum(taken, S)
  BY <1>1, <1>11, SharedIs
<1>14. /\ result.kind = "settled" /\ result.credit = s.credit
       /\ DOMAIN result.parts = {d \in S : taken[d] > 0}
       /\ \A r \in DOMAIN result.parts : result.parts[r] = Assign(call.row[r], s.avail[r])
  <2>1. DOMAIN s.avail = S
    BY <1>8
  <2>2. DOMAIN result.parts = {d \in S : Total(Assign(call.row[d], s.avail[d])) > 0}
    BY <2>1 DEF Allocations
  <2>3. \A d \in S : Total(Assign(call.row[d], s.avail[d])) = taken[d]
    BY <1>9
  <2>4. {d \in S : Total(Assign(call.row[d], s.avail[d])) > 0} = {d \in S : taken[d] > 0}
    BY <2>3
  <2> QED
    BY <2>1, <2>2, <2>4 DEF Allocations
<1>15. ASSUME NEW r \in S
       PROVE  (IF r \in DOMAIN result.parts THEN Total(result.parts[r]) ELSE 0) = Share(r)
  BY <1>9, <1>11, <1>14
<1>16. result.credit = call.amount - MapThenSumSet(LAMBDA d : Share(d), DOMAIN call.row)
  BY <1>12, <1>13, <1>14 DEF Shared, amount, S
<1>17. ASSUME NEW r \in DOMAIN result.parts
       PROVE  LET part == result.parts[r]
                  left == Pay(call.row[r], part)
              IN  /\ part.interest > 0 => left.costs = 0
                  /\ part.principal > 0 => left.costs = 0 /\ left.interest = 0
                  /\ left \in Row
                  /\ left.status = "settled" <=> Total(left) = 0
  <2>1. r \in S /\ result.parts[r] = Assign(call.row[r], s.avail[r])
    BY <1>14
  <2>2. call.row[r] \in Row /\ s.avail[r] \in Nat
    BY <1>1, <1>9, <2>1
  <2> QED
    BY <2>1, <2>2, AssignFills
<1> QED
  BY <1>15, <1>16, <1>17 DEF StatutoryOrder, S

-----------------------------------------------------------------------------
(* split_principal(): the largest remainders.                              *)

\* The sets of k components of which no other has a larger remainder.
Largest(rem, k) ==
    {W \in SUBSET (1 .. 4) :
        /\ Cardinality(W) = k
        /\ \A i \in W, j \in (1 .. 4) \ W : rem[i] >= rem[j]}

AtLeast(rem, i) == {j \in 1 .. 4 : rem[j] >= rem[i]}

Above(rem, i) == {j \in 1 .. 4 : rem[j] > rem[i]}

\* A rent has four components, and a choice of them has at most four.
LEMMA FourParts == IsFiniteSet(1 .. 4) /\ Cardinality(1 .. 4) = 4
<1>1. \A a, b \in Int : /\ IsFiniteSet(a .. b)
                        /\ Cardinality(a .. b) = IF a > b THEN 0 ELSE b - a + 1
  BY FS_Interval
<1>2. PICK a \in Int, b \in Int : a = 1 /\ b = 4
  OBVIOUS
<1>3. ~(a > b) /\ b - a + 1 = 4
  BY <1>2
<1>4. IsFiniteSet(a .. b) /\ Cardinality(a .. b) = 4
  BY <1>1, <1>3
<1> QED
  BY <1>2, <1>4, Zenon

LEMMA PartsFinite ==
    ASSUME NEW W \in SUBSET (1 .. 4)
    PROVE  IsFiniteSet(W) /\ Cardinality(W) \in 0 .. 4
<1>2. IsFiniteSet(W) /\ Cardinality(W) <= 4
  BY FourParts, FS_Subset
<1> QED
  BY <1>2, FS_CardinalityType

\* To the largest k the largest of the others is added.
LEMMA LargestStep ==
    ASSUME NEW rem \in [1 .. 4 -> Nat], NEW k \in 0 .. 3, NEW W \in Largest(rem, k)
    PROVE  \E V : V \in Largest(rem, k + 1)
<1>1. /\ W \in SUBSET (1 .. 4) /\ Cardinality(W) = k /\ IsFiniteSet(W)
      /\ \A i \in W, j \in (1 .. 4) \ W : rem[i] >= rem[j]
  BY PartsFinite DEF Largest
<1> DEFINE D == {rem[j] : j \in (1 .. 4) \ W}
<1>2. (1 .. 4) \ W # {}
  <2>1. W # 1 .. 4
    BY <1>1, FourParts
  <2> QED
    BY <1>1, <2>1
<1>3. D \subseteq Int /\ D # {} /\ \E n \in Int : \A d \in D : d <= n
  <2>1. D \subseteq Nat /\ D # {}
    BY <1>2
  <2>3. \A d \in D : d \in {rem[1], rem[2], rem[3], rem[4]}
    OBVIOUS
  <2>4. \A d \in D : d <= rem[1] + rem[2] + rem[3] + rem[4]
    BY <2>1, <2>3
  <2> QED
    BY <2>1, <2>4
<1>4. PICK d \in D : \A e \in D : e <= d
  BY <1>3, GreatestOf
<1>5. PICK m \in (1 .. 4) \ W : d = rem[m]
  BY <1>4
<1>6. \A j \in (1 .. 4) \ W : rem[m] >= rem[j]
  BY <1>4, <1>5
<1> DEFINE V == W \cup {m}
<1>7. V \in SUBSET (1 .. 4) /\ Cardinality(V) = k + 1
  BY <1>1, <1>5, FS_AddElement
<1>8. \A i \in V, j \in (1 .. 4) \ V : rem[i] >= rem[j]
  BY <1>1, <1>6
<1> QED
  BY <1>7, <1>8 DEF Largest

\* There are k largest for every k below four.
LEMMA LargestExists ==
    ASSUME NEW rem \in [1 .. 4 -> Nat], NEW k \in 0 .. 3
    PROVE  \E W : W \in Largest(rem, k)
<1>0. {} \in Largest(rem, 0)
  BY FS_EmptySet DEF Largest
<1>1. \E W : W \in Largest(rem, 1)
  BY <1>0, LargestStep
<1>2. \E W : W \in Largest(rem, 2)
  BY <1>1, LargestStep
<1>3. \E W : W \in Largest(rem, 3)
  BY <1>2, LargestStep
<1> QED
  BY <1>0, <1>1, <1>2, <1>3

\* The components with at least, or with more than, the remainder of one.
LEMMA AroundFinite ==
    ASSUME NEW rem, NEW i \in 1 .. 4
    PROVE  /\ AtLeast(rem, i) \in SUBSET (1 .. 4) /\ Above(rem, i) \in SUBSET (1 .. 4)
           /\ Cardinality(AtLeast(rem, i)) \in 0 .. 4
           /\ Cardinality(Above(rem, i)) \in 0 .. 4
  BY PartsFinite DEF AtLeast, Above

\* Without a tie at the boundary the largest are those that few others reach.
LEMMA LargestIs ==
    ASSUME NEW rem \in [1 .. 4 -> Nat], NEW k \in 0 .. 3, NEW W \in Largest(rem, k),
           \A i \in 1 .. 4 : \/ k = 0
                            \/ Cardinality(Above(rem, i)) >= k
                            \/ Cardinality(AtLeast(rem, i)) <= k
    PROVE  W = {i \in 1 .. 4 : Cardinality(AtLeast(rem, i)) <= k}
<1>1. /\ W \in SUBSET (1 .. 4) /\ Cardinality(W) = k /\ IsFiniteSet(W)
      /\ \A i \in W, j \in (1 .. 4) \ W : rem[i] >= rem[j]
  BY PartsFinite DEF Largest
<1>2. ASSUME NEW i \in W PROVE Cardinality(AtLeast(rem, i)) <= k
  <2>1. Above(rem, i) \subseteq W \ {i}
    BY <1>1 DEF Above
  <2>2. IsFiniteSet(W \ {i}) /\ Cardinality(W \ {i}) = k - 1
    BY <1>1, FS_RemoveElement
  <2>3. Cardinality(Above(rem, i)) <= k - 1
    BY <2>1, <2>2, FS_Subset
  <2>4. k # 0
    BY <1>1, FS_EmptySet
  <2>5. Cardinality(Above(rem, i)) \in 0 .. 4 /\ i \in 1 .. 4
    BY <1>1, AroundFinite
  <2> QED
    BY <2>3, <2>4, <2>5
<1>3. ASSUME NEW i \in (1 .. 4) \ W PROVE ~(Cardinality(AtLeast(rem, i)) <= k)
  <2>1. W \cup {i} \subseteq AtLeast(rem, i)
    BY <1>1 DEF AtLeast
  <2>2. Cardinality(W \cup {i}) = k + 1
    BY <1>1, FS_AddElement
  <2>3. IsFiniteSet(AtLeast(rem, i)) /\ Cardinality(AtLeast(rem, i)) \in 0 .. 4
    BY AroundFinite, PartsFinite
  <2>4. Cardinality(W \cup {i}) <= Cardinality(AtLeast(rem, i))
    BY <2>1, <2>3, FS_Subset
  <2> QED
    BY <2>2, <2>3, <2>4
<1> QED
  BY <1>1, <1>2, <1>3

\* With a tie at the boundary there is a choice.
LEMMA LargestAreTwo ==
    ASSUME NEW rem \in [1 .. 4 -> Nat], NEW k \in 1 .. 3, NEW i \in 1 .. 4,
           Cardinality(Above(rem, i)) < k, Cardinality(AtLeast(rem, i)) > k
    PROVE  Cardinality(Largest(rem, k)) > 1
<1>1. PICK W : W \in Largest(rem, k)
  BY LargestExists
<1>2. /\ W \in SUBSET (1 .. 4) /\ Cardinality(W) = k /\ IsFiniteSet(W)
      /\ \A a \in W, b \in (1 .. 4) \ W : rem[a] >= rem[b]
  BY <1>1, PartsFinite DEF Largest
<1>3. /\ Cardinality(Above(rem, i)) \in 0 .. 4 /\ Cardinality(AtLeast(rem, i)) \in 0 .. 4
      /\ IsFiniteSet(Above(rem, i)) /\ IsFiniteSet(AtLeast(rem, i))
  BY AroundFinite, PartsFinite
<1>4. PICK x \in W : rem[x] = rem[i]
  <2> SUFFICES ASSUME \A x \in W : rem[x] # rem[i] PROVE FALSE
    OBVIOUS
  <2>1. i \notin W
    OBVIOUS
  <2>2. W \subseteq Above(rem, i)
    BY <1>2, <2>1 DEF Above
  <2>3. k <= Cardinality(Above(rem, i))
    BY <1>2, <1>3, <2>2, FS_Subset
  <2> QED
    BY <1>3, <2>3
<1>5. PICK y \in (1 .. 4) \ W : rem[y] = rem[i]
  <2> SUFFICES ASSUME \A y \in (1 .. 4) \ W : rem[y] # rem[i] PROVE FALSE
    OBVIOUS
  <2>1. i \in W
    OBVIOUS
  <2>2. AtLeast(rem, i) \subseteq W
    BY <1>2, <2>1 DEF AtLeast
  <2>3. Cardinality(AtLeast(rem, i)) <= k
    BY <1>2, <2>2, FS_Subset
  <2> QED
    BY <1>3, <2>3
<1> DEFINE V == (W \ {x}) \cup {y}
<1>6. V \in SUBSET (1 .. 4) /\ Cardinality(V) = k /\ V # W
  <2>1. IsFiniteSet(W \ {x}) /\ Cardinality(W \ {x}) = k - 1
    BY <1>2, <1>4, FS_RemoveElement
  <2>2. Cardinality(V) = (k - 1) + 1
    BY <1>5, <2>1, FS_AddElement
  <2> QED
    BY <1>2, <1>5, <2>2
<1>7. \A a \in V, b \in (1 .. 4) \ V : rem[a] >= rem[b]
  BY <1>2, <1>4, <1>5
<1>8. V \in Largest(rem, k)
  BY <1>6, <1>7 DEF Largest
<1> HIDE DEF V
<1>9. {W} \cup {V} \in SUBSET Largest(rem, k)
  BY <1>1, <1>8
<1>10. Cardinality({W} \cup {V}) = 2
  <2> DEFINE T == {W}
  <2>1. IsFiniteSet(T) /\ Cardinality(T) = 1 /\ V \notin T
    BY <1>6, FS_Singleton
  <2> HIDE DEF T
  <2>2. Cardinality(T \cup {V}) = IF V \in T THEN Cardinality(T) ELSE Cardinality(T) + 1
    BY <2>1, FS_AddElement, Zenon
  <2>3. Cardinality(T \cup {V}) = 2
    BY <2>1, <2>2
  <2> QED
    BY <2>3 DEF T
<1>11. IsFiniteSet(Largest(rem, k))
  <2>1. IsFiniteSet(SUBSET (1 .. 4))
    BY FourParts, FS_SUBSET
  <2>2. Largest(rem, k) \in SUBSET (SUBSET (1 .. 4))
    BY DEF Largest
  <2> QED
    BY <2>1, <2>2, FS_Subset
<1>12. 2 <= Cardinality(Largest(rem, k)) /\ Cardinality(Largest(rem, k)) \in Nat
  BY <1>9, <1>10, <1>11, FS_Subset, FS_CardinalityType
<1> QED
  BY <1>12

-----------------------------------------------------------------------------
(* What MCSettlement asks of split_principal().                            *)

\* A floor and its remainder make up the exact share.
LEMMA Floors ==
    ASSUME NEW c \in [1 .. 4 -> Nat], NEW paid \in Nat, Nominal(c) > 0, NEW i \in 1 .. 4
    PROVE  /\ Whole(c, paid)[i] \in Nat
           /\ Remainder(c, paid)[i] \in Nat /\ Remainder(c, paid)[i] < Nominal(c)
           /\ Nominal(c) * Whole(c, paid)[i] + Remainder(c, paid)[i] = c[i] * paid
<1> DEFINE N == Nominal(c)
           x == c[i] * paid
<1>1. N \in Nat \ {0} /\ x \in Nat
  BY DEF Nominal
<1>2. Whole(c, paid)[i] = x \div N /\ Remainder(c, paid)[i] = x % N
  BY DEF Whole, Remainder
<1> HIDE DEF N, x
<1>3. x \div N \in Nat /\ x % N \in Nat /\ x % N < N /\ N * (x \div N) + (x % N) = x
  BY <1>1
<1> QED
  BY <1>2, <1>3 DEF N, x

\* The cents that the floors leave are fewer than the components.
LEMMA LooseIsSmall ==
    ASSUME NEW c \in [1 .. 4 -> Nat], NEW paid \in Nat, Nominal(c) > 0
    PROVE  LooseCents(c, paid) \in 0 .. 3
<1> DEFINE N == Nominal(c)
           w == Whole(c, paid)
           r == Remainder(c, paid)
           loose == LooseCents(c, paid)
<1>1. /\ w[1] \in Nat /\ r[1] \in Nat /\ r[1] < N /\ N * w[1] + r[1] = c[1] * paid
      /\ w[2] \in Nat /\ r[2] \in Nat /\ r[2] < N /\ N * w[2] + r[2] = c[2] * paid
      /\ w[3] \in Nat /\ r[3] \in Nat /\ r[3] < N /\ N * w[3] + r[3] = c[3] * paid
      /\ w[4] \in Nat /\ r[4] \in Nat /\ r[4] < N /\ N * w[4] + r[4] = c[4] * paid
  BY Floors
<1>2. /\ loose = paid - (w[1] + w[2] + w[3] + w[4]) /\ N = c[1] + c[2] + c[3] + c[4]
  BY DEF LooseCents, Nominal
<1>3. /\ c[1] \in Nat /\ c[2] \in Nat /\ c[3] \in Nat /\ c[4] \in Nat
      /\ N \in Nat \ {0}
  BY <1>2
<1> HIDE DEF N, w, r, loose
<1>4. c[1] * paid + c[2] * paid + c[3] * paid + c[4] * paid = N * paid
  BY <1>2, <1>3
<1>5. loose \in Int
  BY <1>1, <1>2
<1>6. N * loose = N * paid - (N * w[1] + N * w[2] + N * w[3] + N * w[4])
  BY <1>1, <1>2, <1>3
<1>7. N * loose = r[1] + r[2] + r[3] + r[4]
  <2>1. /\ N * w[1] \in Int /\ N * w[2] \in Int /\ N * w[3] \in Int /\ N * w[4] \in Int
        /\ N * paid \in Int /\ N * loose \in Int
    BY <1>1, <1>3, <1>5
  <2>2. /\ c[1] * paid \in Int /\ c[2] * paid \in Int /\ c[3] * paid \in Int
        /\ c[4] * paid \in Int
    BY <1>3
  <2> QED
    BY <1>1, <1>4, <1>6, <2>1, <2>2
<1>8. N * loose >= 0 /\ N * loose < N * 4
  BY <1>1, <1>3, <1>7
<1>9. loose >= 0
  BY <1>3, <1>5, <1>8
<1>10. loose < 4
  BY <1>3, <1>5, <1>8
<1> QED
  BY <1>5, <1>9, <1>10 DEF loose

Weight(X, i) == IF i \in X THEN 1 ELSE 0

\* A choice of components, counted one by one.
LEMMA CardinalityOfFour ==
    ASSUME NEW X \in SUBSET (1 .. 4)
    PROVE  Cardinality(X) = Weight(X, 1) + Weight(X, 2) + Weight(X, 3) + Weight(X, 4)
<1> DEFINE Y1 == X \cap {1}
           Y2 == X \cap {1, 2}
           Y3 == X \cap {1, 2, 3}
<1>1. IsFiniteSet(Y1) /\ Cardinality(Y1) = Weight(X, 1)
  <2>1. CASE 1 \in X
    <3>1. Y1 = {1}
      BY <2>1
    <3>2. IsFiniteSet({1}) /\ Cardinality({1}) = 1
      BY FS_Singleton
    <3> QED
      BY <2>1, <3>1, <3>2 DEF Weight
  <2>2. CASE 1 \notin X
    <3>1. Y1 = {}
      BY <2>2
    <3> QED
      BY <2>2, <3>1, FS_EmptySet DEF Weight
  <2> QED
    BY <2>1, <2>2
<1>2. ASSUME NEW Y, NEW Z, NEW i, IsFiniteSet(Y), i \notin Y, Z = IF i \in X THEN Y \cup {i} ELSE Y
      PROVE  IsFiniteSet(Z) /\ Cardinality(Z) = Cardinality(Y) + Weight(X, i)
  <2>1. Cardinality(Y) \in Nat
    BY <1>2, FS_CardinalityType
  <2>2. IsFiniteSet(Y \cup {i}) /\ Cardinality(Y \cup {i}) = Cardinality(Y) + 1
    BY <1>2, FS_AddElement
  <2> QED
    BY <1>2, <2>1, <2>2 DEF Weight
<1>3. /\ 2 \notin Y1 /\ Y2 = IF 2 \in X THEN Y1 \cup {2} ELSE Y1
      /\ 3 \notin Y2 /\ Y3 = IF 3 \in X THEN Y2 \cup {3} ELSE Y2
      /\ 4 \notin Y3 /\ X = IF 4 \in X THEN Y3 \cup {4} ELSE Y3
  <2>1. \A i \in X : i = 1 \/ i = 2 \/ i = 3 \/ i = 4
    OBVIOUS
  <2>2. /\ 2 \in X => Y2 = Y1 \cup {2}
        /\ 2 \notin X => Y2 = Y1
    OBVIOUS
  <2>3. /\ 3 \in X => Y3 = Y2 \cup {3}
        /\ 3 \notin X => Y3 = Y2
    OBVIOUS
  <2>4. /\ 4 \in X => X = Y3 \cup {4}
        /\ 4 \notin X => X = Y3
    BY <2>1
  <2>5. 2 \notin Y1 /\ 3 \notin Y2 /\ 4 \notin Y3
    OBVIOUS
  <2> QED
    BY <2>2, <2>3, <2>4, <2>5
<1> HIDE DEF Y1, Y2, Y3
<1>4. IsFiniteSet(Y2) /\ Cardinality(Y2) = Cardinality(Y1) + Weight(X, 2)
  BY <1>1, <1>2, <1>3
<1>5. IsFiniteSet(Y3) /\ Cardinality(Y3) = Cardinality(Y2) + Weight(X, 3)
  BY <1>2, <1>3, <1>4
<1>6. Cardinality(X) = Cardinality(Y3) + Weight(X, 4)
  BY <1>2, <1>3, <1>5
<1> QED
  BY <1>1, <1>4, <1>5, <1>6

\* What the engine refuses has more than one distribution.
LEMMA RefusedIsTied ==
    ASSUME NEW c \in [1 .. 4 -> Nat], NEW paid \in Nat, Nominal(c) > 0,
           SplitRefused(c, paid)
    PROVE  Cardinality(Winners(c, paid)) > 1
<1> DEFINE rem == Remainder(c, paid)
           loose == LooseCents(c, paid)
<1>1. rem \in [1 .. 4 -> Nat]
  <2>1. \A i \in 1 .. 4 : rem[i] \in Nat
    BY Floors
  <2> QED
    BY <2>1 DEF Remainder
<1>2. loose \in 0 .. 3
  BY LooseIsSmall
<1>3. Winners(c, paid) = Largest(rem, loose)
  BY DEF Winners, Largest
<1>4. loose > 0 /\ \E i \in 1 .. 4 : /\ Cardinality(Above(rem, i)) < loose
                                    /\ Cardinality(AtLeast(rem, i)) > loose
  BY DEF SplitRefused, Above, AtLeast
<1> HIDE DEF rem, loose
<1>5. loose \in 1 .. 3
  BY <1>2, <1>4
<1> QED
  BY <1>1, <1>3, <1>4, <1>5, LargestAreTwo

\* What it does not refuse it splits to the cent, each part within a cent.
LEMMA SplitIsExact ==
    ASSUME NEW c \in [1 .. 4 -> Nat], NEW paid \in Nat, Nominal(c) > 0,
           ~SplitRefused(c, paid), NEW p, p = Split(c, paid)
    PROVE  LET up == {i \in 1 .. 4 : p[i] > Whole(c, paid)[i]}
           IN  /\ Winners(c, paid) = {up} /\ Nominal(p) = paid
               /\ \A i \in 1 .. 4 : /\ Nominal(c) * p[i] > c[i] * paid - Nominal(c)
                                   /\ Nominal(c) * p[i] < c[i] * paid + Nominal(c)
<1> DEFINE N == Nominal(c)
           w == Whole(c, paid)
           rem == Remainder(c, paid)
           loose == LooseCents(c, paid)
           up == {i \in 1 .. 4 : p[i] > w[i]}
           few == {i \in 1 .. 4 : Cardinality(AtLeast(rem, i)) <= loose}
<1>1. \A i \in 1 .. 4 : /\ w[i] \in Nat /\ rem[i] \in Nat /\ rem[i] < N
                      /\ N * w[i] + rem[i] = c[i] * paid
  BY Floors
<1>2. loose \in 0 .. 3
  BY LooseIsSmall
<1>3. rem \in [1 .. 4 -> Nat]
  BY <1>1 DEF Remainder
<1>4. Winners(c, paid) = Largest(rem, loose)
  BY DEF Winners, Largest
<1>5. \A i \in 1 .. 4 : p[i] = w[i] + IF i \in few THEN 1 ELSE 0
  BY DEF Split, AtLeast
<1>6. \A i \in 1 .. 4 : \/ loose = 0
                      \/ Cardinality(Above(rem, i)) >= loose
                      \/ Cardinality(AtLeast(rem, i)) <= loose
  <2> SUFFICES ASSUME NEW i \in 1 .. 4, loose # 0
               PROVE  \/ Cardinality(Above(rem, i)) >= loose
                      \/ Cardinality(AtLeast(rem, i)) <= loose
    OBVIOUS
  <2>1. ~(Cardinality(Above(rem, i)) < loose /\ Cardinality(AtLeast(rem, i)) > loose)
    <3>1. SplitRefused(c, paid)
          <=> /\ loose > 0
              /\ \E k \in 1 .. 4 : /\ Cardinality(Above(rem, k)) < loose
                                   /\ Cardinality(AtLeast(rem, k)) > loose
      BY DEF SplitRefused, Above, AtLeast
    <3> HIDE DEF rem, loose
    <3> QED
      BY <1>2, <3>1
  <2>2. Cardinality(Above(rem, i)) \in 0 .. 4 /\ Cardinality(AtLeast(rem, i)) \in 0 .. 4
    BY AroundFinite
  <2> QED
    BY <1>2, <2>1, <2>2
<1>7. N = c[1] + c[2] + c[3] + c[4] /\ N \in Nat \ {0}
  BY DEF Nominal
<1>8. loose = paid - (w[1] + w[2] + w[3] + w[4])
  BY DEF LooseCents, Nominal
<1>9. Nominal(p) = p[1] + p[2] + p[3] + p[4]
  BY DEF Nominal
<1> HIDE DEF N, w, rem, loose
<1>10. up = few
  BY <1>1, <1>5
<1>11. Winners(c, paid) = {few} /\ Cardinality(few) = loose
  <2>1. \A W \in Largest(rem, loose) : W = few
    BY <1>2, <1>3, <1>6, LargestIs
  <2>2. \E W : W \in Largest(rem, loose)
    BY <1>2, <1>3, LargestExists
  <2>3. few \in Largest(rem, loose)
    BY <2>1, <2>2
  <2>4. Cardinality(few) = loose
    BY <2>3 DEF Largest
  <2> QED
    BY <1>4, <2>1, <2>3, <2>4
<1>12. Nominal(p) = paid
  <2>1. loose = Weight(few, 1) + Weight(few, 2) + Weight(few, 3) + Weight(few, 4)
    <3>1. few \in SUBSET (1 .. 4)
      OBVIOUS
    <3> QED
      BY <1>11, <3>1, CardinalityOfFour
  <2> HIDE DEF few
  <2>2. /\ p[1] = w[1] + Weight(few, 1) /\ p[2] = w[2] + Weight(few, 2)
        /\ p[3] = w[3] + Weight(few, 3) /\ p[4] = w[4] + Weight(few, 4)
    BY <1>5 DEF Weight
  <2>3. w[1] \in Nat /\ w[2] \in Nat /\ w[3] \in Nat /\ w[4] \in Nat
    BY <1>1
  <2>4. \A i \in 1 .. 4 : Weight(few, i) \in {0, 1}
    BY DEF Weight
  <2> QED
    BY <1>8, <1>9, <2>1, <2>2, <2>3, <2>4
<1>13. ASSUME NEW i \in 1 .. 4
       PROVE  N * p[i] > c[i] * paid - N /\ N * p[i] < c[i] * paid + N
  <2>1. w[i] \in Nat /\ rem[i] \in Nat /\ rem[i] < N /\ N * w[i] + rem[i] = c[i] * paid
    BY <1>1
  <2>2. N * w[i] \in Int /\ c[i] * paid \in Int
    BY <1>7, <2>1
  <2>3. CASE i \in few
    <3>1. p[i] = w[i] + 1
      BY <1>5, <2>3
    <3>2. N * p[i] = N * w[i] + N
      BY <1>7, <2>1, <3>1
    \* A component without a remainder never gets a loose cent.
    <3>3. rem[i] # 0
      <4> SUFFICES ASSUME rem[i] = 0 PROVE FALSE
        OBVIOUS
      <4>1. AtLeast(rem, i) = 1 .. 4
        BY <1>1 DEF AtLeast
      <4>2. Cardinality(AtLeast(rem, i)) = 4
        BY <4>1, FourParts
      <4> QED
        BY <1>2, <2>3, <4>2
    <3> QED
      BY <1>7, <2>1, <2>2, <3>2, <3>3
  <2>4. CASE i \notin few
    <3>1. p[i] = w[i]
      BY <1>5, <2>1, <2>4
    <3> QED
      BY <1>7, <2>1, <2>2, <3>1
  <2> QED
    BY <2>3, <2>4
<1> QED
  BY <1>10, <1>11, <1>12, <1>13 DEF N, w

\* What a call of split_principal() passes.
LEMMA SplitCallTypes ==
    ASSUME NEW c \in SplitCalls
    PROVE  /\ c.kind = "split" /\ c.nominal \in [1 .. 4 -> Nat]
           /\ c.paid \in Nat /\ Nominal(c.nominal) > 0
<1>1. /\ c.kind = "split" /\ c.nominal \in [1 .. 4 -> 0 .. MaxNominal]
      /\ c.paid \in 1 .. 4 * MaxNominal /\ Nominal(c.nominal) > 0
  BY DEF SplitCalls
<1>2. c.nominal \in [1 .. 4 -> Nat]
  BY <1>1, SettlementAssumption
<1>3. c.paid \in Nat
  BY <1>1, SettlementAssumption
<1> QED
  BY <1>1, <1>2, <1>3

-----------------------------------------------------------------------------
\* A result is what the engine computes for the call.
SettlementInv ==
    /\ call \in SettleCalls \cup SplitCalls
    /\ \/ result = NoResult
       \/ /\ call.kind = "settle"
          /\ \E q \in Sorted(DOMAIN call.row, OrderOf(call)) :
                \E s \in Settlements(q, call.row, call.amount) :
                   result = [kind |-> "settled", credit |-> s.credit,
                             parts |-> Allocations(s, call.row)]
       \/ /\ call.kind = "split"
          /\ result = IF SplitRefused(call.nominal, call.paid)
                      THEN [kind |-> "refused"]
                      ELSE [kind |-> "parts", parts |-> Split(call.nominal, call.paid)]

\* A step leaves the call alone and gives the result of its function.
LEMMA SettlementStep == SettlementInv /\ [Next]_vars => SettlementInv'
<1> SUFFICES ASSUME SettlementInv, [Next]_vars PROVE SettlementInv'
  OBVIOUS
<1>1. CASE Settle
  <2>1. PICK q \in Sorted(DOMAIN call.row, OrderOf(call)) :
          \E s \in Settlements(q, call.row, call.amount) :
             result' = [kind |-> "settled", credit |-> s.credit,
                        parts |-> Allocations(s, call.row)]
    BY <1>1 DEF Settle
  <2>2. call' = call /\ call.kind = "settle"
    BY <1>1 DEF Settle
  <2>3. OrderOf(call') = OrderOf(call)
    BY <2>2
  <2> QED
    BY <2>1, <2>2, <2>3 DEF SettlementInv
<1>2. CASE SplitPrincipal
  BY <1>2 DEF SplitPrincipal, SettlementInv
<1>3. CASE UNCHANGED vars
  BY <1>3 DEF vars, SettlementInv
<1> QED
  BY <1>1, <1>2, <1>3 DEF Next

\* Such results are what the references ask for.
LEMMA ResultsAreAllocated == SettlementInv => PaymentsAllocated
<1> SUFFICES ASSUME SettlementInv PROVE PaymentsAllocated
  OBVIOUS
<1>1. StatutoryOrder
  <2> SUFFICES ASSUME call.kind = "settle", result.kind = "settled" PROVE StatutoryOrder
    BY DEF StatutoryOrder
  <2>1. call \in SettleCalls
    BY SplitCallTypes DEF SettlementInv
  <2>2. PICK q \in Sorted(DOMAIN call.row, OrderOf(call)) :
          \E s \in Settlements(q, call.row, call.amount) :
             result = [kind |-> "settled", credit |-> s.credit,
                       parts |-> Allocations(s, call.row)]
    BY DEF SettlementInv, NoResult
  <2> QED
    BY <2>1, <2>2, SettleIsStatutory
<1>2. SplitReconciles
  <2> SUFFICES ASSUME call.kind = "split" PROVE SplitReconciles
    BY DEF SplitReconciles
  <2> DEFINE c == call.nominal
             paid == call.paid
  <2>1. call \in SplitCalls
    BY SettleCallTypes DEF SettlementInv
  <2>2. c \in [1 .. 4 -> Nat] /\ paid \in Nat /\ Nominal(c) > 0
    BY <2>1, SplitCallTypes
  <2>3. \/ result.kind = "pending"
        \/ SplitRefused(c, paid) /\ result.kind = "refused"
        \/ ~SplitRefused(c, paid) /\ result.kind = "parts" /\ result.parts = Split(c, paid)
    BY DEF SettlementInv, NoResult
  <2>4. result.kind = "refused" => Cardinality(Winners(c, paid)) > 1
    BY <2>2, <2>3, RefusedIsTied
  <2>5. result.kind = "parts" =>
          LET up == {i \in 1 .. 4 : result.parts[i] > Whole(c, paid)[i]}
          IN  /\ Winners(c, paid) = {up} /\ Nominal(result.parts) = paid
              /\ \A i \in 1 .. 4 :
                    /\ Nominal(c) * result.parts[i] > c[i] * paid - Nominal(c)
                    /\ Nominal(c) * result.parts[i] < c[i] * paid + Nominal(c)
    <3> SUFFICES ASSUME result.kind = "parts"
                 PROVE  LET up == {i \in 1 .. 4 : result.parts[i] > Whole(c, paid)[i]}
                        IN  /\ Winners(c, paid) = {up} /\ Nominal(result.parts) = paid
                            /\ \A i \in 1 .. 4 :
                                  /\ Nominal(c) * result.parts[i] > c[i] * paid - Nominal(c)
                                  /\ Nominal(c) * result.parts[i] < c[i] * paid + Nominal(c)
      OBVIOUS
    <3>1. ~SplitRefused(c, paid) /\ result.parts = Split(c, paid)
      BY <2>3
    <3> QED
      BY <2>2, <3>1, SplitIsExact
  <2> QED
    BY <2>4, <2>5 DEF SplitReconciles
<1> QED
  BY <1>1, <1>2 DEF PaymentsAllocated

(***************************************************************************)
(* Whatever the debts of a renter and the payment: settle() serves the     *)
(* debts in the order of paragraph 366 BGB and the tiers of each in that   *)
(* of paragraph 367, and every cent is assigned or becomes credit; a       *)
(* partial payment is split over the components to the cent, and refused   *)
(* exactly where the largest remainders leave a choice (settlement.py,     *)
(* split.py).                                                              *)
(***************************************************************************)
THEOREM PaymentsAlwaysAllocated == Spec => []PaymentsAllocated
<1>1. Init => SettlementInv
  BY DEF Init, SettlementInv
<1> QED
  BY <1>1, SettlementStep, ResultsAreAllocated, PTL DEF Spec

-----------------------------------------------------------------------------
(* Rounded shares and the residual of the owner.                           *)

\* A quotient rounded down.
LEMMA QuotientOf ==
    ASSUME NEW n \in Int, NEW d \in Nat \ {0}
    PROVE  /\ n \div d \in Int
           /\ (n \div d) * d <= n /\ n < (n \div d) * d + d
  OBVIOUS

\* A rounded share is at most half a cent from the exact one.
LEMMA HalfUpIsNear ==
    ASSUME NEW n \in Int, NEW d \in Nat \ {0}
    PROVE  /\ HalfUp(n, d) \in Int
           /\ 2 * (HalfUp(n, d) * d - n) <= d /\ -2 * (HalfUp(n, d) * d - n) <= d
<1> DEFINE q(m) == m \div (2 * d)
<1>1. ASSUME NEW m \in Int
      PROVE  q(m) \in Int /\ 2 * (q(m) * d) <= m /\ m < 2 * (q(m) * d) + 2 * d
  <2>1. 2 * d \in Nat \ {0}
    OBVIOUS
  <2>2. q(m) \in Int /\ q(m) * (2 * d) <= m /\ m < q(m) * (2 * d) + 2 * d
    BY <2>1, QuotientOf
  <2> HIDE DEF q
  <2>3. q(m) * (2 * d) = 2 * (q(m) * d)
    BY <2>2
  <2> QED
    BY <2>2, <2>3
<1> HIDE DEF q
<1>2. CASE n >= 0
  <2> DEFINE h == q(2 * n + d)
             p == h * d
  <2>1. HalfUp(n, d) = h
    BY <1>2 DEF HalfUp, q
  <2>2. h \in Int /\ 2 * p <= 2 * n + d /\ 2 * n + d < 2 * p + 2 * d
    BY <1>1
  <2>3. p \in Int
    BY <2>2
  <2> HIDE DEF h, p
  <2>4. 2 * (p - n) <= d /\ -2 * (p - n) <= d
    BY <2>2, <2>3
  <2> QED
    BY <2>1, <2>2, <2>4 DEF p
<1>3. CASE n < 0
  <2> DEFINE h == q(d - 2 * n)
             p == h * d
             k == -h
  <2>1. HalfUp(n, d) = k
    BY <1>3 DEF HalfUp, q
  <2>2. h \in Int /\ 2 * p <= d - 2 * n /\ d - 2 * n < 2 * p + 2 * d
    BY <1>1
  <2>3. p \in Int /\ k \in Int
    BY <2>2
  <2> HIDE DEF h
  <2>4. k * d = -p
    BY <2>2
  <2> HIDE DEF p, k
  <2>5. 2 * (k * d - n) <= d /\ -2 * (k * d - n) <= d
    BY <2>2, <2>3, <2>4
  <2> QED
    BY <2>1, <2>3, <2>5
<1> QED
  BY <1>2, <1>3

\* The renters' shares are near their exact ones, and with what the owner
\* keeps they are the whole amount.
LEMMA SharesAre ==
    ASSUME NEW total \in Int, NEW weight, IsFiniteSet(DOMAIN weight),
           \A l \in DOMAIN weight : weight[l] \in Nat, NEW owner \in Nat,
           NEW share, share = RenterShares(total, weight, owner),
           NEW whole, whole = SumOf(weight) + owner
    PROVE  /\ whole \in Nat /\ DOMAIN share = DOMAIN weight
           /\ SumOf(share) + OwnerResidual(total, share) = total
           /\ whole = 0 => OwnerResidual(total, share) = total
                           /\ \A l \in DOMAIN weight : share[l] = 0
           /\ whole # 0 =>
                 \A l \in DOMAIN weight :
                    LET miss == share[l] * whole - total * weight[l]
                    IN  2 * miss <= whole /\ -2 * miss <= whole
<1> DEFINE D == DOMAIN weight
<1>1. whole \in Nat
  BY SumOfIs, SumNat
<1>2. share = [d \in D |-> IF whole = 0 THEN 0 ELSE HalfUp(total * weight[d], whole)]
  BY DEF RenterShares
<1>3. DOMAIN share = D
  BY <1>2
<1>4. ASSUME whole # 0, NEW l \in D
      PROVE  /\ share[l] \in Int
             /\ 2 * (share[l] * whole - total * weight[l]) <= whole
             /\ -2 * (share[l] * whole - total * weight[l]) <= whole
  <2> DEFINE n == total * weight[l]
  <2>1. share[l] = HalfUp(n, whole)
    BY <1>2, <1>4
  <2>2. n \in Int /\ whole \in Nat \ {0}
    BY <1>1, <1>4
  <2> HIDE DEF n
  <2>3. /\ share[l] \in Int /\ 2 * (share[l] * whole - n) <= whole
        /\ -2 * (share[l] * whole - n) <= whole
    BY <2>1, <2>2, HalfUpIsNear
  <2> QED
    BY <2>3 DEF n
<1>5. whole = 0 => \A l \in D : share[l] = 0
  BY <1>2
<1>6. \A l \in D : share[l] \in Int
  BY <1>4, <1>5
<1>7. SumOf(share) = Sum(share, D)
  BY <1>3, SumOfIs
<1> HIDE DEF D
<1>8. IsFiniteSet(D)
  BY DEF D
<1>9. Sum(share, D) \in Int
  BY <1>6, <1>8, SumType
<1>10. whole = 0 => Sum(share, D) = 0
  BY <1>5, <1>8, SumZero
<1>11. /\ SumOf(share) + OwnerResidual(total, share) = total
       /\ whole = 0 => OwnerResidual(total, share) = total
  BY <1>7, <1>9, <1>10 DEF OwnerResidual
<1> QED
  BY <1>1, <1>3, <1>4, <1>5, <1>11 DEF D

\* A cost that is assigned to one tenancy has one line, of the whole weight.
LEMMA TenancyPartyIs ==
    ASSUME NEW t
    PROVE  LET P == TenancyParty(t) IN
           /\ IsFiniteSet(DOMAIN P.weight) /\ \A l \in DOMAIN P.weight : P.weight[l] \in Nat
           /\ P.owner \in Nat
           /\ SumOf(P.weight) + P.owner = 1 /\ SumOfTenancy(P.weight, t) = 1
<1> DEFINE k == <<t, "direct">>
           w == TenancyParty(t).weight
           T == {y \in DOMAIN w : Of(y) = t}
           g == [l \in T |-> w[l]]
<1>1. DOMAIN w = {k} /\ w[k] = 1 /\ TenancyParty(t).owner = 0
  BY DEF TenancyParty
<1>2. Of(k) = t
  BY DEF Of
<1> HIDE DEF k, w
<1>3. T = {k}
  BY <1>1, <1>2
<1>4. DOMAIN g = {k} /\ g[k] = 1
  BY <1>1, <1>3
<1>5. SumOf(w) = 1
  BY <1>1, SumOfIs, SumOne
<1>6. SumOfTenancy(w, t) = SumOf(g)
  BY DEF SumOfTenancy
<1> HIDE DEF g
<1>7. SumOf(g) = 1
  BY <1>4, SumOfIs, SumOne
<1>8. IsFiniteSet(DOMAIN w) /\ \A l \in DOMAIN w : w[l] \in Nat
  <2>1. IsFiniteSet({k})
    BY FS_Singleton
  <2> QED
    BY <1>1, <2>1
<1> HIDE DEF T
<1>9. /\ TenancyParty(t).owner \in Nat
      /\ SumOf(w) + TenancyParty(t).owner = 1 /\ SumOfTenancy(w, t) = 1
  BY <1>1, <1>5, <1>6, <1>7
<1> QED
  BY <1>8, <1>9 DEF w

\* What every cost's parties have in common, and what each key's weigh.
WholeWeights(P) ==
    /\ IsFiniteSet(DOMAIN P.weight) /\ \A l \in DOMAIN P.weight : P.weight[l] \in Nat
    /\ P.owner \in Nat

Weighed(f, P) ==
    /\ f.cost.tenancy # NoOne =>
          SumOf(P.weight) + P.owner = 1 /\ SumOfTenancy(P.weight, f.cost.tenancy) = 1
    /\ f.cost.tenancy = NoOne => ForRenters(f, P)
    /\ f.cost.tenancy = NoOne /\ f.cost.key = "CONSUMPTION" => WeighedByMeters(f, P)
    /\ f.cost.tenancy = NoOne /\ f.cost.key # "CONSUMPTION" => WeighedByDays(f, P)

UnitsWhole(f) ==
    SumOf([p \in UnitDays(f) |-> IF f.cost.key = "AREA" THEN f.area[p[1]] ELSE 1])

\* The units' values on all their days.
LEMMA WholeIs ==
    ASSUME NEW f, NEW value,
           \A u \in DOMAIN f.area : value[u] = IF f.cost.key = "AREA" THEN f.area[u] ELSE 1
    PROVE  UnitsWhole(f) = Sum([p \in UnitDays(f) |-> value[p[1]]], UnitDays(f))
<1> DEFINE g == [p \in UnitDays(f) |-> value[p[1]]]
           h == [p \in UnitDays(f) |-> IF f.cost.key = "AREA" THEN f.area[p[1]] ELSE 1]
<1>1. \A p \in UnitDays(f) : p[1] \in DOMAIN f.area
  BY DEF UnitDays
<1>2. g = h
  BY <1>1
<1>3. UnitsWhole(f) = SumOf(h) /\ DOMAIN g = UnitDays(f)
  BY DEF UnitsWhole
<1> HIDE DEF g, h
<1>4. SumOf(g) = Sum(g, DOMAIN g)
  BY SumOfIs
<1> QED
  BY <1>2, <1>3, <1>4 DEF g

\* The parties of a cost by its key.
LEMMA PartiesWeigh ==
    ASSUME NEW f, Stored(f), ~RefusedInput(f), NEW P, P = Parties(f)
    PROVE  /\ WholeWeights(P) /\ Weighed(f, P)
           /\ f.cost.key \in {"AREA", "UNITS"} => SumOf(P.weight) + P.owner = UnitsWhole(f)
<1>1. /\ f.cost.key \in {"AREA", "UNITS", "PERSONS", "CONSUMPTION", "DIRECT"}
      /\ f.cost.tenancy # NoOne => f.cost.key = "DIRECT"
      /\ f.cost.key = "DIRECT" /\ f.cost.tenancy = NoOne => f.cost.unit \in DOMAIN f.area
  BY DEF Stored, RefusedInput
<1>2. \A Q : WeighedByDays(f, Q) => WholeWeights(Q)
  BY DEF WeighedByDays, WholeWeights
<1>3. CASE f.cost.key = "AREA"
  <2>1. \A u \in DOMAIN f.area : ~DoublyClaimed(TimelineOf(f, u))
    BY <1>3 DEF RefusedInput
  <2>2. ByUnit(f, DOMAIN f.area, f.area)
    BY <1>3, <2>1, AreaByUnit
  <2>3. P = UnitParties(f, DOMAIN f.area, f.area)
    BY <1>1, <1>3 DEF Parties
  <2>4. /\ WeighedByDays(f, P) /\ ForRenters(f, P)
        /\ SumOf(P.weight) + P.owner = Sum([p \in UnitDays(f) |-> f.area[p[1]]], UnitDays(f))
    BY <2>2, <2>3, UnitsWeigh
  <2>5. \A u \in DOMAIN f.area : f.area[u] = IF f.cost.key = "AREA" THEN f.area[u] ELSE 1
    BY <1>3
  <2>6. UnitsWhole(f) = Sum([p \in UnitDays(f) |-> f.area[p[1]]], UnitDays(f))
    BY <2>5, WholeIs
  <2> QED
    BY <1>1, <1>2, <1>3, <2>4, <2>6 DEF Weighed
<1>4. CASE f.cost.key = "UNITS"
  <2>1. \A u \in DOMAIN f.area : ~DoublyClaimed(TimelineOf(f, u))
    BY <1>4 DEF RefusedInput
  <2> DEFINE one == OneEach(f)
  <2>2. ByUnit(f, DOMAIN f.area, one)
    BY <1>4, <2>1, UnitsByUnit
  <2>3. P = UnitParties(f, DOMAIN f.area, one)
    BY <1>1, <1>4 DEF Parties
  <2>4. \A u \in DOMAIN f.area : one[u] = IF f.cost.key = "AREA" THEN f.area[u] ELSE 1
    BY <1>4 DEF OneEach
  <2> HIDE DEF one
  <2>5. /\ WeighedByDays(f, P) /\ ForRenters(f, P)
        /\ SumOf(P.weight) + P.owner = Sum([p \in UnitDays(f) |-> one[p[1]]], UnitDays(f))
    BY <2>2, <2>3, UnitsWeigh
  <2>6. UnitsWhole(f) = Sum([p \in UnitDays(f) |-> one[p[1]]], UnitDays(f))
    BY <2>4, WholeIs
  <2> QED
    BY <1>1, <1>2, <1>4, <2>5, <2>6 DEF Weighed
<1>5. CASE f.cost.key = "PERSONS"
  <2>1. f.mode # "keine" => \A u \in DOMAIN f.area : ~DoublyClaimed(TimelineOf(f, u))
    BY DEF RefusedInput
  <2>2. P = PersonParties(f)
    BY <1>1, <1>5 DEF Parties
  <2>3. WeighedByDays(f, P) /\ ForRenters(f, P)
    BY <1>5, <2>1, <2>2, PersonsWeigh
  <2> QED
    BY <1>1, <1>2, <1>5, <2>3 DEF Weighed
<1>6. CASE f.cost.key = "CONSUMPTION"
  <2>1. MetersClear(f)
    BY DEF RefusedInput, MetersClear
  <2>2. P = ConsumptionParties(f)
    BY <1>1, <1>6 DEF Parties
  <2>3. WeighedByMeters(f, P) /\ ForRenters(f, P)
    BY <2>1, <2>2, MetersWeigh
  <2>4. WholeWeights(P)
    BY <2>3 DEF WeighedByMeters, WholeWeights
  <2> QED
    BY <1>1, <1>6, <2>3, <2>4 DEF Weighed
<1>7. CASE f.cost.key = "DIRECT" /\ f.cost.tenancy # NoOne
  <2>1. P = TenancyParty(f.cost.tenancy)
    BY <1>1, <1>7 DEF Parties
  <2>2. /\ WholeWeights(P)
        /\ SumOf(P.weight) + P.owner = 1 /\ SumOfTenancy(P.weight, f.cost.tenancy) = 1
    BY <2>1, TenancyPartyIs DEF WholeWeights
  <2> QED
    BY <1>7, <2>2 DEF Weighed
<1>8. CASE f.cost.key = "DIRECT" /\ f.cost.tenancy = NoOne
  <2>1. ~DoublyClaimed(TimelineOf(f, f.cost.unit)) /\ f.cost.unit \in DOMAIN f.area
    BY <1>1, <1>8 DEF RefusedInput
  <2>2. ByUnit(f, {f.cost.unit}, OneEach(f))
    BY <1>8, <2>1, DirectByUnit
  <2>3. P = UnitParties(f, {f.cost.unit}, OneEach(f))
    BY <1>1, <1>8 DEF Parties
  <2>4. WeighedByDays(f, P) /\ ForRenters(f, P)
    BY <2>2, <2>3, UnitsWeigh
  <2> QED
    BY <1>2, <1>8, <2>4 DEF Weighed
<1> QED
  BY <1>1, <1>3, <1>4, <1>5, <1>6, <1>7, <1>8

\* What a call for a cost answers agrees with the days.
LEMMA AllocateAgrees ==
    ASSUME call.kind = "costs", Stored(call.facts), result = Allocate(call.facts)
    PROVE  AllocationMatchesDays
<1> SUFFICES ASSUME result.kind = "lines" PROVE AllocationMatchesDays
  BY DEF AllocationMatchesDays
<1> DEFINE f == call.facts
           P == Parties(f)
           share == RenterShares(f.cost.amount, P.weight, P.owner)
           whole == SumOf(P.weight) + P.owner
<1>1. Stored(f)
  OBVIOUS
<1>2. /\ ~RefusedInput(f)
      /\ result = [kind |-> "lines", weight |-> P.weight, share |-> share,
                   ownerWeight |-> P.owner, owner |-> OwnerResidual(f.cost.amount, share)]
  BY DEF Allocate
<1>3. /\ result.weight = P.weight /\ result.share = share /\ result.ownerWeight = P.owner
      /\ result.owner = OwnerResidual(f.cost.amount, share)
  BY <1>2
<1>4. /\ WholeWeights(P) /\ Weighed(f, P)
      /\ f.cost.key \in {"AREA", "UNITS"} => whole = UnitsWhole(f)
  BY <1>1, <1>2, PartiesWeigh
<1>5. f.cost.amount \in Int
  BY <1>1 DEF Stored
<1>6. \A t : WeightsOf(t) = SumOfTenancy(P.weight, t)
  BY <1>3 DEF WeightsOf, SumOfTenancy
<1> HIDE DEF f, P, share, whole
<1>7. /\ DOMAIN share = DOMAIN P.weight
      /\ SumOf(share) + OwnerResidual(f.cost.amount, share) = f.cost.amount
      /\ whole = 0 => OwnerResidual(f.cost.amount, share) = f.cost.amount
      /\ whole # 0 =>
            \A l \in DOMAIN P.weight :
               LET miss == share[l] * whole - f.cost.amount * P.weight[l]
               IN  2 * miss <= whole /\ -2 * miss <= whole
  BY <1>4, <1>5, SharesAre DEF WholeWeights, share, whole
<1>8. IF f.cost.tenancy # NoOne
      THEN whole = 1 /\ WeightsOf(f.cost.tenancy) = 1
      ELSE IF f.cost.key = "CONSUMPTION"
      THEN /\ \A t \in Tenants(f) : WeightsOf(t) = MeteredWeight(f, t)
           /\ whole = Metered(f)
      ELSE /\ \A t \in Tenants(f) : WeightsOf(t) = PayingWeight(f, t)
           /\ P.owner = OwnerWeight(f)
  BY <1>4, <1>6 DEF Weighed, WeighedByMeters, WeighedByDays, whole
<1>9. f.cost.tenancy = NoOne /\ ~HeldBack(f) =>
         \A l \in DOMAIN share : l \in TenantCopy(f, DOMAIN share, Of(l))
  BY <1>4, <1>7 DEF Weighed, ForRenters, TenantCopy
<1>10. whole = SumOf(result.weight) + result.ownerWeight
  BY <1>3 DEF whole
<1> QED
  BY <1>3, <1>4, <1>7, <1>8, <1>9, <1>10 DEF AllocationMatchesDays, UnitsWhole, f

-----------------------------------------------------------------------------
(* The allocation of every cost.                                           *)

\* A call for a cost has the stored facts of a building, and its answer is
\* what the engine allocates with them.
AllocationInv ==
    call.kind = "costs" =>
        Stored(call.facts) /\ (result = NoResult \/ result = Allocate(call.facts))

\* The calls for a cost are the only ones of their kind.
LEMMA CostCallsOnly ==
    ASSUME EnginesInit, call.kind = "costs"
    PROVE  Stored(call.facts) /\ result = NoResult
<1>1. \A c \in SettleCalls : c.kind = "settle"
  BY DEF SettleCalls
<1>2. \A c \in SplitCalls : c.kind = "split"
  BY DEF SplitCalls
<1>3. \A c \in HeatingCalls : c.kind = "heating"
  BY DEF HeatingCalls
<1>4. \A c \in ReductionCalls : c.kind = "reduction"
  BY DEF ReductionCalls
<1>5. \A c \in DepreciationCalls : c.kind \in {"afa", "record"}
  BY DEF DepreciationCalls
<1>6. \A c \in AnswerCalls :
         c.kind \in {"export", "guard", "uvi", "month", "case", "station", "factor"}
  BY DEF AnswerCalls
<1>7. call \in CostCalls /\ result = NoResult
  BY <1>1, <1>2, <1>3, <1>4, <1>5, <1>6 DEF EnginesInit
<1>8. call.facts \in Buildings
  BY <1>7 DEF CostCalls
<1> QED
  BY <1>7, <1>8, BuildingsAssumption

\* One call is answered once, by its own engine.
LEMMA AllocationStep == AllocationInv /\ [EnginesNext]_vars => AllocationInv'
<1> SUFFICES ASSUME AllocationInv, [EnginesNext]_vars, call.kind = "costs"
             PROVE  AllocationInv'
  <2>1. CASE call.kind = "costs"
    BY <2>1
  <2>2. CASE call.kind # "costs"
    <3> SUFFICES ASSUME [EnginesNext]_vars PROVE call' = call
      BY <2>2 DEF AllocationInv
    <3> QED
      BY DEF EnginesNext, Next, vars, Settle, SplitPrincipal, AllocateCosts, BillHeating,
             DeductSection12, CalculateDepreciation, RecordTaxYear, ExportTaxYear,
             EvaluateGuard, InformRenter, InterpolateMonth, PlanPurchase, AssignStation,
             ResolveFactor
  <2> QED
    BY <2>1, <2>2
<1>1. CASE AllocateCosts
  BY <1>1 DEF AllocateCosts, AllocationInv
<1>2. CASE UNCHANGED vars
  BY <1>2 DEF vars, AllocationInv
<1>3. ASSUME EnginesNext PROVE AllocateCosts
  BY <1>3 DEF EnginesNext, Next, Settle, SplitPrincipal, BillHeating, DeductSection12,
              CalculateDepreciation, RecordTaxYear, ExportTaxYear, EvaluateGuard,
              InformRenter, InterpolateMonth, PlanPurchase, AssignStation, ResolveFactor
<1> QED
  BY <1>1, <1>2, <1>3

\* A pending call has no lines.
LEMMA AllocationsMatch == AllocationInv => AllocationMatchesDays
<1>1. CASE call.kind = "costs" /\ result = NoResult
  BY <1>1 DEF AllocationMatchesDays, NoResult
<1>2. CASE call.kind # "costs"
  BY <1>2 DEF AllocationMatchesDays
<1> QED
  BY <1>1, <1>2, AllocateAgrees DEF AllocationInv

\* In every building that the tables can hold, the weights, the renters' and the
\* owner's amounts of a cost are those of its days, at any time. (Code:
\* nk-engine engine.py, person_counts.py, statement_service.py.)
THEOREM AllocationAlwaysMatchesDays == EnginesSpec => []AllocationMatchesDays
<1>1. EnginesInit => AllocationInv
  BY CostCallsOnly DEF AllocationInv
<1> QED
  BY <1>1, AllocationStep, AllocationsMatch, PTL DEF EnginesSpec

-----------------------------------------------------------------------------
(* The calendar of the guards.                                             *)

\* The days before a year, and what leap years add.
YearStart(y) == 365 * (y - 1) + (y - 1) \div 4 - (y - 1) \div 100 + (y - 1) \div 400

LeapDay(y) == IF Guard!LeapYear(y) THEN 1 ELSE 0

\* A quotient grows by one at the multiples of its divisor.
LEMMA QuotientSteps ==
    ASSUME NEW y \in Nat \ {0}, NEW n \in Nat \ {0}
    PROVE  y \div n = (y - 1) \div n + (IF y % n = 0 THEN 1 ELSE 0)
<1> DEFINE q == y \div n
           r == y % n
           p == (y - 1) \div n
           s == (y - 1) % n
<1>1. y = n * q + r /\ r \in 0 .. n - 1 /\ q \in Int
  OBVIOUS
<1>2. y - 1 = n * p + s /\ s \in 0 .. n - 1 /\ p \in Int
  OBVIOUS
<1> HIDE DEF q, r, p, s
<1>3. n * (q - p) = 1 + s - r
  BY <1>1, <1>2
<1>4. q - p \in Int /\ q - p >= 0 /\ q - p <= 1
  <2>1. CASE q - p >= 2
    <3>1. n * (q - p) >= n * 2
      BY <2>1, <1>1, <1>2
    <3> QED
      BY <1>1, <1>2, <1>3, <3>1
  <2>2. CASE q - p <= -1
    <3>1. n * (q - p) <= n * (-1)
      BY <2>2, <1>1, <1>2
    <3> QED
      BY <1>1, <1>2, <1>3, <3>1
  <2> QED
    BY <1>1, <1>2, <2>1, <2>2
<1>5. CASE q = p
  <2>1. r = 1 + s
    BY <1>1, <1>2, <1>3, <1>5
  <2> QED
    BY <1>1, <1>2, <1>5, <2>1 DEF q, p, r
<1>6. CASE q = p + 1
  <2>1. n = 1 + s - r
    BY <1>1, <1>2, <1>3, <1>6
  <2>2. r = 0
    BY <1>1, <1>2, <2>1
  <2> QED
    BY <1>1, <1>2, <1>6, <2>2 DEF q, p, r
<1> QED
  BY <1>1, <1>2, <1>4, <1>5, <1>6

\* A year is 365 days and its leap day long.
LEMMA YearLength ==
    ASSUME NEW y \in Nat \ {0}
    PROVE  YearStart(y) \in Int /\ YearStart(y + 1) = YearStart(y) + 365 + LeapDay(y)
<1> DEFINE a == (y - 1) \div 4
           b == (y - 1) \div 100
           c == (y - 1) \div 400
<1>1. /\ y \div 4 = a + (IF y % 4 = 0 THEN 1 ELSE 0)
      /\ y \div 100 = b + (IF y % 100 = 0 THEN 1 ELSE 0)
      /\ y \div 400 = c + (IF y % 400 = 0 THEN 1 ELSE 0)
  BY QuotientSteps
<1>2. /\ y % 100 = 0 => y % 4 = 0
      /\ y % 400 = 0 => y % 100 = 0
  OBVIOUS
<1>3. a \in Int /\ b \in Int /\ c \in Int
  OBVIOUS
<1>4. /\ YearStart(y) = 365 * (y - 1) + a - b + c
      /\ YearStart(y + 1) = 365 * y + y \div 4 - y \div 100 + y \div 400
  <2>1. (y + 1) - 1 = y
    OBVIOUS
  <2> QED
    BY <2>1 DEF YearStart
<1> HIDE DEF a, b, c
<1> QED
  BY <1>1, <1>2, <1>3, <1>4 DEF LeapDay, Guard!LeapYear

\* Later years begin later.
LEMMA YearsGrow ==
    ASSUME NEW y \in Nat \ {0}, NEW z \in Nat \ {0}, y <= z
    PROVE  YearStart(y) <= YearStart(z)
<1> DEFINE a == y - 1
           b == z - 1
<1>1. a \in Nat /\ b \in Nat /\ a <= b
  OBVIOUS
<1> HIDE DEF a, b
<1>2. /\ a \div 4 \in Int /\ b \div 4 \in Int /\ a \div 4 <= b \div 4
      /\ a \div 400 \in Int /\ b \div 400 \in Int /\ a \div 400 <= b \div 400
  BY <1>1
<1>3. /\ a \div 100 \in Int /\ b \div 100 \in Int
      /\ 100 * (b \div 100) <= b /\ a < 100 * (a \div 100) + 100
  BY <1>1
<1>4. b \div 100 - a \div 100 <= b - a
  <2> DEFINE u == a \div 100
             v == b \div 100
  <2>1. CASE a = b
    <3>1. u = v /\ u \in Int
      BY <1>3, <2>1
    <3> QED
      BY <1>1, <3>1, <2>1
  <2>2. CASE a # b
    <3> HIDE DEF u, v
    <3>1. u \in Int /\ v \in Int /\ 100 * v <= b /\ a < 100 * u + 100
      BY <1>3 DEF u, v
    <3>2. v - u <= b - a
      BY <1>1, <2>2, <3>1
    <3> QED
      BY <3>2 DEF u, v
  <2> QED
    BY <2>1, <2>2
<1>5. /\ YearStart(y) = 365 * a + a \div 4 - a \div 100 + a \div 400
      /\ YearStart(z) = 365 * b + b \div 4 - b \div 100 + b \div 400
  BY DEF YearStart, a, b
<1> QED
  BY <1>1, <1>2, <1>3, <1>4, <1>5

\* The days before a month.
LEMMA MonthStarts ==
    ASSUME NEW y \in Nat \ {0}
    PROVE  /\ Guard!DaysBefore(y, 1) = 0 /\ Guard!DaysBefore(y, 2) = 31
           /\ Guard!DaysBefore(y, 3) = 59 + LeapDay(y) /\ Guard!DaysBefore(y, 4) = 90 + LeapDay(y)
           /\ Guard!DaysBefore(y, 5) = 120 + LeapDay(y) /\ Guard!DaysBefore(y, 6) = 151 + LeapDay(y)
           /\ Guard!DaysBefore(y, 7) = 181 + LeapDay(y) /\ Guard!DaysBefore(y, 8) = 212 + LeapDay(y)
           /\ Guard!DaysBefore(y, 9) = 243 + LeapDay(y)
           /\ Guard!DaysBefore(y, 10) = 273 + LeapDay(y)
           /\ Guard!DaysBefore(y, 11) = 304 + LeapDay(y)
           /\ Guard!DaysBefore(y, 12) = 334 + LeapDay(y)
  BY DEF Guard!DaysBefore, LeapDay

\* The lengths of the months.
LEMMA MonthLengths ==
    ASSUME NEW y \in Nat \ {0}
    PROVE  /\ Guard!LastDay(y, 2) = 28 + LeapDay(y)
           /\ \A m \in {4, 6, 9, 11} : Guard!LastDay(y, m) = 30
           /\ \A m \in {1, 3, 5, 7, 8, 10, 12} : Guard!LastDay(y, m) = 31
           /\ LeapDay(y) \in {0, 1}
  BY DEF Guard!LastDay, LeapDay

\* A day's number, and the parts of a day.
LEMMA DayParts ==
    ASSUME NEW x \in Guard!Days
    PROVE  /\ x.y \in Nat \ {0} /\ x.m \in 1 .. 12 /\ x.d \in 1 .. Guard!LastDay(x.y, x.m)
           /\ x = Guard!Date(x.y, x.m, x.d)
           /\ Guard!LastDay(x.y, x.m) \in 28 .. 31
           /\ Guard!DaysBefore(x.y, x.m) \in Nat /\ YearStart(x.y) \in Int
           /\ Guard!Ordinal(x) = YearStart(x.y) + Guard!DaysBefore(x.y, x.m) + x.d
           /\ Guard!Ordinal(x) \in Int
<1>1. /\ x.y \in Nat \ {0} /\ x.m \in 1 .. 12 /\ x.d \in 1 .. 31
      /\ x.d <= Guard!LastDay(x.y, x.m) /\ x = Guard!Date(x.y, x.m, x.d)
  BY DEF Guard!Days, Guard!Date
<1>2. x.m \in {1, 2, 3, 4, 5, 6, 7, 8, 9, 10, 11, 12}
  BY <1>1
<1>3. Guard!LastDay(x.y, x.m) \in 28 .. 31
  BY <1>1, <1>2, MonthLengths
<1>4. Guard!DaysBefore(x.y, x.m) \in Nat
  BY <1>1, <1>2, MonthStarts, MonthLengths
<1>5. YearStart(x.y) \in Int
  BY <1>1, YearLength
<1>6. Guard!Ordinal(x) = YearStart(x.y) + Guard!DaysBefore(x.y, x.m) + x.d
  BY DEF Guard!Ordinal, YearStart
<1> QED
  BY <1>1, <1>3, <1>4, <1>5, <1>6

\* A month ends where the next begins.
LEMMA MonthSteps ==
    ASSUME NEW y \in Nat \ {0}
    PROVE  /\ \A m \in 1 .. 11 :
                 Guard!DaysBefore(y, m) + Guard!LastDay(y, m) = Guard!DaysBefore(y, m + 1)
           /\ Guard!DaysBefore(y, 12) + Guard!LastDay(y, 12) = 365 + LeapDay(y)
<1>1. ASSUME NEW m \in 1 .. 11
      PROVE  Guard!DaysBefore(y, m) + Guard!LastDay(y, m) = Guard!DaysBefore(y, m + 1)
  <2>1. m \in {1, 2, 3, 4, 5, 6, 7, 8, 9, 10, 11}
    OBVIOUS
  <2> QED
    BY <2>1, MonthStarts, MonthLengths
<1> QED
  BY <1>1, MonthStarts, MonthLengths

\* Later months begin after the end of earlier ones.
LEMMA MonthsGrow ==
    ASSUME NEW y \in Nat \ {0}, NEW m \in 1 .. 12, NEW n \in 1 .. 12, m < n
    PROVE  Guard!DaysBefore(y, m) + Guard!LastDay(y, m) <= Guard!DaysBefore(y, n)
<1>1. m \in {1, 2, 3, 4, 5, 6, 7, 8, 9, 10, 11} /\ n \in {2, 3, 4, 5, 6, 7, 8, 9, 10, 11, 12}
  OBVIOUS
<1>2. Guard!DaysBefore(y, m) + Guard!LastDay(y, m) = Guard!DaysBefore(y, m + 1)
  BY <1>1, MonthSteps
<1>3. Guard!DaysBefore(y, m + 1) <= Guard!DaysBefore(y, n)
  BY <1>1, MonthStarts, MonthLengths
<1>4. Guard!DaysBefore(y, m + 1) \in Nat /\ Guard!DaysBefore(y, n) \in Nat
  BY <1>1, MonthStarts, MonthLengths
<1> QED
  BY <1>2, <1>3, <1>4

\* A day is in its year.
LEMMA DayInYear ==
    ASSUME NEW x \in Guard!Days
    PROVE  YearStart(x.y) < Guard!Ordinal(x) /\ Guard!Ordinal(x) <= YearStart(x.y + 1)
<1>1. /\ x.y \in Nat \ {0} /\ x.m \in 1 .. 12 /\ x.d \in 1 .. Guard!LastDay(x.y, x.m)
      /\ Guard!LastDay(x.y, x.m) \in 28 .. 31
      /\ Guard!DaysBefore(x.y, x.m) \in Nat /\ YearStart(x.y) \in Int
      /\ Guard!Ordinal(x) = YearStart(x.y) + Guard!DaysBefore(x.y, x.m) + x.d
  BY DayParts
<1>2. Guard!DaysBefore(x.y, x.m) + Guard!LastDay(x.y, x.m) <= 365 + LeapDay(x.y)
  <2>1. CASE x.m = 12
    BY <1>1, <2>1, MonthSteps, MonthLengths
  <2>2. CASE x.m # 12
    <3>1. /\ Guard!DaysBefore(x.y, x.m) + Guard!LastDay(x.y, x.m) <= Guard!DaysBefore(x.y, 12)
      BY <1>1, <2>2, MonthsGrow
    <3> QED
      BY <1>1, <3>1, MonthStarts, MonthLengths
  <2> QED
    BY <2>1, <2>2
<1>3. YearStart(x.y + 1) = YearStart(x.y) + 365 + LeapDay(x.y) /\ LeapDay(x.y) \in {0, 1}
  BY <1>1, YearLength, MonthLengths
<1> QED
  BY <1>1, <1>2, <1>3

\* Days that come before have smaller numbers.
LEMMA EarlierIsLess ==
    ASSUME NEW a \in Guard!Days, NEW b \in Guard!Days, Guard!Before(a, b)
    PROVE  Guard!Ordinal(a) < Guard!Ordinal(b)
<1>1. /\ a.y \in Nat \ {0} /\ a.m \in 1 .. 12 /\ a.d \in 1 .. Guard!LastDay(a.y, a.m)
      /\ Guard!LastDay(a.y, a.m) \in 28 .. 31
      /\ Guard!DaysBefore(a.y, a.m) \in Nat /\ YearStart(a.y) \in Int
      /\ Guard!Ordinal(a) = YearStart(a.y) + Guard!DaysBefore(a.y, a.m) + a.d
  BY DayParts
<1>2. /\ b.y \in Nat \ {0} /\ b.m \in 1 .. 12 /\ b.d \in 1 .. Guard!LastDay(b.y, b.m)
      /\ Guard!LastDay(b.y, b.m) \in 28 .. 31
      /\ Guard!DaysBefore(b.y, b.m) \in Nat /\ YearStart(b.y) \in Int
      /\ Guard!Ordinal(b) = YearStart(b.y) + Guard!DaysBefore(b.y, b.m) + b.d
  BY DayParts
<1>3. CASE a.y < b.y
  <2>1. Guard!Ordinal(a) <= YearStart(a.y + 1) /\ YearStart(b.y) < Guard!Ordinal(b)
    BY DayInYear
  <2>2. YearStart(a.y + 1) <= YearStart(b.y)
    BY <1>1, <1>2, <1>3, YearsGrow
  <2>3. YearStart(a.y + 1) \in Int
    BY <1>1, YearLength
  <2> QED
    BY <1>1, <1>2, <2>1, <2>2, <2>3
<1>4. CASE a.y = b.y /\ a.m < b.m
  <2>1. Guard!DaysBefore(a.y, a.m) + Guard!LastDay(a.y, a.m) <= Guard!DaysBefore(b.y, b.m)
    BY <1>1, <1>2, <1>4, MonthsGrow
  <2> QED
    BY <1>1, <1>2, <1>4, <2>1
<1>5. CASE a.y = b.y /\ a.m = b.m /\ a.d < b.d
  BY <1>1, <1>2, <1>5
<1> QED
  BY <1>3, <1>4, <1>5 DEF Guard!Before

\* Of two days one is before the other, or they are one day.
LEMMA DaysHaveOrder ==
    ASSUME NEW a \in Guard!Days, NEW b \in Guard!Days
    PROVE  /\ Guard!Ordinal(a) \in Int /\ Guard!Ordinal(b) \in Int
           /\ Guard!Before(a, b) <=> Guard!Ordinal(a) < Guard!Ordinal(b)
           /\ a = b <=> Guard!Ordinal(a) = Guard!Ordinal(b)
<1>1. Guard!Ordinal(a) \in Int /\ Guard!Ordinal(b) \in Int
  BY DayParts
<1>2. Guard!Before(a, b) => Guard!Ordinal(a) < Guard!Ordinal(b)
  BY EarlierIsLess
<1>3. Guard!Before(b, a) => Guard!Ordinal(b) < Guard!Ordinal(a)
  BY EarlierIsLess
<1>4. Guard!Before(a, b) \/ Guard!Before(b, a) \/ a = b
  <2>1. /\ a.y \in Nat \ {0} /\ a.m \in 1 .. 12 /\ a.d \in Int
        /\ b.y \in Nat \ {0} /\ b.m \in 1 .. 12 /\ b.d \in Int
    BY DayParts
  <2>2. a.y = b.y /\ a.m = b.m /\ a.d = b.d => a = b
    BY DayParts, Zenon
  <2> QED
    BY <2>1, <2>2 DEF Guard!Before
<1> QED
  BY <1>1, <1>2, <1>3, <1>4

-----------------------------------------------------------------------------
(* Months and days on.                                                     *)

\* The smaller and the greater of two numbers.
LEMMA OfTwo ==
    ASSUME NEW a \in Int, NEW b \in Int
    PROVE  /\ Guard!Min({a, b}) = IF a <= b THEN a ELSE b
           /\ Guard!Max({a, b}) = IF a <= b THEN b ELSE a
<1>1. \E x \in {a, b} : \A y \in {a, b} : x <= y
  OBVIOUS
<1>2. \E x \in {a, b} : \A y \in {a, b} : x >= y
  OBVIOUS
<1>3. Guard!Min({a, b}) \in {a, b} /\ \A y \in {a, b} : Guard!Min({a, b}) <= y
  BY <1>1 DEF Guard!Min
<1>4. Guard!Max({a, b}) \in {a, b} /\ \A y \in {a, b} : Guard!Max({a, b}) >= y
  BY <1>2 DEF Guard!Max
<1> QED
  BY <1>3, <1>4

\* Every month is 28 days long at least.
LEMMA MonthIsLong ==
    ASSUME NEW y \in Nat \ {0}, NEW m \in 1 .. 12
    PROVE  Guard!LastDay(y, m) \in 28 .. 31
<1>1. m \in {1, 2, 3, 4, 5, 6, 7, 8, 9, 10, 11, 12}
  OBVIOUS
<1> QED
  BY <1>1, MonthLengths

\* Twelve months are a year.
LEMMA WholeYears ==
    ASSUME NEW y \in Nat, NEW k \in Nat, NEW i, i = 12 * y + k
    PROVE  i \div 12 = y + (k \div 12) /\ i % 12 = k % 12
<1> DEFINE q == k \div 12
           r == k % 12
<1>1. k = 12 * q + r /\ r \in 0 .. 11 /\ q \in Int
  OBVIOUS
<1> HIDE DEF q, r
<1>2. i = 12 * (y + q) + r /\ y + q \in Int
  BY <1>1
<1>3. i \div 12 = y + q
  BY <1>1, <1>2
<1>4. i % 12 = r
  BY <1>1, <1>2
<1> QED
  BY <1>3, <1>4 DEF q, r

\* Months on, a day is the day of that number, or the month's last.
LEMMA MonthsLater ==
    ASSUME NEW x \in Guard!Days, NEW n \in Nat
    PROVE  /\ Guard!AddMonths(x, n) \in Guard!Days
           /\ Guard!AddMonths(x, n) = Guard!MonthsOn(x, n)
           /\ 12 * Guard!AddMonths(x, n).y + Guard!AddMonths(x, n).m = 12 * x.y + x.m + n
           /\ LET r == Guard!AddMonths(x, n)
                  l == Guard!LastDay(r.y, r.m)
              IN  r.d = IF x.d <= l THEN x.d ELSE l
<1> DEFINE i == 12 * x.y + x.m - 1 + n
           y == i \div 12
           m == (i % 12) + 1
           l == Guard!LastDay(y, m)
           d == Guard!Min({x.d, l})
<1>1. /\ x.y \in Nat \ {0} /\ x.m \in 1 .. 12 /\ x.d \in 1 .. 31
      /\ Guard!LastDay(x.y, x.m) \in 28 .. 31
  <2>1. /\ x.y \in Nat \ {0} /\ x.m \in 1 .. 12
        /\ x.d \in 1 .. Guard!LastDay(x.y, x.m) /\ Guard!LastDay(x.y, x.m) \in 28 .. 31
    BY DayParts
  <2> HIDE DEF i, y, m, l, d
  <2> QED
    BY <2>1
<1>2. Guard!AddMonths(x, n) = Guard!Date(y, m, d)
  BY DEF Guard!AddMonths
<1>3. i \in Nat /\ i >= 12
  BY <1>1
<1>4. y \in Nat \ {0} /\ m \in 1 .. 12 /\ 12 * y + m = i + 1
  <2> HIDE DEF i
  <2>1. i = 12 * (i \div 12) + (i % 12) /\ i % 12 \in 0 .. 11 /\ i \div 12 \in Int
    BY <1>3
  <2> QED
    BY <1>3, <2>1
<1>5. /\ y = x.y + (x.m + n - 1) \div 12
      /\ m = ((x.m + n - 1) % 12) + 1
  <2> DEFINE k == x.m + n - 1
  <2>1. k \in Nat /\ i = 12 * x.y + k
    BY <1>1
  <2> HIDE DEF k, i
  <2>2. i \div 12 = x.y + (k \div 12) /\ i % 12 = k % 12
    BY <1>1, <2>1, WholeYears
  <2> QED
    BY <2>2 DEF k
<1> HIDE DEF y, m
<1>6. l \in 28 .. 31
  BY <1>4, MonthIsLong
<1>7. d = IF x.d <= l THEN x.d ELSE l
  BY <1>1, <1>6, OfTwo
<1>8. d \in 1 .. l /\ d <= x.d /\ d \in 1 .. 31
  BY <1>1, <1>6, <1>7
<1> DEFINE P(e) == e <= x.d /\ \A g \in 1 .. Guard!LastDay(y, m) : g <= x.d => g <= e
<1>9. (CHOOSE e \in 1 .. Guard!LastDay(y, m) : P(e)) = d
  <2> HIDE DEF d
  <2>1. P(d) /\ d \in 1 .. l
    BY <1>7, <1>8
  <2>2. \A e \in 1 .. l : P(e) => e = d
    BY <1>1, <1>6, <1>7, <1>8
  <2> QED
    BY <2>1, <2>2
<1>10. Guard!MonthsOn(x, n) = Guard!Date(y, m, d)
  <2>1. Guard!MonthsOn(x, n) = Guard!Date(y, m, CHOOSE e \in 1 .. Guard!LastDay(y, m) : P(e))
    BY <1>5 DEF Guard!MonthsOn
  <2> HIDE DEF P, d
  <2> QED
    BY <1>9, <2>1
<1> HIDE DEF d
<1>11. Guard!Date(y, m, d).y = y /\ Guard!Date(y, m, d).m = m /\ Guard!Date(y, m, d).d = d
  BY DEF Guard!Date
<1>12. Guard!Date(y, m, d) \in Guard!Days
  BY <1>4, <1>8, <1>11 DEF Guard!Date, Guard!Days
<1>13. 12 * y + m = 12 * x.y + x.m + n
  BY <1>1, <1>4
<1> DEFINE r == Guard!AddMonths(x, n)
<1>14. r.y = y /\ r.m = m /\ r.d = d
  BY <1>2, <1>11
<1>15. r \in Guard!Days /\ r = Guard!MonthsOn(x, n)
  BY <1>2, <1>10, <1>12
<1> HIDE DEF r, l
<1>16. r.d = IF x.d <= Guard!LastDay(r.y, r.m) THEN x.d ELSE Guard!LastDay(r.y, r.m)
  BY <1>7, <1>14 DEF l
<1> QED
  BY <1>13, <1>14, <1>15, <1>16 DEF r

\* The first and the last day of a month.
LEMMA MonthEnds ==
    ASSUME NEW x \in Guard!Days
    PROVE  /\ Guard!MonthEnd(x) \in Guard!Days /\ Guard!MonthStart(x) \in Guard!Days
           /\ Guard!MonthEnd(x).y = x.y /\ Guard!MonthEnd(x).m = x.m
           /\ Guard!MonthEnd(x).d = Guard!LastDay(x.y, x.m)
           /\ Guard!MonthStart(x).y = x.y /\ Guard!MonthStart(x).m = x.m
           /\ Guard!MonthStart(x).d = 1
<1>1. /\ x.y \in Nat \ {0} /\ x.m \in 1 .. 12 /\ Guard!LastDay(x.y, x.m) \in 28 .. 31
  BY DayParts
<1> QED
  BY <1>1 DEF Guard!MonthEnd, Guard!MonthStart, Guard!Date, Guard!Days

\* The day that many days on, if a day of this year or the next is.
LEMMA DayOn ==
    ASSUME NEW x \in Guard!Days, NEW n \in Nat, NEW z \in Guard!Days,
           z.y \in {x.y, x.y + 1}, Guard!Ordinal(z) = Guard!Ordinal(x) + n
    PROVE  Guard!Plus(x, n) = z
<1> DEFINE S == [y : {x.y, x.y + 1}, m : 1 .. 12, d : 1 .. 31]
           P(e) == e.d <= Guard!LastDay(e.y, e.m) /\ Guard!Ordinal(e) = Guard!Ordinal(x) + n
<1>1. x.y \in Nat \ {0}
  BY DayParts
<1>2. z \in S /\ P(z)
  <2>1. z \in [y : Nat \ {0}, m : 1 .. 12, d : 1 .. 31] /\ z.d <= Guard!LastDay(z.y, z.m)
    BY DEF Guard!Days
  <2> QED
    BY <2>1
<1>3. ASSUME NEW e \in S, P(e) PROVE e = z
  <2>1. e \in Guard!Days
    BY <1>1, <1>3 DEF Guard!Days
  <2> QED
    BY <1>3, <2>1, DaysHaveOrder
<1>4. Guard!Plus(x, n) = CHOOSE e \in S : P(e)
  BY DEF Guard!Plus
<1> HIDE DEF S, P
<1> QED
  BY <1>2, <1>3, <1>4

-----------------------------------------------------------------------------
(* Each guard answers as its rule says.                                    *)

\* W1: the deadline is a year after the period, and a statement in time meets it.
LEMMA DeadlineAgrees ==
    ASSUME NEW f \in Guard!Inputs, f.guard = "W1"
    PROVE  Guard!GuardAgrees(f, Guard!Evaluate(f))
<1> DEFINE r == Guard!Evaluate(f)
           b == Guard!AddMonths(f.period_end, 12)
           days == Guard!Ordinal(b) - Guard!Ordinal(f.today)
           inTime == f.delivered # Guard!NoDate /\ Guard!NotAfter(f.delivered, b)
           late == f.delivered = Guard!NoDate \/ Guard!DaysTo(f.delivered, b) < 0
<1>1. f.period_end \in Guard!Days /\ f.today \in Guard!Days /\ f.delivered \in Guard!DaysOrNone
  BY DEF Guard!Inputs
<1>2. b \in Guard!Days /\ b = Guard!MonthsOn(f.period_end, 12)
  BY <1>1, MonthsLater
<1>3. r = Guard!StatementDeadline(f)
  BY DEF Guard!Evaluate
<1> DEFINE stage == CASE inTime -> "resolved"
                      [] ~inTime /\ days < 0 -> "expired"
                      [] ~inTime /\ days = 0 -> "last_day"
                      [] ~inTime /\ days = 30 -> "reminder_30_days"
                      [] ~inTime /\ days = 90 -> "reminder_90_days"
                      [] OTHER -> "none"
<1>4. /\ r.stage = stage /\ r.active = (stage \notin {"resolved", "none"})
      /\ r.resolved = inTime /\ r.boundary = b /\ r.channels = Guard!Channels("W1", stage)
  BY <1>3 DEF Guard!StatementDeadline, Guard!Guard
<1>5. r.channels = {}
  BY <1>4 DEF Guard!Channels
<1>6. days \in Int
  BY <1>1, <1>2, DaysHaveOrder
<1>7. inTime = ~late
  <2>1. CASE f.delivered = Guard!NoDate
    BY <2>1
  <2>2. CASE f.delivered # Guard!NoDate
    <3>1. f.delivered \in Guard!Days
      BY <1>1, <2>2 DEF Guard!DaysOrNone
    <3>2. /\ Guard!Before(b, f.delivered) <=> Guard!Ordinal(b) < Guard!Ordinal(f.delivered)
          /\ Guard!Ordinal(b) \in Int /\ Guard!Ordinal(f.delivered) \in Int
      BY <1>2, <3>1, DaysHaveOrder
    <3> QED
      BY <2>2, <3>2 DEF Guard!NotAfter, Guard!DaysTo
  <2> QED
    BY <2>1, <2>2
<1>8. Guard!DaysTo(f.today, b) = days /\ Guard!DaysTo(b, f.today) = -days
  BY <1>1, <1>2, DaysHaveOrder DEF Guard!DaysTo
<1> HIDE DEF days, inTime, late, r, b
<1>9. r.active <=> late /\ (days < 0 \/ days \in {0, 30, 90})
  BY <1>4, <1>6, <1>7
<1>10. r.stage = "expired" => days < 0
  BY <1>4, <1>6
<1>11. /\ r.channels # {} => r.active
       /\ r.boundary = b /\ r.resolved = ~late
       /\ r.active <=> late /\ (\/ Guard!DaysTo(f.today, b) < 0
                               \/ Guard!DaysTo(f.today, b) \in {0, 30, 90})
       /\ r.stage = "expired" => Guard!DaysTo(b, f.today) > 0
  BY <1>4, <1>5, <1>6, <1>7, <1>8, <1>9, <1>10
<1>12. Guard!GuardAgrees(f, r)
  BY <1>2, <1>11 DEF Guard!GuardAgrees, late
<1> QED
  BY <1>12 DEF r

\* The months to the end of a year.
LEMMA MonthsToYearEnd ==
    ASSUME NEW y \in Nat, NEW ty \in Nat, NEW tm \in 1 .. 12, NEW months,
           months = 12 * (y - ty) + 12 - tm
    PROVE  /\ months \in Int
           /\ months < 0 <=> y < ty
           /\ months > 6 <=> y > ty \/ (y = ty /\ tm < 6)
  OBVIOUS

\* W2: a calibration ends with a year, and is noticed from June of that year.
LEMMA CalibrationAgrees ==
    ASSUME NEW f \in Guard!Inputs, f.guard = "W2"
    PROVE  Guard!GuardAgrees(f, Guard!Evaluate(f))
<1> DEFINE r == Guard!Evaluate(f)
           v == Guard!ValidYears(f.medium)
           b == Guard!Date(f.calibrated.y + v, 12, 31)
           months == 12 * (b.y - f.today.y) + b.m - f.today.m
           stage == CASE months < 0 -> "exceeded"
                      [] months = 0 -> "expiry_month"
                      [] months \in 1 .. 6 -> "notice"
                      [] OTHER -> "none"
           june == Guard!Date(f.calibrated.y + v, 6, 1)
<1>1. f.today \in Guard!Days /\ f.calibrated \in Guard!DaysOrNone
  BY DEF Guard!Inputs
<1>2. r = Guard!MeterCalibration(f)
  BY DEF Guard!Evaluate
<1>3. CASE f.medium = "heat_cost_allocator"
  <2>1. r = Guard!Guard("W2", "excluded", FALSE, FALSE, Guard!NoDate, Guard!NoDetail)
    BY <1>2, <1>3 DEF Guard!MeterCalibration, Guard!ValidYears
  <2>2. r.stage = "excluded" /\ r.channels = {}
    BY <2>1 DEF Guard!Guard, Guard!Channels
  <2> HIDE DEF r
  <2>3. Guard!GuardAgrees(f, r)
    BY <2>2 DEF Guard!GuardAgrees
  <2> QED
    BY <2>3 DEF r
<1>4. CASE f.medium # "heat_cost_allocator" /\ v = 0
  <2>1. r = Guard!Wrong
    BY <1>2, <1>4 DEF Guard!MeterCalibration
  <2> QED
    BY <2>1 DEF Guard!GuardAgrees
<1>5. CASE v # 0 /\ f.calibrated = Guard!NoDate
  <2>1. r = Guard!Guard("W2", "missing_calibration_date", TRUE, FALSE, Guard!NoDate, Guard!NoDetail)
    BY <1>2, <1>5 DEF Guard!MeterCalibration, Guard!ValidYears
  <2>2. r.stage = "missing_calibration_date" /\ r.channels = {}
    BY <2>1 DEF Guard!Guard, Guard!Channels
  <2> HIDE DEF r
  <2>3. Guard!GuardAgrees(f, r)
    BY <2>2 DEF Guard!GuardAgrees
  <2> QED
    BY <2>3 DEF r
<1>6. CASE f.medium # "heat_cost_allocator" /\ v # 0 /\ f.calibrated # Guard!NoDate
  <2>0. ~(f.medium = "heat_cost_allocator") /\ ~(v = 0) /\ ~(f.calibrated = Guard!NoDate)
    BY <1>6
  <2>1. r = Guard!Guard("W2", stage, stage # "none", FALSE, b, Guard!NoDetail)
    BY <1>2, <2>0 DEF Guard!MeterCalibration
  <2>2. /\ r.stage = stage /\ r.active = (stage # "none") /\ r.boundary = b
        /\ r.channels = Guard!Channels("W2", stage)
    BY <2>1 DEF Guard!Guard
  <2>3. v = IF f.medium \in {"electricity", "gas"} THEN 8 ELSE 6
    BY <1>6 DEF Guard!ValidYears
  <2>4. /\ f.calibrated.y \in Nat /\ f.today.y \in Nat
        /\ f.today.m \in 1 .. 12 /\ f.today.d \in 1 .. 31
        /\ f.today.m = 12 => f.today.d <= 31
    <3>1. f.calibrated \in Guard!Days
      BY <1>1, <1>6 DEF Guard!DaysOrNone
    <3>2. f.calibrated.y \in Nat \ {0}
      BY <3>1, DayParts
    <3>3. f.today.y \in Nat \ {0} /\ f.today.m \in 1 .. 12 /\ f.today.d \in 1 .. 31
      BY <1>1 DEF Guard!Days
    <3> QED
      BY <3>2, <3>3
  <2>5. b.y = f.calibrated.y + v /\ b.m = 12 /\ b.d = 31
    BY DEF Guard!Date
  <2>6. june.y = f.calibrated.y + v /\ june.m = 6 /\ june.d = 1
    BY DEF Guard!Date
  <2>7. r.channels # {} => r.active
    BY <2>2 DEF Guard!Channels
  <2>8. v \in Nat
    BY <2>3
  <2> HIDE DEF r, b, june, v
  <2>9. months = 12 * ((f.calibrated.y + v) - f.today.y) + 12 - f.today.m
    BY <2>5
  <2> HIDE DEF months
  <2>16. /\ months \in Int
         /\ months < 0 <=> f.calibrated.y + v < f.today.y
         /\ months > 6 <=> \/ f.calibrated.y + v > f.today.y
                           \/ f.calibrated.y + v = f.today.y /\ f.today.m < 6
    <3>1. f.calibrated.y + v \in Nat
      BY <2>4, <2>8
    <3>2. f.today.y \in Nat /\ f.today.m \in 1 .. 12
      BY <2>4
    <3> HIDE DEF stage
    <3> QED
      BY <3>1, <3>2, <2>9, MonthsToYearEnd
  <2>10. r.stage = "exceeded" <=> months < 0
    BY <2>2, <2>16
  <2>11. Guard!Before(b, f.today) <=> months < 0
    BY <2>4, <2>5, <2>8, <2>16 DEF Guard!Before
  <2>17. stage = "none" <=> months > 6
    BY <2>16
  <2>12. r.active <=> ~(months > 6)
    BY <2>2, <2>17
  <2>13. Guard!Before(f.today, june) <=> months > 6
    BY <2>4, <2>6, <2>8, <2>16 DEF Guard!Before
  <2>14. /\ r.boundary = b
         /\ r.stage = "exceeded" <=> Guard!Before(b, f.today)
         /\ r.active <=> ~Guard!Before(f.today, june)
    BY <2>2, <2>10, <2>11, <2>12, <2>13
  <2> HIDE DEF stage, months
  <2>15. Guard!GuardAgrees(f, r)
    BY <2>3, <2>7, <2>14 DEF Guard!GuardAgrees, b, june
  <2> QED
    BY <2>15 DEF r
<1> QED
  BY <1>3, <1>4, <1>5, <1>6

\* W4: the end of the next month is the last day of consumption information.
LEMMA CadenceAgrees ==
    ASSUME NEW f \in Guard!Inputs, f.guard = "W4"
    PROVE  Guard!GuardAgrees(f, Guard!Evaluate(f))
<1> DEFINE r == Guard!Evaluate(f)
           s == IF f.sent # Guard!NoDate THEN f.sent ELSE f.start
           n == Guard!AddMonths(s, 1)
           b == Guard!MonthEnd(n)
           stage == CASE f.sentThisMonth -> "resolved"
                      [] ~f.sentThisMonth /\ Guard!Before(b, f.today) -> "overdue"
                      [] ~f.sentThisMonth /\ b = f.today -> "due"
                      [] OTHER -> "not_due"
<1>1. /\ f.today \in Guard!Days /\ s \in Guard!DaysOrNone
      /\ f.remote \in BOOLEAN /\ f.sentThisMonth \in BOOLEAN
  BY DEF Guard!Inputs
<1>2. r = Guard!Cadence(f)
  BY DEF Guard!Evaluate
<1>3. CASE ~f.remote /\ Guard!NotAfter(f.today, Guard!RetrofitDeadline)
  <2>1. r = Guard!Guard("W4", "retrofit_notice", TRUE, FALSE, Guard!RetrofitDeadline,
                        Guard!NoDetail)
    BY <1>2, <1>3 DEF Guard!Cadence, Guard!NotAfter
  <2>2. r.stage = "retrofit_notice" /\ r.channels = {}
    BY <2>1 DEF Guard!Guard, Guard!Channels
  <2> HIDE DEF r
  <2>3. Guard!GuardAgrees(f, r)
    BY <2>2 DEF Guard!GuardAgrees
  <2> QED
    BY <2>3 DEF r
<1>4. CASE \/ ~f.remote /\ Guard!Before(Guard!RetrofitDeadline, f.today)
           \/ f.remote /\ s = Guard!NoDate
  <2>1. r = Guard!Guard("W4", "source_missing", FALSE, FALSE, Guard!NoDate, Guard!NoDetail)
    BY <1>2, <1>4 DEF Guard!Cadence, Guard!NotAfter
  <2>2. r.stage = "source_missing" /\ r.channels = {}
    BY <2>1 DEF Guard!Guard, Guard!Channels
  <2> HIDE DEF r
  <2>3. Guard!GuardAgrees(f, r)
    BY <2>2 DEF Guard!GuardAgrees
  <2> QED
    BY <2>3 DEF r
<1>5. CASE f.remote /\ s # Guard!NoDate
  <2>1. r = Guard!Guard("W4", stage, stage \in {"overdue", "due"}, f.sentThisMonth, b,
                        Guard!NoDetail)
    BY <1>2, <1>5 DEF Guard!Cadence
  <2>2. /\ r.stage = stage /\ r.active = (stage \in {"overdue", "due"}) /\ r.boundary = b
        /\ r.channels = Guard!Channels("W4", stage)
    BY <2>1 DEF Guard!Guard
  <2>3. r.channels = {}
    BY <2>2 DEF Guard!Channels
  <2>4. s \in Guard!Days
    BY <1>1, <1>5 DEF Guard!DaysOrNone
  <2>5. n \in Guard!Days /\ 12 * n.y + n.m = 12 * s.y + s.m + 1
    <3> HIDE DEF s
    <3> QED
      BY <2>4, MonthsLater
  <2> HIDE DEF n
  <2>6. b \in Guard!Days /\ b.y = n.y /\ b.m = n.m /\ b.d = Guard!LastDay(n.y, n.m)
    BY <2>5, MonthEnds
  <2> HIDE DEF r, s, b
  <2>7. Guard!DaysTo(b, f.today) >= 0 <=> Guard!Before(b, f.today) \/ b = f.today
    BY <1>1, <2>6, DaysHaveOrder DEF Guard!DaysTo
  <2>8. r.active <=> ~f.sentThisMonth /\ Guard!DaysTo(b, f.today) >= 0
    BY <1>1, <2>2, <2>7
  <2> HIDE DEF stage
  <2>9. Guard!GuardAgrees(f, r)
    BY <2>2, <2>3, <2>5, <2>6, <2>8 DEF Guard!GuardAgrees, s
  <2> QED
    BY <2>9 DEF r
<1> QED
  BY <1>1, <1>3, <1>4, <1>5 DEF Guard!NotAfter

\* Half a cent is rounded up.
LEMMA HalfCentsUp ==
    ASSUME NEW n \in Nat, NEW d \in Nat \ {0}
    PROVE  /\ Guard!HalfUp(n, d) \in Nat
           /\ 2 * (Guard!HalfUp(n, d) * d - n) \in 1 - d .. d
<1> DEFINE m == 2 * n + d
           c == 2 * d
           h == m \div c
           p == h * d
<1>1. Guard!HalfUp(n, d) = h
  BY DEF Guard!HalfUp
<1>2. c \in Nat \ {0} /\ m \in Int
  OBVIOUS
<1>3. h \in Int /\ h * c <= m /\ m < h * c + c
  <2> HIDE DEF m, c, p
  <2> QED
    BY <1>2, QuotientOf
<1> HIDE DEF h
<1>4. h * (2 * d) = 2 * p /\ p \in Int
  BY <1>3
<1>5. h \in Nat
  <2>1. CASE h < 0
    <3>1. (-1 - h) * (2 * d) >= 0
      BY <1>2, <1>3, <2>1
    <3>2. (-1 - h) * (2 * d) = -(2 * d) - h * (2 * d)
      BY <1>2, <1>3
    <3> QED
      BY <1>2, <1>3, <3>1, <3>2
  <2> QED
    BY <1>3, <2>1
<1> HIDE DEF p
<1>6. 2 * (p - n) \in 1 - d .. d
  BY <1>3, <1>4
<1> QED
  BY <1>1, <1>5, <1>6 DEF p

\* Whole cents stay what they are.
LEMMA WholeCentsStay ==
    ASSUME NEW k \in Nat, NEW d \in Nat \ {0}, NEW n, n = k * d
    PROVE  Guard!HalfUp(n, d) = k
<1> DEFINE h == Guard!HalfUp(n, d)
<1>1. n \in Nat
  OBVIOUS
<1>2. h \in Nat /\ 2 * (h * d - n) \in 1 - d .. d
  BY <1>1, HalfCentsUp
<1> HIDE DEF h
<1>3. h * d - n = (h - k) * d
  BY <1>2
<1>4. CASE h - k >= 1
  <2>1. (h - k) * d >= d
    BY <1>2, <1>4
  <2> QED
    BY <1>1, <1>2, <1>3, <2>1
<1>5. CASE h - k <= -1
  <2>1. (h - k) * d <= -d
    BY <1>2, <1>5
  <2> QED
    BY <1>1, <1>2, <1>3, <2>1
<1> QED
  BY <1>2, <1>4, <1>5 DEF h

\* The months from one day's month to another's.
MonthsSince(t, x) == 12 * (t.y - x.y) + t.m - x.m

LEMMA MonthsSinceOrder ==
    ASSUME NEW x \in Guard!Days, NEW t \in Guard!Days
    PROVE  /\ MonthsSince(t, x) \in Int
           /\ MonthsSince(t, x) > 0 <=> t.y > x.y \/ (t.y = x.y /\ t.m > x.m)
           /\ MonthsSince(t, x) = 0 <=> t.y = x.y /\ t.m = x.m
<1>1. x.y \in Nat /\ x.m \in 1 .. 12
  BY DEF Guard!Days
<1>2. t.y \in Nat /\ t.m \in 1 .. 12
  BY DEF Guard!Days
<1> DEFINE y == t.y
           m == t.m
           z == x.y
           n == x.m
           k == MonthsSince(t, x)
<1>3. k = 12 * (y - z) + m - n
  BY DEF MonthsSince
<1>4. y \in Nat /\ m \in 1 .. 12 /\ z \in Nat /\ n \in 1 .. 12
  BY <1>1, <1>2
<1> HIDE DEF y, m, z, n, k
<1>5. k \in Int
  BY <1>3, <1>4
<1>6. k > 0 <=> y > z \/ (y = z /\ m > n)
  BY <1>3, <1>4
<1>7. k = 0 <=> y = z /\ m = n
  BY <1>3, <1>4
<1> QED
  BY <1>5, <1>6, <1>7 DEF y, m, z, n, k

LEMMA MonthsSinceAdds ==
    ASSUME NEW x \in Guard!Days, NEW b \in Guard!Days, NEW t \in Guard!Days
    PROVE  MonthsSince(t, x) = MonthsSince(t, b) + MonthsSince(b, x)
<1>1. x.y \in Nat /\ x.m \in 1 .. 12
  BY DEF Guard!Days
<1>2. b.y \in Nat /\ b.m \in 1 .. 12
  BY DEF Guard!Days
<1>3. t.y \in Nat /\ t.m \in 1 .. 12
  BY DEF Guard!Days
<1> QED
  BY <1>1, <1>2, <1>3 DEF MonthsSince

\* A month has passed when its day has come.
LEMMA MonthHasPassed ==
    ASSUME NEW x \in Guard!Days, NEW t \in Guard!Days, NEW b \in Guard!Days, NEW e \in Int,
           NEW l \in Int, b.d = IF x.d <= l THEN x.d ELSE l,
           MonthsSince(b, x) = 12,
           e = MonthsSince(t, x) - (IF t.d < x.d THEN 1 ELSE 0),
           t.y = b.y /\ t.m = b.m => t.d <= l
    PROVE  /\ e >= 12 => ~Guard!Before(t, b)
           /\ e < 12 => ~Guard!Before(b, t)
<1>1. /\ t.y \in Nat /\ t.m \in 1 .. 12
      /\ b.y \in Nat /\ b.m \in 1 .. 12
      /\ x.d \in Int /\ t.d \in Int /\ b.d \in Int
  <2>1. x.d \in Int
    BY DEF Guard!Days
  <2>2. t.y \in Nat /\ t.m \in 1 .. 12 /\ t.d \in Int
    BY DEF Guard!Days
  <2>3. b.y \in Nat /\ b.m \in 1 .. 12 /\ b.d \in Int
    BY DEF Guard!Days
  <2> QED
    BY <2>1, <2>2, <2>3
<1> DEFINE k == MonthsSince(t, b)
<1>3. /\ k \in Int
      /\ k > 0 <=> t.y > b.y \/ (t.y = b.y /\ t.m > b.m)
      /\ k = 0 <=> t.y = b.y /\ t.m = b.m
  BY MonthsSinceOrder
<1>2. e = k + 12 - (IF t.d < x.d THEN 1 ELSE 0)
  <2>1. MonthsSince(t, x) = k + 12
    BY MonthsSinceAdds
  <2> HIDE DEF k
  <2> QED
    BY <1>1, <1>3, <2>1
<1> HIDE DEF k
<1>4. k < 0 <=> t.y < b.y \/ (t.y = b.y /\ t.m < b.m)
  BY <1>1, <1>3
<1>5. e >= 12 <=> k > 0 \/ (k = 0 /\ ~(t.d < x.d))
  BY <1>2, <1>3
<1>6. Guard!Before(t, b) <=> k < 0 \/ (k = 0 /\ t.d < b.d)
  BY <1>3, <1>4 DEF Guard!Before
<1>7. Guard!Before(b, t) <=> k > 0 \/ (k = 0 /\ b.d < t.d)
  BY <1>1, <1>3 DEF Guard!Before
<1>8. b.d <= x.d /\ (k = 0 /\ t.d < x.d => t.d <= b.d)
  BY <1>1, <1>3
<1> QED
  BY <1>1, <1>3, <1>5, <1>6, <1>7, <1>8

\* Twelve months have passed from the day a year later on.
LEMMA YearHasPassed ==
    ASSUME NEW x \in Guard!Days, NEW t \in Guard!Days, NEW b, b = Guard!AddMonths(x, 12)
    PROVE  /\ Guard!ElapsedMonths(x, t) \in Int
           /\ Guard!ElapsedMonths(x, t) >= 12 => Guard!DaysTo(b, t) >= 0
           /\ Guard!ElapsedMonths(x, t) < 12 => Guard!DaysTo(b, t) <= 0
<1> DEFINE e == Guard!ElapsedMonths(x, t)
           l == Guard!LastDay(b.y, b.m)
<1>1. b \in Guard!Days /\ MonthsSince(b, x) = 12
  <2>1. b \in Guard!Days /\ 12 * b.y + b.m = 12 * x.y + x.m + 12
    BY MonthsLater
  <2>2. x.y \in Nat /\ x.m \in 1 .. 12
    BY DEF Guard!Days
  <2>3. b.y \in Nat /\ b.m \in 1 .. 12
    BY <2>1 DEF Guard!Days
  <2> QED
    BY <2>1, <2>2, <2>3 DEF MonthsSince
<1>2. b.d = IF x.d <= l THEN x.d ELSE l
  BY MonthsLater
<1>3. e = MonthsSince(t, x) - (IF t.d < x.d THEN 1 ELSE 0)
  <2> DEFINE c == IF t.d < x.d THEN 1 ELSE 0
             y == 12 * (t.y - x.y)
             m == t.m
             n == x.m
  <2>1. e = y + m - n - c
    BY DEF Guard!ElapsedMonths
  <2>2. MonthsSince(t, x) = y + m - n
    BY DEF MonthsSince
  <2>3. y \in Int /\ m \in Int /\ n \in Int /\ c \in Int
    BY DEF Guard!Days
  <2> HIDE DEF e, c, y, m, n
  <2>4. e = MonthsSince(t, x) - c
    BY <2>1, <2>2, <2>3
  <2> QED
    BY <2>4 DEF c
<1>4. l \in Int /\ e \in Int
  <2>1. l \in 28 .. 31
    BY <1>1, DayParts
  <2>2. MonthsSince(t, x) \in Int
    BY MonthsSinceOrder
  <2> QED
    BY <1>3, <2>1, <2>2
<1>5. t.y = b.y /\ t.m = b.m => t.d <= l
  <2>1. t.d <= Guard!LastDay(t.y, t.m)
    BY DayParts
  <2> QED
    BY <2>1
<1> HIDE DEF e, l
<1>6. (e >= 12 => ~Guard!Before(t, b)) /\ (e < 12 => ~Guard!Before(b, t))
  BY <1>1, <1>2, <1>3, <1>4, <1>5, MonthHasPassed
<1>9. /\ Guard!Before(t, b) <=> Guard!DaysTo(b, t) < 0
      /\ Guard!Before(b, t) <=> Guard!DaysTo(b, t) > 0
      /\ Guard!DaysTo(b, t) \in Int
  BY <1>1, DaysHaveOrder DEF Guard!DaysTo
<1> QED
  BY <1>4, <1>6, <1>9 DEF e

\* W7: an indexed rent is that of the index to half a cent, after a year.
LEMMA IndexAgrees ==
    ASSUME NEW f \in Guard!Inputs, f.guard = "W7"
    PROVE  Guard!GuardAgrees(f, Guard!Evaluate(f))
<1> DEFINE r == Guard!Evaluate(f)
           b == Guard!AddMonths(f.last, 12)
           e == Guard!ElapsedMonths(f.last, f.today)
           n == f.rent * f.new.value
           h == Guard!HalfUp(n, f.base.value)
           stage == IF e >= 12 THEN "opportunity" ELSE "waiting_period"
<1>1. /\ f.today \in Guard!Days /\ f.last \in Guard!Days /\ f.rent \in Int
      /\ f.base \in Guard!Snapshots /\ f.new \in Guard!Snapshots
  BY DEF Guard!Inputs
<1>2. /\ f.base.value \in Int /\ f.base.year \in Int
      /\ f.new.value \in Int /\ f.new.year \in Int
  BY <1>1 DEF Guard!Snapshots
<1>3. r = Guard!IndexRent(f)
  BY DEF Guard!Evaluate
<1>4. CASE f.rent < 0
  <2>0. ~(f.rent >= 0)
    BY <1>1, <1>4
  <2>1. r = Guard!Wrong
    BY <1>3, <1>4, <2>0 DEF Guard!IndexRent
  <2> QED
    BY <2>1 DEF Guard!GuardAgrees
<1>5. CASE f.rent >= 0 /\ f.base.year # f.new.year
  <2>0. ~(f.rent < 0)
    BY <1>1, <1>5
  <2>1. r = Guard!Guard("W7", "basis_year_mismatch", FALSE, FALSE, b, [rent |-> Guard!Unstated])
    BY <1>3, <1>5, <2>0 DEF Guard!IndexRent
  <2>2. /\ r.stage = "basis_year_mismatch" /\ r.channels = {} /\ r.active = FALSE
        /\ r.detail.rent = Guard!Unstated
    BY <2>1 DEF Guard!Guard, Guard!Channels
  <2> HIDE DEF r
  <2>3. Guard!GuardAgrees(f, r)
    BY <2>2 DEF Guard!GuardAgrees
  <2> QED
    BY <2>3 DEF r
<1>6. CASE f.rent >= 0 /\ f.base.year = f.new.year /\ f.base.value <= 0
  <2>0. ~(f.rent < 0) /\ ~(f.base.value > 0)
    BY <1>1, <1>2, <1>6
  <2>1. r = Guard!Wrong
    BY <1>3, <1>6, <2>0 DEF Guard!IndexRent
  <2> QED
    BY <2>1 DEF Guard!GuardAgrees
<1>7. CASE /\ f.rent >= 0 /\ f.base.year = f.new.year
           /\ f.base.value > 0 /\ f.new.value <= f.base.value
  <2>0. ~(f.rent < 0) /\ ~(f.base.value <= 0)
    BY <1>1, <1>2, <1>7
  <2>1. r = Guard!Guard("W7", "no_increase", FALSE, FALSE, b, [rent |-> Guard!Unstated])
    BY <1>3, <1>7, <2>0 DEF Guard!IndexRent
  <2>2. /\ r.stage = "no_increase" /\ r.channels = {} /\ r.active = FALSE
        /\ r.detail.rent = Guard!Unstated
    BY <2>1 DEF Guard!Guard, Guard!Channels
  <2> HIDE DEF r
  <2>3. Guard!GuardAgrees(f, r)
    BY <2>2 DEF Guard!GuardAgrees
  <2> QED
    BY <2>3 DEF r
<1>8. CASE f.rent >= 0 /\ f.base.year = f.new.year /\ f.base.value > 0 /\ f.new.value > f.base.value
  <2>0. ~(f.rent < 0) /\ ~(f.base.value <= 0) /\ ~(f.new.value <= f.base.value)
    BY <1>1, <1>2, <1>8
  <2>1. r = Guard!Guard("W7", stage, stage = "opportunity", FALSE, b, [rent |-> h])
    BY <1>3, <1>8, <2>0 DEF Guard!IndexRent
  <2>2. /\ r.stage = stage /\ r.active = (stage = "opportunity") /\ r.boundary = b
        /\ r.channels = Guard!Channels("W7", stage) /\ r.detail.rent = h
    BY <2>1 DEF Guard!Guard
  <2>3. r.channels # {} => r.active
    BY <2>2 DEF Guard!Channels
  <2>4. /\ e \in Int
        /\ e >= 12 => Guard!DaysTo(b, f.today) >= 0
        /\ e < 12 => Guard!DaysTo(b, f.today) <= 0
    <3> HIDE DEF b
    <3> QED
      BY <1>1, YearHasPassed DEF b
  <2>5. n \in Nat /\ f.base.value \in Nat \ {0} /\ n >= f.rent * f.base.value
    <3>1. f.rent * (f.new.value - f.base.value) >= 0
      BY <1>1, <1>2, <1>8
    <3>2. f.rent * (f.new.value - f.base.value) = n - f.rent * f.base.value
      BY <1>1, <1>2
    <3>3. n \in Int /\ f.rent * f.base.value \in Int /\ f.rent * f.base.value >= 0
      BY <1>1, <1>2, <1>8
    <3> QED
      BY <1>2, <1>8, <3>1, <3>2, <3>3
  <2>6. h \in Nat /\ 2 * (h * f.base.value - n) \in 1 - f.base.value .. f.base.value
    <3> HIDE DEF n
    <3> QED
      BY <2>5, HalfCentsUp
  <2> HIDE DEF r, b, e, h
  <2>7. h >= f.rent
    <3>1. CASE h <= f.rent - 1
      <4> HIDE DEF n
      <4>1. (f.rent - 1 - h) * f.base.value >= 0
        BY <1>1, <2>5, <2>6, <3>1
      <4>2. (f.rent - 1 - h) * f.base.value
                = f.rent * f.base.value - f.base.value - h * f.base.value
        BY <1>1, <2>5, <2>6
      <4>3. f.rent * f.base.value \in Int /\ h * f.base.value \in Int
        BY <1>1, <2>5, <2>6
      <4> QED
        BY <2>5, <2>6, <4>1, <4>2, <4>3
    <3> QED
      BY <1>1, <2>6, <3>1
  <2>8. /\ r.active => Guard!DaysTo(r.boundary, f.today) >= 0 /\ r.detail.rent >= f.rent
        /\ r.stage = "waiting_period" => Guard!DaysTo(r.boundary, f.today) <= 0
        /\ 2 * (r.detail.rent * f.base.value - f.rent * f.new.value)
              \in 1 - f.base.value .. f.base.value
    <3>1. r.active => Guard!DaysTo(r.boundary, f.today) >= 0
      BY <2>2, <2>4
    <3>2. r.stage = "waiting_period" => Guard!DaysTo(r.boundary, f.today) <= 0
      BY <2>2, <2>4
    <3>3. r.detail.rent >= f.rent
      BY <2>2, <2>7
    <3>4. 2 * (r.detail.rent * f.base.value - f.rent * f.new.value)
              \in 1 - f.base.value .. f.base.value
      BY <2>2, <2>6
    <3> QED
      BY <3>1, <3>2, <3>3, <3>4
  <2>9. Guard!GuardAgrees(f, r)
    BY <2>3, <2>8 DEF Guard!GuardAgrees
  <2> QED
    BY <2>9 DEF r
<1> QED
  BY <1>1, <1>2, <1>4, <1>5, <1>6, <1>7, <1>8

\* A month on is in this year or the next.
LEMMA ThirtyDaysOn ==
    ASSUME NEW x \in Guard!Days
    PROVE  Guard!Ordinal(Guard!Plus(x, 30)) = Guard!Ordinal(x) + 30
<1> DEFINE l == Guard!LastDay(x.y, x.m)
           later(y, m, d) == Guard!Date(y, m, d)
<1>1. /\ x.y \in Nat \ {0} /\ x.m \in 1 .. 12 /\ x.d \in 1 .. l /\ l \in 28 .. 31
      /\ Guard!DaysBefore(x.y, x.m) \in Nat /\ YearStart(x.y) \in Int
      /\ Guard!Ordinal(x) = YearStart(x.y) + Guard!DaysBefore(x.y, x.m) + x.d
  BY DayParts
<1>2. SUFFICES \E z \in Guard!Days : /\ z.y \in {x.y, x.y + 1}
                                     /\ Guard!Ordinal(z) = Guard!Ordinal(x) + 30
  BY DayOn
<1>3. ASSUME NEW y \in Nat \ {0}, NEW m \in 1 .. 12, NEW d \in 1 .. 31, d <= Guard!LastDay(y, m)
      PROVE  /\ later(y, m, d) \in Guard!Days /\ later(y, m, d).y = y
             /\ Guard!Ordinal(later(y, m, d)) = YearStart(y) + Guard!DaysBefore(y, m) + d
  <2>1. later(y, m, d).y = y /\ later(y, m, d).m = m /\ later(y, m, d).d = d
    BY DEF Guard!Date
  <2>2. later(y, m, d) \in Guard!Days
    BY <1>3, <2>1 DEF Guard!Days, Guard!Date
  <2> HIDE DEF later
  <2> QED
    BY <2>1, <2>2, DayParts
<1> HIDE DEF later, l
<1>4. CASE x.d + 30 <= l
  <2> DEFINE d == x.d + 30
  <2>1. d \in 1 .. 31 /\ d <= l
    BY <1>1, <1>4
  <2>2. /\ later(x.y, x.m, d) \in Guard!Days /\ later(x.y, x.m, d).y = x.y
        /\ Guard!Ordinal(later(x.y, x.m, d)) = YearStart(x.y) + Guard!DaysBefore(x.y, x.m) + d
    <3> HIDE DEF d
    <3> QED
      BY <1>1, <2>1, <1>3 DEF l
  <2>3. Guard!Ordinal(later(x.y, x.m, d)) = Guard!Ordinal(x) + 30
    BY <1>1, <2>2
  <2> QED
    BY <2>2, <2>3
<1>5. CASE x.d + 30 > l /\ x.m = 12
  <2>1. l = 31 /\ x.y + 1 \in Nat \ {0} /\ Guard!LastDay(x.y + 1, 1) = 31
    BY <1>1, <1>5, MonthLengths DEF l
  <2>2. x.d - 1 \in 1 .. 31
    BY <1>1, <1>5, <2>1
  <2>3. /\ YearStart(x.y + 1) = YearStart(x.y) + Guard!DaysBefore(x.y, 12) + 31
        /\ Guard!DaysBefore(x.y + 1, 1) = 0
    <3>1. YearStart(x.y + 1) = YearStart(x.y) + 365 + LeapDay(x.y)
      BY <1>1, YearLength
    <3>2. Guard!DaysBefore(x.y, 12) = 334 + LeapDay(x.y) /\ LeapDay(x.y) \in {0, 1}
      BY <1>1, MonthStarts, MonthLengths
    <3>3. Guard!DaysBefore(x.y + 1, 1) = 0
      BY <2>1, MonthStarts
    <3> QED
      BY <1>1, <3>1, <3>2, <3>3
  <2>4. /\ later(x.y + 1, 1, x.d - 1) \in Guard!Days /\ later(x.y + 1, 1, x.d - 1).y = x.y + 1
        /\ Guard!Ordinal(later(x.y + 1, 1, x.d - 1)) = YearStart(x.y + 1) + (x.d - 1)
    <3> DEFINE d == x.d - 1
               y == x.y + 1
    <3>1. y \in Nat \ {0} /\ d \in 1 .. 31 /\ Guard!LastDay(y, 1) = 31 /\ Guard!DaysBefore(y, 1) = 0
      BY <2>1, <2>2, <2>3
    <3> DEFINE m == 1
    <3> HIDE DEF d, y
    <3>2. m \in 1 .. 12 /\ d \in Int /\ d <= Guard!LastDay(y, m)
      BY <3>1
    <3>3. /\ later(y, m, d) \in Guard!Days /\ later(y, m, d).y = y
          /\ Guard!Ordinal(later(y, m, d)) = YearStart(y) + Guard!DaysBefore(y, m) + d
      <4> HIDE DEF m
      <4> QED
        BY <3>1, <3>2, <1>3
    <3>4. YearStart(y) \in Int
      BY <3>1, YearLength
    <3>5. Guard!Ordinal(later(y, 1, d)) = YearStart(y) + d
      BY <3>1, <3>2, <3>3, <3>4
    <3> QED
      BY <3>3, <3>5 DEF d, y
  <2>5. Guard!Ordinal(later(x.y + 1, 1, x.d - 1)) = Guard!Ordinal(x) + 30
    BY <1>1, <1>5, <2>3, <2>4
  <2> QED
    BY <2>4, <2>5
<1>6. CASE x.d + 30 > l /\ x.m # 12
  <2> DEFINE k == Guard!LastDay(x.y, x.m + 1)
  <2>1. x.m + 1 \in 1 .. 12 /\ k \in 28 .. 31
    BY <1>1, <1>6, MonthIsLong
  <2>2. Guard!DaysBefore(x.y, x.m + 1) = Guard!DaysBefore(x.y, x.m) + l
    BY <1>1, <1>6, MonthSteps DEF l
  <2> HIDE DEF k
  <2>3. CASE x.d + 30 - l <= k
    <3> DEFINE d == x.d + 30 - l
    <3>1. d \in 1 .. 31 /\ d <= k
      BY <1>1, <1>6, <2>1, <2>3
    <3>2. /\ later(x.y, x.m + 1, d) \in Guard!Days /\ later(x.y, x.m + 1, d).y = x.y
          /\ Guard!Ordinal(later(x.y, x.m + 1, d))
                = YearStart(x.y) + Guard!DaysBefore(x.y, x.m + 1) + d
      <4> HIDE DEF d
      <4> QED
        BY <1>1, <2>1, <3>1, <1>3 DEF k
    <3>3. Guard!Ordinal(later(x.y, x.m + 1, d)) = Guard!Ordinal(x) + 30
      BY <1>1, <2>2, <3>2
    <3> QED
      BY <3>2, <3>3
  <2>4. CASE x.d + 30 - l > k
    \* The thirtieth day after the end of January is in March.
    <3>1. x.m = 1 /\ l = 31
      <4>1. k <= 29
        BY <1>1, <2>1, <2>4
      <4>2. x.m + 1 = 2
        <5>1. x.m + 1 \in {2, 3, 4, 5, 6, 7, 8, 9, 10, 11, 12}
          BY <1>1, <1>6
        <5> QED
          BY <1>1, <4>1, <5>1, MonthLengths DEF k
      <4> QED
        BY <1>1, <4>2, MonthLengths DEF l
    <3> DEFINE d == x.d + 30 - 31 - k
    <3>2. d \in 1 .. 31 /\ Guard!LastDay(x.y, 3) = 31 /\ d <= Guard!LastDay(x.y, 3)
      BY <1>1, <2>1, <2>4, <3>1, MonthLengths
    <3>3. Guard!DaysBefore(x.y, 3) = Guard!DaysBefore(x.y, x.m) + 31 + k
      BY <1>1, <3>1, MonthStarts, MonthLengths DEF k
    <3>4. /\ later(x.y, 3, d) \in Guard!Days /\ later(x.y, 3, d).y = x.y
          /\ Guard!Ordinal(later(x.y, 3, d)) = YearStart(x.y) + Guard!DaysBefore(x.y, 3) + d
      <4> DEFINE m == 3
                 y == x.y
      <4>1. y \in Nat \ {0} /\ m \in 1 .. 12 /\ d \in 1 .. 31 /\ d <= Guard!LastDay(y, m)
        BY <1>1, <3>2
      <4> HIDE DEF d, m, y
      <4>2. /\ later(y, m, d) \in Guard!Days /\ later(y, m, d).y = y
            /\ Guard!Ordinal(later(y, m, d)) = YearStart(y) + Guard!DaysBefore(y, m) + d
        BY <4>1, <1>3
      <4> QED
        BY <4>2 DEF m, y
    <3>5. Guard!Ordinal(later(x.y, 3, d)) = Guard!Ordinal(x) + 30
      BY <1>1, <2>1, <3>3, <3>4
    <3> QED
      BY <3>4, <3>5
  <2> QED
    BY <1>1, <2>1, <2>3, <2>4
<1> QED
  BY <1>1, <1>4, <1>5, <1>6

\* W8: a unit is empty after the threshold, and loses its rent by the day.
LEMMA VacancyAgrees ==
    ASSUME NEW f \in Guard!Inputs, f.guard = "W8"
    PROVE  Guard!GuardAgrees(f, Guard!Evaluate(f))
<1> DEFINE r == Guard!Evaluate(f)
           D == Guard!Ordinal(f.today) - Guard!Ordinal(f.ended)
           days == Guard!Max({0, D})
           b == Guard!Plus(f.ended, 30)
           h == Guard!HalfUp(f.rent * days, 30)
           stage == IF days > 30 THEN "vacancy" ELSE "within_threshold"
           none == [days |-> Guard!Unstated, lost |-> Guard!Unstated]
<1>1. /\ f.today \in Guard!Days /\ f.ended \in Guard!Days /\ f.rent \in Int
      /\ f.occupied \in BOOLEAN
  BY DEF Guard!Inputs
<1>2. r = Guard!Vacancy(f)
  BY DEF Guard!Evaluate
<1>3. CASE f.rent < 0
  <2>0. ~(f.rent >= 0)
    BY <1>1, <1>3
  <2>1. r = Guard!Wrong
    BY <1>2, <1>3, <2>0 DEF Guard!Vacancy
  <2> QED
    BY <2>1 DEF Guard!GuardAgrees
<1>4. CASE f.rent >= 0 /\ f.occupied
  <2>0. ~(f.rent < 0)
    BY <1>1, <1>4
  <2>1. r = Guard!Guard("W8", "active_tenancy", FALSE, TRUE, Guard!NoDate, none)
    BY <1>2, <1>4, <2>0 DEF Guard!Vacancy
  <2>2. r.active = FALSE /\ r.channels = {} /\ r.detail.lost = Guard!Unstated
    BY <2>1 DEF Guard!Guard, Guard!Channels
  <2> HIDE DEF r
  <2>3. Guard!GuardAgrees(f, r)
    BY <1>4, <2>2 DEF Guard!GuardAgrees
  <2> QED
    BY <2>3 DEF r
<1>5. CASE f.rent >= 0 /\ ~f.occupied
  <2>0. ~(f.rent < 0)
    BY <1>1, <1>5
  <2>1. r = Guard!Guard("W8", stage, stage = "vacancy", FALSE, b, [days |-> days, lost |-> h])
    BY <1>2, <1>5, <2>0 DEF Guard!Vacancy, Guard!VacancyThreshold, Guard!RentPeriod
  <2>2. /\ r.active = (stage = "vacancy") /\ r.boundary = b
        /\ r.channels = Guard!Channels("W8", stage) /\ r.detail.lost = h
    BY <2>1 DEF Guard!Guard
  <2>3. r.channels # {} => r.active
    BY <2>2 DEF Guard!Channels
  <2>4. D \in Int /\ Guard!DaysTo(f.ended, f.today) = D
    BY <1>1, DayParts DEF Guard!DaysTo
  <2>5. days = IF 0 <= D THEN D ELSE 0
    <3> HIDE DEF D
    <3> QED
      BY <2>4, OfTwo
  <2>6. Guard!DaysTo(b, f.today) = D - 30
    <3>1. Guard!Ordinal(b) = Guard!Ordinal(f.ended) + 30
      BY <1>1, ThirtyDaysOn
    <3>2. Guard!Ordinal(f.ended) \in Int /\ Guard!Ordinal(f.today) \in Int
      BY <1>1, DayParts
    <3> HIDE DEF b
    <3> QED
      BY <3>1, <3>2 DEF Guard!DaysTo
  <2> HIDE DEF r, D, days, b
  <2>7. r.active <=> Guard!DaysTo(b, f.today) > 0
    <3>1. r.active <=> days > 30
      BY <2>2
    <3>2. days > 30 <=> D - 30 > 0
      BY <2>4, <2>5
    <3> HIDE DEF stage
    <3> QED
      BY <2>6, <3>1, <3>2
  <2>8. ASSUME D % 30 = 0
        PROVE  h = f.rent * Guard!Max({0, D \div 30})
    <3> DEFINE q == D \div 30
    <3>1. q \in Int /\ D = 30 * q
      BY <2>4, <2>8
    <3> HIDE DEF q
    <3>2. Guard!Max({0, q}) = IF 0 <= q THEN q ELSE 0
      BY <3>1, OfTwo
    <3>3. CASE 0 <= q
      <4> DEFINE k == f.rent * q
                 n == f.rent * days
      <4>1. days = 30 * q
        BY <2>4, <2>5, <3>1, <3>3
      <4>2. k \in Nat
        BY <1>1, <1>5, <3>1, <3>3
      <4>3. n = k * 30
        BY <1>1, <3>1, <4>1
      <4> HIDE DEF k, n
      <4>4. Guard!HalfUp(n, 30) = k
        BY <4>2, <4>3, WholeCentsStay
      <4> QED
        BY <3>2, <3>3, <4>4 DEF k, n, q
    <3>4. CASE q < 0
      <4>1. days = 0
        BY <2>4, <2>5, <3>1, <3>4
      <4>2. f.rent * days = 0 /\ f.rent * 0 = 0
        BY <1>1, <4>1
      <4>3. Guard!HalfUp(0, 30) = 0
        BY WholeCentsStay
      <4> QED
        BY <3>1, <3>2, <3>4, <4>2, <4>3 DEF q
    <3> QED
      BY <3>1, <3>3, <3>4
  <2> HIDE DEF h, stage
  <2>9. Guard!DaysTo(b, f.today) \in Int
    BY <2>4, <2>6
  <2>10. /\ r.active => ~f.occupied /\ Guard!DaysTo(r.boundary, f.today) > 0
         /\ ~r.active /\ ~f.occupied => Guard!DaysTo(r.boundary, f.today) <= 0
         /\ r.detail.lost # Guard!Unstated /\ Guard!DaysTo(f.ended, f.today) % 30 = 0 =>
               r.detail.lost = f.rent * Guard!Max({0, Guard!DaysTo(f.ended, f.today) \div 30})
    BY <1>5, <2>2, <2>4, <2>7, <2>8, <2>9
  <2>11. Guard!GuardAgrees(f, r)
    BY <2>3, <2>10 DEF Guard!GuardAgrees
  <2> QED
    BY <2>11 DEF r
<1> QED
  BY <1>1, <1>3, <1>4, <1>5

\* After the end of a month comes the first day of the next.
LEMMA NextMonthBegins ==
    ASSUME NEW x \in Guard!Days, NEW z \in Guard!Days, 12 * z.y + z.m = 12 * x.y + x.m + 1,
           x.d = Guard!LastDay(x.y, x.m), z.d = 1
    PROVE  Guard!Plus(x, 1) = z
<1>1. /\ x.y \in Nat \ {0} /\ x.m \in 1 .. 12
      /\ Guard!LastDay(x.y, x.m) \in 28 .. 31
      /\ Guard!DaysBefore(x.y, x.m) \in Nat /\ YearStart(x.y) \in Int
      /\ Guard!Ordinal(x) = YearStart(x.y) + Guard!DaysBefore(x.y, x.m) + x.d
  BY DayParts
<1>2. /\ z.y \in Nat \ {0} /\ z.m \in 1 .. 12
      /\ Guard!DaysBefore(z.y, z.m) \in Nat /\ YearStart(z.y) \in Int
      /\ Guard!Ordinal(z) = YearStart(z.y) + Guard!DaysBefore(z.y, z.m) + z.d
  BY DayParts
<1>3. CASE x.m = 12
  <2>1. z.y = x.y + 1 /\ z.m = 1
    BY <1>1, <1>2, <1>3
  <2>2. YearStart(x.y + 1) = YearStart(x.y) + 365 + LeapDay(x.y)
    BY <1>1, YearLength
  <2>3. /\ Guard!DaysBefore(x.y, 12) + Guard!LastDay(x.y, 12) = 365 + LeapDay(x.y)
        /\ LeapDay(x.y) \in {0, 1}
    BY <1>1, MonthSteps, MonthLengths
  <2>4. Guard!DaysBefore(z.y, 1) = 0
    BY <1>2, MonthStarts
  <2>5. Guard!Ordinal(z) = Guard!Ordinal(x) + 1
    BY <1>1, <1>2, <1>3, <2>1, <2>2, <2>3, <2>4
  <2> QED
    BY <2>1, <2>5, DayOn
<1>4. CASE x.m # 12
  <2>1. z.y = x.y /\ z.m = x.m + 1
    BY <1>1, <1>2, <1>4
  <2>2. Guard!DaysBefore(x.y, x.m) + Guard!LastDay(x.y, x.m) = Guard!DaysBefore(x.y, x.m + 1)
    BY <1>1, <1>4, MonthSteps
  <2>3. Guard!Ordinal(z) = Guard!Ordinal(x) + 1
    BY <1>1, <1>2, <2>1, <2>2
  <2> QED
    BY <2>1, <2>3, DayOn
<1> QED
  BY <1>3, <1>4

\* W5: an increase ends at the cap and at the comparative rent.
LEMMA IncreaseAgrees ==
    ASSUME NEW f \in Guard!Inputs, f.guard = "W5"
    PROVE  Guard!GuardAgrees(f, Guard!Evaluate(f))
<1> DEFINE r == Guard!Evaluate(f)
           n == f.base * Guard!CapPercent(f)
           ceiling == Guard!HalfUp(n, 100)
           limit == IF f.comparative = Guard!Unstated THEN ceiling
                    ELSE Guard!Min({ceiling, f.comparative})
           increase == Guard!Max({0, limit - f.rent})
           declare == Guard!AddMonths(f.last, 12)
           active == Guard!NotAfter(declare, f.today) /\ increase > 0
           second == Guard!AddMonths(f.request, 2)
           third == Guard!AddMonths(f.request, 3)
           consent == Guard!MonthEnd(second)
           effective == Guard!MonthStart(third)
           asked == f.request # Guard!NoDate
           earliest == Guard!AddMonths(f.last, 15)
           stage == IF active THEN "opportunity"
                    ELSE IF increase = 0 THEN "no_increase" ELSE "waiting_period"
<1>1. /\ f.today \in Guard!Days /\ f.last \in Guard!Days /\ f.rent \in Int /\ f.base \in Int
      /\ f.comparative \in Int /\ f.tight \in BOOLEAN /\ f.request \in Guard!DaysOrNone
  BY DEF Guard!Inputs
<1>2. r = Guard!ComparativeIncrease(f)
  BY DEF Guard!Evaluate
<1>3. CASE f.rent < 0 \/ f.base < 0 \/ f.comparative < Guard!Unstated
  <2>1. r = Guard!Wrong
    BY <1>2, <1>3 DEF Guard!ComparativeIncrease
  <2> QED
    BY <2>1 DEF Guard!GuardAgrees
<1>4. CASE ~(f.rent < 0 \/ f.base < 0 \/ f.comparative < Guard!Unstated)
  <2>1. /\ r.stage = stage /\ r.active = active /\ r.channels = Guard!Channels("W5", stage)
        /\ r.detail.ceiling = ceiling /\ r.detail.limit = limit /\ r.detail.increase = increase
        /\ r.detail.earliest = earliest
        /\ asked => r.detail.consent = consent /\ r.detail.effective = effective
    BY <1>2, <1>4 DEF Guard!ComparativeIncrease, Guard!Guard
  <2>2. r.channels # {} => r.active
    BY <2>1 DEF Guard!Channels
  <2>3. n \in Nat
    <3>1. f.base \in Nat /\ Guard!CapPercent(f) \in Nat
      BY <1>1, <1>4 DEF Guard!CapPercent
    <3> QED
      BY <3>1
  <2>4. ceiling \in Nat /\ 2 * (ceiling * 100 - n) \in 1 - 100 .. 100
    <3>1. 100 \in Nat \ {0}
      OBVIOUS
    <3> HIDE DEF n, limit, increase, declare, active, second, third, consent, effective, asked,
             earliest, stage, r
    <3> QED
      BY <2>3, <3>1, HalfCentsUp
  <2> HIDE DEF ceiling
  <2>5. /\ limit \in Int /\ limit <= ceiling
        /\ f.comparative # Guard!Unstated => limit <= f.comparative
    BY <1>1, <2>4, OfTwo
  <2> HIDE DEF limit
  <2>6. increase = IF 0 <= limit - f.rent THEN limit - f.rent ELSE 0
    <3> DEFINE x == limit - f.rent
    <3>1. x \in Int
      BY <1>1, <2>5
    <3>2. increase = Guard!Max({0, x})
      OBVIOUS
    <3> HIDE DEF x, increase, declare, active, second, third, consent, effective, asked,
             earliest, stage, r
    <3>3. increase = IF 0 <= x THEN x ELSE 0
      BY <3>1, <3>2, OfTwo
    <3> QED
      BY <3>3 DEF x
  <2>7. Guard!Max({f.rent, limit}) = IF f.rent <= limit THEN limit ELSE f.rent
    BY <1>1, <2>5, OfTwo
  <2> HIDE DEF increase
  <2>8. f.rent + increase = Guard!Max({f.rent, limit})
    BY <1>1, <2>5, <2>6, <2>7
  <2>9. active => Guard!DaysTo(Guard!MonthsOn(f.last, 12), f.today) >= 0
    <3>1. declare \in Guard!Days /\ declare = Guard!MonthsOn(f.last, 12)
      BY <1>1, MonthsLater
    <3> HIDE DEF declare
    <3>2. Guard!Before(f.today, declare) <=> Guard!DaysTo(declare, f.today) < 0
      BY <1>1, <3>1, DaysHaveOrder DEF Guard!DaysTo
    <3>3. Guard!DaysTo(declare, f.today) \in Int
      BY <1>1, <3>1, DaysHaveOrder DEF Guard!DaysTo
    <3> QED
      BY <3>1, <3>2, <3>3 DEF Guard!NotAfter
  <2>10. earliest = Guard!MonthsOn(f.last, 15)
    BY <1>1, MonthsLater
  <2>11. ASSUME asked PROVE Guard!Plus(consent, 1) = effective
    <3>1. f.request \in Guard!Days
      BY <1>1, <2>11 DEF Guard!DaysOrNone
    <3>2. /\ second \in Guard!Days /\ 12 * second.y + second.m = 12 * f.request.y + f.request.m + 2
          /\ third \in Guard!Days /\ 12 * third.y + third.m = 12 * f.request.y + f.request.m + 3
      BY <3>1, MonthsLater
    <3> HIDE DEF second, third
    <3>3. /\ consent \in Guard!Days /\ consent.y = second.y /\ consent.m = second.m
          /\ consent.d = Guard!LastDay(second.y, second.m)
          /\ effective \in Guard!Days /\ effective.y = third.y /\ effective.m = third.m
          /\ effective.d = 1
      BY <3>2, MonthEnds
    <3>4. f.request.y \in Int /\ f.request.m \in Int /\ second.y \in Int /\ second.m \in Int
      BY <3>1, <3>2 DEF Guard!Days
    <3> HIDE DEF consent, effective
    <3>5. 12 * effective.y + effective.m = 12 * consent.y + consent.m + 1
      BY <3>2, <3>3, <3>4
    <3> QED
      BY <3>3, <3>5, NextMonthBegins
  <2>12. 100 * ceiling - n \in -49 .. 50
    BY <2>3, <2>4
  <2> HIDE DEF r, active, consent, effective, earliest, stage
  <2>13. /\ r.channels # {} => r.active
         /\ 100 * r.detail.ceiling - f.base * Guard!CapPercent(f) \in -49 .. 50
         /\ f.comparative # Guard!Unstated => r.detail.limit <= f.comparative
         /\ f.rent + r.detail.increase = Guard!Max({f.rent, r.detail.limit})
         /\ r.detail.limit <= r.detail.ceiling
         /\ r.active => Guard!DaysTo(Guard!MonthsOn(f.last, 12), f.today) >= 0
         /\ r.detail.earliest = Guard!MonthsOn(f.last, 15)
         /\ f.request # Guard!NoDate => Guard!Plus(r.detail.consent, 1) = r.detail.effective
    BY <2>1, <2>2, <2>5, <2>8, <2>9, <2>10, <2>11, <2>12
  <2>14. Guard!GuardAgrees(f, r)
    BY <2>13 DEF Guard!GuardAgrees
  <2> QED
    BY <2>14 DEF r
<1> QED
  BY <1>3, <1>4

-----------------------------------------------------------------------------
(* Lists in the order of their dates.                                      *)

\* A strict order of S.
StrictOrder(S, less) ==
    /\ \A a \in S : <<a, a>> \notin less
    /\ \A a, b \in S : a # b => <<a, b>> \in less \/ <<b, a>> \in less
    /\ \A a, b, c \in S : <<a, b>> \in less /\ <<b, c>> \in less => <<a, c>> \in less

\* Of finitely many elements one comes last.
LEMMA LastInOrder ==
    ASSUME NEW S, IsFiniteSet(S), NEW less, StrictOrder(S, less), S # {}
    PROVE  \E m \in S : \A a \in S \ {m} : <<a, m>> \in less
<1> DEFINE F == {s \in SUBSET S : s = {} \/ \E m \in s : \A a \in s \ {m} : <<a, m>> \in less}
<1>1. {} \in F
  OBVIOUS
<1>2. ASSUME NEW s \in SUBSET S, NEW x \in S \ s, s \in F
      PROVE  s \cup {x} \in F
  <2>1. CASE s = {}
    BY <2>1
  <2>2. CASE s # {}
    <3>1. PICK m \in s : \A a \in s \ {m} : <<a, m>> \in less
      BY <1>2, <2>2
    <3>2. m \in S /\ x \in S /\ m # x /\ s \subseteq S
      BY <3>1
    <3>3. CASE <<x, m>> \in less
      BY <3>1, <3>3
    <3>4. CASE <<x, m>> \notin less
      <4>1. <<m, x>> \in less
        BY <3>2, <3>4 DEF StrictOrder
      <4>2. ASSUME NEW a \in s PROVE <<a, x>> \in less
        <5>1. a \in S /\ (a = m \/ <<a, m>> \in less)
          BY <3>1, <3>2
        <5> QED
          BY <3>2, <4>1, <5>1 DEF StrictOrder
      <4>3. \A a \in (s \cup {x}) \ {x} : <<a, x>> \in less
        BY <4>2
      <4> QED
        BY <4>3
    <3> QED
      BY <3>3, <3>4
  <2> QED
    BY <2>1, <2>2
<1> HIDE DEF F
<1>3. S \in F
  BY <1>1, <1>2, SetInduction
<1> USE DEF F
<1> QED
  BY <1>3

\* A finite set has its sorted order.
LEMMA SortedExists ==
    ASSUME NEW S, IsFiniteSet(S), NEW less, StrictOrder(S, less)
    PROVE  Sorted(S, less) # {}
<1> DEFINE N == {s \in SUBSET S : Sorted(s, less) = {}}
<1>1. SUFFICES ASSUME S \in N PROVE FALSE
  OBVIOUS
<1>2. \A s \in N : IsFiniteSet(s)
  BY FS_Subset
<1>3. N # {}
  BY <1>1
<1>4. PICK s \in N : \A t \in N : t \subseteq s => t = s
  <2> HIDE DEF N
  <2> QED
    BY <1>2, <1>3, SmallestOf
<1>5. s \subseteq S /\ Sorted(s, less) = {} /\ IsFiniteSet(s)
  BY <1>2
<1>6. s # {}
  <2> SUFFICES ASSUME s = {} PROVE FALSE
    OBVIOUS
  <2> DEFINE q == [i \in 1 .. 0 |-> {}]
  <2>1. Cardinality(s) = 0 /\ 1 .. 0 = {}
    BY FS_EmptySet
  <2>2. q \in [1 .. Cardinality(s) -> s]
    BY <2>1
  <2>3. q \in Sorted(s, less)
    BY <2>1, <2>2 DEF Sorted
  <2> QED
    BY <1>5, <2>3
<1>7. StrictOrder(s, less)
  BY <1>5 DEF StrictOrder
<1>8. PICK m \in s : \A a \in s \ {m} : <<a, m>> \in less
  BY <1>5, <1>6, <1>7, LastInOrder
<1> DEFINE r == s \ {m}
           n == Cardinality(s)
<1>9. Cardinality(r) = n - 1 /\ n \in Nat /\ n - 1 \in Nat
  <2>1. Cardinality(r) = n - 1
    BY <1>5, FS_RemoveElement
  <2>2. n \in Nat /\ Cardinality(r) \in Nat
    BY <1>5, FS_RemoveElement, FS_CardinalityType
  <2> QED
    BY <2>1, <2>2
<1>10. Sorted(r, less) # {}
  <2>1. r \in SUBSET S /\ r \subseteq s /\ r # s
    BY <1>5
  <2> QED
    BY <1>4, <2>1
<1>11. PICK q : q \in [1 .. n - 1 -> r] /\ \A i, j \in 1 .. n - 1 : i < j => <<q[i], q[j]>> \in less
  <2>1. PICK q : q \in Sorted(r, less)
    BY <1>10
  <2> HIDE DEF n, r
  <2> QED
    BY <1>9, <2>1 DEF Sorted
<1> HIDE DEF n
<1> DEFINE p == [i \in 1 .. n |-> IF i = n THEN m ELSE q[i]]
<1>12. p \in [1 .. n -> s]
  <2>1. \A i \in 1 .. n : i # n => i \in 1 .. n - 1
    BY <1>9
  <2>2. \A i \in 1 .. n - 1 : q[i] \in s
    BY <1>11
  <2> QED
    BY <2>1, <2>2
<1>13. ASSUME NEW i \in 1 .. n, NEW j \in 1 .. n, i < j
       PROVE  <<p[i], p[j]>> \in less
  <2>1. i \in 1 .. n - 1 /\ p[i] = q[i]
    BY <1>9, <1>13
  <2>2. CASE j = n
    BY <1>8, <1>11, <2>1, <2>2
  <2>3. CASE j # n
    <3>1. j \in 1 .. n - 1 /\ p[j] = q[j]
      BY <1>9, <2>3
    <3> QED
      BY <1>11, <1>13, <2>1, <3>1
  <2> QED
    BY <2>2, <2>3
<1>14. p \in Sorted(s, less)
  BY <1>12, <1>13 DEF Sorted, n
<1> QED
  BY <1>5, <1>14

\* The guards count as the other modules do.
LEMMA GuardCounts == \A S : Guard!Cardinality(S) = Cardinality(S)
  BY DEF Guard!Cardinality, Cardinality

\* Entry i of a list comes before entry j.
ComesBefore(list, i, j) ==
    \/ Guard!Before(list[i].date, list[j].date)
    \/ list[i].date = list[j].date /\ i < j

\* Places of a list whose entries have dates.
Dated(list, S) ==
    IsFiniteSet(S) /\ \A i \in S : i \in Int /\ list[i].date \in Guard!Days

\* The order of the dates is the order of their days.
LEMMA ComesBeforeIs ==
    ASSUME NEW list, NEW S, Dated(list, S), NEW i \in S, NEW j \in S
    PROVE  LET a == Guard!Ordinal(list[i].date)
               b == Guard!Ordinal(list[j].date)
           IN  a \in Int /\ b \in Int /\ (ComesBefore(list, i, j) <=> a < b \/ (a = b /\ i < j))
<1>1. list[i].date \in Guard!Days /\ list[j].date \in Guard!Days
  BY DEF Dated
<1> DEFINE x == list[i].date
           y == list[j].date
<1> HIDE DEF x, y
<1>2. /\ Guard!Ordinal(x) \in Int /\ Guard!Ordinal(y) \in Int
      /\ Guard!Before(x, y) <=> Guard!Ordinal(x) < Guard!Ordinal(y)
      /\ x = y <=> Guard!Ordinal(x) = Guard!Ordinal(y)
  BY <1>1, DaysHaveOrder DEF x, y
<1> QED
  BY <1>2 DEF ComesBefore, x, y

\* The earlier entry first.
InDateOrder(list, q, n) == \A i, j \in 1 .. n : i < j => ComesBefore(list, q[i], q[j])

\* A sorted list names each place once, the earlier entry first.
LEMMA ByDateIs ==
    ASSUME NEW list, NEW S, Dated(list, S)
    PROVE  LET q == Guard!ByDate(list, S)
               n == Cardinality(S)
           IN  /\ DOMAIN q = 1 .. n /\ Lists(q, n, S)
               /\ InDateOrder(list, q, n)
<1> DEFINE q == Guard!ByDate(list, S)
           n == Cardinality(S)
           day(i) == Guard!Ordinal(list[i].date)
           less == {p \in S \X S : ComesBefore(list, p[1], p[2])}
           P(o) == \A i, j \in DOMAIN o : i < j =>
                       \/ Guard!Before(list[o[i]].date, list[o[j]].date)
                       \/ list[o[i]].date = list[o[j]].date /\ o[i] < o[j]
<1>1. IsFiniteSet(S) /\ S \subseteq Int /\ n \in Nat
  BY FS_CardinalityType DEF Dated
<1>2. \A i, j \in S : <<i, j>> \in less <=> day(i) < day(j) \/ (day(i) = day(j) /\ i < j)
  <2>1. ASSUME NEW i \in S, NEW j \in S
        PROVE  ComesBefore(list, i, j) <=> day(i) < day(j) \/ (day(i) = day(j) /\ i < j)
    BY ComesBeforeIs
  <2> QED
    BY <2>1
<1>3. \A i \in S : day(i) \in Int
  BY ComesBeforeIs
<1>4. StrictOrder(S, less)
  <2> HIDE DEF less
  <2>1. \A i \in S : <<i, i>> \notin less
    BY <1>1, <1>2, <1>3
  <2>2. ASSUME NEW i \in S, NEW j \in S, i # j PROVE <<i, j>> \in less \/ <<j, i>> \in less
    <3>1. i \in Int /\ j \in Int /\ day(i) \in Int /\ day(j) \in Int
      BY <1>1, <1>3
    <3> HIDE DEF day
    <3> QED
      BY <1>2, <2>2, <3>1
  <2>3. ASSUME NEW i \in S, NEW j \in S, NEW k \in S, <<i, j>> \in less, <<j, k>> \in less
        PROVE  <<i, k>> \in less
    <3>1. /\ i \in Int /\ j \in Int /\ k \in Int
          /\ day(i) \in Int /\ day(j) \in Int /\ day(k) \in Int
      BY <1>1, <1>3
    <3> HIDE DEF day
    <3> QED
      BY <1>2, <2>3, <3>1
  <2> QED
    BY <2>1, <2>2, <2>3 DEF StrictOrder
<1>5. \E o \in [1 .. n -> S] : P(o)
  <2>1. PICK o : o \in Sorted(S, less)
    <3> HIDE DEF less
    <3> QED
      BY <1>1, <1>4, SortedExists
  <2>2. o \in [1 .. n -> S] /\ \A i, j \in 1 .. n : i < j => <<o[i], o[j]>> \in less
    BY <2>1 DEF Sorted
  <2>3. P(o)
    BY <2>2 DEF ComesBefore
  <2> QED
    BY <2>2, <2>3
<1>6. q \in [1 .. n -> S] /\ P(q)
  <2>1. q = CHOOSE o \in [1 .. n -> S] : P(o)
    BY GuardCounts DEF Guard!ByDate
  <2> HIDE DEF P
  <2> QED
    BY <1>5, <2>1
<1>7. \A i, j \in 1 .. n : i < j => <<q[i], q[j]>> \in less
  <2> HIDE DEF q
  <2> QED
    BY <1>6 DEF ComesBefore
<1>8. q \in Sorted(S, less)
  BY <1>6, <1>7 DEF Sorted
<1>9. Lists(q, n, S)
  <2>1. \A i \in S : <<i, i>> \notin less
    BY <1>4 DEF StrictOrder
  <2> HIDE DEF less, q
  <2> QED
    BY <1>1, <1>8, <2>1, SortedNamesAll
<1> QED
  BY <1>6, <1>9 DEF ComesBefore, InDateOrder

\* Sums of the guards.
LEMMA GuardSums == \A f : Guard!SumOf(f) = Sum(f, DOMAIN f)
  BY DEF Guard!SumOf, Guard!MapThenSumSet, Guard!MapThenFoldSet, Sum, MapThenSumSet, MapThenFoldSet

\* The entries that the guard for arrears looks at, with amounts it accepts.
ArrearsInput(f) ==
    /\ f.today \in Guard!Days /\ f.due \in Guard!Entries /\ f.payments \in Guard!Entries
    /\ f.rent \in Int /\ f.rent > 0
    /\ \A i \in Guard!FallenDue(f) : f.due[i].amount >= 0
    /\ \A i \in DOMAIN f.payments :
          Guard!NotAfter(f.payments[i].date, f.today) => f.payments[i].amount >= 0

\* A list of entries.
LEMMA EntriesAre ==
    ASSUME NEW list \in Guard!Entries
    PROVE  /\ Dated(list, DOMAIN list)
           /\ \A i \in DOMAIN list : list[i].date \in Guard!Days /\ list[i].amount \in Int
<1> DEFINE X == [date : Guard!Days, amount : Int]
<1>1. /\ Len(list) \in Nat /\ DOMAIN list = 1 .. Len(list)
      /\ \A i \in 1 .. Len(list) : list[i] \in X
  <2>1. list \in Seq(X)
    BY DEF Guard!Entries
  <2> HIDE DEF X
  <2> QED
    BY <2>1
<1>2. DOMAIN list = 1 .. Len(list) /\ IsFiniteSet(1 .. Len(list))
  BY <1>1, FS_Interval
<1>3. \A i \in DOMAIN list : list[i] \in [date : Guard!Days, amount : Int] /\ i \in Int
  BY <1>1, <1>2
<1> QED
  BY <1>2, <1>3 DEF Dated

\* A day has been reached when it is not in the future.
LEMMA DayReached ==
    ASSUME NEW a \in Guard!Days, NEW b \in Guard!Days
    PROVE  /\ Guard!NotAfter(a, b) <=> Guard!DaysTo(a, b) >= 0
           /\ Guard!DaysTo(a, b) \in Int
<1>1. /\ Guard!Ordinal(a) \in Int /\ Guard!Ordinal(b) \in Int
      /\ Guard!Before(b, a) <=> Guard!Ordinal(b) < Guard!Ordinal(a)
  BY DaysHaveOrder
<1> QED
  BY <1>1 DEF Guard!NotAfter, Guard!DaysTo

\* Amounts of the elements of S.
Amounts(h, S) == \A i \in S : h[i] \in Nat

\* The debts that have fallen due, and what was paid by the day.
LEMMA ArrearsAre ==
    ASSUME NEW f, ArrearsInput(f)
    PROVE  LET S == Guard!FallenDue(f)
               h == [i \in S |-> f.due[i].amount]
               p == [i \in DOMAIN f.payments |->
                       IF Guard!DaysTo(f.payments[i].date, f.today) >= 0
                       THEN f.payments[i].amount ELSE 0]
           IN  /\ S = Guard!Owed(f) /\ Dated(f.due, S)
               /\ Amounts(h, S)
               /\ Guard!Received(f) \in Nat /\ Guard!SumOf(p) = Guard!Received(f)
               /\ Guard!DueCents(f) = Sum(h, S)
<1> USE DEF ArrearsInput
<1> DEFINE S == Guard!FallenDue(f)
           h == [i \in S |-> f.due[i].amount]
           D == DOMAIN f.payments
           p == [i \in D |-> IF Guard!DaysTo(f.payments[i].date, f.today) >= 0
                             THEN f.payments[i].amount ELSE 0]
           k == [i \in D |-> IF Guard!NotAfter(f.payments[i].date, f.today)
                             THEN f.payments[i].amount ELSE 0]
<1>1. /\ Dated(f.due, DOMAIN f.due)
      /\ \A i \in DOMAIN f.due : f.due[i].date \in Guard!Days /\ f.due[i].amount \in Int
  BY EntriesAre
<1>2. /\ Dated(f.payments, D)
      /\ \A i \in D : f.payments[i].date \in Guard!Days /\ f.payments[i].amount \in Int
  BY EntriesAre
<1>3. S = Guard!Owed(f)
  <2>1. ASSUME NEW i \in DOMAIN f.due
        PROVE  Guard!NotAfter(f.due[i].date, f.today) <=> Guard!DaysTo(f.due[i].date, f.today) >= 0
    BY <1>1, DayReached
  <2> QED
    BY <2>1 DEF Guard!FallenDue, Guard!Owed
<1>4. S \subseteq DOMAIN f.due
  BY DEF Guard!FallenDue
<1>5. Dated(f.due, S)
  BY <1>1, <1>4, FS_Subset DEF Dated
<1>6. \A i \in S : h[i] \in Nat
  BY <1>1, <1>4
<1>7. p = k
  <2>1. ASSUME NEW i \in D
        PROVE  Guard!NotAfter(f.payments[i].date, f.today)
                  <=> Guard!DaysTo(f.payments[i].date, f.today) >= 0
    BY <1>2, DayReached
  <2> QED
    BY <2>1
<1>8. Guard!Received(f) = Guard!SumOf(k)
  BY DEF Guard!Received
<1>9. Guard!SumOf(k) \in Nat
  <2>1. IsFiniteSet(D)
    BY <1>2 DEF Dated
  <2>2. \A i \in D : k[i] \in Nat
    BY <1>2
  <2>3. Guard!SumOf(k) = Sum(k, D)
    BY GuardSums
  <2> HIDE DEF k, D
  <2> QED
    BY <2>1, <2>2, <2>3, SumNat
<1>10. Guard!DueCents(f) = Sum(h, S)
  <2>1. Guard!DueCents(f) = Guard!SumOf(h)
    BY <1>3 DEF Guard!DueCents
  <2> QED
    BY <2>1, GuardSums
<1> QED
  BY <1>3, <1>5, <1>6, <1>7, <1>8, <1>9, <1>10 DEF Amounts

-----------------------------------------------------------------------------
(* The money goes to the oldest debts first.                               *)

\* What is due up to the i-th of the debts in the order q.
UpTo(q, h, i) == Sum(h, Prefix(q, i + 1))

\* What is left of the money after each debt.
IsLeft(left, q, h, n, money) ==
    left = [i \in 0 .. n |-> IF i = 0 THEN money
                             ELSE left[i - 1] - Guard!Min({h[q[i]], left[i - 1]})]

\* Each debt adds its amount to what is due.
LEMMA UpToSteps ==
    ASSUME NEW S, IsFiniteSet(S), NEW n, NEW q, Lists(q, n, S), NEW h, Amounts(h, S)
    PROVE  /\ UpTo(q, h, 0) = 0 /\ UpTo(q, h, n) = Sum(h, S)
           /\ \A i \in 0 .. n : UpTo(q, h, i) \in Nat
           /\ \A i \in 1 .. n : /\ q[i] \in S /\ h[q[i]] \in Nat
                               /\ UpTo(q, h, i) = UpTo(q, h, i - 1) + h[q[i]]
<1> USE DEF Amounts
<1>1. n \in Nat /\ \A i \in 1 .. n : q[i] \in S
  BY DEF Lists
<1>2. /\ Prefix(q, 1) = {} /\ Prefix(q, n + 1) = S
      /\ \A i \in 1 .. n + 1 : Prefix(q, i) \subseteq S
      /\ \A i \in 1 .. n : /\ q[i] \in Prefix(q, i + 1)
                          /\ Prefix(q, i + 1) \ {q[i]} = Prefix(q, i)
  BY PrefixGrows
<1>3. UpTo(q, h, 0) = 0 /\ UpTo(q, h, n) = Sum(h, S)
  <2>1. 0 + 1 = 1
    OBVIOUS
  <2> QED
    BY <1>2, <2>1, SumOfNone DEF UpTo
<1>4. ASSUME NEW i \in 0 .. n PROVE UpTo(q, h, i) \in Nat
  <2> DEFINE T == Prefix(q, i + 1)
  <2>1. T \subseteq S
    <3>1. i + 1 \in 1 .. n + 1
      BY <1>1
    <3> QED
      BY <1>2, <3>1
  <2>2. IsFiniteSet(T) /\ \A j \in T : h[j] \in Nat
    BY <2>1, FS_Subset
  <2>3. UpTo(q, h, i) = Sum(h, T)
    BY DEF UpTo
  <2> HIDE DEF T
  <2> QED
    BY <2>2, <2>3, SumNat
<1>5. ASSUME NEW i \in 1 .. n
      PROVE  UpTo(q, h, i) = UpTo(q, h, i - 1) + h[q[i]]
  <2> DEFINE T == Prefix(q, i + 1)
             a == q[i]
  <2>1. T \subseteq S /\ a \in T /\ T \ {a} = Prefix(q, i)
    <3>1. i + 1 \in 1 .. n + 1
      BY <1>1
    <3> QED
      BY <1>2, <3>1
  <2>2. IsFiniteSet(T) /\ \A j \in T : h[j] \in Int
    BY <2>1, FS_Subset
  <2>3. UpTo(q, h, i) = Sum(h, T) /\ UpTo(q, h, i - 1) = Sum(h, T \ {a})
    <3>1. (i - 1) + 1 = i
      BY <1>1
    <3> QED
      BY <2>1, <3>1 DEF UpTo
  <2>4. UpTo(q, h, i - 1) \in Nat
    <3>1. i - 1 \in 0 .. n
      BY <1>1
    <3> QED
      BY <1>4, <3>1
  <2>5. h[a] \in Nat
    BY <1>1
  <2>6. Sum(h, T) = h[a] + Sum(h, T \ {a})
    <3> HIDE DEF T, a
    <3> QED
      BY <2>1, <2>2, SumWithout
  <2> QED
    BY <2>3, <2>4, <2>5, <2>6
<1> QED
  BY <1>1, <1>3, <1>4, <1>5

\* What is left is the money less what is due, while the money lasts.
LEMMA LeftIs ==
    ASSUME NEW S, IsFiniteSet(S), NEW n, NEW q, Lists(q, n, S), NEW h, Amounts(h, S),
           NEW money \in Nat
    PROVE  /\ \E left : IsLeft(left, q, h, n, money)
           /\ \A left : IsLeft(left, q, h, n, money) =>
                 \A i \in 0 .. n :
                    left[i] = IF UpTo(q, h, i) <= money THEN money - UpTo(q, h, i) ELSE 0
<1> DEFINE u(i) == UpTo(q, h, i)
           v(i) == IF u(i) <= money THEN money - u(i) ELSE 0
<1>1. /\ n \in Nat /\ u(0) = 0 /\ \A i \in 0 .. n : u(i) \in Nat
      /\ \A i \in 1 .. n : h[q[i]] \in Nat /\ u(i) = u(i - 1) + h[q[i]]
  <2>1. n \in Nat
    BY DEF Lists
  <2> HIDE DEF v
  <2> QED
    BY <2>1, UpToSteps
<1> HIDE DEF u
<1>2. \A i \in 0 .. n : v(i) \in Nat
  BY <1>1
<1>3. ASSUME NEW i \in 1 .. n
      PROVE  v(i) = v(i - 1) - Guard!Min({h[q[i]], v(i - 1)})
  <2>1. i - 1 \in 0 .. n /\ i \in 0 .. n
    BY <1>1
  <2> DEFINE a == h[q[i]]
             w == v(i - 1)
  <2>2. a \in Nat /\ w \in Nat /\ u(i) = u(i - 1) + a /\ u(i) \in Nat /\ u(i - 1) \in Nat
    BY <1>1, <1>2, <2>1
  <2>3. w = IF u(i - 1) <= money THEN money - u(i - 1) ELSE 0
    OBVIOUS
  <2>4. v(i) = IF u(i) <= money THEN money - u(i) ELSE 0
    OBVIOUS
  <2> HIDE DEF a, w, v
  <2>5. Guard!Min({a, w}) = IF a <= w THEN a ELSE w
    BY <2>2, OfTwo
  <2>6. v(i) = w - Guard!Min({a, w})
    BY <2>2, <2>3, <2>4, <2>5
  <2> QED
    BY <2>6 DEF a, w
<1>4. v(0) = money
  BY <1>1
<1>5. \E left : IsLeft(left, q, h, n, money)
  <2> DEFINE l == [i \in 0 .. n |-> v(i)]
  <2>1. \A i \in 1 .. n : i - 1 \in 0 .. n /\ i \in 0 .. n
    BY <1>1
  <2>2. \A i \in 0 .. n : i # 0 => i \in 1 .. n
    BY <1>1
  <2> HIDE DEF v
  <2>3. \A i \in 0 .. n : l[i] = IF i = 0 THEN money
                                 ELSE l[i - 1] - Guard!Min({h[q[i]], l[i - 1]})
    BY <1>3, <1>4, <2>1, <2>2
  <2>4. l = [i \in 0 .. n |-> IF i = 0 THEN money
                              ELSE l[i - 1] - Guard!Min({h[q[i]], l[i - 1]})]
    <3>1. l = [i \in 0 .. n |-> l[i]]
      OBVIOUS
    <3> HIDE DEF l
    <3> QED
      BY <2>3, <3>1
  <2> QED
    BY <2>4 DEF IsLeft
<1>6. ASSUME NEW left, IsLeft(left, q, h, n, money)
      PROVE  \A i \in 0 .. n : left[i] = v(i)
  <2> DEFINE W == {i \in 0 .. n : left[i] # v(i)}
  <2> SUFFICES ASSUME W # {} PROVE FALSE
    OBVIOUS
  <2>1. PICK i \in W : \A j \in W : i <= j
    <3>1. W \subseteq Nat
      BY <1>1
    <3> HIDE DEF W
    <3> QED
      BY <3>1, LeastOf
  <2>2. left[0] = money
    BY <1>1, <1>6 DEF IsLeft
  <2>3. i \in 1 .. n
    BY <1>1, <1>4, <2>1, <2>2
  <2>4. left[i - 1] = v(i - 1)
    <3>1. i - 1 \in 0 .. n /\ ~(i <= i - 1)
      BY <1>1, <2>3
    <3> HIDE DEF v
    <3> QED
      BY <2>1, <3>1
  <2>5. left[i] = left[i - 1] - Guard!Min({h[q[i]], left[i - 1]})
    <3>1. i \in 0 .. n /\ i # 0
      BY <1>1, <2>3
    <3> QED
      BY <1>6, <3>1 DEF IsLeft
  <2> HIDE DEF v
  <2> QED
    BY <1>3, <2>1, <2>3, <2>4, <2>5
<1> QED
  BY <1>5, <1>6 DEF u

\* What is open up to a debt.
OpenUpTo(due, money) == IF due <= money THEN 0 ELSE due - money

\* What each debt leaves open.
IsOpen(open, left, q, h, n) ==
    open = [i \in 1 .. n |-> h[q[i]] - Guard!Min({h[q[i]], left[i - 1]})]

\* A debt adds to what is open what the money does not reach.
LEMMA OpenSteps ==
    ASSUME NEW S, IsFiniteSet(S), NEW n, NEW q, Lists(q, n, S), NEW h, Amounts(h, S),
           NEW money \in Nat, NEW left, IsLeft(left, q, h, n, money),
           NEW open, IsOpen(open, left, q, h, n)
    PROVE  \A i \in 1 .. n :
              /\ open[i] \in Nat
              /\ OpenUpTo(UpTo(q, h, i), money) = OpenUpTo(UpTo(q, h, i - 1), money) + open[i]
              /\ open[i] > 0 <=> h[q[i]] > 0 /\ UpTo(q, h, i) > money
<1>1. n \in Nat
  BY DEF Lists
<1>2. /\ \A i \in 0 .. n : UpTo(q, h, i) \in Nat
      /\ \A i \in 1 .. n : h[q[i]] \in Nat /\ UpTo(q, h, i) = UpTo(q, h, i - 1) + h[q[i]]
  BY UpToSteps
<1>3. \A i \in 0 .. n : left[i] = IF UpTo(q, h, i) <= money THEN money - UpTo(q, h, i) ELSE 0
  BY LeftIs
<1> SUFFICES ASSUME NEW i \in 1 .. n
             PROVE  /\ open[i] \in Nat
                    /\ OpenUpTo(UpTo(q, h, i), money) = OpenUpTo(UpTo(q, h, i - 1), money) + open[i]
                    /\ open[i] > 0 <=> h[q[i]] > 0 /\ UpTo(q, h, i) > money
  OBVIOUS
<1> DEFINE u == UpTo(q, h, i)
           w == UpTo(q, h, i - 1)
           a == h[q[i]]
           l == left[i - 1]
<1>4. i - 1 \in 0 .. n /\ i \in 0 .. n
  BY <1>1
<1>5. u \in Nat /\ w \in Nat /\ a \in Nat /\ u = w + a /\ l = IF w <= money THEN money - w ELSE 0
  BY <1>2, <1>3, <1>4
<1>6. open[i] = a - Guard!Min({a, l})
  BY DEF IsOpen
<1> HIDE DEF u, w, a, l
<1>7. l \in Nat
  BY <1>5
<1>8. Guard!Min({a, l}) = IF a <= l THEN a ELSE l
  BY <1>5, <1>7, OfTwo
<1>9. /\ open[i] \in Nat
      /\ OpenUpTo(u, money) = OpenUpTo(w, money) + open[i]
      /\ open[i] > 0 <=> a > 0 /\ u > money
  BY <1>5, <1>6, <1>7, <1>8 DEF OpenUpTo
<1> QED
  BY <1>9 DEF u, w, a

\* Together they leave open what the money does not pay.
LEMMA OpenAdds ==
    ASSUME NEW S, IsFiniteSet(S), NEW n, NEW q, Lists(q, n, S), NEW h, Amounts(h, S),
           NEW money \in Nat, NEW left, IsLeft(left, q, h, n, money),
           NEW open, IsOpen(open, left, q, h, n)
    PROVE  Sum(open, 1 .. n) = OpenUpTo(Sum(h, S), money)
<1> DEFINE O(i) == OpenUpTo(UpTo(q, h, i), money)
           W == {i \in 0 .. n : Sum(open, 1 .. i) # O(i)}
<1>1. n \in Nat
  BY DEF Lists
<1>2. UpTo(q, h, 0) = 0 /\ UpTo(q, h, n) = Sum(h, S)
  BY UpToSteps
<1>3. \A i \in 1 .. n : open[i] \in Nat /\ O(i) = O(i - 1) + open[i]
  BY OpenSteps
<1>4. O(0) = 0
  BY <1>2 DEF OpenUpTo
<1> HIDE DEF O
<1>5. W = {}
  <2> SUFFICES ASSUME W # {} PROVE FALSE
    OBVIOUS
  <2>1. PICK i \in W : \A j \in W : i <= j
    <3>1. W \subseteq Nat
      BY <1>1
    <3> HIDE DEF W
    <3> QED
      BY <3>1, LeastOf
  <2>2. CASE i = 0
    <3>1. 1 .. 0 = {}
      OBVIOUS
    <3> QED
      BY <1>4, <2>1, <2>2, <3>1, SumOfNone
  <2>3. CASE i # 0
    <3>1. /\ i \in 1 .. n /\ i - 1 \in 0 .. n /\ ~(i <= i - 1) /\ i \in Nat
          /\ 1 .. i = (1 .. i - 1) \cup {i} /\ i \notin 1 .. i - 1
          /\ 1 .. i - 1 \subseteq 1 .. n
      BY <1>1, <2>3
    <3>2. Sum(open, 1 .. i - 1) = O(i - 1)
      BY <2>1, <3>1
    <3>3. IsFiniteSet(1 .. i - 1) /\ \A j \in 1 .. i - 1 : open[j] \in Int
      <4>1. i - 1 \in Int
        BY <3>1
      <4>2. IsFiniteSet(1 .. i - 1)
        BY <4>1, FS_Interval
      <4>3. \A j \in 1 .. i - 1 : j \in 1 .. n
        BY <3>1
      <4> QED
        BY <1>3, <4>2, <4>3
    <3>4. open[i] \in Int
      BY <1>3, <3>1
    <3>5. Sum(open, (1 .. i - 1) \cup {i}) = Sum(open, 1 .. i - 1) + open[i]
      <4> DEFINE T == 1 .. i - 1
      <4>1. IsFiniteSet(T) /\ i \notin T /\ \A j \in T : open[j] \in Int
        BY <3>1, <3>3
      <4> HIDE DEF T
      <4>2. Sum(open, T \cup {i}) = Sum(open, T) + open[i]
        BY <3>4, <4>1, SumWith
      <4> QED
        BY <4>2 DEF T
    <3>6. Sum(open, 1 .. i) = O(i)
      BY <1>3, <3>1, <3>2, <3>5
    <3> QED
      BY <2>1, <3>6
  <2> QED
    BY <2>2, <2>3
<1>6. Sum(open, 1 .. n) = O(n)
  BY <1>1, <1>5
<1> QED
  BY <1>2, <1>6 DEF O

\* The debts that the money does not reach to the end.
Unreached(C, S, q, h, n, money) ==
    C \subseteq S /\ \A i \in 1 .. n : q[i] \in C <=> h[q[i]] > 0 /\ UpTo(q, h, i) > money

\* They are as many by place as by name.
LEMMA OpenCounts ==
    ASSUME NEW S, IsFiniteSet(S), NEW n, NEW q, Lists(q, n, S), NEW h, Amounts(h, S),
           NEW money \in Nat, NEW left, IsLeft(left, q, h, n, money),
           NEW open, IsOpen(open, left, q, h, n),
           NEW C, Unreached(C, S, q, h, n, money)
    PROVE  Cardinality({i \in 1 .. n : open[i] > 0}) = Cardinality(C)
<1> DEFINE P == {i \in 1 .. n : open[i] > 0}
           b == [i \in P |-> q[i]]
<1>1. /\ n \in Nat /\ \A i \in 1 .. n : q[i] \in S
      /\ \A r \in S : \E i \in 1 .. n : q[i] = r
      /\ \A i, j \in 1 .. n : q[i] = q[j] => i = j
  BY DEF Lists
<1>2. \A i \in 1 .. n : open[i] > 0 <=> h[q[i]] > 0 /\ UpTo(q, h, i) > money
  <2>1. \A i \in 1 .. n :
              /\ open[i] \in Nat
              /\ OpenUpTo(UpTo(q, h, i), money) = OpenUpTo(UpTo(q, h, i - 1), money) + open[i]
              /\ open[i] > 0 <=> h[q[i]] > 0 /\ UpTo(q, h, i) > money
    BY OpenSteps
  <2> QED
    BY <2>1
<1>3. C \subseteq S /\ \A i \in 1 .. n : i \in P <=> q[i] \in C
  BY <1>2 DEF Unreached
<1>4. P \subseteq 1 .. n /\ IsFiniteSet(P)
  <2>1. IsFiniteSet(1 .. n)
    BY <1>1, FS_Interval
  <2> QED
    BY <2>1, FS_Subset
<1> HIDE DEF P
<1>5. b \in [P -> C]
  BY <1>3, <1>4
<1>6. \A i, j \in P : b[i] = b[j] => i = j
  BY <1>1, <1>4
<1>7. \A c \in C : \E i \in P : b[i] = c
  BY <1>1, <1>3, <1>4
<1>8. b \in Bijection(P, C)
  BY <1>5, <1>6, <1>7 DEF Bijection, Injection, Surjection, IsInjective
<1>9. ExistsBijection(P, C)
  BY <1>8 DEF ExistsBijection
<1> QED
  BY <1>4, <1>9, FS_Bijection DEF P

\* The guard's loop over the debts.
LEMMA OpenAmountsAre ==
    ASSUME NEW f, ArrearsInput(f)
    PROVE  LET S == Guard!FallenDue(f)
               h == [i \in S |-> f.due[i].amount]
               n == Cardinality(S)
               q == Guard!ByDate(f.due, S)
           IN  \E left : /\ IsLeft(left, q, h, n, Guard!Received(f))
                         /\ IsOpen(Guard!OpenAmounts(f), left, q, h, n)
<1> DEFINE S == Guard!FallenDue(f)
           h == [i \in S |-> f.due[i].amount]
           n == Cardinality(S)
           q == Guard!ByDate(f.due, S)
           money == Guard!Received(f)
           m == Guard!Cardinality(S)
           left == CHOOSE l : IsLeft(l, q, h, m, money)
           open == Guard!OpenAmounts(f)
<1>1. Dated(f.due, S) /\ Amounts(h, S) /\ money \in Nat
  BY ArrearsAre
<1>2. DOMAIN q = 1 .. n /\ Lists(q, n, S)
  <2> HIDE DEF S
  <2> QED
    BY <1>1, ByDateIs
<1>3. IsFiniteSet(S)
  BY <1>1 DEF Dated
<1>4. \E l : IsLeft(l, q, h, n, money)
  <2> HIDE DEF S, h, n, q, money
  <2> QED
    BY <1>1, <1>2, <1>3, LeftIs
<1>5. IsLeft(left, q, h, n, money)
  <2>1. m = n
    BY GuardCounts
  <2> HIDE DEF S, h, n, q, money, m
  <2> QED
    BY <1>4, <2>1
<1>6. open = [i \in DOMAIN q |-> h[q[i]] - Guard!Min({h[q[i]], left[i - 1]})]
  BY DEF Guard!OpenAmounts, IsLeft
<1>7. IsOpen(open, left, q, h, n)
  <2> HIDE DEF S, h, n, q, money, left, open
  <2> QED
    BY <1>2, <1>6 DEF IsOpen
<1> QED
  BY <1>5, <1>7

\* The debts that are older or as old as one.
AsOld(list, S, j) ==
    {k \in S : \/ Guard!Ordinal(list[k].date) < Guard!Ordinal(list[j].date)
               \/ Guard!Ordinal(list[k].date) = Guard!Ordinal(list[j].date) /\ k <= j}

\* They are those before it in the order.
LEMMA OlderIsPrefix ==
    ASSUME NEW list, NEW S, Dated(list, S), NEW q, Lists(q, Cardinality(S), S),
           InDateOrder(list, q, Cardinality(S)), NEW i \in 1 .. Cardinality(S)
    PROVE  Prefix(q, i + 1) = AsOld(list, S, q[i])
<1> DEFINE n == Cardinality(S)
           day(k) == Guard!Ordinal(list[k].date)
           old(k, j) == day(k) < day(j) \/ (day(k) = day(j) /\ k <= j)
<1>1. /\ n \in Nat /\ \A k \in 1 .. n : q[k] \in S
      /\ \A r \in S : \E k \in 1 .. n : q[k] = r
  BY DEF Lists
<1>2. \A k \in S : k \in Int
  BY DEF Dated
<1>3. \A k \in S : day(k) \in Int
  BY ComesBeforeIs
<1>4. \A k, j \in 1 .. n : k < j => day(q[k]) < day(q[j]) \/ (day(q[k]) = day(q[j]) /\ q[k] < q[j])
  <2> SUFFICES ASSUME NEW k \in 1 .. n, NEW j \in 1 .. n, k < j
               PROVE  day(q[k]) < day(q[j]) \/ (day(q[k]) = day(q[j]) /\ q[k] < q[j])
    OBVIOUS
  <2>1. ComesBefore(list, q[k], q[j]) /\ q[k] \in S /\ q[j] \in S
    BY <1>1 DEF InDateOrder
  <2> DEFINE a == q[k]
             b == q[j]
  <2> HIDE DEF a, b
  <2>2. ComesBefore(list, a, b) <=> day(a) < day(b) \/ (day(a) = day(b) /\ a < b)
    BY <2>1, ComesBeforeIs DEF a, b
  <2> QED
    BY <2>1, <2>2 DEF a, b
<1> HIDE DEF n, day
<1>5. i \in 1 .. n
  BY DEF n
<1>6. ASSUME NEW k \in 1 .. i PROVE q[k] \in S /\ old(q[k], q[i])
  <2>1. k \in 1 .. n /\ q[k] \in S /\ q[i] \in S
    BY <1>1, <1>5
  <2>2. CASE k = i
    BY <1>2, <1>3, <2>1, <2>2
  <2>3. CASE k < i
    <3>1. day(q[k]) < day(q[i]) \/ (day(q[k]) = day(q[i]) /\ q[k] < q[i])
      BY <1>4, <1>5, <2>1, <2>3
    <3> QED
      BY <1>2, <2>1, <3>1
  <2> QED
    BY <1>5, <2>2, <2>3
<1>7. ASSUME NEW r \in S, old(r, q[i]) PROVE \E k \in 1 .. i : r = q[k]
  <2>1. PICK k \in 1 .. n : q[k] = r
    BY <1>1
  <2>2. ~(i < k)
    <3> SUFFICES ASSUME i < k PROVE FALSE
      OBVIOUS
    <3>1. day(q[i]) < day(q[k]) \/ (day(q[i]) = day(q[k]) /\ q[i] < q[k])
      BY <1>4, <1>5
    <3>2. /\ q[i] \in Int /\ q[k] \in Int /\ day(q[i]) \in Int /\ day(q[k]) \in Int
      BY <1>1, <1>2, <1>3, <1>5
    <3> QED
      BY <1>7, <2>1, <3>1, <3>2
  <2>3. k \in 1 .. i
    BY <1>1, <1>5, <2>2
  <2> QED
    BY <2>1, <2>3
<1>8. Prefix(q, i + 1) = {q[k] : k \in 1 .. i}
  <2>1. (i + 1) - 1 = i
    BY <1>1, <1>5
  <2> QED
    BY <2>1 DEF Prefix
<1>9. Prefix(q, i + 1) = {k \in S : old(k, q[i])}
  BY <1>6, <1>7, <1>8
<1> QED
  BY <1>9 DEF day, AsOld

\* The debts that the money does not reach are counted by their names.
LEMMA OpenCountIs ==
    ASSUME NEW f, ArrearsInput(f)
    PROVE  LET open == Guard!OpenAmounts(f)
           IN  /\ Cardinality({i \in DOMAIN open : open[i] > 0}) = Guard!OpenCount(f)
               /\ Guard!OpenCount(f) \in Nat
               /\ Guard!SumOf(open) = OpenUpTo(Guard!DueCents(f), Guard!Received(f))
<1> DEFINE S == Guard!FallenDue(f)
           h == [i \in S |-> f.due[i].amount]
           n == Cardinality(S)
           q == Guard!ByDate(f.due, S)
           money == Guard!Received(f)
           open == Guard!OpenAmounts(f)
           day(i) == Guard!Ordinal(f.due[i].date)
           old(j) == AsOld(f.due, S, j)
           upTo(j) == Guard!SumOf([i \in old(j) |-> f.due[i].amount])
           C == {j \in S : f.due[j].amount > 0 /\ upTo(j) > money}
<1>1. /\ S = Guard!Owed(f) /\ Dated(f.due, S) /\ Amounts(h, S) /\ money \in Nat
      /\ Guard!DueCents(f) = Sum(h, S)
  BY ArrearsAre
<1>2. /\ DOMAIN q = 1 .. n /\ Lists(q, n, S)
      /\ InDateOrder(f.due, q, n)
  <2> HIDE DEF S
  <2> QED
    BY <1>1, ByDateIs
<1>3. IsFiniteSet(S) /\ n \in Nat /\ \A i \in 1 .. n : q[i] \in S
  BY <1>1, <1>2 DEF Dated, Lists
<1>4. PICK left : IsLeft(left, q, h, n, money) /\ IsOpen(open, left, q, h, n)
  BY OpenAmountsAre
<1>5. ASSUME NEW j \in S PROVE upTo(j) = Sum(h, old(j))
  <2> DEFINE T == old(j)
             k == [i \in T |-> f.due[i].amount]
  <2>1. T \subseteq S /\ \A i \in T : k[i] = h[i]
    BY DEF AsOld
  <2>2. IsFiniteSet(T)
    BY <1>3, <2>1, FS_Subset
  <2>3. upTo(j) = Sum(k, T)
    BY GuardSums
  <2>4. Sum(k, T) = Sum(h, T)
    <3> HIDE DEF T, k, h
    <3> QED
      BY <2>1, <2>2, SumSame
  <2> QED
    BY <2>3, <2>4
<1>6. ASSUME NEW i \in 1 .. n PROVE upTo(q[i]) = UpTo(q, h, i)
  <2>1. Prefix(q, i + 1) = old(q[i])
    <3> DEFINE list == f.due
    <3> HIDE DEF S, q, list
    <3>1. Dated(list, S) /\ InDateOrder(list, q, n)
      BY <1>1, <1>2 DEF list
    <3> HIDE DEF h, money, open, day, old, upTo, C
    <3>2. Prefix(q, i + 1) = AsOld(list, S, q[i])
      BY <1>2, <3>1, OlderIsPrefix
    <3> QED
      BY <3>2 DEF list, old
  <2>2. q[i] \in S
    BY <1>3
  <2> HIDE DEF S, q, h, upTo, old
  <2> QED
    BY <1>5, <2>1, <2>2 DEF UpTo
<1>7. Guard!OpenCount(f) = Guard!Cardinality(C)
  <2> USE DEF AsOld
  <2>1. Guard!OpenCount(f) = Guard!Cardinality({j \in Guard!Owed(f) :
                 /\ f.due[j].amount > 0
                 /\ Guard!SumOf([i \in {k \in Guard!Owed(f) :
                       day(k) < day(j) \/ (day(k) = day(j) /\ k <= j)} |->
                       f.due[i].amount]) > money})
    BY DEF Guard!OpenCount
  <2> HIDE DEF S, money
  <2> QED
    BY <1>1, <2>1
<1>8. Unreached(C, S, q, h, n, money)
  <2>1. C \subseteq S
    OBVIOUS
  <2>2. ASSUME NEW i \in 1 .. n
        PROVE  q[i] \in C <=> h[q[i]] > 0 /\ UpTo(q, h, i) > money
    <3>1. q[i] \in S /\ h[q[i]] = f.due[q[i]].amount
      BY <1>3
    <3> DEFINE x == q[i]
    <3>2. x \in C <=> h[x] > 0 /\ upTo(x) > money
      <4>1. x \in S /\ h[x] = f.due[x].amount
        BY <3>1
      <4> HIDE DEF x, S, h, upTo, money
      <4> QED
        BY <4>1
    <3> HIDE DEF C, h, S, upTo, q, money
    <3> QED
      BY <1>6, <3>2 DEF x
  <2> HIDE DEF C, h, S, q, n, money
  <2> QED
    BY <2>1, <2>2 DEF Unreached
<1>9. Cardinality({i \in 1 .. n : open[i] > 0}) = Cardinality(C)
  <2> HIDE DEF S, h, n, q, money, open, C, day, old, upTo
  <2> QED
    BY <1>1, <1>2, <1>3, <1>4, <1>8, OpenCounts
<1>10. DOMAIN open = 1 .. n
  <2> HIDE DEF open, n, q, h, S
  <2> QED
    BY <1>4 DEF IsOpen
<1>11. Sum(open, 1 .. n) = OpenUpTo(Sum(h, S), money)
  <2> HIDE DEF S, h, n, q, money, open, C, day, old, upTo
  <2> QED
    BY <1>1, <1>2, <1>3, <1>4, OpenAdds
<1>12. Guard!SumOf(open) = OpenUpTo(Guard!DueCents(f), money)
  <2>1. Guard!SumOf(open) = Sum(open, DOMAIN open)
    BY GuardSums
  <2> HIDE DEF open, n, S, h
  <2> QED
    BY <1>1, <1>10, <1>11, <2>1
<1>13. Cardinality({i \in DOMAIN open : open[i] > 0}) = Guard!OpenCount(f)
  <2> HIDE DEF open, n, S, C
  <2> QED
    BY <1>7, <1>9, <1>10, GuardCounts
<1>14. Cardinality(C) \in Nat
  <2>1. IsFiniteSet(C)
    BY <1>3, FS_Subset
  <2> HIDE DEF C
  <2> QED
    BY <2>1, FS_CardinalityType
<1>15. Guard!OpenCount(f) \in Nat
  <2> HIDE DEF C
  <2> QED
    BY <1>7, <1>14, GuardCounts
<1> QED
  BY <1>12, <1>13, <1>15

\* W3: the arrears are what the money does not pay of the debts that are due.
LEMMA ArrearsAgree ==
    ASSUME NEW f \in Guard!Inputs, f.guard = "W3"
    PROVE  Guard!GuardAgrees(f, Guard!Evaluate(f))
<1> DEFINE r == Guard!Evaluate(f)
           open == Guard!OpenAmounts(f)
           arrears == Guard!SumOf(open)
           dates == Guard!Cardinality({i \in DOMAIN open : open[i] > 0})
           terminates == dates > 2 /\ arrears >= 2 * f.rent
           warns == dates >= 2 /\ arrears > f.rent
           stage == CASE terminates -> "3b"
                      [] ~terminates /\ warns -> "3a"
                      [] ~terminates /\ ~warns /\ arrears > 0 -> "info"
                      [] OTHER -> "resolved"
           wrong == \/ f.rent <= 0
                    \/ \E i \in Guard!FallenDue(f) : f.due[i].amount < 0
                    \/ \E i \in DOMAIN f.payments :
                          f.payments[i].amount < 0 /\ Guard!NotAfter(f.payments[i].date, f.today)
           paid == [i \in DOMAIN f.payments |->
                       IF Guard!DaysTo(f.payments[i].date, f.today) >= 0
                       THEN f.payments[i].amount ELSE 0]
<1>1. /\ f.today \in Guard!Days /\ f.due \in Guard!Entries /\ f.payments \in Guard!Entries
      /\ f.rent \in Int
  BY DEF Guard!Inputs
<1>2. r = Guard!PaymentArrears(f)
  BY DEF Guard!Evaluate
<1>3. CASE wrong
  <2>1. r = Guard!Wrong
    BY <1>2, <1>3 DEF Guard!PaymentArrears
  <2> QED
    BY <2>1 DEF Guard!GuardAgrees
<1>4. CASE ~wrong
  <2>1. ArrearsInput(f)
    <3>1. \A i \in Guard!FallenDue(f) : f.due[i].amount \in Int
      BY <1>1, EntriesAre DEF Guard!FallenDue
    <3>2. \A i \in DOMAIN f.payments : f.payments[i].amount \in Int
      BY <1>1, EntriesAre
    <3> QED
      BY <1>1, <1>4, <3>1, <3>2 DEF ArrearsInput
  <2>2. /\ r.stage = stage /\ r.active = (arrears > 0) /\ r.channels = Guard!Channels("W3", stage)
        /\ r.detail.arrears = arrears /\ r.detail.dates = dates /\ r.detail.warned = warns
    BY <1>2, <1>4 DEF Guard!PaymentArrears, Guard!Guard
  <2>3. /\ dates = Guard!OpenCount(f) /\ dates \in Nat
        /\ arrears = OpenUpTo(Guard!DueCents(f), Guard!Received(f))
    BY <2>1, OpenCountIs, GuardCounts
  <2>4. /\ Guard!Received(f) \in Nat /\ Guard!SumOf(paid) = Guard!Received(f)
        /\ Guard!DueCents(f) \in Nat
    <3> DEFINE S == Guard!FallenDue(f)
               h == [i \in S |-> f.due[i].amount]
    <3>1. /\ Guard!Received(f) \in Nat /\ Guard!SumOf(paid) = Guard!Received(f)
          /\ Dated(f.due, S) /\ Amounts(h, S) /\ Guard!DueCents(f) = Sum(h, S)
      BY <2>1, ArrearsAre
    <3>2. Sum(h, S) \in Nat
      <4> HIDE DEF h, S
      <4> QED
        BY <3>1, SumNat DEF Dated, Amounts
    <3> QED
      BY <3>1, <3>2
  <2>5. Guard!Max({0, Guard!DueCents(f) - Guard!SumOf(paid)}) = arrears
    <3> DEFINE x == Guard!DueCents(f) - Guard!Received(f)
    <3>1. x \in Int /\ arrears = IF 0 <= x THEN x ELSE 0
      BY <2>3, <2>4 DEF OpenUpTo
    <3> HIDE DEF x, arrears
    <3>2. Guard!Max({0, x}) = IF 0 <= x THEN x ELSE 0
      BY <3>1, OfTwo
    <3> QED
      BY <2>4, <3>1, <3>2 DEF x
  <2>6. arrears \in Nat
    BY <2>3, <2>4 DEF OpenUpTo
  <2>7. f.rent > 0
    BY <1>1, <1>4
  <2> HIDE DEF arrears, dates, open, paid, wrong
  <2>8. stage = "3b" => warns /\ arrears >= 2 * f.rent
    <3>1. stage = "3b" => terminates
      OBVIOUS
    <3>2. dates \in Int => (terminates => warns)
      BY <1>1, <2>6, <2>7
    <3>3. dates \in Int
      BY <2>3
    <3> QED
      BY <3>1, <3>2, <3>3
  <2>9. warns <=> stage \in {"3a", "3b"}
    BY <2>8
  <2>10. Guard!Channels("W3", stage) # {} => arrears > 0
    <3>1. stage \in {"3a", "3b", "info", "resolved"}
      OBVIOUS
    <3>2. stage = "info" => arrears > 0
      OBVIOUS
    <3>3. warns => arrears > 0
      BY <1>1, <2>6, <2>7
    <3>4. Guard!Channels("W3", "resolved") = {}
      BY DEF Guard!Channels
    <3> HIDE DEF stage, warns
    <3> QED
      BY <2>9, <3>1, <3>2, <3>3, <3>4
  <2> HIDE DEF r, stage, warns
  <2>11. /\ r.channels # {} => r.active
         /\ r.detail.arrears = Guard!Max({0, Guard!DueCents(f) - Guard!SumOf(paid)})
         /\ r.detail.dates = Guard!OpenCount(f)
         /\ r.stage = "3b" => r.detail.warned /\ r.detail.arrears >= 2 * f.rent
         /\ r.detail.warned <=> r.stage \in {"3a", "3b"}
    BY <2>2, <2>3, <2>5, <2>8, <2>9, <2>10
  <2>12. Guard!GuardAgrees(f, r)
    BY <2>11 DEF Guard!GuardAgrees, paid
  <2> QED
    BY <2>12 DEF r
<1> QED
  BY <1>3, <1>4

\* The same day of the next year is a year of days later.
LEMMA YearLater ==
    ASSUME NEW x \in Guard!Days
    PROVE  Guard!Ordinal(Guard!AddMonths(x, 12)) >= Guard!Ordinal(x) + 365
<1> DEFINE z == Guard!AddMonths(x, 12)
           l == Guard!LastDay(z.y, z.m)
<1>1. z \in Guard!Days /\ 12 * z.y + z.m = 12 * x.y + x.m + 12 /\ z.d = IF x.d <= l THEN x.d ELSE l
  BY MonthsLater
<1>2. /\ x.y \in Nat \ {0} /\ x.m \in 1 .. 12 /\ x.d \in 1 .. Guard!LastDay(x.y, x.m)
      /\ Guard!DaysBefore(x.y, x.m) \in Nat /\ YearStart(x.y) \in Int
      /\ Guard!LastDay(x.y, x.m) \in 28 .. 31
      /\ Guard!Ordinal(x) = YearStart(x.y) + Guard!DaysBefore(x.y, x.m) + x.d
  BY DayParts
<1> HIDE DEF z
<1>3. /\ z.y \in Nat \ {0} /\ z.m \in 1 .. 12
      /\ Guard!DaysBefore(z.y, z.m) \in Nat /\ YearStart(z.y) \in Int
      /\ Guard!LastDay(z.y, z.m) \in 28 .. 31
      /\ Guard!Ordinal(z) = YearStart(z.y) + Guard!DaysBefore(z.y, z.m) + z.d
  BY <1>1, DayParts
<1>4. z.y = x.y + 1 /\ z.m = x.m
  BY <1>1, <1>2, <1>3
<1>5. YearStart(x.y + 1) = YearStart(x.y) + 365 + LeapDay(x.y)
  BY <1>2, YearLength
<1>6. LeapDay(x.y) \in {0, 1} /\ LeapDay(x.y + 1) \in {0, 1}
  BY DEF LeapDay
<1> DEFINE a == Guard!DaysBefore(x.y, x.m)
           b == Guard!DaysBefore(x.y + 1, x.m)
<1>7. CASE x.m = 2
  <2>1. /\ Guard!LastDay(x.y, 2) = 28 + LeapDay(x.y)
        /\ Guard!LastDay(x.y + 1, 2) = 28 + LeapDay(x.y + 1)
    BY <1>2, <1>3, <1>4, MonthLengths
  <2>2. a = 31 /\ b = 31
    BY <1>2, <1>3, <1>4, <1>7, MonthStarts
  <2>3. l = 28 + LeapDay(x.y + 1) /\ x.d <= 28 + LeapDay(x.y) /\ x.d \in Int
    BY <1>2, <1>4, <1>7, <2>1
  <2>4. Guard!Ordinal(z) = YearStart(x.y) + 365 + LeapDay(x.y) + 31 + z.d
    BY <1>2, <1>3, <1>4, <1>5, <1>6, <2>2
  <2>5. z.d + LeapDay(x.y) >= x.d
    BY <1>1, <1>6, <2>3
  <2>6. z.d \in Int
    BY <1>1, <1>6, <2>3
  <2> QED
    BY <1>2, <1>6, <2>2, <2>4, <2>5, <2>6 DEF z
<1>8. CASE x.m # 2
  <2>1. Guard!LastDay(x.y, x.m) = Guard!LastDay(x.y + 1, x.m)
    BY <1>8 DEF Guard!LastDay
  <2>2. z.d = x.d
    BY <1>1, <1>2, <1>4, <2>1
  <2>3. x.m \in {1, 3, 4, 5, 6, 7, 8, 9, 10, 11, 12}
    BY <1>2, <1>8
  <2>4. b + LeapDay(x.y) >= a
    BY <1>2, <1>3, <1>4, <1>6, <2>3, MonthStarts
  <2> QED
    BY <1>2, <1>3, <1>4, <1>5, <1>6, <2>2, <2>4 DEF z
<1> QED
  BY <1>7, <1>8

\* No step comes before a year has passed.
YearSteps(list, q, n) ==
    \A i \in 1 .. n - 1 :
        ~Guard!Before(list[q[i + 1]].date, Guard!AddMonths(list[q[i]].date, 12))

\* The steps of a schedule that is not refused are a year apart.
LEMMA StepsApart ==
    ASSUME NEW list, NEW S, Dated(list, S), NEW n \in Nat, NEW q, Lists(q, n, S),
           InDateOrder(list, q, n),
           YearSteps(list, q, n), NEW i \in 1 .. n, NEW j \in 1 .. n, i < j
    PROVE  Guard!Ordinal(list[q[i]].date) + 365 <= Guard!Ordinal(list[q[j]].date)
<1> DEFINE D(k) == list[q[k]].date
           o(k) == Guard!Ordinal(list[q[k]].date)
<1>1. \A k \in 1 .. n : D(k) \in Guard!Days /\ q[k] \in S
  BY DEF Dated, Lists
<1>2. \A k \in 1 .. n : o(k) \in Int
  BY <1>1, DaysHaveOrder
<1>3. i \in 1 .. n - 1 /\ i + 1 \in 1 .. n
  OBVIOUS
<1>4. o(i) + 365 <= o(i + 1)
  <2> DEFINE x == D(i)
             y == D(i + 1)
             z == Guard!AddMonths(x, 12)
  <2>1. x \in Guard!Days /\ y \in Guard!Days /\ ~Guard!Before(y, z)
    BY <1>1, <1>3 DEF YearSteps
  <2> HIDE DEF x, y
  <2>2. z \in Guard!Days /\ Guard!Ordinal(z) >= Guard!Ordinal(x) + 365
    <3>1. 12 \in Nat
      OBVIOUS
    <3> QED
      BY <2>1, <3>1, MonthsLater, YearLater
  <2> HIDE DEF z
  <2>3. /\ Guard!Ordinal(y) \in Int /\ Guard!Ordinal(z) \in Int
        /\ Guard!Before(y, z) <=> Guard!Ordinal(y) < Guard!Ordinal(z)
    BY <2>1, <2>2, DaysHaveOrder
  <2>4. Guard!Ordinal(x) \in Int
    BY <2>1, DaysHaveOrder
  <2>5. Guard!Ordinal(x) + 365 <= Guard!Ordinal(y)
    BY <2>1, <2>2, <2>3, <2>4
  <2> QED
    BY <2>5 DEF x, y
<1>5. o(i + 1) <= o(j)
  <2>1. CASE i + 1 = j
    BY <1>2, <2>1
  <2>2. CASE i + 1 < j
    <3>1. ComesBefore(list, q[i + 1], q[j]) /\ q[i + 1] \in S /\ q[j] \in S
      BY <1>1, <1>3, <2>2 DEF InDateOrder
    <3> DEFINE a == q[i + 1]
               b == q[j]
    <3> HIDE DEF a, b
    <3>2. LET c == Guard!Ordinal(list[a].date)
              d == Guard!Ordinal(list[b].date)
          IN  c \in Int /\ d \in Int /\ (ComesBefore(list, a, b) <=> c < d \/ (c = d /\ a < b))
      BY <3>1, ComesBeforeIs DEF a, b
    <3>3. Guard!Ordinal(list[a].date) <= Guard!Ordinal(list[b].date)
      BY <3>1, <3>2 DEF a, b
    <3> QED
      BY <3>3 DEF a, b
  <2> QED
    BY <1>3, <2>1, <2>2
<1> QED
  BY <1>2, <1>3, <1>4, <1>5

\* The greatest of some places.
LEMMA LastPlace ==
    ASSUME NEW n \in Nat, NEW R, R \subseteq 1 .. n, R # {}
    PROVE  Guard!Max(R) \in R /\ \A i \in R : i <= Guard!Max(R)
<1>1. \E d \in R : \A e \in R : e <= d
  <2> DEFINE D == {k \in Nat : n - k \in R}
  <2>1. D \subseteq Nat /\ D # {}
    <3>1. PICK d \in R : TRUE
      OBVIOUS
    <3>2. n - d \in Nat /\ n - (n - d) = d
      OBVIOUS
    <3> QED
      BY <3>1, <3>2
  <2>2. PICK k \in D : \A l \in D : k <= l
    <3> HIDE DEF D
    <3> QED
      BY <2>1, LeastOf
  <2>3. ASSUME NEW e \in R PROVE e <= n - k
    <3>1. n - e \in Nat /\ n - (n - e) = e
      OBVIOUS
    <3>2. k <= n - e
      BY <2>2, <3>1
    <3> QED
      BY <3>2
  <2> QED
    BY <2>3
<1>2. \E d \in R : \A e \in R : d >= e
  BY <1>1
<1>3. Guard!Max(R) \in R /\ \A e \in R : Guard!Max(R) >= e
  BY <1>2 DEF Guard!Max
<1> QED
  BY <1>3

\* W6: the last step reached is the rent, and the steps are a year apart.
LEMMA GraduationAgrees ==
    ASSUME NEW f \in Guard!Inputs, f.guard = "W6"
    PROVE  Guard!GuardAgrees(f, Guard!Evaluate(f))
<1> DEFINE r == Guard!Evaluate(f)
           list == f.schedule
           S == DOMAIN list
           q == Guard!ByDate(list, S)
           n == Len(list)
           reached == {i \in DOMAIN q : Guard!NotAfter(list[q[i]].date, f.today)}
           m == Guard!Max(reached)
           step == list[q[m]]
           due == reached # {} /\ step.amount # f.rent
           stage == IF due THEN "adjustment_due" ELSE IF reached # {} THEN "resolved" ELSE "not_due"
           invalid == \E i \in 1 .. n - 1 :
                         Guard!Before(list[q[i + 1]].date, Guard!AddMonths(list[q[i]].date, 12))
           passed == {i \in S : Guard!DaysTo(list[i].date, f.today) >= 0}
<1>1. f.today \in Guard!Days /\ list \in Guard!Entries /\ f.rent \in Int
  BY DEF Guard!Inputs
<1>2. r = Guard!GraduatedRent(f)
  BY DEF Guard!Evaluate
<1>3. /\ Dated(list, S) /\ S = 1 .. n /\ n \in Nat
      /\ \A i \in S : list[i].date \in Guard!Days /\ list[i].amount \in Int
  BY <1>1, EntriesAre
<1>4. CASE invalid
  <2>1. r = Guard!Guard("W6", "invalid", FALSE, FALSE, Guard!NoDate, Guard!NoDetail)
    BY <1>2, <1>4 DEF Guard!GraduatedRent
  <2>2. r.stage = "invalid" /\ r.channels = {}
    BY <2>1 DEF Guard!Guard, Guard!Channels
  <2> HIDE DEF r
  <2>3. Guard!GuardAgrees(f, r)
    BY <2>2 DEF Guard!GuardAgrees
  <2> QED
    BY <2>3 DEF r
<1>5. CASE ~invalid
  <2>1. /\ r.stage = stage /\ r.active = due /\ r.channels = Guard!Channels("W6", stage)
        /\ r.boundary = IF reached # {} THEN step.date ELSE Guard!NoDate
    <3> DEFINE b == IF reached # {} THEN step.date ELSE Guard!NoDate
               done == reached # {} /\ ~due
    <3>1. r = Guard!Guard("W6", stage, due, done, b, Guard!NoDetail)
      BY <1>2, <1>5 DEF Guard!GraduatedRent
    <3> HIDE DEF r, stage, due, done, b
    <3>2. /\ r.stage = stage /\ r.active = due
          /\ r.channels = Guard!Channels("W6", stage) /\ r.boundary = b
      BY <3>1 DEF Guard!Guard
    <3> QED
      BY <3>2 DEF b
  <2>2. r.channels # {} => r.active
    BY <2>1 DEF Guard!Channels
  <2>3. /\ DOMAIN q = 1 .. n /\ Lists(q, n, S) /\ InDateOrder(list, q, n)
    <3>1. Cardinality(S) = n
      BY <1>3, FS_Interval
    <3> HIDE DEF S, list, n
    <3> QED
      BY <1>3, <3>1, ByDateIs
  <2>4. YearSteps(list, q, n)
    BY <1>5 DEF YearSteps
  <2> HIDE DEF r, list, S, q, n, step, due, stage, invalid, m
  <2>5. \A i \in 1 .. n : q[i] \in S /\ list[q[i]].date \in Guard!Days
    BY <1>3, <2>3 DEF Lists
  <2>6. \A i \in S : Guard!Ordinal(list[i].date) \in Int
    BY <1>3, DaysHaveOrder
  <2>7. ASSUME NEW i \in 1 .. n, NEW j \in 1 .. n, i < j
        PROVE  Guard!Ordinal(list[q[i]].date) + 365 <= Guard!Ordinal(list[q[j]].date)
    BY <1>3, <2>3, <2>4, <2>7, StepsApart
  <2>8. ASSUME NEW i \in S, NEW j \in S, i # j
        PROVE  Guard!DaysTo(list[i].date, list[j].date) \notin -364 .. 364
    <3>1. PICK a \in 1 .. n : q[a] = i
      BY <2>3 DEF Lists
    <3>2. PICK b \in 1 .. n : q[b] = j
      BY <2>3 DEF Lists
    <3>3. a < b \/ b < a
      BY <1>3, <2>8, <3>1, <3>2
    <3> QED
      BY <2>6, <2>7, <3>1, <3>2, <3>3 DEF Guard!DaysTo
  <2>9. ASSUME due
        PROVE  \E i \in passed :
                  /\ list[i].amount # f.rent /\ r.boundary = list[i].date
                  /\ \A j \in passed : Guard!DaysTo(list[j].date, list[i].date) >= 0
    <3>1. \A i \in 1 .. n : i \in reached <=> q[i] \in passed
      <4> SUFFICES ASSUME NEW i \in 1 .. n PROVE i \in reached <=> q[i] \in passed
        OBVIOUS
      <4> DEFINE x == list[q[i]].date
      <4>1. x \in Guard!Days
        BY <2>5
      <4> HIDE DEF x
      <4>2. Guard!NotAfter(x, f.today) <=> Guard!DaysTo(x, f.today) >= 0
        BY <1>1, <4>1, DayReached
      <4> QED
        BY <2>3, <2>5, <4>2 DEF x
    <3>2. reached \subseteq 1 .. n /\ reached # {}
      BY <2>3, <2>9 DEF due
    <3> HIDE DEF reached
    <3>3. m \in reached /\ \A i \in reached : i <= m
      BY <1>3, <3>2, LastPlace DEF m
    <3>4. q[m] \in passed /\ step = list[q[m]]
      BY <3>1, <3>2, <3>3 DEF step
    <3>5. step.amount # f.rent /\ r.boundary = step.date
      BY <2>1, <2>9, <3>2 DEF due
    <3>6. ASSUME NEW j \in passed PROVE Guard!DaysTo(list[j].date, list[q[m]].date) >= 0
      <4>1. j \in S
        OBVIOUS
      <4>2. PICK b \in 1 .. n : q[b] = j
        BY <2>3, <4>1 DEF Lists
      <4>3. b \in reached /\ m \in 1 .. n
        BY <3>1, <3>2, <3>3, <4>2
      <4>4. b <= m
        BY <3>3, <4>3
      <4>5. Guard!Ordinal(list[q[b]].date) <= Guard!Ordinal(list[q[m]].date)
        <5>1. CASE b = m
          BY <2>5, <2>6, <4>3, <5>1
        <5>2. CASE b < m
          BY <2>5, <2>6, <2>7, <4>3, <5>2
        <5> QED
          BY <1>3, <4>3, <4>4, <5>1, <5>2
      <4>6. Guard!Ordinal(list[j].date) \in Int /\ Guard!Ordinal(list[q[m]].date) \in Int
        BY <2>5, <2>6, <4>1, <4>3
      <4> QED
        BY <4>2, <4>5, <4>6 DEF Guard!DaysTo
    <3> HIDE DEF passed
    <3> QED
      BY <3>4, <3>5, <3>6
  <2> HIDE DEF passed
  <2>10. /\ r.channels # {} => r.active
         /\ r.active => \E i \in passed :
                           /\ list[i].amount # f.rent /\ r.boundary = list[i].date
                           /\ \A j \in passed : Guard!DaysTo(list[j].date, list[i].date) >= 0
         /\ \A i, j \in S : i # j => Guard!DaysTo(list[i].date, list[j].date) \notin -364 .. 364
    BY <2>1, <2>2, <2>8, <2>9
  <2>11. Guard!GuardAgrees(f, r)
    BY <2>10 DEF Guard!GuardAgrees, passed, S, list
  <2> QED
    BY <2>11 DEF r
<1> QED
  BY <1>4, <1>5

-----------------------------------------------------------------------------
(* Every guard's result.                                                   *)

\* What a guard says of a subject is what its rule says.
LEMMA EveryGuardAgrees ==
    ASSUME NEW f \in Guard!Inputs
    PROVE  Guard!GuardAgrees(f, Guard!Evaluate(f))
<1>1. f.guard \in {"W1", "W2", "W3", "W4", "W5", "W6", "W7", "W8"}
  BY DEF Guard!Inputs
<1>2. CASE f.guard = "W1"
  BY <1>2, DeadlineAgrees
<1>3. CASE f.guard = "W2"
  BY <1>3, CalibrationAgrees
<1>4. CASE f.guard = "W3"
  BY <1>4, ArrearsAgree
<1>5. CASE f.guard = "W4"
  BY <1>5, CadenceAgrees
<1>6. CASE f.guard = "W5"
  BY <1>6, IncreaseAgrees
<1>7. CASE f.guard = "W6"
  BY <1>7, GraduationAgrees
<1>8. CASE f.guard = "W7"
  BY <1>8, IndexAgrees
<1>9. CASE f.guard = "W8"
  BY <1>9, VacancyAgrees
<1> QED
  BY <1>1, <1>2, <1>3, <1>4, <1>5, <1>6, <1>7, <1>8, <1>9

\* A call for a guard has a subject, and its answer is what the guard says of it.
GuardInv ==
    call.kind = "guard" =>
        /\ call.facts \in Guard!Inputs
        /\ result = NoResult \/ result = Guard!Evaluate(call.facts)

\* The calls for a guard are the only ones of their kind.
LEMMA GuardCallsOnly == EnginesInit => GuardInv
<1> SUFFICES ASSUME EnginesInit, call.kind = "guard"
             PROVE  call.facts \in Guard!Inputs /\ result = NoResult
  BY DEF GuardInv
<1>1. \A c \in SettleCalls : c.kind = "settle"
  BY DEF SettleCalls
<1>2. \A c \in SplitCalls : c.kind = "split"
  BY DEF SplitCalls
<1>3. \A c \in HeatingCalls : c.kind = "heating"
  BY DEF HeatingCalls
<1>4. \A c \in ReductionCalls : c.kind = "reduction"
  BY DEF ReductionCalls
<1>5. \A c \in DepreciationCalls : c.kind \in {"afa", "record"}
  BY DEF DepreciationCalls
<1>6. \A c \in CostCalls : c.kind = "costs"
  BY DEF CostCalls
<1>7. \A c \in AnswerCalls : c.kind = "guard" => c.facts \in Subjects
  BY DEF AnswerCalls
<1>8. call \in AnswerCalls /\ result = NoResult
  BY <1>1, <1>2, <1>3, <1>4, <1>5, <1>6 DEF EnginesInit
<1> QED
  BY <1>7, <1>8, SubjectsAssumption

\* One call is answered once, by the guard.
LEMMA GuardStep == GuardInv /\ [EnginesNext]_vars => GuardInv'
<1> SUFFICES ASSUME GuardInv, [EnginesNext]_vars, call.kind = "guard"
             PROVE  GuardInv'
  <2>1. CASE call.kind = "guard"
    BY <2>1
  <2>2. CASE call.kind # "guard"
    <3> SUFFICES ASSUME [EnginesNext]_vars PROVE call' = call
      BY <2>2 DEF GuardInv
    <3> QED
      BY DEF EnginesNext, Next, vars, Settle, SplitPrincipal, AllocateCosts, BillHeating,
             DeductSection12, CalculateDepreciation, RecordTaxYear, ExportTaxYear,
             EvaluateGuard, InformRenter, InterpolateMonth, PlanPurchase, AssignStation,
             ResolveFactor
  <2> QED
    BY <2>1, <2>2
<1>1. CASE EvaluateGuard
  BY <1>1 DEF EvaluateGuard, GuardInv
<1>2. CASE UNCHANGED vars
  BY <1>2 DEF vars, GuardInv
<1>3. ASSUME EnginesNext PROVE EvaluateGuard
  BY <1>3 DEF EnginesNext, Next, Settle, SplitPrincipal, AllocateCosts, BillHeating,
              DeductSection12, CalculateDepreciation, RecordTaxYear, ExportTaxYear,
              InformRenter, InterpolateMonth, PlanPurchase, AssignStation, ResolveFactor
<1> QED
  BY <1>1, <1>2, <1>3

\* A pending call has no result.
LEMMA GuardsFollow == GuardInv => GuardsAgree
  BY EveryGuardAgrees DEF GuardInv, GuardsAgree

\* Whatever subject a guard is asked about, a deadline is the day that the
\* calendar says, arrears are what the money has not paid of the debts due, a
\* rent may rise to its cap and no further, and a guard that tells somebody is
\* active, at any time. (Code: guard-engine evaluators.py, page05_guards.py.)
THEOREM GuardsAlwaysAgree == EnginesSpec => []GuardsAgree
  BY GuardCallsOnly, GuardStep, GuardsFollow, PTL DEF EnginesSpec

-----------------------------------------------------------------------------
(* The exports: the tax year of a payment.                                 *)

\* The exports use the same calendar, and count as the other modules do.
LEMMA ExportCalendar ==
    /\ Export!Days = Guard!Days
    /\ \A x : Export!Ordinal(x) = Guard!Ordinal(x)
    /\ \A a, b : Export!Before(a, b) <=> Guard!Before(a, b)
    /\ \A y, m, d : Export!Date(y, m, d) = Guard!Date(y, m, d)
<1>1. Export!Days = Guard!Days
  BY DEF Export!Days, Guard!Days, Export!LastDay, Guard!LastDay, Export!LeapYear, Guard!LeapYear
<1>2. ASSUME NEW x PROVE Export!Ordinal(x) = Guard!Ordinal(x)
  BY DEF Export!Ordinal, Guard!Ordinal, Export!DaysBefore, Guard!DaysBefore, Export!LeapYear,
         Guard!LeapYear
<1>3. ASSUME NEW a, NEW b PROVE Export!Before(a, b) <=> Guard!Before(a, b)
  BY DEF Export!Before, Guard!Before
<1>4. \A y, m, d : Export!Date(y, m, d) = Guard!Date(y, m, d)
  BY DEF Export!Date, Guard!Date
<1> QED
  BY <1>1, <1>2, <1>3, <1>4

LEMMA ExportCounts == \A S : Export!Cardinality(S) = Cardinality(S)
  BY DEF Export!Cardinality, Cardinality

LEMMA ExportSums == \A f : Export!SumOf(f) = Sum(f, DOMAIN f)
  BY DEF Export!SumOf, Export!MapThenSumSet, Export!MapThenFoldSet, Sum, MapThenSumSet,
         MapThenFoldSet

LEMMA ExportMin ==
    ASSUME NEW a \in Int, NEW b \in Int
    PROVE  Export!Min({a, b}) = IF a <= b THEN a ELSE b
<1>1. Export!Min({a, b}) = Guard!Min({a, b})
  BY DEF Export!Min, Guard!Min
<1> QED
  BY <1>1, OfTwo

LEMMA ExportMax ==
    ASSUME NEW a \in Int, NEW b \in Int
    PROVE  Export!Max({a, b}) = IF a <= b THEN b ELSE a
<1>1. Export!Max({a, b}) = Guard!Max({a, b})
  BY DEF Export!Max, Guard!Max
<1> QED
  BY <1>1, OfTwo

\* The first day of a year.
LEMMA NewYearsDay ==
    ASSUME NEW y \in Nat \ {0}
    PROVE  /\ Guard!Date(y, 1, 1) \in Guard!Days
           /\ Guard!Ordinal(Guard!Date(y, 1, 1)) = YearStart(y) + 1
<1> DEFINE x == Guard!Date(y, 1, 1)
<1>1. x \in Guard!Days /\ x.y = y /\ x.m = 1 /\ x.d = 1
  BY MonthLengths DEF Guard!Date, Guard!Days
<1>2. Guard!DaysBefore(y, 1) = 0
  BY MonthStarts
<1> HIDE DEF x
<1>3. Guard!Ordinal(x) = YearStart(y) + 0 + 1 /\ YearStart(y) \in Int
  BY <1>1, <1>2, DayParts
<1> QED
  BY <1>1, <1>3 DEF x

\* The window around New Year is the ten days before and after it.
LEMMA WindowIs ==
    ASSUME NEW x \in Guard!Days
    PROVE  Export!AroundNewYear(x) <=> Export!InWindow(x)
<1> DEFINE y == x.y
           m == x.m
           d == x.d
           s == YearStart(y)
           b == Guard!DaysBefore(y, m)
           leap == LeapDay(y)
           n == b + d
<1>1. /\ y \in Nat \ {0} /\ m \in 1 .. 12 /\ d \in 1 .. 31 /\ b \in Nat
      /\ Guard!Ordinal(x) = s + b + d /\ s \in Int
  <2>1. d \in Int /\ d <= Guard!LastDay(y, m) /\ d >= 1 /\ Guard!LastDay(y, m) \in 28 .. 31
    BY DayParts
  <2> QED
    BY <2>1, DayParts
<1>2. /\ Guard!Ordinal(Guard!Date(y, 1, 1)) = s + 1
      /\ Guard!Ordinal(Guard!Date(y + 1, 1, 1)) = s + 366 + leap /\ leap \in {0, 1}
  <2>1. y + 1 \in Nat \ {0}
    BY <1>1
  <2>2. YearStart(y + 1) = s + 365 + leap /\ leap \in {0, 1}
    BY <1>1, YearLength DEF LeapDay
  <2> HIDE DEF s, leap, y
  <2>3. s + 365 + leap + 1 = s + 366 + leap
    BY <1>1, <2>2
  <2> QED
    BY <1>1, <2>1, <2>2, <2>3, NewYearsDay DEF s
<1>3. Export!AroundNewYear(x) <=> (n - 1 <= 9 \/ n - 366 - leap >= -10)
  <2> DEFINE P(z) == /\ -10 <= Guard!Ordinal(x) - Guard!Ordinal(Guard!Date(z, 1, 1))
                     /\ Guard!Ordinal(x) - Guard!Ordinal(Guard!Date(z, 1, 1)) <= 9
  <2>1. Export!AroundNewYear(x) <=> P(y) \/ P(y + 1)
    BY ExportCalendar DEF Export!AroundNewYear
  <2>2. n <= 366 + leap /\ n >= 1 /\ n \in Int
    <3>1. m \in {1, 2, 3, 4, 5, 6, 7, 8, 9, 10, 11, 12}
      BY <1>1
    <3>2. b <= 334 + leap
      BY <1>1, <1>2, <3>1, MonthStarts
    <3> HIDE DEF b, d, leap
    <3> QED
      BY <1>1, <1>2, <3>2
  <2>3. /\ Guard!Ordinal(x) - Guard!Ordinal(Guard!Date(y, 1, 1)) = n - 1
        /\ Guard!Ordinal(x) - Guard!Ordinal(Guard!Date(y + 1, 1, 1)) = n - 366 - leap
    <3> HIDE DEF y, m, d, s, b, leap
    <3> QED
      BY <1>1, <1>2
  <2> HIDE DEF n, leap, y
  <2> QED
    BY <1>2, <2>1, <2>2, <2>3
<1>4. n - 1 <= 9 <=> m = 1 /\ d <= 10
  <2>1. m = 1 => b = 0
    BY <1>1, MonthStarts
  <2>2. m # 1 => b >= 31
    <3>1. m # 1 => m \in {2, 3, 4, 5, 6, 7, 8, 9, 10, 11, 12}
      BY <1>1
    <3> QED
      BY <1>1, <1>2, <3>1, MonthStarts
  <2> HIDE DEF m, d, b
  <2> QED
    BY <1>1, <2>1, <2>2
<1>5. n - 366 - leap >= -10 <=> m = 12 /\ d >= 22
  <2>1. m = 12 => b = 334 + leap
    BY <1>1, MonthStarts
  <2>2. m # 12 => b <= 304 + leap
    <3>1. m # 12 => m \in {1, 2, 3, 4, 5, 6, 7, 8, 9, 10, 11}
      BY <1>1
    <3> QED
      BY <1>1, <1>2, <3>1, MonthStarts
  <2> HIDE DEF m, d, b, leap
  <2> QED
    BY <1>1, <1>2, <2>1, <2>2
<1> HIDE DEF n, leap
<1> QED
  BY <1>3, <1>4, <1>5 DEF Export!InWindow

\* The year of a payment.
LEMMA YearOfIs ==
    ASSUME NEW e \in Export!Rows, e.paid # Export!NoDay
    PROVE  Export!YearOf(e) = Export!AssignTaxYear(e)
<1>1. e.paid \in Guard!Days
  BY ExportCalendar DEF Export!Rows
<1>2. e.due # Export!NoDay => e.due \in Guard!Days
  BY ExportCalendar DEF Export!Rows
<1>3. CASE ~e.recurring \/ e.due = Export!NoDay
  BY <1>3 DEF Export!YearOf, Export!AssignTaxYear
<1>4. CASE e.recurring /\ e.due # Export!NoDay
  <2>1. Export!AroundNewYear(e.paid) <=> Export!InWindow(e.paid)
    BY <1>1, WindowIs
  <2>2. Export!AroundNewYear(e.due) <=> Export!InWindow(e.due)
    BY <1>2, <1>4, WindowIs
  <2> QED
    BY <1>4, <2>1, <2>2 DEF Export!YearOf, Export!AssignTaxYear
<1> QED
  BY <1>3, <1>4

-----------------------------------------------------------------------------
(* The payments that are exported, and their effect.                        *)

\* The payments of a ledger, by their numbers.
LEMMA LedgerRows ==
    ASSUME NEW f, Export!Stored(f)
    PROVE  /\ IsFiniteSet(DOMAIN f.events)
           /\ \A i \in DOMAIN f.events : f.events[i] \in Export!Rows /\ f.events[i].id \in Nat \ {0}
           /\ \A i, j \in DOMAIN f.events : f.events[i].id = f.events[j].id => i = j
<1>1. f.events \in Seq(Export!Rows)
  BY DEF Export!Stored
<1>2. DOMAIN f.events = 1 .. Len(f.events) /\ Len(f.events) \in Nat
  BY <1>1
<1>3. IsFiniteSet(DOMAIN f.events)
  BY <1>2, FS_Interval
<1>4. \A i \in DOMAIN f.events : f.events[i] \in Export!Rows
  BY <1>1
<1>5. \A i \in DOMAIN f.events : f.events[i].id \in Nat \ {0}
  BY <1>4 DEF Export!Rows
<1> QED
  BY <1>3, <1>4, <1>5 DEF Export!Stored

\* What no other payment corrects stands, each once.
LEMMA CurrentIs ==
    ASSUME NEW f, Export!Stored(f)
    PROVE  /\ Export!Current(f) = {f.events[i] : i \in Export!Standing(f)}
           /\ Export!Standing(f) \subseteq DOMAIN f.events
           /\ IsFiniteSet(Export!Standing(f))
<1> DEFINE E == f.events
           own == {E[i] : i \in {j \in DOMAIN E : E[j].building = f.building}}
<1>1. \A i, j \in DOMAIN E : E[j].supersedes = E[i].id => E[j].building = E[i].building
  BY DEF Export!Stored
<1>3. Export!Current(f) = {e \in own : \A o \in own : o.supersedes # e.id}
  BY DEF Export!Current
<1>4. Export!Standing(f) = {i \in DOMAIN E : E[i].building = f.building
                                /\ ~\E j \in DOMAIN E : E[j].supersedes = E[i].id}
  BY DEF Export!Standing
<1>5. Export!Current(f) = {E[i] : i \in Export!Standing(f)}
  <2> HIDE DEF E
  <2> QED
    BY <1>1, <1>3, <1>4
<1>6. Export!Standing(f) \subseteq DOMAIN f.events
  BY DEF Export!Standing
<1> QED
  BY <1>5, <1>6, LedgerRows, FS_Subset

\* The payments that an export counts.
CountedIn(f) ==
    {e \in Export!Current(f) : e.paid # Export!NoDay /\ Export!AssignTaxYear(e) = f.year}

\* They are the payments that stand and belong to the year.
LEMMA CountedIs ==
    ASSUME NEW f, Export!Stored(f)
    PROVE  /\ CountedIn(f) = {f.events[i] : i \in Export!InYear(f)}
           /\ Export!InYear(f) \subseteq DOMAIN f.events
           /\ Export!InYear(f) \subseteq Export!Standing(f)
           /\ IsFiniteSet(Export!InYear(f))
<1> DEFINE E == f.events
<1>1. \A i \in Export!Standing(f) : E[i] \in Export!Rows
  BY CurrentIs, LedgerRows
<1>2. Export!InYear(f) = {i \in Export!Standing(f) :
                             E[i].paid # Export!NoDay /\ Export!AssignTaxYear(E[i]) = f.year}
  <2>1. \A i \in Export!Standing(f) :
           E[i].paid # Export!NoDay => Export!YearOf(E[i]) = Export!AssignTaxYear(E[i])
    BY <1>1, YearOfIs
  <2> QED
    BY <2>1 DEF Export!InYear
<1>3. CountedIn(f) = {E[i] : i \in Export!InYear(f)}
  BY <1>2, CurrentIs DEF CountedIn
<1>4. IsFiniteSet(Export!InYear(f)) /\ Export!InYear(f) \subseteq Export!Standing(f)
  BY <1>2, CurrentIs, FS_Subset
<1> QED
  BY <1>3, <1>4, CurrentIs

\* A rent goes to what is due of it, first the rent, and the rest is credit.
LEMMA RentIs ==
    ASSUME NEW e \in Export!Rows
    PROVE  LET c == Export!RentComponents(e)
               cold == IF e.amount <= e.cold THEN e.amount ELSE e.cold
           IN  /\ c.cold \in Int /\ c.advance \in Int /\ c.credit \in Int
               /\ c.cold = cold
               /\ c.advance = IF e.amount - cold <= e.advance THEN e.amount - cold ELSE e.advance
               /\ c.credit = e.amount - c.cold - c.advance
<1> DEFINE a == e.amount
           k == e.cold
           v == e.advance
           cold == Export!Min({a, k})
           advance == Export!Min({Export!Max({0, a - cold}), v})
<1>1. a \in Nat /\ k \in Int /\ v \in Int
  BY DEF Export!Rows
<1> HIDE DEF a, k, v
<1>2. cold = IF a <= k THEN a ELSE k
  BY <1>1, ExportMin
<1>3. cold \in Int /\ a - cold \in Int /\ a - cold >= 0
  BY <1>1, <1>2
<1> HIDE DEF cold
<1>4. Export!Max({0, a - cold}) = a - cold
  BY <1>3, ExportMax
<1>5. advance = IF a - cold <= v THEN a - cold ELSE v
  BY <1>1, <1>3, <1>4, ExportMin
<1> HIDE DEF advance
<1>6. advance \in Int /\ a - cold - advance \in Int
  BY <1>1, <1>3, <1>5
<1>7. Export!RentComponents(e) = [cold |-> cold, advance |-> advance, credit |-> a - cold - advance]
  BY DEF Export!RentComponents, cold, advance, a, k, v
<1> QED
  BY <1>2, <1>3, <1>5, <1>6, <1>7 DEF a, k, v

\* What a payment does to the result is what it adds to the income or the costs.
LEMMA EffectIs ==
    ASSUME NEW e \in Export!Rows
    PROVE  /\ Export!Income(e) \in Int /\ Export!CashCost(e) \in Int /\ Export!EffectOf(e) \in Int
           /\ Export!Income(e) = Export!EffectOf(e) + Export!CashCost(e)
           /\ Export!EffectOf(e) = Export!Income(e) - Export!CashCost(e)
<1>1. /\ e.amount \in Nat /\ e.cold \in Int /\ e.advance \in Int
      /\ e.direction \in {"einnahme", "ausgabe"}
  BY DEF Export!Rows
<1>2. CASE e.category = "rent_collection"
  <2> DEFINE c == Export!RentComponents(e)
             x == c.cold
             v == c.advance
             a == e.amount
             k == e.cold
             w == e.advance
  <2>1. /\ x \in Int /\ v \in Int /\ x = (IF a <= k THEN a ELSE k)
        /\ v = IF a - x <= w THEN a - x ELSE w
    BY RentIs
  <2>2. Export!Income(e) = x + v /\ Export!CashCost(e) = 0
    BY <1>2 DEF Export!Income, Export!CashCost
  <2>3. Export!EffectOf(e) = Export!Min({a, Export!Min({a, k}) + w})
    BY <1>2 DEF Export!EffectOf
  <2> HIDE DEF x, v, a, k, w
  <2>4. a \in Nat /\ k \in Int /\ w \in Int
    BY <1>1 DEF a, k, w
  <2>5. Export!Min({a, k}) = x /\ x + w \in Int
    BY <2>1, <2>4, ExportMin
  <2>6. Export!EffectOf(e) = IF a <= x + w THEN a ELSE x + w
    BY <2>3, <2>4, <2>5, ExportMin
  <2> QED
    BY <2>1, <2>2, <2>4, <2>6
<1>3. CASE e.category = "kaution"
  BY <1>1, <1>3 DEF Export!Income, Export!CashCost, Export!EffectOf
<1>4. CASE e.category \notin {"rent_collection", "kaution"}
  BY <1>1, <1>4 DEF Export!Income, Export!CashCost, Export!EffectOf
<1> QED
  BY <1>2, <1>3, <1>4

\* The result of an overview is what the payments of the year do to it.
LEMMA OverviewIs ==
    ASSUME NEW f, Export!Stored(f), f.afa # <<>>, NEW chart
    PROVE  Export!OverviewAgrees(f, Export!Overview(f, Export!Current(f), chart))
<1> DEFINE C == CountedIn(f)
           I == Export!InYear(f)
           E == f.events
           afa == f.afa[1].afa
           interest == f.afa[1].interest
           Inc == [e \in C |-> Export!Income(e)]
           Cost == [e \in C |-> Export!CashCost(e)]
           Eff == [e \in C |-> Export!EffectOf(e)]
           By == [i \in I |-> Export!EffectOf(E[i])]
           o == Export!Overview(f, Export!Current(f), chart)
<1>1. /\ C = {E[i] : i \in I} /\ IsFiniteSet(I)
      /\ \A i \in I : E[i] \in Export!Rows
      /\ \A i, j \in I : E[i].id = E[j].id => i = j
  BY CountedIs, LedgerRows
<1>2. afa \in Int /\ interest \in Int
  BY DEF Export!Stored
<1>3. /\ o.result = Export!SumOf(Inc) - (Export!SumOf(Cost) + afa + interest)
      /\ o.income = Export!SumOf(Inc)
      /\ o.advertising = Export!SumOf(Cost) + afa + interest
      /\ o.effect = {<<e.id, Export!Income(e) - Export!CashCost(e)>> : e \in C}
      /\ o.components = {<<e.id, Export!RentComponents(e)>> :
                            e \in {x \in C : x.category = "rent_collection"}}
  BY DEF Export!Overview, CountedIn
<1>4. \A e \in C : e \in Export!Rows
  BY <1>1
<1>5. IsFiniteSet(C) /\ Sum(By, I) = Sum(Eff, C)
  <2>1. \A i, j \in I : E[i] = E[j] => i = j
    BY <1>1
  <2>2. \A i \in I : By[i] \in Int /\ By[i] = Eff[E[i]]
    BY <1>1, EffectIs
  <2>3. C = {E[i] : i \in I} /\ IsFiniteSet(I)
    BY <1>1
  <2> HIDE DEF C, I, E, By, Eff
  <2> QED
    BY <2>1, <2>2, <2>3, SumRenamed
<1>6. /\ Sum(Inc, C) = Sum(Eff, C) + Sum(Cost, C)
      /\ Sum(Inc, C) \in Int /\ Sum(Eff, C) \in Int /\ Sum(Cost, C) \in Int
  <2>1. \A e \in C : Eff[e] \in Int /\ Cost[e] \in Int /\ Inc[e] \in Int /\ Inc[e] = Eff[e] + Cost[e]
    BY <1>4, EffectIs
  <2> HIDE DEF C, Eff, Cost, Inc
  <2>2. Sum(Inc, C) = Sum(Eff, C) + Sum(Cost, C)
    BY <1>5, <2>1, SumAdd
  <2> QED
    BY <1>5, <2>1, <2>2, SumType
<1>7. Export!SumOf(Inc) = Sum(Inc, C) /\ Export!SumOf(Cost) = Sum(Cost, C) /\ Export!SumOf(By) = Sum(By, I)
  <2>1. DOMAIN Inc = C /\ DOMAIN Cost = C /\ DOMAIN By = I
    OBVIOUS
  <2> HIDE DEF Inc, Cost, By, C, I
  <2> QED
    BY <2>1, ExportSums
<1>8. /\ o.result = Export!SumOf(By) - afa - interest
      /\ o.income = o.result + o.advertising
  <2> HIDE DEF o, Inc, Cost, By, Eff, C, I, afa, interest
  <2> QED
    BY <1>2, <1>3, <1>5, <1>6, <1>7
<1>9. o.effect = {<<E[i].id, Export!EffectOf(E[i])>> : i \in I}
  <2>1. \A e \in C : Export!EffectOf(e) = Export!Income(e) - Export!CashCost(e)
    BY <1>4, EffectIs
  <2> HIDE DEF o, C, I, E
  <2> QED
    BY <1>1, <1>3, <2>1
<1>10. ASSUME NEW c \in o.components
       PROVE  \E i \in I :
                 LET e == E[i] IN
                 /\ e.id = c[1]
                 /\ c[2].cold + c[2].advance + c[2].credit = e.amount /\ c[2].credit >= 0
                 /\ e.cold >= 0 => c[2].cold >= 0
                 /\ e.advance >= 0 => c[2].advance >= 0
                 /\ c[2].advance > 0 => c[2].cold = e.cold
  <2>1. PICK i \in I : c = <<E[i].id, Export!RentComponents(E[i])>>
    <3> HIDE DEF o, C, I, E
    <3> QED
      BY <1>1, <1>3, <1>10
  <2> DEFINE e == E[i]
             x == c[2].cold
             v == c[2].advance
             r == c[2].credit
             a == e.amount
             k == e.cold
             w == e.advance
  <2>2. e \in Export!Rows /\ c[1] = e.id /\ c[2] = Export!RentComponents(e)
    BY <1>1, <2>1
  <2> HIDE DEF e
  <2>3. a \in Nat /\ k \in Int /\ w \in Int
    BY <2>2 DEF Export!Rows
  <2>4. /\ x \in Int /\ v \in Int /\ r \in Int /\ x = (IF a <= k THEN a ELSE k)
        /\ v = (IF a - x <= w THEN a - x ELSE w) /\ r = a - x - v
    BY <2>2, RentIs
  <2> HIDE DEF x, v, r, a, k, w
  <2>5. /\ x + v + r = a /\ r >= 0 /\ (k >= 0 => x >= 0) /\ (w >= 0 => v >= 0)
        /\ (v > 0 => x = k)
    BY <2>3, <2>4
  <2> QED
    BY <2>2, <2>5 DEF x, v, r, a, k, w, e
<1> HIDE DEF o
<1>11. Export!OverviewAgrees(f, o)
  BY <1>8, <1>9, <1>10 DEF Export!OverviewAgrees
<1> QED
  BY <1>11 DEF o

-----------------------------------------------------------------------------
(* What an attempt finds.                                                   *)

\* What an attempt finds of its payments.
LEMMA EventFindingsAre ==
    ASSUME NEW f, NEW e, NEW chart
    PROVE  /\ \A x \in Export!EventFindings(f, e, chart) :
                 /\ x[3] = e.id /\ x[2] # "no_payment_data_in_requested_period"
                 /\ x[2] = "payment_without_date" => e.paid = Export!NoDay
           /\ e.paid = Export!NoDay =>
                 \E x \in Export!EventFindings(f, e, chart) :
                    x[1] = "rot" /\ x[2] = "payment_without_date" /\ x[3] = e.id
<1> DEFINE Fits(x) == /\ x[3] = e.id /\ x[2] # "no_payment_data_in_requested_period"
                      /\ x[2] = "payment_without_date" => e.paid = Export!NoDay
<1>1. ASSUME NEW x \in Export!EventFindings(f, e, chart)
      PROVE  Fits(x)
  <2> DEFINE undated == e.paid = Export!NoDay
             account == e.category \notin {Export!NoCategory, "rent_collection", "kaution", "nk_guthaben"}
                            /\ ~Export!HasAccount(f, e.category, chart)
             window == e.recurring /\ e.due = Export!NoDay /\ e.paid # Export!NoDay
                           /\ Export!InWindow(e.paid)
             gap == e.expected # Export!Unset /\ e.expected # e.amount
  <2>1. x[4]
    BY DEF Export!EventFindings
  <2>2. \/ x = <<"rot", "payment_without_date", e.id, undated>>
        \/ x = <<"gelb", "payment_without_category", e.id, e.category = Export!NoCategory>>
        \/ x = <<"gelb", "missing_selected_account", e.id, account>>
        \/ x = <<"gelb", "unmatched_party", e.id, e.unmatched>>
        \/ x = <<"gelb", "unresolved_year_window", e.id, window>>
        \/ x = <<"gelb", "expected_rent_gap", e.id, gap>>
        \/ x = <<"gelb", "vat_case_detected", e.id, e.vat>>
    BY DEF Export!EventFindings
  <2> HIDE DEF account, window, gap, undated
  <2>3. CASE x = <<"rot", "payment_without_date", e.id, undated>>
    <3>1. x[4] = undated /\ x[3] = e.id /\ x[2] = "payment_without_date"
      BY <2>3
    <3>2. undated
      BY <2>1, <3>1, Zenon
    <3> QED
      BY <3>1, <3>2 DEF undated
  <2>4. CASE x # <<"rot", "payment_without_date", e.id, undated>>
    <3>1. /\ x[3] = e.id
          /\ x[2] \in {"payment_without_category", "missing_selected_account", "unmatched_party",
                       "unresolved_year_window", "expected_rent_gap", "vat_case_detected"}
      BY <2>2, <2>4
    <3> QED
      BY <3>1
  <2> QED
    BY <2>3, <2>4
<1>2. ASSUME e.paid = Export!NoDay
      PROVE  \E x \in Export!EventFindings(f, e, chart) :
                x[1] = "rot" /\ x[2] = "payment_without_date" /\ x[3] = e.id
  <2> DEFINE x == <<"rot", "payment_without_date", e.id, e.paid = Export!NoDay>>
  <2>1. x[4] /\ x[1] = "rot" /\ x[2] = "payment_without_date" /\ x[3] = e.id
    BY <1>2
  <2>2. x \in Export!EventFindings(f, e, chart)
    BY <2>1 DEF Export!EventFindings
  <2> QED
    BY <2>1, <2>2
<1> QED
  BY <1>1, <1>2

\* A finding about no payment is that there is none, and each other is about one.
LEMMA FindingsAre ==
    ASSUME NEW f, NEW L, NEW interest, NEW chart, NEW numbers
    PROVE  LET found == Export!SemanticFindings(f, L, interest, chart, numbers)
           IN  /\ <<"rot", "no_payment_data_in_requested_period", 0>> \in found <=> L = {}
               /\ \A n : <<"rot", "payment_without_date", n>> \in found
                            <=> \E e \in L : e.id = n /\ e.paid = Export!NoDay
               /\ \A x \in found : x[3] = 0 \/ \E e \in L : e.id = x[3]
<1> DEFINE found == Export!SemanticFindings(f, L, interest, chart, numbers)
           all == UNION {Export!EventFindings(f, e, chart) : e \in L}
           ofEvents == {<<x[1], x[2], x[3]>> : x \in all}
           none == <<"rot", "no_payment_data_in_requested_period", 0>>
           others == found \ (ofEvents \cup {none})
<1>1. \A x \in others :
         /\ x[3] = 0
         /\ x[2] \in {"object_without_afa_record", "unconfirmed_interest_proposal",
                      "datev_without_adviser_or_client_number"}
  BY DEF Export!SemanticFindings
<1>2. ofEvents \subseteq found
  BY DEF Export!SemanticFindings
<1>3. \A x \in ofEvents : \E e \in L : \E y \in Export!EventFindings(f, e, chart) : x = <<y[1], y[2], y[3]>>
  OBVIOUS
<1>4. \A e \in L : \A y \in Export!EventFindings(f, e, chart) : <<y[1], y[2], y[3]>> \in ofEvents
  OBVIOUS
<1>5. \A x \in ofEvents : \E e \in L :
         /\ x[3] = e.id /\ x[2] # "no_payment_data_in_requested_period"
         /\ x[2] = "payment_without_date" => e.paid = Export!NoDay
  <2> SUFFICES ASSUME NEW x \in ofEvents
               PROVE  \E e \in L :
                         /\ x[3] = e.id /\ x[2] # "no_payment_data_in_requested_period"
                         /\ x[2] = "payment_without_date" => e.paid = Export!NoDay
    OBVIOUS
  <2>1. PICK e \in L : \E y \in Export!EventFindings(f, e, chart) : x = <<y[1], y[2], y[3]>>
    BY <1>3
  <2>2. PICK y \in Export!EventFindings(f, e, chart) : x = <<y[1], y[2], y[3]>>
    BY <2>1
  <2>3. x[2] = y[2] /\ x[3] = y[3]
    BY <2>2
  <2> QED
    BY <2>3, EventFindingsAre
<1>6. none \in found <=> L = {}
  <2>1. none \in found \ ofEvents => L = {}
    BY DEF Export!SemanticFindings
  <2>2. L = {} => none \in found
    BY DEF Export!SemanticFindings
  <2>3. none \notin ofEvents
    <3>1. none[2] = "no_payment_data_in_requested_period"
      OBVIOUS
    <3> HIDE DEF none, ofEvents
    <3> QED
      BY <1>5, <3>1
  <2> QED
    BY <2>1, <2>2, <2>3
<1>7. ASSUME NEW n
      PROVE  <<"rot", "payment_without_date", n>> \in found
                 <=> \E e \in L : e.id = n /\ e.paid = Export!NoDay
  <2> DEFINE x == <<"rot", "payment_without_date", n>>
  <2>1. x[2] = "payment_without_date" /\ x[3] = n /\ x # none
    OBVIOUS
  <2>2. ASSUME x \in found PROVE \E e \in L : e.id = n /\ e.paid = Export!NoDay
    <3> HIDE DEF x, found, ofEvents, none
    <3>1. x \in ofEvents
      BY <1>1, <2>1, <2>2
    <3> QED
      BY <1>5, <2>1, <3>1
  <2>3. ASSUME NEW e \in L, e.id = n, e.paid = Export!NoDay PROVE x \in found
    <3>1. PICK y \in Export!EventFindings(f, e, chart) :
             y[1] = "rot" /\ y[2] = "payment_without_date" /\ y[3] = e.id
      BY <2>3, EventFindingsAre
    <3> QED
      BY <1>2, <1>4, <2>3, <3>1
  <2> QED
    BY <2>2, <2>3
<1>8. ASSUME NEW x \in found PROVE x[3] = 0 \/ \E e \in L : e.id = x[3]
  <2>1. CASE x \in ofEvents
    <3> HIDE DEF ofEvents
    <3> QED
      BY <1>5, <2>1
  <2>2. CASE x = none
    BY <2>2
  <2>3. CASE x \in others
    <3> HIDE DEF others
    <3> QED
      BY <1>1, <2>3
  <2> QED
    BY <2>1, <2>2, <2>3
<1> QED
  BY <1>6, <1>7, <1>8

\* The payments of an attempt: of the year, or without a day.
LEMMA ReadinessLedgerIs ==
    ASSUME NEW f, Export!Stored(f)
    PROVE  LET L == Export!ReadinessLedger(f)
               S == Export!Standing(f)
           IN  /\ L = {} <=> Export!InYear(f) = {} /\ \A i \in S : f.events[i].paid # Export!NoDay
               /\ \A i \in S : f.events[i].paid = Export!NoDay
                                  <=> \E e \in L : e.id = f.events[i].id /\ e.paid = Export!NoDay
               /\ \A e \in L : \E i \in S : f.events[i].id = e.id
<1> DEFINE E == f.events
           S == Export!Standing(f)
           L == Export!ReadinessLedger(f)
           Attempted(x) == x.paid = Export!NoDay \/ Export!AssignTaxYear(x) = f.year
<1>1. /\ Export!Current(f) = {E[i] : i \in S}
      /\ \A i \in S : E[i] \in Export!Rows
      /\ \A i, j \in S : E[i].id = E[j].id => i = j
  BY CurrentIs, LedgerRows
<1>2. \A x \in Export!Rows : Export!CashFacts(x).id = x.id /\ Export!CashFacts(x).paid = x.paid
  BY DEF Export!CashFacts, Export!Rows
<1>3. L = {Export!CashFacts(E[i]) : i \in {j \in S : Attempted(E[j])}}
  BY <1>1 DEF Export!ReadinessLedger
<1>4. Export!InYear(f) = {i \in S : E[i].paid # Export!NoDay /\ Export!AssignTaxYear(E[i]) = f.year}
  BY <1>1, YearOfIs DEF Export!InYear
<1> HIDE DEF L, E, S
<1>5. L = {} <=> Export!InYear(f) = {} /\ \A i \in S : E[i].paid # Export!NoDay
  BY <1>3, <1>4
<1>6. ASSUME NEW e \in L PROVE \E i \in S : E[i].id = e.id /\ E[i].paid = e.paid
  BY <1>1, <1>2, <1>3
<1>7. ASSUME NEW i \in S, E[i].paid = Export!NoDay
      PROVE  \E e \in L : e.id = E[i].id /\ e.paid = Export!NoDay
  BY <1>1, <1>2, <1>3, <1>7
<1>8. ASSUME NEW i \in S, NEW e \in L, e.id = E[i].id, e.paid = Export!NoDay
      PROVE  E[i].paid = Export!NoDay
  BY <1>1, <1>6, <1>8
<1> QED
  BY <1>5, <1>6, <1>7, <1>8 DEF L, E, S

\* What an attempt finds of the payments is what is wrong with them.
AttemptAgrees(f, attempt) ==
    attempt.kind = "attempt" =>
        /\ attempt.blocked
        /\ Export!InYear(f) = {} /\ (\A i \in Export!Standing(f) : f.events[i].paid # Export!NoDay)
              <=> <<"rot", "no_payment_data_in_requested_period", 0>> \in attempt.findings
        /\ \A i \in Export!Standing(f) :
              f.events[i].paid = Export!NoDay
                  <=> <<"rot", "payment_without_date", f.events[i].id>> \in attempt.findings
        /\ \A x \in attempt.findings :
              x[3] = 0 \/ \E i \in Export!Standing(f) : f.events[i].id = x[3]

LEMMA AttemptIs ==
    ASSUME NEW f, Export!Stored(f)
    PROVE  AttemptAgrees(f, Export!Readiness(f))
<1> DEFINE r == Export!Readiness(f)
           L == Export!ReadinessLedger(f)
           S == Export!Standing(f)
<1> SUFFICES ASSUME r.kind = "attempt" PROVE AttemptAgrees(f, r)
  BY DEF AttemptAgrees
<1>1. /\ r.blocked
      /\ \E interest, chart, numbers :
            r.findings = Export!SemanticFindings(f, L, interest, chart, numbers)
  BY DEF Export!Readiness
<1>2. PICK interest, chart, numbers :
         r.findings = Export!SemanticFindings(f, L, interest, chart, numbers)
  BY <1>1
<1> HIDE DEF r
<1>3. /\ <<"rot", "no_payment_data_in_requested_period", 0>> \in r.findings <=> L = {}
      /\ \A n : <<"rot", "payment_without_date", n>> \in r.findings
                   <=> \E e \in L : e.id = n /\ e.paid = Export!NoDay
      /\ \A x \in r.findings : x[3] = 0 \/ \E e \in L : e.id = x[3]
  BY <1>2, FindingsAre
<1>4. /\ L = {} <=> Export!InYear(f) = {} /\ \A i \in S : f.events[i].paid # Export!NoDay
      /\ \A i \in S : f.events[i].paid = Export!NoDay
                         <=> \E e \in L : e.id = f.events[i].id /\ e.paid = Export!NoDay
      /\ \A e \in L : \E i \in S : f.events[i].id = e.id
  BY ReadinessLedgerIs
<1> HIDE DEF L, S
<1>5. AttemptAgrees(f, r)
  BY <1>1, <1>3, <1>4 DEF AttemptAgrees, S
<1> QED
  BY <1>5 DEF r

-----------------------------------------------------------------------------
(* The rows for DATEV.                                                      *)

\* Of two booked payments one comes first.
LEMMA BookedInOrder ==
    ASSUME NEW B, \A e \in B : e.paid \in Guard!Days /\ e.id \in Nat,
           \A a, b \in B : a.id = b.id => a = b
    PROVE  StrictOrder(B, {p \in B \X B : Export!BookedBefore(p[1], p[2])})
<1> DEFINE less == {p \in B \X B : Export!BookedBefore(p[1], p[2])}
           day(e) == Guard!Ordinal(e.paid)
           num(e) == e.id
<1>1. ASSUME NEW a \in B, NEW b \in B
      PROVE  <<a, b>> \in less <=> day(a) < day(b) \/ (day(a) = day(b) /\ num(a) < num(b))
  <2>1. <<a, b>> \in less <=> Export!BookedBefore(a, b)
    OBVIOUS
  <2>2. Export!BookedBefore(a, b) <=> Guard!Before(a.paid, b.paid) \/ (a.paid = b.paid /\ a.id < b.id)
    BY ExportCalendar DEF Export!BookedBefore
  <2>3. /\ Guard!Before(a.paid, b.paid) <=> day(a) < day(b)
        /\ a.paid = b.paid <=> day(a) = day(b)
    BY DaysHaveOrder
  <2> HIDE DEF less, day
  <2> QED
    BY <2>1, <2>2, <2>3
<1>2. \A a \in B : day(a) \in Int /\ num(a) \in Int
  BY DaysHaveOrder
<1>3. \A a, b \in B : num(a) = num(b) => a = b
  OBVIOUS
<1> HIDE DEF less, day, num
<1>4. \A a \in B : <<a, a>> \notin less
  BY <1>1, <1>2
<1>5. \A a, b \in B : a # b => <<a, b>> \in less \/ <<b, a>> \in less
  BY <1>1, <1>2, <1>3
<1>6. ASSUME NEW a \in B, NEW b \in B, NEW c \in B, <<a, b>> \in less, <<b, c>> \in less
      PROVE  <<a, c>> \in less
  BY <1>1, <1>2, <1>6
<1>7. StrictOrder(B, less)
  BY <1>4, <1>5, <1>6 DEF StrictOrder
<1> QED
  BY <1>7 DEF less

\* The elements before x.
Preceding(S, less, x) == {a \in S : <<a, x>> \in less}

\* An element's place in the sorted order is the number of those before it.
LEMMA PlaceIs ==
    ASSUME NEW S, IsFiniteSet(S), NEW less, StrictOrder(S, less), NEW q \in Sorted(S, less),
           NEW i \in 1 .. Cardinality(S)
    PROVE  /\ q[i] \in S /\ Cardinality(Preceding(S, less, q[i])) = i - 1
           /\ \A x \in S : Cardinality(Preceding(S, less, x)) = i - 1 => x = q[i]
<1> USE DEF Preceding
<1> DEFINE n == Cardinality(S)
           Ahead(x) == {a \in S : <<a, x>> \in less}
<1>1. /\ n \in Nat /\ q \in [1 .. n -> S]
      /\ \A k, j \in 1 .. n : k < j => <<q[k], q[j]>> \in less
  BY FS_CardinalityType DEF Sorted
<1>2. \A a \in S : <<a, a>> \notin less
  BY Zenon DEF StrictOrder
<1>3. \A x \in S : \E k \in 1 .. n : q[k] = x
  BY <1>2, SortedNamesAll DEF Lists
<1>4. \A a, b \in S : <<a, b>> \in less => <<b, a>> \notin less
  BY <1>2 DEF StrictOrder
<1> HIDE DEF n
<1>5. ASSUME NEW k \in 1 .. n PROVE Cardinality(Ahead(q[k])) = k - 1
  <2> DEFINE p == [j \in 1 .. (k - 1) |-> q[j]]
             A == Ahead(q[k])
  <2>1. \A j \in 1 .. (k - 1) : j \in 1 .. n /\ j < k
    BY <1>1
  <2>2. \A j \in 1 .. (k - 1) : q[j] \in A
    BY <1>1, <2>1
  <2>3. \A j, l \in 1 .. (k - 1) : q[j] = q[l] => j = l
    <3> SUFFICES ASSUME NEW j \in 1 .. (k - 1), NEW l \in 1 .. (k - 1), q[j] = q[l]
                 PROVE  j = l
      OBVIOUS
    <3>1. ~(j < l) /\ ~(l < j)
      BY <1>1, <1>2, <2>1
    <3> QED
      BY <3>1
  <2>4. ASSUME NEW a \in A PROVE \E j \in 1 .. (k - 1) : q[j] = a
    <3>1. PICK j \in 1 .. n : q[j] = a
      BY <1>3
    <3>2. <<q[j], q[k]>> \in less /\ q[j] \in S /\ q[k] \in S
      BY <1>1, <3>1
    <3>3. j # k /\ ~(k < j)
      BY <1>1, <1>2, <1>4, <3>2
    <3> QED
      BY <1>1, <3>1, <3>3
  <2> HIDE DEF A
  <2>5. p \in [1 .. (k - 1) -> A] /\ \A j \in 1 .. (k - 1) : p[j] = q[j]
    BY <2>2
  <2> HIDE DEF p
  <2>6. p \in Bijection(1 .. (k - 1), A)
    BY <2>3, <2>4, <2>5 DEF Bijection, Injection, Surjection, IsInjective
  <2>7. k - 1 \in Nat /\ IsFiniteSet(1 .. (k - 1)) /\ Cardinality(1 .. (k - 1)) = k - 1
    BY <1>1, FS_Interval
  <2>8. Cardinality(A) = k - 1
    BY <2>6, <2>7, FS_Bijection DEF ExistsBijection
  <2> QED
    BY <2>8 DEF A
<1>6. i \in 1 .. n
  BY DEF n
<1>7. ASSUME NEW x \in S, Cardinality(Ahead(x)) = i - 1 PROVE x = q[i]
  <2>1. PICK k \in 1 .. n : q[k] = x
    BY <1>3
  <2>2. k - 1 = i - 1
    BY <1>5, <1>7, <2>1
  <2> QED
    BY <1>1, <1>6, <2>1, <2>2
<1> QED
  BY <1>1, <1>5, <1>6, <1>7

\* The payments that have an account.
Booked(f, chart) == {e \in Export!Current(f) : Export!HasAccount(f, e.category, chart)}

\* Row k is of payment q[k], and q lists the booked payments by day and number.
ListsBooked(q, B, n) ==
    /\ \A k \in 1 .. n : q[k] \in B
    /\ \A e \in B : \E k \in 1 .. n : q[k] = e
    /\ \A k, l \in 1 .. n : k < l => Export!BookedBefore(q[k], q[l])

RowsOf(rows, q, n) ==
    /\ DOMAIN rows = 1 .. n
    /\ \A k \in 1 .. n : rows[k] = [id |-> q[k].id, euros |-> q[k].amount \div 100,
                                    cents |-> q[k].amount % 100,
                                    day |-> q[k].paid.d, month |-> q[k].paid.m]

LEMMA RowsAre ==
    ASSUME NEW f, NEW chart, LET B == Booked(f, chart) IN
              /\ IsFiniteSet(B)
              /\ \A e \in B : e.paid \in Guard!Days /\ e.paid # Export!NoDay /\ e.id \in Nat
              /\ \A a, b \in B : a.id = b.id => a = b
    PROVE  \E q, n : /\ ListsBooked(q, Booked(f, chart), n)
                     /\ RowsOf(Export!DatevRows(f, Export!Current(f), chart), q, n)
<1> DEFINE B == Booked(f, chart)
           n == Cardinality(B)
           less == {p \in B \X B : Export!BookedBefore(p[1], p[2])}
           rows == Export!DatevRows(f, Export!Current(f), chart)
           Place(x) == Export!Cardinality({o \in B : Export!BookedBefore(o, x)})
           Before(x) == Preceding(B, less, x)
           RowFor(e) == [id |-> e.id, euros |-> e.amount \div 100, cents |-> e.amount % 100,
                      day |-> e.paid.d, month |-> e.paid.m]
           At(i) == CHOOSE x \in B : Place(x) = i - 1
<1>0. /\ IsFiniteSet(B)
      /\ \A e \in B : e.paid \in Guard!Days /\ e.paid # Export!NoDay /\ e.id \in Nat
      /\ \A a, b \in B : a.id = b.id => a = b
  OBVIOUS
<1>1. rows = [i \in 1 .. n |-> RowFor(At(i))]
  <2>1. ~\E e \in B : e.paid = Export!NoDay
    OBVIOUS
  <2>2. B = {e \in Export!Current(f) : Export!HasAccount(f, e.category, chart)}
    BY DEF Booked
  <2>3. rows = IF \E e \in B : e.paid = Export!NoDay THEN <<>>
               ELSE [i \in 1 .. Export!Cardinality(B) |-> RowFor(At(i))]
    BY <2>2 DEF Export!DatevRows
  <2> HIDE DEF B, rows, RowFor, At
  <2> QED
    BY <2>1, <2>3, ExportCounts
<1>2. StrictOrder(B, less)
  <2> HIDE DEF B
  <2> QED
    BY <1>0, BookedInOrder
<1>3. PICK q : q \in Sorted(B, less)
  <2> HIDE DEF B, less
  <2> QED
    BY <1>0, <1>2, SortedExists
<1>4. \A a, b \in B : <<a, b>> \in less <=> Export!BookedBefore(a, b)
  OBVIOUS
<1>5. /\ \A k \in 1 .. n : q[k] \in B
      /\ \A e \in B : \E k \in 1 .. n : q[k] = e
      /\ \A k, l \in 1 .. n : k < l => <<q[k], q[l]>> \in less
  <2> HIDE DEF B, less
  <2>1. \A a \in B : <<a, a>> \notin less
    BY <1>2, Zenon DEF StrictOrder
  <2> QED
    BY <1>0, <1>3, <2>1, SortedNamesAll DEF Lists
<1>6. ASSUME NEW x \in B PROVE Place(x) = Cardinality(Before(x))
  <2>1. {o \in B : Export!BookedBefore(o, x)} = Before(x)
    BY DEF Preceding
  <2> HIDE DEF B, less, Before
  <2> QED
    BY <2>1, ExportCounts
<1>7. ASSUME NEW k \in 1 .. n PROVE At(k) = q[k]
  <2> HIDE DEF B, less, Place
  <2>1. /\ q[k] \in B /\ Cardinality(Before(q[k])) = k - 1
        /\ \A x \in B : Cardinality(Before(x)) = k - 1 => x = q[k]
    BY <1>0, <1>2, <1>3, PlaceIs
  <2> HIDE DEF Before, n
  <2>2. q[k] \in B /\ Place(q[k]) = k - 1 /\ \A x \in B : Place(x) = k - 1 => x = q[k]
    BY <1>6, <2>1
  <2> QED
    BY <2>2
<1>8. ListsBooked(q, B, n)
  <2> HIDE DEF B, less, n
  <2> QED
    BY <1>4, <1>5 DEF ListsBooked
<1>9. RowsOf(rows, q, n)
  <2> HIDE DEF n, B, At, rows
  <2> QED
    BY <1>1, <1>7 DEF RowsOf
<1> QED
  BY <1>8, <1>9

\* The rows of the DATEV file are the booked payments.
LEMMA DatevAgrees ==
    ASSUME NEW f, Export!Stored(f), f.kind = "datev_extf",
           ~\E e \in Booked(f, f.profile[1].chart) : e.paid = Export!NoDay
    PROVE  Export!RowsAgree(f, Export!DatevRows(f, Export!Current(f), f.profile[1].chart))
<1> DEFINE chart == f.profile[1].chart
           B == Booked(f, chart)
           S == Export!Standing(f)
           E == f.events
           rows == Export!DatevRows(f, Export!Current(f), chart)
           RowOf(r, i) == i \in S /\ E[i].id = r.id
<1>1. /\ S \subseteq DOMAIN E /\ IsFiniteSet(S)
      /\ \A i \in S : E[i] \in Export!Rows
      /\ \A i, j \in S : E[i].id = E[j].id => i = j
  BY CurrentIs, LedgerRows
<1>2. B = {E[i] : i \in {j \in S : Export!HasAccount(f, E[j].category, chart)}}
  BY CurrentIs DEF Booked
<1>3. IsFiniteSet(B)
  <2> DEFINE C == {E[i] : i \in S}
             b == [i \in S |-> E[i]]
  <2>1. b \in Surjection(S, C)
    BY DEF Surjection
  <2> HIDE DEF b
  <2>2. IsFiniteSet(C)
    <3> HIDE DEF C, S
    <3> QED
      BY <1>1, <2>1, FS_Surjection
  <2>3. B \subseteq C
    BY <1>2
  <2> HIDE DEF B, C
  <2> QED
    BY <2>2, <2>3, FS_Subset
<1>4. /\ \A e \in B : /\ e.paid \in Guard!Days /\ e.paid # Export!NoDay /\ e.id \in Nat
                      /\ e.amount \in Nat
      /\ \A a, b \in B : a.id = b.id => a = b
  <2>1. \A e \in B : e \in Export!Rows /\ e.paid # Export!NoDay
    BY <1>1, <1>2
  <2>2. \A e \in B : e.paid \in Guard!Days /\ e.id \in Nat /\ e.amount \in Nat
    BY <2>1, ExportCalendar DEF Export!Rows
  <2> HIDE DEF S, E
  <2> QED
    BY <1>1, <1>2, <2>1, <2>2
<1>5. PICK q, n : ListsBooked(q, B, n) /\ RowsOf(rows, q, n)
  <2> HIDE DEF rows, chart
  <2> QED
    BY <1>3, <1>4, RowsAre DEF rows
<1> HIDE DEF rows, B, chart
<1>6. /\ DOMAIN rows = 1 .. n
      /\ \A k \in 1 .. n : /\ q[k] \in B
                           /\ rows[k].id = q[k].id /\ rows[k].euros = q[k].amount \div 100
                           /\ rows[k].cents = q[k].amount % 100 /\ rows[k].day = q[k].paid.d
      /\ \A e \in B : \E k \in 1 .. n : q[k] = e
      /\ \A k, l \in 1 .. n : k < l => Export!BookedBefore(q[k], q[l])
  BY <1>5 DEF ListsBooked, RowsOf
<1>7. ASSUME NEW k \in 1 .. n
      PROVE  /\ \E i \in S : RowOf(rows[k], i) /\ E[i] = q[k]
             /\ \A i : RowOf(rows[k], i) => E[i] = q[k]
  <2>1. PICK i \in S : E[i] = q[k]
    BY <1>2, <1>6
  <2> QED
    BY <1>1, <1>6, <2>1
<1>8. ASSUME NEW k \in DOMAIN rows
      PROVE  \E i \in DOMAIN E : /\ RowOf(rows[k], i)
                                 /\ 100 * rows[k].euros + rows[k].cents = E[i].amount
                                 /\ E[i].paid.d = rows[k].day
  <2>1. \A a \in Nat : 100 * (a \div 100) + (a % 100) = a
    OBVIOUS
  <2>2. 100 * rows[k].euros + rows[k].cents = q[k].amount
    BY <1>4, <1>6, <2>1
  <2> QED
    BY <1>1, <1>6, <1>7, <2>2
<1>9. ASSUME NEW k \in DOMAIN rows, NEW l \in DOMAIN rows, k < l
      PROVE  /\ rows[k].id # rows[l].id
             /\ \A i, j \in DOMAIN E : RowOf(rows[k], i) /\ RowOf(rows[l], j) =>
                   ~Export!Before(E[j].paid, E[i].paid)
  <2> DEFINE a == q[k]
             b == q[l]
             x == Guard!Ordinal(a.paid)
             y == Guard!Ordinal(b.paid)
  <2>1. a \in B /\ b \in B /\ Export!BookedBefore(a, b) /\ rows[k].id = a.id /\ rows[l].id = b.id
    BY <1>6, <1>9
  <2>2. /\ x \in Int /\ y \in Int
        /\ Guard!Before(a.paid, b.paid) <=> x < y
        /\ Guard!Before(b.paid, a.paid) <=> y < x
        /\ a.paid = b.paid <=> x = y
    BY <1>4, <2>1, DaysHaveOrder
  <2>3. x < y \/ (x = y /\ a.id < b.id)
    BY <2>1, <2>2, ExportCalendar DEF Export!BookedBefore
  <2>4. a.id \in Nat /\ b.id \in Nat /\ (a.id = b.id => a = b)
    BY <1>4, <2>1
  <2> HIDE DEF x, y
  <2>5. a.id # b.id
    <3>1. a = b => x = y
      BY DEF x, y
    <3> HIDE DEF a, b
    <3> QED
      BY <2>2, <2>3, <2>4, <3>1
  <2>6. ~Export!Before(b.paid, a.paid)
    BY <2>2, <2>3, ExportCalendar
  <2> QED
    BY <1>6, <1>7, <2>1, <2>5, <2>6
<1>10. ASSUME NEW i \in S, Export!HasAccount(f, E[i].category, chart)
       PROVE  \E k \in DOMAIN rows : RowOf(rows[k], i)
  <2>1. E[i] \in B
    BY <1>2, <1>10
  <2> QED
    BY <1>6, <2>1
<1>11. Export!RowsAgree(f, rows)
  BY <1>8, <1>9, <1>10 DEF Export!RowsAgree, chart
<1> QED
  BY <1>11 DEF rows, chart

-----------------------------------------------------------------------------
(* Every export.                                                            *)

\* An archive has the year's result, and its rows if it is for DATEV.
ArchiveAgrees(f, archive) ==
    archive.kind = "archive" =>
        /\ Export!OverviewAgrees(f, archive.overview) /\ Export!RowsAgree(f, archive.rows)
        /\ archive.lines.result = archive.overview.result

LEMMA ArchiveIs ==
    ASSUME NEW f, Export!Stored(f)
    PROVE  ArchiveAgrees(f, Export!Generate(f))
<1> DEFINE r == Export!Generate(f)
           chart == IF f.profile = <<>> THEN "skr03" ELSE f.profile[1].chart
           L == Export!Current(f)
           o == Export!Overview(f, L, chart)
           rows == IF f.kind = "datev_extf" THEN Export!DatevRows(f, L, chart) ELSE <<>>
<1> SUFFICES ASSUME r.kind = "archive" PROVE ArchiveAgrees(f, r)
  BY DEF ArchiveAgrees
<1>1. /\ f.afa # <<>>
      /\ f.kind = "datev_extf" => /\ f.profile # <<>>
                                  /\ ~\E e \in Booked(f, chart) : e.paid = Export!NoDay
      /\ r = [kind |-> "archive", overview |-> o, rows |-> rows, lines |-> Export!PdfLines(o, L)]
  BY DEF Export!Generate, Booked
<1>2. Export!OverviewAgrees(f, o)
  BY <1>1, OverviewIs
<1>3. Export!RowsAgree(f, rows)
  <2>1. CASE f.kind = "datev_extf"
    <3>1. rows = Export!DatevRows(f, L, f.profile[1].chart)
      BY <1>1, <2>1
    <3>2. ~\E e \in Booked(f, f.profile[1].chart) : e.paid = Export!NoDay
      BY <1>1, <2>1
    <3> HIDE DEF rows, L
    <3> QED
      BY <2>1, <3>1, <3>2, DatevAgrees DEF L
  <2>2. CASE f.kind # "datev_extf"
    <3>1. rows = <<>> /\ DOMAIN rows = {}
      BY <2>2
    <3> HIDE DEF rows
    <3> QED
      BY <2>2, <3>1 DEF Export!RowsAgree
  <2> QED
    BY <2>1, <2>2
<1>4. Export!PdfLines(o, L).result = o.result
  BY DEF Export!PdfLines
<1> HIDE DEF o, rows, r
<1>5. ArchiveAgrees(f, r)
  BY <1>1, <1>2, <1>3, <1>4 DEF ArchiveAgrees
<1> QED
  BY <1>5 DEF r

\* A call for an export has a ledger, and its answer is the attempt and the
\* archive of that ledger.
ExportInv ==
    call.kind = "export" =>
        /\ Export!Stored(call.facts)
        /\ \/ result = NoResult
           \/ result = [kind |-> "export", attempt |-> Export!Readiness(call.facts),
                        archive |-> Export!Generate(call.facts)]

\* The calls for an export are the only ones of their kind.
LEMMA ExportCallsOnly == EnginesInit => ExportInv
<1> SUFFICES ASSUME EnginesInit, call.kind = "export"
             PROVE  Export!Stored(call.facts) /\ result = NoResult
  BY DEF ExportInv
<1>1. \A c \in SettleCalls : c.kind = "settle"
  BY DEF SettleCalls
<1>2. \A c \in SplitCalls : c.kind = "split"
  BY DEF SplitCalls
<1>3. \A c \in HeatingCalls : c.kind = "heating"
  BY DEF HeatingCalls
<1>4. \A c \in ReductionCalls : c.kind = "reduction"
  BY DEF ReductionCalls
<1>5. \A c \in DepreciationCalls : c.kind \in {"afa", "record"}
  BY DEF DepreciationCalls
<1>6. \A c \in CostCalls : c.kind = "costs"
  BY DEF CostCalls
<1>7. \A c \in AnswerCalls : c.kind = "export" => c.facts \in Ledgers
  BY DEF AnswerCalls
<1>8. call \in AnswerCalls /\ result = NoResult
  BY <1>1, <1>2, <1>3, <1>4, <1>5, <1>6 DEF EnginesInit
<1> QED
  BY <1>7, <1>8, LedgersAssumption

\* One call is answered once, by the export.
LEMMA ExportStep == ExportInv /\ [EnginesNext]_vars => ExportInv'
<1> SUFFICES ASSUME ExportInv, [EnginesNext]_vars, call.kind = "export"
             PROVE  ExportInv'
  <2>1. CASE call.kind = "export"
    BY <2>1
  <2>2. CASE call.kind # "export"
    <3> SUFFICES ASSUME [EnginesNext]_vars PROVE call' = call
      BY <2>2 DEF ExportInv
    <3> QED
      BY DEF EnginesNext, Next, vars, Settle, SplitPrincipal, AllocateCosts, BillHeating,
             DeductSection12, CalculateDepreciation, RecordTaxYear, ExportTaxYear,
             EvaluateGuard, InformRenter, InterpolateMonth, PlanPurchase, AssignStation,
             ResolveFactor
  <2> QED
    BY <2>1, <2>2
<1>1. CASE ExportTaxYear
  BY <1>1 DEF ExportTaxYear, ExportInv
<1>2. CASE UNCHANGED vars
  BY <1>2 DEF vars, ExportInv
<1>3. ASSUME EnginesNext PROVE ExportTaxYear
  BY <1>3 DEF EnginesNext, Next, Settle, SplitPrincipal, AllocateCosts, BillHeating,
              DeductSection12, CalculateDepreciation, RecordTaxYear, EvaluateGuard,
              InformRenter, InterpolateMonth, PlanPurchase, AssignStation, ResolveFactor
<1> QED
  BY <1>1, <1>2, <1>3

\* A pending call has no result.
LEMMA ExportsFollow == ExportInv => ExportsAgree
<1> SUFFICES ASSUME ExportInv, call.kind = "export", result # NoResult
             PROVE  Export!ExportAgrees(call.facts, result.attempt, result.archive)
  BY DEF ExportsAgree
<1> DEFINE f == call.facts
<1>1. /\ Export!Stored(f)
      /\ result.attempt = Export!Readiness(f) /\ result.archive = Export!Generate(f)
  BY DEF ExportInv
<1> HIDE DEF f
<1>2. AttemptAgrees(f, result.attempt) /\ ArchiveAgrees(f, result.archive)
  BY <1>1, AttemptIs, ArchiveIs
<1>3. Export!ExportAgrees(f, result.attempt, result.archive)
  BY <1>2 DEF AttemptAgrees, ArchiveAgrees, Export!ExportAgrees
<1> QED
  BY <1>3 DEF f

\* Whatever ledger is exported, the result of its year is what the payments
\* that stand and belong to the year do to it, each once; the attempt finds
\* what is wrong with them, and the DATEV rows are the booked payments, each
\* once, in the order of the days. (Code: export_engine, routers/tax.py.)
THEOREM ExportsAlwaysAgree == EnginesSpec => []ExportsAgree
  BY ExportCallsOnly, ExportStep, ExportsFollow, PTL DEF EnginesSpec
=============================================================================
