----------------------------- MODULE Settlement -----------------------------
(***************************************************************************)
(* The pure settlement rules of the matching engine                        *)
(* (packages/matching-engine: settlement.py, split.py): the order in which *)
(* a renter's debts are paid, the order of the tiers inside one debt, the  *)
(* remainder that becomes credit, and the largest-remainder split of the   *)
(* paid principal over its nominal components.                             *)
(*                                                                         *)
(* A debt row is [costs, interest, principal, status], all in cents.       *)
(* `principal` stands for the two columns open_cents and                   *)
(* open_principal_cents, which ck_receivable_open_components keeps equal.  *)
(*                                                                         *)
(* Loops are stated by the value of their running variable instead of by   *)
(* recursion: a sorted order is the one sequence that respects a strict    *)
(* order, and a settlement is the one assignment of the running            *)
(* `remaining` to the debts that satisfies the loop's step.                *)
(***************************************************************************)
EXTENDS Integers, FiniteSets, Sequences

Status == {"open", "partial", "settled"}

Row == [costs : Nat, interest : Nat, principal : Nat, status : Status]

Part == [costs : Nat, interest : Nat, principal : Nat]

Least(a, b) == IF a <= b THEN a ELSE b

\* All that a row, or a part of it, amounts to over the three tiers.
Total(p) == p.costs + p.interest + p.principal

\* Mutant: all that is left goes to the principal.
AssignUnbounded(row, available) ==
    LET costs    == Least(available, row.costs)
        interest == Least(available - costs, row.interest)
    IN  [costs |-> costs, interest |-> interest, principal |-> available - costs - interest]

\* Paragraph 367 BGB: costs, then interest, then principal.
Assign(row, available) ==
    LET costs    == Least(available, row.costs)
        interest == Least(available - costs, row.interest)
    IN  [costs     |-> costs,
         interest  |-> interest,
         principal |-> Least(available - costs - interest, row.principal)]

\* The projection an allocation leaves: settled only when no tier is left open.
Pay(row, part) ==
    [costs     |-> row.costs - part.costs,
     interest  |-> row.interest - part.interest,
     principal |-> row.principal - part.principal,
     status    |-> IF Total(part) = Total(row) THEN "settled" ELSE "partial"]

\* The orders of S that respect the strict order `less`, a set of pairs.
Sorted(S, less) ==
    {q \in [1 .. Cardinality(S) -> S] :
        \A i, j \in 1 .. Cardinality(S) : i < j => <<q[i], q[j]>> \in less}

\* Mutant: the debtor's designation is ignored.
PaidByAge(debt, designated, booked, a, b) ==
    debt[a].due < debt[b].due \/ (debt[a].due = debt[b].due /\ a < b)

(***************************************************************************)
(* Paragraph 366 BGB: the debts of the designated periods first, then the  *)
(* debts due at the booking date before those not due, then the older due  *)
(* date, then the id.  `debt` gives every row's due date and period.       *)
(***************************************************************************)
PaidFirst(debt, designated, booked, a, b) ==
    LET rank(r) == <<IF debt[r].period \in designated THEN 0 ELSE 1,
                     IF debt[r].due <= booked THEN 0 ELSE 1,
                     debt[r].due,
                     r>>
    IN  \E k \in 1 .. 4 : /\ rank(a)[k] < rank(b)[k]
                          /\ \A j \in 1 .. k - 1 : rank(a)[j] = rank(b)[j]

PayOrder(S, debt, designated, booked) ==
    {p \in S \X S : PaidFirst(debt, designated, booked, p[1], p[2])}

(***************************************************************************)
(* settle(): `avail[r]` is the loop's `remaining` when the debt r is       *)
(* reached, `credit` what is left at the end.  Exactly one element.        *)
(***************************************************************************)
Settlements(q, row, amount) ==
    LET n       == Len(q)
        rest(a, i) == a[q[i]] - Least(a[q[i]], Total(row[q[i]]))
    IN  {s \in [avail : [{q[i] : i \in 1 .. n} -> 0 .. amount],
                credit : 0 .. amount] :
            /\ n > 0 => s.avail[q[1]] = amount
            /\ \A i \in 1 .. n - 1 : s.avail[q[i + 1]] = rest(s.avail, i)
            /\ s.credit = IF n = 0 THEN amount ELSE rest(s.avail, n)}

\* The allocations of a settlement: a debt that receives nothing gets no row.
Allocations(s, row) ==
    [r \in {d \in DOMAIN s.avail : Total(Assign(row[d], s.avail[d])) > 0} |->
        Assign(row[r], s.avail[r])]

(***************************************************************************)
(* split_principal(): the nominal components (base rent, NK advance,       *)
(* heating advance, garage) share a partial payment in proportion; the     *)
(* cents the floor leaves go to the largest remainders.  A tie at the      *)
(* boundary has no convention: the engine refuses (TieBreakUnspecified).   *)
(***************************************************************************)
Nominal(c) == c[1] + c[2] + c[3] + c[4]

Whole(c, paid) == [i \in 1 .. 4 |-> (c[i] * paid) \div Nominal(c)]

Remainder(c, paid) == [i \in 1 .. 4 |-> (c[i] * paid) % Nominal(c)]

\* The cents the floors leave undistributed.
LooseCents(c, paid) == paid - Nominal(Whole(c, paid))

SplitRefused(c, paid) ==
    LET loose == LooseCents(c, paid)
        rem   == Remainder(c, paid)
    IN  /\ loose > 0
        /\ \E i \in 1 .. 4 :
              /\ Cardinality({j \in 1 .. 4 : rem[j] > rem[i]}) < loose
              /\ Cardinality({j \in 1 .. 4 : rem[j] >= rem[i]}) > loose

\* Defined where the engine does not refuse.
Split(c, paid) ==
    LET rem == Remainder(c, paid)
    IN  [i \in 1 .. 4 |->
            Whole(c, paid)[i] +
            IF Cardinality({j \in 1 .. 4 : rem[j] >= rem[i]}) <= LooseCents(c, paid)
            THEN 1 ELSE 0]
=============================================================================
