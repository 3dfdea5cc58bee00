---------------------------- MODULE MCSettlement ----------------------------
(***************************************************************************)
(* Checks the settlement rules over every bounded input: one call of       *)
(* settle() or of split_principal() per behaviour, its result compared     *)
(* with a reference that is defined another way.                           *)
(***************************************************************************)
EXTENDS Settlement, FiniteSetsExt

CONSTANTS
    Debts,        \* receivable ids
    MaxTier,      \* largest open amount of a tier
    MaxAmount,    \* largest payment
    MaxNominal    \* largest nominal component

\* Ids are ordered, a call names finitely many debts, and money is counted in cents.
ASSUME SettlementAssumption ==
    /\ Debts \subseteq Int /\ IsFiniteSet(Debts)
    /\ MaxTier \in Nat /\ MaxAmount \in Nat /\ MaxNominal \in Nat

VARIABLES call, result

vars == <<call, result>>

NoResult == [kind |-> "pending"]

\* Debts 1 and 3 fall due together, after the booking date; debt 2 is due before.
DebtFacts == [r \in Debts |-> IF r = 2 THEN [due |-> 3, period |-> "B"]
                                       ELSE [due |-> 6, period |-> "A"]]

OpenRows == {w \in [costs : {0, 2}, interest : 0 .. 1, principal : 0 .. MaxTier,
                    status : {"open", "partial"}] : Total(w) > 0}

SettleCalls ==
    [kind : {"settle"}, amount : 1 .. MaxAmount, designated : {{}, {"A"}, {"B"}},
     row : UNION {[S -> OpenRows] : S \in SUBSET Debts}]

SplitCalls ==
    {c \in [kind : {"split"}, nominal : [1 .. 4 -> 0 .. MaxNominal],
            paid : 1 .. 4 * MaxNominal] :
        Nominal(c.nominal) > 0 /\ c.paid <= Nominal(c.nominal)}

Init == call \in SettleCalls \cup SplitCalls /\ result = NoResult

BookedOn == 5

OrderOf(c) == PayOrder(DOMAIN c.row, DebtFacts, c.designated, BookedOn)

Settle ==
    /\ result = NoResult /\ call.kind = "settle"
    /\ \E q \in Sorted(DOMAIN call.row, OrderOf(call)) :
          \E s \in Settlements(q, call.row, call.amount) :
             result' = [kind |-> "settled", credit |-> s.credit,
                        parts |-> Allocations(s, call.row)]
    /\ UNCHANGED call

SplitPrincipal ==
    /\ result = NoResult /\ call.kind = "split"
    /\ result' = IF SplitRefused(call.nominal, call.paid)
                 THEN [kind |-> "refused"]
                 ELSE [kind |-> "parts", parts |-> Split(call.nominal, call.paid)]
    /\ UNCHANGED call

Next == Settle \/ SplitPrincipal

Spec == Init /\ [][Next]_vars /\ WF_vars(Next)
-----------------------------------------------------------------------------
\* The reference order: the designated debts, and among equals the older one.
\* A debt that is due at the booking date is older than one that is not.
Named(r) == DebtFacts[r].period \in call.designated

Older(a, b) ==
    DebtFacts[a].due < DebtFacts[b].due \/ (DebtFacts[a].due = DebtFacts[b].due /\ a < b)

ServedBefore(r) ==
    {d \in DOMAIN call.row : IF Named(d) = Named(r) THEN Older(d, r) ELSE Named(d)}

\* What the debts that are served first leave for this one.
Reached(r) == call.amount - MapThenSumSet(LAMBDA d : Total(call.row[d]), ServedBefore(r))

\* The reference: a debt gets what the debts before it leave, up to its total.
Share(r) == Max({0, Min({Reached(r), Total(call.row[r])})})

(***************************************************************************)
(* settle() serves the debts strictly in the order of paragraph 366 BGB:   *)
(* each gets exactly what the debts before it leave, so no later debt      *)
(* receives a cent while an earlier one stays open, and every cent of the  *)
(* payment is either assigned or becomes renter credit. Inside one debt,   *)
(* by paragraph 367, interest is touched only when the costs are paid,     *)
(* principal only when the interest is, and the debt is settled only when  *)
(* no tier is left open.                                                   *)
(***************************************************************************)
StatutoryOrder ==
    call.kind = "settle" /\ result.kind = "settled" =>
        /\ \A r \in DOMAIN call.row :
              (IF r \in DOMAIN result.parts THEN Total(result.parts[r]) ELSE 0) = Share(r)
        /\ result.credit =
              call.amount - MapThenSumSet(LAMBDA d : Share(d), DOMAIN call.row)
        /\ \A r \in DOMAIN result.parts :
              LET part == result.parts[r]
                  left == Pay(call.row[r], part)
              IN  /\ part.interest > 0 => left.costs = 0
                  /\ part.principal > 0 => left.costs = 0 /\ left.interest = 0
                  /\ left \in Row
                  /\ left.status = "settled" <=> Total(left) = 0

\* The largest-remainder distributions of the loose cents.
Winners(c, paid) ==
    {W \in SUBSET (1 .. 4) :
        /\ Cardinality(W) = LooseCents(c, paid)
        /\ \A i \in W, j \in (1 .. 4) \ W : Remainder(c, paid)[i] >= Remainder(c, paid)[j]}

(***************************************************************************)
(* split_principal() refuses exactly the payments for which more than one  *)
(* largest-remainder distribution exists. Otherwise it loses no cent: the  *)
(* components sum to the paid principal, each is the exact share rounded   *)
(* down, or up in the one distribution there is.                           *)
(***************************************************************************)
SplitReconciles ==
    /\ call.kind = "split" /\ result.kind = "refused" => Cardinality(Winners(call.nominal, call.paid)) > 1
    /\ call.kind = "split" /\ result.kind = "parts" =>
          LET c == call.nominal
              p == result.parts
              up == {i \in 1 .. 4 : p[i] > Whole(c, call.paid)[i]}
          IN  /\ Winners(c, call.paid) = {up}
              /\ Nominal(p) = call.paid
              /\ \A i \in 1 .. 4 :
                    /\ Nominal(c) * p[i] > c[i] * call.paid - Nominal(c)
                    /\ Nominal(c) * p[i] < c[i] * call.paid + Nominal(c)

(***************************************************************************)
(* Both steps of the matching engine: settle() over the open debts, and    *)
(* split_principal() over the components of one debt.                      *)
(***************************************************************************)
PaymentsAllocated == StatutoryOrder /\ SplitReconciles
=============================================================================
