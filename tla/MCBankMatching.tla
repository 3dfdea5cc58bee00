--------------------------- MODULE MCBankMatching ---------------------------
(***************************************************************************)
(* Small accounts for BankMatching: two renters, two debts, a handful of   *)
(* movements whose amounts, IBANs and references make the interesting      *)
(* cases happen.  Each configuration picks one table of movements.         *)
(***************************************************************************)
EXTENDS PaymentWorkspace, TLC

CONSTANTS P1, P2, P3, R1, R2,   \* movements
          A, B, C,              \* renters
          IbanA, IbanNew        \* counterpart IBANs

Sessions == Permutations(Session)

\* A rent payment of A that carries nothing but its amount.
Plain ==
    [amount |-> 1, iban |-> None, codes |-> {}, surnames |-> {}, periods |-> {},
     ids |-> {}, duplicate |-> FALSE, booked |-> 5, e2e |-> None, mandate |-> None]

Owned == {<<A, IbanA>>}

Open(costs, interest, principal) ==
    [costs |-> costs, interest |-> interest, principal |-> principal, status |-> "open"]

\* Debts 1 and 2 belong to A; the id order is not the due order.
DebtsOfA ==
    [r \in Receivable |->
        [renter |-> A, due |-> 4 - r, period |-> IF r = 1 THEN "Feb" ELSE "Jan",
         nominal |-> <<2, 1, 0, 0>>]]

\* Debt 1 belongs to A, debt 2 to B.
DebtsOfBoth ==
    [r \in Receivable |->
        [renter |-> IF r = 1 THEN A ELSE B, due |-> r, period |-> IF r = 1 THEN "Jan" ELSE "Feb",
         nominal |-> <<2, 1, 0, 0>>]]

OpeningCosts == [r \in Receivable |-> IF r = 1 THEN Open(0, 0, 3) ELSE Open(1, 0, 2)]

OpeningRent == [r \in Receivable |-> Open(0, 0, IF r = 1 THEN 3 ELSE 2)]
-----------------------------------------------------------------------------
\* Automatic matches race each other and a return of the first of them.
AutoTx ==
    [t \in Movement |->
        CASE t = P1 -> [Plain EXCEPT !.iban = IbanA, !.e2e = "e1"]
          [] t = P2 -> [Plain EXCEPT !.iban = IbanA, !.amount = 4]
          [] t = R1 -> [Plain EXCEPT !.e2e = "e1"]]

\* Two equal payments, each one cent more than the debt, and two returns
\* that name the first.
ReturnTx ==
    [t \in Movement |->
        CASE t = P1 -> [Plain EXCEPT !.amount = 4, !.iban = IbanA, !.e2e = "e1"]
          [] t = P2 -> [Plain EXCEPT !.amount = 4, !.iban = IbanA, !.e2e = "e2"]
          [] t \in {R1, R2} -> [Plain EXCEPT !.amount = 4, !.e2e = "e1"]]

\* Nothing matches by itself: an exact amount with a payment code from an IBAN
\* to be learned, a flagged duplicate that ties on the older debt, a payment
\* that names two periods, and the return of the first, found by its mandate.
ReviewTx ==
    [t \in Movement |->
        CASE t = P1 -> [Plain EXCEPT !.amount = 3, !.codes = {A}, !.iban = IbanNew,
                                     !.mandate = "m1"]
          [] t = P2 -> [Plain EXCEPT !.amount = 1, !.codes = {A}, !.duplicate = TRUE]
          [] t = P3 -> [Plain EXCEPT !.amount = 3, !.codes = {A}, !.periods = {"Feb"},
                                     !.ids = {2}]
          [] t = R1 -> [Plain EXCEPT !.amount = 3, !.e2e = "unknown", !.mandate = "m1"]]

TieDebts == [DebtsOfA EXCEPT ![2].nominal = <<1, 1, 0, 0>>]

\* A's IBAN, but the amount of B's debt.
ForeignAmountTx ==
    [t \in Movement |-> [Plain EXCEPT !.amount = 2, !.iban = IbanA]]
=============================================================================
