------------------------ MODULE MCStatementLifecycle ------------------------
(* Small instances of StatementLifecycle for TLC. *)
EXTENDS StatementLifecycle, TLC

CONSTANTS T1, T2, C1, C2

\* T1 owes and T2 gets back, both owe, or the inputs are incomplete.
Credit == [blocked |-> FALSE, saldo |-> (T1 :> 2) @@ (T2 :> (-1))]
Debts == [blocked |-> FALSE, saldo |-> (T1 :> 3) @@ (T2 :> 1)]
Incomplete == [blocked |-> TRUE, saldo |-> (T1 :> 0) @@ (T2 :> 0)]

\* For the races, where the inputs stay complete.
Settled == {Credit}
CreditOrNothing == {Credit, Incomplete}
CreditOrDebts == {Credit, Debts}

OneRenterEach == (T1 :> 1) @@ (T2 :> 1)
Couple == (T1 :> 1) @@ (T2 :> 2)

Symmetric == Permutations(Session)
=============================================================================
