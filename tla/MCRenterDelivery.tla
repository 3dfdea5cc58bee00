-------------------------- MODULE MCRenterDelivery --------------------------
(* A small instance of RenterDelivery for TLC.                             *)
EXTENDS RenterDelivery, TLC

CONSTANTS A1, R1, R2, X

\* A couple with one e-mail address.
Couple == (A1 :> {R1, R2})

SharedAddress == (R1 :> X) @@ (R2 :> X)

Symmetric == Permutations(Session)
=============================================================================
