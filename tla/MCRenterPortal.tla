--------------------------- MODULE MCRenterPortal ---------------------------
(* A small instance of RenterPortal for TLC.                               *)
EXTENDS RenterPortal, TLC

CONSTANTS R1, R2, T1, T2, D1, D2, D3

\* Two codes can race for the link of one renter, a code can be tried at the
\* other tenancy, and the other renter must not see the documents of T1.
Parties == {<<T1, R1>>, <<T2, R2>>}

\* Three versions of a statement of T1; any may be published first.
Archives ==
    (D1 :> [tenancy |-> T1, type |-> "TENANT_STATEMENT", publishable |-> TRUE])
    @@ (D2 :> [tenancy |-> T1, type |-> "TENANT_STATEMENT", publishable |-> TRUE])
    @@ (D3 :> [tenancy |-> T1, type |-> "TENANT_STATEMENT", publishable |-> TRUE])

\* The codes, the versions and the sessions are interchangeable.
Symmetric == Permutations(Session) \cup Permutations(Code) \cup Permutations(Source)
=============================================================================
