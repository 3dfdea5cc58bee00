------------------------- MODULE StatementRegister -------------------------
(***************************************************************************)
(* What finalisation and hand-off promise for one building and one billing *)
(* period: versions are issued one after the other and never change, and a *)
(* tenancy is charged for the period at most once, with the cents of one   *)
(* issued version.                                                         *)
(***************************************************************************)
EXTENDS Integers, Sequences

CONSTANTS
    Tenancy,     \* tenancies of the building
    Settlement   \* possible settlements: what each tenancy owes (+) or gets (-)

VARIABLES
    issued,      \* the settlements of versions 1, 2, ... in order
    charged      \* the version each tenancy was charged by, 0 for none

vars == <<issued, charged>>

Init ==
    /\ issued = <<>>
    /\ charged = [t \in Tenancy |-> 0]

\* Version n + 1 is issued; the versions before it stay as they are.
Issue(settlement) ==
    /\ issued' = Append(issued, settlement)
    /\ UNCHANGED charged

\* Every tenancy that owes under one version is charged by it, together.
Charge(v) ==
    LET debtors == {t \in Tenancy : issued[v][t] > 0} IN
    /\ debtors # {}
    /\ \A t \in debtors : charged[t] = 0
    /\ charged' = [t \in Tenancy |-> IF t \in debtors THEN v ELSE charged[t]]
    /\ UNCHANGED issued

Next ==
    \/ \E settlement \in Settlement : Issue(settlement)
    \/ \E v \in DOMAIN issued : Charge(v)

Spec == Init /\ [][Next]_vars
=============================================================================
