-------------------------- MODULE PaymentLifecycle --------------------------
(***************************************************************************)
(* What the matching service promises about one bank movement, without     *)
(* sessions, locks or amounts: a payment is proposed once, decided once    *)
(* when it needs review, booked at most once and given back at most once,  *)
(* and a return gives back one payment.  BankMatching implements it.       *)
(***************************************************************************)
CONSTANTS Payment, Return, None

VARIABLES
    stage,   \* how far each payment has come
    origin   \* the payment each return gave back

vars == <<stage, origin>>

Init ==
    /\ stage = [p \in Payment |-> "imported"]
    /\ origin = [r \in Return |-> None]

\* One run decides; an automatic match is booked in the same transaction.
Propose(p) ==
    /\ stage[p] = "imported"
    /\ \E next \in {"unmatched", "review", "booked"} : stage' = [stage EXCEPT ![p] = next]
    /\ UNCHANGED origin

\* Only a review is decided; a confirmation books.
Decide(p) ==
    /\ stage[p] = "review"
    /\ \E next \in {"booked", "rejected", "duplicate"} : stage' = [stage EXCEPT ![p] = next]
    /\ UNCHANGED origin

GiveBack(p, r) ==
    /\ stage[p] = "booked" /\ origin[r] = None
    /\ stage' = [stage EXCEPT ![p] = "returned"]
    /\ origin' = [origin EXCEPT ![r] = p]

Next ==
    \E p \in Payment : Propose(p) \/ Decide(p) \/ \E r \in Return : GiveBack(p, r)

Spec == Init /\ [][Next]_vars
=============================================================================
