------------------------------- MODULE Cents -------------------------------
(***************************************************************************)
(* Exact money arithmetic (packages/domain: money.py). An amount is an     *)
(* integer number of cents, a share is a quotient of integers that is      *)
(* rounded once, half away from zero, and what the rounded shares leave of *)
(* the whole is one party's residual. A share is therefore never corrected *)
(* to make a sum come out, and the residual may be negative.               *)
(***************************************************************************)
EXTENDS Integers, FiniteSetsExt

\* The sum of a function's values.
SumOf(f) == MapThenSumSet(LAMBDA d : f[d], DOMAIN f)

\* ROUND_FLOOR and ROUND_CEILING of n/d, d > 0.
RoundDown(n, d) == n \div d

RoundUp(n, d) == -((-n) \div d)

\* ROUND_HALF_UP of n/d, d > 0: half a cent moves away from zero.
HalfUp(n, d) ==
    IF n >= 0 THEN (2 * n + d) \div (2 * d) ELSE -((d - 2 * n) \div (2 * d))

(***************************************************************************)
(* distribute_cents_owner_residual(): the renters' shares. The owner's     *)
(* weight is in the denominator and is no share of its own; nothing is     *)
(* allocated over a zero denominator.                                      *)
(***************************************************************************)
RenterShares(total, weight, ownerWeight) ==
    LET whole == SumOf(weight) + ownerWeight IN
    [d \in DOMAIN weight |-> IF whole = 0 THEN 0 ELSE HalfUp(total * weight[d], whole)]

OwnerResidual(total, share) == total - SumOf(share)

\* distribute_cents_half_up() over two weights: the first is rounded, the
\* second is the residual.
Portion(total, weight, other) == HalfUp(total * weight, weight + other)
=============================================================================
