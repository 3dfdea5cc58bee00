----------------------------- MODULE MCRecords -----------------------------
(***************************************************************************)
(* Values for the small components. Both banks use the same id, and their  *)
(* list reaches back one day.                                              *)
(***************************************************************************)
EXTENDS Records, TLC

Banks == [a \in {"bank_1", "bank_2"} |-> IF a = "bank_1" THEN 1 ELSE 2]

DayOfMovement == [i \in {1} |-> i]

Tables == [x \in {"U1", "A1"} |-> IF x = "U1" THEN "unit" ELSE "annual_artifact"]

Symmetric == Permutations(Session)
=============================================================================
