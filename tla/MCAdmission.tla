----------------------------- MODULE MCAdmission ------------------------------
(* A tenant with two environments. *)
EXTENDS Admission

Pair == {"blue", "green"}
PairRank == [n \in Pair |-> IF n = "blue" THEN 1 ELSE 2]
=============================================================================
