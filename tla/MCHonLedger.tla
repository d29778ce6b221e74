---------------------------- MODULE MCHonLedger ----------------------------
(* Instances of HonLedger for TLC: small amounts, small sets of users. *)
EXTENDS HonInvariant, TLC

GiveAndTake == {2, -2}
DailySettings == {[type |-> "RESET", amount |-> 2], [type |-> "ADD", amount |-> 1]}
TakingSettings == DailySettings \cup {[type |-> "ADD", amount |-> -1], [type |-> "RESET", amount |-> -1]}
Symmetry == Permutations(Users) \cup Permutations(Tasks)
=============================================================================
