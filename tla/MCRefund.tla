------------------------------ MODULE MCRefund ------------------------------
(* Refund on a small instance: three payments, two inquiries. *)
EXTENDS Refund, TLC

Symmetry == Permutations(Tasks)
=============================================================================
