----------------------------- MODULE MCPayment -----------------------------
(* Payment on a small instance: one one-off payment and one subscription. *)
EXTENDS PaymentInvariant, TLC

\* The request slots are interchangeable.
Slots == Permutations(Requests)
=============================================================================
