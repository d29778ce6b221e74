-------------------------- MODULE MCSubscription --------------------------
(* Instances of Subscription for TLC: days of two hours, noon and midnight, *)
(* months of a day, years of two; a free pass is given for a day.          *)
EXTENDS SubscriptionInvariant, TLC

OnePass == {2}
Symmetry == Permutations(Users) \cup Permutations(Tasks)
=============================================================================
