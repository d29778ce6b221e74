----------------------------- MODULE MCLottery -----------------------------
(* Lottery on slips from a pool of nine numbers, with primes, a one, runs,  *)
(* both halves and four tens; skips and windows are shorter than the code's *)
EXTENDS Lottery

Pool == <<1, 2, 3, 9, 10, 11, 22, 23, 30>>

Pick(S) == SelectSeq(Pool, LAMBDA n : \E i \in S : Pool[i] = n)

\* Some slips in ascending order, one out of order, one with a number twice, one
\* with a zero.
SomeSlips == {Pick(S) : S \in {T \in SUBSET (1 .. 9) : Cardinality(T) = 6 /\ {2, 5, 7} \subseteq T}}
             \cup {<<2, 1, 3, 9, 10, 11>>, <<2, 2, 3, 9, 10, 11>>, <<0, 2, 3, 9, 10, 11>>}

SomeResults == {[main |-> <<1, 2, 3, 9, 10, 11>>, bonus |-> 22],
                [main |-> <<2, 3, 10, 11, 22, 23>>, bonus |-> 9],
                [main |-> <<3, 9, 10, 22, 23, 30>>, bonus |-> 2]}

\* In thirtieths: whole weights, the six equal ones taken when none are given, and
\* two that leave a tenth and a thirtieth to the first position.
SomeWeights == {<<750, 600, 540, 450, 360, 300>>, <<0, 3000, 0, 0, 0, 0>>,
                <<500, 500, 500, 500, 500, 500>>,
                <<3, 2997, 0, 0, 0, 0>>, <<1, 0, 2999, 0, 0, 0>>}

\* Divisible by one more than each distance that occurs.
CommonUnit == 32760
=============================================================================
