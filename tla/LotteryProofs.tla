--------------------------- MODULE LotteryProofs ---------------------------
(***************************************************************************)
(* What is proved about Lottery, for all slips, draws, weights, windows    *)
(* and bounds its assumption allows: the ranks, the scores, the status of  *)
(* a ball and the features of an analysis.                                 *)
(***************************************************************************)
EXTENDS Lottery, FiniteSetTheorems, WellFoundedInduction, SequenceTheorems, TLAPS

Stored == [episode : Nat \ {0}, main : [Places -> Numbers \ {0}], bonus : Numbers \ {0}]

TypeOK == draws \in Seq(Stored) /\ slip \in Slips

\* Newest first, and the further down the longer ago.
NewestFirst ==
  \A i, j \in DOMAIN draws : i <= j => draws[j].episode + (j - i) <= draws[i].episode

IInv == TypeOK /\ NewestFirst /\ \A i \in DOMAIN draws : Distinct(draws[i].main)

LEMMA IInvInit == Init => IInv
<1> SUFFICES ASSUME Init PROVE IInv
  OBVIOUS
<1>1. draws = <<>> /\ slip \in Slips
  BY DEF Init
<1>2. draws \in Seq(Stored) /\ DOMAIN draws = {}
  BY <1>1
<1> QED
  BY <1>1, <1>2 DEF IInv, TypeOK, NewestFirst

LEMMA DrawKeeps == IInv /\ Draw => IInv'
<1> SUFFICES ASSUME IInv, Draw PROVE IInv'
  OBVIOUS
<1>1. PICK r \in Results, e \in {Newest + 1, Newest + 2} :
        draws' = <<[episode |-> e, main |-> r.main, bonus |-> r.bonus]>> \o draws
  BY DEF Draw
<1>2. slip' = slip
  BY DEF Draw
<1>3. draws \in Seq(Stored) /\ slip \in Slips
  BY DEF IInv, TypeOK
<1> DEFINE new == [episode |-> e, main |-> r.main, bonus |-> r.bonus]
<1>4. Newest \in Nat /\ \A i \in DOMAIN draws : draws[i].episode + (i - 1) <= Newest
  <2>1. CASE draws = <<>>
    BY <2>1 DEF Newest
  <2>2. CASE draws # <<>>
    <3>1. 1 \in DOMAIN draws /\ DOMAIN draws \subseteq Nat \ {0}
      BY <1>3, <2>2
    <3>2. draws[1] \in Stored
      BY <1>3, <3>1
    <3>3. Newest = draws[1].episode /\ Newest \in Nat
      BY <2>2, <3>2 DEF Newest, Stored
    <3>4. \A i \in DOMAIN draws : draws[i].episode + (i - 1) <= draws[1].episode
      BY <3>1 DEF IInv, NewestFirst
    <3> QED
      BY <3>3, <3>4
  <2> QED
    BY <2>1, <2>2
<1>5. new \in Stored /\ Distinct(new.main) /\ new.episode > Newest
  <2>1. r.main \in [Places -> Numbers \ {0}] /\ Distinct(r.main) /\ r.bonus \in Numbers \ {0}
    BY LotteryAssumption
  <2>2. e \in Nat \ {0} /\ e > Newest
    BY <1>4
  <2> QED
    BY <2>1, <2>2 DEF Stored
<1> HIDE DEF new
<1>6. /\ draws' \in Seq(Stored) /\ Len(draws') = 1 + Len(draws)
      /\ \A i \in DOMAIN draws' : draws'[i] = IF i = 1 THEN new ELSE draws[i - 1]
  <2>1. <<new>> \in Seq(Stored) /\ Len(<<new>>) = 1 /\ <<new>>[1] = new
    BY <1>5
  <2>2. draws' = <<new>> \o draws
    BY <1>1 DEF new
  <2> QED
    BY <1>3, <2>1, <2>2
<1>7. ASSUME NEW i \in DOMAIN draws', i # 1
      PROVE  i \in Nat /\ i - 1 \in DOMAIN draws /\ draws'[i] = draws[i - 1]
  BY <1>3, <1>6, <1>7
<1>8. ASSUME NEW i \in DOMAIN draws', NEW j \in DOMAIN draws', i <= j
      PROVE  draws'[j].episode + (j - i) <= draws'[i].episode
  <2>0. i \in Nat \ {0} /\ j \in Nat \ {0} /\ draws'[i] \in Stored /\ draws'[j] \in Stored
    BY <1>6
  <2>1. CASE j = 1
    BY <1>8, <2>0, <2>1 DEF Stored
  <2>2. CASE i = 1 /\ j # 1
    <3>1. j - 1 \in DOMAIN draws /\ draws'[j] = draws[j - 1] /\ draws'[i] = new
      BY <1>6, <1>7, <2>2
    <3>2. draws[j - 1].episode + ((j - 1) - 1) <= Newest
      BY <1>4, <3>1
    <3> QED
      BY <1>4, <1>5, <2>0, <2>2, <3>1, <3>2 DEF Stored
  <2>3. CASE i # 1
    <3>1. j # 1
      BY <1>8, <2>0, <2>3
    <3>2. /\ i - 1 \in DOMAIN draws /\ j - 1 \in DOMAIN draws
          /\ draws'[j] = draws[j - 1] /\ draws'[i] = draws[i - 1]
      BY <1>7, <2>3, <3>1
    <3>3. i - 1 <= j - 1 /\ (j - 1) - (i - 1) = j - i
      BY <1>8, <2>0
    <3> QED
      BY <3>2, <3>3 DEF IInv, NewestFirst
  <2> QED
    BY <2>1, <2>2, <2>3
<1>9. \A i \in DOMAIN draws' : Distinct(draws'[i].main)
  BY <1>5, <1>6, <1>7 DEF IInv
<1> QED
  BY <1>2, <1>3, <1>6, <1>8, <1>9 DEF IInv, TypeOK, NewestFirst

\* What is true between any two steps.
THEOREM Invariance == Spec => []IInv
<1>1. IInv /\ [Next]_vars => IInv'
  <2>1. IInv /\ UNCHANGED vars => IInv'
    BY DEF IInv, TypeOK, NewestFirst, vars
  <2> QED
    BY <2>1, DrawKeeps DEF Next
<1> QED
  BY <1>1, IInvInit, PTL DEF Spec

-----------------------------------------------------------------------------
(* The reliability.                                                        *)

LEMMA Quotient ==
  \A a \in Nat, b \in Nat \ {0} :
    a \div b \in Nat /\ (a \div b) * b <= a /\ a < (a \div b) * b + b
OBVIOUS

\* The further off, the less of a weight is left: all of it at no distance, no more
\* than half of it at any.
LEMMA ShareOf ==
  ASSUME NEW w \in Nat, NEW d \in Nat
  PROVE  /\ Share(w, d) \in 0 .. w * Unit
         /\ d = 0 \/ w = 0 => Share(w, d) = w * Unit
         /\ d > 0 => 2 * Share(w, d) <= w * Unit
<1> DEFINE a == w * Unit
<1>1. a \in Nat
  BY LotteryAssumption
<1> HIDE DEF a
<1> DEFINE q == a \div (1 + d)
<1>2. q \in Nat /\ q * (1 + d) <= a /\ a < q * (1 + d) + (1 + d)
  <2>1. 1 + d \in Nat \ {0}
    OBVIOUS
  <2> QED
    BY <1>1, <2>1, Quotient
<1>3. Share(w, d) = q
  BY DEF Share, a
<1> HIDE DEF q
<1>4. q <= q * (1 + d)
  BY <1>2
<1>5. d = 0 => q = a
  BY <1>1, <1>2
<1>6. w = 0 => a = 0
  BY LotteryAssumption DEF a
<1>7. w = 0 => q = a
  BY <1>1, <1>2, <1>4, <1>6
<1>8. d > 0 => 2 * q <= q * (1 + d)
  BY <1>2
<1> QED
  BY <1>1, <1>2, <1>3, <1>4, <1>5, <1>7, <1>8 DEF a

LEMMA ShareFalls ==
  ASSUME NEW w \in Nat, NEW d \in Nat, NEW e \in Nat, d <= e
  PROVE  Share(w, e) <= Share(w, d)
<1> DEFINE a == w * Unit
<1>1. a \in Nat
  BY LotteryAssumption
<1> HIDE DEF a
<1> DEFINE p == a \div (1 + d)
           q == a \div (1 + e)
<1>2. p \in Nat /\ a < p * (1 + d) + (1 + d)
  <2>1. 1 + d \in Nat \ {0}
    OBVIOUS
  <2> QED
    BY <1>1, <2>1, Quotient
<1>3. q \in Nat /\ q * (1 + e) <= a
  <2>1. 1 + e \in Nat \ {0}
    OBVIOUS
  <2> QED
    BY <1>1, <2>1, Quotient
<1>4. Share(w, d) = p /\ Share(w, e) = q
  BY DEF Share, a
<1> HIDE DEF p, q
<1>5. SUFFICES ASSUME q >= p + 1 PROVE FALSE
  BY <1>2, <1>3, <1>4
<1>6. q * (1 + d) <= q * (1 + e)
  BY <1>3
<1>7. (p + 1) * (1 + d) <= q * (1 + d)
  BY <1>2, <1>3, <1>5
<1>8. (p + 1) * (1 + d) = p * (1 + d) + (1 + d)
  BY <1>2
<1> QED
  BY <1>1, <1>2, <1>3, <1>6, <1>7, <1>8

\* A point of the reliability, counted in parts of a weight and of a share.
One == Scale * Unit

LEMMA OneIs == Scale \in Nat \ {0} /\ Unit \in Nat \ {0} /\ One \in Nat \ {0}
<1>1. Scale \in Nat \ {0} /\ Unit \in Nat \ {0}
  BY LotteryAssumption
<1> QED
  BY <1>1 DEF One

\* Rounding to tenths of a point.
Rounded(score) == (20 * score + One) \div (2 * One)

LEMMA Rounding ==
  ASSUME NEW score \in Nat
  PROVE  /\ Rounded(score) \in Nat
         /\ score <= 100 * One => Rounded(score) <= 1000
         /\ 20 * score >= 1999 * One <=> Rounded(score) >= 1000
<1>1. PICK one \in Nat \ {0} : one = One
  BY OneIs
<1> DEFINE a == 20 * score + one
           q == a \div (2 * one)
<1>2. q \in Nat /\ q * (2 * one) <= a /\ a < q * (2 * one) + 2 * one
  <2>1. a \in Nat /\ 2 * one \in Nat \ {0}
    BY <1>1
  <2> HIDE DEF a
  <2> QED
    BY <2>1, Quotient
<1>3. Rounded(score) = q
  BY <1>1 DEF Rounded
<1> HIDE DEF q
<1>4. ASSUME q >= 1001 PROVE score > 100 * one
  <2>1. 1001 * (2 * one) <= q * (2 * one)
    BY <1>1, <1>2, <1>4
  <2> QED
    BY <1>1, <1>2, <2>1
<1>5. ASSUME q <= 999 PROVE 20 * score < 1999 * one
  <2>1. q * (2 * one) <= 999 * (2 * one)
    BY <1>1, <1>2, <1>5
  <2> QED
    BY <1>1, <1>2, <2>1
<1>6. ASSUME q >= 1000 PROVE 20 * score >= 1999 * one
  <2>1. 1000 * (2 * one) <= q * (2 * one)
    BY <1>1, <1>2, <1>6
  <2> QED
    BY <1>1, <1>2, <2>1
<1> QED
  BY <1>1, <1>2, <1>3, <1>4, <1>5, <1>6

LEMMA RoundingRises ==
  ASSUME NEW score \in Nat, NEW more \in Nat, score <= more
  PROVE  Rounded(score) <= Rounded(more)
<1>1. PICK one \in Nat \ {0} : one = One
  BY OneIs
<1> DEFINE p == (20 * score + one) \div (2 * one)
           q == (20 * more + one) \div (2 * one)
<1>2. 20 * score + one \in Nat /\ 20 * more + one \in Nat /\ 2 * one \in Nat \ {0}
  BY <1>1
<1>3. p \in Nat /\ p * (2 * one) <= 20 * score + one
  BY <1>2, Quotient
<1>4. q \in Nat /\ 20 * more + one < q * (2 * one) + 2 * one
  BY <1>2, Quotient
<1>5. Rounded(score) = p /\ Rounded(more) = q
  BY <1>1 DEF Rounded
<1> HIDE DEF p, q
<1>6. SUFFICES ASSUME p >= q + 1 PROVE FALSE
  BY <1>3, <1>4, <1>5
<1>7. (q + 1) * (2 * one) <= p * (2 * one)
  BY <1>1, <1>3, <1>4, <1>6
<1>8. (q + 1) * (2 * one) = q * (2 * one) + 2 * one
  BY <1>1, <1>4
<1> QED
  BY <1>1, <1>3, <1>4, <1>7, <1>8

LEMMA DistanceOf == \A m, n \in Nat : Distance(m, n) \in Nat /\ (Distance(m, n) = 0 <=> m = n)
BY DEF Distance

Shares(w, off) == [k \in Places |-> Share(w[k], off[k])]

\* A hundred is what the weights add up to; a position that is off loses half of its
\* weight or more, and no more than all of it.
LEMMA Score ==
  ASSUME NEW w, IsWeights(w), NEW off \in [Places -> Nat]
  PROVE  LET score == Total(Shares(w, off)) IN
         /\ score \in Nat /\ score <= 100 * One
         /\ Astray(w, off) \in Nat
         /\ score + Astray(w, off) * Unit >= 100 * One
         /\ 2 * score + Astray(w, off) * Unit <= 200 * One
<1>1. \A k \in {1, 2, 3, 4, 5, 6} : w[k] \in Nat /\ off[k] \in Nat
  BY DEF IsWeights, Places
<1>2. w[1] + w[2] + w[3] + w[4] + w[5] + w[6] = 100 * Scale
  BY DEF IsWeights, Total
<1>3. PICK unit \in Nat \ {0}, scale \in Nat \ {0} : unit = Unit /\ scale = Scale
  BY OneIs
<1> DEFINE u == [k \in {1, 2, 3, 4, 5, 6} |-> w[k] * unit]
           h == [k \in {1, 2, 3, 4, 5, 6} |-> Share(w[k], off[k])]
           b == [k \in {1, 2, 3, 4, 5, 6} |-> IF off[k] = 0 THEN 0 ELSE w[k]]
           c == [k \in {1, 2, 3, 4, 5, 6} |-> b[k] * unit]
<1>4. ASSUME NEW k \in {1, 2, 3, 4, 5, 6}
      PROVE  /\ u[k] \in Nat /\ h[k] \in Nat /\ h[k] <= u[k]
             /\ b[k] \in Nat /\ c[k] \in Nat
             /\ h[k] + c[k] >= u[k] /\ 2 * h[k] + c[k] <= 2 * u[k]
  <2>1. w[k] \in Nat /\ off[k] \in Nat
    BY <1>1
  <2>2. w[k] * unit \in Nat /\ 0 * unit = 0
    BY <2>1, <1>3
  <2>3. /\ Share(w[k], off[k]) \in 0 .. w[k] * unit
        /\ off[k] = 0 \/ w[k] = 0 => Share(w[k], off[k]) = w[k] * unit
        /\ off[k] > 0 => 2 * Share(w[k], off[k]) <= w[k] * unit
    BY <1>3, <2>1, ShareOf
  <2>4. CASE off[k] = 0
    BY <2>1, <2>2, <2>3, <2>4
  <2>5. CASE off[k] > 0
    BY <2>1, <2>2, <2>3, <2>5
  <2> QED
    BY <2>1, <2>4, <2>5
<1>5. u[1] + u[2] + u[3] + u[4] + u[5] + u[6] = 100 * One
  <2>1. u[1] + u[2] + u[3] + u[4] + u[5] + u[6] = (w[1] + w[2] + w[3] + w[4] + w[5] + w[6]) * unit
    BY <1>1, <1>3
  <2>2. (100 * scale) * unit = 100 * (scale * unit)
    BY <1>3
  <2> QED
    BY <1>2, <1>3, <2>1, <2>2 DEF One
<1>6. Total(Shares(w, off)) = h[1] + h[2] + h[3] + h[4] + h[5] + h[6]
  BY DEF Total, Shares, Places
<1>7. Astray(w, off) = b[1] + b[2] + b[3] + b[4] + b[5] + b[6]
  BY DEF Total, Astray, Places
<1>8. (b[1] + b[2] + b[3] + b[4] + b[5] + b[6]) * unit = c[1] + c[2] + c[3] + c[4] + c[5] + c[6]
  <2>0. \A k \in {1, 2, 3, 4, 5, 6} : b[k] \in Nat /\ c[k] = b[k] * unit
    BY <1>4
  <2> HIDE DEF b, c
  <2>1. PICK x1, x2, x3, x4, x5, x6 \in Nat :
          x1 = b[1] /\ x2 = b[2] /\ x3 = b[3] /\ x4 = b[4] /\ x5 = b[5] /\ x6 = b[6]
    BY <2>0
  <2>2. /\ c[1] = x1 * unit /\ c[2] = x2 * unit /\ c[3] = x3 * unit
        /\ c[4] = x4 * unit /\ c[5] = x5 * unit /\ c[6] = x6 * unit
    BY <2>0, <2>1
  <2>3. (x1 + x2 + x3 + x4 + x5 + x6) * unit
          = x1 * unit + x2 * unit + x3 * unit + x4 * unit + x5 * unit + x6 * unit
    BY <1>3
  <2> QED
    BY <2>1, <2>2, <2>3
<1> HIDE DEF u, h, b, c
<1>9. PICK one \in Nat : one = One
  BY OneIs
<1>10. Astray(w, off) \in Nat
  BY <1>4, <1>7
<1>11. Total(Shares(w, off)) \in Nat /\ Total(Shares(w, off)) <= 100 * one
  BY <1>4, <1>5, <1>6, <1>9
<1>12. Astray(w, off) * unit = c[1] + c[2] + c[3] + c[4] + c[5] + c[6]
  BY <1>7, <1>8
<1>13. /\ Total(Shares(w, off)) + Astray(w, off) * unit >= 100 * one
       /\ 2 * Total(Shares(w, off)) + Astray(w, off) * unit <= 200 * one
  <2>1. PICK t, a : t = Total(Shares(w, off)) /\ a = Astray(w, off) * unit
    OBVIOUS
  <2>2. t = h[1] + h[2] + h[3] + h[4] + h[5] + h[6]
    BY <1>6, <2>1
  <2>3. a = c[1] + c[2] + c[3] + c[4] + c[5] + c[6]
    BY <1>12, <2>1
  <2>4. t + a >= 100 * one /\ 2 * t + a <= 200 * one
    BY <1>4, <1>5, <1>9, <2>2, <2>3
  <2> QED
    BY <2>1, <2>4
<1> QED
  BY <1>3, <1>9, <1>10, <1>11, <1>13

LEMMA ScoreFalls ==
  ASSUME NEW w, IsWeights(w), NEW off \in [Places -> Nat], NEW more \in [Places -> Nat],
         \A k \in Places : off[k] <= more[k]
  PROVE  Total(Shares(w, more)) <= Total(Shares(w, off))
<1>1. ASSUME NEW k \in {1, 2, 3, 4, 5, 6}
      PROVE  /\ Share(w[k], more[k]) \in Nat /\ Share(w[k], off[k]) \in Nat
             /\ Share(w[k], more[k]) <= Share(w[k], off[k])
  <2>1. w[k] \in Nat /\ off[k] \in Nat /\ more[k] \in Nat /\ off[k] <= more[k]
    BY DEF IsWeights, Places
  <2>2. Unit \in Nat
    BY LotteryAssumption
  <2>3. w[k] * Unit \in Nat
    BY <2>1, <2>2
  <2>4. Share(w[k], more[k]) \in 0 .. w[k] * Unit /\ Share(w[k], off[k]) \in 0 .. w[k] * Unit
    BY <2>1, ShareOf
  <2>5. Share(w[k], more[k]) <= Share(w[k], off[k])
    BY <2>1, ShareFalls
  <2> QED
    BY <2>3, <2>4, <2>5
<1>2. /\ Total(Shares(w, off)) = Share(w[1], off[1]) + Share(w[2], off[2]) + Share(w[3], off[3])
                                 + Share(w[4], off[4]) + Share(w[5], off[5]) + Share(w[6], off[6])
      /\ Total(Shares(w, more)) = Share(w[1], more[1]) + Share(w[2], more[2]) + Share(w[3], more[3])
                                  + Share(w[4], more[4]) + Share(w[5], more[5]) + Share(w[6], more[6])
  BY DEF Total, Shares, Places
<1> QED
  BY <1>1, <1>2

LEMMA OffType ==
  ASSUME NEW s \in Slips, NEW d \in Stored
  PROVE  Off(s, d) \in [Places -> Nat]
<1>1. s \in [Places -> Numbers] /\ d.main \in [Places -> Numbers]
  BY LotteryAssumption DEF Stored
<1>2. \A k \in Places : s[k] \in Nat /\ d.main[k] \in Nat
  BY <1>1 DEF Numbers
<1> QED
  BY <1>2, DistanceOf DEF Off

LEMMA ReliabilityIs ==
  ASSUME NEW s, NEW d, NEW w
  PROVE  Reliability(s, d, w) = IF IsNonZero(s) THEN Rounded(Total(Shares(w, Off(s, d)))) ELSE -10
<1>1. [i \in Places |-> Share(w[i], Distance(d.main[i], s[i]))] = Shares(w, Off(s, d))
  BY DEF Shares, Off
<1> QED
  BY <1>1 DEF Reliability, Rounded, One

LEMMA ScoresHold == IInv => ScoreInRange
<1> SUFFICES ASSUME IInv, draws # <<>>, NEW w \in WeightSets
             PROVE  LET d == draws[1]
                        r == Reliability(slip, d, w)
                        lost == Astray(w, Off(slip, d))
                    IN /\ IF IsNonZero(slip) THEN r \in 0 .. 1000 ELSE r = -10
                       /\ IsNonZero(slip) /\ 20 * lost <= Scale => r = 1000
                       /\ r = 1000 => 10 * lost <= Scale
                       /\ \A s \in Slips :
                            /\ IsNonZero(slip)
                            /\ \A k \in Places : Off(slip, d)[k] <= Off(s, d)[k]
                            => r >= Reliability(s, d, w)
  BY DEF ScoreInRange
<1>1. PICK d \in Stored : d = draws[1]
  <2>1. draws \in Seq(Stored)
    BY DEF IInv, TypeOK
  <2> QED
    BY <2>1
<1>2. slip \in Slips
  BY DEF IInv, TypeOK
<1>3. PICK s0 \in Slips : s0 = slip
  BY <1>2
<1>4. IsWeights(w)
  BY LotteryAssumption
<1> DEFINE sum(s) == Total(Shares(w, Off(s, d)))
<1>5. ASSUME NEW s \in Slips
      PROVE  /\ Off(s, d) \in [Places -> Nat]
             /\ Rounded(sum(s)) \in 0 .. 1000
             /\ 20 * Astray(w, Off(s, d)) <= Scale => Rounded(sum(s)) = 1000
             /\ Rounded(sum(s)) = 1000 => 10 * Astray(w, Off(s, d)) <= Scale
             /\ sum(s) \in Nat
  <2>1. PICK off \in [Places -> Nat] : off = Off(s, d)
    BY OffType
  <2>2. PICK t : t = Total(Shares(w, off))
    OBVIOUS
  <2>3. PICK n, one, unit, scale \in Nat :
          /\ n = Astray(w, off) /\ one = One /\ unit = Unit /\ scale = Scale
          /\ t \in Nat /\ t <= 100 * one /\ one = scale * unit /\ unit > 0
          /\ t + n * unit >= 100 * one /\ 2 * t + n * unit <= 200 * one
    <3>1. /\ t \in Nat /\ t <= 100 * One /\ Astray(w, off) \in Nat
          /\ t + Astray(w, off) * Unit >= 100 * One /\ 2 * t + Astray(w, off) * Unit <= 200 * One
      BY <1>4, <2>2, Score
    <3>2. Unit \in Nat /\ Scale \in Nat /\ One \in Nat /\ One = Scale * Unit /\ Unit > 0
      BY OneIs DEF One
    <3> QED
      BY <3>1, <3>2
  <2>4. PICK q : q = Rounded(t)
    OBVIOUS
  <2>5. q \in Nat /\ q <= 1000 /\ (20 * t >= 1999 * one <=> q >= 1000)
    <3>1. /\ Rounded(t) \in Nat
          /\ t <= 100 * One => Rounded(t) <= 1000
          /\ 20 * t >= 1999 * One <=> Rounded(t) >= 1000
      BY <2>3, Rounding
    <3> QED
      BY <2>3, <2>4, <3>1
  <2>6. q \in 0 .. 1000
    BY <2>5
  <2>7. ASSUME 20 * n <= scale PROVE q = 1000
    <3>1. (20 * n) * unit <= scale * unit
      BY <2>3, <2>7
    <3>2. 20 * (n * unit) <= one
      BY <2>3, <3>1
    <3>3. PICK m \in Nat : m = n * unit
      BY <2>3
    <3>4. 20 * t >= 1999 * one
      BY <2>3, <3>2, <3>3
    <3> QED
      BY <2>5, <3>4
  <2>8. ASSUME q = 1000 PROVE 10 * n <= scale
    <3>1. 20 * t >= 1999 * one
      BY <2>5, <2>8
    <3>2. 10 * (n * unit) <= one
      BY <2>3, <3>1
    <3>3. (10 * n) * unit <= scale * unit
      BY <2>3, <3>2
    <3> QED
      BY <2>3, <3>3
  <2> QED
    BY <2>1, <2>2, <2>3, <2>4, <2>6, <2>7, <2>8
<1>6. ASSUME NEW s \in Slips, \A k \in Places : Off(s0, d)[k] <= Off(s, d)[k]
      PROVE  Rounded(sum(s)) <= Rounded(sum(s0))
  <2>1. sum(s) <= sum(s0)
    BY <1>4, <1>5, <1>6, ScoreFalls
  <2> QED
    BY <1>5, <2>1, RoundingRises
<1> HIDE DEF sum
<1>8. \A s \in Slips : Reliability(s, d, w) = IF IsNonZero(s) THEN Rounded(sum(s)) ELSE -10
  BY ReliabilityIs DEF sum
<1>9. ASSUME NEW s \in Slips, IsNonZero(s0), \A k \in Places : Off(s0, d)[k] <= Off(s, d)[k]
      PROVE  Reliability(s0, d, w) >= Reliability(s, d, w)
  <2>1. PICK p, q : p = Rounded(sum(s)) /\ q = Rounded(sum(s0))
    OBVIOUS
  <2>2. p \in Nat /\ q \in Nat
    <3>1. PICK x, y \in Nat : x = sum(s) /\ y = sum(s0)
      BY <1>5
    <3>2. Rounded(x) \in Nat /\ Rounded(y) \in Nat
      BY Rounding
    <3> QED
      BY <2>1, <3>1, <3>2
  <2>3. p <= q
    BY <1>6, <1>9, <2>1
  <2>4. Reliability(s0, d, w) = q
    BY <1>8, <1>9, <2>1
  <2>5. PICK r : r = Reliability(s, d, w)
    OBVIOUS
  <2>6. r = p \/ r = -10
    BY <1>8, <2>1, <2>5
  <2>7. q >= r
    BY <2>2, <2>3, <2>6
  <2> QED
    BY <2>4, <2>5, <2>7
<1>10. /\ IF IsNonZero(s0) THEN Reliability(s0, d, w) \in 0 .. 1000 ELSE Reliability(s0, d, w) = -10
       /\ IsNonZero(s0) /\ 20 * Astray(w, Off(s0, d)) <= Scale => Reliability(s0, d, w) = 1000
       /\ Reliability(s0, d, w) = 1000 => 10 * Astray(w, Off(s0, d)) <= Scale
  <2>1. CASE IsNonZero(s0)
    <3>1. Reliability(s0, d, w) = Rounded(sum(s0))
      BY <1>8, <2>1
    <3>2. /\ Rounded(sum(s0)) \in 0 .. 1000
          /\ 20 * Astray(w, Off(s0, d)) <= Scale => Rounded(sum(s0)) = 1000
          /\ Rounded(sum(s0)) = 1000 => 10 * Astray(w, Off(s0, d)) <= Scale
      BY <1>5
    <3> QED
      BY <2>1, <3>1, <3>2
  <2>2. CASE ~ IsNonZero(s0)
    <3>1. Reliability(s0, d, w) = -10
      BY <1>8, <2>2
    <3> QED
      BY <2>2, <3>1
  <2> QED
    BY <2>1, <2>2
<1> QED
  BY <1>1, <1>3, <1>9, <1>10

\* A score is from 0 to 100; it is full when the positions that are off weigh a
\* twentieth or less, and only when they weigh a tenth or less, for whole weights thus
\* when every weight is earned; and whoever is nearer in every position is not behind
\* (prediction.entity.ts).
THEOREM Scores == Spec => []ScoreInRange
BY Invariance, ScoresHold, PTL

-----------------------------------------------------------------------------
(* Counting.                                                               *)

LEMMA PlacesAre == /\ Places = {1, 2, 3, 4, 5, 6}
                   /\ IsFiniteSet(Places) /\ Cardinality(Places) = 6
<1>1. IsFiniteSet(1 .. 6) /\ Cardinality(1 .. 6) = 6
  <2>1. 1 \in Int /\ 6 \in Int
    OBVIOUS
  <2>2. IsFiniteSet(1 .. 6) /\ Cardinality(1 .. 6) = IF 1 > 6 THEN 0 ELSE 6 - 1 + 1
    BY <2>1, FS_Interval
  <2> QED
    BY <2>2
<1> QED
  BY <1>1 DEF Places

Bit(b) == IF b THEN 1 ELSE 0

LEMMA SixBits ==
  ASSUME NEW S, S \subseteq Places
  PROVE  Cardinality(S) = Bit(1 \in S) + Bit(2 \in S) + Bit(3 \in S)
                          + Bit(4 \in S) + Bit(5 \in S) + Bit(6 \in S)
<1>1. IsFiniteSet(S)
  BY PlacesAre, FS_Subset
<1> DEFINE S1 == S \ {1}
           S2 == S1 \ {2}
           S3 == S2 \ {3}
           S4 == S3 \ {4}
           S5 == S4 \ {5}
           S6 == S5 \ {6}
<1>2. S6 = {}
  BY PlacesAre
<1>a. /\ 1 \in S <=> 1 \in S
      /\ 2 \in S <=> 2 \in S1
      /\ 3 \in S <=> 3 \in S2
      /\ 4 \in S <=> 4 \in S3
      /\ 5 \in S <=> 5 \in S4
      /\ 6 \in S <=> 6 \in S5
  OBVIOUS
<1>c. /\ Bit(2 \in S) = Bit(2 \in S1) /\ Bit(3 \in S) = Bit(3 \in S2)
      /\ Bit(4 \in S) = Bit(4 \in S3) /\ Bit(5 \in S) = Bit(5 \in S4)
      /\ Bit(6 \in S) = Bit(6 \in S5)
  <2> HIDE DEF S1, S2, S3, S4, S5, S6
  <2> QED
    BY <1>a DEF Bit
<1>3. \A T, x : IsFiniteSet(T) => /\ IsFiniteSet(T \ {x}) /\ Cardinality(T \ {x}) \in Nat
                                  /\ Cardinality(T) = Cardinality(T \ {x}) + Bit(x \in T)
  <2> SUFFICES ASSUME NEW T, NEW x, IsFiniteSet(T)
               PROVE  /\ IsFiniteSet(T \ {x}) /\ Cardinality(T \ {x}) \in Nat
                      /\ Cardinality(T) = Cardinality(T \ {x}) + Bit(x \in T)
    OBVIOUS
  <2>1. /\ IsFiniteSet(T \ {x})
        /\ Cardinality(T \ {x}) = IF x \in T THEN Cardinality(T) - 1 ELSE Cardinality(T)
    BY FS_RemoveElement
  <2>2. Cardinality(T) \in Nat /\ Cardinality(T \ {x}) \in Nat
    BY <2>1, FS_CardinalityType
  <2> QED
    BY <2>1, <2>2 DEF Bit
<1>b. Cardinality({}) = 0
  BY FS_EmptySet
<1> HIDE DEF S1, S2, S3, S4, S5, S6
<1>4. IsFiniteSet(S1) /\ Cardinality(S) = Cardinality(S1) + Bit(1 \in S)
  BY <1>1, <1>3 DEF S1
<1>5. IsFiniteSet(S2) /\ Cardinality(S1) = Cardinality(S2) + Bit(2 \in S)
  BY <1>c, <1>4, <1>3 DEF S2
<1>6. IsFiniteSet(S3) /\ Cardinality(S2) = Cardinality(S3) + Bit(3 \in S)
  BY <1>c, <1>5, <1>3 DEF S3
<1>7. IsFiniteSet(S4) /\ Cardinality(S3) = Cardinality(S4) + Bit(4 \in S)
  BY <1>c, <1>6, <1>3 DEF S4
<1>8. IsFiniteSet(S5) /\ Cardinality(S4) = Cardinality(S5) + Bit(5 \in S)
  BY <1>c, <1>7, <1>3 DEF S5
<1>9. IsFiniteSet(S6) /\ Cardinality(S5) = Cardinality(S6) + Bit(6 \in S)
  BY <1>c, <1>8, <1>3 DEF S6
<1>10. \A b : Bit(b) \in {0, 1}
  BY DEF Bit
<1> QED
  BY <1>2, <1>b, <1>4, <1>5, <1>6, <1>7, <1>8, <1>9, <1>10

LEMMA CountIs ==
  ASSUME NEW s, NEW some
  PROVE  /\ Count(s, some) = Bit(s[1] \in some) + Bit(s[2] \in some) + Bit(s[3] \in some)
                             + Bit(s[4] \in some) + Bit(s[5] \in some) + Bit(s[6] \in some)
         /\ Count(s, some) \in 0 .. 6
<1> DEFINE S == {i \in Places : s[i] \in some}
<1>1. S \subseteq Places /\ \A i \in {1, 2, 3, 4, 5, 6} : i \in S <=> s[i] \in some
  BY PlacesAre
<1>2. Count(s, some) = Cardinality(S)
  BY DEF Count
<1> HIDE DEF S
<1>3. Cardinality(S) = Bit(1 \in S) + Bit(2 \in S) + Bit(3 \in S)
                       + Bit(4 \in S) + Bit(5 \in S) + Bit(6 \in S)
  BY <1>1, SixBits
<1>4. \A i \in {1, 2, 3, 4, 5, 6} : Bit(i \in S) = Bit(s[i] \in some) /\ Bit(s[i] \in some) \in {0, 1}
  BY <1>1 DEF Bit
<1> QED
  BY <1>2, <1>3, <1>4

LEMMA Disjoint ==
  ASSUME NEW S, NEW T, IsFiniteSet(S), IsFiniteSet(T), S \cap T = {}
  PROVE  /\ IsFiniteSet(S \cup T)
         /\ Cardinality(S \cup T) = Cardinality(S) + Cardinality(T)
<1>1. /\ IsFiniteSet(S \cup T)
      /\ Cardinality(S \cup T) = Cardinality(S) + Cardinality(T) - Cardinality(S \cap T)
  BY FS_Union
<1>2. Cardinality(S) \in Nat /\ Cardinality(T) \in Nat /\ Cardinality(S \cap T) = 0
  BY FS_CardinalityType, FS_EmptySet
<1> QED
  BY <1>1, <1>2

\* Six different numbers stand in one place each.
LEMMA DistinctIs ==
  ASSUME NEW s \in [Places -> Numbers], Distinct(s)
  PROVE  \A i, j \in Places : s[i] = s[j] => i = j
<1>1. s \in Surjection(Places, Range(s))
  BY DEF Surjection, Range
<1>2. Cardinality(Range(s)) = Cardinality(Places)
  BY PlacesAre DEF Distinct
<1>3. s \in Injection(Places, Range(s))
  BY <1>1, <1>2, PlacesAre, FS_Surjection
<1> QED
  BY <1>3 DEF Injection, IsInjective

LEMMA CountCommon ==
  ASSUME NEW s \in [Places -> Numbers], Distinct(s), NEW some
  PROVE  Count(s, some) = Cardinality(Range(s) \cap some)
<1> DEFINE S == {i \in Places : s[i] \in some}
           T == Range(s) \cap some
           f == [i \in S |-> s[i]]
<1>1. IsFiniteSet(S)
  BY PlacesAre, FS_Subset
<1>2. f \in [S -> T]
  BY DEF Range
<1>3. \A i, j \in S : f[i] = f[j] => i = j
  BY DistinctIs
<1>4. \A t \in T : \E i \in S : f[i] = t
  BY DEF Range
<1>5. f \in Bijection(S, T)
  BY <1>2, <1>3, <1>4 DEF Bijection, Injection, Surjection, IsInjective
<1>6. ExistsBijection(S, T)
  BY <1>5 DEF ExistsBijection
<1>7. Cardinality(T) = Cardinality(S)
  BY <1>1, <1>6, FS_Bijection
<1> QED
  BY <1>7 DEF Count

-----------------------------------------------------------------------------
(* The ranks.                                                              *)

LEMMA RankIs ==
  ASSUME NEW c \in 0 .. 6, NEW b
  PROVE  /\ Rank(c, b) \in 0 .. 5
         /\ Rank(c, b) # 0 <=> c >= 3
         /\ Rank(c, b) = 2 <=> c = 5 /\ b
<1>1. CASE b
  BY <1>1 DEF Rank
<1>2. CASE ~ b
  BY <1>2 DEF Rank
<1> QED
  BY <1>1, <1>2

LEMMA Partition5 ==
  ASSUME NEW D, IsFiniteSet(D), NEW f \in [D -> 0 .. 5],
         NEW n, n = [r \in 1 .. 5 |-> Cardinality({i \in D : f[i] = r})]
  PROVE  n[1] + n[2] + n[3] + n[4] + n[5] = Cardinality({i \in D : f[i] # 0})
<1> DEFINE S(r) == {i \in D : f[i] = r}
<1>1. \A r : IsFiniteSet(S(r))
  BY FS_Subset
<1>2. \A r \in 1 .. 5 : n[r] = Cardinality(S(r)) /\ Cardinality(S(r)) \in Nat
  BY <1>1, FS_CardinalityType
<1>d. \A r, q : r # q => S(r) \cap S(q) = {}
  OBVIOUS
<1>u. {i \in D : f[i] # 0} = (((S(1) \cup S(2)) \cup S(3)) \cup S(4)) \cup S(5)
  OBVIOUS
<1> HIDE DEF S
<1>3. /\ IsFiniteSet(S(1) \cup S(2))
      /\ Cardinality(S(1) \cup S(2)) = Cardinality(S(1)) + Cardinality(S(2))
  <2>1. S(1) \cap S(2) = {}
    BY <1>d
  <2> QED
    BY <1>1, <2>1, Disjoint
<1>4. /\ IsFiniteSet((S(1) \cup S(2)) \cup S(3))
      /\ Cardinality((S(1) \cup S(2)) \cup S(3)) = Cardinality(S(1) \cup S(2)) + Cardinality(S(3))
  <2>1. S(1) \cap S(3) = {} /\ S(2) \cap S(3) = {}
    BY <1>d
  <2>2. (S(1) \cup S(2)) \cap S(3) = {}
    BY <2>1
  <2> QED
    BY <1>1, <1>3, <2>2, Disjoint
<1>5. /\ IsFiniteSet(((S(1) \cup S(2)) \cup S(3)) \cup S(4))
      /\ Cardinality(((S(1) \cup S(2)) \cup S(3)) \cup S(4))
           = Cardinality((S(1) \cup S(2)) \cup S(3)) + Cardinality(S(4))
  <2>1. S(1) \cap S(4) = {} /\ S(2) \cap S(4) = {} /\ S(3) \cap S(4) = {}
    BY <1>d
  <2>2. ((S(1) \cup S(2)) \cup S(3)) \cap S(4) = {}
    BY <2>1
  <2> QED
    BY <1>1, <1>4, <2>2, Disjoint
<1>6. Cardinality((((S(1) \cup S(2)) \cup S(3)) \cup S(4)) \cup S(5))
        = Cardinality(((S(1) \cup S(2)) \cup S(3)) \cup S(4)) + Cardinality(S(5))
  <2>1. S(1) \cap S(5) = {} /\ S(2) \cap S(5) = {} /\ S(3) \cap S(5) = {} /\ S(4) \cap S(5) = {}
    BY <1>d
  <2>2. (((S(1) \cup S(2)) \cup S(3)) \cup S(4)) \cap S(5) = {}
    BY <2>1
  <2> QED
    BY <1>1, <1>5, <2>2, Disjoint
<1>7. /\ n[1] = Cardinality(S(1)) /\ n[2] = Cardinality(S(2)) /\ n[3] = Cardinality(S(3))
      /\ n[4] = Cardinality(S(4)) /\ n[5] = Cardinality(S(5))
  BY <1>2
<1>8. Cardinality({i \in D : f[i] # 0})
        = Cardinality(S(1)) + Cardinality(S(2)) + Cardinality(S(3)) + Cardinality(S(4)) + Cardinality(S(5))
  BY <1>u, <1>3, <1>4, <1>5, <1>6
<1> QED
  BY <1>7, <1>8

LEMMA RanksHold == IInv => RanksAgree
<1> SUFFICES ASSUME IInv, Distinct(slip) PROVE RanksAgree
  BY DEF RanksAgree
<1>1. draws \in Seq(Stored) /\ slip \in [Places -> Numbers]
  BY LotteryAssumption DEF IInv, TypeOK
<1>2. IsFiniteSet(DOMAIN draws)
  <2>1. DOMAIN draws = 1 .. Len(draws) /\ Len(draws) \in Nat
    BY <1>1
  <2> QED
    BY <2>1, FS_Interval
<1> DEFINE common(d) == Cardinality(Range(slip) \cap Range(d.main))
<1>3. ASSUME NEW i \in DOMAIN draws
      PROVE  /\ Count(slip, Range(draws[i].main)) = common(draws[i])
             /\ Count(draws[i].main, Range(slip)) = common(draws[i])
             /\ common(draws[i]) \in 0 .. 6
  <2>1. PICK s : s = slip
    OBVIOUS
  <2>2. PICK m : m = draws[i].main
    OBVIOUS
  <2>3. m \in [Places -> Numbers] /\ Distinct(m)
    <3>1. draws[i] \in Stored
      BY <1>1
    <3> QED
      BY <2>2, <3>1 DEF Stored, IInv
  <2>4. s \in [Places -> Numbers] /\ Distinct(s)
    BY <1>1, <2>1
  <2>5. Count(s, Range(m)) = Cardinality(Range(s) \cap Range(m))
    BY <2>4, CountCommon
  <2>6. Count(m, Range(s)) = Cardinality(Range(m) \cap Range(s))
    BY <2>3, CountCommon
  <2>7. Range(m) \cap Range(s) = Range(s) \cap Range(m)
    OBVIOUS
  <2>8. Count(s, Range(m)) \in 0 .. 6
    BY CountIs
  <2> QED
    BY <2>1, <2>2, <2>5, <2>6, <2>7, <2>8
<1> HIDE DEF common
<1> DEFINE f == [i \in DOMAIN draws |-> RankOf(slip, draws[i])]
<1>4. ASSUME NEW i \in DOMAIN draws
      PROVE  /\ MatchResult(slip, draws[i]).rank = f[i]
             /\ f[i] \in 0 .. 5
             /\ f[i] # 0 <=> common(draws[i]) >= 3
             /\ f[i] = 2 <=> common(draws[i]) = 5 /\ draws[i].bonus \in Range(slip)
  <2>1. PICK c \in 0 .. 6 : c = common(draws[i])
    BY <1>3, Zenon
  <2>2. PICK b : b = (draws[i].bonus \in Range(slip))
    OBVIOUS
  <2>3. f[i] = Rank(c, b)
    BY <1>3, <2>1, <2>2 DEF RankOf
  <2>4. MatchResult(slip, draws[i]).rank = Rank(c, b)
    BY <1>3, <2>1, <2>2 DEF MatchResult
  <2>5. /\ Rank(c, b) \in 0 .. 5
        /\ Rank(c, b) # 0 <=> c >= 3
        /\ Rank(c, b) = 2 <=> c = 5 /\ b
    BY RankIs
  <2> QED
    BY <2>1, <2>2, <2>3, <2>4, <2>5
<1> DEFINE n == [r \in 1 .. 5 |-> CountByRank(slip, r)]
           won == {i \in DOMAIN draws : common(draws[i]) >= 3}
<1>5. n[1] + n[2] + n[3] + n[4] + n[5] = Cardinality(won)
  <2>1. PICK D : D = DOMAIN draws
    OBVIOUS
  <2>2. PICK g \in [D -> 0 .. 5] : g = f
    <3>1. f \in [D -> 0 .. 5]
      BY <1>4, <2>1
    <3> QED
      BY <3>1
  <2>3. PICK m : m = n
    OBVIOUS
  <2>4. m = [r \in 1 .. 5 |-> Cardinality({i \in D : g[i] = r})]
    <3>1. \A r : {i \in D : g[i] = r} = {i \in DOMAIN draws : RankOf(slip, draws[i]) = r}
      BY <2>1, <2>2
    <3> QED
      BY <2>3, <3>1 DEF CountByRank
  <2>5. {i \in D : g[i] # 0} = won
    BY <1>4, <2>1, <2>2
  <2>6. IsFiniteSet(D)
    BY <1>2, <2>1
  <2> HIDE DEF n, won
  <2>7. m[1] + m[2] + m[3] + m[4] + m[5] = Cardinality({i \in D : g[i] # 0})
    BY <2>4, <2>6, Partition5
  <2> QED
    BY <2>3, <2>5, <2>7
<1>6. /\ PersonalAnalysis(slip).win[1] = n[1] /\ PersonalAnalysis(slip).win[2] = n[2]
      /\ PersonalAnalysis(slip).win[3] = n[3] /\ PersonalAnalysis(slip).win[4] = n[4]
      /\ PersonalAnalysis(slip).win[5] = n[5]
  BY DEF PersonalAnalysis
<1>7. \A i \in DOMAIN draws : f[i] = RankOf(slip, draws[i])
  OBVIOUS
<1> HIDE DEF n, f
<1> QED
  BY <1>4, <1>5, <1>6, <1>7 DEF RanksAgree, common

\* The rank shown with a saved prediction and the one counted among past wins agree,
\* for six different numbers, and no two kinds of win count one draw.
THEOREM Ranks == Spec => []RanksAgree
BY Invariance, RanksHold, PTL

-----------------------------------------------------------------------------
(* Least and greatest elements; the three first of an order.               *)

LEMMA LeastOfNat ==
  ASSUME NEW T, T \subseteq Nat, T # {}
  PROVE  \E m \in T : \A k \in T : m <= k
<1>1. PICK m \in T : \A k \in T : ~ (<<k, m>> \in OpToRel(<, Nat))
  BY NatLessThanWellFounded, WFMin
<1>2. \A k \in T : ~ (k < m)
  BY <1>1 DEF OpToRel
<1> QED
  BY <1>2

LEMMA MinIs ==
  ASSUME NEW T, T \subseteq Nat, T # {}
  PROVE  Min(T) \in T /\ \A k \in T : Min(T) <= k
<1>1. \E m \in T : \A k \in T : m <= k
  BY LeastOfNat
<1> QED
  BY <1>1 DEF Min

LEMMA MaxIs ==
  ASSUME NEW n \in Nat, NEW T, T \subseteq 0 .. n, T # {}
  PROVE  Max(T) \in T /\ \A k \in T : k <= Max(T)
<1> DEFINE B == {k \in Nat : \A t \in T : t <= k}
<1>1. n \in B
  OBVIOUS
<1>2. B \subseteq Nat /\ B # {}
  BY <1>1
<1>3. PICK m \in B : \A k \in B : m <= k
  <2> HIDE DEF B
  <2> QED
    BY <1>2, LeastOfNat
<1>4. m \in T
  <2> SUFFICES ASSUME m \notin T PROVE FALSE
    OBVIOUS
  <2>1. \A t \in T : t \in Nat /\ t < m
    BY <1>3
  <2>0. m - 1 \in Nat
    <3>1. PICK t \in T : TRUE
      OBVIOUS
    <3>2. t \in Nat /\ t < m /\ m \in Nat
      BY <2>1
    <3> QED
      BY <3>2
  <2>2. m - 1 \in B
    BY <2>0, <2>1
  <2> QED
    BY <1>3, <2>2
<1>5. \E k \in T : \A t \in T : k >= t
  BY <1>3, <1>4
<1>6. Max(T) \in T /\ \A t \in T : Max(T) >= t
  BY <1>5 DEF Max
<1> QED
  BY <1>6

\* A set of subsets of a finite set has a least one.
LEMMA SmallestSubset ==
  ASSUME NEW S, IsFiniteSet(S), NEW T, T \subseteq SUBSET S, T # {}
  PROVE  \E U \in T : \A V \in T : V \subseteq U => V = U
<1>1. IsWellFoundedOn(StrictSubsetOrdering(S), SUBSET S)
  BY FS_StrictSubsetOrderingWellFounded, FS_FiniteSubsetsOfFinite
<1>2. \E U \in T : \A V \in T : ~ (<<V, U>> \in StrictSubsetOrdering(S))
  BY <1>1, WFMin
<1> QED
  BY <1>2 DEF StrictSubsetOrdering

LEMMA Three ==
  ASSUME NEW x, NEW y, NEW z, x # y, x # z, y # z
  PROVE  Cardinality({x, y, z}) = 3
<1>1. IsFiniteSet({x}) /\ Cardinality({x}) = 1
  BY FS_Singleton
<1>2. /\ IsFiniteSet({x} \cup {y})
      /\ Cardinality({x} \cup {y}) = IF y \in {x} THEN Cardinality({x}) ELSE Cardinality({x}) + 1
  BY <1>1, FS_AddElement
<1>3. Cardinality({x} \cup {y}) = 2
  BY <1>1, <1>2
<1>4. LET T == {x} \cup {y} IN
      Cardinality(T \cup {z}) = IF z \in T THEN Cardinality(T) ELSE Cardinality(T) + 1
  BY <1>2, FS_AddElement
<1>5. ({x} \cup {y}) \cup {z} = {x, y, z} /\ z \notin {x} \cup {y}
  OBVIOUS
<1> QED
  BY <1>3, <1>4, <1>5

\* What is ahead of each element, as a function: a strict order, any two compare.
Order(E, A) ==
  /\ A \in [E -> SUBSET E]
  /\ \A e \in E : e \notin A[e]
  /\ \A e \in E : \A f \in A[e] : A[f] \subseteq A[e]
  /\ \A e, f \in E : e # f => e \in A[f] \/ f \in A[e]

LEMMA FirstOf ==
  ASSUME NEW E, IsFiniteSet(E), NEW A, Order(E, A), NEW S, S \subseteq E, S # {}
  PROVE  \E b \in S : A[b] \cap S = {} /\ \A c \in S \ {b} : b \in A[c]
<1> DEFINE T == {A[b] \cap S : b \in S}
<1>1. T \subseteq SUBSET E /\ T # {}
  OBVIOUS
<1>2. PICK U \in T : \A V \in T : V \subseteq U => V = U
  <2> HIDE DEF T
  <2> QED
    BY <1>1, SmallestSubset
<1>3. PICK b \in S : U = A[b] \cap S
  BY <1>2
<1>4. A[b] \cap S = {}
  <2> SUFFICES ASSUME NEW c \in A[b] \cap S PROVE FALSE
    OBVIOUS
  <2>1. A[c] \subseteq A[b] /\ c \notin A[c]
    BY DEF Order
  <2>2. A[c] \cap S \in T /\ A[c] \cap S \subseteq U
    BY <1>3, <2>1
  <2>3. A[c] \cap S = U
    BY <1>2, <2>2
  <2> QED
    BY <1>3, <2>1, <2>3
<1>5. \A c \in S \ {b} : b \in A[c]
  BY <1>4 DEF Order
<1> QED
  BY <1>4, <1>5

LEMMA FirstThree ==
  ASSUME NEW E, IsFiniteSet(E), NEW A, Order(E, A),
         NEW e1 \in E, NEW e2 \in E, NEW e3 \in E, e1 # e2, e1 # e3, e2 # e3
  PROVE  \E b1, b2, b3 \in E :
           /\ b1 # b2 /\ b1 # b3 /\ b2 # b3
           /\ {e \in E : Cardinality(A[e]) < 3} = {b1, b2, b3}
<1>1. PICK b1 \in E : A[b1] \cap E = {} /\ \A c \in E \ {b1} : b1 \in A[c]
  BY FirstOf
<1>2. E \ {b1} # {} /\ E \ {b1} \subseteq E
  OBVIOUS
<1>3. PICK b2 \in E \ {b1} : A[b2] \cap (E \ {b1}) = {} /\ \A c \in (E \ {b1}) \ {b2} : b2 \in A[c]
  <2>1. PICK S : S = E \ {b1}
    OBVIOUS
  <2>2. \E b \in S : A[b] \cap S = {} /\ \A c \in S \ {b} : b \in A[c]
    BY <1>2, <2>1, FirstOf
  <2> QED
    BY <2>1, <2>2
<1>4. E \ {b1, b2} # {} /\ E \ {b1, b2} \subseteq E
  OBVIOUS
<1>5. PICK b3 \in E \ {b1, b2} :
        A[b3] \cap (E \ {b1, b2}) = {} /\ \A c \in (E \ {b1, b2}) \ {b3} : b3 \in A[c]
  <2>1. PICK S : S = E \ {b1, b2}
    OBVIOUS
  <2>2. \E b \in S : A[b] \cap S = {} /\ \A c \in S \ {b} : b \in A[c]
    BY <1>4, <2>1, FirstOf
  <2> QED
    BY <2>1, <2>2
<1>6. \A e \in E : A[e] \subseteq E
  BY DEF Order
<1>7. A[b1] = {} /\ A[b2] \subseteq {b1} /\ A[b3] \subseteq {b1, b2}
  BY <1>1, <1>3, <1>5, <1>6
<1>8. \A x, y : IsFiniteSet({x, y}) /\ Cardinality({x, y}) <= 2
  <2> SUFFICES ASSUME NEW x, NEW y PROVE IsFiniteSet({x, y}) /\ Cardinality({x, y}) <= 2
    OBVIOUS
  <2>1. IsFiniteSet({x}) /\ Cardinality({x}) = 1
    BY FS_Singleton
  <2>2. /\ IsFiniteSet({x} \cup {y})
        /\ Cardinality({x} \cup {y}) = IF y \in {x} THEN Cardinality({x}) ELSE Cardinality({x}) + 1
    BY <2>1, FS_AddElement
  <2>3. {x} \cup {y} = {x, y}
    OBVIOUS
  <2> QED
    BY <2>1, <2>2, <2>3
<1>9. ASSUME NEW T, T \subseteq {b1, b2} PROVE Cardinality(T) < 3
  <2>1. /\ IsFiniteSet({b1, b2}) /\ Cardinality({b1, b2}) <= 2
    BY <1>8
  <2>2. Cardinality(T) <= Cardinality({b1, b2}) /\ IsFiniteSet(T)
    BY <1>9, <2>1, FS_Subset
  <2>3. Cardinality(T) \in Nat /\ Cardinality({b1, b2}) \in Nat
    BY <2>1, <2>2, FS_CardinalityType
  <2> QED
    BY <2>1, <2>2, <2>3
<1>10. Cardinality(A[b1]) < 3 /\ Cardinality(A[b2]) < 3 /\ Cardinality(A[b3]) < 3
  BY <1>7, <1>9
<1>11. ASSUME NEW e \in E \ {b1, b2, b3} PROVE ~ (Cardinality(A[e]) < 3)
  <2>1. {b1, b2, b3} \subseteq A[e]
    BY <1>1, <1>3, <1>5
  <2>2. IsFiniteSet(A[e])
    BY <1>6, FS_Subset
  <2>3. IsFiniteSet({b1, b2, b3}) /\ Cardinality({b1, b2, b3}) = 3
    <3>1. IsFiniteSet({b1, b2, b3})
      BY <2>1, <2>2, FS_Subset
    <3>2. b1 # b2 /\ b1 # b3 /\ b2 # b3
      BY <1>3, <1>5
    <3> QED
      BY <3>1, <3>2, Three
  <2>4. Cardinality({b1, b2, b3}) <= Cardinality(A[e])
    BY <2>1, <2>2, FS_Subset
  <2>5. Cardinality(A[e]) \in Nat
    BY <2>2, FS_CardinalityType
  <2> QED
    BY <2>3, <2>4, <2>5
<1>12. {e \in E : Cardinality(A[e]) < 3} = {b1, b2, b3}
  BY <1>10, <1>11
<1> QED
  BY <1>3, <1>5, <1>12

-----------------------------------------------------------------------------
(* The friends of a ball.                                                  *)

Num(p) == draws[p[1]].main[p[2]]
Seen(ball, known) == {p \in Hits(ball, known) \X Places : Num(p) # ball}
SeenAs(seen, n) == {p \in seen : Num(p) = n}
Entry(seen, n) == [num |-> n, times |-> Cardinality(SeenAs(seen, n)),
                   first |-> Min({6 * p[1] + p[2] : p \in SeenAs(seen, n)})]
Entries(seen) == {Entry(seen, n) : n \in {Num(p) : p \in seen}}
Ahead(entries, e) == {f \in entries : \/ f.times > e.times
                                      \/ f.times = e.times /\ f.first < e.first}

LEMMA FriendsAre ==
  \A ball, before :
    FriendlyNumbers(ball, before) =
      LET entries == Entries(Seen(ball, Known(before))) IN
      {e.num : e \in {f \in entries : Cardinality(Ahead(entries, f)) < 3}}
BY DEF FriendlyNumbers, Entries, Entry, SeenAs, Seen, Num, Ahead

LEMMA SeenFinite ==
  ASSUME IInv, NEW ball, NEW known, known \subseteq DOMAIN draws
  PROVE  /\ IsFiniteSet(Seen(ball, known))
         /\ Seen(ball, known) \subseteq (Nat \ {0}) \X Places
<1>1. DOMAIN draws = 1 .. Len(draws) /\ Len(draws) \in Nat
  BY DEF IInv, TypeOK
<1>2. IsFiniteSet(DOMAIN draws)
  BY <1>1, FS_Interval
<1>3. Hits(ball, known) \subseteq DOMAIN draws
  BY DEF Hits
<1>4. IsFiniteSet(Hits(ball, known))
  BY <1>2, <1>3, FS_Subset
<1>5. IsFiniteSet(Hits(ball, known) \X Places)
  BY <1>4, PlacesAre, FS_Product
<1>6. Seen(ball, known) \subseteq Hits(ball, known) \X Places
  BY DEF Seen
<1>7. Hits(ball, known) \subseteq Nat \ {0}
  BY <1>1, <1>3
<1> QED
  BY <1>5, <1>6, <1>7, FS_Subset

\* What an entry says: how often, and where first, a number was seen.
LEMMA EntryIs ==
  ASSUME NEW seen, seen \subseteq (Nat \ {0}) \X Places, IsFiniteSet(seen),
         NEW n \in {Num(p) : p \in seen}
  PROVE  /\ Entry(seen, n).num = n
         /\ Entry(seen, n).times \in Nat
         /\ \E p \in SeenAs(seen, n) : Entry(seen, n).first = 6 * p[1] + p[2]
<1>1. IsFiniteSet(SeenAs(seen, n))
  BY FS_Subset DEF SeenAs
<1>2. Cardinality(SeenAs(seen, n)) \in Nat
  BY <1>1, FS_CardinalityType
<1> DEFINE T == {6 * p[1] + p[2] : p \in SeenAs(seen, n)}
<1>3. T # {}
  BY DEF SeenAs
<1>4. T \subseteq Nat
  <2> SUFFICES ASSUME NEW p \in SeenAs(seen, n) PROVE 6 * p[1] + p[2] \in Nat
    OBVIOUS
  <2>1. p[1] \in Nat /\ p[2] \in Nat
    BY DEF SeenAs, Places
  <2> QED
    BY <2>1
<1> HIDE DEF T
<1>5. Min(T) \in T
  BY <1>3, <1>4, MinIs
<1>6. \E p \in SeenAs(seen, n) : Min(T) = 6 * p[1] + p[2]
  BY <1>5 DEF T
<1>7. Entry(seen, n).num = n /\ Entry(seen, n).times = Cardinality(SeenAs(seen, n)) /\ Entry(seen, n).first = Min(T)
  BY DEF Entry, T
<1> QED
  BY <1>2, <1>6, <1>7

\* Numbers seen first at the same place are the same.
LEMMA EntriesDiffer ==
  ASSUME NEW seen, seen \subseteq (Nat \ {0}) \X Places, IsFiniteSet(seen),
         NEW m \in {Num(p) : p \in seen}, NEW n \in {Num(p) : p \in seen},
         Entry(seen, m).first = Entry(seen, n).first
  PROVE  m = n
<1>1. PICK p \in SeenAs(seen, m) : Entry(seen, m).first = 6 * p[1] + p[2]
  BY EntryIs
<1>2. PICK q \in SeenAs(seen, n) : Entry(seen, n).first = 6 * q[1] + q[2]
  BY EntryIs
<1>3. /\ p \in (Nat \ {0}) \X Places /\ q \in (Nat \ {0}) \X Places
      /\ Num(p) = m /\ Num(q) = n
  BY DEF SeenAs
<1>4. /\ p[1] \in Nat /\ q[1] \in Nat /\ p[2] \in 1 .. 6 /\ q[2] \in 1 .. 6
      /\ 6 * p[1] + p[2] = 6 * q[1] + q[2]
  BY <1>1, <1>2, <1>3 DEF Places
<1>5. p[1] = q[1] /\ p[2] = q[2]
  BY <1>4
<1>6. p = q
  BY <1>3, <1>5
<1> QED
  BY <1>3, <1>6

LEMMA EntriesOrdered ==
  ASSUME NEW seen, seen \subseteq (Nat \ {0}) \X Places, IsFiniteSet(seen),
         NEW E, E = Entries(seen)
  PROVE  Order(E, [e \in E |-> Ahead(E, e)])
<1>1. ASSUME NEW e \in E
      PROVE  e.times \in Int /\ e.first \in Int
  <2>1. PICK n \in {Num(p) : p \in seen} : e = Entry(seen, n)
    BY DEF Entries
  <2>2. PICK p \in SeenAs(seen, n) : Entry(seen, n).first = 6 * p[1] + p[2]
    BY EntryIs
  <2>3. p[1] \in Nat /\ p[2] \in Nat
    BY DEF SeenAs, Places
  <2> QED
    BY <2>1, <2>2, <2>3, EntryIs
<1>2. \A e, f \in E : e # f => e.first # f.first
  <2> SUFFICES ASSUME NEW e \in E, NEW f \in E, e.first = f.first PROVE e = f
    OBVIOUS
  <2>1. PICK m \in {Num(p) : p \in seen} : e = Entry(seen, m)
    BY DEF Entries
  <2>2. PICK n \in {Num(p) : p \in seen} : f = Entry(seen, n)
    BY DEF Entries
  <2>3. m = n
    BY <2>1, <2>2, EntriesDiffer
  <2> QED
    BY <2>1, <2>2, <2>3
<1> DEFINE A == [e \in E |-> Ahead(E, e)]
<1>3. \A e, f \in E : f \in A[e] <=> f.times > e.times \/ (f.times = e.times /\ f.first < e.first)
  BY DEF Ahead
<1>4. A \in [E -> SUBSET E]
  BY DEF Ahead
<1> HIDE DEF A
<1>5. \A e \in E : e \notin A[e]
  BY <1>1, <1>3
<1>6. ASSUME NEW e \in E, NEW f \in A[e], NEW g \in A[f] PROVE g \in A[e]
  <2>1. f \in E
    BY <1>4
  <2>2. g \in E
    BY <1>4, <2>1
  <2>3. /\ e.times \in Int /\ e.first \in Int /\ f.times \in Int /\ f.first \in Int
        /\ g.times \in Int /\ g.first \in Int
    BY <1>1, <2>1, <2>2
  <2>4. f.times > e.times \/ (f.times = e.times /\ f.first < e.first)
    BY <1>3, <2>1
  <2>5. g.times > f.times \/ (g.times = f.times /\ g.first < f.first)
    BY <1>3, <2>1, <2>2
  <2>6. g.times > e.times \/ (g.times = e.times /\ g.first < e.first)
    BY <2>3, <2>4, <2>5
  <2> QED
    BY <1>3, <2>2, <2>6
<1>7. ASSUME NEW e \in E, NEW f \in E, e # f PROVE e \in A[f] \/ f \in A[e]
  <2>1. /\ e.times \in Int /\ e.first \in Int /\ f.times \in Int /\ f.first \in Int
        /\ e.first # f.first
    BY <1>1, <1>2, <1>7
  <2>2. \/ f.times > e.times \/ (f.times = e.times /\ f.first < e.first)
        \/ e.times > f.times \/ (e.times = f.times /\ e.first < f.first)
    BY <2>1
  <2> QED
    BY <1>3, <2>2
<1> QED
  BY <1>4, <1>5, <1>6, <1>7 DEF Order, A

LEMMA ThreeFriends ==
  ASSUME IInv, NEW ball \in Nat, NEW before \in Nat,
         NEW h \in Hits(ball, Known(before))
  PROVE  Cardinality(FriendlyNumbers(ball, before)) = 3
<1>1. Known(before) \subseteq DOMAIN draws
  BY DEF Known
<1>2. PICK seen : seen = Seen(ball, Known(before))
  OBVIOUS
<1>3. IsFiniteSet(seen) /\ seen \subseteq (Nat \ {0}) \X Places
  BY <1>1, <1>2, SeenFinite
<1>4. PICK others : others = {Num(p) : p \in seen}
  OBVIOUS
<1>5. PICK E : E = Entries(seen)
  OBVIOUS
<1>6. IsFiniteSet(E)
  <2>1. PICK num : num = [p \in seen |-> Num(p)]
    OBVIOUS
  <2>2. num \in Surjection(seen, others)
    BY <1>4, <2>1 DEF Surjection
  <2>3. IsFiniteSet(others)
    BY <1>3, <2>2, FS_Surjection
  <2>4. PICK entry : entry = [n \in others |-> Entry(seen, n)]
    OBVIOUS
  <2>5. entry \in Surjection(others, E)
    BY <1>4, <1>5, <2>4 DEF Surjection, Entries
  <2> QED
    BY <2>3, <2>5, FS_Surjection
<1>7. \A e \in E : e.num \in others /\ e = Entry(seen, e.num)
  <2> SUFFICES ASSUME NEW e \in E PROVE e.num \in others /\ e = Entry(seen, e.num)
    OBVIOUS
  <2>1. PICK n \in {Num(p) : p \in seen} : e = Entry(seen, n)
    BY <1>5 DEF Entries
  <2>2. e.num = n
    BY <1>3, <2>1, EntryIs
  <2> QED
    BY <1>4, <2>1, <2>2
<1>8. \A e, f \in E : e # f => e.num # f.num
  BY <1>7
<1>9. PICK A : A = [e \in E |-> Ahead(E, e)]
  OBVIOUS
<1>10. Order(E, A)
  BY <1>3, <1>5, <1>9, EntriesOrdered
<1>11. \E x, y, z \in others : x # y /\ x # z /\ y # z
  <2>1. h \in DOMAIN draws
    BY <1>1 DEF Hits
  <2>2. PICK m : m = draws[h].main
    OBVIOUS
  <2>3. m \in [Places -> Numbers] /\ Distinct(m)
    <3>1. draws[h] \in Stored
      BY <2>1 DEF IInv, TypeOK
    <3> QED
      BY <2>1, <2>2, <3>1 DEF Stored, IInv
  <2>4. \A i, j \in Places : m[i] = m[j] => i = j
    BY <2>3, DistinctIs
  <2>5. ASSUME NEW j \in Places, m[j] # ball PROVE m[j] \in others
    <3>1. Num(<<h, j>>) = m[j]
      BY <2>2 DEF Num
    <3>2. <<h, j>> \in seen
      BY <1>2, <2>5, <3>1 DEF Seen
    <3> QED
      BY <1>4, <3>1, <3>2
  <2>6. /\ m[1] # m[2] /\ m[1] # m[3] /\ m[1] # m[4]
        /\ m[2] # m[3] /\ m[2] # m[4] /\ m[3] # m[4]
    BY <2>4, PlacesAre
  <2>7. 1 \in Places /\ 2 \in Places /\ 3 \in Places /\ 4 \in Places
    BY PlacesAre
  <2>8. CASE m[1] = ball
    <3>1. m[2] \in others /\ m[3] \in others /\ m[4] \in others
      BY <2>5, <2>6, <2>7, <2>8
    <3> QED
      BY <2>6, <3>1
  <2>9. CASE m[2] = ball
    <3>1. m[1] \in others /\ m[3] \in others /\ m[4] \in others
      BY <2>5, <2>6, <2>7, <2>9
    <3> QED
      BY <2>6, <3>1
  <2>10. CASE m[3] = ball
    <3>1. m[1] \in others /\ m[2] \in others /\ m[4] \in others
      BY <2>5, <2>6, <2>7, <2>10
    <3> QED
      BY <2>6, <3>1
  <2>11. CASE m[1] # ball /\ m[2] # ball /\ m[3] # ball
    <3>1. m[1] \in others /\ m[2] \in others /\ m[3] \in others
      BY <2>5, <2>7, <2>11
    <3> QED
      BY <2>6, <3>1
  <2> QED
    BY <2>8, <2>9, <2>10, <2>11
<1>12. \E e1, e2, e3 \in E : e1 # e2 /\ e1 # e3 /\ e2 # e3
  <2>1. PICK x, y, z \in others : x # y /\ x # z /\ y # z
    BY <1>11
  <2>2. \A n \in others : Entry(seen, n) \in E /\ Entry(seen, n).num = n
    BY <1>3, <1>4, <1>5, EntryIs DEF Entries
  <2> QED
    BY <2>1, <2>2
<1>13. PICK b1, b2, b3 \in E : /\ b1 # b2 /\ b1 # b3 /\ b2 # b3
                               /\ {e \in E : Cardinality(A[e]) < 3} = {b1, b2, b3}
  <2>1. PICK e1, e2, e3 \in E : e1 # e2 /\ e1 # e3 /\ e2 # e3
    BY <1>12
  <2> QED
    BY <1>6, <1>10, <2>1, FirstThree
<1>14. FriendlyNumbers(ball, before) = {b1.num, b2.num, b3.num}
  <2>1. FriendlyNumbers(ball, before) = {e.num : e \in {f \in E : Cardinality(Ahead(E, f)) < 3}}
    BY <1>2, <1>5, FriendsAre
  <2>2. {f \in E : Cardinality(Ahead(E, f)) < 3} = {b1, b2, b3}
    BY <1>9, <1>13
  <2> QED
    BY <2>1, <2>2
<1>15. b1.num # b2.num /\ b1.num # b3.num /\ b2.num # b3.num
  BY <1>8, <1>13
<1>16. PICK x, y, z : x = b1.num /\ y = b2.num /\ z = b3.num
  OBVIOUS
<1>17. Cardinality({x, y, z}) = 3
  BY <1>15, <1>16, Three
<1> QED
  BY <1>14, <1>16, <1>17

-----------------------------------------------------------------------------
(* The status of a ball.                                                   *)

\* The draws known before an episode are the list from some place on.
LEMMA KnownIs ==
  ASSUME IInv, NEW before \in Nat, NEW K, K = Known(before), K # {}
  PROVE  /\ K \subseteq 1 .. Len(draws) /\ Len(draws) \in Nat
         /\ Min(K) \in K /\ \A i \in K : Min(K) <= i
         /\ Max(K) \in K /\ \A i \in K : i <= Max(K)
         /\ \A i \in K : draws[i].episode \in Nat \ {0} /\ draws[i].episode < before
         /\ \A i, j \in K : i <= j => draws[j].episode + (j - i) <= draws[i].episode
<1>1. DOMAIN draws = 1 .. Len(draws) /\ Len(draws) \in Nat
  BY DEF IInv, TypeOK
<1>2. K \subseteq 1 .. Len(draws)
  BY <1>1 DEF Known
<1>3. K \subseteq Nat /\ K \subseteq 0 .. Len(draws)
  BY <1>2
<1>4. Min(K) \in K /\ \A i \in K : Min(K) <= i
  BY <1>3, MinIs
<1>5. Max(K) \in K /\ \A i \in K : i <= Max(K)
  <2>1. PICK n \in Nat : n = Len(draws)
    BY <1>1
  <2>2. K \subseteq 0 .. n
    BY <1>3, <2>1
  <2> QED
    BY <2>2, MaxIs
<1>6. ASSUME NEW i \in K PROVE draws[i].episode \in Nat \ {0} /\ draws[i].episode < before
  <2>1. draws[i] \in Stored
    BY <1>1, <1>2 DEF IInv, TypeOK
  <2> QED
    BY <2>1 DEF Stored, Known
<1>7. \A i, j \in K : i <= j => draws[j].episode + (j - i) <= draws[i].episode
  BY <1>1, <1>2 DEF IInv, NewestFirst
<1> QED
  BY <1>1, <1>2, <1>4, <1>5, <1>6, <1>7

Among(hits, top, some) == Cardinality({i \in hits : i - top < some})

LEMMA StatusIs ==
  \A ball, before :
    LET known == Known(before)
        hits == Hits(ball, known)
    IN known # {} => BallStatus(ball, before) =
         [ten |-> Among(hits, Min(known), Recent), thirty |-> Among(hits, Min(known), Longer),
          status |-> Temperature(Skip(hits, known)), skip |-> Skip(hits, known),
          latest |-> LatestEpisode(hits)]
BY DEF BallStatus, Among

LEMMA AmongIs ==
  ASSUME NEW H, IsFiniteSet(H), H \subseteq Nat, NEW top \in Nat
  PROVE  /\ Among(H, top, Recent) \in Nat /\ Among(H, top, Longer) \in Nat
         /\ Among(H, top, Recent) <= Among(H, top, Longer)
         /\ (\E i \in H : i - top < Recent) => Among(H, top, Recent) > 0
         /\ (\A i \in H : ~ (i - top < Recent)) => Among(H, top, Recent) = 0
         /\ H = {} => Among(H, top, Longer) = 0
<1> DEFINE T == {i \in H : i - top < Recent}
           L == {i \in H : i - top < Longer}
<1>1. IsFiniteSet(T) /\ IsFiniteSet(L)
  BY FS_Subset
<1>2. T \subseteq L
  <2>1. Recent \in Nat /\ Longer \in Nat /\ Recent < Longer
    BY LotteryAssumption
  <2>2. ASSUME NEW i \in H, i - top < Recent PROVE i - top < Longer
    <3>1. i \in Nat
      OBVIOUS
    <3> QED
      BY <2>1, <2>2, <3>1
  <2> QED
    BY <2>2
<1>3. Cardinality(T) \in Nat /\ Cardinality(L) \in Nat /\ Cardinality(T) <= Cardinality(L)
  BY <1>1, <1>2, FS_CardinalityType, FS_Subset
<1>4. (Cardinality(T) = 0 <=> T = {}) /\ (Cardinality(L) = 0 <=> L = {})
  BY <1>1, FS_EmptySet
<1>5. Among(H, top, Recent) = Cardinality(T) /\ Among(H, top, Longer) = Cardinality(L)
  BY DEF Among
<1>6. /\ (\E i \in H : i - top < Recent) => T # {}
      /\ (\A i \in H : ~ (i - top < Recent)) => T = {}
      /\ H = {} => L = {}
  OBVIOUS
<1> HIDE DEF T, L
<1> QED
  BY <1>3, <1>4, <1>5, <1>6

LEMMA TemperatureIs ==
  \A skip \in Int : /\ Temperature(skip) = "HOT" <=> skip <= HotSkip
                    /\ Temperature(skip) = "COLD" <=> skip > WarmSkip
                    /\ Temperature(skip) \in {"HOT", "WARM", "COLD"}
<1> SUFFICES ASSUME NEW skip \in Int
             PROVE  /\ Temperature(skip) = "HOT" <=> skip <= HotSkip
                    /\ Temperature(skip) = "COLD" <=> skip > WarmSkip
                    /\ Temperature(skip) \in {"HOT", "WARM", "COLD"}
  OBVIOUS
<1>1. HotSkip \in Int /\ WarmSkip \in Int /\ HotSkip < WarmSkip
  BY LotteryAssumption
<1>2. CASE skip <= HotSkip
  <2>1. ~ (HotSkip < skip /\ skip <= WarmSkip) /\ ~ (skip > WarmSkip)
    BY <1>1, <1>2
  <2>2. Temperature(skip) = "HOT"
    BY <1>2, <2>1, Zenon DEF Temperature
  <2> QED
    BY <1>2, <2>1, <2>2
<1>3. CASE HotSkip < skip /\ skip <= WarmSkip
  <2>1. ~ (skip <= HotSkip) /\ ~ (skip > WarmSkip)
    BY <1>1, <1>3
  <2>2. Temperature(skip) = "WARM"
    BY <1>3, <2>1, Zenon DEF Temperature
  <2> QED
    BY <2>1, <2>2
<1>4. CASE skip > WarmSkip
  <2>1. ~ (skip <= HotSkip) /\ ~ (HotSkip < skip /\ skip <= WarmSkip)
    BY <1>1, <1>4
  <2>2. Temperature(skip) = "COLD"
    BY <2>1, Zenon DEF Temperature
  <2> QED
    BY <1>4, <2>1, <2>2
<1> QED
  BY <1>1, <1>2, <1>3, <1>4

LEMMA StatusOf ==
  ASSUME IInv, NEW n \in Nat, NEW before \in Nat \ {0}
  PROVE  LET st == BallStatus(n, before)
             known == Known(before)
         IN /\ st.latest < before /\ st.ten <= st.thirty
            /\ st.latest = 0 => st.thirty = 0
            /\ st.latest # 0 =>
                 /\ st.status = "HOT" <=> \E i \in Hits(n, known) :
                                           draws[i].episode >= draws[Min(known)].episode - HotSkip
                 /\ st.status = "HOT" => st.ten > 0
                 /\ draws[Min(known)].episode = draws[Max(known)].episode + Max(known) - Min(known) =>
                      (st.status = "COLD" => st.ten = 0)
                 /\ Cardinality(FriendlyNumbers(n, before)) = 3
<1>1. PICK K : K = Known(before)
  OBVIOUS
<1>2. PICK H : H = Hits(n, K)
  OBVIOUS
<1>3. CASE K = {}
  BY <1>1, <1>3 DEF BallStatus
<1>4. CASE K # {}
  <2>1. /\ K \subseteq 1 .. Len(draws) /\ Len(draws) \in Nat
        /\ Min(K) \in K /\ \A i \in K : Min(K) <= i
        /\ Max(K) \in K /\ \A i \in K : i <= Max(K)
        /\ \A i \in K : draws[i].episode \in Nat \ {0} /\ draws[i].episode < before
        /\ \A i, j \in K : i <= j => draws[j].episode + (j - i) <= draws[i].episode
    BY <1>1, <1>4, KnownIs
  <2>2. PICK m \in K : m = Min(K)
    BY <2>1
  <2>3. PICK l \in K : l = Max(K)
    BY <2>1
  <2>4. H \subseteq K /\ IsFiniteSet(H) /\ H \subseteq Nat /\ m \in Nat /\ l \in Nat
    <3>1. H \subseteq K
      BY <1>2 DEF Hits
    <3>2. IsFiniteSet(1 .. Len(draws))
      BY <2>1, FS_Interval
    <3>3. H \subseteq 1 .. Len(draws)
      BY <2>1, <3>1
    <3>4. IsFiniteSet(H)
      BY <3>2, <3>3, FS_Subset
    <3> QED
      BY <2>1, <3>1, <3>3, <3>4
  <2>5. PICK st : st = BallStatus(n, before)
    OBVIOUS
  <2>6. /\ st.ten = Among(H, m, Recent) /\ st.thirty = Among(H, m, Longer)
        /\ st.status = Temperature(Skip(H, K)) /\ st.latest = LatestEpisode(H)
    <3>1. st = [ten |-> Among(H, m, Recent), thirty |-> Among(H, m, Longer),
                status |-> Temperature(Skip(H, K)), skip |-> Skip(H, K),
                latest |-> LatestEpisode(H)]
      BY <1>1, <1>2, <1>4, <2>2, <2>5, StatusIs
    <3> QED
      BY <3>1
  <2>7. /\ Among(H, m, Recent) \in Nat /\ Among(H, m, Longer) \in Nat
        /\ Among(H, m, Recent) <= Among(H, m, Longer)
        /\ (\E i \in H : i - m < Recent) => Among(H, m, Recent) > 0
        /\ (\A i \in H : ~ (i - m < Recent)) => Among(H, m, Recent) = 0
        /\ H = {} => Among(H, m, Longer) = 0
    BY <2>4, AmongIs
  <2>8. CASE H = {}
    <3>1. LatestEpisode(H) = 0
      BY <2>8 DEF LatestEpisode
    <3> QED
      BY <2>5, <2>6, <2>7, <2>8, <3>1
  <2>9. CASE H # {}
    <3>1. PICK h \in H : h = Min(H) /\ \A i \in H : h <= i
      BY <2>4, <2>9, MinIs
    <3>2. PICK e \in Nat \ {0} : e = draws[h].episode
      BY <2>1, <2>4, <3>1
    <3>3. PICK new \in Nat \ {0} : new = draws[m].episode
      BY <2>1, <2>2
    <3>4. LatestEpisode(H) = e /\ e < before /\ Skip(H, K) = new - e
      BY <2>1, <2>2, <2>4, <2>9, <3>1, <3>2, <3>3 DEF LatestEpisode, Skip
    <3>5. h \in Nat /\ m <= h /\ h <= l /\ e + (h - m) <= new
      BY <2>1, <2>2, <2>3, <2>4, <3>1, <3>2, <3>3
    <3>6. /\ st.status = "HOT" <=> new - e <= HotSkip
          /\ st.status = "COLD" <=> new - e > WarmSkip
      <4>1. new - e \in Int
        OBVIOUS
      <4> QED
        BY <2>6, <3>4, <4>1, TemperatureIs
    <3>7. HotSkip \in Nat /\ HotSkip < Recent /\ WarmSkip = Recent /\ Recent \in Nat
      BY LotteryAssumption
    <3>8. ASSUME NEW i \in H
          PROVE  draws[i].episode \in Nat /\ draws[i].episode <= e /\ i \in Nat /\ h <= i
      <4>1. i \in K /\ h \in K /\ h <= i /\ i \in Nat
        BY <2>4, <3>1
      <4>2. draws[i].episode + (i - h) <= draws[h].episode
        BY <2>1, <4>1
      <4>3. PICK ei \in Nat : ei = draws[i].episode
        BY <2>1, <4>1
      <4>4. ei + (i - h) <= e
        BY <3>2, <4>2, <4>3
      <4>5. ei <= e
        BY <3>5, <4>1, <4>4
      <4> QED
        BY <4>1, <4>3, <4>5
    <3>9. st.status = "HOT" <=> \E i \in H : draws[i].episode >= new - HotSkip
      <4>1. ASSUME new - e <= HotSkip PROVE \E i \in H : draws[i].episode >= new - HotSkip
        BY <3>1, <3>2, <3>7, <4>1
      <4>2. ASSUME NEW i \in H, draws[i].episode >= new - HotSkip PROVE new - e <= HotSkip
        <5>1. PICK ei \in Nat : ei = draws[i].episode
          BY <3>8
        <5>2. ei <= e /\ ei >= new - HotSkip
          BY <3>8, <4>2, <5>1
        <5> QED
          BY <3>7, <5>2
      <4> QED
        BY <3>6, <4>1, <4>2
    <3>10. ASSUME st.status = "HOT" PROVE st.ten > 0
      <4>1. h - m < Recent
        BY <2>4, <3>5, <3>6, <3>7, <3>10
      <4> QED
        BY <2>6, <2>7, <3>1, <4>1
    <3>11. ASSUME new = draws[l].episode + l - m, st.status = "COLD" PROVE st.ten = 0
      <4>1. PICK old \in Nat : old = draws[l].episode
        BY <2>1, <2>3
      <4>2. old + (l - h) <= e
        <5>1. h \in K /\ l \in K /\ h <= l
          BY <2>3, <2>4, <3>1, <3>5
        <5>2. draws[l].episode + (l - h) <= draws[h].episode
          BY <2>1, <5>1
        <5> QED
          BY <3>2, <4>1, <5>2
      <4>3. new = old + l - m /\ new - e > Recent
        BY <3>6, <3>7, <3>11, <4>1
      <4>4. h - m > Recent
        BY <2>4, <3>5, <3>7, <4>2, <4>3
      <4>5. \A i \in H : ~ (i - m < Recent)
        BY <2>4, <3>5, <3>7, <3>8, <4>4
      <4> QED
        BY <2>6, <2>7, <4>5
    <3>12. Cardinality(FriendlyNumbers(n, before)) = 3
      BY <1>1, <1>2, <3>1, ThreeFriends
    <3>13. st.latest = e /\ st.ten <= st.thirty
      BY <2>6, <2>7, <3>4
    <3> QED
      BY <1>1, <1>2, <2>2, <2>3, <2>5, <3>3, <3>4, <3>9, <3>10, <3>11, <3>12, <3>13
  <2> QED
    BY <2>8, <2>9
<1> QED
  BY <1>3, <1>4

LEMMA StatusHolds == IInv => StatusAgrees
<1> SUFFICES ASSUME IInv PROVE StatusAgrees
  OBVIOUS
<1>1. \A n \in Range(slip) : n \in Nat
  <2>1. slip \in [Places -> Numbers]
    BY LotteryAssumption DEF IInv, TypeOK
  <2> QED
    BY <2>1 DEF Range, Numbers
<1>2. \A before \in 1 .. Newest + 1 : before \in Nat \ {0}
  OBVIOUS
<1> QED
  BY <1>1, <1>2, StatusOf DEF StatusAgrees

\* The status of a ball knows earlier draws only, and what it says agrees.
THEOREM Status == Spec => []StatusAgrees
BY Invariance, StatusHolds, PTL

-----------------------------------------------------------------------------
(* The features: what is counted by places adds up.                        *)

LEMMA TwoParts ==
  ASSUME NEW s, NEW A, NEW B, \A i \in Places : s[i] \in A <=> s[i] \notin B
  PROVE  Count(s, A) + Count(s, B) = 6
<1>1. \A i \in {1, 2, 3, 4, 5, 6} : /\ Bit(s[i] \in A) \in 0 .. 1 /\ Bit(s[i] \in B) \in 0 .. 1
                                   /\ Bit(s[i] \in A) + Bit(s[i] \in B) = 1
  BY PlacesAre DEF Bit
<1> QED
  BY <1>1, CountIs

LEMMA ThreeParts ==
  ASSUME NEW s, NEW A, NEW B, NEW C,
         \A i \in Places : Bit(s[i] \in A) + Bit(s[i] \in B) + Bit(s[i] \in C) = 1
  PROVE  Count(s, A) + Count(s, B) + Count(s, C) = 6
<1>1. \A i \in {1, 2, 3, 4, 5, 6} : /\ Bit(s[i] \in A) \in 0 .. 1 /\ Bit(s[i] \in B) \in 0 .. 1
                                   /\ Bit(s[i] \in C) \in 0 .. 1
                                   /\ Bit(s[i] \in A) + Bit(s[i] \in B) + Bit(s[i] \in C) = 1
  BY PlacesAre DEF Bit
<1> QED
  BY <1>1, CountIs

\* A number is its last digit and its tens.
Tens(m) == {n \in Numbers : n \div 10 = m}

LEMMA TensOf ==
  ASSUME NEW n \in Numbers
  PROVE  /\ Bit(n \in Tens(0)) + Bit(n \in Tens(1)) + Bit(n \in Tens(2))
              + Bit(n \in Tens(3)) + Bit(n \in Tens(4)) = 1
         /\ n = (n % 10) + 10 * (Bit(n \in Tens(1)) + 2 * Bit(n \in Tens(2))
                               + 3 * Bit(n \in Tens(3)) + 4 * Bit(n \in Tens(4)))
<1>1. n \in 0 .. 45 /\ n = (n % 10) + 10 * (n \div 10) /\ n % 10 \in 0 .. 9 /\ n \div 10 \in 0 .. 4
  BY DEF Numbers
<1>2. PICK t \in 0 .. 4 : t = n \div 10
  BY <1>1
<1>3. \A m : n \in Tens(m) <=> t = m
  BY <1>2 DEF Tens
<1>4. /\ Bit(n \in Tens(0)) = Bit(t = 0) /\ Bit(n \in Tens(1)) = Bit(t = 1)
      /\ Bit(n \in Tens(2)) = Bit(t = 2) /\ Bit(n \in Tens(3)) = Bit(t = 3)
      /\ Bit(n \in Tens(4)) = Bit(t = 4)
  BY <1>3 DEF Bit
<1>5. /\ Bit(t = 0) + Bit(t = 1) + Bit(t = 2) + Bit(t = 3) + Bit(t = 4) = 1
      /\ t = Bit(t = 1) + 2 * Bit(t = 2) + 3 * Bit(t = 3) + 4 * Bit(t = 4)
  BY DEF Bit
<1> QED
  BY <1>1, <1>2, <1>4, <1>5

\* A count is a sum over the places, and sums over the places are linear.
LEMMA CountTotal ==
  ASSUME NEW s, NEW some
  PROVE  Count(s, some) = Total([i \in Places |-> Bit(s[i] \in some)])
<1> DEFINE f == [i \in Places |-> Bit(s[i] \in some)]
<1>1. /\ f[1] = Bit(s[1] \in some) /\ f[2] = Bit(s[2] \in some) /\ f[3] = Bit(s[3] \in some)
      /\ f[4] = Bit(s[4] \in some) /\ f[5] = Bit(s[5] \in some) /\ f[6] = Bit(s[6] \in some)
  BY PlacesAre
<1>2. Total(f) = f[1] + f[2] + f[3] + f[4] + f[5] + f[6]
  BY DEF Total
<1> HIDE DEF f
<1>3. Count(s, some) = Total(f)
  BY <1>1, <1>2, CountIs
<1> QED
  BY <1>3 DEF f

Plus(f, k, g) == [i \in Places |-> f[i] + k * g[i]]

LEMMA TotalLinear ==
  \A f, g \in [Places -> Int], k \in Int :
    /\ Plus(f, k, g) \in [Places -> Int]
    /\ Total(Plus(f, k, g)) = Total(f) + k * Total(g)
    /\ Total(f) \in Int /\ Total(g) \in Int
<1> SUFFICES ASSUME NEW f \in [Places -> Int], NEW g \in [Places -> Int], NEW k \in Int
             PROVE  /\ Plus(f, k, g) \in [Places -> Int]
                    /\ Total(Plus(f, k, g)) = Total(f) + k * Total(g)
                    /\ Total(f) \in Int /\ Total(g) \in Int
  OBVIOUS
<1>1. PICK h : h = Plus(f, k, g)
  OBVIOUS
<1>2. PICK f1, f2, f3, f4, f5, f6 \in Int :
        f[1] = f1 /\ f[2] = f2 /\ f[3] = f3 /\ f[4] = f4 /\ f[5] = f5 /\ f[6] = f6
  BY PlacesAre
<1>3. PICK g1, g2, g3, g4, g5, g6 \in Int :
        g[1] = g1 /\ g[2] = g2 /\ g[3] = g3 /\ g[4] = g4 /\ g[5] = g5 /\ g[6] = g6
  BY PlacesAre
<1>4. /\ h[1] = f1 + k * g1 /\ h[2] = f2 + k * g2 /\ h[3] = f3 + k * g3
      /\ h[4] = f4 + k * g4 /\ h[5] = f5 + k * g5 /\ h[6] = f6 + k * g6
  BY <1>1, <1>2, <1>3, PlacesAre DEF Plus
<1>5. (f1 + k * g1) + (f2 + k * g2) + (f3 + k * g3) + (f4 + k * g4) + (f5 + k * g5) + (f6 + k * g6)
        = (f1 + f2 + f3 + f4 + f5 + f6) + k * (g1 + g2 + g3 + g4 + g5 + g6)
  OBVIOUS
<1>6. h \in [Places -> Int]
  BY <1>1 DEF Plus
<1>7. /\ Total(f) = f1 + f2 + f3 + f4 + f5 + f6
      /\ Total(g) = g1 + g2 + g3 + g4 + g5 + g6
      /\ Total(h) = (f1 + f2 + f3 + f4 + f5 + f6) + k * (g1 + g2 + g3 + g4 + g5 + g6)
  BY <1>2, <1>3, <1>4, <1>5 DEF Total
<1> QED
  BY <1>1, <1>6, <1>7

LEMMA TensAdd ==
  ASSUME NEW s \in [Places -> Numbers],
         NEW c, c = [m \in 0 .. 4 |-> CountByMultiOfTen(s, m)]
  PROVE  /\ c[0] + c[1] + c[2] + c[3] + c[4] = 6
         /\ Total(s) = SumOfLastDigits(s) + 10 * (c[1] + 2 * c[2] + 3 * c[3] + 4 * c[4])
<1> DEFINE b(m) == [i \in Places |-> Bit(s[i] \in Tens(m))]
<1>1. PICK b0, b1, b2, b3, b4 :
        b0 = b(0) /\ b1 = b(1) /\ b2 = b(2) /\ b3 = b(3) /\ b4 = b(4)
  OBVIOUS
<1>2. /\ b0 \in [Places -> Int] /\ b1 \in [Places -> Int] /\ b2 \in [Places -> Int]
      /\ b3 \in [Places -> Int] /\ b4 \in [Places -> Int]
  BY <1>1 DEF Bit
<1>3. \A m \in 0 .. 4 : c[m] = Total(b(m))
  <2> SUFFICES ASSUME NEW m \in 0 .. 4 PROVE c[m] = Total(b(m))
    OBVIOUS
  <2>1. PICK T : T = Tens(m)
    OBVIOUS
  <2>2. Count(s, T) = Total([i \in Places |-> Bit(s[i] \in T)])
    BY CountTotal
  <2>3. c[m] = Count(s, T)
    BY <2>1 DEF CountByMultiOfTen, Tens
  <2> QED
    BY <2>1, <2>2, <2>3
<1>4. /\ c[0] = Total(b0) /\ c[1] = Total(b1) /\ c[2] = Total(b2) /\ c[3] = Total(b3)
      /\ c[4] = Total(b4)
  BY <1>1, <1>3
<1>5. PICK d : d = [i \in Places |-> s[i] % 10]
  OBVIOUS
<1>6. \A i \in Places : s[i] \in Int /\ s[i] % 10 \in Int
  BY DEF Numbers
<1>7. d \in [Places -> Int] /\ s \in [Places -> Int] /\ Total(d) = SumOfLastDigits(s)
  BY <1>5, <1>6 DEF SumOfLastDigits
<1>8. \A i \in Places :
        /\ b0[i] + b1[i] + b2[i] + b3[i] + b4[i] = 1
        /\ s[i] = d[i] + 10 * (b1[i] + 2 * b2[i] + 3 * b3[i] + 4 * b4[i])
  <2> SUFFICES ASSUME NEW i \in Places
               PROVE  /\ b0[i] + b1[i] + b2[i] + b3[i] + b4[i] = 1
                      /\ s[i] = d[i] + 10 * (b1[i] + 2 * b2[i] + 3 * b3[i] + 4 * b4[i])
    OBVIOUS
  <2>1. PICK n \in Numbers : n = s[i]
    OBVIOUS
  <2>2. /\ b0[i] = Bit(n \in Tens(0)) /\ b1[i] = Bit(n \in Tens(1)) /\ b2[i] = Bit(n \in Tens(2))
        /\ b3[i] = Bit(n \in Tens(3)) /\ b4[i] = Bit(n \in Tens(4)) /\ d[i] = n % 10
    BY <1>1, <1>5, <2>1
  <2> QED
    BY <2>1, <2>2, TensOf
<1> HIDE DEF b
<1>a. 1 \in Int /\ 2 \in Int /\ 3 \in Int /\ 4 \in Int /\ 10 \in Int
  OBVIOUS
<1>9. PICK h2, h3, tens : h2 = Plus(b1, 2, b2) /\ h3 = Plus(h2, 3, b3) /\ tens = Plus(h3, 4, b4)
  OBVIOUS
<1>10. /\ tens \in [Places -> Int]
       /\ Total(tens) = ((Total(b1) + 2 * Total(b2)) + 3 * Total(b3)) + 4 * Total(b4)
  <2>1. h2 \in [Places -> Int] /\ Total(h2) = Total(b1) + 2 * Total(b2)
    BY <1>2, <1>9, <1>a, TotalLinear, ZenonT(40)
  <2>2. h3 \in [Places -> Int] /\ Total(h3) = Total(h2) + 3 * Total(b3)
    BY <1>2, <1>9, <1>a, <2>1, TotalLinear, ZenonT(40)
  <2>3. tens \in [Places -> Int] /\ Total(tens) = Total(h3) + 4 * Total(b4)
    BY <1>2, <1>9, <1>a, <2>2, TotalLinear, ZenonT(40)
  <2> QED
    BY <2>1, <2>2, <2>3
<1>11. s = Plus(d, 10, tens)
  <2>1. \A i \in Places : tens[i] = ((b1[i] + 2 * b2[i]) + 3 * b3[i]) + 4 * b4[i]
    BY <1>9 DEF Plus
  <2> QED
    BY <1>8, <2>1 DEF Plus
<1>12. Total(s) = Total(d) + 10 * Total(tens)
  BY <1>7, <1>10, <1>11, <1>a, TotalLinear, ZenonT(40)
<1>13. PICK u1, u2, u3, one : /\ u1 = Plus(b0, 1, b1) /\ u2 = Plus(u1, 1, b2)
                              /\ u3 = Plus(u2, 1, b3) /\ one = Plus(u3, 1, b4)
  OBVIOUS
<1>14. Total(one) = (((Total(b0) + 1 * Total(b1)) + 1 * Total(b2)) + 1 * Total(b3)) + 1 * Total(b4)
  <2>1. u1 \in [Places -> Int] /\ Total(u1) = Total(b0) + 1 * Total(b1)
    BY <1>2, <1>13, <1>a, TotalLinear, ZenonT(40)
  <2>2. u2 \in [Places -> Int] /\ Total(u2) = Total(u1) + 1 * Total(b2)
    BY <1>2, <1>13, <1>a, <2>1, TotalLinear, ZenonT(40)
  <2>3. u3 \in [Places -> Int] /\ Total(u3) = Total(u2) + 1 * Total(b3)
    BY <1>2, <1>13, <1>a, <2>2, TotalLinear, ZenonT(40)
  <2>4. Total(one) = Total(u3) + 1 * Total(b4)
    BY <1>2, <1>13, <1>a, <2>3, TotalLinear, ZenonT(40)
  <2> QED
    BY <2>1, <2>2, <2>3, <2>4
<1>15. Total(one) = 6
  <2>1. ASSUME NEW i \in Places PROVE one[i] = 1
    <3>1. /\ b0[i] \in Int /\ b1[i] \in Int /\ b2[i] \in Int /\ b3[i] \in Int /\ b4[i] \in Int
          /\ one[i] = (((b0[i] + 1 * b1[i]) + 1 * b2[i]) + 1 * b3[i]) + 1 * b4[i]
      BY <1>2, <1>13 DEF Plus
    <3> QED
      BY <1>8, <3>1
  <2> QED
    BY <2>1, PlacesAre DEF Total
<1>16. PICK t0, t1, t2, t3, t4 \in Int :
         t0 = Total(b0) /\ t1 = Total(b1) /\ t2 = Total(b2) /\ t3 = Total(b3) /\ t4 = Total(b4)
  BY <1>2, <1>a, TotalLinear, ZenonT(40)
<1>17. t0 + t1 + t2 + t3 + t4 = 6
  BY <1>14, <1>15, <1>16
<1>18. Total(s) = Total(d) + 10 * (t1 + 2 * t2 + 3 * t3 + 4 * t4)
  BY <1>10, <1>12, <1>16
<1> QED
  BY <1>4, <1>7, <1>16, <1>17, <1>18

-----------------------------------------------------------------------------
(* Primes, multiples of three, and the rest.                               *)

LEMMA Remainder ==
  ASSUME NEW k \in Nat \ {0}, NEW i \in Nat
  PROVE  (k * i) % k = 0
<1> DEFINE n == k * i
<1>1. n \in Nat
  OBVIOUS
<1> HIDE DEF n
<1>2. PICK q \in Int, r \in Int : n = k * q + r /\ 0 <= r /\ r < k /\ r = n % k
  BY <1>1
<1>3. k * (i - q) = r
  BY <1>2 DEF n
<1>4. ASSUME i - q >= 1 PROVE FALSE
  <2>1. k * (i - q) >= k
    BY <1>2, <1>4
  <2> QED
    BY <1>2, <1>3, <2>1
<1>5. ASSUME i - q <= -1 PROVE FALSE
  <2>1. k * (i - q) <= -k
    BY <1>2, <1>5
  <2> QED
    BY <1>2, <1>3, <2>1
<1>6. i - q = 0
  BY <1>2, <1>4, <1>5
<1> QED
  BY <1>2, <1>3, <1>6 DEF n

\* Trial up to the square root is enough.
LEMMA PrimeIs ==
  ASSUME NEW n \in Nat, n > 1
  PROVE  IsPrime(n) <=> ~ HasDivisor(n)
<1>1. ASSUME NEW i \in 2 .. n, i * i <= n, n % i = 0 PROVE HasDivisor(n)
  <2>1. i # n
    <3> SUFFICES ASSUME i = n PROVE FALSE
      OBVIOUS
    <3>1. n * n >= 2 * n
      OBVIOUS
    <3> QED
      BY <1>1, <3>1
  <2>2. i \in 2 .. n - 1
    BY <2>1
  <2> QED
    BY <1>1, <2>2 DEF HasDivisor
<1>2. ASSUME NEW i \in 2 .. n - 1, n % i = 0
      PROVE  \E j \in 2 .. n : j * j <= n /\ n % j = 0
  <2>1. PICK k \in Nat : n = i * k
    <3>1. i \in Nat \ {0}
      OBVIOUS
    <3>2. n = i * (n \div i) + (n % i) /\ n \div i \in Nat
      BY <3>1
    <3> QED
      BY <1>2, <3>2
  <2>2. k # 0 /\ k # 1
    BY <2>1
  <2>3. CASE i * i <= n
    <3>1. i \in 2 .. n
      OBVIOUS
    <3> QED
      BY <1>2, <2>3, <3>1
  <2>4. CASE ~ (i * i <= n)
    <3>1. k < i
      <4> SUFFICES ASSUME k >= i PROVE FALSE
        BY <2>1
      <4>1. i * i <= i * k
        BY <2>1
      <4> QED
        BY <2>1, <2>4, <4>1
    <3>2. k * k <= i * k
      BY <2>1, <3>1
    <3>3. n % k = 0
      <4>1. (k * i) % k = 0
        BY <2>1, <2>2, Remainder
      <4>2. k * i = n
        BY <2>1
      <4> QED
        BY <4>1, <4>2
    <3>4. k \in 2 .. n
      BY <2>1, <2>2, <3>1
    <3> QED
      BY <2>1, <3>2, <3>3, <3>4
  <2> QED
    BY <2>3, <2>4
<1>3. IsPrime(n) <=> ~ (\E j \in 2 .. n : j * j <= n /\ n % j = 0)
  BY DEF IsPrime
<1>4. HasDivisor(n) <=> \E i \in 2 .. n - 1 : n % i = 0
  BY DEF HasDivisor
<1> QED
  BY <1>1, <1>2, <1>3, <1>4

Primes == {n \in Numbers : IsPrime(n)}
Thirds == {n \in Numbers : n # 3 /\ n % 3 = 0}
Rest == {n \in Numbers : n = 1 \/ (n % 3 # 0 /\ HasDivisor(n))}

LEMMA Kinds ==
  ASSUME NEW n \in Numbers
  PROVE  Bit(n \in Primes) + Bit(n \in Thirds) + Bit(n \in Rest) = 1
<1>0. n \in Nat
  BY DEF Numbers
<1>1. CASE n = 0
  <2>1. n \notin Primes /\ n \in Thirds /\ n \notin Rest
    BY <1>1 DEF Primes, Thirds, Rest, IsPrime
  <2> QED
    BY <2>1 DEF Bit
<1>2. CASE n = 1
  <2>1. n \notin Primes /\ n \notin Thirds /\ n \in Rest
    BY <1>2 DEF Primes, Thirds, Rest, IsPrime
  <2> QED
    BY <2>1 DEF Bit
<1>3. CASE n > 1 /\ n % 3 # 0
  <2>1. n \notin Thirds /\ (n \in Primes <=> ~ HasDivisor(n)) /\ (n \in Rest <=> HasDivisor(n))
    BY <1>0, <1>3, PrimeIs DEF Primes, Thirds, Rest
  <2> QED
    BY <2>1 DEF Bit
<1>4. CASE n = 3
  <2>1. \A i \in 2 .. 3 : i * i > 3
    OBVIOUS
  <2>2. n \in Primes /\ n \notin Thirds /\ n \notin Rest
    BY <1>4, <2>1 DEF Primes, Thirds, Rest, IsPrime
  <2> QED
    BY <2>2 DEF Bit
<1>5. CASE n > 3 /\ n % 3 = 0
  <2>1. HasDivisor(n)
    <3>1. 3 \in 2 .. n - 1
      BY <1>0, <1>5
    <3> QED
      BY <1>5, <3>1 DEF HasDivisor
  <2>2. ~ IsPrime(n)
    BY <1>0, <1>5, <2>1, PrimeIs
  <2>3. n \notin Primes /\ n \in Thirds /\ n \notin Rest
    BY <1>0, <1>5, <2>2 DEF Primes, Thirds, Rest
  <2> QED
    BY <2>3 DEF Bit
<1>6. n > 1 /\ n % 3 = 0 => n >= 3
  BY <1>0
<1> QED
  BY <1>0, <1>1, <1>2, <1>3, <1>4, <1>5, <1>6

-----------------------------------------------------------------------------
(* The arithmetic complexity.                                              *)

LEMMA Rising ==
  ASSUME NEW s \in [Places -> Numbers], Ascending(s)
  PROVE  \A i, j \in Places : i < j => s[i] < s[j]
<1>0. s[1] \in Nat /\ s[2] \in Nat /\ s[3] \in Nat /\ s[4] \in Nat /\ s[5] \in Nat /\ s[6] \in Nat
  <2>1. \A i \in Places : s[i] \in Nat
    BY DEF Numbers
  <2> QED
    BY <2>1, PlacesAre
<1>1. PICK f1, f2, f3, f4, f5, f6 \in Nat :
        s[1] = f1 /\ s[2] = f2 /\ s[3] = f3 /\ s[4] = f4 /\ s[5] = f5 /\ s[6] = f6
  BY <1>0
<1>2. s[1] < s[2] /\ s[2] < s[3] /\ s[3] < s[4] /\ s[4] < s[5] /\ s[5] < s[6]
  BY DEF Ascending
<1>3. f1 < f2 /\ f2 < f3 /\ f3 < f4 /\ f4 < f5 /\ f5 < f6
  BY <1>1, <1>2
<1> QED
  BY <1>1, <1>3, PlacesAre

LEMMA Complexity ==
  ASSUME NEW s \in [Places -> Numbers], Ascending(s)
  PROVE  ArithmeticComplexity(s) \in 0 .. 10
<1> DEFINE D == Differences(s)
<1>0. \A i \in Places : s[i] \in Int
  BY DEF Numbers
<1>1. D = {s[2] - s[1], s[3] - s[1], s[4] - s[1], s[5] - s[1], s[6] - s[1],
           s[3] - s[2], s[4] - s[2], s[5] - s[2], s[6] - s[2], s[4] - s[3],
           s[5] - s[3], s[6] - s[3], s[5] - s[4], s[6] - s[4], s[6] - s[5]}
  <2>1. \A i, j \in Places : i < j <=>
          \/ i = 1 /\ j \in {2, 3, 4, 5, 6}
          \/ i = 2 /\ j \in {3, 4, 5, 6}
          \/ i = 3 /\ j \in {4, 5, 6}
          \/ i = 4 /\ j \in {5, 6}
          \/ i = 5 /\ j = 6
    BY PlacesAre
  <2>2. \A x : x \in D <=> \E i, j \in Places : i < j /\ x = s[j] - s[i]
    <3>1. D = {s[p[2]] - s[p[1]] : p \in {q \in Places \X Places : q[1] < q[2]}}
      BY DEF Differences
    <3>2. ASSUME NEW x, x \in D PROVE \E i, j \in Places : i < j /\ x = s[j] - s[i]
      <4>1. PICK p \in Places \X Places : p[1] < p[2] /\ x = s[p[2]] - s[p[1]]
        BY <3>1, <3>2
      <4> QED
        BY <4>1
    <3>3. ASSUME NEW i \in Places, NEW j \in Places, i < j PROVE s[j] - s[i] \in D
      <4>1. <<i, j>> \in {q \in Places \X Places : q[1] < q[2]}
        BY <3>3
      <4> QED
        BY <3>1, <4>1
    <3> HIDE DEF D
    <3> QED
      BY <3>2, <3>3
  <2> HIDE DEF D
  <2>3. \A x : x \in D <=>
          \/ \E j \in {2, 3, 4, 5, 6} : x = s[j] - s[1]
          \/ \E j \in {3, 4, 5, 6} : x = s[j] - s[2]
          \/ \E j \in {4, 5, 6} : x = s[j] - s[3]
          \/ \E j \in {5, 6} : x = s[j] - s[4]
          \/ x = s[6] - s[5]
    <3>1. \A j \in {2, 3, 4, 5, 6} : j \in Places
      BY PlacesAre
    <3>2. 1 \in Places /\ 2 \in Places /\ 3 \in Places /\ 4 \in Places /\ 5 \in Places /\ 6 \in Places
      BY PlacesAre
    <3>3. ASSUME NEW x, x \in D
          PROVE  \/ \E j \in {2, 3, 4, 5, 6} : x = s[j] - s[1]
                 \/ \E j \in {3, 4, 5, 6} : x = s[j] - s[2]
                 \/ \E j \in {4, 5, 6} : x = s[j] - s[3]
                 \/ \E j \in {5, 6} : x = s[j] - s[4]
                 \/ x = s[6] - s[5]
      <4>1. PICK i, j \in Places : i < j /\ x = s[j] - s[i]
        BY <2>2, <3>3
      <4> QED
        BY <2>1, <4>1
    <3>4. \A i, j \in Places : i < j => s[j] - s[i] \in D
      BY <2>2
    <3>5. /\ \A j \in {2, 3, 4, 5, 6} : s[j] - s[1] \in D
          /\ \A j \in {3, 4, 5, 6} : s[j] - s[2] \in D
          /\ \A j \in {4, 5, 6} : s[j] - s[3] \in D
          /\ \A j \in {5, 6} : s[j] - s[4] \in D
          /\ s[6] - s[5] \in D
      BY <2>1, <3>1, <3>2, <3>4
    <3> QED
      BY <3>3, <3>5
  <2> QED
    BY <2>3, ZenonT(60)
<1>2. IsFiniteSet(D) /\ Cardinality(D) <= 15
  <2>1. PICK g : g = [k \in 1 .. 15 |->
          CASE k = 1 -> s[2] - s[1] [] k = 2 -> s[3] - s[1] [] k = 3 -> s[4] - s[1]
            [] k = 4 -> s[5] - s[1] [] k = 5 -> s[6] - s[1] [] k = 6 -> s[3] - s[2]
            [] k = 7 -> s[4] - s[2] [] k = 8 -> s[5] - s[2] [] k = 9 -> s[6] - s[2]
            [] k = 10 -> s[4] - s[3] [] k = 11 -> s[5] - s[3] [] k = 12 -> s[6] - s[3]
            [] k = 13 -> s[5] - s[4] [] k = 14 -> s[6] - s[4] [] k = 15 -> s[6] - s[5]]
    OBVIOUS
  <2>2. /\ g[1] = s[2] - s[1] /\ g[2] = s[3] - s[1] /\ g[3] = s[4] - s[1]
        /\ g[4] = s[5] - s[1] /\ g[5] = s[6] - s[1] /\ g[6] = s[3] - s[2]
        /\ g[7] = s[4] - s[2] /\ g[8] = s[5] - s[2] /\ g[9] = s[6] - s[2]
        /\ g[10] = s[4] - s[3] /\ g[11] = s[5] - s[3] /\ g[12] = s[6] - s[3]
        /\ g[13] = s[5] - s[4] /\ g[14] = s[6] - s[4] /\ g[15] = s[6] - s[5]
    BY <2>1
  <2>3. g \in Surjection(1 .. 15, D)
    <3>1. D = {g[k] : k \in 1 .. 15}
      BY <1>1, <2>2
    <3>2. DOMAIN g = 1 .. 15 /\ g = [k \in 1 .. 15 |-> g[k]]
      BY <2>1
    <3> HIDE DEF D
    <3> QED
      BY <3>1, <3>2 DEF Surjection
  <2>4. IsFiniteSet(1 .. 15) /\ Cardinality(1 .. 15) = 15
    <3>1. 1 \in Int /\ 15 \in Int
      OBVIOUS
    <3>2. IsFiniteSet(1 .. 15) /\ Cardinality(1 .. 15) = IF 1 > 15 THEN 0 ELSE 15 - 1 + 1
      BY <3>1, FS_Interval
    <3> QED
      BY <3>2
  <2> HIDE DEF D
  <2>5. IsFiniteSet(D) /\ Cardinality(D) <= Cardinality(1 .. 15)
    BY <2>3, <2>4, FS_Surjection
  <2> QED
    BY <2>4, <2>5
<1>3. 5 <= Cardinality(D)
  <2>1. PICK g : g = [k \in 2 .. 6 |-> s[k] - s[1]]
    OBVIOUS
  <2>2. \A k \in 2 .. 6 : k \in Places /\ g[k] = s[k] - s[1] /\ s[k] \in Int
    BY <1>0, <2>1 DEF Places
  <2>3. \A j, k \in 2 .. 6 : g[j] = g[k] => j = k
    <3> SUFFICES ASSUME NEW j \in 2 .. 6, NEW k \in 2 .. 6, g[j] = g[k] PROVE j = k
      OBVIOUS
    <3>1. PICK x, y, z \in Int : x = s[j] /\ y = s[k] /\ z = s[1]
      BY <1>0, <2>2, PlacesAre
    <3>2. x - z = y - z
      BY <2>2, <3>1
    <3>3. x = y
      BY <3>2
    <3>4. ~ (s[j] < s[k]) /\ ~ (s[k] < s[j])
      BY <3>1, <3>3
    <3>5. ~ (j < k) /\ ~ (k < j)
      BY <2>2, <3>4, Rising
    <3> QED
      BY <3>5
  <2>4. g \in [2 .. 6 -> D]
    <3>1. \A k \in 2 .. 6 : k \in {2, 3, 4, 5, 6}
      OBVIOUS
    <3>2. \A k \in 2 .. 6 : s[k] - s[1] \in D
      BY <1>1, <3>1
    <3> QED
      BY <2>1, <3>2
  <2>5. g \in Injection(2 .. 6, D)
    <3> HIDE DEF D
    <3> QED
      BY <2>1, <2>3, <2>4 DEF Injection, IsInjective
  <2>6. Cardinality(2 .. 6) = 5
    <3>1. 2 \in Int /\ 6 \in Int
      OBVIOUS
    <3>2. Cardinality(2 .. 6) = IF 2 > 6 THEN 0 ELSE 6 - 2 + 1
      BY <3>1, FS_Interval
    <3> QED
      BY <3>2
  <2> HIDE DEF D
  <2>7. Cardinality(2 .. 6) <= Cardinality(D)
    BY <1>2, <2>5, FS_Injection
  <2> QED
    BY <2>6, <2>7
<1> HIDE DEF D
<1>4. Cardinality(D) \in Nat
  BY <1>2, FS_CardinalityType
<1>5. ArithmeticComplexity(s) = Cardinality(D) - 5
  BY DEF ArithmeticComplexity, D
<1> QED
  BY <1>2, <1>3, <1>4, <1>5

-----------------------------------------------------------------------------
(* The runs.                                                               *)

Link(s, k) == s[k + 1] - s[k] = 1
Block(s, a, b) == {s[k] : k \in a .. b}

\* The places from a to b hold consecutive numbers, and the one before a does not join.
Grows(s, a, b) == (\A k \in a .. b - 1 : Link(s, k)) /\ (a = 1 \/ ~ Link(s, a - 1))
RunAt(s, a, b) == /\ a \in Places /\ b \in Places /\ a < b /\ Grows(s, a, b)
                  /\ b = 6 \/ ~ Link(s, b)
RunsTo(s, i) == {Block(s, p[1], p[2]) : p \in {q \in Places \X Places : RunAt(s, q[1], q[2]) /\ q[2] <= i}}

NoRuns == [done |-> {}, open |-> {}]
Joined(s, r, i) == IF Link(s, i)
                     THEN [done |-> r.done, open |-> r.open \cup {s[i], s[i + 1]}]
                     ELSE [done |-> Closed(r), open |-> {}]

\* What is known of the runs after so many pairs: those that end before, and the one
\* still open.
After(s, r, i) == /\ r.done = RunsTo(s, i)
                  /\ IF i > 0 /\ Link(s, i)
                       THEN \E a \in 1 .. i : Grows(s, a, i + 1) /\ r.open = Block(s, a, i + 1)
                       ELSE r.open = {}

LEMMA ClosedRuns ==
  ASSUME NEW s \in [Places -> Numbers], NEW i \in 0 .. 5, NEW r, After(s, r, i),
         i = 5 \/ ~ Link(s, i + 1)
  PROVE  Closed(r) = RunsTo(s, i + 1)
<1>1. \A a, b : RunAt(s, a, b) => a \in Nat /\ b \in Nat /\ a < b
  BY DEF RunAt, Places
<1>2. RunsTo(s, i + 1) = RunsTo(s, i) \cup {Block(s, a, i + 1) : a \in {c \in Places : RunAt(s, c, i + 1)}}
  <2>1. ASSUME NEW R \in RunsTo(s, i + 1), R \notin RunsTo(s, i)
        PROVE  R \in {Block(s, a, i + 1) : a \in {c \in Places : RunAt(s, c, i + 1)}}
    <3>1. PICK p \in Places \X Places : RunAt(s, p[1], p[2]) /\ p[2] <= i + 1 /\ R = Block(s, p[1], p[2])
      BY <2>1 DEF RunsTo
    <3>2. ~ (p[2] <= i)
      BY <2>1, <3>1 DEF RunsTo
    <3>3. p[2] = i + 1
      BY <1>1, <3>1, <3>2
    <3> QED
      BY <3>1, <3>3
  <2>2. RunsTo(s, i) \subseteq RunsTo(s, i + 1)
    <3> SUFFICES ASSUME NEW p \in Places \X Places, RunAt(s, p[1], p[2]), p[2] <= i
                 PROVE  p[2] <= i + 1
      BY DEF RunsTo
    <3> QED
      BY <1>1
  <2>3. ASSUME NEW a \in Places, RunAt(s, a, i + 1) PROVE Block(s, a, i + 1) \in RunsTo(s, i + 1)
    <3>1. <<a, i + 1>> \in Places \X Places
      BY <2>3 DEF RunAt
    <3> QED
      BY <2>3, <3>1 DEF RunsTo
  <2> QED
    BY <2>1, <2>2, <2>3
<1>3. CASE i > 0 /\ Link(s, i)
  <2>1. PICK a \in 1 .. i : Grows(s, a, i + 1) /\ r.open = Block(s, a, i + 1)
    BY <1>3 DEF After
  <2>2. s[a] \in Block(s, a, i + 1)
    BY DEF Block
  <2>3. RunAt(s, a, i + 1)
    BY <2>1 DEF RunAt, Places
  <2>4. ASSUME NEW c \in Places, RunAt(s, c, i + 1) PROVE c = a
    <3>0. c \in Nat \ {0} /\ c < i + 1 /\ a \in Nat
      BY <1>1, <2>4 DEF Places
    <3>1. Grows(s, c, i + 1)
      BY <2>4 DEF RunAt
    <3>2. ~ (c < a)
      <4> SUFFICES ASSUME c < a PROVE FALSE
        OBVIOUS
      <4>1. a - 1 \in c .. (i + 1) - 1 /\ a # 1
        BY <3>0
      <4>2. Link(s, a - 1)
        BY <3>1, <4>1 DEF Grows
      <4> QED
        BY <2>1, <4>1, <4>2 DEF Grows
    <3>3. ~ (a < c)
      <4> SUFFICES ASSUME a < c PROVE FALSE
        OBVIOUS
      <4>1. c - 1 \in a .. (i + 1) - 1 /\ c # 1
        BY <3>0
      <4>2. Link(s, c - 1)
        BY <2>1, <4>1 DEF Grows
      <4> QED
        BY <3>1, <4>1, <4>2 DEF Grows
    <3> QED
      BY <3>0, <3>2, <3>3
  <2>5. a \in Places
    BY DEF Places
  <2>6. {Block(s, d, i + 1) : d \in {c \in Places : RunAt(s, c, i + 1)}} = {Block(s, a, i + 1)}
    BY <2>3, <2>4, <2>5
  <2>7. Closed(r) = RunsTo(s, i) \cup {Block(s, a, i + 1)}
    BY <2>1, <2>2 DEF Closed, After
  <2> QED
    BY <1>2, <2>6, <2>7
<1>4. CASE ~ (i > 0 /\ Link(s, i))
  <2>1. ASSUME NEW c \in Places, RunAt(s, c, i + 1) PROVE FALSE
    <3>1. c \in Nat \ {0} /\ c < i + 1
      BY <1>1, <2>1 DEF Places
    <3>2. i \in c .. (i + 1) - 1 /\ i > 0
      BY <3>1
    <3>3. Link(s, i)
      BY <2>1, <3>2 DEF RunAt, Grows
    <3> QED
      BY <1>4, <3>2, <3>3
  <2>2. Closed(r) = RunsTo(s, i)
    BY <1>4 DEF Closed, After
  <2> QED
    BY <1>2, <2>1, <2>2
<1> QED
  BY <1>3, <1>4

LEMMA NextRuns ==
  ASSUME NEW s \in [Places -> Numbers], NEW i \in 0 .. 4, NEW r, After(s, r, i)
  PROVE  After(s, Joined(s, r, i + 1), i + 1)
<1>1. CASE ~ Link(s, i + 1)
  <2>1. Closed(r) = RunsTo(s, i + 1)
    <3>1. i \in 0 .. 5
      OBVIOUS
    <3> QED
      BY <1>1, <3>1, ClosedRuns
  <2> QED
    BY <1>1, <2>1 DEF After, Joined
<1>2. CASE Link(s, i + 1)
  <2>1. Joined(s, r, i + 1).done = r.done /\ Joined(s, r, i + 1).open = r.open \cup {s[i + 1], s[i + 2]}
    <3>1. (i + 1) + 1 = i + 2
      OBVIOUS
    <3> QED
      BY <1>2, <3>1 DEF Joined
  <2>2. RunsTo(s, i + 1) = RunsTo(s, i)
    <3>1. ASSUME NEW p \in Places \X Places, RunAt(s, p[1], p[2])
          PROVE  p[2] <= i + 1 <=> p[2] <= i
      <4>1. p[2] \in 1 .. 6
        BY DEF Places
      <4>2. p[2] # i + 1
        BY <1>2, <3>1 DEF RunAt
      <4> QED
        BY <4>1, <4>2
    <3> QED
      BY <3>1 DEF RunsTo
  <2>3. \E a \in 1 .. i + 1 : Grows(s, a, i + 2) /\ Joined(s, r, i + 1).open = Block(s, a, i + 2)
    <3>1. CASE i > 0 /\ Link(s, i)
      <4>1. PICK a \in 1 .. i : Grows(s, a, i + 1) /\ r.open = Block(s, a, i + 1)
        BY <3>1 DEF After
      <4>2. \A k \in a .. (i + 2) - 1 : k = i + 1 \/ k \in a .. (i + 1) - 1
        OBVIOUS
      <4>3. Grows(s, a, i + 2)
        BY <1>2, <4>1, <4>2 DEF Grows
      <4>4. Block(s, a, i + 2) = Block(s, a, i + 1) \cup {s[i + 1], s[i + 2]}
        <5>1. a .. i + 2 = (a .. i + 1) \cup {i + 1, i + 2}
          OBVIOUS
        <5> QED
          BY <5>1 DEF Block
      <4>5. a \in 1 .. i + 1
        OBVIOUS
      <4> QED
        BY <2>1, <4>1, <4>3, <4>4, <4>5
    <3>2. CASE ~ (i > 0 /\ Link(s, i))
      <4>1. r.open = {}
        BY <3>2 DEF After
      <4>2. Grows(s, i + 1, i + 2)
        <5>1. \A k \in i + 1 .. (i + 2) - 1 : k = i + 1
          OBVIOUS
        <5>2. i + 1 = 1 \/ ~ Link(s, (i + 1) - 1)
          <6>1. (i + 1) - 1 = i /\ (i > 0 \/ i = 0)
            OBVIOUS
          <6> QED
            BY <3>2, <6>1
        <5> QED
          BY <1>2, <5>1, <5>2 DEF Grows
      <4>3. Block(s, i + 1, i + 2) = {s[i + 1], s[i + 2]}
        <5>1. i + 1 .. i + 2 = {i + 1, i + 2}
          OBVIOUS
        <5> QED
          BY <5>1 DEF Block
      <4>4. i + 1 \in 1 .. i + 1
        OBVIOUS
      <4> QED
        BY <2>1, <4>1, <4>2, <4>3, <4>4
    <3> QED
      BY <3>1, <3>2
  <2>4. i + 1 > 0 /\ (i + 1) + 1 = i + 2
    OBVIOUS
  <2>5. r.done = RunsTo(s, i)
    BY DEF After
  <2> QED
    BY <1>2, <2>1, <2>2, <2>3, <2>4, <2>5 DEF After
<1> QED
  BY <1>1, <1>2

\* The recursion over the pairs, and that it has a value.
RunsBy(s, runs) ==
  runs = [i \in 0 .. 5 |->
           IF i = 0 THEN [done |-> {}, open |-> {}]
           ELSE IF s[i + 1] - s[i] = 1
                  THEN [done |-> runs[i - 1].done, open |-> runs[i - 1].open \cup {s[i], s[i + 1]}]
                  ELSE [done |-> Closed(runs[i - 1]), open |-> {}]]

LEMMA RunsExist ==
  ASSUME NEW s
  PROVE  LET runs == CHOOSE f : RunsBy(s, f) IN
         /\ ConsecutiveNumbers(s) = Closed(runs[5])
         /\ runs[0] = NoRuns
         /\ \A i \in 1 .. 5 : runs[i] = Joined(s, runs[i - 1], i)
<1> DEFINE r1 == Joined(s, NoRuns, 1)
           r2 == Joined(s, r1, 2)
           r3 == Joined(s, r2, 3)
           r4 == Joined(s, r3, 4)
           r5 == Joined(s, r4, 5)
           g == [i \in 0 .. 5 |-> IF i = 0 THEN NoRuns ELSE IF i = 1 THEN r1 ELSE IF i = 2 THEN r2
                                  ELSE IF i = 3 THEN r3 ELSE IF i = 4 THEN r4 ELSE r5]
           h == [i \in 0 .. 5 |-> IF i = 0 THEN NoRuns ELSE Joined(s, g[i - 1], i)]
<1>1. g = h
  <2> HIDE DEF r1, r2, r3, r4, r5
  <2>1. /\ g[0] = NoRuns /\ g[1] = r1 /\ g[2] = r2 /\ g[3] = r3 /\ g[4] = r4 /\ g[5] = r5
    OBVIOUS
  <2>2. \A i \in 0 .. 5 : i \in {0, 1, 2, 3, 4, 5}
    OBVIOUS
  <2> HIDE DEF g
  <2>3. /\ h[0] = NoRuns /\ h[1] = r1 /\ h[2] = r2 /\ h[3] = r3 /\ h[4] = r4 /\ h[5] = r5
    BY <2>1 DEF r1, r2, r3, r4, r5
  <2>4. \A i \in 0 .. 5 : g[i] = h[i]
    BY <2>1, <2>2, <2>3
  <2> QED
    BY <2>4 DEF g
<1>2. RunsBy(s, g)
  <2>1. h = [i \in 0 .. 5 |->
               IF i = 0 THEN [done |-> {}, open |-> {}]
               ELSE IF s[i + 1] - s[i] = 1
                      THEN [done |-> g[i - 1].done, open |-> g[i - 1].open \cup {s[i], s[i + 1]}]
                      ELSE [done |-> Closed(g[i - 1]), open |-> {}]]
    <3> HIDE DEF g
    <3> QED
      BY DEF Joined, Link, NoRuns
  <2> HIDE DEF g, h
  <2> QED
    BY <1>1, <2>1 DEF RunsBy
<1> HIDE DEF g, h, r1, r2, r3, r4, r5
<1>3. PICK runs : runs = (CHOOSE f : RunsBy(s, f)) /\ RunsBy(s, runs)
  BY <1>2
<1>4. ConsecutiveNumbers(s) = Closed(runs[5])
  BY <1>3 DEF ConsecutiveNumbers, RunsBy
<1>5. runs[0] = NoRuns /\ \A i \in 1 .. 5 : runs[i] = Joined(s, runs[i - 1], i)
  <2>1. runs[0] = NoRuns
    <3>1. 0 \in 0 .. 5
      OBVIOUS
    <3>2. runs[0] = IF 0 = 0 THEN [done |-> {}, open |-> {}]
                    ELSE IF s[0 + 1] - s[0] = 1
                           THEN [done |-> runs[0 - 1].done, open |-> runs[0 - 1].open \cup {s[0], s[0 + 1]}]
                           ELSE [done |-> Closed(runs[0 - 1]), open |-> {}]
      BY <1>3, <3>1 DEF RunsBy
    <3> QED
      BY <3>2 DEF NoRuns
  <2>2. ASSUME NEW i \in 1 .. 5 PROVE runs[i] = Joined(s, runs[i - 1], i)
    <3>1. i \in 0 .. 5 /\ i # 0
      OBVIOUS
    <3>2. runs[i] = IF i = 0 THEN [done |-> {}, open |-> {}]
                    ELSE IF s[i + 1] - s[i] = 1
                           THEN [done |-> runs[i - 1].done, open |-> runs[i - 1].open \cup {s[i], s[i + 1]}]
                           ELSE [done |-> Closed(runs[i - 1]), open |-> {}]
      BY <1>3, <3>1 DEF RunsBy
    <3> QED
      BY <3>1, <3>2 DEF Joined, Link
  <2> QED
    BY <2>1, <2>2
<1> QED
  BY <1>3, <1>4, <1>5

-----------------------------------------------------------------------------
(* The runs are the longest stretches without a hole.                      *)

LEMMA RunsAre ==
  ASSUME NEW s \in [Places -> Numbers]
  PROVE  ConsecutiveNumbers(s) = RunsTo(s, 6)
<1>1. PICK runs : /\ ConsecutiveNumbers(s) = Closed(runs[5])
                  /\ runs[0] = NoRuns
                  /\ \A i \in 1 .. 5 : runs[i] = Joined(s, runs[i - 1], i)
  BY RunsExist
<1>2. After(s, runs[0], 0)
  <2>1. RunsTo(s, 0) = {}
    <3>1. \A p \in Places \X Places : ~ (p[2] <= 0)
      BY DEF Places
    <3> QED
      BY <3>1 DEF RunsTo
  <2>2. ~ (0 > 0)
    OBVIOUS
  <2> QED
    BY <1>1, <2>1, <2>2 DEF After, NoRuns
<1>3. ASSUME NEW i \in 0 .. 4, After(s, runs[i], i) PROVE After(s, runs[i + 1], i + 1)
  <2>1. PICK r : r = runs[i]
    OBVIOUS
  <2>2. After(s, Joined(s, r, i + 1), i + 1)
    BY <1>3, <2>1, NextRuns
  <2>3. i + 1 \in 1 .. 5 /\ (i + 1) - 1 = i
    OBVIOUS
  <2>4. runs[i + 1] = Joined(s, r, i + 1)
    BY <1>1, <2>1, <2>3
  <2> QED
    BY <2>2, <2>4
<1>4. /\ 0 \in 0 .. 4 /\ 1 \in 0 .. 4 /\ 2 \in 0 .. 4 /\ 3 \in 0 .. 4 /\ 4 \in 0 .. 4
      /\ 0 + 1 = 1 /\ 1 + 1 = 2 /\ 2 + 1 = 3 /\ 3 + 1 = 4 /\ 4 + 1 = 5
  OBVIOUS
<1>5. After(s, runs[1], 1)
  <2>1. After(s, runs[0 + 1], 0 + 1)
    BY <1>2, <1>3, <1>4
  <2> QED
    BY <1>4, <2>1
<1>6. After(s, runs[2], 2)
  <2>1. After(s, runs[1 + 1], 1 + 1)
    BY <1>5, <1>3, <1>4
  <2> QED
    BY <1>4, <2>1
<1>7. After(s, runs[3], 3)
  <2>1. After(s, runs[2 + 1], 2 + 1)
    BY <1>6, <1>3, <1>4
  <2> QED
    BY <1>4, <2>1
<1>8. After(s, runs[4], 4)
  <2>1. After(s, runs[3 + 1], 3 + 1)
    BY <1>7, <1>3, <1>4
  <2> QED
    BY <1>4, <2>1
<1>9. After(s, runs[5], 5)
  <2>1. After(s, runs[4 + 1], 4 + 1)
    BY <1>8, <1>3, <1>4
  <2> QED
    BY <1>4, <2>1
<1>10. PICK r, i : r = runs[5] /\ i = 5
  OBVIOUS
<1>11. Closed(r) = RunsTo(s, i + 1)
  <2>1. i \in 0 .. 5 /\ After(s, r, i)
    BY <1>9, <1>10
  <2> QED
    BY <1>10, <2>1, ClosedRuns
<1>12. i + 1 = 6
  BY <1>10
<1> QED
  BY <1>1, <1>10, <1>11, <1>12

LEMMA Ordered ==
  ASSUME NEW s \in [Places -> Numbers], Ascending(s)
  PROVE  /\ \A i, j \in Places : (i < j <=> s[i] < s[j]) /\ (i <= j <=> s[i] <= s[j])
         /\ \A i \in Places : s[i] \in 0 .. 45
         /\ \A x : x \in Range(s) <=> \E i \in Places : x = s[i]
<1>1. \A i \in Places : s[i] \in 0 .. 45
  BY DEF Numbers
<1>2. ASSUME NEW i \in Places, NEW j \in Places
      PROVE  (i < j <=> s[i] < s[j]) /\ (i <= j <=> s[i] <= s[j])
  <2>1. PICK x, y \in Nat : x = s[i] /\ y = s[j]
    BY <1>1
  <2>2. i \in Nat /\ j \in Nat
    BY DEF Places
  <2>3. (i < j => x < y) /\ (j < i => y < x) /\ (i = j => x = y)
    BY <2>1, Rising
  <2> QED
    BY <2>1, <2>2, <2>3
<1>3. \A x : x \in Range(s) <=> \E i \in Places : x = s[i]
  BY DEF Range
<1> QED
  BY <1>1, <1>2, <1>3

LEMMA BlockIs ==
  ASSUME NEW s \in [Places -> Numbers], Ascending(s), NEW a \in Places, NEW b \in Places, a <= b
  PROVE  /\ Block(s, a, b) \subseteq Range(s) /\ Block(s, a, b) \subseteq 0 .. 45
         /\ Min(Block(s, a, b)) = s[a] /\ Max(Block(s, a, b)) = s[b]
         /\ a < b => Cardinality(Block(s, a, b)) > 1
<1>1. PICK R : R = Block(s, a, b)
  OBVIOUS
<1>2. a \in Nat /\ b \in Nat /\ \A k \in a .. b : k \in Places
  BY DEF Places
<1>3. \A x : x \in R <=> \E k \in a .. b : x = s[k]
  BY <1>1 DEF Block
<1>4. a \in a .. b /\ b \in a .. b /\ s[a] \in R /\ s[b] \in R
  BY <1>2, <1>3
<1>5. R \subseteq Range(s) /\ R \subseteq 0 .. 45
  BY <1>2, <1>3, Ordered
<1>6. \A x \in R : s[a] <= x /\ x <= s[b]
  <2> SUFFICES ASSUME NEW k \in a .. b PROVE s[a] <= s[k] /\ s[k] <= s[b]
    BY <1>3
  <2>1. k \in Places /\ a <= k /\ k <= b
    BY <1>2
  <2> QED
    BY <2>1, Ordered
<1>7. R \subseteq Nat /\ R # {} /\ 45 \in Nat
  BY <1>4, <1>5
<1>8. Min(R) \in R /\ \A x \in R : Min(R) <= x
  BY <1>7, MinIs
<1>9. Max(R) \in R /\ \A x \in R : x <= Max(R)
  BY <1>5, <1>7, MaxIs
<1>10. Min(R) = s[a] /\ Max(R) = s[b]
  <2>1. PICK lo, hi, x, y \in Nat : lo = Min(R) /\ hi = Max(R) /\ x = s[a] /\ y = s[b]
    BY <1>4, <1>7, <1>8, <1>9
  <2>2. x <= lo /\ hi <= y /\ lo <= x /\ y <= hi
    BY <1>4, <1>6, <1>8, <1>9, <2>1
  <2> QED
    BY <2>1, <2>2
<1>11. ASSUME a < b PROVE Cardinality(R) > 1
  <2>1. s[a] # s[b]
    <3>1. s[a] < s[b] /\ s[a] \in Nat /\ s[b] \in Nat
      BY <1>11, Ordered
    <3> QED
      BY <3>1
  <2>2. IsFiniteSet(R)
    <3>1. 0 \in Int /\ 45 \in Int
      OBVIOUS
    <3>2. IsFiniteSet(0 .. 45)
      BY <3>1, FS_Interval
    <3> QED
      BY <1>5, <3>2, FS_Subset
  <2>3. PICK x, y : x = s[a] /\ y = s[b]
    OBVIOUS
  <2>4. {x, y} \subseteq R
    BY <1>4, <2>3
  <2>5. Cardinality({x, y}) = 2
    <3>1. IsFiniteSet({x}) /\ Cardinality({x}) = 1
      BY FS_Singleton
    <3>2. Cardinality({x} \cup {y}) = Cardinality({x}) + 1
      BY <2>1, <2>3, <3>1, FS_AddElement
    <3>3. {x} \cup {y} = {x, y}
      OBVIOUS
    <3> QED
      BY <3>1, <3>2, <3>3
  <2>6. Cardinality({x, y}) <= Cardinality(R) /\ Cardinality(R) \in Nat
    BY <2>2, <2>4, FS_Subset, FS_CardinalityType
  <2> QED
    BY <2>5, <2>6
<1> QED
  BY <1>1, <1>5, <1>10, <1>11

LEMMA Filled ==
  ASSUME NEW s \in [Places -> Numbers], Ascending(s), NEW a \in Places, NEW b \in Places, a <= b,
         \A k \in a .. b - 1 : Link(s, k),
         NEW n \in Numbers, s[a] <= n, n <= s[b]
  PROVE  n \in Block(s, a, b)
<1>1. a \in Nat /\ b \in Nat /\ n \in Nat /\ \A k \in a .. b : k \in Places
  BY DEF Places, Numbers
<1>2. PICK K : K = {k \in a .. b : s[k] <= n}
  OBVIOUS
<1>3. K \subseteq 0 .. b /\ K # {}
  BY <1>1, <1>2
<1>4. PICK m \in K : \A k \in K : k <= m
  BY <1>1, <1>3, MaxIs
<1>5. m \in a .. b /\ m \in Places /\ s[m] <= n /\ s[m] \in Nat
  BY <1>1, <1>2, <1>4, Ordered
<1>6. CASE m = b
  BY <1>1, <1>5, <1>6 DEF Block
<1>7. CASE m # b
  <2>1. m + 1 \in a .. b /\ m \in a .. b - 1 /\ m + 1 > m
    BY <1>1, <1>5, <1>7
  <2>2. ~ (s[m + 1] <= n)
    BY <1>1, <1>2, <1>4, <1>5, <2>1
  <2>3. s[m + 1] - s[m] = 1 /\ s[m + 1] \in Nat
    BY <1>1, <2>1, Ordered DEF Link
  <2>4. s[m] = n
    BY <1>1, <1>5, <2>2, <2>3
  <2> QED
    BY <1>5, <2>4 DEF Block
<1> QED
  BY <1>6, <1>7

LEMMA RunIsStretch ==
  ASSUME NEW s \in [Places -> Numbers], Ascending(s), NEW a \in Places, NEW b \in Places,
         RunAt(s, a, b)
  PROVE  Block(s, a, b) \in Stretches(Range(s))
<1>1. a \in 1 .. 6 /\ b \in 1 .. 6 /\ a < b /\ a <= b
  BY DEF RunAt, Places
<1>2. PICK R : R = Block(s, a, b)
  OBVIOUS
<1>3. R \subseteq Range(s) /\ Min(R) = s[a] /\ Max(R) = s[b] /\ Cardinality(R) > 1
  BY <1>1, <1>2, BlockIs
<1>4. \A n \in Numbers : s[a] <= n /\ n <= s[b] => n \in R
  BY <1>1, <1>2, Filled DEF RunAt, Grows
<1>5. s[a] - 1 \notin Range(s)
  <2> SUFFICES ASSUME NEW j \in Places, s[j] = s[a] - 1 PROVE FALSE
    BY Ordered
  <2>1. s[j] \in Nat /\ s[a] \in Nat /\ s[j] < s[a]
    BY Ordered
  <2>2. j \in Nat \ {0} /\ j < a
    BY <2>1, Ordered DEF Places
  <2>3. a # 1 /\ a - 1 \in Places /\ j <= a - 1 /\ (a - 1) + 1 = a /\ a - 1 < a
    BY <1>1, <2>2 DEF Places
  <2>4. s[a - 1] \in Nat /\ s[j] <= s[a - 1] /\ s[a - 1] < s[a]
    BY <2>3, Ordered
  <2>5. s[a] - s[a - 1] # 1
    BY <2>3 DEF RunAt, Grows, Link
  <2> QED
    BY <2>1, <2>4, <2>5
<1>6. s[b] + 1 \notin Range(s)
  <2> SUFFICES ASSUME NEW j \in Places, s[j] = s[b] + 1 PROVE FALSE
    BY Ordered
  <2>1. s[j] \in Nat /\ s[b] \in Nat /\ s[b] < s[j]
    BY Ordered
  <2>2. j \in 1 .. 6 /\ b < j
    BY <2>1, Ordered DEF Places
  <2>3. b # 6 /\ b + 1 \in Places /\ b + 1 <= j /\ b < b + 1
    BY <1>1, <2>2 DEF Places
  <2>4. s[b + 1] \in Nat /\ s[b + 1] <= s[j] /\ s[b] < s[b + 1]
    BY <2>3, Ordered
  <2>5. s[b + 1] - s[b] # 1
    BY <2>3 DEF RunAt, Link
  <2> QED
    BY <2>1, <2>4, <2>5
<1> QED
  BY <1>2, <1>3, <1>4, <1>5, <1>6 DEF Stretches

LEMMA StretchIsRun ==
  ASSUME NEW s \in [Places -> Numbers], Ascending(s), NEW R \in Stretches(Range(s))
  PROVE  \E a, b \in Places : RunAt(s, a, b) /\ R = Block(s, a, b)
<1>1. /\ R \subseteq Range(s) /\ Cardinality(R) > 1
      /\ \A n \in Numbers : Min(R) <= n /\ n <= Max(R) => n \in R
      /\ Min(R) - 1 \notin Range(s) /\ Max(R) + 1 \notin Range(s)
  BY DEF Stretches
<1>2. R # {}
  <2>1. Cardinality({}) = 0
    BY FS_EmptySet
  <2> QED
    BY <1>1, <2>1
<1>3. \A x \in R : \E i \in Places : x = s[i]
  BY <1>1, Ordered
<1>4. R \subseteq 0 .. 45 /\ R \subseteq Nat /\ 45 \in Nat
  BY <1>3, Ordered
<1>5. Min(R) \in R /\ \A x \in R : Min(R) <= x
  BY <1>2, <1>4, MinIs
<1>6. Max(R) \in R /\ \A x \in R : x <= Max(R)
  BY <1>2, <1>4, MaxIs
<1>7. PICK a, b \in Places : Min(R) = s[a] /\ Max(R) = s[b]
  BY <1>3, <1>5, <1>6
<1>8. a \in 1 .. 6 /\ b \in 1 .. 6 /\ a <= b
  <2>1. s[a] <= s[b]
    BY <1>5, <1>6, <1>7
  <2> QED
    BY <2>1, Ordered DEF Places
<1>9. R = Block(s, a, b)
  <2>1. ASSUME NEW x \in R PROVE x \in Block(s, a, b)
    <3>1. PICK k \in Places : x = s[k]
      BY <1>3
    <3>2. s[a] <= s[k] /\ s[k] <= s[b]
      BY <1>5, <1>6, <1>7, <3>1
    <3>3. k \in a .. b
      BY <1>8, <3>2, Ordered DEF Places
    <3> QED
      BY <3>1, <3>3 DEF Block
  <2>2. ASSUME NEW k \in a .. b PROVE s[k] \in R
    <3>1. k \in Places /\ a <= k /\ k <= b
      BY <1>8 DEF Places
    <3>2. s[k] \in Numbers /\ s[a] <= s[k] /\ s[k] <= s[b]
      BY <3>1, Ordered
    <3> QED
      BY <1>1, <1>7, <3>2
  <2> QED
    BY <2>1, <2>2 DEF Block
<1>10. a < b
  <2> SUFFICES ASSUME a = b PROVE FALSE
    BY <1>8
  <2>1. a .. b = {a}
    BY <1>8
  <2>2. R = {s[a]}
    BY <1>9, <2>1 DEF Block
  <2>3. PICK x : x = s[a]
    OBVIOUS
  <2>4. Cardinality({x}) = 1
    BY FS_Singleton
  <2> QED
    BY <1>1, <2>2, <2>3, <2>4
<1>11. ASSUME NEW k \in a .. b - 1 PROVE Link(s, k)
  <2>1. k \in Places /\ k + 1 \in Places /\ k < k + 1 /\ a <= k /\ k + 1 <= b
    BY <1>8 DEF Places
  <2>2. /\ s[k] \in Nat /\ s[k + 1] \in 0 .. 45 /\ s[a] \in Nat /\ s[b] \in Nat
        /\ s[k] < s[k + 1] /\ s[a] <= s[k] /\ s[k + 1] <= s[b]
    BY <2>1, Ordered
  <2>3. s[k] + 1 \in Numbers /\ s[a] <= s[k] + 1 /\ s[k] + 1 <= s[b]
    BY <2>2 DEF Numbers
  <2>4. PICK j \in Places : s[k] + 1 = s[j]
    BY <1>1, <1>3, <1>7, <2>3
  <2>5. k < j
    <3>1. s[k] < s[j]
      BY <2>2, <2>4
    <3> QED
      BY <2>1, <3>1, Ordered
  <2>6. k + 1 <= j
    BY <2>5 DEF Places
  <2>7. s[k + 1] <= s[j]
    BY <2>1, <2>6, Ordered
  <2> QED
    BY <2>2, <2>4, <2>7 DEF Link
<1>12. a = 1 \/ ~ Link(s, a - 1)
  <2> SUFFICES ASSUME a # 1, Link(s, a - 1) PROVE FALSE
    OBVIOUS
  <2>1. a - 1 \in Places /\ (a - 1) + 1 = a
    BY <1>8 DEF Places
  <2>2. s[a] - s[a - 1] = 1 /\ s[a] \in Nat /\ s[a - 1] \in Nat
    BY <2>1, Ordered DEF Link
  <2>3. s[a - 1] = s[a] - 1
    BY <2>2
  <2>4. s[a] - 1 \in Range(s)
    BY <2>1, <2>3, Ordered
  <2> QED
    BY <1>1, <1>7, <2>4
<1>13. b = 6 \/ ~ Link(s, b)
  <2> SUFFICES ASSUME b # 6, Link(s, b) PROVE FALSE
    OBVIOUS
  <2>1. b + 1 \in Places
    BY <1>8 DEF Places
  <2>2. s[b + 1] - s[b] = 1 /\ s[b] \in Nat /\ s[b + 1] \in Nat
    BY <2>1, Ordered DEF Link
  <2>3. s[b + 1] = s[b] + 1
    BY <2>2
  <2>4. s[b] + 1 \in Range(s)
    BY <2>1, <2>3, Ordered
  <2> QED
    BY <1>1, <1>7, <2>4
<1>14. RunAt(s, a, b)
  BY <1>10, <1>11, <1>12, <1>13 DEF RunAt, Grows
<1> QED
  BY <1>9, <1>14

LEMMA RunsAreStretches ==
  ASSUME NEW s \in [Places -> Numbers], Ascending(s)
  PROVE  ConsecutiveNumbers(s) = Stretches(Range(s))
<1>1. ASSUME NEW R \in RunsTo(s, 6) PROVE R \in Stretches(Range(s))
  <2>1. PICK p \in Places \X Places : RunAt(s, p[1], p[2]) /\ R = Block(s, p[1], p[2])
    BY DEF RunsTo
  <2>2. PICK a, b \in Places : RunAt(s, a, b) /\ R = Block(s, a, b)
    BY <2>1
  <2> QED
    BY <2>2, RunIsStretch
<1>2. ASSUME NEW R \in Stretches(Range(s)) PROVE R \in RunsTo(s, 6)
  <2>1. PICK a, b \in Places : RunAt(s, a, b) /\ R = Block(s, a, b)
    BY StretchIsRun
  <2>2. <<a, b>> \in Places \X Places /\ b <= 6
    BY DEF Places
  <2> QED
    BY <2>1, <2>2 DEF RunsTo
<1> QED
  BY <1>1, <1>2, RunsAre

-----------------------------------------------------------------------------
(* The features of an analysis, together.                                  *)

LEMMA StatusKind ==
  ASSUME IInv, NEW n, NEW before \in Nat
  PROVE  BallStatus(n, before).status \in {"HOT", "WARM", "COLD"}
<1>1. PICK K : K = Known(before)
  OBVIOUS
<1>2. PICK H : H = Hits(n, K)
  OBVIOUS
<1>3. CASE K = {}
  BY <1>1, <1>3 DEF BallStatus
<1>4. CASE K # {}
  <2>1. /\ K \subseteq 1 .. Len(draws) /\ Len(draws) \in Nat /\ Min(K) \in K
        /\ \A i \in K : draws[i].episode \in Nat \ {0}
    BY <1>1, <1>4, KnownIs
  <2>2. LatestEpisode(H) \in Nat
    <3>1. CASE H = {}
      BY <3>1 DEF LatestEpisode
    <3>2. CASE H # {}
      <4>1. H \subseteq K /\ H \subseteq Nat
        <5>1. H \subseteq K
          BY <1>2 DEF Hits
        <5> QED
          BY <2>1, <5>1
      <4>2. Min(H) \in H
        BY <3>2, <4>1, MinIs
      <4> QED
        BY <2>1, <3>2, <4>1, <4>2 DEF LatestEpisode
    <3> QED
      BY <3>1, <3>2
  <2>3. PICK skip \in Int : skip = Skip(H, K)
    <3>1. draws[Min(K)].episode \in Nat
      BY <2>1
    <3>2. draws[Min(K)].episode - LatestEpisode(H) \in Int
      BY <2>2, <3>1
    <3> QED
      BY <3>2 DEF Skip
  <2>4. BallStatus(n, before) =
          [ten |-> Among(H, Min(K), Recent), thirty |-> Among(H, Min(K), Longer),
           status |-> Temperature(Skip(H, K)), skip |-> Skip(H, K), latest |-> LatestEpisode(H)]
    BY <1>1, <1>2, <1>4, StatusIs
  <2>5. BallStatus(n, before).status = Temperature(skip)
    BY <2>3, <2>4
  <2> QED
    BY <2>5, TemperatureIs
<1> QED
  BY <1>3, <1>4

LEMMA HeatAdds ==
  ASSUME IInv, NEW s \in [Places -> Numbers], NEW before \in Nat
  PROVE  WithStatus(s, before, "HOT") + WithStatus(s, before, "WARM")
           + WithStatus(s, before, "COLD") = 6
<1> DEFINE Ball(t) == {n \in Range(s) : BallStatus(n, before).status = t}
<1>1. PICK A, B, C : A = Ball("HOT") /\ B = Ball("WARM") /\ C = Ball("COLD")
  OBVIOUS
<1>2. ASSUME NEW i \in Places PROVE Bit(s[i] \in A) + Bit(s[i] \in B) + Bit(s[i] \in C) = 1
  <2>1. PICK n : n = s[i]
    OBVIOUS
  <2>2. n \in Range(s)
    BY <2>1 DEF Range
  <2>3. PICK t : t = BallStatus(n, before).status
    OBVIOUS
  <2>4. t \in {"HOT", "WARM", "COLD"}
    BY <2>3, StatusKind
  <2>5. (n \in A <=> t = "HOT") /\ (n \in B <=> t = "WARM") /\ (n \in C <=> t = "COLD")
    BY <1>1, <2>2, <2>3
  <2>6. CASE t = "HOT"
    BY <2>5, <2>6, <2>1 DEF Bit
  <2>7. CASE t = "WARM"
    BY <2>5, <2>7, <2>1 DEF Bit
  <2>8. CASE t = "COLD"
    BY <2>5, <2>8, <2>1 DEF Bit
  <2> QED
    BY <2>4, <2>6, <2>7, <2>8
<1>3. /\ WithStatus(s, before, "HOT") = Count(s, A)
      /\ WithStatus(s, before, "WARM") = Count(s, B)
      /\ WithStatus(s, before, "COLD") = Count(s, C)
  BY <1>1 DEF WithStatus
<1> HIDE DEF Ball
<1>4. Count(s, A) + Count(s, B) + Count(s, C) = 6
  BY <1>2, ThreeParts
<1> QED
  BY <1>3, <1>4

LEMMA HalvesAdd ==
  ASSUME NEW s \in [Places -> Numbers]
  PROVE  /\ EvenOdd(s).even + EvenOdd(s).odd = 6
         /\ LowHigh(s).low + LowHigh(s).high = 6
<1>1. PICK A, B : A = {n \in Numbers : n % 2 = 0} /\ B = {n \in Numbers : n % 2 # 0}
  OBVIOUS
<1>2. PICK C, D : C = {n \in Numbers : n < 23} /\ D = {n \in Numbers : n >= 23}
  OBVIOUS
<1>3. \A i \in Places : s[i] \in Numbers /\ s[i] \in Nat
  BY DEF Numbers
<1>4. Count(s, A) + Count(s, B) = 6
  <2>1. \A i \in Places : s[i] \in A <=> s[i] \notin B
    BY <1>1, <1>3
  <2> QED
    BY <2>1, TwoParts
<1>5. Count(s, C) + Count(s, D) = 6
  <2>1. \A i \in Places : s[i] \in C <=> s[i] \notin D
    BY <1>2, <1>3
  <2> QED
    BY <2>1, TwoParts
<1>6. EvenOdd(s).even = Count(s, A) /\ EvenOdd(s).odd = Count(s, B)
  BY <1>1 DEF EvenOdd
<1>7. LowHigh(s).low = Count(s, C) /\ LowHigh(s).high = Count(s, D)
  BY <1>2 DEF LowHigh
<1> QED
  BY <1>4, <1>5, <1>6, <1>7

LEMMA Composites ==
  ASSUME NEW s \in [Places -> Numbers]
  PROVE  (6 - CountPrime(s)) - CountByMultiOfThree(s) = Count(s, Rest)
<1>1. PICK A, B, C : A = Primes /\ B = Thirds /\ C = Rest
  OBVIOUS
<1>2. \A i \in Places : Bit(s[i] \in A) + Bit(s[i] \in B) + Bit(s[i] \in C) = 1
  <2> SUFFICES ASSUME NEW i \in Places
               PROVE  Bit(s[i] \in A) + Bit(s[i] \in B) + Bit(s[i] \in C) = 1
    OBVIOUS
  <2>1. PICK n \in Numbers : n = s[i]
    OBVIOUS
  <2> QED
    BY <1>1, <2>1, Kinds
<1>3. Count(s, A) + Count(s, B) + Count(s, C) = 6
  BY <1>2, ThreeParts
<1>4. CountPrime(s) = Count(s, A) /\ CountByMultiOfThree(s) = Count(s, B)
  BY <1>1 DEF CountPrime, CountByMultiOfThree, Primes, Thirds
<1>5. Count(s, A) \in Nat /\ Count(s, B) \in Nat /\ Count(s, C) \in Nat
  BY CountIs
<1> QED
  BY <1>1, <1>3, <1>4, <1>5

LEMMA LastDigitsCover ==
  ASSUME NEW s \in [Places -> Numbers]
  PROVE  Range(s) = UNION {LastDigitGroup(s, g) : g \in 0 .. 9}
<1>1. ASSUME NEW n \in Range(s) PROVE n % 10 \in 0 .. 9
  <2>1. n \in Nat
    BY DEF Range, Numbers
  <2> QED
    BY <2>1
<1> QED
  BY <1>1 DEF LastDigitGroup

LEMMA FeaturesHold == IInv => FeaturesAddUp
<1> SUFFICES ASSUME IInv PROVE FeaturesAddUp
  OBVIOUS
<1>1. PICK s \in [Places -> Numbers] : s = slip
  BY LotteryAssumption DEF IInv, TypeOK
<1>2. Newest + 1 \in Nat
  <2>1. CASE draws = <<>>
    BY <2>1 DEF Newest
  <2>2. CASE draws # <<>>
    <3>1. 1 \in DOMAIN draws
      BY <2>2 DEF IInv, TypeOK
    <3>2. draws[1] \in Stored
      BY <3>1 DEF IInv, TypeOK
    <3> QED
      BY <2>2, <3>2 DEF Newest, Stored
  <2> QED
    BY <2>1, <2>2
<1>3. PICK e \in Nat : e = Newest + 1
  BY <1>2
<1>4. PICK a, p, c : /\ a = Analysis(s, e) /\ p = PersonalAnalysis(s)
                     /\ c = [m \in 0 .. 4 |-> CountByMultiOfTen(s, m)]
  OBVIOUS
<1>5. /\ a.sum = Total(s) /\ a.tens = c /\ a.lastDigits = SumOfLastDigits(s)
      /\ a.lastDigit = [g \in 0 .. 9 |-> LastDigitGroup(s, g)]
      /\ a.evenOdd = EvenOdd(s) /\ a.lowHigh = LowHigh(s)
      /\ a.ac = ArithmeticComplexity(s) /\ a.consecutive = ConsecutiveNumbers(s)
      /\ a.heat = [t \in {"HOT", "WARM", "COLD"} |-> WithStatus(s, e, t)]
  BY <1>4 DEF Analysis
<1>6. p.composite = (6 - CountPrime(s)) - CountByMultiOfThree(s)
  BY <1>4 DEF PersonalAnalysis
<1>7. /\ a.tens[0] + a.tens[1] + a.tens[2] + a.tens[3] + a.tens[4] = 6
      /\ a.sum = a.lastDigits + 10 * (a.tens[1] + 2 * a.tens[2] + 3 * a.tens[3] + 4 * a.tens[4])
  BY <1>4, <1>5, TensAdd
<1>8. Range(s) = UNION {a.lastDigit[g] : g \in 0 .. 9}
  <2>1. \A g \in 0 .. 9 : a.lastDigit[g] = LastDigitGroup(s, g)
    BY <1>5
  <2> QED
    BY <2>1, LastDigitsCover
<1>9. a.evenOdd.even + a.evenOdd.odd = 6 /\ a.lowHigh.low + a.lowHigh.high = 6
  BY <1>5, HalvesAdd
<1>10. a.heat["HOT"] + a.heat["WARM"] + a.heat["COLD"] = 6
  <2>1. /\ a.heat["HOT"] = WithStatus(s, e, "HOT") /\ a.heat["WARM"] = WithStatus(s, e, "WARM")
        /\ a.heat["COLD"] = WithStatus(s, e, "COLD")
    BY <1>5
  <2> QED
    BY <2>1, HeatAdds
<1>11. p.composite = Count(s, {n \in Numbers : n = 1 \/ (n % 3 # 0 /\ HasDivisor(n))})
  BY <1>6, Composites DEF Rest
<1>12. ASSUME Ascending(s)
       PROVE  a.ac \in 0 .. 10 /\ a.consecutive = Stretches(Range(s))
  BY <1>5, <1>12, Complexity, RunsAreStretches
<1>13. a = Analysis(slip, Newest + 1) /\ p = PersonalAnalysis(slip)
  BY <1>1, <1>3, <1>4
<1> QED
  BY <1>1, <1>7, <1>8, <1>9, <1>10, <1>11, <1>12, <1>13 DEF FeaturesAddUp

\* Whatever six numbers are picked and whatever has been drawn, the parts of an analysis
\* add up, composite counts what it should, and for ascending numbers the complexity is
\* in range and the runs are the longest there are (lottery-analyzer.ts).
THEOREM Features == Spec => []FeaturesAddUp
BY Invariance, FeaturesHold, PTL
=============================================================================
