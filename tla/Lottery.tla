------------------------------ MODULE Lottery ------------------------------
(***************************************************************************)
(* What the site computes from six numbers and from the draws it knows:    *)
(* the features of an analysis, the rank a prediction wins, the status of  *)
(* a ball and the reliability of a prediction.                             *)
(*                                                                         *)
(* The computations are operators; the behaviour around them lets a user   *)
(* pick numbers while draws come in, a missed week now and then.  Numbers  *)
(* a user picks come in any order, as the request has them; draws are in   *)
(* ascending order.  A list whose order nothing depends on is a set here,  *)
(* and what is counted by its positions keeps a number that comes twice.   *)
(***************************************************************************)
EXTENDS Integers, FiniteSets, SequencesExt

CONSTANTS
  Slips,      \* sequences of six numbers that may be predicted
  Results,    \* draws that may come: six numbers and the bonus
  MaxDraws,   \* bound: draws in a behaviour
  Recent,     \* draws that count as recent: 10 in the code
  Longer,     \* draws of the longer count: 30 in the code
  HotSkip,    \* skip up to which a ball is HOT: 5 in the code
  WarmSkip,   \* skip up to which it is WARM: 10 in the code
  WeightSets, \* weights of the six positions of a prediction
  Scale,      \* a weight may be a fraction: it is counted in parts, so many to one
  Unit        \* a common denominator of the shares of the reliability

Places == 1 .. 6

\* The numbers of a slip; zero is what a row holds before anything is predicted.
Numbers == 0 .. 45

Distance(m, n) == IF m < n THEN n - m ELSE m - n

Total(s) == s[1] + s[2] + s[3] + s[4] + s[5] + s[6]

Distinct(s) == Cardinality(Range(s)) = 6

\* Weights: six that sum to a hundred, none negative, whole or not.
IsWeights(w) == w \in [Places -> Nat] /\ Total(w) = 100 * Scale

ASSUME LotteryAssumption ==
  /\ Slips \subseteq [Places -> Numbers]
  /\ \A r \in Results : /\ r.main \in [Places -> Numbers \ {0}] /\ Distinct(r.main)
                        /\ r.bonus \in Numbers \ ({0} \cup Range(r.main))
  /\ \A w \in WeightSets : IsWeights(w)
  /\ MaxDraws \in Nat /\ Recent \in Nat \ {0} /\ Longer \in Nat /\ Recent < Longer
  /\ HotSkip \in Nat \ {0} /\ WarmSkip \in Nat /\ HotSkip < WarmSkip /\ WarmSkip = Recent
  /\ Scale \in Nat \ {0} /\ Unit \in Nat \ {0}
  /\ \A s \in Slips, r \in Results, i \in Places : Unit % (1 + Distance(r.main[i], s[i])) = 0

VARIABLES
  draws,   \* drawn winning numbers, newest first
  slip     \* the six numbers a user has picked

vars == <<draws, slip>>

----------------------------------------------------------------------------
\* LotteryAnalyzer.

\* How many places of a slip hold one of some numbers.
Count(s, some) == Cardinality({i \in Places : s[i] \in some})

EvenOdd(s) == [even |-> Count(s, {n \in Numbers : n % 2 = 0}),
               odd |-> Count(s, {n \in Numbers : n % 2 # 0})]
LowHigh(s) == [low |-> Count(s, {n \in Numbers : n < 23}),
               high |-> Count(s, {n \in Numbers : n >= 23})]
CountByMultiOfTen(s, m) == Count(s, {n \in Numbers : n \div 10 = m})
SumOfLastDigits(s) == Total([i \in Places |-> s[i] % 10])
LastDigitGroup(s, g) == {n \in Range(s) : n % 10 = g}

IsPrime(n) == n > 1 /\ \A i \in 2 .. n : i * i <= n => n % i # 0
CountPrime(s) == Count(s, {n \in Numbers : IsPrime(n)})
CountByMultiOfThree_Three(s) == Count(s, {n \in Numbers : n % 3 = 0})
CountByMultiOfThree(s) == Count(s, {n \in Numbers : n # 3 /\ n % 3 = 0})

Differences(s) == {s[p[2]] - s[p[1]] : p \in {q \in Places \X Places : q[1] < q[2]}}
ArithmeticComplexity(s) == Cardinality(Differences(s)) - 5

\* A run grows with each pair of neighbours one apart; the next pair closes it.
Closed(runs) == IF runs.open = {} THEN runs.done ELSE runs.done \cup {runs.open}

ConsecutiveNumbers(s) ==
  LET runs[i \in 0 .. 5] ==
        IF i = 0 THEN [done |-> {}, open |-> {}]
        ELSE IF s[i + 1] - s[i] = 1
               THEN [done |-> runs[i - 1].done, open |-> runs[i - 1].open \cup {s[i], s[i + 1]}]
               ELSE [done |-> Closed(runs[i - 1]), open |-> {}]
  IN Closed(runs[5])

CountPair(a, b) == Cardinality({i \in DOMAIN draws : {a, b} \subseteq Range(draws[i].main)})

Rank_BonusAlone(matches, bonus) ==
  CASE matches = 6 -> 1 [] matches # 6 /\ bonus -> 2 [] matches = 5 /\ ~ bonus -> 3
    [] matches = 4 /\ ~ bonus -> 4 [] matches = 3 /\ ~ bonus -> 5 [] OTHER -> 0
Rank(matches, bonus) ==
  CASE matches = 6 -> 1 [] matches = 5 /\ bonus -> 2 [] matches = 5 /\ ~ bonus -> 3
    [] matches = 4 -> 4 [] matches = 3 -> 5 [] OTHER -> 0

\* The ranks numbers would have won so far, counted from the drawn numbers ...
RankOf(s, d) == Rank(Count(d.main, Range(s)), d.bonus \in Range(s))
CountByRank(s, rank) == Cardinality({i \in DOMAIN draws : RankOf(s, draws[i]) = rank})

\* ... and the rank a saved prediction is shown with, counted from the predicted ones.
MatchResult(s, d) ==
  LET bonus == d.bonus \in Range(s) IN
  [matched |-> Range(s) \cap Range(d.main), bonusMatch |-> bonus,
   rank |-> Rank(Count(s, Range(d.main)), bonus)]

----------------------------------------------------------------------------
\* The status of a ball before an episode.

Temperature(skip) ==
  CASE skip <= HotSkip -> "HOT" [] HotSkip < skip /\ skip <= WarmSkip -> "WARM"
    [] OTHER -> "COLD"

\* Where in the list of draws, the newest first, those before an episode are; the
\* first of them is the newest one known.
Known(before) == {i \in DOMAIN draws : draws[i].episode < before}

Hits(ball, known) == {i \in known : ball \in Range(draws[i].main)}

\* The three numbers drawn most often with the ball, on a tie those seen first.
FriendlyNumbers(ball, before) ==
  LET seen == {p \in Hits(ball, Known(before)) \X Places : draws[p[1]].main[p[2]] # ball}
      at(n) == {p \in seen : draws[p[1]].main[p[2]] = n}
      others == {draws[p[1]].main[p[2]] : p \in seen}
      entries == {[num |-> n, times |-> Cardinality(at(n)),
                   first |-> Min({6 * p[1] + p[2] : p \in at(n)})] : n \in others}
      ahead(e) == {f \in entries : \/ f.times > e.times
                                   \/ f.times = e.times /\ f.first < e.first}
  IN {e.num : e \in {f \in entries : Cardinality(ahead(f)) < 3}}

LatestEpisode(hits) == IF hits = {} THEN 0 ELSE draws[Min(hits)].episode

Skip_Rows(hits, known) == IF hits = {} THEN 0 ELSE Min(hits) - Min(known)
Skip(hits, known) == draws[Min(known)].episode - LatestEpisode(hits)

BallStatus(ball, before) ==
  LET known == Known(before)
      hits == Hits(ball, known)
      among(some) == Cardinality({i \in hits : i - Min(known) < some})
  IN IF known = {}
       THEN [ten |-> 0, thirty |-> 0, status |-> "COLD", skip |-> 0, latest |-> 0]
       ELSE [ten |-> among(Recent), thirty |-> among(Longer),
             status |-> Temperature(Skip(hits, known)), skip |-> Skip(hits, known),
             latest |-> LatestEpisode(hits)]

----------------------------------------------------------------------------
\* The analysis of a prediction, for the draws before an episode.

WithStatus(s, before, t) == Count(s, {n \in Range(s) : BallStatus(n, before).status = t})

Analysis(s, before) ==
  [sum |-> Total(s), tens |-> [m \in 0 .. 4 |-> CountByMultiOfTen(s, m)],
   lastDigits |-> SumOfLastDigits(s), lastDigit |-> [g \in 0 .. 9 |-> LastDigitGroup(s, g)],
   evenOdd |-> EvenOdd(s), lowHigh |-> LowHigh(s), ac |-> ArithmeticComplexity(s),
   consecutive |-> ConsecutiveNumbers(s),
   heat |-> [t \in {"HOT", "WARM", "COLD"} |-> WithStatus(s, before, t)]]

\* The personal one says more; what is neither prime nor a multiple of three is
\* composite, the number one included.
PersonalAnalysis(s) ==
  LET prime == CountPrime(s)
      mul3 == CountByMultiOfThree(s)
  IN [prime |-> prime, mul3 |-> mul3, composite |-> 6 - prime - mul3,
      win |-> [r \in 1 .. 5 |-> CountByRank(s, r)],
      pair |-> [p \in {q \in Places \X Places : q[1] < q[2]} |-> CountPair(s[p[1]], s[p[2]])]]

----------------------------------------------------------------------------
\* The reliability of a prediction: the weight of each position, divided the more
\* the further off its number is, rounded to tenths and counted here in tenths.

IsNonZero(s) == \A i \in Places : s[i] # 0

Share_Unshifted(w, distance) == (w * Unit) \div (IF distance = 0 THEN 1 ELSE distance)
Share(w, distance) == (w * Unit) \div (1 + distance)

Reliability(s, d, w) ==
  LET score == Total([i \in Places |-> Share(w[i], Distance(d.main[i], s[i]))])
      one == Scale * Unit
  IN IF IsNonZero(s) THEN (20 * score + one) \div (2 * one) ELSE -10

----------------------------------------------------------------------------
\* The behaviour.

Init == draws = <<>> /\ slip \in Slips

Newest == IF draws = <<>> THEN 0 ELSE draws[1].episode

\* A draw is stored; the one of the week before may have been missed.
Draw == /\ Len(draws) < MaxDraws
        /\ \E r \in Results, e \in {Newest + 1, Newest + 2} :
             draws' = <<[episode |-> e, main |-> r.main, bonus |-> r.bonus]>> \o draws
        /\ UNCHANGED slip

Next == Draw

Spec == Init /\ [][Next]_vars
----------------------------------------------------------------------------
Ascending(s) == \A i \in 1 .. 5 : s[i] < s[i + 1]

HasDivisor(n) == \E i \in 2 .. n - 1 : n % i = 0

\* The longest stretches of numbers without a hole, of two or more.
Stretches(S) ==
  {R \in SUBSET S : /\ Cardinality(R) > 1
                    /\ \A n \in Numbers : Min(R) <= n /\ n <= Max(R) => n \in R
                    /\ Min(R) - 1 \notin S /\ Max(R) + 1 \notin S}

\* The parts of an analysis add up to the six numbers in whatever order they come:
\* by tens, by last digit, by parity, by half and by temperature; the tens and the
\* last digits give the sum; composite are the ones and what has a divisor other
\* than three.  In ascending order the complexity is one of 0 to 10, and the runs
\* are the longest there are.
FeaturesAddUp ==
  LET a == Analysis(slip, Newest + 1)
      p == PersonalAnalysis(slip)
  IN /\ a.tens[0] + a.tens[1] + a.tens[2] + a.tens[3] + a.tens[4] = 6
     /\ a.sum = a.lastDigits + 10 * (a.tens[1] + 2 * a.tens[2] + 3 * a.tens[3] + 4 * a.tens[4])
     /\ Range(slip) = UNION {a.lastDigit[g] : g \in 0 .. 9}
     /\ a.evenOdd.even + a.evenOdd.odd = 6 /\ a.lowHigh.low + a.lowHigh.high = 6
     /\ a.heat["HOT"] + a.heat["WARM"] + a.heat["COLD"] = 6
     /\ p.composite = Count(slip, {n \in Numbers : n = 1 \/ (n % 3 # 0 /\ HasDivisor(n))})
     /\ Ascending(slip) => /\ a.ac \in 0 .. 10
                           /\ a.consecutive = Stretches(Range(slip))

\* The rank a saved prediction is shown with and the one counted among past wins
\* are the same, for six different numbers, and three common numbers are what it
\* takes to win; no two kinds of win count one draw.
RanksAgree ==
  LET p == PersonalAnalysis(slip)
      common(d) == Cardinality(Range(slip) \cap Range(d.main))
  IN Distinct(slip) =>
       /\ \A i \in DOMAIN draws :
            LET rank == MatchResult(slip, draws[i]).rank IN
              /\ rank = RankOf(slip, draws[i])
              /\ rank # 0 <=> common(draws[i]) >= 3
              /\ rank = 2 <=> common(draws[i]) = 5 /\ draws[i].bonus \in Range(slip)
       /\ p.win[1] + p.win[2] + p.win[3] + p.win[4] + p.win[5]
            = Cardinality({i \in DOMAIN draws : common(draws[i]) >= 3})

\* How far off each position is, and the weight of those that are.
Off(s, d) == [k \in Places |-> Distance(d.main[k], s[k])]
Astray(w, off) == Total([k \in Places |-> IF off[k] = 0 THEN 0 ELSE w[k]])

\* A reliability is a score the aggregate accepts: -1 for a prediction with a zero,
\* else from 0 to 100.  It rounds to 100 when the positions that are off weigh no more
\* than a twentieth together, and only when they weigh no more than a tenth: with
\* whole weights, exactly when every position of some weight is right.  Who is nearer
\* in every position is never behind.
ScoreInRange ==
  \A w \in IF draws = <<>> THEN {} ELSE WeightSets :
    LET d == draws[1]
        r == Reliability(slip, d, w)
        lost == Astray(w, Off(slip, d))
    IN /\ IF IsNonZero(slip) THEN r \in 0 .. 1000 ELSE r = -10
       /\ IsNonZero(slip) /\ 20 * lost <= Scale => r = 1000
       /\ r = 1000 => 10 * lost <= Scale
       /\ \A s \in Slips :
            /\ IsNonZero(slip)
            /\ \A k \in Places : Off(slip, d)[k] <= Off(s, d)[k]
            => r >= Reliability(s, d, w)

\* The status of a ball before an episode knows earlier draws only, and what it
\* says agrees: a ball is HOT when it has come up in the last few weeks, counted in
\* episodes, and then it has among the recent draws; a COLD one has not, unless weeks
\* are missing; the friends of a ball that came up are three.  A ball that never came
\* up is excepted: its skip is the number of the newest episode, so it counts as HOT
\* in the first weeks.
StatusAgrees ==
  \A n \in Range(slip), before \in 1 .. Newest + 1 :
    LET st == BallStatus(n, before)
        known == Known(before)
    IN /\ st.latest < before /\ st.ten <= st.thirty
       /\ st.latest = 0 => st.thirty = 0
       /\ st.latest # 0 =>
            /\ st.status = "HOT" <=> \E i \in Hits(n, known) :
                                      draws[i].episode >= draws[Min(known)].episode - HotSkip
            /\ st.status = "HOT" => st.ten > 0
            /\ draws[Min(known)].episode = draws[Max(known)].episode + Max(known) - Min(known) =>
                 (st.status = "COLD" => st.ten = 0)
            /\ Cardinality(FriendlyNumbers(n, before)) = 3
=============================================================================
