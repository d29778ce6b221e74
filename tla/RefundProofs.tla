---------------------------- MODULE RefundProofs ----------------------------
(***************************************************************************)
(* What is proved about Refund, for all amounts, bounds and slots.  Sums   *)
(* over payments are recursions over sets, so their laws come first, by    *)
(* induction: of the sets a law fails for, take a smallest one.            *)
(***************************************************************************)
EXTENDS RefundInvariant, FiniteSetTheorems, WellFoundedInduction, SequenceTheorems, TLAPS

\* A set of subsets of a finite set has a least one: what induction over sets is here.
LEMMA SmallestSubset ==
  ASSUME NEW S, IsFiniteSet(S), NEW T, T \subseteq SUBSET S, T # {}
  PROVE  \E U \in T : \A V \in T : V \subseteq U => V = U
<1>1. IsWellFoundedOn(StrictSubsetOrdering(S), SUBSET S)
  BY FS_StrictSubsetOrderingWellFounded, FS_FiniteSubsetsOfFinite
<1>2. \E U \in T : \A V \in T : ~ (<<V, U>> \in StrictSubsetOrdering(S))
  BY <1>1, WFMin
<1> QED
  BY <1>2 DEF StrictSubsetOrdering

\* SumFunction is a recursion over the subsets of the domain that takes out one
\* element after the other.
One(s) == CHOOSE x \in s : TRUE
Adds(g, f, S) == g = [s \in SUBSET S |-> IF s = {} THEN 0 ELSE f[One(s)] + g[s \ {One(s)}]]
Adder(f, S) == CHOOSE g : Adds(g, f, S)

LEMMA OneIsIn == \A s : s # {} => One(s) \in s
  BY DEF One

LEMMA SumIs == \A f, S : SumFunctionOnSet(f, S) = Adder(f, S)[S]
  BY DEF SumFunctionOnSet, FoldFunctionOnSet, MapThenFoldSet, One, Adder, Adds

LEMMA AddsOnce ==
  ASSUME NEW f, NEW S, IsFiniteSet(S), NEW g, NEW h,
         NEW U \in SUBSET S, NEW V \in SUBSET S, Adds(g, f, U), Adds(h, f, V),
         NEW W, W \subseteq U, W \subseteq V
  PROVE  g[W] = h[W]
<1> DEFINE Bad == {T \in SUBSET S : T \subseteq U /\ T \subseteq V /\ g[T] # h[T]}
<1> SUFFICES Bad = {}
  OBVIOUS
<1> SUFFICES ASSUME Bad # {} PROVE FALSE
  OBVIOUS
<1>0. Bad \subseteq SUBSET S
  OBVIOUS
<1>1. PICK T \in Bad : \A Q \in Bad : Q \subseteq T => Q = T
  <2> HIDE DEF Bad
  <2> QED
    BY <1>0, SmallestSubset
<1>2. /\ g[T] = IF T = {} THEN 0 ELSE f[One(T)] + g[T \ {One(T)}]
      /\ h[T] = IF T = {} THEN 0 ELSE f[One(T)] + h[T \ {One(T)}]
  BY <1>1 DEF Adds
<1>3. CASE T = {}
  BY <1>1, <1>2, <1>3
<1>4. CASE T # {}
  <2>1. T \ {One(T)} \subseteq T /\ T \ {One(T)} # T /\ T \ {One(T)} \in SUBSET S
    BY <1>1, <1>4, OneIsIn
  <2>2. g[T \ {One(T)}] = h[T \ {One(T)}]
    BY <1>1, <2>1
  <2> QED
    BY <1>1, <1>2, <2>2
<1> QED
  BY <1>3, <1>4

LEMMA AdderAdds ==
  ASSUME NEW f, NEW S, IsFiniteSet(S)
  PROVE  \A U \in SUBSET S : Adds(Adder(f, U), f, U)
<1> DEFINE Bad == {U \in SUBSET S : ~ Adds(Adder(f, U), f, U)}
<1> SUFFICES ASSUME Bad # {} PROVE FALSE
  OBVIOUS
<1>0. Bad \subseteq SUBSET S
  OBVIOUS
<1>1. PICK U \in Bad : \A Q \in Bad : Q \subseteq U => Q = U
  <2> HIDE DEF Bad
  <2> QED
    BY <1>0, SmallestSubset
<1> DEFINE rest(s) == s \ {One(s)}
           g == [s \in SUBSET U |-> IF s = {} THEN 0 ELSE f[One(s)] + Adder(f, rest(s))[rest(s)]]
<1>2. ASSUME NEW s \in SUBSET U, s # {}
      PROVE  g[rest(s)] = Adder(f, rest(s))[rest(s)]
  <2>1. rest(s) \subseteq U /\ rest(s) # U /\ rest(s) \in SUBSET S
    BY <1>1, <1>2, OneIsIn
  <2>2. Adds(Adder(f, rest(s)), f, rest(s))
    BY <1>1, <2>1
  <2> DEFINE t == rest(s)
  <2>3. Adder(f, t)[t] = IF t = {} THEN 0 ELSE f[One(t)] + Adder(f, t)[rest(t)]
    BY <2>2 DEF Adds
  <2>4. CASE t = {}
    BY <2>1, <2>3, <2>4
  <2>5. CASE t # {}
    <3>1. rest(t) \subseteq t /\ rest(t) \subseteq U /\ rest(t) # U /\ rest(t) \in SUBSET S
      BY <2>1, <2>5, OneIsIn
    <3>2. Adds(Adder(f, rest(t)), f, rest(t))
      BY <1>1, <3>1
    <3>3. Adder(f, t)[rest(t)] = Adder(f, rest(t))[rest(t)]
      BY <2>1, <2>2, <3>1, <3>2, AddsOnce
    <3> QED
      BY <2>1, <2>3, <2>5, <3>3
  <2> QED
    BY <2>4, <2>5
<1>3. Adds(g, f, U)
  BY <1>2 DEF Adds
<1>4. Adds(Adder(f, U), f, U)
  BY <1>3 DEF Adder
<1> QED
  BY <1>1, <1>4

LEMMA SumOfNone == \A f : SumFunctionOnSet(f, {}) = 0
<1> SUFFICES ASSUME NEW f PROVE SumFunctionOnSet(f, {}) = 0
  OBVIOUS
<1>1. Adds(Adder(f, {}), f, {})
  BY AdderAdds, FS_EmptySet
<1> QED
  BY <1>1, SumIs DEF Adds

LEMMA SumTakesOne ==
  ASSUME NEW f, NEW U, IsFiniteSet(U), U # {}
  PROVE  SumFunctionOnSet(f, U) = f[One(U)] + SumFunctionOnSet(f, U \ {One(U)})
<1> DEFINE V == U \ {One(U)}
<1>1. Adds(Adder(f, U), f, U) /\ Adds(Adder(f, V), f, V)
  BY AdderAdds
<1>2. Adder(f, U)[V] = Adder(f, V)[V]
  BY <1>1, AddsOnce
<1> QED
  BY <1>1, <1>2, SumIs DEF Adds

LEMMA SumIsIn ==
  ASSUME NEW T, 0 \in T, \A m, n \in T : m + n \in T,
         NEW S, IsFiniteSet(S), NEW f, \A x \in S : f[x] \in T
  PROVE  \A U \in SUBSET S : SumFunctionOnSet(f, U) \in T
<1> DEFINE Bad == {U \in SUBSET S : SumFunctionOnSet(f, U) \notin T}
<1> SUFFICES ASSUME Bad # {} PROVE FALSE
  OBVIOUS
<1>0. Bad \subseteq SUBSET S
  OBVIOUS
<1>1. PICK U \in Bad : \A Q \in Bad : Q \subseteq U => Q = U
  <2> HIDE DEF Bad
  <2> QED
    BY <1>0, SmallestSubset
<1>2. U \in SUBSET S /\ SumFunctionOnSet(f, U) \notin T
  OBVIOUS
<1>3. U # {} /\ IsFiniteSet(U)
  BY <1>2, SumOfNone, FS_Subset
<1> DEFINE c == One(U)
<1>4. c \in U /\ SumFunctionOnSet(f, U) = f[c] + SumFunctionOnSet(f, U \ {c})
  BY <1>3, SumTakesOne, OneIsIn
<1>5. SumFunctionOnSet(f, U \ {c}) \in T
  BY <1>1, <1>4
<1> QED
  BY <1>2, <1>4, <1>5

LEMMA SumIsInt ==
  ASSUME NEW S, IsFiniteSet(S), NEW f, \A x \in S : f[x] \in Int
  PROVE  \A U \in SUBSET S : SumFunctionOnSet(f, U) \in Int
<1>1. 0 \in Int /\ \A m, n \in Int : m + n \in Int
  OBVIOUS
<1> QED
  BY <1>1, SumIsIn

LEMMA SumIsNat ==
  ASSUME NEW S, IsFiniteSet(S), NEW f, \A x \in S : f[x] \in Nat
  PROVE  \A U \in SUBSET S : SumFunctionOnSet(f, U) \in Nat
<1>1. 0 \in Nat /\ \A m, n \in Nat : m + n \in Nat
  OBVIOUS
<1> QED
  BY <1>1, SumIsIn

\* Whichever element is taken out, the rest of the sum is that of the others.
LEMMA SumTakesAny ==
  ASSUME NEW S, IsFiniteSet(S), NEW f, \A x \in S : f[x] \in Int
  PROVE  \A U \in SUBSET S : \A x \in U :
           SumFunctionOnSet(f, U) = f[x] + SumFunctionOnSet(f, U \ {x})
<1> DEFINE Parts(U, x) == SumFunctionOnSet(f, U) = f[x] + SumFunctionOnSet(f, U \ {x})
           Bad == {U \in SUBSET S : \E x \in U : ~ Parts(U, x)}
<1> SUFFICES ASSUME Bad # {} PROVE FALSE
  OBVIOUS
<1>0. Bad \subseteq SUBSET S
  OBVIOUS
<1>1. PICK U \in Bad : \A Q \in Bad : Q \subseteq U => Q = U
  <2> HIDE DEF Bad
  <2> QED
    BY <1>0, SmallestSubset
<1>2. PICK x \in U : ~ Parts(U, x)
  BY <1>1
<1> DEFINE c == One(U)
<1>3. c \in U /\ Parts(U, c) /\ IsFiniteSet(U) /\ U \in SUBSET S
  BY <1>1, <1>2, SumTakesOne, OneIsIn, FS_Subset
<1>4. c # x
  BY <1>2, <1>3
<1>5. Parts(U \ {c}, x) /\ Parts(U \ {x}, c)
  BY <1>1, <1>2, <1>3, <1>4
<1>6. (U \ {c}) \ {x} = (U \ {x}) \ {c}
  OBVIOUS
<1>7. {f[x], f[c], SumFunctionOnSet(f, (U \ {c}) \ {x})} \subseteq Int
  BY <1>2, <1>3, SumIsInt
<1> HIDE DEF Bad, c
<1>8. SumFunctionOnSet(f, U) = f[c] + (f[x] + SumFunctionOnSet(f, (U \ {c}) \ {x}))
  BY <1>3, <1>5
<1>9. SumFunctionOnSet(f, U \ {x}) = f[c] + SumFunctionOnSet(f, (U \ {c}) \ {x})
  BY <1>5, <1>6
<1> QED
  BY <1>2, <1>7, <1>8, <1>9

LEMMA SumsAgree ==
  ASSUME NEW S, IsFiniteSet(S), NEW f, NEW g, \A x \in S : f[x] = g[x]
  PROVE  SumFunctionOnSet(f, S) = SumFunctionOnSet(g, S)
<1> DEFINE Bad == {U \in SUBSET S : SumFunctionOnSet(f, U) # SumFunctionOnSet(g, U)}
<1> SUFFICES ASSUME Bad # {} PROVE FALSE
  OBVIOUS
<1>0. Bad \subseteq SUBSET S
  OBVIOUS
<1>1. PICK U \in Bad : \A Q \in Bad : Q \subseteq U => Q = U
  <2> HIDE DEF Bad
  <2> QED
    BY <1>0, SmallestSubset
<1>2. U # {} /\ IsFiniteSet(U)
  BY <1>1, SumOfNone, FS_Subset
<1>3. SumFunctionOnSet(f, U \ {One(U)}) = SumFunctionOnSet(g, U \ {One(U)})
  BY <1>1, <1>2, OneIsIn
<1> QED
  BY <1>1, <1>2, <1>3, SumTakesOne, OneIsIn

LEMMA SumsCompare ==
  ASSUME NEW S, IsFiniteSet(S), NEW f, NEW g, NEW a \in Nat, NEW b \in Nat,
         \A x \in S : f[x] \in Int /\ g[x] \in Int /\ a * f[x] <= b * g[x]
  PROVE  a * SumFunctionOnSet(f, S) <= b * SumFunctionOnSet(g, S)
<1> DEFINE F(U) == SumFunctionOnSet(f, U)
           G(U) == SumFunctionOnSet(g, U)
           Bad == {U \in SUBSET S : ~ (a * F(U) <= b * G(U))}
<1> SUFFICES ASSUME Bad # {} PROVE FALSE
  OBVIOUS
<1>0. Bad \subseteq SUBSET S
  OBVIOUS
<1>1. PICK U \in Bad : \A Q \in Bad : Q \subseteq U => Q = U
  <2> HIDE DEF Bad
  <2> QED
    BY <1>0, SmallestSubset
<1>2. U # {} /\ IsFiniteSet(U)
  <2>1. F({}) = 0 /\ G({}) = 0 /\ a * 0 <= b * 0
    BY SumOfNone
  <2>2. U \in SUBSET S /\ ~ (a * F(U) <= b * G(U))
    OBVIOUS
  <2> QED
    BY <2>1, <2>2, FS_Subset
<1> DEFINE c == One(U)
           V == U \ {c}
<1>3. c \in U /\ F(U) = f[c] + F(V) /\ G(U) = g[c] + G(V)
  BY <1>2, SumTakesOne, OneIsIn
<1>4. a * F(V) <= b * G(V)
  BY <1>1, <1>3
<1>5. {F(V), G(V), f[c], g[c]} \subseteq Int
  BY <1>1, <1>3, SumIsInt
<1>6. a * F(U) = a * f[c] + a * F(V) /\ b * G(U) = b * g[c] + b * G(V)
  <2> HIDE DEF V, c, F, G
  <2> QED
    BY <1>3, <1>5, Z3
<1> QED
  <2>1. a * f[c] <= b * g[c]
    BY <1>1, <1>3
  <2>2. {a * f[c], b * g[c], a * F(V), b * G(V)} \subseteq Int
    BY <1>5
  <2> HIDE DEF V, c, F, G
  <2>3. a * F(U) <= b * G(U)
    BY <1>4, <1>6, <2>1, <2>2
  <2> USE DEF V, c, F, G
  <2> QED
    BY <1>1, <2>3

\* The latest of some payments is one of them, and none comes after it.
LEMMA LatestOfSet ==
  ASSUME NEW S, IsFiniteSet(S), S # {},
         \A k, m, q \in S : k >= q /\ q > m => k >= m /\ k # m,
         \A k, m \in S : k <= m \/ k > m, \A m \in S : m >= m
  PROVE  Latest(S) \in S /\ \A q \in S : q <= Latest(S)
<1> DEFINE From(m) == {k \in S : k >= m}
           T == {From(m) : m \in S}
<1>1. T \subseteq SUBSET S
  OBVIOUS
<1>2. T # {}
  <2>1. PICK m \in S : TRUE
    OBVIOUS
  <2>2. From(m) \in T
    OBVIOUS
  <2> QED
    BY <2>2
<1> HIDE DEF T
<1>4. PICK U \in T : \A V \in T : V \subseteq U => V = U
  BY <1>1, <1>2, SmallestSubset
<1>5. PICK m \in S : U = From(m)
  BY DEF T
<1>6. ASSUME NEW q \in S, q > m PROVE FALSE
  <2>1. From(q) \in T
    BY DEF T
  <2>2. From(q) \subseteq From(m)
    BY <1>6
  <2>3. m \in From(m) /\ m \notin From(q)
    BY <1>6
  <2> QED
    BY <1>4, <1>5, <2>1, <2>2, <2>3
<1>7. \A q \in S : q <= m
  BY <1>6
<1> QED
  BY <1>7 DEF Latest

LEMMA LatestIsLast ==
  ASSUME NEW n \in Nat, NEW S, S \subseteq 1..n, S # {}
  PROVE  Latest(S) \in S /\ \A q \in S : q <= Latest(S)
<1>1. IsFiniteSet(1..n)
  BY FS_Interval
<1>2. IsFiniteSet(S)
  BY <1>1, FS_Subset
<1>3. S \subseteq Int
  OBVIOUS
<1>4. /\ \A k, m, q \in S : k >= q /\ q > m => k >= m /\ k # m
      /\ \A k, m \in S : k <= m \/ k > m
      /\ \A m \in S : m >= m
  BY <1>3
<1> QED
  BY <1>2, <1>4, LatestOfSet

-----------------------------------------------------------------------------
(* The invariant of all behaviours.                                        *)

StoreOK == /\ calm \in BOOLEAN /\ reopened \in BOOLEAN /\ begun \in Nat
           /\ pays \in Seq(Payment) /\ hon \in Purse /\ inq \in Seq(Inquiry)
           /\ sub \in {"NONE", "MONTHLY", "YEARLY", "STOPPED"}
           /\ PaysOK /\ PaidBack /\ (Active => Subscribed)

Grows == /\ DOMAIN pays \subseteq DOMAIN pays' /\ DOMAIN inq \subseteq DOMAIN inq'
         /\ \A p \in DOMAIN pays : pays'[p].back >= pays[p].back

LEMMA IInvIs == IInv <=> /\ StoreOK /\ task \in [Tasks -> Request]
                         /\ \A t \in Tasks : RequestOK(task[t])
  BY DEF IInv, StoreOK, TypeOK

LEMMA PaysAre ==
  \A s \in Seq(Payment) :
    /\ Len(s) \in Nat /\ DOMAIN s = 1..Len(s)
    /\ \A p \in DOMAIN s : /\ s[p] \in Payment /\ s[p].back \in Nat
                          /\ s[p].amount \in Nat /\ s[p].amount > 0
<1> SUFFICES ASSUME NEW s \in Seq(Payment)
             PROVE  /\ Len(s) \in Nat /\ DOMAIN s = 1..Len(s)
                    /\ \A p \in DOMAIN s : /\ s[p] \in Payment /\ s[p].back \in Nat
                                          /\ s[p].amount \in Nat /\ s[p].amount > 0
  OBVIOUS
<1>1. Len(s) \in Nat /\ DOMAIN s = 1..Len(s) /\ \A p \in DOMAIN s : s[p] \in Payment
  BY LenProperties
<1>2. \A a \in HonAmounts \cup PlanAmounts : a \in Nat /\ a > 0
  BY RefundAssumption
<1> QED
  BY <1>1, <1>2 DEF Payment

LEMMA IdleIsOK == Idle \in Request /\ RequestOK(Idle)
<1>1. 0 \in Nat /\ {} \in SUBSET Nat
  OBVIOUS
<1>2. Idle \in Request
  BY <1>1 DEF Idle, Request, Steps, Types, Purse
<1> QED
  BY <1>2 DEF Idle, RequestOK

LEMMA OthersStayOK ==
  ASSUME StoreOK, StoreOK', Grows, NEW a \in Request, RequestOK(a)
  PROVE  RequestOK(a)'
<1>1. Len(pays) \in Nat /\ DOMAIN pays = 1..Len(pays)
  BY PaysAre DEF StoreOK
<1>2. CASE a.at \in {"saveCancel", "record"}
  <2> DEFINE p == Latest(a.queue)
  <2>1. p \in DOMAIN pays /\ pays[p].back > 0
    BY <1>1, <1>2, LatestIsLast DEF RequestOK
  <2>2. pays[p].back \in Nat
    BY <2>1, PaysAre DEF StoreOK
  <2>3. pays'[p].back >= pays[p].back /\ p \in DOMAIN pays'
    BY <2>1 DEF Grows
  <2>4. pays'[p].back \in Nat
    BY <2>3, PaysAre DEF StoreOK
  <2>5. pays'[p].back > 0
    BY <2>1, <2>2, <2>3, <2>4
  <2> QED
    BY <1>2, <2>5 DEF RequestOK, Grows
<1>3. CASE a.at \notin {"saveCancel", "record"}
  BY <1>3 DEF RequestOK, Grows
<1> QED
  BY <1>2, <1>3

\* One slot changes, or none, and what is stored with it.
LEMMA StepKeepsIInv ==
  ASSUME IInv, StoreOK', Grows, NEW t \in Tasks, NEW r \in Request, RequestOK(r)',
         task' = [task EXCEPT ![t] = r]
  PROVE  IInv'
<1>1. task' \in [Tasks -> Request] /\ \A u \in Tasks : task'[u] = IF u = t THEN r ELSE task[u]
  BY IInvIs
<1>2. (\A u \in Tasks : RequestOK(task[u]))'
  <2> SUFFICES ASSUME NEW u \in Tasks PROVE RequestOK(task[u])'
    OBVIOUS
  <2>1. PICK a : a = task[u]
    OBVIOUS
  <2>2. a \in Request /\ RequestOK(a)
    BY <2>1, IInvIs
  <2>3. RequestOK(a)'
    BY <2>2, OthersStayOK, IInvIs
  <2>4. task'[u] = a \/ task'[u] = r
    BY <1>1, <2>1
  <2> QED
    BY <2>3, <2>4 DEF RequestOK
<1> QED
  BY <1>1, <1>2 DEF IInv, StoreOK, TypeOK

\* What a request costs or brings is counted in naturals.
LEMMA AmountsAreNat ==
  ASSUME StoreOK, NEW S, S \subseteq DOMAIN pays, NEW paid \in Nat
  PROVE  /\ Charged(S) \in Nat /\ Worth(S) \in Nat
         /\ Returned(S, paid) \in Nat /\ Returned(S, paid) <= paid
         /\ Returned(S, paid) <= Charged(S) /\ HonRefund(S, paid) \in Nat
<1>1. /\ Len(pays) \in Nat /\ DOMAIN pays = 1..Len(pays)
      /\ \A p \in DOMAIN pays : pays[p].amount \in Nat
  BY PaysAre DEF StoreOK
<1>2. IsFiniteSet(DOMAIN pays)
  <2>1. IsFiniteSet(1..Len(pays))
    BY <1>1, FS_Interval
  <2> QED
    BY <1>1, <2>1
<1>3. Charged(S) \in Nat
  <2>1. \A p \in DOMAIN pays : ChargedHon(pays[p].amount) \in Nat
    BY DEF ChargedHon
  <2>2. PICK f : f = [p \in DOMAIN pays |-> ChargedHon(pays[p].amount)]
    OBVIOUS
  <2>3. \A p \in DOMAIN pays : f[p] \in Nat
    BY <2>1, <2>2
  <2>4. SumFunctionOnSet(f, S) \in Nat
    BY <1>2, <2>3, SumIsNat
  <2> QED
    BY <2>2, <2>4 DEF Charged
<1>4. Worth(S) \in Nat
  <2>1. PICK f : f = [p \in DOMAIN pays |-> pays[p].amount]
    OBVIOUS
  <2>2. \A p \in DOMAIN pays : f[p] \in Nat
    BY <1>1, <2>1
  <2>3. SumFunctionOnSet(f, S) \in Nat
    BY <1>2, <2>2, SumIsNat
  <2> QED
    BY <2>1, <2>3 DEF Worth
<1>5. Returned(S, paid) \in Nat /\ Returned(S, paid) <= paid /\ Returned(S, paid) <= Charged(S)
  BY <1>3 DEF Returned, Least
<1>6. HonRefund(S, paid) \in Nat
  BY <1>3, <1>4, <1>5 DEF HonRefund, AtLeastZero
<1> QED
  BY <1>3, <1>4, <1>5, <1>6

LEMMA BalanceAfter ==
  ASSUME StoreOK, NEW fee \in Nat, NEW paidFirst \in BOOLEAN, Afford(fee)
  PROVE  /\ After(fee, paidFirst) \in Purse
         /\ After(fee, FALSE).paid <= hon.paid
<1>1. hon.free \in Nat /\ hon.paid \in Nat
  BY DEF StoreOK, Purse
<1> QED
  BY <1>1 DEF After, Afford, AtLeastZero, Purse

LEMMA StoreUnchanged ==
  ASSUME StoreOK, UNCHANGED <<calm, pays, hon, sub, inq, reopened>>, begun' \in Nat
  PROVE  StoreOK' /\ Grows
<1>1. \A p \in DOMAIN pays : pays[p].back \in Nat
  BY PaysAre DEF StoreOK
<1> QED
  BY <1>1 DEF StoreOK, Grows, PaysOK, PaidBack, Active, Subscribed

\* A step that changes nothing but its slot.
LEMMA QuietStep ==
  ASSUME IInv, UNCHANGED <<calm, pays, hon, sub, inq, reopened>>, begun' \in Nat,
         NEW t \in Tasks, NEW r \in Request, RequestOK(r), task' = [task EXCEPT ![t] = r]
  PROVE  IInv'
<1>1. StoreOK' /\ Grows /\ StoreOK
  BY StoreUnchanged, IInvIs
<1>2. RequestOK(r)'
  BY <1>1, OthersStayOK
<1> QED
  BY <1>1, <1>2, StepKeepsIInv

LEMMA BeginKeepsIInv ==
  ASSUME IInv, NEW t \in Tasks, NEW r \in Request, RequestOK(r), Begin(t, r),
         UNCHANGED <<calm, pays, hon, sub, inq, reopened>>
  PROVE  IInv'
<1>1. begun' \in Nat /\ task' = [task EXCEPT ![t] = r]
  BY DEF Begin, Arrives, Run, IInv, TypeOK
<1> QED
  BY <1>1, QuietStep

LEMMA ConstantsAre ==
  /\ \A a \in HonAmounts \cup PlanAmounts : a \in Nat
  /\ \A fee \in Fees : fee \in Nat /\ fee > 0
  /\ \A used \in UsedValues : used \in Nat
  /\ \A type \in Asked : type \in Types
<1>1. \A fee \in Fees : fee \in Nat /\ fee > 0
  BY RefundAssumption
<1>2. \A a \in HonAmounts \cup PlanAmounts : a \in Nat
  BY RefundAssumption
<1>3. UsedValues \subseteq Nat /\ Asked \subseteq Types
  BY RefundAssumption
<1> QED
  BY <1>1, <1>2, <1>3

LEMMA IdsAre ==
  ASSUME StoreOK
  PROVE  DOMAIN inq = 1..Len(inq) /\ Len(inq) \in Nat /\ \A i \in DOMAIN inq : i \in Nat /\ i # 0
<1>1. DOMAIN inq = 1..Len(inq) /\ Len(inq) \in Nat
  BY LenProperties DEF StoreOK
<1> QED
  BY <1>1

LEMMA CheckPaymentKeepsIInv ==
  ASSUME IInv, NEW t \in Tasks, NEW amount \in HonAmounts \cup PlanAmounts,
         CheckPayment(t, amount)
  PROVE  IInv'
<1>1. PICK r : r = [Idle EXCEPT !.at = "insertPayment", !.amount = amount]
  OBVIOUS
<1>2. Begin(t, r) /\ UNCHANGED <<calm, pays, hon, sub, inq, reopened>>
  BY <1>1 DEF CheckPayment
<1>3. r \in Request /\ RequestOK(r)
  <2>1. amount \in Nat /\ Idle \in Request /\ RequestOK(Idle)
    BY ConstantsAre, IdleIsOK
  <2> QED
    BY <1>1, <2>1 DEF Idle, Request, RequestOK, Steps
<1> QED
  BY <1>2, <1>3, BeginKeepsIInv

LEMMA SpendKeepsIInv ==
  ASSUME IInv, NEW t \in Tasks, NEW fee \in Fees, Spend(t, fee)
  PROVE  IInv'
<1>1. PICK r : r = [Idle EXCEPT !.at = "write", !.purse = After(fee, FALSE)]
  OBVIOUS
<1>2. Begin(t, r) /\ UNCHANGED <<calm, pays, hon, sub, inq, reopened>>
  BY <1>1 DEF Spend
<1>3. After(fee, FALSE) \in Purse
  <2>1. fee \in Nat /\ Afford(fee)
    BY ConstantsAre DEF Spend
  <2> QED
    BY <2>1, IInvIs, BalanceAfter
<1>4. r \in Request /\ RequestOK(r)
  <2>1. Idle \in Request /\ RequestOK(Idle)
    BY IdleIsOK
  <2> QED
    BY <1>1, <1>3, <2>1 DEF Idle, Request, RequestOK, Steps
<1> QED
  BY <1>2, <1>4, BeginKeepsIInv

LEMMA CheckInquiryKeepsIInv ==
  ASSUME IInv, NEW t \in Tasks, NEW type \in Asked, CheckInquiry(t, type)
  PROVE  IInv'
<1>1. PICK r : r = [Idle EXCEPT !.at = "insertInquiry", !.type = type]
  OBVIOUS
<1>2. Begin(t, r) /\ UNCHANGED <<calm, pays, hon, sub, inq, reopened>>
  BY <1>1 DEF CheckInquiry
<1>3. r \in Request /\ RequestOK(r)
  <2>1. type \in Types /\ Idle \in Request /\ RequestOK(Idle)
    BY ConstantsAre, IdleIsOK
  <2> QED
    BY <1>1, <2>1 DEF Idle, Request, RequestOK, Steps
<1> QED
  BY <1>2, <1>3, BeginKeepsIInv

LEMMA LatestIsPaid ==
  ASSUME StoreOK, Paid # {}
  PROVE  Latest(Paid) \in Paid /\ Latest(Paid) \in Nat /\ Latest(Paid) \in DOMAIN pays
<1>1. Len(pays) \in Nat /\ DOMAIN pays = 1..Len(pays)
  BY PaysAre DEF StoreOK
<1>2. Paid \subseteq 1..Len(pays)
  BY <1>1 DEF Paid
<1>3. PICK m : m = Latest(Paid)
  OBVIOUS
<1>4. m \in Paid
  BY <1>1, <1>2, <1>3, LatestIsLast
<1>5. m \in DOMAIN pays
  BY <1>4 DEF Paid
<1>6. m \in Nat
  BY <1>1, <1>5
<1> QED
  BY <1>3, <1>4, <1>5, <1>6

LEMMA ProposeKeepsIInv ==
  ASSUME IInv, NEW t \in Tasks, NEW i \in DOMAIN inq, ProposeRefund(t, i)
  PROVE  IInv'
<1>1. PICK offer \in Offers(Paid) :
        Begin(t, [Idle EXCEPT !.at = "propose", !.i = i, !.amount = offer,
                              !.queue = {Latest(Paid)}])
  BY DEF ProposeRefund
<1>2. PICK r : r = [Idle EXCEPT !.at = "propose", !.i = i, !.amount = offer,
                                !.queue = {Latest(Paid)}]
  OBVIOUS
<1>3. StoreOK /\ Paid # {} /\ UNCHANGED <<calm, pays, hon, sub, inq, reopened>>
  BY IInvIs DEF ProposeRefund
<1>4. Latest(Paid) \in Nat /\ Latest(Paid) \in DOMAIN pays
  BY <1>3, LatestIsPaid
<1>5. offer \in Nat
  <2>1. hon.paid \in Nat /\ Paid \subseteq DOMAIN pays
    BY <1>3 DEF StoreOK, Purse, Paid
  <2>2. HonRefund(Paid, hon.paid) \in Nat
    BY <1>3, <2>1, AmountsAreNat
  <2>3. pays[Latest(Paid)].amount \in Nat
    BY <1>3, <1>4, PaysAre DEF StoreOK
  <2>4. \A used \in UsedValues : used \in Nat
    BY ConstantsAre
  <2> QED
    BY <2>2, <2>3, <2>4 DEF Offers, AtLeastZero
<1>6. r \in Request /\ RequestOK(r)
  <2>1. i \in Nat /\ i # 0 /\ Idle \in Request /\ RequestOK(Idle)
    BY <1>3, IdsAre, IdleIsOK
  <2> QED
    BY <1>2, <1>4, <1>5, <2>1 DEF Idle, Request, RequestOK, Steps
<1>7. Begin(t, r)
  BY <1>1, <1>2
<1> QED
  BY <1>3, <1>6, <1>7, BeginKeepsIInv

LEMMA ConfirmKeepsIInv ==
  ASSUME IInv, NEW t \in Tasks, NEW i \in DOMAIN inq, ConfirmRefund(t, i)
  PROVE  IInv'
<1>1. PICK r : r = [Idle EXCEPT !.at = "list", !.i = i, !.purse = hon]
  OBVIOUS
<1>2. Begin(t, r) /\ UNCHANGED <<calm, pays, hon, sub, inq, reopened>>
  BY <1>1 DEF ConfirmRefund
<1>3. r \in Request /\ RequestOK(r)
  <2>1. i \in Nat /\ i # 0 /\ hon \in Purse /\ Idle \in Request /\ RequestOK(Idle)
    BY IInvIs, IdsAre, IdleIsOK DEF StoreOK
  <2> QED
    BY <1>1, <2>1 DEF Idle, Request, RequestOK, Steps
<1> QED
  BY <1>2, <1>3, BeginKeepsIInv

\* One payment of the table changes.
LEMMA OnePayment ==
  ASSUME StoreOK, NEW p \in DOMAIN pays, NEW x \in Payment, pays' = [pays EXCEPT ![p] = x]
  PROVE  /\ pays' \in Seq(Payment) /\ Len(pays') = Len(pays) /\ DOMAIN pays' = DOMAIN pays
         /\ \A q \in DOMAIN pays : pays'[q] = IF q = p THEN x ELSE pays[q]
<1>1. pays \in Seq(Payment) /\ DOMAIN pays = 1..Len(pays)
  BY PaysAre DEF StoreOK
<1>2. /\ pays' \in Seq(Payment) /\ Len(pays') = Len(pays)
      /\ \A q \in 1..Len(pays) : pays'[q] = IF q = p THEN x ELSE pays[q]
  BY <1>1, ExceptSeq
<1> QED
  BY <1>1, <1>2, PaysAre

\* Every way a payment changes keeps the store in order.
LEMMA PaymentStep ==
  ASSUME IInv, NEW p \in DOMAIN pays, NEW x \in Payment, pays' = [pays EXCEPT ![p] = x],
         x.amount = pays[p].amount, x.back >= pays[p].back,
         x.status # pays[p].status => x.status \in {"PAID", "CANCELLED"},
         x.status = "CANCELLED" => x.back > 0,
         hon' \in Purse, begun' \in Nat, UNCHANGED <<calm, inq, reopened>>,
         \/ sub' = sub
         \/ sub' = Plan[x.amount] /\ x.amount \in PlanAmounts /\ x.status = "PAID"
  PROVE  StoreOK' /\ Grows
<1>1. StoreOK
  BY IInvIs
<1>2. /\ pays' \in Seq(Payment) /\ Len(pays') = Len(pays) /\ DOMAIN pays' = DOMAIN pays
      /\ \A q \in DOMAIN pays : pays'[q] = IF q = p THEN x ELSE pays[q]
  BY <1>1, OnePayment
<1>3. \A q \in DOMAIN pays : pays[q].back \in Nat /\ pays[q] \in Payment
  BY <1>1, PaysAre DEF StoreOK
<1>4. Grows
  BY <1>2, <1>3 DEF Grows
<1>5. PaysOK' /\ PaidBack'
  BY <1>1, <1>2 DEF StoreOK, PaysOK, PaidBack
<1>6. Subscribed => Subscribed'
  BY <1>2 DEF Subscribed
<1>7. sub' \in {"NONE", "MONTHLY", "YEARLY", "STOPPED"} /\ (Active' => Subscribed')
  <2>1. CASE sub' = sub
    BY <1>1, <1>6, <2>1 DEF StoreOK, Active
  <2>2. CASE sub' = Plan[x.amount] /\ x.amount \in PlanAmounts /\ x.status = "PAID"
    <3>1. sub' \in {"MONTHLY", "YEARLY"}
      BY <2>2 DEF Plan
    <3>2. Subscribed'
      BY <1>2, <2>2 DEF Subscribed
    <3> QED
      BY <3>1, <3>2
  <2> QED
    BY <2>1, <2>2
<1> QED
  BY <1>1, <1>2, <1>4, <1>5, <1>7 DEF StoreOK

\* The steps that only move a slot on.
LEMMA SlotMoves ==
  ASSUME IInv, NEW t \in Tasks, NEW r, task' = [task EXCEPT ![t] = r],
         \/ r = Idle
         \/ \E step \in {"cancel", "deduct", "write", "settle"} :
              r = [task[t] EXCEPT !.at = step] /\ task[t].at \in {"cancel", "deduct", "write"}
                                              /\ task[t].i # 0,
         UNCHANGED <<calm, pays, hon, sub, inq, reopened, begun>>
  PROVE  IInv'
<1>1. PICK b : b = task[t]
  OBVIOUS
<1>2. b \in Request /\ RequestOK(b) /\ begun \in Nat /\ RequestOK(Idle) /\ Idle \in Request
  BY <1>1, IdleIsOK DEF IInv, TypeOK
<1>3. r \in Request /\ RequestOK(r)
  <2>1. CASE r = Idle
    BY <1>2, <2>1
  <2>2. ASSUME NEW step \in {"cancel", "deduct", "write", "settle"},
               r = [b EXCEPT !.at = step], b.i # 0
        PROVE  r \in Request /\ RequestOK(r)
    BY <1>2, <2>2 DEF Request, RequestOK, Steps
  <2> QED
    BY <1>1, <2>1, <2>2
<1> QED
  BY <1>2, <1>3, QuietStep

\* The balance is written.
LEMMA WriteKeepsIInv ==
  ASSUME IInv, NEW t \in Tasks, WriteHon(t)
  PROVE  IInv'
<1>1. PICK b : b = task[t]
  OBVIOUS
<1>2. PICK r : r = IF b.i = 0 THEN Idle ELSE [b EXCEPT !.at = "settle"]
  OBVIOUS
<1>3. b \in Request /\ RequestOK(b) /\ StoreOK /\ RequestOK(Idle) /\ Idle \in Request
  BY <1>1, IdleIsOK, IInvIs
<1>4. /\ r \in Request /\ RequestOK(r) /\ task' = [task EXCEPT ![t] = r] /\ hon' \in Purse
      /\ UNCHANGED <<calm, pays, sub, inq, reopened, begun>>
  BY <1>1, <1>2, <1>3 DEF WriteHon, End, Goto, Run, Request, RequestOK, Steps
<1>5. StoreOK' /\ Grows
  <2>1. \A p \in DOMAIN pays : pays[p].back \in Nat
    BY <1>3, PaysAre DEF StoreOK
  <2> QED
    BY <1>3, <1>4, <2>1 DEF StoreOK, Grows, PaysOK, PaidBack, Active, Subscribed
<1>6. RequestOK(r)'
  BY <1>3, <1>4, <1>5, OthersStayOK
<1> QED
  BY <1>4, <1>5, <1>6, StepKeepsIInv

\* A step that changes what is stored but no payment.
LEMMA OtherTables ==
  ASSUME IInv, UNCHANGED <<calm, pays, hon>>, begun' \in Nat, reopened' \in BOOLEAN,
         inq' \in Seq(Inquiry), DOMAIN inq \subseteq DOMAIN inq',
         sub' = sub \/ sub' = "STOPPED"
  PROVE  StoreOK' /\ Grows
<1>1. StoreOK /\ \A p \in DOMAIN pays : pays[p].back \in Nat
  BY IInvIs, PaysAre DEF StoreOK
<1> QED
  BY <1>1 DEF StoreOK, Grows, PaysOK, PaidBack, Active, Subscribed

LEMMA NoSlot ==
  ASSUME IInv, StoreOK', Grows, task' = task
  PROVE  IInv'
<1>1. (\A u \in Tasks : RequestOK(task[u]))'
  <2> SUFFICES ASSUME NEW u \in Tasks PROVE RequestOK(task[u])'
    OBVIOUS
  <2>1. PICK a : a = task[u]
    OBVIOUS
  <2>2. a \in Request /\ RequestOK(a)
    BY <2>1, IInvIs
  <2>3. RequestOK(a)'
    BY <2>2, OthersStayOK, IInvIs
  <2> QED
    BY <2>1, <2>3 DEF RequestOK
<1> QED
  BY <1>1 DEF IInv, StoreOK, TypeOK

\* An inquiry gets another status; the new row stays a row.
LEMMA OneInquiry ==
  ASSUME StoreOK, NEW i \in DOMAIN inq, NEW x \in Inquiry, inq' = [inq EXCEPT ![i] = x]
  PROVE  inq' \in Seq(Inquiry) /\ DOMAIN inq' = DOMAIN inq
<1>1. inq \in Seq(Inquiry) /\ i \in 1..Len(inq) /\ DOMAIN inq = 1..Len(inq)
  BY IdsAre DEF StoreOK
<1> QED
  BY <1>1, ExceptSeq

LEMMA InquiriesAre ==
  ASSUME StoreOK
  PROVE  \A i \in DOMAIN inq : inq[i] \in Inquiry
BY IdsAre, ElementOfSeq DEF StoreOK

\* What a slot holds, read once.
LEMMA SlotIs ==
  ASSUME IInv, NEW t \in Tasks, NEW b, b = task[t]
  PROVE  b \in Request /\ RequestOK(b) /\ StoreOK /\ Idle \in Request /\ RequestOK(Idle)
BY IInvIs, IdleIsOK

LEMMA InsertPaymentKeepsIInv ==
  ASSUME IInv, NEW t \in Tasks, InsertPayment(t)
  PROVE  IInv'
<1>1. PICK b : b = task[t]
  OBVIOUS
<1>2. b \in Request /\ RequestOK(b) /\ StoreOK /\ Idle \in Request /\ RequestOK(Idle)
  BY <1>1, SlotIs
<1>3. PICK x : x = [amount |-> b.amount, status |-> "READY", back |-> 0]
  OBVIOUS
<1>4. x \in Payment /\ x.amount \in HonAmounts \cup PlanAmounts
  BY <1>1, <1>2, <1>3 DEF InsertPayment, RequestOK, Payment
<1>5. /\ pays' = Append(pays, x) /\ pays \in Seq(Payment) /\ Len(pays) < MaxPays
      /\ UNCHANGED <<calm, hon, sub, inq, reopened, begun>> /\ task' = [task EXCEPT ![t] = Idle]
  BY <1>1, <1>2, <1>3 DEF InsertPayment, End, Run, StoreOK
<1>6. /\ pays' \in Seq(Payment) /\ DOMAIN pays' = DOMAIN pays \cup {Len(pays) + 1}
      /\ Len(pays') = Len(pays) + 1 /\ pays'[Len(pays) + 1] = x
      /\ \A p \in DOMAIN pays : pays'[p] = pays[p]
  BY <1>4, <1>5, AppendProperties, PaysAre
<1>7. /\ Len(pays) \in Nat /\ MaxPays \in Nat
      /\ \A p \in DOMAIN pays : pays[p].back \in Nat
  BY <1>5, PaysAre, RefundAssumption
<1>8. Len(pays') <= MaxPays
  BY <1>5, <1>6, <1>7
<1>9. StoreOK' /\ Grows
  BY <1>2, <1>3, <1>4, <1>5, <1>6, <1>7, <1>8
     DEF StoreOK, Grows, PaysOK, PaidBack, Active, Subscribed
<1>10. RequestOK(Idle)'
  BY <1>2, <1>9, OthersStayOK
<1> QED
  BY <1>2, <1>5, <1>9, <1>10, StepKeepsIInv

LEMMA ApproveKeepsIInv ==
  ASSUME IInv, NEW p \in DOMAIN pays, ApprovePayment(p)
  PROVE  IInv'
<1>1. StoreOK /\ pays[p] \in Payment
  BY IInvIs, PaysAre DEF StoreOK
<1>2. PICK x : x = [pays[p] EXCEPT !.status = "PAID"]
  OBVIOUS
<1>3. /\ x \in Payment /\ x.amount = pays[p].amount /\ x.back = pays[p].back
      /\ x.status = "PAID" /\ pays' = [pays EXCEPT ![p] = x]
  BY <1>1, <1>2 DEF Payment, ApprovePayment
<1>4. begun' \in Nat /\ task' = task /\ UNCHANGED <<calm, inq, reopened>>
  BY <1>1 DEF ApprovePayment, Arrives, StoreOK
<1>5. hon' \in Purse
  <2>1. hon.paid + ChargedHon(x.amount) \in Nat
    <3>1. hon.paid \in Nat
      BY <1>1 DEF StoreOK, Purse
    <3>2. ChargedHon(x.amount) \in Nat
      BY DEF ChargedHon
    <3> QED
      BY <3>1, <3>2
  <2>2. [hon EXCEPT !.paid = @ + ChargedHon(x.amount)] \in Purse
    BY <1>1, <2>1 DEF StoreOK, Purse
  <2> QED
    BY <1>1, <1>3, <2>2 DEF ApprovePayment, StoreOK
<1>6. \/ sub' = sub
      \/ sub' = Plan[x.amount] /\ x.amount \in PlanAmounts
  BY <1>3 DEF ApprovePayment
<1>7. x.back >= pays[p].back
  BY <1>1, <1>3 DEF Payment
<1>8. StoreOK' /\ Grows
  BY <1>3, <1>4, <1>5, <1>6, <1>7, PaymentStep
<1> QED
  BY <1>4, <1>8, NoSlot

LEMMA StopKeepsIInv ==
  ASSUME IInv, CancelSubscription
  PROVE  IInv'
<1>1. StoreOK /\ begun' \in Nat
  BY IInvIs DEF CancelSubscription, Arrives, StoreOK
<1>2. StoreOK' /\ Grows
  BY <1>1, OtherTables DEF CancelSubscription, StoreOK
<1> QED
  BY <1>2, NoSlot DEF CancelSubscription

LEMMA InsertInquiryKeepsIInv ==
  ASSUME IInv, NEW t \in Tasks, InsertInquiry(t)
  PROVE  IInv'
<1>1. PICK b : b = task[t]
  OBVIOUS
<1>2. b \in Request /\ RequestOK(b) /\ StoreOK /\ Idle \in Request /\ RequestOK(Idle)
  BY <1>1, SlotIs
<1>3. PICK x : x = [type |-> b.type, status |-> "PENDING", paymentId |-> 0,
                    refund |-> IF b.type = "REFUND" THEN "PENDING" ELSE "NONE"]
  OBVIOUS
<1>4. x \in Inquiry
  <2>1. b.type \in Types /\ 0 \in 0..MaxPays
    BY <1>2, RefundAssumption DEF Request
  <2> QED
    BY <1>3, <2>1 DEF Inquiry, RefundStatuses
<1>5. /\ inq' = Append(inq, x) /\ inq \in Seq(Inquiry) /\ begun' \in Nat
      /\ UNCHANGED <<calm, pays, hon, sub, reopened>> /\ task' = [task EXCEPT ![t] = Idle]
  BY <1>1, <1>2, <1>3 DEF InsertInquiry, End, Run, StoreOK
<1>6. inq' \in Seq(Inquiry) /\ DOMAIN inq \subseteq DOMAIN inq'
  <2>1. Append(inq, x) \in Seq(Inquiry) /\ Len(Append(inq, x)) = Len(inq) + 1
    BY <1>4, <1>5, AppendProperties
  <2>2. DOMAIN inq = 1..Len(inq) /\ DOMAIN inq' = 1..Len(inq') /\ Len(inq) \in Nat
    BY <1>5, <2>1, LenProperties
  <2> QED
    BY <1>5, <2>1, <2>2
<1>7. StoreOK' /\ Grows
  BY <1>2, <1>5, <1>6, OtherTables DEF StoreOK
<1>8. RequestOK(Idle)'
  BY <1>2, <1>7, OthersStayOK
<1> QED
  BY <1>2, <1>5, <1>7, <1>8, StepKeepsIInv

LEMMA ManagerKeepsIInv ==
  ASSUME IInv, NEW i \in DOMAIN inq, AnswerInquiry(i) \/ RejectRefund(i) \/ CancelRefund(i)
  PROVE  IInv'
<1>1. StoreOK /\ inq[i] \in Inquiry
  BY IInvIs, InquiriesAre
<1>2. /\ begun' \in Nat /\ task' = task /\ UNCHANGED <<calm, pays, hon, sub, reopened>>
  BY <1>1 DEF AnswerInquiry, RejectRefund, CancelRefund, Arrives, StoreOK
<1>3. \E x \in Inquiry : inq' = [inq EXCEPT ![i] = x]
  <2>1. CASE AnswerInquiry(i)
    BY <1>1, <2>1 DEF AnswerInquiry, Inquiry
  <2>2. ASSUME NEW s \in {"REJECTED", "CANCELLED"},
               inq' = [inq EXCEPT ![i].refund = s, ![i].status = "ANSWERED"]
        PROVE  \E x \in Inquiry : inq' = [inq EXCEPT ![i] = x]
    <3>1. [inq[i] EXCEPT !.refund = s, !.status = "ANSWERED"] \in Inquiry
      BY <1>1 DEF Inquiry, RefundStatuses
    <3>2. inq' = [inq EXCEPT ![i] = [inq[i] EXCEPT !.refund = s, !.status = "ANSWERED"]]
      BY <2>2
    <3> QED
      BY <3>1, <3>2
  <2> QED
    BY <2>1, <2>2 DEF RejectRefund, CancelRefund
<1>4. inq' \in Seq(Inquiry) /\ DOMAIN inq' = DOMAIN inq
  BY <1>1, <1>3, OneInquiry
<1>5. StoreOK' /\ Grows
  BY <1>1, <1>2, <1>4, OtherTables DEF StoreOK
<1> QED
  BY <1>2, <1>5, NoSlot

LEMMA SaveProposalKeepsIInv ==
  ASSUME IInv, NEW t \in Tasks, SaveProposal(t)
  PROVE  IInv'
<1>1. PICK b : b = task[t]
  OBVIOUS
<1>2. b \in Request /\ RequestOK(b) /\ StoreOK /\ Idle \in Request /\ RequestOK(Idle)
  BY <1>1, SlotIs
<1>3. PICK n : n = Latest(b.queue)
  OBVIOUS
<1>4. n \in 0..MaxPays
  <2>1. b.queue \subseteq 1..Len(pays) /\ b.queue # {} /\ Len(pays) \in Nat
    BY <1>1, <1>2, PaysAre DEF SaveProposal, RequestOK, StoreOK
  <2>2. n \in 1..Len(pays)
    BY <1>3, <2>1, LatestIsLast
  <2>3. Len(pays) <= MaxPays /\ MaxPays \in Nat
    BY <1>2, RefundAssumption DEF StoreOK, PaysOK
  <2> QED
    BY <2>1, <2>2, <2>3
<1>5. b.i \in DOMAIN inq /\ inq[b.i] \in Inquiry
  BY <1>1, <1>2, InquiriesAre DEF SaveProposal, RequestOK
<1>6. /\ UNCHANGED <<calm, pays, hon, sub, begun>> /\ task' = [task EXCEPT ![t] = Idle]
      /\ inq' = [inq EXCEPT ![b.i].refund = "PROPOSED", ![b.i].paymentId = n]
      /\ reopened' \in BOOLEAN
  BY <1>1, <1>2, <1>3 DEF SaveProposal, End, Run, StoreOK
<1>7. \E x \in Inquiry : inq' = [inq EXCEPT ![b.i] = x]
  <2>1. [inq[b.i] EXCEPT !.refund = "PROPOSED", !.paymentId = n] \in Inquiry
    BY <1>4, <1>5 DEF Inquiry, RefundStatuses
  <2>2. inq' = [inq EXCEPT ![b.i] = [inq[b.i] EXCEPT !.refund = "PROPOSED", !.paymentId = n]]
    BY <1>5, <1>6
  <2> QED
    BY <2>1, <2>2
<1>8. inq' \in Seq(Inquiry) /\ DOMAIN inq' = DOMAIN inq
  BY <1>2, <1>5, <1>7, OneInquiry
<1>9. StoreOK' /\ Grows
  BY <1>2, <1>6, <1>8, OtherTables DEF StoreOK
<1>10. RequestOK(Idle)'
  BY <1>2, <1>9, OthersStayOK
<1> QED
  BY <1>2, <1>6, <1>9, <1>10, StepKeepsIInv

LEMMA SettleKeepsIInv ==
  ASSUME IInv, NEW t \in Tasks, Settle(t)
  PROVE  IInv'
<1>1. PICK b : b = task[t]
  OBVIOUS
<1>2. b \in Request /\ RequestOK(b) /\ StoreOK /\ Idle \in Request /\ RequestOK(Idle)
  BY <1>1, SlotIs
<1>3. b.i \in DOMAIN inq /\ inq[b.i] \in Inquiry
  BY <1>1, <1>2, InquiriesAre DEF Settle, RequestOK
<1>4. /\ UNCHANGED <<calm, pays, hon, sub, reopened, begun>> /\ task' = [task EXCEPT ![t] = Idle]
      /\ inq' = [inq EXCEPT ![b.i].refund = "CONFIRMED", ![b.i].status = "ANSWERED"]
  BY <1>1, <1>2 DEF Settle, End, Run
<1>5. \E x \in Inquiry : inq' = [inq EXCEPT ![b.i] = x]
  <2>1. [inq[b.i] EXCEPT !.refund = "CONFIRMED", !.status = "ANSWERED"] \in Inquiry
    BY <1>3 DEF Inquiry, RefundStatuses
  <2>2. inq' = [inq EXCEPT ![b.i] = [inq[b.i] EXCEPT !.refund = "CONFIRMED", !.status = "ANSWERED"]]
    BY <1>3, <1>4
  <2> QED
    BY <2>1, <2>2
<1>6. inq' \in Seq(Inquiry) /\ DOMAIN inq' = DOMAIN inq
  BY <1>2, <1>3, <1>5, OneInquiry
<1>7. StoreOK' /\ Grows
  BY <1>2, <1>4, <1>6, OtherTables DEF StoreOK
<1>8. RequestOK(Idle)'
  BY <1>2, <1>7, OthersStayOK
<1> QED
  BY <1>2, <1>4, <1>7, <1>8, StepKeepsIInv

LEMMA ListKeepsIInv ==
  ASSUME IInv, NEW t \in Tasks, ListPayments(t)
  PROVE  IInv'
<1>1. PICK b : b = task[t]
  OBVIOUS
<1>2. b \in Request /\ RequestOK(b) /\ StoreOK /\ Idle \in Request /\ RequestOK(Idle)
  BY <1>1, SlotIs
<1>3. UNCHANGED <<calm, pays, hon, sub, inq, reopened, begun>> /\ begun \in Nat
  BY <1>2 DEF ListPayments, StoreOK
<1>4. CASE Paid = {}
  <2>1. task' = [task EXCEPT ![t] = Idle]
    BY <1>4 DEF ListPayments, End, Run
  <2> QED
    BY <1>2, <1>3, <2>1, QuietStep
<1>5. CASE Paid # {}
  <2>1. PICK r : r = [b EXCEPT !.at = "cancel", !.queue = Paid,
                               !.owed = HonRefund(Paid, b.purse.paid),
                               !.take = Returned(Paid, b.purse.paid)]
    OBVIOUS
  <2>2. task' = [task EXCEPT ![t] = r]
    BY <1>1, <1>5, <2>1 DEF ListPayments, Run
  <2>3. Paid \subseteq DOMAIN pays /\ Paid \in SUBSET Nat
    <3>1. Paid \subseteq DOMAIN pays
      BY DEF Paid
    <3>2. Len(pays) \in Nat /\ DOMAIN pays = 1..Len(pays)
      BY <1>2, PaysAre DEF StoreOK
    <3>3. \A p \in DOMAIN pays : p \in Nat
      BY <3>2
    <3> QED
      BY <3>1, <3>3
  <2>4. HonRefund(Paid, b.purse.paid) \in Nat /\ Returned(Paid, b.purse.paid) \in Nat
    <3>1. b.purse.paid \in Nat
      BY <1>2 DEF Request, Purse
    <3> QED
      BY <1>2, <2>3, <3>1, AmountsAreNat
  <2>5. b.i # 0
    BY <1>1, <1>2 DEF ListPayments, RequestOK
  <2>6. r \in Request
    BY <1>2, <2>1, <2>3, <2>4 DEF Request, Steps
  <2>7. RequestOK(r)
    BY <1>2, <2>1, <2>3, <2>5 DEF RequestOK, Request
  <2> QED
    BY <1>2, <1>3, <2>2, <2>6, <2>7, QuietStep
<1> QED
  BY <1>4, <1>5

\* What the gateway is asked for, and of which payment.
LEMMA ShareIs ==
  ASSUME StoreOK, NEW b \in Request, RequestOK(b), b.queue # {}, NEW p, p = Latest(b.queue),
         NEW share, share = Least(b.owed, pays[p].amount)
  PROVE  /\ p \in DOMAIN pays /\ p \in b.queue /\ pays[p] \in Payment /\ pays[p].back \in Nat
         /\ pays[p].amount \in Nat /\ share \in Nat /\ share <= b.owed
         /\ share <= pays[p].amount /\ (b.owed > 0 => share > 0)
<1>1. b.queue \subseteq 1..Len(pays) /\ Len(pays) \in Nat /\ DOMAIN pays = 1..Len(pays)
  BY PaysAre DEF RequestOK, StoreOK
<1>2. p \in b.queue
  BY <1>1, LatestIsLast
<1>3. /\ p \in DOMAIN pays /\ pays[p] \in Payment /\ pays[p].back \in Nat
      /\ pays[p].amount \in Nat /\ pays[p].amount > 0
  BY <1>1, <1>2, PaysAre DEF StoreOK
<1>4. b.owed \in Nat
  BY DEF Request
<1> QED
  BY <1>2, <1>3, <1>4 DEF Least

LEMMA GatewayKeepsIInv ==
  ASSUME IInv, NEW t \in Tasks, GatewayCancel(t)
  PROVE  IInv'
<1>1. PICK b : b = task[t]
  OBVIOUS
<1>2. b \in Request /\ RequestOK(b) /\ StoreOK /\ Idle \in Request /\ RequestOK(Idle)
  BY <1>1, SlotIs
<1>3. PICK p : p = Latest(b.queue)
  OBVIOUS
<1>4. PICK share : share = Least(b.owed, pays[p].amount)
  OBVIOUS
<1>5. /\ b.at = "cancel" /\ b.owed > 0 /\ b.queue # {}
      /\ IF share <= pays[p].amount - pays[p].back
         THEN /\ pays' = [pays EXCEPT ![p].back = @ + share]
              /\ task' = [task EXCEPT ![t] = [b EXCEPT !.at = "saveCancel", !.amount = share]]
         ELSE task' = [task EXCEPT ![t] = Idle] /\ UNCHANGED pays
      /\ UNCHANGED <<calm, hon, sub, inq, reopened, begun>>
  BY <1>1, <1>3, <1>4 DEF GatewayCancel, Current, Run, End
<1>6. /\ p \in DOMAIN pays /\ p \in b.queue /\ pays[p] \in Payment /\ pays[p].back \in Nat
      /\ pays[p].amount \in Nat /\ share \in Nat /\ share <= b.owed
      /\ share <= pays[p].amount /\ share > 0 /\ begun \in Nat
  BY <1>2, <1>3, <1>4, <1>5, ShareIs DEF StoreOK
<1>7. CASE share <= pays[p].amount - pays[p].back
  <2>1. PICK x : x = [pays[p] EXCEPT !.back = pays[p].back + share]
    OBVIOUS
  <2>2. PICK r : r = [b EXCEPT !.at = "saveCancel", !.amount = share]
    OBVIOUS
  <2>3. pays' = [pays EXCEPT ![p] = x] /\ task' = [task EXCEPT ![t] = r]
    BY <1>5, <1>7, <2>1, <2>2
  <2>4. /\ x \in Payment /\ x.amount = pays[p].amount /\ x.back = pays[p].back + share
        /\ x.status = pays[p].status
    BY <1>6, <2>1 DEF Payment
  <2>5. x.back > 0 /\ x.back >= pays[p].back
    BY <1>6, <2>4
  <2>6. hon' \in Purse
    BY <1>2, <1>5 DEF StoreOK
  <2>7. StoreOK' /\ Grows
    BY <1>5, <1>6, <2>3, <2>4, <2>5, <2>6, PaymentStep
  <2>8. pays'[p] = x
    BY <1>2, <1>6, <2>3, <2>4, OnePayment
  <2>9. r \in Request
    BY <1>2, <1>6, <2>2 DEF Request, Steps
  <2>10. RequestOK(b)'
    BY <1>2, <2>7, OthersStayOK
  <2>11. RequestOK(r)'
    <3>1. r.queue = b.queue /\ r.i = b.i /\ r.at = "saveCancel" /\ r.amount = share /\ r.owed = b.owed
      BY <1>2, <2>2 DEF Request
    <3> QED
      BY <1>3, <1>5, <1>6, <2>5, <2>8, <2>10, <3>1 DEF RequestOK
  <2> QED
    BY <2>3, <2>7, <2>9, <2>11, StepKeepsIInv
<1>8. CASE ~ (share <= pays[p].amount - pays[p].back)
  BY <1>2, <1>5, <1>6, <1>8, QuietStep
<1> QED
  BY <1>7, <1>8

LEMMA SaveCancelKeepsIInv ==
  ASSUME IInv, NEW t \in Tasks, SaveCancel(t)
  PROVE  IInv'
<1>1. PICK b : b = task[t]
  OBVIOUS
<1>2. b \in Request /\ RequestOK(b) /\ StoreOK /\ Idle \in Request /\ RequestOK(Idle)
  BY <1>1, SlotIs
<1>3. PICK p : p = Latest(b.queue)
  OBVIOUS
<1>4. PICK r : r = [b EXCEPT !.at = "cancel", !.queue = b.queue \ {p}, !.owed = b.owed - b.amount]
  OBVIOUS
<1>5. /\ b.at = "saveCancel"
      /\ IF pays[p].status = "PAID"
         THEN pays' = [pays EXCEPT ![p].status = "CANCELLED"] /\ task' = [task EXCEPT ![t] = r]
         ELSE task' = [task EXCEPT ![t] = Idle] /\ UNCHANGED pays
      /\ UNCHANGED <<calm, hon, sub, inq, reopened, begun>>
  BY <1>1, <1>3, <1>4 DEF SaveCancel, Current, Run, End
<1>6. /\ b.queue # {} /\ pays[p].back > 0 /\ 0 < b.amount /\ b.amount <= b.owed /\ b.i # 0
      /\ begun \in Nat /\ hon \in Purse
  BY <1>2, <1>3, <1>5 DEF RequestOK, StoreOK
<1>7. p \in DOMAIN pays /\ pays[p] \in Payment /\ pays[p].back \in Nat
  <2>1. PICK s : s = Least(b.owed, pays[p].amount)
    OBVIOUS
  <2> QED
    BY <1>2, <1>3, <1>6, <2>1, ShareIs
<1>8. r \in Request
  <2>1. b.owed - b.amount \in Nat /\ b.queue \ {p} \in SUBSET Nat
    BY <1>2, <1>6 DEF Request
  <2> QED
    BY <1>2, <1>4, <2>1 DEF Request, Steps
<1>9. CASE pays[p].status = "PAID"
  <2>1. PICK x : x = [pays[p] EXCEPT !.status = "CANCELLED"]
    OBVIOUS
  <2>2. pays' = [pays EXCEPT ![p] = x] /\ task' = [task EXCEPT ![t] = r]
    BY <1>5, <1>9, <2>1
  <2>3. /\ x \in Payment /\ x.amount = pays[p].amount /\ x.back = pays[p].back
        /\ x.status = "CANCELLED"
    BY <1>7, <2>1 DEF Payment
  <2>4. x.back >= pays[p].back
    BY <1>7, <2>3
  <2>5. StoreOK' /\ Grows
    BY <1>5, <1>6, <1>7, <2>2, <2>3, <2>4, PaymentStep
  <2>6. RequestOK(r)
    BY <1>2, <1>4, <1>6 DEF RequestOK, Request
  <2>7. RequestOK(r)'
    BY <1>2, <1>8, <2>5, <2>6, OthersStayOK
  <2> QED
    BY <1>8, <2>2, <2>5, <2>7, StepKeepsIInv
<1>10. CASE pays[p].status # "PAID"
  BY <1>2, <1>5, <1>6, <1>10, QuietStep
<1> QED
  BY <1>9, <1>10

LEMMA CancelPaymentKeepsIInv ==
  ASSUME IInv, NEW t \in Tasks, NEW p \in DOMAIN pays, CancelPayment(t, p)
  PROVE  IInv'
<1>1. PICK r : r = [Idle EXCEPT !.at = "record", !.queue = {p}]
  OBVIOUS
<1>2. PICK x : x = [pays[p] EXCEPT !.back = pays[p].amount]
  OBVIOUS
<1>3. /\ StoreOK /\ pays[p] \in Payment /\ pays[p].back \in Nat /\ pays[p].amount \in Nat
      /\ Len(pays) \in Nat /\ DOMAIN pays = 1..Len(pays) /\ p \in Nat
  BY IInvIs, PaysAre DEF StoreOK
<1>4. /\ x \in Payment /\ x.amount = pays[p].amount /\ x.back = pays[p].amount
      /\ x.status = pays[p].status
  BY <1>2, <1>3 DEF Payment
<1>5. /\ pays' = [pays EXCEPT ![p] = x] /\ task' = [task EXCEPT ![t] = r]
      /\ UNCHANGED <<calm, hon, sub, inq, reopened>> /\ begun' \in Nat
      /\ pays[p].back < pays[p].amount
  BY <1>1, <1>2, <1>3 DEF CancelPayment, Begin, Run, Arrives, StoreOK
<1>6. x.back > 0 /\ x.back >= pays[p].back /\ hon' \in Purse
  BY <1>3, <1>4, <1>5 DEF StoreOK
<1>7. StoreOK' /\ Grows
  BY <1>4, <1>5, <1>6, PaymentStep
<1>8. pays'[p] = x /\ DOMAIN pays' = DOMAIN pays
  BY <1>3, <1>4, <1>5, OnePayment
<1>9. Latest({p}) = p
  <2>1. {p} \subseteq 1..Len(pays) /\ {p} # {}
    BY <1>3
  <2>2. Latest({p}) \in {p}
    BY <1>3, <2>1, LatestIsLast
  <2> QED
    BY <2>2
<1>10. r \in Request /\ r.at = "record" /\ r.queue = {p} /\ r.i = 0
  <2>1. Idle \in Request
    BY IdleIsOK
  <2> QED
    BY <1>1, <1>3, <2>1 DEF Idle, Request, Steps
<1>11. RequestOK(r)'
  BY <1>6, <1>8, <1>9, <1>10 DEF RequestOK
<1> QED
  BY <1>5, <1>7, <1>10, <1>11, StepKeepsIInv

\* The payment whose direct cancellation is to be recorded.
LEMMA RecordedIs ==
  ASSUME StoreOK, NEW b \in Request, RequestOK(b), b.at = "record", NEW p, p = Latest(b.queue)
  PROVE  /\ p \in DOMAIN pays /\ p \in b.queue /\ pays[p] \in Payment
         /\ pays[p].back \in Nat /\ pays[p].back > 0
<1>1. b.queue # {} /\ pays[p].back > 0
  BY DEF RequestOK
<1>2. PICK share : share = Least(b.owed, pays[p].amount)
  OBVIOUS
<1> QED
  BY <1>1, <1>2, ShareIs

LEMMA RecordKeepsIInv ==
  ASSUME IInv, NEW t \in Tasks, RecordCancel(t)
  PROVE  IInv'
<1>1. PICK b : b = task[t]
  OBVIOUS
<1>2. b \in Request /\ RequestOK(b) /\ StoreOK /\ Idle \in Request /\ RequestOK(Idle)
  BY <1>1, SlotIs
<1>3. PICK p : p = Latest(b.queue)
  OBVIOUS
<1>4. /\ b.at = "record" /\ task' = [task EXCEPT ![t] = Idle]
      /\ UNCHANGED <<calm, hon, sub, inq, reopened, begun>>
      /\ pays' = IF pays[p].status = "PAID" THEN [pays EXCEPT ![p].status = "CANCELLED"] ELSE pays
  BY <1>1, <1>3 DEF RecordCancel, Current, End, Run
<1>5. /\ p \in DOMAIN pays /\ pays[p] \in Payment /\ pays[p].back \in Nat
      /\ pays[p].back > 0 /\ begun \in Nat /\ hon \in Purse
  BY <1>2, <1>3, <1>4, RecordedIs DEF StoreOK
<1>6. CASE pays[p].status = "PAID"
  <2>1. PICK x : x = [pays[p] EXCEPT !.status = "CANCELLED"]
    OBVIOUS
  <2>2. pays' = [pays EXCEPT ![p] = x]
    BY <1>4, <1>6, <2>1
  <2>3. /\ x \in Payment /\ x.amount = pays[p].amount /\ x.back = pays[p].back
        /\ x.status = "CANCELLED"
    BY <1>5, <2>1 DEF Payment
  <2>4. x.back >= pays[p].back
    BY <1>5, <2>3
  <2>5. StoreOK' /\ Grows
    BY <1>4, <1>5, <2>2, <2>3, <2>4, PaymentStep
  <2>6. RequestOK(Idle)'
    BY <1>2, <2>5, OthersStayOK
  <2> QED
    BY <1>2, <1>4, <2>5, <2>6, StepKeepsIInv
<1>7. CASE pays[p].status # "PAID"
  BY <1>2, <1>4, <1>5, <1>7, QuietStep
<1> QED
  BY <1>6, <1>7

LEMMA DeductKeepsIInv ==
  ASSUME IInv, NEW t \in Tasks, DeductHon(t)
  PROVE  IInv'
<1>1. PICK b : b = task[t]
  OBVIOUS
<1>2. b \in Request /\ RequestOK(b) /\ StoreOK /\ Idle \in Request /\ RequestOK(Idle)
  BY <1>1, SlotIs
<1>3. b.at = "deduct" /\ UNCHANGED <<calm, pays, hon, sub, inq, reopened, begun>> /\ b.i # 0
  BY <1>1, <1>2 DEF DeductHon, RequestOK
<1>4. CASE Active
  <2>1. task' = [task EXCEPT ![t] = [b EXCEPT !.at = "settle"]]
    BY <1>1, <1>4 DEF DeductHon, Goto, Run
  <2> QED
    BY <1>1, <1>3, <2>1, SlotMoves
<1>5. CASE ~Active /\ ~Afford(b.take)
  <2>1. task' = [task EXCEPT ![t] = Idle]
    BY <1>1, <1>5 DEF DeductHon, End, Run
  <2> QED
    BY <1>3, <2>1, SlotMoves
<1>6. CASE ~Active /\ Afford(b.take)
  <2>1. PICK r : r = [b EXCEPT !.at = "write", !.purse = After(b.take, TRUE)]
    OBVIOUS
  <2>2. task' = [task EXCEPT ![t] = r]
    BY <1>1, <1>6, <2>1 DEF DeductHon, Run
  <2>3. b.take \in Nat /\ begun \in Nat
    BY <1>2 DEF Request, StoreOK
  <2>4. After(b.take, TRUE) \in Purse
    BY <1>2, <1>6, <2>3, BalanceAfter
  <2>5. r \in Request
    BY <1>2, <2>1, <2>4 DEF Request, Steps
  <2>6. RequestOK(r)
    BY <1>2, <1>3, <2>1 DEF RequestOK, Request
  <2> QED
    BY <1>3, <2>2, <2>3, <2>5, <2>6, QuietStep
<1> QED
  BY <1>4, <1>5, <1>6

LEMMA AllCancelledKeepsIInv ==
  ASSUME IInv, NEW t \in Tasks, AllCancelled(t)
  PROVE  IInv'
<1>1. PICK step \in {"deduct", "settle"} : task' = [task EXCEPT ![t] = [task[t] EXCEPT !.at = step]]
  BY DEF AllCancelled, Goto, Run
<1>2. /\ task[t].at = "cancel" /\ task[t].i # 0
      /\ UNCHANGED <<calm, pays, hon, sub, inq, reopened, begun>>
  BY DEF AllCancelled, IInv, RequestOK
<1> QED
  BY <1>1, <1>2, SlotMoves

LEMMA AbortKeepsIInv ==
  ASSUME IInv, NEW t \in Tasks, Abort(t)
  PROVE  IInv'
BY SlotMoves DEF Abort, End, Run

LEMMA InitIsIInv == Init => IInv
<1> SUFFICES ASSUME Init PROVE IInv
  OBVIOUS
<1>1. pays = <<>> /\ inq = <<>> /\ DOMAIN pays = {}
  BY DEF Init
<1>2. hon \in Purse
  BY RefundAssumption DEF Init, Purse
<1>3. StoreOK
  <2>1. Len(pays) = 0 /\ 0 <= MaxPays
    BY <1>1, RefundAssumption
  <2>2. pays \in Seq(Payment) /\ inq \in Seq(Inquiry)
    BY <1>1
  <2> QED
    BY <1>1, <1>2, <2>1, <2>2 DEF Init, StoreOK, PaysOK, PaidBack, Active
<1>4. task \in [Tasks -> Request] /\ \A t \in Tasks : RequestOK(task[t])
  BY IdleIsOK DEF Init
<1> QED
  BY <1>3, <1>4, IInvIs

LEMMA ConfirmationKeepsIInv ==
  ASSUME IInv, NEW t \in Tasks, Confirmation(t)
  PROVE  IInv'
BY ListKeepsIInv, GatewayKeepsIInv, SaveCancelKeepsIInv, AllCancelledKeepsIInv, DeductKeepsIInv,
   WriteKeepsIInv, SettleKeepsIInv DEF Confirmation

LEMMA NextKeepsIInv == IInv /\ [Next]_vars => IInv'
<1> SUFFICES ASSUME IInv, [Next]_vars PROVE IInv'
  OBVIOUS
<1>1. CASE UNCHANGED vars
  <2>1. StoreOK' /\ Grows
    BY <1>1, IInvIs, StoreUnchanged DEF vars, StoreOK
  <2> QED
    BY <1>1, <2>1, NoSlot DEF vars
<1>2. ASSUME NEW t \in Tasks, NEW amount \in HonAmounts \cup PlanAmounts, CheckPayment(t, amount)
      PROVE  IInv'
  BY <1>2, CheckPaymentKeepsIInv
<1>3. ASSUME NEW t \in Tasks, NEW fee \in Fees, Spend(t, fee) PROVE IInv'
  BY <1>3, SpendKeepsIInv
<1>4. ASSUME NEW t \in Tasks, NEW type \in Asked, CheckInquiry(t, type) PROVE IInv'
  BY <1>4, CheckInquiryKeepsIInv
<1>5. ASSUME NEW t \in Tasks, NEW i \in DOMAIN inq, ProposeRefund(t, i) \/ ConfirmRefund(t, i)
      PROVE  IInv'
  BY <1>5, ProposeKeepsIInv, ConfirmKeepsIInv
<1>6. ASSUME NEW t \in Tasks,
             \/ InsertPayment(t) \/ InsertInquiry(t) \/ SaveProposal(t)
             \/ Confirmation(t) \/ RecordCancel(t) \/ Abort(t)
      PROVE  IInv'
  BY <1>6, InsertPaymentKeepsIInv, InsertInquiryKeepsIInv, SaveProposalKeepsIInv,
     ConfirmationKeepsIInv, RecordKeepsIInv, AbortKeepsIInv
<1>7. ASSUME NEW p \in DOMAIN pays, ApprovePayment(p) PROVE IInv'
  BY <1>7, ApproveKeepsIInv
<1>8. ASSUME NEW i \in DOMAIN inq, AnswerInquiry(i) \/ RejectRefund(i) \/ CancelRefund(i)
      PROVE  IInv'
  BY <1>8, ManagerKeepsIInv
<1>9. ASSUME NEW t \in Tasks, NEW p \in DOMAIN pays, CancelPayment(t, p) PROVE IInv'
  BY <1>9, CancelPaymentKeepsIInv
<1> QED
  BY <1>1, <1>2, <1>3, <1>4, <1>5, <1>6, <1>7, <1>8, <1>9, StopKeepsIInv DEF Next

\* The variables keep their types, and no balance and no debt turns negative, in
\* all behaviours.
THEOREM TypesKept == Spec => []TypeOK
<1>1. IInv => TypeOK
  BY DEF IInv
<1> QED
  BY <1>1, InitIsIInv, NextKeepsIInv, PTL DEF Spec

-----------------------------------------------------------------------------
(* One request after the other.                                            *)

Only(t) == \A u \in Tasks : u # t => task[u] = Idle

LEMMA OnlyOneRuns ==
  ASSUME IInv, CalmInv, calm, NEW t \in Tasks, NEW b, b = task[t], b.at # "idle"
  PROVE  Only(t) /\ Fresh(b)
BY DEF CalmInv, Alone, Only, Idle

LEMMA BeginsAlone ==
  ASSUME calm, NEW t \in Tasks, NEW r, Begin(t, r)
  PROVE  Only(t) /\ task[t] = Idle /\ task' = [task EXCEPT ![t] = r]
BY DEF Begin, Arrives, Only, Run

\* Money has gone back only for what is cancelled, but for the payment in hand.
LEMMA BackIsCancelled ==
  ASSUME CalmInv, calm, NEW t \in Tasks, Only(t)
  PROVE  \A p \in DOMAIN pays : pays[p].back > 0 =>
            pays[p].status = "CANCELLED"
              \/ (task[t].at \in {"saveCancel", "record"} /\ Current(t) = p)
<1> SUFFICES ASSUME NEW p \in DOMAIN pays, pays[p].back > 0, pays[p].status # "CANCELLED"
             PROVE  task[t].at \in {"saveCancel", "record"} /\ Current(t) = p
  OBVIOUS
<1>1. PICK u \in Tasks : task[u].at \in {"saveCancel", "record"} /\ Current(u) = p
  BY DEF CalmInv, Recording
<1> QED
  BY <1>1 DEF Only, Idle

\* The request in one slot takes a step, while none other runs.
LEMMA StepKeepsCalm ==
  ASSUME IInv, NEW t \in Tasks, Only(t), NEW r, task' = [task EXCEPT ![t] = r], Fresh(r)',
         \A p \in DOMAIN pays' : pays'[p].back > 0 =>
            pays'[p].status = "CANCELLED"
              \/ (r.at \in {"saveCancel", "record"} /\ Latest(r.queue) = p)
  PROVE  CalmInv'
<1>1. \A u \in Tasks : task'[u] = IF u = t THEN r ELSE Idle
  BY DEF IInv, TypeOK, Only
<1>2. Alone'
  BY <1>1 DEF Alone
<1>3. Fresh(Idle)'
  BY DEF Fresh, Idle
<1>4. (\A u \in Tasks : Fresh(task[u]))'
  BY <1>1, <1>3 DEF Fresh
<1>5. (\A p \in DOMAIN pays : pays[p].back > 0 => pays[p].status = "CANCELLED" \/ Recording(p))'
  BY <1>1 DEF Recording, Current
<1> QED
  BY <1>2, <1>4, <1>5 DEF CalmInv

\* A request comes in, or one that is not about to record a cancellation moves on.
LEMMA PaysStay ==
  ASSUME IInv, CalmInv, calm, NEW t \in Tasks, Only(t),
         task[t].at \notin {"saveCancel", "record"}, NEW r, task' = [task EXCEPT ![t] = r], Fresh(r)', pays' = pays
  PROVE  CalmInv'
BY BackIsCancelled, StepKeepsCalm

\* No request runs, and one that takes a single step comes in.
LEMMA SingleStep ==
  ASSUME IInv, CalmInv, calm, Arrives, task' = task,
         \A p \in DOMAIN pays' : p \in DOMAIN pays /\ pays'[p].back = pays[p].back
                                 /\ (pays[p].status = "CANCELLED" => pays'[p] = pays[p])
  PROVE  CalmInv'
<1>1. \A t \in Tasks : task[t] = Idle
  BY DEF Arrives
<1>2. \A p \in DOMAIN pays : pays[p].back > 0 => pays[p].status = "CANCELLED"
  BY <1>1 DEF CalmInv, Recording, Idle
<1>3. Alone' /\ (\A t \in Tasks : Fresh(task[t]))'
  BY <1>1 DEF Alone, Fresh, Idle
<1> QED
  BY <1>2, <1>3 DEF CalmInv

LEMMA ArrivalsKeepCalm ==
  ASSUME IInv, CalmInv, calm, NEW t \in Tasks, NEW r, Begin(t, r),
         UNCHANGED <<pays, hon>>, Fresh(r)
  PROVE  CalmInv'
<1>1. Only(t) /\ task[t] = Idle /\ task' = [task EXCEPT ![t] = r]
  BY BeginsAlone
<1>2. Fresh(r)'
  BY DEF Fresh, Paid, Sold
<1>3. task[t].at \notin {"saveCancel", "record"} /\ pays' = pays
  BY <1>1 DEF Idle
<1> QED
  BY <1>1, <1>2, <1>3, PaysStay

LEMMA RequestsKeepCalm ==
  ASSUME IInv, CalmInv, calm, NEW t \in Tasks
  PROVE  /\ \A amount \in HonAmounts \cup PlanAmounts : CheckPayment(t, amount) => CalmInv'
         /\ \A fee \in Fees : Spend(t, fee) => CalmInv'
         /\ \A type \in Asked : CheckInquiry(t, type) => CalmInv'
         /\ \A i \in DOMAIN inq : ProposeRefund(t, i) \/ ConfirmRefund(t, i) => CalmInv'
<1>0. Idle \in Request
  BY IdleIsOK
<1>1. ASSUME NEW amount \in HonAmounts \cup PlanAmounts, CheckPayment(t, amount) PROVE CalmInv'
  <2>1. PICK r : r = [Idle EXCEPT !.at = "insertPayment", !.amount = amount]
    OBVIOUS
  <2>2. Begin(t, r) /\ UNCHANGED <<pays, hon>>
    BY <1>1, <2>1 DEF CheckPayment
  <2>3. Fresh(r)
    BY <2>1 DEF Fresh, Idle
  <2> QED
    BY <2>2, <2>3, ArrivalsKeepCalm
<1>2. ASSUME NEW fee \in Fees, Spend(t, fee) PROVE CalmInv'
  <2>1. PICK r : r = [Idle EXCEPT !.at = "write", !.purse = After(fee, FALSE)]
    OBVIOUS
  <2>2. Begin(t, r) /\ UNCHANGED <<pays, hon>>
    BY <1>2, <2>1 DEF Spend
  <2>3. After(fee, FALSE).paid <= hon.paid
    <3>1. fee \in Nat /\ Afford(fee) /\ StoreOK
      BY <1>2, ConstantsAre, IInvIs DEF Spend
    <3> QED
      BY <3>1, BalanceAfter
  <2>4. Fresh(r)
    BY <2>1, <2>3 DEF Fresh, Idle
  <2> QED
    BY <2>2, <2>4, ArrivalsKeepCalm
<1>3. ASSUME NEW type \in Asked, CheckInquiry(t, type) PROVE CalmInv'
  <2>1. PICK r : r = [Idle EXCEPT !.at = "insertInquiry", !.type = type]
    OBVIOUS
  <2>2. Begin(t, r) /\ UNCHANGED <<pays, hon>>
    BY <1>3, <2>1 DEF CheckInquiry
  <2>3. Fresh(r)
    BY <2>1 DEF Fresh, Idle
  <2> QED
    BY <2>2, <2>3, ArrivalsKeepCalm
<1>4. ASSUME NEW i \in DOMAIN inq, ProposeRefund(t, i) PROVE CalmInv'
  <2>1. PICK offer \in Offers(Paid) :
          Begin(t, [Idle EXCEPT !.at = "propose", !.i = i, !.amount = offer,
                                !.queue = {Latest(Paid)}])
    BY <1>4 DEF ProposeRefund
  <2>2. PICK r : r = [Idle EXCEPT !.at = "propose", !.i = i, !.amount = offer,
                                  !.queue = {Latest(Paid)}]
    OBVIOUS
  <2>3. Begin(t, r) /\ UNCHANGED <<pays, hon>>
    BY <1>4, <2>1, <2>2 DEF ProposeRefund
  <2>4. Fresh(r)
    BY <2>2 DEF Fresh, Idle
  <2> QED
    BY <2>3, <2>4, ArrivalsKeepCalm
<1>5. ASSUME NEW i \in DOMAIN inq, ConfirmRefund(t, i) PROVE CalmInv'
  <2>1. PICK r : r = [Idle EXCEPT !.at = "list", !.i = i, !.purse = hon]
    OBVIOUS
  <2>2. Begin(t, r) /\ UNCHANGED <<pays, hon>>
    BY <1>5, <2>1 DEF ConfirmRefund
  <2>3. Fresh(r)
    BY <2>1 DEF Fresh, Idle
  <2> QED
    BY <2>2, <2>3, ArrivalsKeepCalm
<1> QED
  BY <1>1, <1>2, <1>3, <1>4, <1>5

\* A request that ends leaves nothing to be fresh.
LEMMA EndKeepsCalm ==
  ASSUME IInv, CalmInv, calm, NEW t \in Tasks, task[t].at \notin {"idle", "saveCancel", "record"},
         task' = [task EXCEPT ![t] = Idle],
         \A p \in DOMAIN pays' : pays'[p].back = 0 \/ (p \in DOMAIN pays /\ pays'[p] = pays[p])
  PROVE  CalmInv'
<1>1. Only(t)
  BY OnlyOneRuns
<1>2. Fresh(Idle)'
  BY DEF Fresh, Idle
<1>3. \A p \in DOMAIN pays : pays[p].back > 0 => pays[p].status = "CANCELLED"
  BY <1>1, BackIsCancelled
<1>4. \A p \in DOMAIN pays' : pays'[p].back > 0 => pays'[p].status = "CANCELLED"
  <2> SUFFICES ASSUME NEW p \in DOMAIN pays', pays'[p].back > 0 PROVE pays'[p].status = "CANCELLED"
    OBVIOUS
  <2>1. pays'[p].back # 0
    OBVIOUS
  <2> QED
    BY <1>3, <2>1
<1> QED
  BY <1>1, <1>2, <1>4, StepKeepsCalm

LEMMA InsertsKeepCalm ==
  ASSUME IInv, CalmInv, calm, NEW t \in Tasks,
         InsertPayment(t) \/ InsertInquiry(t) \/ SaveProposal(t) \/ Settle(t)
  PROVE  CalmInv'
<1>1. CASE InsertPayment(t)
  <2>1. PICK x : x = [amount |-> task[t].amount, status |-> "READY", back |-> 0]
    OBVIOUS
  <2>2. PICK b : b = task[t]
    OBVIOUS
  <2>3. b \in Request /\ RequestOK(b) /\ StoreOK
    BY <2>2, SlotIs
  <2>4. x \in Payment /\ pays \in Seq(Payment) /\ pays' = Append(pays, x) /\ x.back = 0
    BY <1>1, <2>1, <2>2, <2>3 DEF InsertPayment, RequestOK, Payment, StoreOK
  <2>5. /\ DOMAIN pays' = DOMAIN pays \cup {Len(pays) + 1} /\ pays'[Len(pays) + 1] = x
        /\ \A p \in DOMAIN pays : pays'[p] = pays[p]
    BY <2>4, AppendProperties, PaysAre
  <2> QED
    BY <1>1, <2>4, <2>5, EndKeepsCalm DEF InsertPayment, End, Run
<1>2. CASE InsertInquiry(t) \/ SaveProposal(t) \/ Settle(t)
  BY <1>2, EndKeepsCalm DEF InsertInquiry, SaveProposal, Settle, End, Run
<1> QED
  BY <1>1, <1>2

LEMMA ListKeepsCalm ==
  ASSUME IInv, CalmInv, calm, NEW t \in Tasks, ListPayments(t)
  PROVE  CalmInv'
<1>1. PICK b : b = task[t]
  OBVIOUS
<1>2. b.at = "list" /\ UNCHANGED <<pays, hon>>
  BY <1>1 DEF ListPayments
<1>3. Only(t) /\ Fresh(b) /\ b \in Request /\ StoreOK
  BY <1>1, <1>2, OnlyOneRuns, SlotIs
<1>4. CASE Paid = {}
  BY <1>1, <1>2, <1>4, EndKeepsCalm DEF ListPayments, End, Run
<1>5. CASE Paid # {}
  <2>1. PICK r : r = [b EXCEPT !.at = "cancel", !.queue = Paid,
                               !.owed = HonRefund(Paid, b.purse.paid),
                               !.take = Returned(Paid, b.purse.paid)]
    OBVIOUS
  <2>2. task' = [task EXCEPT ![t] = r]
    BY <1>1, <1>5, <2>1 DEF ListPayments, Run
  <2>3. Returned(Paid, hon.paid) <= hon.paid
    <3>1. hon.paid \in Nat /\ Paid \subseteq DOMAIN pays
      BY <1>3 DEF StoreOK, Purse, Paid
    <3> QED
      BY <1>3, <3>1, AmountsAreNat
  <2>4. r.at = "cancel" /\ r.queue = Paid /\ r.take <= hon.paid
    BY <1>2, <1>3, <2>1, <2>3 DEF Fresh, Request
  <2>5. Fresh(r)'
    BY <1>2, <2>4 DEF Fresh, Paid
  <2> QED
    BY <1>1, <1>2, <1>3, <2>2, <2>5, PaysStay
<1> QED
  BY <1>4, <1>5

\* While a confirmation goes through the payments, those to come are untouched.
LEMMA QueueIsUntouched ==
  ASSUME IInv, CalmInv, calm, NEW t \in Tasks, NEW b, b = task[t],
         b.at = "cancel" \/ b.at = "saveCancel"
  PROVE  /\ Only(t) /\ Fresh(b) /\ b \in Request /\ RequestOK(b) /\ StoreOK
         /\ \A p \in b.queue : /\ p \in DOMAIN pays /\ pays[p].status = "PAID"
                               /\ pays[p].back > 0 => b.at = "saveCancel" /\ Latest(b.queue) = p
<1>1. Only(t) /\ Fresh(b) /\ b \in Request /\ RequestOK(b) /\ StoreOK
  BY OnlyOneRuns, SlotIs
<1>2. \A p \in b.queue : p \in DOMAIN pays /\ pays[p].status = "PAID"
  BY <1>1 DEF Fresh, Paid
<1> QED
  BY <1>1, <1>2, BackIsCancelled DEF Current

\* The gateway gives back a share of a payment that is untouched so far.
Gives(t, b, p, share, x, r) ==
  /\ b = task[t] /\ p = Latest(b.queue) /\ share = Least(b.owed, pays[p].amount)
  /\ x = [pays[p] EXCEPT !.back = share]
  /\ r = [b EXCEPT !.at = "saveCancel", !.amount = share]
  /\ b.queue # {} /\ p \in DOMAIN pays /\ pays[p] \in Payment /\ pays[p].back = 0
  /\ pays[p].status = "PAID" /\ share \in Nat /\ share > 0 /\ share <= b.owed
  /\ pays[p].amount \in Nat /\ share <= pays[p].amount
  /\ pays' = [pays EXCEPT ![p] = x] /\ task' = [task EXCEPT ![t] = r]

LEMMA GatewayIsCalm ==
  ASSUME IInv, CalmInv, calm, NEW t \in Tasks, GatewayCancel(t)
  PROVE  \E b, p, share, x, r : Gives(t, b, p, share, x, r)
<1>a. PICK b : b = task[t]
  OBVIOUS
<1>b. PICK p : p = Latest(b.queue)
  OBVIOUS
<1>c. PICK share : share = Least(b.owed, pays[p].amount)
  OBVIOUS
<1>d. PICK x : x = [pays[p] EXCEPT !.back = share]
  OBVIOUS
<1>e. PICK r : r = [b EXCEPT !.at = "saveCancel", !.amount = share]
  OBVIOUS
<1>1. b.at = "cancel" /\ b.owed > 0 /\ b.queue # {}
  BY <1>a DEF GatewayCancel
<1>2. /\ Only(t) /\ Fresh(b) /\ b \in Request /\ RequestOK(b) /\ StoreOK
      /\ \A q \in b.queue : /\ q \in DOMAIN pays /\ pays[q].status = "PAID"
                            /\ ~ (pays[q].back > 0)
  BY <1>a, <1>1, QueueIsUntouched
<1>3. /\ p \in DOMAIN pays /\ p \in b.queue /\ pays[p] \in Payment /\ pays[p].back \in Nat
      /\ pays[p].amount \in Nat /\ share \in Nat /\ share <= b.owed
      /\ share <= pays[p].amount /\ share > 0
  BY <1>1, <1>2, <1>b, <1>c, ShareIs
<1>4. pays[p].back = 0 /\ pays[p].status = "PAID"
  <2>1. ~ (pays[p].back > 0)
    BY <1>2, <1>3
  <2> QED
    BY <1>2, <1>3, <2>1
<1>5. share <= pays[p].amount - pays[p].back /\ pays[p].back + share = share
  BY <1>3, <1>4
<1>6. /\ pays' = [pays EXCEPT ![p].back = pays[p].back + share]
      /\ task' = [task EXCEPT ![t] = [b EXCEPT !.at = "saveCancel", !.amount = share]]
  BY <1>a, <1>b, <1>c, <1>5 DEF GatewayCancel, Current, Run
<1>7. pays' = [pays EXCEPT ![p] = x] /\ task' = [task EXCEPT ![t] = r]
  BY <1>5, <1>6, <1>d, <1>e
<1> QED
  BY <1>a, <1>b, <1>c, <1>d, <1>e, <1>1, <1>3, <1>4, <1>7 DEF Gives

LEMMA GatewayKeepsCalm ==
  ASSUME IInv, CalmInv, calm, NEW t \in Tasks, GatewayCancel(t)
  PROVE  CalmInv'
<1>0. PICK b, p, share, x, r : Gives(t, b, p, share, x, r)
  BY GatewayIsCalm
<1>1. /\ b = task[t] /\ p = Latest(b.queue)
      /\ x = [pays[p] EXCEPT !.back = share]
      /\ r = [b EXCEPT !.at = "saveCancel", !.amount = share]
      /\ p \in DOMAIN pays /\ pays[p] \in Payment /\ share \in Nat
      /\ pays' = [pays EXCEPT ![p] = x] /\ task' = [task EXCEPT ![t] = r]
  BY <1>0 DEF Gives
<1>2. b.at = "cancel" /\ hon' = hon
  BY <1>1 DEF GatewayCancel
<1>3. Only(t) /\ Fresh(b) /\ b \in Request /\ StoreOK
  BY <1>1, <1>2, QueueIsUntouched
<1>4. x \in Payment /\ x.status = pays[p].status
  BY <1>1 DEF Payment
<1>5. DOMAIN pays' = DOMAIN pays /\ \A q \in DOMAIN pays : pays'[q] = IF q = p THEN x ELSE pays[q]
  BY <1>1, <1>3, <1>4, OnePayment
<1>6. Paid' = Paid
  BY <1>4, <1>5 DEF Paid
<1>7. r.at = "saveCancel" /\ r.queue = b.queue /\ r.take = b.take
  BY <1>1, <1>3 DEF Request
<1>8. Fresh(r)'
  BY <1>2, <1>3, <1>6, <1>7 DEF Fresh
<1>9. \A q \in DOMAIN pays' : pays'[q].back > 0 =>
            pays'[q].status = "CANCELLED" \/ (r.at = "saveCancel" /\ Latest(r.queue) = q)
  BY <1>1, <1>2, <1>3, <1>5, <1>7, BackIsCancelled
<1> QED
  BY <1>1, <1>3, <1>8, <1>9, StepKeepsCalm

\* The cancellation of a payment that still counts as PAID is recorded.
Records(t, b, p, x, r) ==
  /\ b = task[t] /\ p = Latest(b.queue) /\ x = [pays[p] EXCEPT !.status = "CANCELLED"]
  /\ r = [b EXCEPT !.at = "cancel", !.queue = b.queue \ {p}, !.owed = b.owed - b.amount]
  /\ p \in DOMAIN pays /\ p \in b.queue /\ pays[p] \in Payment /\ pays[p].status = "PAID"
  /\ pays' = [pays EXCEPT ![p] = x] /\ task' = [task EXCEPT ![t] = r]
  /\ \A q \in b.queue \ {p} : pays[q].back = 0

LEMMA SaveIsCalm ==
  ASSUME IInv, CalmInv, calm, NEW t \in Tasks, SaveCancel(t)
  PROVE  \E b, p, x, r : Records(t, b, p, x, r)
<1>a. PICK b : b = task[t]
  OBVIOUS
<1>b. PICK p : p = Latest(b.queue)
  OBVIOUS
<1>c. PICK x : x = [pays[p] EXCEPT !.status = "CANCELLED"]
  OBVIOUS
<1>d. PICK r : r = [b EXCEPT !.at = "cancel", !.queue = b.queue \ {p}, !.owed = b.owed - b.amount]
  OBVIOUS
<1>1. b.at = "saveCancel"
  BY <1>a DEF SaveCancel
<1>2. /\ Only(t) /\ Fresh(b) /\ b \in Request /\ RequestOK(b) /\ StoreOK
      /\ \A q \in b.queue : /\ q \in DOMAIN pays /\ pays[q].status = "PAID"
                            /\ pays[q].back > 0 => Latest(b.queue) = q
  BY <1>a, <1>1, QueueIsUntouched
<1>3. p \in b.queue
  <2>1. PICK s : s = Least(b.owed, pays[p].amount)
    OBVIOUS
  <2>2. b.queue # {}
    BY <1>1, <1>2 DEF RequestOK
  <2> QED
    BY <1>b, <1>2, <2>1, <2>2, ShareIs
<1>4. \A q \in DOMAIN pays : pays[q] \in Payment /\ pays[q].back \in Nat
  BY <1>2, PaysAre DEF StoreOK
<1>5. \A q \in b.queue \ {p} : pays[q].back = 0
  <2> SUFFICES ASSUME NEW q \in b.queue, q # p PROVE pays[q].back = 0
    OBVIOUS
  <2>1. ~ (pays[q].back > 0) /\ pays[q].back \in Nat
    BY <1>b, <1>2, <1>4
  <2> QED
    BY <2>1
<1>6. pays' = [pays EXCEPT ![p] = x] /\ task' = [task EXCEPT ![t] = r]
  BY <1>a, <1>b, <1>c, <1>d, <1>2, <1>3 DEF SaveCancel, Current, Run
<1> QED
  BY <1>a, <1>b, <1>c, <1>d, <1>2, <1>3, <1>4, <1>5, <1>6 DEF Records

LEMMA SaveKeepsCalm ==
  ASSUME IInv, CalmInv, calm, NEW t \in Tasks, SaveCancel(t)
  PROVE  CalmInv'
<1>0. PICK b, p, x, r : Records(t, b, p, x, r)
  BY SaveIsCalm
<1>1. /\ b = task[t] /\ p = Latest(b.queue) /\ x = [pays[p] EXCEPT !.status = "CANCELLED"]
      /\ r = [b EXCEPT !.at = "cancel", !.queue = b.queue \ {p}, !.owed = b.owed - b.amount]
      /\ p \in DOMAIN pays /\ pays[p] \in Payment
      /\ pays' = [pays EXCEPT ![p] = x] /\ task' = [task EXCEPT ![t] = r]
  BY <1>0 DEF Records
<1>2. b.at = "saveCancel" /\ hon' = hon
  BY <1>1 DEF SaveCancel
<1>3. Only(t) /\ Fresh(b) /\ b \in Request /\ StoreOK
  BY <1>1, <1>2, QueueIsUntouched
<1>4. x \in Payment /\ x.status = "CANCELLED"
  BY <1>1 DEF Payment
<1>5. DOMAIN pays' = DOMAIN pays /\ \A q \in DOMAIN pays : pays'[q] = IF q = p THEN x ELSE pays[q]
  BY <1>1, <1>3, <1>4, OnePayment
<1>6. r.at = "cancel" /\ r.queue = b.queue \ {p} /\ r.take = b.take
  BY <1>1, <1>3 DEF Request
<1>7. Fresh(r)'
  BY <1>2, <1>3, <1>5, <1>6 DEF Fresh, Paid
<1>8. \A q \in DOMAIN pays' : pays'[q].back > 0 => pays'[q].status = "CANCELLED"
  BY <1>1, <1>3, <1>4, <1>5, BackIsCancelled DEF Current
<1> QED
  BY <1>1, <1>3, <1>7, <1>8, StepKeepsCalm

LEMMA TheRestKeepsCalm ==
  ASSUME IInv, CalmInv, calm, NEW t \in Tasks, AllCancelled(t) \/ DeductHon(t) \/ WriteHon(t)
  PROVE  CalmInv'
<1>1. PICK b : b = task[t]
  OBVIOUS
<1>2. b.at \in {"cancel", "deduct", "write"} /\ pays' = pays
  BY <1>1 DEF AllCancelled, DeductHon, WriteHon
<1>3. Only(t) /\ Fresh(b) /\ b \in Request /\ RequestOK(b)
  BY <1>1, <1>2, OnlyOneRuns, SlotIs
<1>4. Fresh(Idle)'
  BY DEF Fresh, Idle
<1>5. Fresh([b EXCEPT !.at = "settle"])'
  BY <1>3 DEF Fresh, Request
<1>6. CASE AllCancelled(t)
  <2>1. /\ b.at = "cancel" /\ hon' = hon
        /\ \E step \in {"deduct", "settle"} : task' = [task EXCEPT ![t] = [b EXCEPT !.at = step]]
    BY <1>1, <1>6 DEF AllCancelled, Goto, Run
  <2>2. Fresh([b EXCEPT !.at = "deduct"])'
    BY <1>3, <2>1 DEF Fresh, Request
  <2>3. PICK r : task' = [task EXCEPT ![t] = r] /\ Fresh(r)'
    BY <1>5, <2>1, <2>2
  <2> QED
    BY <1>1, <1>2, <1>3, <2>3, PaysStay
<1>7. CASE DeductHon(t)
  <2>1. PICK r : r = [b EXCEPT !.at = "write", !.purse = After(b.take, TRUE)]
    OBVIOUS
  <2>2. \/ task' = [task EXCEPT ![t] = r]
        \/ task' = [task EXCEPT ![t] = Idle]
        \/ task' = [task EXCEPT ![t] = [b EXCEPT !.at = "settle"]]
    BY <1>1, <1>7, <2>1 DEF DeductHon, End, Goto, Run
  <2>3. b.at = "deduct" /\ b.i # 0
    BY <1>1, <1>3, <1>7 DEF DeductHon, RequestOK
  <2>4. Fresh(r)'
    BY <1>3, <2>1, <2>3 DEF Fresh, Request
  <2>5. PICK s : task' = [task EXCEPT ![t] = s] /\ Fresh(s)'
    BY <1>4, <1>5, <2>2, <2>4
  <2> QED
    BY <1>1, <1>2, <1>3, <2>5, PaysStay
<1>8. CASE WriteHon(t)
  <2>1. PICK s : task' = [task EXCEPT ![t] = s] /\ Fresh(s)'
    BY <1>1, <1>4, <1>5, <1>8 DEF WriteHon, End, Goto, Run
  <2> QED
    BY <1>1, <1>2, <1>3, <2>1, PaysStay
<1> QED
  BY <1>6, <1>7, <1>8

LEMMA SinglesKeepCalm ==
  ASSUME IInv, CalmInv, calm,
         \/ \E p \in DOMAIN pays : ApprovePayment(p)
         \/ CancelSubscription
         \/ \E i \in DOMAIN inq : AnswerInquiry(i) \/ RejectRefund(i) \/ CancelRefund(i)
  PROVE  CalmInv'
<1>1. Arrives /\ task' = task
  BY DEF ApprovePayment, CancelSubscription, AnswerInquiry, RejectRefund, CancelRefund
<1>2. ASSUME NEW p \in DOMAIN pays, ApprovePayment(p) PROVE CalmInv'
  <2>1. StoreOK /\ pays[p] \in Payment
    BY IInvIs, PaysAre DEF StoreOK
  <2>2. PICK x : x = [pays[p] EXCEPT !.status = "PAID"]
    OBVIOUS
  <2>3. x \in Payment /\ x.back = pays[p].back /\ pays' = [pays EXCEPT ![p] = x]
    BY <1>2, <2>1, <2>2 DEF Payment, ApprovePayment
  <2>4. DOMAIN pays' = DOMAIN pays /\ \A q \in DOMAIN pays : pays'[q] = IF q = p THEN x ELSE pays[q]
    BY <2>1, <2>3, OnePayment
  <2>5. pays[p].status # "CANCELLED"
    BY <1>2 DEF ApprovePayment
  <2> QED
    BY <1>1, <2>3, <2>4, <2>5, SingleStep
<1>3. CASE pays' = pays
  BY <1>1, <1>3, SingleStep
<1> QED
  BY <1>2, <1>3 DEF CancelSubscription, AnswerInquiry, RejectRefund, CancelRefund

LEMMA InitIsCalm == Init => CalmInv
BY DEF Init, CalmInv, Alone, Fresh, Idle

\* A payment is cancelled directly.
LEMMA CancelPaymentKeepsCalm ==
  ASSUME IInv, CalmInv, calm, NEW t \in Tasks, NEW p \in DOMAIN pays, CancelPayment(t, p)
  PROVE  CalmInv'
<1>1. PICK r : r = [Idle EXCEPT !.at = "record", !.queue = {p}]
  OBVIOUS
<1>2. PICK x : x = [pays[p] EXCEPT !.back = pays[p].amount]
  OBVIOUS
<1>3. Begin(t, r) /\ pays' = [pays EXCEPT ![p] = x] /\ pays[p].status # "READY"
  BY <1>1, <1>2 DEF CancelPayment
<1>4. Only(t) /\ task[t] = Idle /\ task' = [task EXCEPT ![t] = r]
  BY <1>3, BeginsAlone
<1>5. StoreOK /\ pays[p] \in Payment /\ pays[p].amount \in Nat
  BY IInvIs, PaysAre DEF StoreOK
<1>6. x \in Payment /\ x.status = pays[p].status
  BY <1>2, <1>5 DEF Payment
<1>7. DOMAIN pays' = DOMAIN pays /\ \A q \in DOMAIN pays : pays'[q] = IF q = p THEN x ELSE pays[q]
  BY <1>3, <1>5, <1>6, OnePayment
<1>8. r.at = "record" /\ r.queue = {p}
  BY <1>1 DEF Idle
<1>9. Latest({p}) = p
  <2>1. p \in 1..Len(pays) /\ Len(pays) \in Nat
    BY <1>5, PaysAre DEF StoreOK
  <2>2. Latest({p}) \in {p}
    BY <2>1, LatestIsLast
  <2> QED
    BY <2>2
<1>10. Fresh(r)'
  BY <1>3, <1>6, <1>7, <1>8, <1>9 DEF Fresh, Sold
<1>11. \A q \in DOMAIN pays : pays[q].back > 0 => pays[q].status = "CANCELLED"
  BY <1>4, BackIsCancelled DEF Idle
<1>12. \A q \in DOMAIN pays' : pays'[q].back > 0 =>
          pays'[q].status = "CANCELLED"
            \/ (r.at \in {"saveCancel", "record"} /\ Latest(r.queue) = q)
  BY <1>7, <1>8, <1>9, <1>11
<1> QED
  BY <1>4, <1>10, <1>12, StepKeepsCalm

\* ... which is then recorded, if it counts as PAID, or was recorded before.
Recorded(t, b, p, x) ==
  /\ b = task[t] /\ p = Latest(b.queue) /\ x = [pays[p] EXCEPT !.status = "CANCELLED"]
  /\ b.at = "record" /\ p \in DOMAIN pays /\ p \in b.queue /\ pays[p] \in Payment
  /\ task' = [task EXCEPT ![t] = Idle] /\ UNCHANGED <<hon, direct>>
  /\ \/ pays[p].status = "PAID" /\ pays' = [pays EXCEPT ![p] = x]
     \/ pays[p].status = "CANCELLED" /\ pays' = pays

LEMMA RecordIsCalm ==
  ASSUME IInv, CalmInv, calm, NEW t \in Tasks, RecordCancel(t)
  PROVE  Only(t) /\ \E b, p, x : Recorded(t, b, p, x)
<1>a. PICK b : b = task[t]
  OBVIOUS
<1>b. PICK p : p = Latest(b.queue)
  OBVIOUS
<1>c. PICK x : x = [pays[p] EXCEPT !.status = "CANCELLED"]
  OBVIOUS
<1>1. b.at = "record" /\ task' = [task EXCEPT ![t] = Idle] /\ UNCHANGED <<hon, direct>>
  BY <1>a DEF RecordCancel, End, Run
<1>2. pays' = IF pays[p].status = "PAID" THEN [pays EXCEPT ![p] = x] ELSE pays
  BY <1>a, <1>b, <1>c DEF RecordCancel, Current
<1>3. Only(t) /\ Fresh(b) /\ b \in Request /\ RequestOK(b) /\ StoreOK
  BY <1>a, <1>1, OnlyOneRuns, SlotIs
<1>4. p \in DOMAIN pays /\ p \in b.queue /\ pays[p] \in Payment
  BY <1>b, <1>1, <1>3, RecordedIs
<1>5. pays[p].status \in {"PAID", "CANCELLED"}
  BY <1>b, <1>1, <1>3, <1>4 DEF Fresh, Sold, Payment
<1> QED
  BY <1>a, <1>b, <1>c, <1>1, <1>2, <1>3, <1>4, <1>5 DEF Recorded

LEMMA RecordKeepsCalm ==
  ASSUME IInv, CalmInv, calm, NEW t \in Tasks, RecordCancel(t)
  PROVE  CalmInv'
<1>1. PICK b, p, x : Only(t) /\ Recorded(t, b, p, x)
  BY RecordIsCalm
<1>2. /\ b = task[t] /\ p = Latest(b.queue) /\ x = [pays[p] EXCEPT !.status = "CANCELLED"]
      /\ b.at = "record" /\ p \in DOMAIN pays /\ pays[p] \in Payment
      /\ task' = [task EXCEPT ![t] = Idle]
  BY <1>1 DEF Recorded
<1>3. x \in Payment /\ x.status = "CANCELLED"
  BY <1>2 DEF Payment
<1>4. \A q \in DOMAIN pays : pays[q].back > 0 => pays[q].status = "CANCELLED" \/ q = p
  BY <1>1, <1>2, BackIsCancelled DEF Current
<1>5. \A q \in DOMAIN pays' : pays'[q].back > 0 => pays'[q].status = "CANCELLED"
  <2>1. CASE pays' = [pays EXCEPT ![p] = x]
    <3>1. /\ DOMAIN pays' = DOMAIN pays
          /\ \A q \in DOMAIN pays : pays'[q] = IF q = p THEN x ELSE pays[q]
      BY <1>2, <1>3, <2>1, IInvIs, OnePayment
    <3> QED
      BY <1>3, <1>4, <3>1
  <2>2. CASE pays[p].status = "CANCELLED" /\ pays' = pays
    BY <1>4, <2>2
  <2> QED
    BY <1>1, <2>1, <2>2 DEF Recorded
<1>6. Fresh(Idle)'
  BY DEF Fresh, Idle
<1> QED
  BY <1>1, <1>2, <1>5, <1>6, StepKeepsCalm

\* A request that comes in on a slot.
Comes(t) == \/ \E amount \in HonAmounts \cup PlanAmounts : CheckPayment(t, amount)
            \/ \E fee \in Fees : Spend(t, fee)
            \/ \E type \in Asked : CheckInquiry(t, type)
            \/ \E i \in DOMAIN inq : ProposeRefund(t, i) \/ ConfirmRefund(t, i)

\* A request of a single step.
Single == \/ \E p \in DOMAIN pays : ApprovePayment(p)
          \/ CancelSubscription
          \/ \E i \in DOMAIN inq : AnswerInquiry(i) \/ RejectRefund(i) \/ CancelRefund(i)

Cancels(t) == \E p \in DOMAIN pays : CancelPayment(t, p)

Insert(t) == InsertPayment(t) \/ InsertInquiry(t) \/ SaveProposal(t)

LEMMA NextIs ==
  Next => \/ \E t \in Tasks : \/ Comes(t) \/ Cancels(t) \/ Insert(t) \/ Confirmation(t)
                               \/ RecordCancel(t) \/ Abort(t)
          \/ Single
BY Zenon DEF Next, Comes, Cancels, Insert, Single

LEMMA ArrivalsAre ==
  ASSUME Single \/ \E t \in Tasks : Comes(t) \/ Cancels(t)
  PROVE  calm' = calm /\ Arrives
<1>1. ASSUME NEW t, NEW amount, CheckPayment(t, amount) PROVE calm' = calm /\ Arrives
  BY <1>1 DEF CheckPayment, Begin
<1>2. ASSUME NEW t, NEW fee, Spend(t, fee) PROVE calm' = calm /\ Arrives
  BY <1>2 DEF Spend, Begin
<1>3. ASSUME NEW t, NEW type, CheckInquiry(t, type) PROVE calm' = calm /\ Arrives
  BY <1>3 DEF CheckInquiry, Begin
<1>4. ASSUME NEW t, NEW i, ProposeRefund(t, i) \/ ConfirmRefund(t, i) PROVE calm' = calm /\ Arrives
  BY <1>4 DEF ProposeRefund, ConfirmRefund, Begin
<1>5. ASSUME Single PROVE calm' = calm /\ Arrives
  BY <1>5 DEF Single, ApprovePayment, CancelSubscription, AnswerInquiry, RejectRefund, CancelRefund
<1>6. ASSUME NEW t, NEW p, CancelPayment(t, p) PROVE calm' = calm /\ Arrives
  BY <1>6 DEF CancelPayment, Begin
<1> QED
  BY <1>1, <1>2, <1>3, <1>4, <1>5, <1>6, Zenon DEF Comes, Cancels

LEMMA OnSlot ==
  ASSUME NEW t \in Tasks, Insert(t) \/ Confirmation(t) \/ RecordCancel(t) \/ Abort(t)
  PROVE  calm' = calm /\ task[t] # Idle
<1>1. CASE Insert(t)
  BY <1>1 DEF Insert, InsertPayment, InsertInquiry, SaveProposal, Idle
<1>2. CASE ListPayments(t) \/ AllCancelled(t) \/ DeductHon(t) \/ WriteHon(t) \/ Settle(t)
  BY <1>2 DEF ListPayments, AllCancelled, DeductHon, WriteHon, Settle, Idle
<1>3. CASE GatewayCancel(t) \/ SaveCancel(t)
  BY <1>3 DEF GatewayCancel, SaveCancel, Idle
<1>4. CASE RecordCancel(t) \/ Abort(t)
  BY <1>4 DEF RecordCancel, Abort, Idle
<1> QED
  BY <1>1, <1>2, <1>3, <1>4 DEF Confirmation

LEMMA CalmStays == [Next]_vars => calm' = calm
BY NextIs, ArrivalsAre, OnSlot DEF vars

LEMMA NextKeepsCalm == IInv /\ CalmInv /\ [Next]_vars => CalmInv'
<1> SUFFICES ASSUME IInv, CalmInv, [Next]_vars PROVE CalmInv'
  OBVIOUS
<1>0. calm' = calm
  BY CalmStays
<1> SUFFICES ASSUME calm PROVE CalmInv'
  BY <1>0 DEF CalmInv
<1>1. CASE UNCHANGED vars
  BY <1>1 DEF vars, CalmInv, Alone, Fresh, Paid, Sold, Recording, Current
<1>2. ASSUME NEW t \in Tasks, Comes(t) PROVE CalmInv'
  BY <1>2, RequestsKeepCalm, Zenon DEF Comes
<1>3. ASSUME NEW t \in Tasks, Insert(t) PROVE CalmInv'
  BY <1>3, InsertsKeepCalm DEF Insert
<1>4. ASSUME NEW t \in Tasks, Confirmation(t) PROVE CalmInv'
  BY <1>4, ListKeepsCalm, GatewayKeepsCalm, SaveKeepsCalm, TheRestKeepsCalm, InsertsKeepCalm
     DEF Confirmation
<1>5. ASSUME NEW t \in Tasks, Abort(t) PROVE CalmInv'
  BY <1>5 DEF Abort
<1>6. ASSUME Single PROVE CalmInv'
  BY <1>6, SinglesKeepCalm DEF Single
<1>7. ASSUME NEW t \in Tasks, Cancels(t) \/ RecordCancel(t) PROVE CalmInv'
  BY <1>7, CancelPaymentKeepsCalm, RecordKeepsCalm DEF Cancels
<1> QED
  BY <1>1, <1>2, <1>3, <1>4, <1>5, <1>6, <1>7, NextIs

\* A payment is recorded as cancelled only after money has gone back for it, however
\* requests overlap or stop; and between calm requests none is paid back and still PAID.
THEOREM CancelledPaidBack == Spec => []CancelledIsPaidBack
<1>1. IInv /\ CalmInv => CancelledIsPaidBack
  <2> SUFFICES ASSUME IInv, CalmInv PROVE CancelledIsPaidBack
    OBVIOUS
  <2>1. ASSUME Quiet PROVE \A p \in DOMAIN pays : pays[p].back > 0 => pays[p].status = "CANCELLED"
    BY <2>1 DEF CalmInv, Quiet, Recording, Idle
  <2> QED
    BY <2>1 DEF CancelledIsPaidBack, IInv, PaidBack
<1> QED
  BY <1>1, InitIsIInv, InitIsCalm, NextKeepsIInv, NextKeepsCalm, PTL DEF Spec

\* What NeverHalfway says of one step.
StaysOnItsWay ==
  calm => \A t \in Tasks :
     task[t].at \in {"cancel", "saveCancel", "deduct", "write"} /\ task[t].i # 0 => task'[t] # Idle

LEMMA ConfirmationGoesOn ==
  ASSUME IInv, CalmInv, calm, NEW t \in Tasks, Confirmation(t),
         task[t].at \in {"cancel", "saveCancel", "deduct", "write"}, task[t].i # 0
  PROVE  task'[t] # Idle
<1>1. PICK b : b = task[t]
  OBVIOUS
<1>2. b \in Request /\ b.at \in {"cancel", "saveCancel", "deduct", "write"} /\ b.i # 0 /\ Fresh(b)
  BY <1>1, SlotIs, OnlyOneRuns
<1>3. \E r : task' = [task EXCEPT ![t] = r] /\ r.at # "idle"
  <2>1. CASE GatewayCancel(t)
    <3>1. PICK c, p, share, x, r : Gives(t, c, p, share, x, r)
      BY <2>1, GatewayIsCalm
    <3>2. r = [b EXCEPT !.at = "saveCancel", !.amount = share] /\ task' = [task EXCEPT ![t] = r]
      BY <1>1, <3>1 DEF Gives
    <3>3. r.at # "idle"
      BY <1>2, <3>2 DEF Request
    <3> QED
      BY <3>2, <3>3
  <2>2. CASE SaveCancel(t)
    <3>1. PICK c, p, x, r : Records(t, c, p, x, r)
      BY <2>2, SaveIsCalm
    <3>2. /\ r = [b EXCEPT !.at = "cancel", !.queue = b.queue \ {p}, !.owed = b.owed - b.amount]
          /\ task' = [task EXCEPT ![t] = r]
      BY <1>1, <3>1 DEF Records
    <3>3. r.at # "idle"
      BY <1>2, <3>2 DEF Request
    <3> QED
      BY <3>2, <3>3
  <2>3. CASE AllCancelled(t) \/ WriteHon(t)
    <3>1. \E step \in {"deduct", "settle"} : task' = [task EXCEPT ![t] = [b EXCEPT !.at = step]]
      BY <1>1, <1>2, <2>3 DEF AllCancelled, WriteHon, Goto, Run
    <3> QED
      BY <1>2, <3>1 DEF Request
  <2>4. CASE DeductHon(t)
    <3>1. b.at = "deduct"
      BY <1>1, <2>4 DEF DeductHon
    <3>2. Afford(b.take)
      <4>1. hon.free \in Nat /\ hon.paid \in Nat /\ b.take \in Nat /\ b.take <= hon.paid
        BY <1>2, <3>1 DEF Fresh, Request, IInv, TypeOK, Purse
      <4> QED
        BY <4>1 DEF Afford
    <3>3. \/ task' = [task EXCEPT ![t] = [b EXCEPT !.at = "settle"]]
          \/ task' = [task EXCEPT ![t] = [b EXCEPT !.at = "write", !.purse = After(b.take, TRUE)]]
      BY <1>1, <2>4, <3>2 DEF DeductHon, Goto, Run
    <3>4. /\ [b EXCEPT !.at = "settle"].at # "idle"
          /\ [b EXCEPT !.at = "write", !.purse = After(b.take, TRUE)].at # "idle"
      BY <1>2 DEF Request
    <3> QED
      BY <3>3, <3>4
  <2> QED
    BY <1>1, <1>2, <2>1, <2>2, <2>3, <2>4 DEF Confirmation, ListPayments, Settle
<1>4. PICK r : task' = [task EXCEPT ![t] = r] /\ r.at # "idle"
  BY <1>3
<1>5. task'[t] = r
  BY <1>4 DEF IInv, TypeOK
<1> QED
  BY <1>4, <1>5 DEF Idle

\* No request but the one on its way takes a step.
LEMMA OwnStep ==
  ASSUME IInv, CalmInv, calm, [Next]_vars, NEW t \in Tasks,
         task[t].at \in {"cancel", "saveCancel", "deduct", "write"}
  PROVE  Confirmation(t) \/ task' = task
<1>1. task[t] # Idle
  BY DEF Idle
<1>2. ~ Arrives
  BY <1>1 DEF Arrives
<1>3. \A u \in Tasks : u # t => task[u] = Idle
  BY <1>1 DEF CalmInv, Alone
<1>4. ~ Insert(t) /\ ~ RecordCancel(t) /\ ~ Abort(t)
  BY DEF Insert, InsertPayment, InsertInquiry, SaveProposal, RecordCancel, Abort
<1> QED
  BY <1>2, <1>3, <1>4, NextIs, ArrivalsAre, OnSlot DEF vars

\* A confirmation that has begun to move money comes to its end, as long as requests
\* come one at a time: its payments are untouched and the HON it takes is there.
THEOREM ConfirmationsEnd == Spec => NeverHalfway
<1>1. IInv /\ CalmInv /\ [Next]_vars => StaysOnItsWay
  <2> SUFFICES ASSUME IInv, CalmInv, [Next]_vars, calm, NEW t \in Tasks,
                      task[t].at \in {"cancel", "saveCancel", "deduct", "write"}, task[t].i # 0
               PROVE  task'[t] # Idle
    BY DEF StaysOnItsWay
  <2>1. CASE Confirmation(t)
    BY <2>1, ConfirmationGoesOn
  <2>2. CASE task' = task
    BY <2>2 DEF Idle
  <2> QED
    BY <2>1, <2>2, OwnStep
<1> QED
  BY <1>1, InitIsIInv, InitIsCalm, NextKeepsIInv, NextKeepsCalm, PTL
     DEF Spec, NeverHalfway, StaysOnItsWay

-----------------------------------------------------------------------------
(* A user without a plan.                                                  *)

\* One more summand, and one that changes.
LEMMA SumWith ==
  ASSUME NEW S, IsFiniteSet(S), NEW x, x \notin S, NEW f, NEW g,
         \A y \in S : f[y] \in Int /\ g[y] = f[y], g[x] \in Int
  PROVE  SumFunctionOnSet(g, S \cup {x}) = g[x] + SumFunctionOnSet(f, S)
<1>1. IsFiniteSet(S \cup {x}) /\ (S \cup {x}) \ {x} = S
  BY FS_AddElement
<1>2. \A y \in S \cup {x} : g[y] \in Int
  OBVIOUS
<1>3. SumFunctionOnSet(g, S \cup {x}) = g[x] + SumFunctionOnSet(g, S)
  BY <1>1, <1>2, SumTakesAny
<1>4. SumFunctionOnSet(g, S) = SumFunctionOnSet(f, S)
  BY SumsAgree
<1> QED
  BY <1>3, <1>4

LEMMA SumChanges ==
  ASSUME NEW S, IsFiniteSet(S), NEW x \in S, NEW f, NEW g,
         \A y \in S : f[y] \in Int, \A y \in S : y # x => g[y] = f[y], g[x] \in Int
  PROVE  SumFunctionOnSet(g, S) = SumFunctionOnSet(f, S) + (g[x] - f[x])
<1> DEFINE R == S \ {x}
<1>1. IsFiniteSet(R) /\ R \cup {x} = S /\ x \notin R
  BY FS_Subset
<1>2. SumFunctionOnSet(g, S) = g[x] + SumFunctionOnSet(f, R)
  <2>1. \A y \in R : f[y] \in Int /\ g[y] = f[y]
    OBVIOUS
  <2> HIDE DEF R
  <2> QED
    BY <1>1, <2>1, SumWith
<1>3. SumFunctionOnSet(f, S) = f[x] + SumFunctionOnSet(f, R)
  BY SumTakesAny
<1>4. SumFunctionOnSet(f, R) \in Int
  BY SumIsInt
<1>5. f[x] \in Int
  OBVIOUS
<1> QED
  BY <1>2, <1>3, <1>4, <1>5

LEMMA PaysFinite ==
  ASSUME StoreOK
  PROVE  IsFiniteSet(DOMAIN pays) /\ \A S \in SUBSET DOMAIN pays : IsFiniteSet(S)
<1>1. IsFiniteSet(1..Len(pays)) /\ DOMAIN pays = 1..Len(pays)
  BY PaysAre, FS_Interval DEF StoreOK
<1> QED
  BY <1>1, FS_Subset

LEMMA NumbersAre ==
  ASSUME StoreOK
  PROVE  /\ GivenBack \in Nat /\ Worth(Sold) \in Nat /\ Worth(Paid) \in Nat
         /\ Charged(Paid) \in Nat /\ hon.paid \in Nat
<1>1. Sold \subseteq DOMAIN pays /\ Paid \subseteq DOMAIN pays /\ hon.paid \in Nat
  BY DEF Sold, Paid, StoreOK, Purse
<1>2. Worth(Sold) \in Nat /\ Worth(Paid) \in Nat /\ Charged(Paid) \in Nat
  BY <1>1, AmountsAreNat
<1>3. GivenBack \in Nat
  <2>1. PICK f : f = [p \in DOMAIN pays |-> pays[p].back]
    OBVIOUS
  <2>2. \A p \in DOMAIN pays : f[p] \in Nat
    BY <2>1, PaysAre DEF StoreOK
  <2>3. SumFunctionOnSet(f, DOMAIN pays) \in Nat
    BY <2>2, PaysFinite, SumIsNat
  <2> QED
    BY <2>1, <2>3 DEF GivenBack
<1> QED
  BY <1>1, <1>2, <1>3

\* Sums over payments whose amounts stay.
LEMMA AmountsStay ==
  ASSUME StoreOK, \A p \in DOMAIN pays : p \in DOMAIN pays' /\ pays'[p].amount = pays[p].amount,
         NEW S \in SUBSET DOMAIN pays
  PROVE  /\ SumFunctionOnSet([p \in DOMAIN pays' |-> ChargedHon(pays'[p].amount)], S) = Charged(S)
         /\ SumFunctionOnSet([p \in DOMAIN pays' |-> pays'[p].amount], S) = Worth(S)
<1>1. PICK f, g : /\ f = [p \in DOMAIN pays |-> ChargedHon(pays[p].amount)]
                  /\ g = [p \in DOMAIN pays' |-> ChargedHon(pays'[p].amount)]
  OBVIOUS
<1>2. PICK h, k : /\ h = [p \in DOMAIN pays |-> pays[p].amount]
                  /\ k = [p \in DOMAIN pays' |-> pays'[p].amount]
  OBVIOUS
<1>3. \A p \in S : f[p] = g[p] /\ h[p] = k[p]
  BY <1>1, <1>2
<1>4. SumFunctionOnSet(f, S) = SumFunctionOnSet(g, S) /\ SumFunctionOnSet(h, S) = SumFunctionOnSet(k, S)
  BY <1>3, PaysFinite, SumsAgree
<1> QED
  BY <1>1, <1>2, <1>4 DEF Charged, Worth

LEMMA SetsStay ==
  ASSUME StoreOK, \A p \in DOMAIN pays : p \in DOMAIN pays' /\ pays'[p].amount = pays[p].amount
  PROVE  /\ Sold' = Sold => Worth(Sold)' = Worth(Sold)
         /\ Paid' = Paid => Worth(Paid)' = Worth(Paid) /\ Charged(Paid)' = Charged(Paid)
<1>1. Sold \in SUBSET DOMAIN pays /\ Paid \in SUBSET DOMAIN pays
  BY DEF Sold, Paid
<1>2. Sold' = Sold => Worth(Sold)' = Worth(Sold)
  BY <1>1, AmountsStay DEF Worth
<1>3. Paid' = Paid => Worth(Paid)' = Worth(Paid) /\ Charged(Paid)' = Charged(Paid)
  BY <1>1, AmountsStay DEF Worth, Charged
<1> QED
  BY <1>2, <1>3

\* A payment that is recorded counts for nothing yet.
LEMMA NumbersOfInsert ==
  ASSUME StoreOK, NEW x \in Payment, x.status = "READY", x.back = 0, pays' = Append(pays, x)
  PROVE  /\ GivenBack' = GivenBack /\ Worth(Sold)' = Worth(Sold)
         /\ Worth(Paid)' = Worth(Paid) /\ Charged(Paid)' = Charged(Paid)
         /\ Subscribed => Subscribed'
<1>1. PICK n : n = Len(pays) + 1
  OBVIOUS
<1>2. /\ DOMAIN pays' = DOMAIN pays \cup {n} /\ n \notin DOMAIN pays /\ pays'[n] = x
      /\ \A p \in DOMAIN pays : pays'[p] = pays[p]
  BY <1>1, AppendProperties, PaysAre DEF StoreOK
<1>3. Paid' = Paid /\ Sold' = Sold
  BY <1>2 DEF Paid, Sold
<1>4. GivenBack' = GivenBack
  <2>1. PICK f, g : /\ f = [p \in DOMAIN pays |-> pays[p].back]
                    /\ g = [p \in DOMAIN pays' |-> pays'[p].back]
    OBVIOUS
  <2>2. \A p \in DOMAIN pays : f[p] \in Nat /\ g[p] = f[p]
    BY <1>2, <2>1, PaysAre DEF StoreOK
  <2>3. g[n] = 0
    BY <1>2, <2>1
  <2>4. SumFunctionOnSet(g, DOMAIN pays \cup {n}) = g[n] + SumFunctionOnSet(f, DOMAIN pays)
    BY <1>2, <2>2, <2>3, PaysFinite, SumWith
  <2>5. GivenBack = SumFunctionOnSet(f, DOMAIN pays) /\ GivenBack \in Nat
    BY <2>1, NumbersAre DEF GivenBack
  <2>6. GivenBack' = SumFunctionOnSet(g, DOMAIN pays \cup {n})
    BY <1>2, <2>1 DEF GivenBack
  <2> QED
    BY <2>3, <2>4, <2>5, <2>6
<1>5. Subscribed => Subscribed'
  BY <1>2 DEF Subscribed
<1> QED
  BY <1>2, <1>3, <1>4, <1>5, SetsStay

\* What goes back goes to the sum of all that went back.
LEMMA NumbersOfChange ==
  ASSUME StoreOK, NEW p \in DOMAIN pays, NEW x \in Payment, pays' = [pays EXCEPT ![p] = x],
         x.amount = pays[p].amount, pays[p].status # "READY" => x.status # "READY"
  PROVE  /\ GivenBack' = GivenBack + (x.back - pays[p].back)
         /\ Subscribed => Subscribed'
         /\ pays[p].status # "READY" => Worth(Sold)' = Worth(Sold)
<1>1. DOMAIN pays' = DOMAIN pays /\ \A q \in DOMAIN pays : pays'[q] = IF q = p THEN x ELSE pays[q]
  BY OnePayment
<1>2. GivenBack' = GivenBack + (x.back - pays[p].back)
  <2>1. PICK f, g : /\ f = [q \in DOMAIN pays |-> pays[q].back]
                    /\ g = [q \in DOMAIN pays' |-> pays'[q].back]
    OBVIOUS
  <2>2. \A q \in DOMAIN pays : f[q] \in Nat
    BY <2>1, PaysAre DEF StoreOK
  <2>3. \A q \in DOMAIN pays : q # p => g[q] = f[q]
    BY <1>1, <2>1
  <2>4. g[p] = x.back /\ f[p] = pays[p].back /\ x.back \in Nat
    BY <1>1, <2>1 DEF Payment
  <2>5. SumFunctionOnSet(g, DOMAIN pays) = SumFunctionOnSet(f, DOMAIN pays) + (g[p] - f[p])
    <3>1. \A q \in DOMAIN pays : f[q] \in Int
      BY <2>2
    <3>2. g[p] \in Int
      BY <2>4
    <3> QED
      BY <2>3, <3>1, <3>2, PaysFinite, SumChanges
  <2> QED
    BY <1>1, <2>1, <2>4, <2>5 DEF GivenBack
<1>3. Subscribed => Subscribed'
  BY <1>1 DEF Subscribed
<1>4. pays[p].status # "READY" => Sold' = Sold
  BY <1>1 DEF Sold
<1> QED
  BY <1>1, <1>2, <1>3, <1>4, SetsStay

\* A payment that becomes PAID counts in every sum.
LEMMA NumbersOfApproval ==
  ASSUME StoreOK, NEW p \in DOMAIN pays, NEW x \in Payment, pays' = [pays EXCEPT ![p] = x],
         x.amount = pays[p].amount, pays[p].status = "READY", x.status = "PAID"
  PROVE  /\ Worth(Sold)' = x.amount + Worth(Sold) /\ Worth(Paid)' = x.amount + Worth(Paid)
         /\ Charged(Paid)' = ChargedHon(x.amount) + Charged(Paid)
<1>1. DOMAIN pays' = DOMAIN pays /\ \A q \in DOMAIN pays : pays'[q] = IF q = p THEN x ELSE pays[q]
  BY OnePayment
<1>2. Paid' = Paid \cup {p} /\ p \notin Paid /\ Sold' = Sold \cup {p} /\ p \notin Sold
  BY <1>1 DEF Paid, Sold
<1>3. Sold \in SUBSET DOMAIN pays /\ Paid \in SUBSET DOMAIN pays
  BY DEF Sold, Paid
<1>4. PICK f, g : /\ f = [q \in DOMAIN pays |-> pays[q].amount]
                  /\ g = [q \in DOMAIN pays' |-> pays'[q].amount]
  OBVIOUS
<1>5. PICK h, k : /\ h = [q \in DOMAIN pays |-> ChargedHon(pays[q].amount)]
                  /\ k = [q \in DOMAIN pays' |-> ChargedHon(pays'[q].amount)]
  OBVIOUS
<1>6. \A q \in DOMAIN pays : f[q] \in Nat /\ g[q] = f[q] /\ h[q] \in Nat /\ k[q] = h[q]
  <2>1. \A q \in DOMAIN pays : pays[q].amount \in Nat
    BY PaysAre DEF StoreOK
  <2>2. \A a : ChargedHon(a) \in Nat
    BY DEF ChargedHon
  <2>3. \A q \in DOMAIN pays : pays'[q].amount = pays[q].amount
    BY <1>1
  <2> QED
    BY <1>1, <1>4, <1>5, <2>1, <2>2, <2>3
<1>7. g[p] = x.amount /\ k[p] = ChargedHon(x.amount) /\ g[p] \in Int /\ k[p] \in Int
  BY <1>1, <1>4, <1>5, <1>6
<1>8. \A S \in SUBSET DOMAIN pays : p \notin S =>
         /\ SumFunctionOnSet(g, S \cup {p}) = g[p] + SumFunctionOnSet(f, S)
         /\ SumFunctionOnSet(k, S \cup {p}) = k[p] + SumFunctionOnSet(h, S)
  <2> SUFFICES ASSUME NEW S \in SUBSET DOMAIN pays, p \notin S
               PROVE  /\ SumFunctionOnSet(g, S \cup {p}) = g[p] + SumFunctionOnSet(f, S)
                      /\ SumFunctionOnSet(k, S \cup {p}) = k[p] + SumFunctionOnSet(h, S)
    OBVIOUS
  <2>1. IsFiniteSet(S)
    BY PaysFinite
  <2>2. \A q \in S : f[q] \in Int /\ g[q] = f[q]
    BY <1>6
  <2>3. \A q \in S : h[q] \in Int /\ k[q] = h[q]
    BY <1>6
  <2>4. SumFunctionOnSet(g, S \cup {p}) = g[p] + SumFunctionOnSet(f, S)
    BY <1>7, <2>1, <2>2, SumWith
  <2>5. SumFunctionOnSet(k, S \cup {p}) = k[p] + SumFunctionOnSet(h, S)
    BY <1>7, <2>1, <2>3, SumWith
  <2> QED
    BY <2>4, <2>5
<1> QED
  BY <1>2, <1>3, <1>4, <1>5, <1>7, <1>8 DEF Worth, Charged

\* What stands of a user without a plan is worth less than its HON costs when used.
LEMMA UsedIsDearer ==
  ASSUME StoreOK, ~Subscribed
  PROVE  9 * Worth(Paid) <= 500 * Charged(Paid)
<1>1. \A p \in Paid : p \in DOMAIN pays /\ pays[p].amount \in HonAmounts
  BY DEF Paid, Subscribed, StoreOK, PaysOK
<1>2. \A a \in HonAmounts : a \in Nat /\ ChargedHon(a) \in Nat /\ 9 * a <= 500 * ChargedHon(a)
  <2> SUFFICES ASSUME NEW a \in HonAmounts
               PROVE  a \in Nat /\ ChargedHon(a) \in Nat /\ 9 * a <= 500 * ChargedHon(a)
    OBVIOUS
  <2>1. a = 1000 \/ a = 3000 \/ a = 5000
    BY RefundAssumption
  <2> QED
    BY <2>1 DEF ChargedHon
<1>3. PICK f, h : /\ f = [q \in DOMAIN pays |-> pays[q].amount]
                  /\ h = [q \in DOMAIN pays |-> ChargedHon(pays[q].amount)]
  OBVIOUS
<1>4. \A p \in Paid : f[p] \in Int /\ h[p] \in Int /\ 9 * f[p] <= 500 * h[p]
  <2> SUFFICES ASSUME NEW p \in Paid PROVE f[p] \in Int /\ h[p] \in Int /\ 9 * f[p] <= 500 * h[p]
    OBVIOUS
  <2>1. PICK a : a = pays[p].amount
    OBVIOUS
  <2>2. a \in HonAmounts /\ f[p] = a /\ h[p] = ChargedHon(a)
    BY <1>1, <1>3, <2>1
  <2>3. a \in Nat /\ ChargedHon(a) \in Nat /\ 9 * a <= 500 * ChargedHon(a)
    BY <1>2, <2>2
  <2> QED
    BY <2>2, <2>3
<1>5. IsFiniteSet(Paid) /\ 9 \in Nat /\ 500 \in Nat
  BY PaysFinite DEF Paid
<1>6. 9 * SumFunctionOnSet(f, Paid) <= 500 * SumFunctionOnSet(h, Paid)
  BY <1>4, <1>5, SumsCompare
<1> QED
  BY <1>3, <1>6 DEF Worth, Charged

LEMMA BalancedBefore ==
  ASSUME PlainInv, calm, ~Subscribed, direct = {}, NEW t \in Tasks, Only(t), ~Moves(task[t])
  PROVE  Balanced
<1>1. \A u \in Tasks : ~Moves(task[u])
  BY DEF Only, Moves, Idle
<1> QED
  BY <1>1 DEF PlainInv

LEMMA StepKeepsPlain ==
  ASSUME IInv, NEW t \in Tasks, Only(t), NEW r, task' = [task EXCEPT ![t] = r], Takes(r)',
         (10 * GivenBack <= 9 * Worth(Sold))', Moves(r) \/ Balanced'
  PROVE  PlainInv'
<1>1. \A u \in Tasks : task'[u] = IF u = t THEN r ELSE Idle
  BY DEF IInv, TypeOK, Only
<1>2. Takes(Idle)'
  BY DEF Takes, Idle
<1>3. (\A u \in Tasks : Takes(task[u]))'
  BY <1>1, <1>2 DEF Takes
<1>4. (\A u \in Tasks : ~Moves(task[u]))' => Balanced'
  BY <1>1
<1> QED
  BY <1>3, <1>4 DEF PlainInv

\* Payments and balance stay, and the request does not go on to move money.
LEMMA BooksStay ==
  ASSUME IInv, PlainInv, calm, ~Subscribed, direct = {}, NEW t \in Tasks, Only(t), ~Moves(task[t]),
         NEW r, task' = [task EXCEPT ![t] = r], UNCHANGED <<pays, hon>>, ~Moves(r)
  PROVE  PlainInv'
<1>1. Balanced /\ 10 * GivenBack <= 9 * Worth(Sold)
  BY BalancedBefore DEF PlainInv
<1>2. Balanced' /\ (10 * GivenBack <= 9 * Worth(Sold))'
  BY <1>1 DEF Balanced, GivenBack, Worth, Charged, Sold, Paid
<1>3. Takes(r)'
  BY DEF Takes, Moves
<1> QED
  BY <1>2, <1>3, StepKeepsPlain

\* A request that comes in changes no payment and no balance, nor does it go on to
\* move money at once.
LEMMA ComesAlone ==
  ASSUME NEW t \in Tasks, Comes(t)
  PROVE  \E r : Begin(t, r) /\ ~Moves(r) /\ r.at # "record" /\ UNCHANGED <<pays, hon, direct>>
<1>1. ASSUME NEW amount, CheckPayment(t, amount)
      PROVE  \E r : Begin(t, r) /\ ~Moves(r) /\ r.at # "record" /\ UNCHANGED <<pays, hon, direct>>
  <2>1. PICK r : r = [Idle EXCEPT !.at = "insertPayment", !.amount = amount]
    OBVIOUS
  <2>2. Begin(t, r) /\ UNCHANGED <<pays, hon, direct>>
    BY <1>1, <2>1 DEF CheckPayment
  <2> QED
    BY <2>1, <2>2 DEF Moves, Idle
<1>2. ASSUME NEW fee, Spend(t, fee)
      PROVE  \E r : Begin(t, r) /\ ~Moves(r) /\ r.at # "record" /\ UNCHANGED <<pays, hon, direct>>
  <2>1. PICK r : r = [Idle EXCEPT !.at = "write", !.purse = After(fee, FALSE)]
    OBVIOUS
  <2>2. Begin(t, r) /\ UNCHANGED <<pays, hon, direct>>
    BY <1>2, <2>1 DEF Spend
  <2> QED
    BY <2>1, <2>2 DEF Moves, Idle
<1>3. ASSUME NEW type, CheckInquiry(t, type)
      PROVE  \E r : Begin(t, r) /\ ~Moves(r) /\ r.at # "record" /\ UNCHANGED <<pays, hon, direct>>
  <2>1. PICK r : r = [Idle EXCEPT !.at = "insertInquiry", !.type = type]
    OBVIOUS
  <2>2. Begin(t, r) /\ UNCHANGED <<pays, hon, direct>>
    BY <1>3, <2>1 DEF CheckInquiry
  <2> QED
    BY <2>1, <2>2 DEF Moves, Idle
<1>4. ASSUME NEW i, ProposeRefund(t, i)
      PROVE  \E r : Begin(t, r) /\ ~Moves(r) /\ r.at # "record" /\ UNCHANGED <<pays, hon, direct>>
  <2>1. PICK offer \in Offers(Paid) :
          Begin(t, [Idle EXCEPT !.at = "propose", !.i = i, !.amount = offer,
                                !.queue = {Latest(Paid)}])
    BY <1>4 DEF ProposeRefund
  <2>2. PICK r : r = [Idle EXCEPT !.at = "propose", !.i = i, !.amount = offer,
                                  !.queue = {Latest(Paid)}]
    OBVIOUS
  <2>3. Begin(t, r) /\ UNCHANGED <<pays, hon, direct>>
    BY <1>4, <2>1, <2>2 DEF ProposeRefund
  <2> QED
    BY <2>2, <2>3 DEF Moves, Idle
<1>5. ASSUME NEW i, ConfirmRefund(t, i)
      PROVE  \E r : Begin(t, r) /\ ~Moves(r) /\ r.at # "record" /\ UNCHANGED <<pays, hon, direct>>
  <2>1. PICK r : r = [Idle EXCEPT !.at = "list", !.i = i, !.purse = hon]
    OBVIOUS
  <2>2. Begin(t, r) /\ UNCHANGED <<pays, hon, direct>>
    BY <1>5, <2>1 DEF ConfirmRefund
  <2> QED
    BY <2>1, <2>2 DEF Moves, Idle
<1> QED
  BY <1>1, <1>2, <1>3, <1>4, <1>5, Zenon DEF Comes

LEMMA ComesKeepsPlain ==
  ASSUME IInv, PlainInv, calm, ~Subscribed, direct = {}, NEW t \in Tasks, Comes(t)
  PROVE  PlainInv'
<1>1. PICK r : Begin(t, r) /\ ~Moves(r) /\ UNCHANGED <<pays, hon>>
  BY ComesAlone
<1>2. Only(t) /\ task[t] = Idle /\ task' = [task EXCEPT ![t] = r]
  BY <1>1, BeginsAlone
<1>3. ~Moves(task[t])
  BY <1>2 DEF Moves, Idle
<1> QED
  BY <1>1, <1>2, <1>3, BooksStay

LEMMA InsertKeepsPlain ==
  ASSUME IInv, CalmInv, PlainInv, calm, ~Subscribed, direct = {}, NEW t \in Tasks, Insert(t) \/ Settle(t)
  PROVE  PlainInv'
<1>1. task[t].at \notin {"idle", "cancel", "saveCancel", "deduct", "write"}
  BY DEF Insert, InsertPayment, InsertInquiry, SaveProposal, Settle
<1>2. Only(t) /\ ~Moves(task[t])
  BY <1>1, OnlyOneRuns DEF Moves
<1>3. task' = [task EXCEPT ![t] = Idle] /\ ~Moves(Idle)
  BY DEF Insert, InsertPayment, InsertInquiry, SaveProposal, Settle, End, Run, Moves, Idle
<1>4. CASE InsertPayment(t)
  <2>1. PICK b : b = task[t]
    OBVIOUS
  <2>2. b \in Request /\ RequestOK(b) /\ StoreOK
    BY <2>1, SlotIs
  <2>3. PICK x : x = [amount |-> b.amount, status |-> "READY", back |-> 0]
    OBVIOUS
  <2>4. /\ x \in Payment /\ x.status = "READY" /\ x.back = 0
        /\ pays' = Append(pays, x) /\ hon' = hon
    BY <1>4, <2>1, <2>2, <2>3 DEF InsertPayment, RequestOK, Payment
  <2>5. /\ GivenBack' = GivenBack /\ Worth(Sold)' = Worth(Sold)
        /\ Worth(Paid)' = Worth(Paid) /\ Charged(Paid)' = Charged(Paid)
    BY <2>2, <2>4, NumbersOfInsert
  <2>6. Balanced /\ 10 * GivenBack <= 9 * Worth(Sold)
    BY <1>2, BalancedBefore DEF PlainInv
  <2>7. Balanced' /\ (10 * GivenBack <= 9 * Worth(Sold))'
    BY <2>4, <2>5, <2>6 DEF Balanced
  <2>8. Takes(Idle)'
    BY DEF Takes, Idle
  <2> QED
    BY <1>2, <1>3, <2>7, <2>8, StepKeepsPlain
<1>5. CASE InsertInquiry(t) \/ SaveProposal(t) \/ Settle(t)
  <2>1. UNCHANGED <<pays, hon>>
    BY <1>5 DEF InsertInquiry, SaveProposal, Settle
  <2> QED
    BY <1>2, <1>3, <2>1, BooksStay
<1> QED
  BY <1>4, <1>5 DEF Insert

\* The amount of a refund is covered, and the HON it takes is all that is paid.
LEMMA RefundIsCovered ==
  ASSUME StoreOK, Balanced, 10 * GivenBack <= 9 * Worth(Sold)
  PROVE  /\ Returned(Paid, hon.paid) = hon.paid
         /\ 10 * (GivenBack + HonRefund(Paid, hon.paid)) <= 9 * Worth(Sold)
<1>1. /\ GivenBack \in Nat /\ Worth(Sold) \in Nat /\ Worth(Paid) \in Nat
      /\ Charged(Paid) \in Nat /\ hon.paid \in Nat
  BY NumbersAre
<1>2. Returned(Paid, hon.paid) = hon.paid
  <2>1. PICK c, h : c = Charged(Paid) /\ h = hon.paid
    OBVIOUS
  <2>2. c \in Nat /\ h \in Nat /\ h <= c
    BY <1>1, <2>1 DEF Balanced
  <2>3. Returned(Paid, h) = IF h > 0 THEN (IF c <= h THEN c ELSE h) ELSE 0
    BY <2>1 DEF Returned, Least
  <2>4. Returned(Paid, h) = h
    BY <2>2, <2>3
  <2> QED
    BY <2>1, <2>4
<1>3. PICK w \in Nat : w = Worth(Paid)
  BY <1>1
<1>4. 10 * ((w * 9) \div 10) <= 9 * w /\ (w * 9) \div 10 \in Int
  OBVIOUS
<1>5. CASE hon.paid = 0
  BY <1>1, <1>2, <1>5 DEF HonRefund
<1>6. CASE hon.paid # 0
  <2>1. PICK n : n = (w * 9) \div 10 - (Charged(Paid) - hon.paid) * 50
    OBVIOUS
  <2>2. HonRefund(Paid, hon.paid) = AtLeastZero(n)
    BY <1>2, <1>3, <1>6, <2>1 DEF HonRefund
  <2>3. n \in Int /\ 10 * n <= 9 * w - 500 * (Charged(Paid) - hon.paid)
    BY <1>1, <1>4, <2>1
  <2>4. 10 * (GivenBack + n) <= 9 * Worth(Sold)
    BY <1>1, <1>3, <2>3 DEF Balanced
  <2>5. CASE n < 0
    <3>1. HonRefund(Paid, hon.paid) = 0
      BY <2>2, <2>5 DEF AtLeastZero
    <3>2. GivenBack + 0 = GivenBack
      BY <1>1
    <3> QED
      BY <1>2, <3>1, <3>2
  <2>6. CASE ~ (n < 0)
    <3>1. HonRefund(Paid, hon.paid) = n
      BY <2>2, <2>6 DEF AtLeastZero
    <3> QED
      BY <1>2, <2>4, <3>1
  <2> QED
    BY <2>5, <2>6
<1> QED
  BY <1>2, <1>5, <1>6

LEMMA ListKeepsPlain ==
  ASSUME IInv, CalmInv, PlainInv, calm, ~Subscribed, direct = {}, NEW t \in Tasks, ListPayments(t)
  PROVE  PlainInv'
<1>1. PICK b : b = task[t]
  OBVIOUS
<1>2. b.at = "list" /\ UNCHANGED <<pays, hon>>
  BY <1>1 DEF ListPayments
<1>3. Only(t) /\ Fresh(b) /\ b \in Request /\ StoreOK /\ ~Moves(b)
  BY <1>1, <1>2, OnlyOneRuns, SlotIs DEF Moves
<1>4. Balanced /\ 10 * GivenBack <= 9 * Worth(Sold)
  BY <1>1, <1>3, BalancedBefore DEF PlainInv
<1>5. CASE Paid = {}
  <2>1. task' = [task EXCEPT ![t] = Idle] /\ ~Moves(Idle)
    BY <1>5 DEF ListPayments, End, Run, Moves, Idle
  <2> QED
    BY <1>1, <1>2, <1>3, <2>1, BooksStay
<1>6. CASE Paid # {}
  <2>1. PICK r : r = [b EXCEPT !.at = "cancel", !.queue = Paid,
                               !.owed = HonRefund(Paid, b.purse.paid),
                               !.take = Returned(Paid, b.purse.paid)]
    OBVIOUS
  <2>2. task' = [task EXCEPT ![t] = r]
    BY <1>1, <1>6, <2>1 DEF ListPayments, Run
  <2>3. b.purse = hon
    BY <1>2, <1>3 DEF Fresh
  <2>4. /\ r.at = "cancel" /\ r.take = Returned(Paid, hon.paid)
        /\ r.owed = HonRefund(Paid, hon.paid)
    BY <1>3, <2>1, <2>3 DEF Request
  <2>5. r.take = hon.paid /\ 10 * (GivenBack + r.owed) <= 9 * Worth(Sold)
    BY <1>3, <1>4, <2>4, RefundIsCovered
  <2>6. Takes(r)' /\ (10 * GivenBack <= 9 * Worth(Sold))'
    BY <1>2, <1>4, <2>4, <2>5 DEF Takes, GivenBack, Worth, Sold
  <2>7. Moves(r)
    BY <2>4 DEF Moves
  <2> QED
    BY <1>3, <2>2, <2>6, <2>7, StepKeepsPlain
<1> QED
  BY <1>5, <1>6

LEMMA GatewayKeepsPlain ==
  ASSUME IInv, CalmInv, PlainInv, calm, ~Subscribed, direct = {}, NEW t \in Tasks, GatewayCancel(t)
  PROVE  PlainInv'
<1>0. PICK b, p, share, x, r : Gives(t, b, p, share, x, r)
  BY GatewayIsCalm
<1>1. /\ b = task[t] /\ x = [pays[p] EXCEPT !.back = share]
      /\ r = [b EXCEPT !.at = "saveCancel", !.amount = share]
      /\ p \in DOMAIN pays /\ pays[p] \in Payment /\ share \in Nat /\ share <= b.owed
      /\ pays[p].back = 0 /\ pays[p].status = "PAID"
      /\ pays' = [pays EXCEPT ![p] = x] /\ task' = [task EXCEPT ![t] = r]
  BY <1>0 DEF Gives
<1>2. b.at = "cancel" /\ hon' = hon
  BY <1>1 DEF GatewayCancel
<1>3. Only(t) /\ b \in Request /\ StoreOK
  BY <1>1, <1>2, QueueIsUntouched
<1>4. x \in Payment /\ x.status = "PAID" /\ x.amount = pays[p].amount /\ x.back = share
  BY <1>1 DEF Payment
<1>5. GivenBack' = GivenBack + (share - 0) /\ Worth(Sold)' = Worth(Sold)
  BY <1>1, <1>3, <1>4, NumbersOfChange
<1>6. r.at = "saveCancel" /\ r.amount = share /\ r.owed = b.owed /\ r.take = b.take /\ b.owed \in Nat
  BY <1>1, <1>3 DEF Request
<1>7. Takes(b) /\ GivenBack \in Nat /\ Worth(Sold) \in Nat
  BY <1>1, <1>3, NumbersAre DEF PlainInv
<1>8. b.take = hon.paid /\ 10 * (GivenBack + b.owed) <= 9 * Worth(Sold)
  BY <1>2, <1>7 DEF Takes
<1>9. /\ 10 * GivenBack' <= 9 * Worth(Sold)'
      /\ 10 * (GivenBack' + b.owed - share) <= 9 * Worth(Sold)'
  BY <1>1, <1>5, <1>6, <1>7, <1>8
<1>10. Takes(r)' /\ Moves(r)
  BY <1>2, <1>6, <1>8, <1>9 DEF Takes, Moves
<1> QED
  BY <1>1, <1>3, <1>9, <1>10, StepKeepsPlain

LEMMA SaveKeepsPlain ==
  ASSUME IInv, CalmInv, PlainInv, calm, ~Subscribed, direct = {}, NEW t \in Tasks, SaveCancel(t)
  PROVE  PlainInv'
<1>0. PICK b, p, x, r : Records(t, b, p, x, r)
  BY SaveIsCalm
<1>1. /\ b = task[t] /\ x = [pays[p] EXCEPT !.status = "CANCELLED"]
      /\ r = [b EXCEPT !.at = "cancel", !.queue = b.queue \ {p}, !.owed = b.owed - b.amount]
      /\ p \in DOMAIN pays /\ pays[p] \in Payment /\ pays[p].status = "PAID"
      /\ pays' = [pays EXCEPT ![p] = x] /\ task' = [task EXCEPT ![t] = r]
  BY <1>0 DEF Records
<1>2. b.at = "saveCancel" /\ hon' = hon
  BY <1>1 DEF SaveCancel
<1>3. Only(t) /\ b \in Request /\ StoreOK
  BY <1>1, <1>2, QueueIsUntouched
<1>4. x \in Payment /\ x.status = "CANCELLED" /\ x.amount = pays[p].amount /\ x.back = pays[p].back
  BY <1>1 DEF Payment
<1>5. /\ GivenBack' = GivenBack + (pays[p].back - pays[p].back) /\ Worth(Sold)' = Worth(Sold)
      /\ pays[p].back \in Nat
  BY <1>1, <1>3, <1>4, NumbersOfChange DEF Payment
<1>6. /\ r.at = "cancel" /\ r.owed = b.owed - b.amount /\ r.take = b.take
      /\ b.owed \in Nat /\ b.amount \in Nat
  BY <1>1, <1>3 DEF Request
<1>7. Takes(b) /\ GivenBack \in Nat /\ Worth(Sold) \in Nat /\ 10 * GivenBack <= 9 * Worth(Sold)
  BY <1>1, <1>3, NumbersAre DEF PlainInv
<1>8. b.take = hon.paid /\ 10 * (GivenBack + b.owed - b.amount) <= 9 * Worth(Sold)
  BY <1>2, <1>7 DEF Takes
<1>9. GivenBack' = GivenBack
  BY <1>5, <1>7
<1>10. 10 * (GivenBack' + r.owed) <= 9 * Worth(Sold)' /\ 10 * GivenBack' <= 9 * Worth(Sold)'
  BY <1>5, <1>6, <1>7, <1>8, <1>9
<1>11. Takes(r)' /\ Moves(r)
  BY <1>2, <1>6, <1>8, <1>10 DEF Takes, Moves
<1> QED
  BY <1>1, <1>3, <1>10, <1>11, StepKeepsPlain

\* Without paid HON the books are balanced.
LEMMA NothingPaid ==
  ASSUME StoreOK, ~Subscribed, 10 * GivenBack <= 9 * Worth(Sold),
         pays' = pays, hon'.paid = 0
  PROVE  Balanced' /\ (10 * GivenBack <= 9 * Worth(Sold))'
<1>1. /\ GivenBack \in Nat /\ Worth(Sold) \in Nat /\ Worth(Paid) \in Nat /\ Charged(Paid) \in Nat
      /\ 9 * Worth(Paid) <= 500 * Charged(Paid)
  BY NumbersAre, UsedIsDearer
<1>2. /\ GivenBack' = GivenBack /\ Worth(Sold)' = Worth(Sold)
      /\ Worth(Paid)' = Worth(Paid) /\ Charged(Paid)' = Charged(Paid)
  BY DEF GivenBack, Worth, Charged, Sold, Paid
<1>3. /\ 0 <= Charged(Paid)
      /\ 10 * GivenBack + 9 * Worth(Paid) - 500 * (Charged(Paid) - 0) <= 9 * Worth(Sold)
  BY <1>1
<1> QED
  BY <1>2, <1>3 DEF Balanced

LEMMA AllCancelledKeepsPlain ==
  ASSUME IInv, CalmInv, PlainInv, calm, ~Subscribed, direct = {}, NEW t \in Tasks, AllCancelled(t)
  PROVE  PlainInv'
<1>1. PICK b : b = task[t]
  OBVIOUS
<1>2. PICK r : r = [b EXCEPT !.at = IF b.take > 0 THEN "deduct" ELSE "settle"]
  OBVIOUS
<1>3. b.at = "cancel" /\ UNCHANGED <<pays, hon>> /\ task' = [task EXCEPT ![t] = r]
  BY <1>1, <1>2 DEF AllCancelled, Goto, Run
<1>4. Only(t) /\ b \in Request /\ StoreOK /\ Takes(b) /\ 10 * GivenBack <= 9 * Worth(Sold)
  BY <1>1, <1>3, QueueIsUntouched DEF PlainInv
<1>5. b.take = hon.paid /\ b.take \in Nat
  BY <1>3, <1>4 DEF Takes, Request
<1>6. CASE b.take > 0
  <2>1. r.at = "deduct" /\ r.take = b.take
    BY <1>2, <1>4, <1>6 DEF Request
  <2>2. Takes(r)' /\ Moves(r)
    BY <1>3, <1>5, <2>1 DEF Takes, Moves
  <2>3. (10 * GivenBack <= 9 * Worth(Sold))'
    BY <1>3, <1>4 DEF GivenBack, Worth, Sold
  <2> QED
    BY <1>3, <1>4, <2>2, <2>3, StepKeepsPlain
<1>7. CASE ~ (b.take > 0)
  <2>1. r.at = "settle" /\ hon'.paid = 0
    BY <1>2, <1>3, <1>4, <1>5, <1>7 DEF Request
  <2>2. Takes(r)'
    BY <2>1 DEF Takes
  <2>3. Balanced' /\ (10 * GivenBack <= 9 * Worth(Sold))'
    BY <1>3, <1>4, <2>1, NothingPaid
  <2> QED
    BY <1>3, <1>4, <2>2, <2>3, StepKeepsPlain
<1> QED
  BY <1>6, <1>7

LEMMA DeductKeepsPlain ==
  ASSUME IInv, CalmInv, PlainInv, calm, ~Subscribed, direct = {}, NEW t \in Tasks, DeductHon(t)
  PROVE  PlainInv'
<1>1. PICK b : b = task[t]
  OBVIOUS
<1>2. PICK r : r = [b EXCEPT !.at = "write", !.purse = After(b.take, TRUE)]
  OBVIOUS
<1>3. b.at = "deduct" /\ UNCHANGED <<pays, hon>> /\ ~Active
  BY <1>1 DEF DeductHon, IInv
<1>4. /\ Only(t) /\ b \in Request /\ RequestOK(b) /\ StoreOK
      /\ Takes(b) /\ 10 * GivenBack <= 9 * Worth(Sold)
  BY <1>1, <1>3, OnlyOneRuns, SlotIs DEF PlainInv
<1>5. b.take = hon.paid /\ b.take \in Nat /\ hon.free \in Nat /\ b.i # 0
  BY <1>3, <1>4 DEF Takes, Request, RequestOK, StoreOK, Purse
<1>6. Afford(b.take)
  BY <1>5 DEF Afford
<1>7. task' = [task EXCEPT ![t] = r]
  BY <1>1, <1>2, <1>3, <1>6 DEF DeductHon, Run
<1>8. After(b.take, TRUE).paid = 0
  <2>1. After(b.take, TRUE).paid = AtLeastZero(hon.paid - b.take)
    BY DEF After
  <2>2. hon.paid - b.take = 0
    BY <1>5
  <2> QED
    BY <2>1, <2>2 DEF AtLeastZero
<1>9. r.at = "write" /\ r.i # 0 /\ r.purse = After(b.take, TRUE)
  BY <1>2, <1>4, <1>5 DEF Request
<1>10. Takes(r)' /\ Moves(r)
  BY <1>8, <1>9 DEF Takes, Moves
<1>11. (10 * GivenBack <= 9 * Worth(Sold))'
  BY <1>3, <1>4 DEF GivenBack, Worth, Sold
<1> QED
  BY <1>4, <1>7, <1>10, <1>11, StepKeepsPlain

LEMMA WriteKeepsPlain ==
  ASSUME IInv, CalmInv, PlainInv, calm, ~Subscribed, direct = {}, NEW t \in Tasks, WriteHon(t)
  PROVE  PlainInv'
<1>1. PICK b : b = task[t]
  OBVIOUS
<1>2. PICK r : r = IF b.i = 0 THEN Idle ELSE [b EXCEPT !.at = "settle"]
  OBVIOUS
<1>3. b.at = "write" /\ pays' = pays /\ hon' = b.purse /\ task' = [task EXCEPT ![t] = r]
  BY <1>1, <1>2 DEF WriteHon, End, Goto, Run
<1>4. /\ Only(t) /\ Fresh(b) /\ b \in Request /\ StoreOK
      /\ Takes(b) /\ 10 * GivenBack <= 9 * Worth(Sold)
  BY <1>1, <1>3, OnlyOneRuns, SlotIs DEF PlainInv
<1>5. r.at \in {"idle", "settle"}
  BY <1>2, <1>4 DEF Request, Idle
<1>6. Takes(r)'
  BY <1>5 DEF Takes
<1>7. CASE b.i # 0
  <2>1. hon'.paid = 0
    BY <1>3, <1>4, <1>7 DEF Takes
  <2>2. Balanced' /\ (10 * GivenBack <= 9 * Worth(Sold))'
    BY <1>3, <1>4, <2>1, NothingPaid
  <2> QED
    BY <1>3, <1>4, <1>6, <2>2, StepKeepsPlain
<1>8. CASE b.i = 0
  <2>1. b.purse.paid <= hon.paid /\ b.purse.paid \in Nat
    BY <1>3, <1>4, <1>8 DEF Fresh, Request, Purse
  <2>2. Balanced
    BY <1>1, <1>3, <1>4, <1>8, BalancedBefore DEF Moves
  <2>3. /\ GivenBack \in Nat /\ Worth(Sold) \in Nat /\ Worth(Paid) \in Nat
        /\ Charged(Paid) \in Nat /\ hon.paid \in Nat
    BY <1>4, NumbersAre
  <2>4. /\ GivenBack' = GivenBack /\ Worth(Sold)' = Worth(Sold)
        /\ Worth(Paid)' = Worth(Paid) /\ Charged(Paid)' = Charged(Paid)
    BY <1>3 DEF GivenBack, Worth, Charged, Sold, Paid
  <2>5. /\ b.purse.paid <= Charged(Paid)
        /\ 10 * GivenBack + 9 * Worth(Paid) - 500 * (Charged(Paid) - b.purse.paid) <= 9 * Worth(Sold)
    BY <2>1, <2>2, <2>3 DEF Balanced
  <2>6. Balanced' /\ (10 * GivenBack <= 9 * Worth(Sold))'
    BY <1>3, <1>4, <2>4, <2>5 DEF Balanced
  <2> QED
    BY <1>3, <1>4, <1>6, <2>6, StepKeepsPlain
<1> QED
  BY <1>7, <1>8

LEMMA SingleKeepsPlain ==
  ASSUME IInv, CalmInv, PlainInv, calm, ~Subscribed, direct = {},
         ~Subscribed', Single
  PROVE  PlainInv'
<1>1. Arrives /\ task' = task
  BY ArrivalsAre DEF Single, ApprovePayment, CancelSubscription, AnswerInquiry, RejectRefund,
     CancelRefund
<1>2. (\A t \in Tasks : task[t] = Idle) /\ \A t \in Tasks : task'[t] = Idle
  BY <1>1 DEF Arrives
<1>3. (\A t \in Tasks : ~Moves(task[t])) /\ (\A t \in Tasks : Takes(task[t]))'
  BY <1>2 DEF Moves, Takes, Idle
<1>4. Balanced /\ 10 * GivenBack <= 9 * Worth(Sold) /\ StoreOK
  BY <1>3, IInvIs DEF PlainInv
<1> SUFFICES Balanced' /\ (10 * GivenBack <= 9 * Worth(Sold))'
  BY <1>3 DEF PlainInv
<1>5. CASE UNCHANGED <<pays, hon>>
  BY <1>4, <1>5 DEF Balanced, GivenBack, Worth, Charged, Sold, Paid
<1>6. ASSUME NEW p \in DOMAIN pays, ApprovePayment(p)
      PROVE  Balanced' /\ (10 * GivenBack <= 9 * Worth(Sold))'
  <2>1. pays[p] \in Payment /\ pays[p].status = "READY"
    BY <1>4, <1>6, PaysAre DEF StoreOK, ApprovePayment
  <2>2. PICK x : x = [pays[p] EXCEPT !.status = "PAID"]
    OBVIOUS
  <2>3. /\ x \in Payment /\ x.amount = pays[p].amount /\ x.back = pays[p].back
        /\ x.status = "PAID" /\ pays' = [pays EXCEPT ![p] = x]
    BY <1>6, <2>1, <2>2 DEF Payment, ApprovePayment
  <2>4. pays'[p] = x /\ p \in DOMAIN pays'
    BY <1>4, <2>3, OnePayment
  <2>5. x.amount \notin PlanAmounts
    BY <2>3, <2>4 DEF Subscribed
  <2>6. hon'.paid = hon.paid + ChargedHon(x.amount)
    BY <1>4, <1>6, <2>3, <2>5 DEF ApprovePayment, StoreOK, Purse
  <2>7. /\ Worth(Sold)' = x.amount + Worth(Sold) /\ Worth(Paid)' = x.amount + Worth(Paid)
        /\ Charged(Paid)' = ChargedHon(x.amount) + Charged(Paid)
    BY <1>4, <2>1, <2>3, NumbersOfApproval
  <2>8. GivenBack' = GivenBack + (pays[p].back - pays[p].back)
    BY <1>4, <2>1, <2>3, NumbersOfChange
  <2>9. /\ GivenBack \in Nat /\ Worth(Sold) \in Nat /\ Worth(Paid) \in Nat
        /\ Charged(Paid) \in Nat /\ hon.paid \in Nat
    BY <1>4, NumbersAre
  <2>10. PICK a, c : a = x.amount /\ c = ChargedHon(x.amount)
    OBVIOUS
  <2>11. a \in Nat /\ c \in Nat /\ pays[p].back \in Nat
    BY <1>4, <2>3, <2>10, PaysAre DEF StoreOK, ChargedHon
  <2>12. GivenBack' = GivenBack
    BY <2>8, <2>9, <2>11
  <2>13. /\ hon.paid + c <= c + Charged(Paid)
         /\ 10 * GivenBack + 9 * (a + Worth(Paid)) - 500 * (c + Charged(Paid) - (hon.paid + c))
               <= 9 * (a + Worth(Sold))
         /\ 10 * GivenBack <= 9 * (a + Worth(Sold))
    BY <1>4, <2>9, <2>11 DEF Balanced
  <2>14. /\ hon'.paid = hon.paid + c /\ Charged(Paid)' = c + Charged(Paid)
         /\ Worth(Sold)' = a + Worth(Sold) /\ Worth(Paid)' = a + Worth(Paid)
    BY <2>6, <2>7, <2>10
  <2>15. /\ hon'.paid <= Charged(Paid)'
         /\ 10 * GivenBack' + 9 * Worth(Paid)' - 500 * (Charged(Paid)' - hon'.paid)
               <= 9 * Worth(Sold)'
         /\ 10 * GivenBack' <= 9 * Worth(Sold)'
    BY <2>9, <2>11, <2>12, <2>13, <2>14
  <2> QED
    BY <2>15 DEF Balanced
<1>7. CASE CancelSubscription
  BY <1>7 DEF CancelSubscription, IInv
<1> QED
  BY <1>5, <1>6, <1>7 DEF Single, AnswerInquiry, RejectRefund, CancelRefund

\* Who has had a plan keeps it on record.
LEMMA PlansStay == IInv /\ [Next]_vars => (Subscribed => Subscribed')
<1> SUFFICES ASSUME IInv, [Next]_vars PROVE Subscribed => Subscribed'
  OBVIOUS
<1>1. StoreOK
  BY IInvIs
<1>2. ASSUME pays' = pays PROVE Subscribed => Subscribed'
  BY <1>2 DEF Subscribed
<1>3. ASSUME NEW t \in Tasks, InsertPayment(t) PROVE Subscribed => Subscribed'
  <2>1. PICK b : b = task[t]
    OBVIOUS
  <2>2. b \in Request /\ RequestOK(b)
    BY <2>1, SlotIs
  <2>3. PICK x : x = [amount |-> b.amount, status |-> "READY", back |-> 0]
    OBVIOUS
  <2>4. x \in Payment /\ x.status = "READY" /\ x.back = 0 /\ pays' = Append(pays, x)
    BY <1>3, <2>1, <2>2, <2>3 DEF InsertPayment, RequestOK, Payment
  <2> QED
    BY <1>1, <2>4, NumbersOfInsert
<1>4. ASSUME NEW p \in DOMAIN pays, ApprovePayment(p) PROVE Subscribed => Subscribed'
  <2>1. pays[p] \in Payment
    BY <1>1, PaysAre DEF StoreOK
  <2>2. PICK x : x = [pays[p] EXCEPT !.status = "PAID"]
    OBVIOUS
  <2>3. /\ x \in Payment /\ x.amount = pays[p].amount /\ x.status = "PAID"
        /\ pays' = [pays EXCEPT ![p] = x]
    BY <1>4, <2>1, <2>2 DEF Payment, ApprovePayment
  <2> QED
    BY <1>1, <2>3, NumbersOfChange
<1>5. ASSUME NEW t \in Tasks, GatewayCancel(t) PROVE Subscribed => Subscribed'
  <2>1. CASE UNCHANGED pays
    BY <1>2, <2>1
  <2>2. CASE ~ UNCHANGED pays
    <3>1. PICK b, p, share : /\ b = task[t] /\ p = Latest(b.queue)
                             /\ share = Least(b.owed, pays[p].amount)
      OBVIOUS
    <3>2. b.queue # {} /\ pays' = [pays EXCEPT ![p].back = @ + share]
      BY <1>5, <2>2, <3>1 DEF GatewayCancel, Current
    <3>3. /\ p \in DOMAIN pays /\ pays[p] \in Payment /\ pays[p].back \in Nat /\ share \in Nat
      <4>1. b \in Request /\ RequestOK(b)
        BY <3>1, SlotIs
      <4> QED
        BY <1>1, <3>1, <3>2, <4>1, ShareIs
    <3>4. PICK x : x = [pays[p] EXCEPT !.back = pays[p].back + share]
      OBVIOUS
    <3>5. x \in Payment /\ x.amount = pays[p].amount /\ x.status = pays[p].status
      BY <3>3, <3>4 DEF Payment
    <3>6. pays' = [pays EXCEPT ![p] = x]
      BY <3>2, <3>4
    <3> QED
      BY <1>1, <3>3, <3>5, <3>6, NumbersOfChange
  <2> QED
    BY <2>1, <2>2
<1>6. ASSUME NEW t \in Tasks, SaveCancel(t) PROVE Subscribed => Subscribed'
  <2>1. PICK b, p : b = task[t] /\ p = Latest(b.queue)
    OBVIOUS
  <2>2. b.queue # {} /\ b \in Request /\ RequestOK(b)
    BY <1>6, <2>1, SlotIs DEF SaveCancel, RequestOK
  <2>3. PICK share : share = Least(b.owed, pays[p].amount)
    OBVIOUS
  <2>4. p \in DOMAIN pays /\ pays[p] \in Payment
    BY <1>1, <2>1, <2>2, <2>3, ShareIs
  <2>5. PICK x : x = [pays[p] EXCEPT !.status = "CANCELLED"]
    OBVIOUS
  <2>6. x \in Payment /\ x.amount = pays[p].amount /\ x.status = "CANCELLED"
    BY <2>4, <2>5 DEF Payment
  <2>7. pays' = [pays EXCEPT ![p] = x] \/ pays' = pays
    BY <1>6, <2>1, <2>5 DEF SaveCancel, Current
  <2> QED
    BY <1>1, <1>2, <2>4, <2>6, <2>7, NumbersOfChange
<1>7. ASSUME NEW t \in Tasks,
             \/ Comes(t) \/ InsertInquiry(t) \/ SaveProposal(t) \/ ListPayments(t) \/ AllCancelled(t)
             \/ DeductHon(t) \/ WriteHon(t) \/ Settle(t) \/ Abort(t)
      PROVE  pays' = pays
  <2>1. CASE Comes(t)
    BY <2>1, ComesAlone
  <2> QED
    BY <1>7, <2>1 DEF InsertInquiry, SaveProposal, ListPayments, AllCancelled, DeductHon, WriteHon,
       Settle, Abort
<1>8. CASE Single
  BY <1>2, <1>4, <1>8 DEF Single, CancelSubscription, AnswerInquiry, RejectRefund, CancelRefund
<1>9. ASSUME NEW t \in Tasks, NEW p \in DOMAIN pays, CancelPayment(t, p)
      PROVE  Subscribed => Subscribed'
  <2>1. pays[p] \in Payment /\ pays[p].amount \in Nat
    BY <1>1, PaysAre DEF StoreOK
  <2>2. PICK x : x = [pays[p] EXCEPT !.back = pays[p].amount]
    OBVIOUS
  <2>3. /\ x \in Payment /\ x.amount = pays[p].amount /\ x.status = pays[p].status
        /\ pays' = [pays EXCEPT ![p] = x]
    BY <1>9, <2>1, <2>2 DEF Payment, CancelPayment
  <2> QED
    BY <1>1, <2>3, NumbersOfChange
<1>10. ASSUME NEW t \in Tasks, RecordCancel(t) PROVE Subscribed => Subscribed'
  <2>1. PICK b, p : b = task[t] /\ p = Latest(b.queue)
    OBVIOUS
  <2>2. b.at = "record" /\ b \in Request /\ RequestOK(b)
    BY <1>10, <2>1, SlotIs DEF RecordCancel
  <2>3. p \in DOMAIN pays /\ pays[p] \in Payment
    BY <1>1, <2>1, <2>2, RecordedIs
  <2>4. PICK x : x = [pays[p] EXCEPT !.status = "CANCELLED"]
    OBVIOUS
  <2>5. x \in Payment /\ x.amount = pays[p].amount /\ x.status = "CANCELLED"
    BY <2>3, <2>4 DEF Payment
  <2>6. pays' = [pays EXCEPT ![p] = x] \/ pays' = pays
    BY <1>10, <2>1, <2>4 DEF RecordCancel, Current
  <2> QED
    BY <1>1, <1>2, <2>3, <2>5, <2>6, NumbersOfChange
<1> QED
  BY <1>2, <1>3, <1>5, <1>6, <1>7, <1>8, <1>9, <1>10, NextIs DEF Cancels, Insert, Confirmation, vars

\* What was cancelled directly stays so.
LEMMA DirectStays == [Next]_vars => direct \subseteq direct'
<1>1. ASSUME NEW t \in Tasks, Insert(t) \/ RecordCancel(t) \/ Abort(t) PROVE direct' = direct
  BY <1>1 DEF Insert, InsertPayment, InsertInquiry, SaveProposal, RecordCancel, Abort
<1>2. ASSUME NEW t \in Tasks, Confirmation(t) PROVE direct' = direct
  <2>1. CASE ListPayments(t) \/ AllCancelled(t) \/ DeductHon(t) \/ WriteHon(t) \/ Settle(t)
    BY <2>1 DEF ListPayments, AllCancelled, DeductHon, WriteHon, Settle
  <2>2. CASE GatewayCancel(t) \/ SaveCancel(t)
    BY <2>2 DEF GatewayCancel, SaveCancel
  <2> QED
    BY <1>2, <2>1, <2>2 DEF Confirmation
<1>3. ASSUME NEW t \in Tasks, Comes(t) PROVE direct' = direct
  BY <1>3, ComesAlone
<1>4. ASSUME NEW t \in Tasks, Cancels(t) PROVE direct \subseteq direct'
  BY <1>4 DEF Cancels, CancelPayment
<1>5. ASSUME Single PROVE direct' = direct
  BY <1>5 DEF Single, ApprovePayment, CancelSubscription, AnswerInquiry, RejectRefund, CancelRefund
<1> QED
  BY <1>1, <1>2, <1>3, <1>4, <1>5, NextIs DEF vars

-----------------------------------------------------------------------------
(* Direct cancellations count as payments whose HON is kept.               *)

LEMMA SumOfUnion ==
  ASSUME NEW S, IsFiniteSet(S), NEW f, \A x \in S : f[x] \in Int, NEW A \in SUBSET S
  PROVE  \A B \in SUBSET S : A \cap B = {} =>
           SumFunctionOnSet(f, A \cup B) = SumFunctionOnSet(f, A) + SumFunctionOnSet(f, B)
<1> DEFINE Adding(B) ==
             SumFunctionOnSet(f, A \cup B) = SumFunctionOnSet(f, A) + SumFunctionOnSet(f, B)
           Bad == {B \in SUBSET S : A \cap B = {} /\ ~ Adding(B)}
<1> SUFFICES ASSUME Bad # {} PROVE FALSE
  OBVIOUS
<1>0. Bad \subseteq SUBSET S
  OBVIOUS
<1>1. PICK B \in Bad : \A Q \in Bad : Q \subseteq B => Q = B
  <2> HIDE DEF Bad
  <2> QED
    BY <1>0, SmallestSubset
<1>2. B \in SUBSET S /\ A \cap B = {} /\ ~ Adding(B)
  BY <1>1
<1>3. \A U \in SUBSET S : SumFunctionOnSet(f, U) \in Int
  BY SumIsInt
<1>4. B # {}
  <2>1. A \cup {} = A /\ SumFunctionOnSet(f, A) \in Int
    BY <1>3
  <2>2. Adding({})
    BY <2>1, SumOfNone
  <2> QED
    BY <1>2, <2>2
<1>5. PICK x \in B : TRUE
  BY <1>4
<1>6. Adding(B \ {x})
  BY <1>1, <1>2, <1>5
<1>7. (A \cup B) \ {x} = A \cup (B \ {x})
  BY <1>2, <1>5
<1>8. A \cup B \in SUBSET S /\ x \in A \cup B
  BY <1>2, <1>5
<1>9. SumFunctionOnSet(f, A \cup B) = f[x] + SumFunctionOnSet(f, A \cup (B \ {x}))
  BY <1>7, <1>8, SumTakesAny
<1>10. SumFunctionOnSet(f, B) = f[x] + SumFunctionOnSet(f, B \ {x})
  BY <1>2, <1>5, SumTakesAny
<1>11. /\ SumFunctionOnSet(f, A) \in Int /\ SumFunctionOnSet(f, B \ {x}) \in Int /\ f[x] \in Int
  BY <1>2, <1>3, <1>5
<1>12. Adding(B)
  BY <1>6, <1>9, <1>10, <1>11
<1> QED
  BY <1>2, <1>12

LEMMA ChargedOfUnion ==
  ASSUME StoreOK, NEW A \in SUBSET DOMAIN pays, NEW B \in SUBSET DOMAIN pays, A \cap B = {}
  PROVE  /\ Charged(A \cup B) = Charged(A) + Charged(B)
         /\ Charged(A) \in Nat /\ Charged(B) \in Nat
<1>1. PICK f : f = [p \in DOMAIN pays |-> ChargedHon(pays[p].amount)]
  OBVIOUS
<1>2. \A p \in DOMAIN pays : f[p] \in Nat
  <2>1. \A a : ChargedHon(a) \in Nat
    BY DEF ChargedHon
  <2> QED
    BY <1>1, <2>1
<1>3. IsFiniteSet(DOMAIN pays)
  BY PaysFinite
<1>4. SumFunctionOnSet(f, A \cup B) = SumFunctionOnSet(f, A) + SumFunctionOnSet(f, B)
  <2>1. \A p \in DOMAIN pays : f[p] \in Int
    BY <1>2
  <2> QED
    BY <1>3, <2>1, SumOfUnion
<1>5. SumFunctionOnSet(f, A) \in Nat /\ SumFunctionOnSet(f, B) \in Nat
  BY <1>2, <1>3, SumIsNat
<1> QED
  BY <1>1, <1>4, <1>5 DEF Charged

LEMMA ChargedGrows ==
  ASSUME StoreOK, NEW A \in SUBSET DOMAIN pays, NEW B \in SUBSET DOMAIN pays, A \subseteq B
  PROVE  Charged(A) <= Charged(B) /\ Charged(B) \in Nat
<1>1. PICK C : C = B \ A
  OBVIOUS
<1>2. A \cup C = B /\ A \cap C = {} /\ C \in SUBSET DOMAIN pays
  BY <1>1
<1>3. Charged(B) = Charged(A) + Charged(C) /\ Charged(A) \in Nat /\ Charged(C) \in Nat
  BY <1>2, ChargedOfUnion
<1> QED
  BY <1>3

\* The HON of payments that stand and of those cancelled directly.
LEMMA BooksAre ==
  ASSUME StoreOK
  PROVE  /\ Lost \in SUBSET DOMAIN pays /\ Held \in SUBSET DOMAIN pays
         /\ Charged(Lost) \in Nat /\ Charged(Paid) \in Nat /\ hon.paid \in Nat
         /\ Charged(Held) = Charged(Paid) + Charged(Lost)
<1>1. Lost \in SUBSET DOMAIN pays /\ Paid \in SUBSET DOMAIN pays /\ Paid \cap Lost = {}
  BY DEF Lost, Paid
<1>2. PICK A, B : A = Paid /\ B = Lost
  OBVIOUS
<1>3. Charged(A \cup B) = Charged(A) + Charged(B) /\ Charged(A) \in Nat /\ Charged(B) \in Nat
  BY <1>1, <1>2, ChargedOfUnion
<1>4. hon.paid \in Nat
  BY DEF StoreOK, Purse
<1> QED
  BY <1>1, <1>2, <1>3, <1>4 DEF Held

\* More of the payments, whose amounts stay, are worth no less HON.
LEMMA BooksGrow ==
  ASSUME StoreOK, \A p \in DOMAIN pays : p \in DOMAIN pays' /\ pays'[p].amount = pays[p].amount
  PROVE  /\ Lost \subseteq Lost' /\ Lost' \subseteq DOMAIN pays
             => Charged(Lost) <= Charged(Lost)' /\ Charged(Lost)' \in Nat
         /\ Held \subseteq Held' /\ Held' \subseteq DOMAIN pays
             => Charged(Held) <= Charged(Held)' /\ Charged(Held)' \in Nat
<1>1. PICK A, B, C, D : A = Lost /\ B = Lost' /\ C = Held /\ D = Held'
  OBVIOUS
<1>2. A \in SUBSET DOMAIN pays /\ C \in SUBSET DOMAIN pays
  BY <1>1, BooksAre
<1>3. ASSUME A \subseteq B, B \in SUBSET DOMAIN pays
      PROVE  Charged(Lost) <= Charged(Lost)' /\ Charged(Lost)' \in Nat
  <2>1. Charged(A) <= Charged(B) /\ Charged(B) \in Nat
    BY <1>2, <1>3, ChargedGrows
  <2>2. SumFunctionOnSet([p \in DOMAIN pays' |-> ChargedHon(pays'[p].amount)], B) = Charged(B)
    BY <1>3, AmountsStay
  <2> QED
    BY <1>1, <2>1, <2>2 DEF Charged
<1>4. ASSUME C \subseteq D, D \in SUBSET DOMAIN pays
      PROVE  Charged(Held) <= Charged(Held)' /\ Charged(Held)' \in Nat
  <2>1. Charged(C) <= Charged(D) /\ Charged(D) \in Nat
    BY <1>2, <1>4, ChargedGrows
  <2>2. SumFunctionOnSet([p \in DOMAIN pays' |-> ChargedHon(pays'[p].amount)], D) = Charged(D)
    BY <1>4, AmountsStay
  <2> QED
    BY <1>1, <2>1, <2>2 DEF Charged
<1> QED
  BY <1>1, <1>3, <1>4

LEMMA HeldBefore ==
  ASSUME BackedInv, calm, ~Subscribed, NEW t \in Tasks, Only(t), ~Moves(task[t])
  PROVE  hon.paid <= Charged(Held)
<1>1. \A u \in Tasks : ~Moves(task[u])
  BY DEF Only, Moves, Idle
<1> QED
  BY <1>1 DEF BackedInv

LEMMA StepKeepsBacked ==
  ASSUME IInv, NEW t \in Tasks, Only(t), NEW r, task' = [task EXCEPT ![t] = r], Leaves(r)',
         (direct \subseteq Sold)', Moves(r) \/ (hon.paid <= Charged(Held))'
  PROVE  BackedInv'
<1>1. \A u \in Tasks : task'[u] = IF u = t THEN r ELSE Idle
  BY DEF IInv, TypeOK, Only
<1>2. Leaves(Idle)'
  BY DEF Leaves, Idle
<1>3. (\A u \in Tasks : Leaves(task[u]))'
  BY <1>1, <1>2 DEF Leaves
<1>4. (\A u \in Tasks : ~Moves(task[u]))' => (hon.paid <= Charged(Held))'
  BY <1>1
<1> QED
  BY <1>3, <1>4 DEF BackedInv

\* Nothing is moved, neither before nor after.
LEMMA HeldStays ==
  ASSUME IInv, BackedInv, calm, ~Subscribed, NEW t \in Tasks, Only(t), ~Moves(task[t]),
         NEW r, task' = [task EXCEPT ![t] = r], UNCHANGED <<pays, hon, direct>>,
         ~Moves(r), r.at # "record"
  PROVE  BackedInv'
<1>1. hon.paid <= Charged(Held) /\ direct \subseteq Sold
  BY HeldBefore DEF BackedInv
<1>2. (hon.paid <= Charged(Held))' /\ (direct \subseteq Sold)'
  BY <1>1 DEF Charged, Held, Paid, Lost, Sold
<1>3. Leaves(r)'
  BY DEF Leaves, Moves
<1> QED
  BY <1>2, <1>3, StepKeepsBacked

LEMMA ComesKeepsBacked ==
  ASSUME IInv, BackedInv, calm, ~Subscribed, NEW t \in Tasks, Comes(t)
  PROVE  BackedInv'
<1>1. PICK r : Begin(t, r) /\ ~Moves(r) /\ r.at # "record" /\ UNCHANGED <<pays, hon, direct>>
  BY ComesAlone
<1>2. Only(t) /\ task[t] = Idle /\ task' = [task EXCEPT ![t] = r]
  BY <1>1, BeginsAlone
<1>3. ~Moves(task[t])
  BY <1>2 DEF Moves, Idle
<1> QED
  BY <1>1, <1>2, <1>3, HeldStays

LEMMA InsertKeepsBacked ==
  ASSUME IInv, CalmInv, BackedInv, calm, ~Subscribed, NEW t \in Tasks, Insert(t) \/ Settle(t)
  PROVE  BackedInv'
<1>1. task[t].at \notin {"idle", "cancel", "saveCancel", "deduct", "write"}
  BY DEF Insert, InsertPayment, InsertInquiry, SaveProposal, Settle
<1>2. Only(t) /\ ~Moves(task[t])
  BY <1>1, OnlyOneRuns DEF Moves
<1>3. task' = [task EXCEPT ![t] = Idle] /\ ~Moves(Idle) /\ Idle.at # "record"
  BY DEF Insert, InsertPayment, InsertInquiry, SaveProposal, Settle, End, Run, Moves, Idle
<1>4. CASE InsertPayment(t)
  <2>1. PICK b : b = task[t]
    OBVIOUS
  <2>2. b \in Request /\ RequestOK(b) /\ StoreOK
    BY <2>1, SlotIs
  <2>3. PICK x : x = [amount |-> b.amount, status |-> "READY", back |-> 0]
    OBVIOUS
  <2>4. /\ x \in Payment /\ x.status = "READY" /\ pays \in Seq(Payment)
        /\ pays' = Append(pays, x) /\ UNCHANGED <<hon, direct>>
    BY <1>4, <2>1, <2>2, <2>3 DEF InsertPayment, RequestOK, Payment, StoreOK
  <2>5. /\ DOMAIN pays' = DOMAIN pays \cup {Len(pays) + 1} /\ pays'[Len(pays) + 1] = x
        /\ \A p \in DOMAIN pays : pays'[p] = pays[p]
    BY <2>4, AppendProperties, PaysAre
  <2>6. Len(pays) + 1 \notin DOMAIN pays
    BY <2>4, PaysAre
  <2>7. direct \subseteq Sold /\ Sold \subseteq DOMAIN pays /\ hon.paid <= Charged(Held)
    BY <1>2, HeldBefore DEF BackedInv, Sold
  <2>8. Held' = Held /\ Sold' = Sold
    BY <2>4, <2>5, <2>6, <2>7 DEF Held, Paid, Lost, Sold
  <2>9. Charged(Held) <= Charged(Held)' /\ Charged(Held) \in Nat
    BY <2>2, <2>5, <2>8, BooksAre, BooksGrow
  <2>10. PICK A : A = Held
    OBVIOUS
  <2>11. SumFunctionOnSet([p \in DOMAIN pays' |-> ChargedHon(pays'[p].amount)], A) = Charged(A)
    BY <2>2, <2>5, <2>10, BooksAre, AmountsStay
  <2>12. Charged(Held)' = Charged(Held)
    BY <2>8, <2>10, <2>11 DEF Charged
  <2>13. (hon.paid <= Charged(Held))' /\ (direct \subseteq Sold)'
    BY <2>4, <2>7, <2>8, <2>12
  <2>14. Leaves(Idle)'
    BY DEF Leaves, Idle
  <2> QED
    BY <1>2, <1>3, <2>13, <2>14, StepKeepsBacked
<1>5. CASE InsertInquiry(t) \/ SaveProposal(t) \/ Settle(t)
  <2>1. UNCHANGED <<pays, hon, direct>>
    BY <1>5 DEF InsertInquiry, SaveProposal, Settle
  <2> QED
    BY <1>2, <1>3, <2>1, HeldStays
<1> QED
  BY <1>4, <1>5 DEF Insert

\* A confirmation is to take the HON of what stands, or all there is.
LEMMA ListKeepsBacked ==
  ASSUME IInv, CalmInv, BackedInv, calm, ~Subscribed, NEW t \in Tasks, ListPayments(t)
  PROVE  BackedInv'
<1>1. PICK b : b = task[t]
  OBVIOUS
<1>2. b.at = "list" /\ UNCHANGED <<pays, hon, direct>>
  BY <1>1 DEF ListPayments
<1>3. Only(t) /\ Fresh(b) /\ b \in Request /\ StoreOK /\ ~Moves(b)
  BY <1>1, <1>2, OnlyOneRuns, SlotIs DEF Moves
<1>4. hon.paid <= Charged(Held) /\ direct \subseteq Sold
  BY <1>1, <1>3, HeldBefore DEF BackedInv
<1>5. CASE Paid = {}
  <2>1. task' = [task EXCEPT ![t] = Idle] /\ ~Moves(Idle) /\ Idle.at # "record"
    BY <1>5 DEF ListPayments, End, Run, Moves, Idle
  <2> QED
    BY <1>1, <1>2, <1>3, <2>1, HeldStays
<1>6. CASE Paid # {}
  <2>1. PICK r : r = [b EXCEPT !.at = "cancel", !.queue = Paid,
                               !.owed = HonRefund(Paid, b.purse.paid),
                               !.take = Returned(Paid, b.purse.paid)]
    OBVIOUS
  <2>2. task' = [task EXCEPT ![t] = r]
    BY <1>1, <1>6, <2>1 DEF ListPayments, Run
  <2>3. b.purse = hon
    BY <1>2, <1>3 DEF Fresh
  <2>4. r.at = "cancel" /\ r.take = Returned(Paid, hon.paid)
    BY <1>3, <2>1, <2>3 DEF Request
  <2>5. hon.paid - Returned(Paid, hon.paid) <= Charged(Lost)
    <3>1. PICK h, c, l : h = hon.paid /\ c = Charged(Paid) /\ l = Charged(Lost)
      OBVIOUS
    <3>2. h \in Nat /\ c \in Nat /\ l \in Nat /\ h <= c + l
      BY <1>3, <1>4, <3>1, BooksAre
    <3>3. Returned(Paid, h) = IF h > 0 THEN (IF c <= h THEN c ELSE h) ELSE 0
      BY <3>1 DEF Returned, Least
    <3>4. h - Returned(Paid, h) <= l
      BY <3>2, <3>3
    <3> QED
      BY <3>1, <3>4
  <2>6. hon'.paid - r.take <= Charged(Lost)'
    BY <1>2, <2>4, <2>5 DEF Charged, Lost
  <2>7. Leaves(r)' /\ Moves(r) /\ (direct \subseteq Sold)'
    BY <1>2, <1>4, <2>4, <2>6 DEF Leaves, Moves, Sold
  <2> QED
    BY <1>3, <2>2, <2>7, StepKeepsBacked
<1> QED
  BY <1>5, <1>6

\* A payment of which money goes back, or that is recorded as cancelled, is worth as
\* much HON as before, and what was lost stays so.
LEMMA LostStays ==
  ASSUME StoreOK, NEW p \in DOMAIN pays, NEW x \in Payment, pays' = [pays EXCEPT ![p] = x],
         x.amount = pays[p].amount, pays[p].status \in {"PAID", "CANCELLED"},
         x.status = pays[p].status \/ x.status = "CANCELLED",
         direct \subseteq direct', direct' \subseteq Sold
  PROVE  /\ Charged(Lost) <= Charged(Lost)' /\ Charged(Lost)' \in Nat /\ (direct \subseteq Sold)'
         /\ x.status = pays[p].status \/ p \in direct
             => Charged(Held) <= Charged(Held)' /\ Charged(Held)' \in Nat
<1>1. DOMAIN pays' = DOMAIN pays /\ \A q \in DOMAIN pays : pays'[q] = IF q = p THEN x ELSE pays[q]
  BY OnePayment
<1>2. Lost \subseteq Lost' /\ Lost' \subseteq DOMAIN pays /\ Held' \subseteq DOMAIN pays
  BY <1>1 DEF Lost, Held, Paid
<1>3. Sold' = Sold
  BY <1>1 DEF Sold
<1>4. x.status = pays[p].status \/ p \in direct => Held \subseteq Held'
  BY <1>1 DEF Held, Paid, Lost
<1> QED
  BY <1>1, <1>2, <1>3, <1>4, BooksGrow

\* ... so that what a confirmation takes, and what the user holds, stays covered.
LEMMA TakenOff ==
  ASSUME StoreOK, NEW b \in Request, Leaves(b), b.at \in {"cancel", "saveCancel"}, hon' = hon,
         NEW r, r.take = b.take, Charged(Lost) <= Charged(Lost)', Charged(Lost)' \in Nat
  PROVE  hon'.paid - r.take <= Charged(Lost)'
<1>1. PICK h, k, l, m : h = hon.paid /\ k = b.take /\ l = Charged(Lost) /\ m = Charged(Lost)'
  OBVIOUS
<1>2. h \in Nat /\ k \in Nat /\ l \in Nat /\ m \in Int /\ h - k <= l /\ l <= m
  BY <1>1, BooksAre DEF Leaves, Request
<1>3. h - k <= m
  BY <1>2
<1> QED
  BY <1>1, <1>3

LEMMA GatewayKeepsBacked ==
  ASSUME IInv, CalmInv, BackedInv, calm, ~Subscribed, NEW t \in Tasks, GatewayCancel(t)
  PROVE  BackedInv'
<1>0. PICK b, p, share, x, r : Gives(t, b, p, share, x, r)
  BY GatewayIsCalm
<1>1. /\ b = task[t] /\ x = [pays[p] EXCEPT !.back = share]
      /\ r = [b EXCEPT !.at = "saveCancel", !.amount = share]
      /\ p \in DOMAIN pays /\ pays[p] \in Payment /\ share \in Nat /\ pays[p].status = "PAID"
      /\ pays' = [pays EXCEPT ![p] = x] /\ task' = [task EXCEPT ![t] = r]
  BY <1>0 DEF Gives
<1>2. b.at = "cancel" /\ UNCHANGED <<hon, direct>>
  BY <1>1 DEF GatewayCancel
<1>3. Only(t) /\ b \in Request /\ StoreOK
  BY <1>1, <1>2, QueueIsUntouched
<1>4. x \in Payment /\ x.status = "PAID" /\ x.amount = pays[p].amount
  BY <1>1 DEF Payment
<1>5. direct \subseteq Sold /\ Leaves(b)
  BY <1>1 DEF BackedInv
<1>6. Charged(Lost) <= Charged(Lost)' /\ Charged(Lost)' \in Nat /\ (direct \subseteq Sold)'
  BY <1>1, <1>2, <1>3, <1>4, <1>5, LostStays
<1>7. r.at = "saveCancel" /\ r.take = b.take
  BY <1>1, <1>3 DEF Request
<1>8. hon'.paid - r.take <= Charged(Lost)'
  BY <1>1, <1>2, <1>3, <1>5, <1>6, <1>7, TakenOff
<1>9. Leaves(r)' /\ Moves(r)
  BY <1>7, <1>8 DEF Leaves, Moves
<1> QED
  BY <1>1, <1>3, <1>6, <1>9, StepKeepsBacked

LEMMA SaveKeepsBacked ==
  ASSUME IInv, CalmInv, BackedInv, calm, ~Subscribed, NEW t \in Tasks, SaveCancel(t)
  PROVE  BackedInv'
<1>0. PICK b, p, x, r : Records(t, b, p, x, r)
  BY SaveIsCalm
<1>1. /\ b = task[t] /\ x = [pays[p] EXCEPT !.status = "CANCELLED"]
      /\ r = [b EXCEPT !.at = "cancel", !.queue = b.queue \ {p}, !.owed = b.owed - b.amount]
      /\ p \in DOMAIN pays /\ pays[p] \in Payment /\ pays[p].status = "PAID"
      /\ pays' = [pays EXCEPT ![p] = x] /\ task' = [task EXCEPT ![t] = r]
  BY <1>0 DEF Records
<1>2. b.at = "saveCancel" /\ UNCHANGED <<hon, direct>>
  BY <1>1 DEF SaveCancel
<1>3. Only(t) /\ b \in Request /\ StoreOK
  BY <1>1, <1>2, QueueIsUntouched
<1>4. x \in Payment /\ x.status = "CANCELLED" /\ x.amount = pays[p].amount
  BY <1>1 DEF Payment
<1>5. direct \subseteq Sold /\ Leaves(b)
  BY <1>1 DEF BackedInv
<1>6. Charged(Lost) <= Charged(Lost)' /\ Charged(Lost)' \in Nat /\ (direct \subseteq Sold)'
  BY <1>1, <1>2, <1>3, <1>4, <1>5, LostStays
<1>7. r.at = "cancel" /\ r.take = b.take
  BY <1>1, <1>3 DEF Request
<1>8. hon'.paid - r.take <= Charged(Lost)'
  BY <1>1, <1>2, <1>3, <1>5, <1>6, <1>7, TakenOff
<1>9. Leaves(r)' /\ Moves(r)
  BY <1>7, <1>8 DEF Leaves, Moves
<1> QED
  BY <1>1, <1>3, <1>6, <1>9, StepKeepsBacked

LEMMA TheRestKeepsBacked ==
  ASSUME IInv, CalmInv, BackedInv, calm, ~Subscribed, NEW t \in Tasks,
         AllCancelled(t) \/ DeductHon(t) \/ WriteHon(t)
  PROVE  BackedInv'
<1>1. PICK b : b = task[t]
  OBVIOUS
<1>2. b.at \in {"cancel", "deduct", "write"} /\ UNCHANGED <<pays, direct>> /\ ~Active
  BY <1>1 DEF AllCancelled, DeductHon, WriteHon, IInv
<1>3. Only(t) /\ Fresh(b) /\ b \in Request /\ RequestOK(b) /\ StoreOK
  BY <1>1, <1>2, OnlyOneRuns, SlotIs
<1>4. direct \subseteq Sold /\ Leaves(b) /\ (direct \subseteq Sold)'
  BY <1>1, <1>2 DEF BackedInv, Sold
<1>5. /\ Charged(Lost)' = Charged(Lost) /\ Charged(Held)' = Charged(Held)
      /\ Charged(Lost) \in Nat /\ Charged(Held) \in Nat /\ Charged(Lost) <= Charged(Held)
      /\ hon.paid \in Nat /\ b.take \in Nat
  <2>1. Charged(Lost) \in Nat /\ Charged(Paid) \in Nat /\ hon.paid \in Nat
        /\ Charged(Held) = Charged(Paid) + Charged(Lost)
    BY <1>3, BooksAre
  <2>2. Charged(Lost)' = Charged(Lost) /\ Charged(Held)' = Charged(Held)
    BY <1>2 DEF Charged, Lost, Held, Paid
  <2> QED
    BY <1>3, <2>1, <2>2 DEF Request
<1>6. ASSUME NEW r, task' = [task EXCEPT ![t] = r], r.at \in {"idle", "settle"},
             hon'.paid <= Charged(Held)
      PROVE  BackedInv'
  <2>1. Leaves(r)' /\ (hon.paid <= Charged(Held))'
    BY <1>5, <1>6 DEF Leaves
  <2> QED
    BY <1>3, <1>4, <1>6, <2>1, StepKeepsBacked
<1>7. CASE AllCancelled(t)
  <2>1. PICK r : r = [b EXCEPT !.at = IF b.take > 0 THEN "deduct" ELSE "settle"]
    OBVIOUS
  <2>2. b.at = "cancel" /\ hon' = hon /\ task' = [task EXCEPT ![t] = r]
    BY <1>1, <1>7, <2>1 DEF AllCancelled, Goto, Run
  <2>3. hon.paid - b.take <= Charged(Lost)
    BY <1>4, <2>2 DEF Leaves
  <2>4. CASE b.take > 0
    <3>1. r.at = "deduct" /\ r.take = b.take
      BY <1>3, <2>1, <2>4 DEF Request
    <3>2. Leaves(r)' /\ Moves(r)
      BY <1>5, <2>2, <2>3, <3>1 DEF Leaves, Moves
    <3> QED
      BY <1>3, <1>4, <2>2, <3>2, StepKeepsBacked
  <2>5. CASE ~ (b.take > 0)
    <3>1. r.at = "settle"
      BY <1>3, <2>1, <2>5 DEF Request
    <3>2. hon'.paid <= Charged(Held)
      BY <1>5, <2>2, <2>3, <2>5
    <3> QED
      BY <1>6, <2>2, <3>1, <3>2
  <2> QED
    BY <2>4, <2>5
<1>8. CASE DeductHon(t)
  <2>1. PICK r : r = [b EXCEPT !.at = "write", !.purse = After(b.take, TRUE)]
    OBVIOUS
  <2>2. b.at = "deduct" /\ hon' = hon
    BY <1>1, <1>8 DEF DeductHon
  <2>3. hon.paid - b.take <= Charged(Lost) /\ b.take <= hon.paid /\ b.i # 0
    BY <1>3, <1>4, <2>2 DEF Leaves, Fresh, RequestOK
  <2>4. Afford(b.take)
    <3>1. hon.free \in Nat
      BY <1>3 DEF StoreOK, Purse
    <3> QED
      BY <1>5, <2>3, <3>1 DEF Afford
  <2>5. task' = [task EXCEPT ![t] = r]
    BY <1>1, <1>2, <1>8, <2>1, <2>4 DEF DeductHon, Run
  <2>6. r.at = "write" /\ r.i # 0 /\ r.purse = After(b.take, TRUE)
    BY <1>3, <2>1, <2>3 DEF Request
  <2>7. After(b.take, TRUE).paid = hon.paid - b.take
    BY <1>5, <2>3 DEF After, AtLeastZero
  <2>8. r.purse.paid <= Charged(Lost)'
    BY <1>5, <2>3, <2>6, <2>7
  <2>9. Leaves(r)' /\ Moves(r)
    BY <2>6, <2>8 DEF Leaves, Moves
  <2> QED
    BY <1>3, <1>4, <2>5, <2>9, StepKeepsBacked
<1>9. CASE WriteHon(t)
  <2>1. PICK r : r = IF b.i = 0 THEN Idle ELSE [b EXCEPT !.at = "settle"]
    OBVIOUS
  <2>2. b.at = "write" /\ hon' = b.purse /\ task' = [task EXCEPT ![t] = r]
    BY <1>1, <1>9, <2>1 DEF WriteHon, End, Goto, Run
  <2>3. r.at \in {"idle", "settle"} /\ b.purse.paid \in Nat
    BY <1>3, <2>1 DEF Request, Purse, Idle
  <2>4. b.purse.paid <= Charged(Held)
    <3>1. CASE b.i # 0
      <4>1. b.purse.paid <= Charged(Lost)
        BY <1>4, <2>2, <3>1 DEF Leaves
      <4> QED
        BY <1>5, <2>3, <4>1
    <3>2. CASE b.i = 0
      <4>1. b.purse.paid <= hon.paid /\ hon.paid <= Charged(Held)
        BY <1>1, <1>3, <2>2, <3>2, HeldBefore DEF Fresh, Moves
      <4> QED
        BY <1>5, <2>3, <4>1
    <3> QED
      BY <3>1, <3>2
  <2> QED
    BY <1>6, <2>2, <2>3, <2>4
<1> QED
  BY <1>7, <1>8, <1>9

LEMMA CancelPaymentKeepsBacked ==
  ASSUME IInv, BackedInv, calm, ~Subscribed, NEW t \in Tasks, NEW p \in DOMAIN pays,
         CancelPayment(t, p)
  PROVE  BackedInv'
<1>1. PICK r : r = [Idle EXCEPT !.at = "record", !.queue = {p}]
  OBVIOUS
<1>2. PICK x : x = [pays[p] EXCEPT !.back = pays[p].amount]
  OBVIOUS
<1>3. /\ Begin(t, r) /\ pays' = [pays EXCEPT ![p] = x] /\ pays[p].status # "READY"
      /\ hon' = hon /\ direct' = direct \cup {p}
  BY <1>1, <1>2 DEF CancelPayment
<1>4. Only(t) /\ task[t] = Idle /\ task' = [task EXCEPT ![t] = r] /\ ~Moves(task[t])
  BY <1>3, BeginsAlone DEF Moves, Idle
<1>5. StoreOK /\ pays[p] \in Payment /\ pays[p].amount \in Nat
  BY IInvIs, PaysAre DEF StoreOK
<1>6. x \in Payment /\ x.status = pays[p].status /\ x.amount = pays[p].amount
  BY <1>2, <1>5 DEF Payment
<1>7. pays[p].status \in {"PAID", "CANCELLED"} /\ direct' \subseteq Sold /\ hon.paid <= Charged(Held)
  <2>1. pays[p].status \in {"PAID", "CANCELLED"}
    BY <1>3, <1>5 DEF Payment
  <2>2. direct \subseteq Sold
    BY DEF BackedInv
  <2> QED
    BY <1>3, <1>4, <2>1, <2>2, HeldBefore DEF Sold
<1>8. Charged(Held) <= Charged(Held)' /\ Charged(Held)' \in Nat /\ (direct \subseteq Sold)'
  BY <1>3, <1>5, <1>6, <1>7, LostStays
<1>9. hon'.paid <= Charged(Held)'
  BY <1>3, <1>5, <1>6, <1>7, <1>8, BooksAre
<1>10. Leaves(r)'
  BY <1>1, <1>3 DEF Leaves, Idle
<1> QED
  BY <1>4, <1>8, <1>9, <1>10, StepKeepsBacked

LEMMA RecordKeepsBacked ==
  ASSUME IInv, CalmInv, BackedInv, calm, ~Subscribed, NEW t \in Tasks, RecordCancel(t)
  PROVE  BackedInv'
<1>1. PICK b, p, x : Only(t) /\ Recorded(t, b, p, x)
  BY RecordIsCalm
<1>2. /\ b = task[t] /\ x = [pays[p] EXCEPT !.status = "CANCELLED"]
      /\ b.at = "record" /\ p \in DOMAIN pays /\ p \in b.queue /\ pays[p] \in Payment
      /\ task' = [task EXCEPT ![t] = Idle] /\ UNCHANGED <<hon, direct>>
  BY <1>1 DEF Recorded
<1>3. x \in Payment /\ x.status = "CANCELLED" /\ x.amount = pays[p].amount /\ StoreOK
  BY <1>2, IInvIs DEF Payment
<1>4. ~Moves(task[t]) /\ Only(t)
  BY <1>1, <1>2 DEF Moves
<1>5. hon.paid <= Charged(Held) /\ direct \subseteq Sold /\ p \in direct
  BY <1>2, <1>4, HeldBefore DEF BackedInv, Leaves
<1>6. Leaves(Idle)' /\ ~Moves(Idle) /\ Idle.at # "record"
  BY DEF Leaves, Moves, Idle
<1>7. CASE pays' = pays
  BY <1>2, <1>4, <1>6, <1>7, HeldStays
<1>8. CASE pays[p].status = "PAID" /\ pays' = [pays EXCEPT ![p] = x]
  <2>1. Charged(Held) <= Charged(Held)' /\ Charged(Held)' \in Nat /\ (direct \subseteq Sold)'
    BY <1>2, <1>3, <1>5, <1>8, LostStays
  <2>2. hon'.paid <= Charged(Held)'
    BY <1>2, <1>3, <1>5, <1>8, <2>1, BooksAre
  <2> QED
    BY <1>2, <1>4, <1>6, <2>1, <2>2, StepKeepsBacked
<1> QED
  BY <1>1, <1>7, <1>8 DEF Recorded

LEMMA SingleKeepsBacked ==
  ASSUME IInv, CalmInv, BackedInv, calm, ~Subscribed, ~Subscribed', Single
  PROVE  BackedInv'
<1>1. Arrives /\ task' = task
  BY ArrivalsAre DEF Single, ApprovePayment, CancelSubscription, AnswerInquiry, RejectRefund,
     CancelRefund
<1>2. (\A t \in Tasks : task[t] = Idle) /\ \A t \in Tasks : task'[t] = Idle
  BY <1>1 DEF Arrives
<1>3. (\A t \in Tasks : ~Moves(task[t])) /\ (\A t \in Tasks : Leaves(task[t]))'
  BY <1>2 DEF Moves, Leaves, Idle
<1>4. hon.paid <= Charged(Held) /\ direct \subseteq Sold /\ StoreOK
  BY <1>3, IInvIs DEF BackedInv
<1> SUFFICES (hon.paid <= Charged(Held))' /\ (direct \subseteq Sold)'
  BY <1>3 DEF BackedInv
<1>5. CASE UNCHANGED <<pays, hon, direct>>
  BY <1>4, <1>5 DEF Charged, Held, Paid, Lost, Sold
<1>6. ASSUME NEW p \in DOMAIN pays, ApprovePayment(p)
      PROVE  (hon.paid <= Charged(Held))' /\ (direct \subseteq Sold)'
  <2>1. pays[p] \in Payment /\ pays[p].status = "READY" /\ direct' = direct
    BY <1>4, <1>6, PaysAre DEF StoreOK, ApprovePayment
  <2>2. PICK x : x = [pays[p] EXCEPT !.status = "PAID"]
    OBVIOUS
  <2>3. /\ x \in Payment /\ x.amount = pays[p].amount /\ x.back = pays[p].back
        /\ x.status = "PAID" /\ pays' = [pays EXCEPT ![p] = x]
    BY <1>6, <2>1, <2>2 DEF Payment, ApprovePayment
  <2>4. /\ DOMAIN pays' = DOMAIN pays
        /\ \A q \in DOMAIN pays : pays'[q] = IF q = p THEN x ELSE pays[q]
    BY <1>4, <2>3, OnePayment
  <2>5. x.amount \notin PlanAmounts
    BY <2>3, <2>4 DEF Subscribed
  <2>6. hon'.paid = hon.paid + ChargedHon(x.amount)
    BY <1>4, <1>6, <2>3, <2>5 DEF ApprovePayment, StoreOK, Purse
  <2>7. p \notin direct
    BY <1>4, <2>1 DEF Sold
  <2>8. PICK A, B : A = Lost /\ B = Held'
    OBVIOUS
  <2>9. Lost' = Lost /\ Sold \subseteq Sold' /\ Held' = Paid' \cup Lost /\ Paid' = Paid \cup {p}
    BY <2>1, <2>3, <2>4, <2>7 DEF Lost, Sold, Held, Paid
  <2>10. PICK C : C = Paid'
    OBVIOUS
  <2>11. /\ A \in SUBSET DOMAIN pays /\ C \in SUBSET DOMAIN pays /\ C \cap A = {} /\ B = C \cup A
    BY <2>3, <2>4, <2>7, <2>8, <2>9, <2>10 DEF Lost, Paid
  <2>12. Charged(C \cup A) = Charged(C) + Charged(A)
    BY <1>4, <2>11, ChargedOfUnion
  <2>13. \A S \in SUBSET DOMAIN pays :
           SumFunctionOnSet([q \in DOMAIN pays' |-> ChargedHon(pays'[q].amount)], S) = Charged(S)
    <3>1. \A q \in DOMAIN pays : q \in DOMAIN pays' /\ pays'[q].amount = pays[q].amount
      BY <2>3, <2>4
    <3> QED
      BY <1>4, <3>1, AmountsStay
  <2>14. Charged(Held)' = Charged(B) /\ Charged(Paid)' = Charged(C)
    <3>1. B \in SUBSET DOMAIN pays
      BY <2>11
    <3>2. SumFunctionOnSet([q \in DOMAIN pays' |-> ChargedHon(pays'[q].amount)], B) = Charged(B)
      BY <2>13, <3>1
    <3>3. SumFunctionOnSet([q \in DOMAIN pays' |-> ChargedHon(pays'[q].amount)], C) = Charged(C)
      BY <2>11, <2>13
    <3> QED
      BY <2>8, <2>10, <3>2, <3>3 DEF Charged
  <2>15. Charged(Paid)' = ChargedHon(x.amount) + Charged(Paid)
    BY <1>4, <2>1, <2>3, NumbersOfApproval
  <2>16. Charged(Held) = Charged(Paid) + Charged(A)
    BY <1>4, <2>8, BooksAre
  <2>17. PICK c, h, l, n : /\ c = ChargedHon(x.amount) /\ h = hon.paid
                           /\ l = Charged(A) /\ n = Charged(Paid)
    OBVIOUS
  <2>18. c \in Nat /\ h \in Nat /\ l \in Nat /\ n \in Nat
    BY <1>4, <2>8, <2>17, BooksAre DEF ChargedHon
  <2>19. h + c <= (c + n) + l
    BY <1>4, <2>16, <2>17, <2>18
  <2>20. hon'.paid = h + c /\ Charged(Held)' = (c + n) + l
    BY <2>6, <2>11, <2>12, <2>14, <2>15, <2>17
  <2> QED
    BY <1>4, <2>1, <2>9, <2>19, <2>20
<1>7. CASE CancelSubscription
  BY <1>7 DEF CancelSubscription, IInv
<1> QED
  BY <1>5, <1>6, <1>7 DEF Single, AnswerInquiry, RejectRefund, CancelRefund

LEMMA InitIsBacked == Init => BackedInv
<1> SUFFICES ASSUME Init PROVE BackedInv
  OBVIOUS
<1>1. \A t \in Tasks : Leaves(task[t])
  BY DEF Init, Leaves, Idle
<1>2. Held = {} /\ direct = {} /\ hon.paid = 0
  BY DEF Init, Held, Paid, Lost
<1>3. Charged(Held) = 0
  BY <1>2, SumOfNone DEF Charged
<1> QED
  BY <1>1, <1>2, <1>3 DEF BackedInv

LEMMA NextKeepsBacked == IInv /\ CalmInv /\ BackedInv /\ [Next]_vars => BackedInv'
<1> SUFFICES ASSUME IInv, CalmInv, BackedInv, [Next]_vars, calm, ~Subscribed, ~Subscribed'
             PROVE  BackedInv'
  BY CalmStays, PlansStay DEF BackedInv
<1>1. CASE UNCHANGED vars
  <2>1. (\A t \in Tasks : Leaves(task[t])) /\ direct \subseteq Sold
    BY DEF BackedInv
  <2>2. (\A t \in Tasks : Leaves(task[t]))' /\ (direct \subseteq Sold)'
    BY <1>1, <2>1 DEF vars, Leaves, Charged, Lost, Sold
  <2>3. (\A t \in Tasks : ~Moves(task[t]))' => (hon.paid <= Charged(Held))'
    BY <1>1 DEF vars, BackedInv, Charged, Held, Paid, Lost
  <2> QED
    BY <2>2, <2>3 DEF BackedInv
<1>2. ASSUME NEW t \in Tasks, Comes(t) PROVE BackedInv'
  BY <1>2, ComesKeepsBacked
<1>3. ASSUME NEW t \in Tasks, Insert(t) PROVE BackedInv'
  BY <1>3, InsertKeepsBacked
<1>4. ASSUME NEW t \in Tasks, Confirmation(t) PROVE BackedInv'
  BY <1>4, ListKeepsBacked, GatewayKeepsBacked, SaveKeepsBacked, TheRestKeepsBacked,
     InsertKeepsBacked DEF Confirmation
<1>5. ASSUME NEW t \in Tasks, Abort(t) PROVE BackedInv'
  BY <1>5 DEF Abort
<1>6. CASE Single
  BY <1>6, SingleKeepsBacked
<1>7. ASSUME NEW t \in Tasks, Cancels(t) \/ RecordCancel(t) PROVE BackedInv'
  BY <1>7, CancelPaymentKeepsBacked, RecordKeepsBacked DEF Cancels
<1> QED
  BY <1>1, <1>2, <1>3, <1>4, <1>5, <1>6, <1>7, NextIs

\* Between calm requests the paid HON of a user without a plan is that of payments that
\* stand or were cancelled directly, over any number of refunds, payments and analyses.
THEOREM PaidHonBacked == Spec => []PaidHonIsBacked
<1>1. BackedInv => PaidHonIsBacked
  <2> SUFFICES ASSUME BackedInv, Quiet, ~Subscribed PROVE hon.paid <= Charged(Paid \cup Lost)
    BY DEF PaidHonIsBacked
  <2>1. calm /\ \A t \in Tasks : ~Moves(task[t])
    BY DEF Quiet, Moves, Idle
  <2> QED
    BY <2>1 DEF BackedInv, Held
<1> QED
  BY <1>1, InitIsIInv, InitIsCalm, InitIsBacked, NextKeepsIInv, NextKeepsCalm, NextKeepsBacked, PTL
     DEF Spec

-----------------------------------------------------------------------------
(* Without a direct cancellation at most nine tenths go back.              *)

LEMMA InitIsPlain == Init => PlainInv
<1> SUFFICES ASSUME Init PROVE PlainInv
  OBVIOUS
<1>1. \A t \in Tasks : Takes(task[t])
  BY DEF Init, Takes, Idle
<1>2. DOMAIN pays = {} /\ Paid = {} /\ Sold = {}
  BY DEF Init, Paid, Sold
<1>3. Worth(Sold) = 0 /\ Worth(Paid) = 0 /\ Charged(Paid) = 0 /\ GivenBack = 0
  BY <1>2, SumOfNone DEF Worth, Charged, GivenBack
<1>4. hon.paid = 0
  BY DEF Init
<1> QED
  BY <1>1, <1>3, <1>4 DEF PlainInv, Balanced

LEMMA NextKeepsPlain == IInv /\ CalmInv /\ BackedInv /\ PlainInv /\ [Next]_vars => PlainInv'
<1> SUFFICES ASSUME IInv, CalmInv, BackedInv, PlainInv, [Next]_vars, calm,
                    ~Subscribed, ~Subscribed', direct = {}, direct' = {}
             PROVE  PlainInv'
  BY CalmStays, PlansStay, DirectStays DEF PlainInv
<1>1. CASE UNCHANGED vars
  <2>1. (\A t \in Tasks : Takes(task[t])) /\ 10 * GivenBack <= 9 * Worth(Sold)
    BY DEF PlainInv
  <2>2. (\A t \in Tasks : Takes(task[t]))' /\ (10 * GivenBack <= 9 * Worth(Sold))'
    BY <1>1, <2>1 DEF vars, Takes, GivenBack, Worth, Sold
  <2>3. (\A t \in Tasks : ~Moves(task[t]))' => Balanced'
    BY <1>1 DEF vars, PlainInv, Balanced, GivenBack, Worth, Charged, Sold, Paid
  <2> QED
    BY <2>2, <2>3 DEF PlainInv
<1>2. ASSUME NEW t \in Tasks, Comes(t) PROVE PlainInv'
  BY <1>2, ComesKeepsPlain
<1>3. ASSUME NEW t \in Tasks, Insert(t) PROVE PlainInv'
  BY <1>3, InsertKeepsPlain
<1>4. ASSUME NEW t \in Tasks, Confirmation(t) PROVE PlainInv'
  BY <1>4, ListKeepsPlain, GatewayKeepsPlain, SaveKeepsPlain, AllCancelledKeepsPlain,
     DeductKeepsPlain, WriteKeepsPlain, InsertKeepsPlain DEF Confirmation
<1>5. ASSUME NEW t \in Tasks, Abort(t) PROVE PlainInv'
  BY <1>5 DEF Abort
<1>6. CASE Single
  BY <1>6, SingleKeepsPlain
<1>7. ASSUME NEW t \in Tasks, Cancels(t) PROVE PlainInv'
  BY <1>7 DEF Cancels, CancelPayment
<1>8. ASSUME NEW t \in Tasks, RecordCancel(t) PROVE PlainInv'
  <2>1. PICK b, p, x : Recorded(t, b, p, x)
    BY <1>8, RecordIsCalm
  <2>2. b = task[t] /\ b.at = "record" /\ p \in b.queue
    BY <2>1 DEF Recorded
  <2>3. b.queue \subseteq direct
    BY <2>2 DEF BackedInv, Leaves
  <2> QED
    BY <2>2, <2>3
<1> QED
  BY <1>1, <1>2, <1>3, <1>4, <1>5, <1>6, <1>7, <1>8, NextIs

\* At every moment of calm behaviour, within a refund too, at most nine tenths of what
\* a user without a plan has ever paid has gone back, if none was cancelled directly.
THEOREM NineTenths == Spec => []NineTenthsAtMost
<1>1. PlainInv => NineTenthsAtMost
  BY DEF PlainInv, NineTenthsAtMost, Sold
<1> QED
  BY <1>1, InitIsIInv, InitIsCalm, InitIsBacked, InitIsPlain, NextKeepsIInv, NextKeepsCalm,
     NextKeepsBacked, NextKeepsPlain, PTL DEF Spec
=============================================================================
