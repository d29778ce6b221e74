----------------------------- MODULE DrawProofs -----------------------------
(***************************************************************************)
(* What is proved about Draw, for any number of weeks and attempts, any    *)
(* settings and cache keys.  First who changes what; then each part of the *)
(* invariant, step by step; then the theorems.                             *)
(***************************************************************************)
EXTENDS DrawInvariant, FiniteSetTheorems, WellFoundedInduction, TLAPS

-----------------------------------------------------------------------------
(* Who changes what.                                                       *)

Storing == StorePage \/ \E f \in Fetchers : StoreDraw(f) \/ StorePlaceholder(f)

\* What only fetchers do, to themselves and the site.
Fetching == \/ Saturday \/ Resync \/ ClearAll \/ Compare \/ FetchShops \/ Retry \/ FetchFails
            \/ \E f \in Fetchers : Fetch(f) \/ Find(f)

Returning(r) == CheckFlag(r) \/ Unlock(r)
Analysing(r) == \/ HandleDrawn(r) \/ SetFlag(r) \/ FindNumbers(r) \/ LinkNumbers(r)
                \/ FindKeys(r) \/ Predict(r) \/ FindUnscored(r) \/ Score(r)
                \/ Unflag(r) \/ RunFails(r)

Shopping == StoreShops \/ AskShops \/ StoreWanted \/ \E e \in Episodes : FindShops(e)
Using == FindLatest \/ CreatePrediction
Reading == (\E k \in Keys : Read(k) \/ Expire(k)) \/ Fill \/ Forget
Siting == \/ SyncFromRedis \/ (\E b \in BOOLEAN : ToggleStatus(b))
          \/ LockExpires \/ FlagExpires

LEMMA NextIs ==
  ASSUME Next
  PROVE  \/ Storing \/ Fetching \/ Shopping \/ Using \/ Reading \/ Siting
         \/ Publish \/ Analyze \/ Crash
         \/ \E r \in Runners : Returning(r) \/ Analysing(r)
BY DEF Next, JobStep, ResyncStep, FetchStep, RunStep, Storing, Fetching, Shopping, Using,
       Reading, Siting, Returning, Analysing

LEMMA StoringLeaves ==
  ASSUME Storing
  PROVE  UNCHANGED <<setting, week, published, linked, sys, usr, scored, shops, wanted, site, user,
                     memo, reader, extras>>
BY DEF Storing, StorePage, StoreDraw, StorePlaceholder, site, stock, reads

LEMMA FetchingLeaves ==
  ASSUME Fetching
  PROVE  UNCHANGED <<setting, published, row, linked, sys, usr, scored, shops, wanted, flag, run, user,
                     memo, reader>>
BY DEF Fetching, Saturday, Resync, ClearAll, Compare, FetchShops, Retry, FetchFails, Fetch,
       Find, site, db, stock, reads

LEMMA ReturningLeaves ==
  ASSUME NEW r \in Runners, Returning(r)
  PROVE  UNCHANGED <<setting, week, published, row, linked, sys, usr, scored, shops, wanted, flag, user,
                     cache, memo, reader, extras>>
BY DEF Returning, CheckFlag, Unlock, site, db, stock, reads

LEMMA AnalysingLeaves ==
  ASSUME NEW r \in Runners, Analysing(r)
  PROVE  UNCHANGED <<setting, week, published, row, usr, shops, wanted, fetcher, user, memo, reader>>
BY DEF Analysing, HandleDrawn, SetFlag, FindNumbers, LinkNumbers, FindKeys, Predict,
       FindUnscored, Score, Unflag, RunFails, site, db, stock, reads

LEMMA ShoppingLeaves ==
  ASSUME Shopping
  PROVE  UNCHANGED <<setting, week, published, row, linked, sys, usr, scored, site, run, user,
                     cache, memo, reader>>
BY DEF Shopping, StoreShops, AskShops, StoreWanted, FindShops, site, db, stock, reads

LEMMA UsingLeaves ==
  ASSUME Using
  PROVE  UNCHANGED <<setting, week, published, row, linked, sys, scored, shops, wanted, site, fetcher,
                     run, cache, memo, reader, extras>>
BY DEF Using, FindLatest, CreatePrediction, site, db, stock, reads

LEMMA ReadingLeaves ==
  ASSUME Reading
  PROVE  UNCHANGED <<setting, week, published, row, linked, sys, usr, scored, shops, wanted, site,
                     fetcher, run, user, extras>>
BY DEF Reading, Read, Expire, Fill, Forget, site, db, stock, reads

LEMMA SitingLeaves ==
  ASSUME Siting
  PROVE  UNCHANGED <<setting, week, published, row, linked, sys, usr, scored, shops, wanted,
                     fetcher, run, user, cache, memo, reader, extras>>
BY DEF Siting, SyncFromRedis, ToggleStatus, LockExpires, FlagExpires, site, db, stock, reads

LEMMA OthersLeave ==
  /\ Publish => UNCHANGED <<setting, week, row, linked, sys, usr, scored, shops, wanted, site,
                            fetcher, run, user, cache, memo, reader, extras>>
  /\ Analyze => UNCHANGED <<setting, week, published, row, linked, sys, usr, scored, shops, wanted,
                            site, fetcher, user, cache, memo, reader>>
  /\ Crash => UNCHANGED <<setting, week, published, row, linked, sys, usr, scored, shops, wanted,
                          flag, user, cache, memo, reader>>
BY DEF Publish, Analyze, Crash, site, db, stock, reads

-----------------------------------------------------------------------------
(* Numbers and the latest draw.                                            *)

LEMMA Numbers ==
  ASSUME Bounds
  PROVE  /\ MaxWeeks \in Nat /\ MaxWeeks > 0 /\ MaxAttempts \in Nat /\ MaxAttempts > 0
         /\ week \in Nat /\ week <= MaxWeeks
         /\ published \in Nat /\ 1 <= published /\ published <= week + 1
BY DrawAssumption DEF Bounds

\* Of the subsets of a finite set some one is least among any of them.
LEMMA SmallestSubset ==
  ASSUME NEW S, IsFiniteSet(S), NEW T, T \subseteq SUBSET S, T # {}
  PROVE  \E U \in T : \A V \in T : V \subseteq U => V = U
<1>1. IsWellFoundedOn(StrictSubsetOrdering(S), SUBSET S)
  BY FS_StrictSubsetOrderingWellFounded, FS_FiniteSubsetsOfFinite
<1>2. \E U \in T : \A V \in T : ~ (<<V, U>> \in StrictSubsetOrdering(S))
  BY <1>1, WFMin
<1> QED
  BY <1>2 DEF StrictSubsetOrdering

LEMMA MaximumOfSet ==
  ASSUME NEW S, IsFiniteSet(S), S # {},
         \A k, m, q \in S : k >= q /\ q > m => k >= m /\ k # m,
         \A k, m \in S : k <= m \/ k > m, \A m \in S : m >= m
  PROVE  \E m \in S : \A q \in S : q <= m
<1> DEFINE From(m) == {k \in S : k >= m}
           T == {From(m) : m \in S}
<1>1. T \subseteq SUBSET S
  OBVIOUS
<1>2. T # {}
  <2>1. PICK m \in S : TRUE
    OBVIOUS
  <2>2. From(m) \in T
    OBVIOUS
  <2> QED
    BY <2>2
<1> HIDE DEF T
<1>3. PICK U \in T : \A V \in T : V \subseteq U => V = U
  BY <1>1, <1>2, SmallestSubset
<1>4. PICK m \in S : U = From(m)
  BY DEF T
<1>5. ASSUME NEW q \in S, q > m PROVE FALSE
  <2>1. From(q) \in T
    BY DEF T
  <2>2. From(q) \subseteq From(m)
    BY <1>5
  <2>3. m \in From(m) /\ m \notin From(q)
    BY <1>5
  <2> QED
    BY <1>3, <1>4, <2>1, <2>2, <2>3
<1> QED
  BY <1>5

LEMMA MaximumIs ==
  ASSUME NEW n \in Nat, NEW S, S \subseteq 0..n, S # {}
  PROVE  \E m \in S : \A q \in S : q <= m
<1>1. IsFiniteSet(0..n)
  BY FS_Interval
<1>2. IsFiniteSet(S)
  BY <1>1, FS_Subset
<1>3. S \subseteq Int
  OBVIOUS
<1>4. /\ \A k, m, q \in S : k >= q /\ q > m => k >= m /\ k # m
      /\ \A k, m \in S : k <= m \/ k > m
      /\ \A m \in S : m >= m
  BY <1>3
<1> QED
  BY <1>2, <1>4, MaximumOfSet

LEMMA LatestIsLast ==
  ASSUME Bounds, RowsOK
  PROVE  Latest \in Drawn /\ Latest \in 1..published /\ \A d \in Drawn : d <= Latest
<1>1. Drawn \subseteq 0..published /\ Drawn # {}
  BY Numbers DEF RowsOK, Drawn, Episodes
<1>2. \E m \in Drawn : \A q \in Drawn : q <= m
  BY <1>1, Numbers, MaximumIs
<1> QED
  BY <1>2 DEF Latest, RowsOK

-----------------------------------------------------------------------------
(* Bounds.                                                                 *)

LEMMA SiteIsBoolean ==
  ASSUME Bounds, Next
  PROVE  {flag', locked', shown'} \subseteq BOOLEAN
<1>1. {flag, locked, shown} \subseteq BOOLEAN
  BY DEF Bounds
<1>2. CASE Storing
  BY <1>1, <1>2, StoringLeaves DEF site
<1>3. CASE Fetching
  BY <1>1, <1>3 DEF Fetching, Saturday, Resync, ClearAll, Compare, FetchShops, Retry,
     FetchFails, Fetch, Find, SetAnalysisStatus, UpdateProgress, site
<1>4. CASE Shopping \/ Using \/ Reading \/ Publish \/ Analyze
  BY <1>1, <1>4, ShoppingLeaves, UsingLeaves, ReadingLeaves, OthersLeave DEF site
<1>5. CASE Siting
  BY <1>1, <1>5 DEF Siting, SyncFromRedis, ToggleStatus, LockExpires, FlagExpires,
     SetAnalysisStatus
<1>6. CASE Crash
  BY <1>1, <1>6 DEF Crash
<1>7. ASSUME NEW r \in Runners, Returning(r) PROVE {flag', locked', shown'} \subseteq BOOLEAN
  BY <1>1, <1>7 DEF Returning, CheckFlag, Unlock, SetAnalysisStatus, site
<1>8. ASSUME NEW r \in Runners, Analysing(r) PROVE {flag', locked', shown'} \subseteq BOOLEAN
  BY <1>1, <1>8 DEF Analysing, HandleDrawn, SetFlag, FindNumbers, LinkNumbers, FindKeys,
     Predict, FindUnscored, Score, Unflag, RunFails, SetAnalysisStatus, UpdateProgress, site
<1> QED
  BY <1>2, <1>3, <1>4, <1>5, <1>6, <1>7, <1>8, NextIs

LEMMA ExtrasAreFew ==
  ASSUME Bounds, Next
  PROVE  extras' \in 0..MaxExtras
<1>1. extras \in 0..MaxExtras /\ MaxExtras \in Nat
  BY DrawAssumption DEF Bounds
<1>2. Extra => extras' \in 0..MaxExtras
  BY <1>1 DEF Extra
<1>3. CASE Storing \/ Using \/ Reading \/ Siting \/ Publish
  BY <1>1, <1>3, StoringLeaves, UsingLeaves, ReadingLeaves, SitingLeaves, OthersLeave
<1>7. CASE Shopping
  BY <1>1, <1>2, <1>7 DEF Shopping, StoreShops, AskShops, StoreWanted, FindShops
<1>4. CASE Fetching
  BY <1>1, <1>2, <1>4 DEF Fetching, Saturday, Resync, ClearAll, Compare, FetchShops, Retry,
     FetchFails, Fetch, Find, CanFail
<1>5. CASE Analyze \/ Crash
  BY <1>2, <1>5 DEF Analyze, Crash, CanFail
<1>6. ASSUME NEW r \in Runners, Returning(r) \/ Analysing(r) PROVE extras' \in 0..MaxExtras
  BY <1>1, <1>2, <1>6, ReturningLeaves DEF Analysing, HandleDrawn, SetFlag, FindNumbers,
     LinkNumbers, FindKeys, Predict, FindUnscored, Score, Unflag, RunFails, CanFail
<1> QED
  BY <1>3, <1>4, <1>5, <1>6, <1>7, NextIs

\* The calendar: only its two steps move it, and those of the job that wait for it
\* do not.
LEMMA WeekMoves ==
  ASSUME Next
  PROVE  \/ UNCHANGED week
         \/ Saturday
<1>1. ASSUME Fetching PROVE UNCHANGED week \/ Saturday
  BY <1>1 DEF Fetching, Resync, ClearAll, Compare, FetchShops, Retry, FetchFails, Fetch, Find
<1> QED
  BY <1>1, NextIs, StoringLeaves, ShoppingLeaves, UsingLeaves, ReadingLeaves, SitingLeaves,
     OthersLeave, ReturningLeaves, AnalysingLeaves

LEMMA PublishedMoves ==
  ASSUME Next
  PROVE  UNCHANGED published \/ Publish
BY NextIs, StoringLeaves, FetchingLeaves, ShoppingLeaves, UsingLeaves, ReadingLeaves,
   SitingLeaves, OthersLeave, ReturningLeaves, AnalysingLeaves

LEMMA SettingStays ==
  ASSUME Next
  PROVE  UNCHANGED setting
BY NextIs, StoringLeaves, FetchingLeaves, ShoppingLeaves, UsingLeaves, ReadingLeaves,
   SitingLeaves, OthersLeave, ReturningLeaves, AnalysingLeaves

LEMMA BoundsKept ==
  ASSUME Bounds, Next
  PROVE  /\ Bounds' /\ week <= week' /\ published <= published'
         /\ week' \in Nat /\ published' \in Nat /\ published' >= 1
         /\ published' <= week' + 1
<1>1. setting' \in Settings
  BY SettingStays DEF Bounds
<1>2. CASE UNCHANGED <<week, published>>
  BY <1>1, <1>2, SiteIsBoolean, ExtrasAreFew, Numbers DEF Bounds
<1>3. CASE Saturday
  <2>1. week' = week + 1 /\ week < MaxWeeks /\ published' = published
    BY <1>3 DEF Saturday
  <2> QED
    BY <1>1, <2>1, SiteIsBoolean, ExtrasAreFew, Numbers DEF Bounds
<1>4. CASE Publish
  <2>1. published' = published + 1 /\ published <= week /\ week' = week
    BY <1>4 DEF Publish
  <2> QED
    BY <1>1, <2>1, SiteIsBoolean, ExtrasAreFew, Numbers DEF Bounds
<1> QED
  BY <1>2, <1>3, <1>4, WeekMoves, PublishedMoves, FetchingLeaves, OthersLeave DEF Fetching

-----------------------------------------------------------------------------
(* Rows.                                                                   *)

\* The row a fetcher is about to mark as coming is not that of a draw.
LEMMA ComingIsNotDrawn ==
  ASSUME IInv, NEW f \in Fetchers, fetcher[f].at = "placeholder"
  PROVE  /\ fetcher[f].e \in 1..published /\ fetcher[f].e \in Episodes
         /\ fetcher[f].e + 1 \in Episodes /\ fetcher[f].e + 1 \notin Drawn
<1>1. Bounds /\ RowsOK /\ FetcherOK(fetcher[f])
  BY DEF IInv, FetchersOK
<1>2. fetcher[f].e \in 1..published
  BY <1>1, Numbers DEF FetchSteps, FetcherOK
<1>3. fetcher[f].e \in Episodes /\ fetcher[f].e + 1 \in Episodes
  BY <1>1, <1>2, Numbers DEF Episodes
<1>4. CASE setting = "faults"
  <2>1. f = "job"
    BY <1>4 DEF IInv, FetchersOK, NoFetch, Fetchers
  <2>2. Drawn \subseteq 1..fetcher[f].e
    BY <1>4, <2>1 DEF IInv, LastIsFetched
  <2> QED
    BY <1>2, <1>3, <2>2
<1>5. CASE setting # "faults"
  <2>1. fetcher[f].e = week + 1
    BY <1>5 DEF IInv, Upcoming, NoneMissed
  <2>2. Drawn \subseteq 1..published
    BY <1>1 DEF RowsOK
  <2> QED
    BY <1>1, <1>2, <1>3, <2>1, <2>2, Numbers
<1> QED
  BY <1>4, <1>5

LEMMA StoringPage ==
  ASSUME IInv, StorePage
  PROVE  /\ row' \in [Episodes -> {"none", "placeholder", "drawn"}]
         /\ \E D \in SUBSET (1..(published - 1)) : Drawn' = Drawn \cup D
<1>1. /\ RowsOK /\ fetcher["resync"].at = "pages"
      /\ fetcher["resync"].todo \subseteq 1..(published - 1)
  BY DEF IInv, FetchersOK, FetcherOK, StorePage, Fetchers
<1>2. 1..(published - 1) \subseteq Episodes
  BY Numbers DEF IInv, Episodes
<1>3. CASE fetcher["resync"].todo = {}
  <2>1. row' = row
    BY <1>3 DEF StorePage
  <2>2. Drawn' = Drawn \cup {}
    BY <2>1 DEF Drawn
  <2> QED
    BY <1>1, <2>1, <2>2 DEF RowsOK
<1>4. CASE fetcher["resync"].todo # {}
  <2>1. PICK e \in fetcher["resync"].todo : row' = [row EXCEPT ![e] = "drawn"]
    BY <1>4 DEF StorePage
  <2>2. e \in Episodes /\ {e} \in SUBSET (1..(published - 1))
    BY <1>1, <1>2
  <2>3. Drawn' = Drawn \cup {e}
    BY <1>1, <2>1, <2>2 DEF Drawn, RowsOK
  <2>4. row' \in [Episodes -> {"none", "placeholder", "drawn"}]
    BY <1>1, <2>1 DEF RowsOK
  <2> QED
    BY <2>2, <2>3, <2>4
<1> QED
  BY <1>3, <1>4

LEMMA StoringDraw ==
  ASSUME IInv, NEW f \in Fetchers, StoreDraw(f)
  PROVE  /\ row' \in [Episodes -> {"none", "placeholder", "drawn"}]
         /\ fetcher[f].e \in 1..published /\ fetcher[f].e \in Episodes
         /\ Drawn' = Drawn \cup {fetcher[f].e}
<1>1. Bounds /\ RowsOK /\ FetcherOK(fetcher[f]) /\ fetcher[f].at = "store"
  BY DEF IInv, FetchersOK, StoreDraw
<1>2. fetcher[f].e \in 1..published
  BY <1>1, Numbers DEF FetchSteps, FetcherOK
<1>3. fetcher[f].e \in Episodes
  BY <1>1, <1>2, Numbers DEF Episodes
<1>4. row' = [row EXCEPT ![fetcher[f].e] = "drawn"]
  BY DEF StoreDraw
<1> QED
  BY <1>1, <1>2, <1>3, <1>4 DEF RowsOK, Drawn

LEMMA StoringPlaceholder ==
  ASSUME IInv, NEW f \in Fetchers, StorePlaceholder(f)
  PROVE  /\ row' \in [Episodes -> {"none", "placeholder", "drawn"}]
         /\ row' = [row EXCEPT ![fetcher[f].e + 1] = "placeholder"]
         /\ Drawn' = Drawn
<1>1. row' = [row EXCEPT ![fetcher[f].e + 1] = "placeholder"] /\ RowsOK
  BY DEF StorePlaceholder, IInv
<1>2. fetcher[f].e + 1 \in Episodes /\ fetcher[f].e + 1 \notin Drawn
  BY ComingIsNotDrawn DEF StorePlaceholder
<1> QED
  BY <1>1, <1>2 DEF RowsOK, Drawn

LEMMA RowsMove ==
  ASSUME Next
  PROVE  UNCHANGED row \/ Storing
BY NextIs, FetchingLeaves, ShoppingLeaves, UsingLeaves, ReadingLeaves,
   SitingLeaves, OthersLeave, ReturningLeaves, AnalysingLeaves

\* A draw that is stored stays.
LEMMA DrawsStay ==
  ASSUME IInv, Next
  PROVE  /\ row' \in [Episodes -> {"none", "placeholder", "drawn"}]
         /\ Drawn \subseteq Drawn' /\ Drawn' \subseteq 1..published
<1>1. RowsOK /\ Bounds
  BY DEF IInv
<1>2. CASE UNCHANGED row
  BY <1>1, <1>2 DEF RowsOK, Drawn
<1>3. CASE StorePage
  <2>1. PICK D \in SUBSET (1..(published - 1)) : Drawn' = Drawn \cup D
    BY <1>3, StoringPage
  <2>2. D \subseteq 1..published
    BY <1>1, Numbers
  <2> QED
    BY <1>1, <1>3, <2>1, <2>2, StoringPage DEF RowsOK
<1>4. ASSUME NEW f \in Fetchers, StoreDraw(f)
      PROVE  /\ row' \in [Episodes -> {"none", "placeholder", "drawn"}]
             /\ Drawn \subseteq Drawn' /\ Drawn' \subseteq 1..published
  BY <1>1, <1>4, StoringDraw DEF RowsOK
<1>5. ASSUME NEW f \in Fetchers, StorePlaceholder(f)
      PROVE  /\ row' \in [Episodes -> {"none", "placeholder", "drawn"}]
             /\ Drawn \subseteq Drawn' /\ Drawn' \subseteq 1..published
  BY <1>1, <1>5, StoringPlaceholder DEF RowsOK
<1> QED
  BY <1>2, <1>3, <1>4, <1>5, RowsMove DEF Storing

LEMMA LinkedMoves ==
  ASSUME Next
  PROVE  UNCHANGED linked \/ \E r \in Runners : LinkNumbers(r)
<1>1. ASSUME NEW r \in Runners, Analysing(r) PROVE UNCHANGED linked \/ LinkNumbers(r)
  BY <1>1 DEF Analysing, HandleDrawn, SetFlag, FindNumbers, FindKeys, Predict, FindUnscored,
     Score, Unflag, RunFails, db
<1> QED
  BY <1>1, NextIs, StoringLeaves, FetchingLeaves, ShoppingLeaves, UsingLeaves, ReadingLeaves,
   SitingLeaves, OthersLeave, ReturningLeaves

LEMMA RowsKept ==
  ASSUME IInv, Next
  PROVE  RowsOK'
<1>1. RowsOK /\ Bounds /\ published <= published' /\ Bounds'
  BY BoundsKept DEF IInv
<1>2. Drawn' \subseteq 1..published'
  BY <1>1, DrawsStay, Numbers DEF Bounds
<1>3. row'[1] = "drawn"
  <2>1. 1 \in Drawn
    BY <1>1, Numbers DEF RowsOK, Drawn, Episodes
  <2> QED
    BY <2>1, DrawsStay DEF Drawn
<1>4. linked' \subseteq Drawn'
  <2>1. ASSUME NEW r \in Runners, LinkNumbers(r) PROVE linked' \subseteq Drawn
    BY <1>1, <2>1 DEF LinkNumbers, RowsOK, IInv, RunsOK, RunOK
  <2> QED
    BY <1>1, <2>1, LinkedMoves, DrawsStay DEF RowsOK
<1>5. Rows' \subseteq 1..(week' + 2)
  <2>1. ASSUME NEW e \in Episodes, row'[e] # "none" PROVE e \in 1..(week' + 2)
    <3>1. PICK v \in Nat : v = week'
      BY <1>1, BoundsKept
    <3>5. PICK p \in Nat : p = published' /\ p <= v + 1
      BY <1>1, <3>1, BoundsKept DEF Bounds
    <3>6. week \in Nat /\ week <= v
      BY <1>1, <3>1, BoundsKept, Numbers
    <3> SUFFICES e \in 1..(v + 2)
      BY <3>1
    <3>2. CASE row[e] # "none"
      <4>1. e \in 1..(week + 2)
        BY <1>1, <3>2 DEF RowsOK, Rows
      <4> QED
        BY <3>6, <4>1
    <3>3. CASE row'[e] = "drawn"
      <4>1. e \in 1..p
        BY <1>2, <3>3, <3>5 DEF Drawn
      <4> QED
        BY <3>5, <4>1
    <3>4. CASE row[e] = "none" /\ row'[e] # "drawn"
      <4>1. PICK f \in Fetchers : StorePlaceholder(f)
        <5>1. row \in [Episodes -> {"none", "placeholder", "drawn"}]
          BY <1>1 DEF RowsOK
        <5>2. ~ StorePage /\ \A f \in Fetchers : ~ StoreDraw(f)
          BY <2>1, <3>4, <5>1 DEF StorePage, StoreDraw
        <5> QED
          BY <2>1, <3>4, <5>2, RowsMove DEF Storing
      <4>2. row' = [row EXCEPT ![fetcher[f].e + 1] = "placeholder"]
            /\ fetcher[f].at = "placeholder"
        BY <4>1 DEF StorePlaceholder
      <4>3. e = fetcher[f].e + 1
        BY <2>1, <3>4, <4>2 DEF IInv, RowsOK
      <4>4. fetcher[f].e \in 1..published /\ published \in Nat /\ published <= week + 1
        BY <1>1, <4>2, ComingIsNotDrawn, Numbers
      <4> QED
        BY <3>6, <4>3, <4>4
    <3> QED
      BY <3>2, <3>3, <3>4
  <2> QED
    BY <2>1 DEF Rows
<1> QED
  BY <1>2, <1>3, <1>4, <1>5, DrawsStay DEF RowsOK

-----------------------------------------------------------------------------
(* Counts.                                                                 *)

LEMMA PredictionsMove ==
  ASSUME Next
  PROVE  /\ UNCHANGED sys \/ \E r \in Runners : Predict(r)
         /\ UNCHANGED usr \/ CreatePrediction
         /\ UNCHANGED scored \/ \E r \in Runners : Score(r)
         /\ UNCHANGED <<shops, wanted>> \/ Shopping
<1>1. ASSUME NEW r \in Runners, Analysing(r)
      PROVE  /\ UNCHANGED sys \/ Predict(r)
             /\ UNCHANGED scored \/ Score(r)
  BY <1>1 DEF Analysing, HandleDrawn, SetFlag, FindNumbers, LinkNumbers, FindKeys, Predict,
     FindUnscored, Score, Unflag, RunFails, db
<1>2. ASSUME Using PROVE UNCHANGED usr \/ CreatePrediction
  BY <1>2 DEF Using, FindLatest, db
<1>3. \A r \in Runners : Analysing(r) => UNCHANGED <<usr, shops, wanted>>
  BY AnalysingLeaves
<1>4. \A r \in Runners : Returning(r) => UNCHANGED <<sys, usr, scored, shops, wanted>>
  BY ReturningLeaves
<1> QED
  BY <1>1, <1>2, <1>3, <1>4, NextIs, StoringLeaves, FetchingLeaves, ShoppingLeaves,
     UsingLeaves, ReadingLeaves, SitingLeaves, OthersLeave

LEMMA Predicting ==
  ASSUME IInv, NEW r \in Runners, Predict(r)
  PROVE  \/ sys' = sys /\ run' = [run EXCEPT ![r].at = "findUnscored"] /\ run[r].todo = {}
         \/ \E e \in run[r].todo : /\ e \in Episodes
                                  /\ sys' = [sys EXCEPT ![e] = @ + 1]
                                  /\ run' = [run EXCEPT ![r].todo = @ \ {e}]
<1>1. run[r].todo \subseteq Episodes
  BY DEF Predict, IInv, RunsOK, RunOK
<1> QED
  BY <1>1 DEF Predict, RunGoes

\* Predictions are never removed.
LEMMA PredictionsStay ==
  ASSUME IInv, Next
  PROVE  /\ sys' \in [Episodes -> Nat] /\ usr' \in [Episodes -> Nat]
         /\ \A e \in Episodes : Total(e) \in Nat /\ Total(e)' \in Nat /\ Total(e) <= Total(e)'
<1>1. sys \in [Episodes -> Nat] /\ usr \in [Episodes -> Nat]
  BY DEF IInv, CountsOK
<1>2. sys' \in [Episodes -> Nat] /\ \A e \in Episodes : sys[e] <= sys'[e]
  <2>1. CASE UNCHANGED sys
    BY <1>1, <2>1
  <2>2. ASSUME NEW r \in Runners, Predict(r), UNCHANGED sys \/ ~ UNCHANGED sys
        PROVE  sys' \in [Episodes -> Nat] /\ \A e \in Episodes : sys[e] <= sys'[e]
    <3>1. CASE UNCHANGED sys
      BY <1>1, <3>1
    <3>2. CASE ~ UNCHANGED sys
      <4>1. PICK e \in Episodes : sys' = [sys EXCEPT ![e] = @ + 1]
        BY <2>2, <3>2, Predicting
      <4> QED
        BY <1>1, <4>1
    <3> QED
      BY <3>1, <3>2
  <2> QED
    BY <2>1, <2>2, PredictionsMove
<1>3. usr' \in [Episodes -> Nat] /\ \A e \in Episodes : usr[e] <= usr'[e]
  <2>1. CASE UNCHANGED usr
    BY <1>1, <2>1
  <2>2. CASE CreatePrediction
    <3>1. user.e \in Episodes
      BY <2>2 DEF CreatePrediction, IInv, UserOK
    <3>2. usr' = [usr EXCEPT ![user.e] = @ + (IF row[user.e] = "none" THEN 0 ELSE 1)]
      BY <2>2 DEF CreatePrediction
    <3>3. (IF row[user.e] = "none" THEN 0 ELSE 1) \in {0, 1}
      OBVIOUS
    <3> QED
      BY <1>1, <3>1, <3>2, <3>3
  <2> QED
    BY <2>1, <2>2, PredictionsMove
<1> QED
  BY <1>1, <1>2, <1>3 DEF Total

LEMMA GreatestIsOne ==
  ASSUME NEW n \in Nat, NEW S, S \subseteq 0..n, S # {}
  PROVE  (CHOOSE m \in S : \A k \in S : k <= m) \in S
BY MaximumIs

LEMMA Scoring ==
  ASSUME IInv, NEW r \in Runners, Score(r)
  PROVE  scored' \in [Episodes -> Nat] /\ \A e \in Episodes : scored'[e] <= Total(e)
<1> DEFINE Found(e) == {p[2] : p \in {q \in run[r].todo : q[1] = e}}
           S(e) == Found(e) \cup {scored[e]}
           Most(e) == CHOOSE n \in S(e) : \A k \in S(e) : k <= n
<1>1. scored' = [e \in Episodes |-> Most(e)]
  BY DEF Score
<1>2. /\ run[r].todo \subseteq Episodes \X Nat
      /\ \A p \in run[r].todo : p[2] <= Total(p[1])
  BY DEF Score, IInv, RunsOK, RunOK
<1>3. /\ sys \in [Episodes -> Nat] /\ usr \in [Episodes -> Nat] /\ scored \in [Episodes -> Nat]
      /\ \A e \in Episodes : scored[e] <= Total(e)
  BY DEF IInv, CountsOK
<1>4. ASSUME NEW e \in Episodes
      PROVE  Most(e) \in 0..Total(e)
  <2>1. Total(e) \in Nat
    BY <1>3 DEF Total
  <2>2. \A p \in run[r].todo : p[1] = e => p[2] \in 0..Total(e)
    BY <1>2, <2>1
  <2>3. scored[e] \in 0..Total(e)
    BY <1>3, <2>1
  <2>4. S(e) \subseteq 0..Total(e) /\ S(e) # {}
    BY <2>2, <2>3
  <2> HIDE DEF S
  <2> QED
    BY <2>1, <2>4, GreatestIsOne
<1> HIDE DEF Most
<1>5. \A e \in Episodes : Total(e) \in Nat
  BY <1>3 DEF Total
<1> QED
  BY <1>1, <1>4, <1>5

LEMMA CountsKept ==
  ASSUME IInv, Next
  PROVE  CountsOK'
<1>1. /\ {sys, usr, scored, shops} \subseteq [Episodes -> Nat]
      /\ wanted \subseteq Episodes
      /\ \A e \in Episodes : scored[e] <= Total(e)
  BY DEF IInv, CountsOK
<1>2. shops' \in [Episodes -> Nat] /\ wanted' \subseteq Episodes
  <2>1. ASSUME NEW e \in Episodes, StoreShopsOf(e) PROVE shops' \in [Episodes -> Nat]
    BY <1>1, <2>1 DEF StoreShopsOf
  <2>2. CASE StoreShops
    <3>1. fetcher["job"].todo \subseteq Episodes
      BY DEF IInv, FetchersOK, FetcherOK, Fetchers
    <3>2. UNCHANGED shops \/ \E e \in Episodes : StoreShopsOf(e)
      BY <2>2, <3>1 DEF StoreShops
    <3>3. wanted' = wanted
      BY <2>2 DEF StoreShops
    <3> QED
      BY <1>1, <2>1, <3>2, <3>3
  <2>3. ASSUME NEW e \in Episodes, FindShops(e)
        PROVE  shops' \in [Episodes -> Nat] /\ wanted' \subseteq Episodes
    BY <1>1, <2>3 DEF FindShops
  <2>4. CASE AskShops
    BY <1>1, <2>4 DEF AskShops, MissingShops, Drawn
  <2>5. CASE StoreWanted
    <3>1. PICK e \in wanted : StoreShopsOf(e) /\ wanted' = wanted \ {e}
      BY <2>5 DEF StoreWanted
    <3> QED
      BY <1>1, <2>1, <3>1
  <2> QED
    BY <1>1, <2>2, <2>3, <2>4, <2>5, PredictionsMove DEF Shopping
<1>3. scored' \in [Episodes -> Nat] /\ \A e \in Episodes : scored'[e] <= Total(e)
  BY <1>1, PredictionsMove, Scoring
<1>4. \A e \in Episodes : scored'[e] <= Total(e)'
  BY <1>3, PredictionsStay
<1> QED
  BY <1>2, <1>3, <1>4, PredictionsStay DEF CountsOK

-----------------------------------------------------------------------------
(* Fetchers.                                                               *)

Asking == {"compare", "find", "store", "placeholder"}

LEMMA NoFetchIsOK == Bounds => FetcherOK(NoFetch)
BY Numbers DEF FetchSteps, FetcherOK, NoFetch

\* One fetcher moves, and the other stays.
LEMMA FetcherMoves ==
  ASSUME IInv, Next, NEW f \in Fetchers, f = "job" \/ setting = "manual",
         DOMAIN fetcher' = Fetchers,
         \A g \in Fetchers : g # f => fetcher'[g] = fetcher[g],
         FetcherOK(fetcher[f])'
  PROVE  FetchersOK'
<1>1. Bounds /\ FetchersOK /\ published <= published' /\ Bounds'
  BY BoundsKept DEF IInv
<1>2. ASSUME NEW g \in Fetchers, g # f PROVE FetcherOK(fetcher[g])'
  <2>1. FetcherOK(fetcher[g]) /\ fetcher'[g] = fetcher[g]
    BY <1>1, <1>2 DEF FetchersOK
  <2> QED
    BY <1>1, <2>1, Numbers DEF FetchSteps, FetcherOK, Bounds
<1>3. (\A g \in Fetchers : FetcherOK(fetcher[g]))'
  BY <1>2
<1>4. setting' # "manual" => fetcher'["resync"] = NoFetch
  BY <1>1, SettingStays DEF FetchersOK, Fetchers
<1> QED
  BY <1>3, <1>4 DEF FetchersOK

\* Where it is changes, not what it holds.
LEMMA FetcherGoes ==
  ASSUME IInv, Next, NEW f \in Fetchers, f = "job" \/ setting = "manual",
         NEW x \in FetchSteps, FetchGoes(f, x), x # "pages", x \in Asking => fetcher[f].e > 0
  PROVE  FetchersOK'
<1>1. Bounds /\ FetchersOK /\ FetcherOK(fetcher[f]) /\ published <= published' /\ Bounds'
  BY BoundsKept DEF IInv, FetchersOK
<1>2. fetcher'[f] = [fetcher[f] EXCEPT !.at = x] /\ DOMAIN fetcher' = Fetchers
  BY <1>1 DEF FetchGoes, FetchersOK
<1>3. \A g \in Fetchers : g # f => fetcher'[g] = fetcher[g]
  BY <1>1 DEF FetchGoes, FetchersOK
<1>4. FetcherOK(fetcher[f])'
  BY <1>1, <1>2, Numbers DEF FetchSteps, FetcherOK, Bounds, Asking, FetchSteps
<1> QED
  BY <1>2, <1>3, <1>4, FetcherMoves

LEMMA FetcherEnds ==
  ASSUME IInv, Next, NEW f \in Fetchers, f = "job" \/ setting = "manual",
         fetcher' = [fetcher EXCEPT ![f] = NoFetch]
  PROVE  FetchersOK'
<1>1. fetcher'[f] = NoFetch /\ DOMAIN fetcher' = Fetchers
  BY DEF IInv, FetchersOK
<1>2. published' \in Nat /\ MaxAttempts \in Nat
  BY BoundsKept, Numbers DEF IInv
<1>3. FetcherOK(fetcher[f])'
  BY <1>1, <1>2 DEF FetchSteps, FetcherOK, NoFetch
<1> QED
  BY <1>1, <1>3, FetcherMoves DEF IInv, FetchersOK

\* Only a manager's synchronisation is found elsewhere than idle but for the job.
LEMMA WhoFetches ==
  ASSUME IInv, NEW f \in Fetchers, fetcher[f].at # "idle"
  PROVE  f = "job" \/ setting = "manual"
BY DEF IInv, FetchersOK, Fetchers, NoFetch

LEMMA AskingHas ==
  ASSUME IInv, NEW f \in Fetchers, fetcher[f].at \in Asking
  PROVE  fetcher[f].e > 0
BY DEF IInv, FetchersOK, FetcherOK, Asking, FetchSteps

LEMMA FetcherIs ==
  ASSUME IInv, NEW f \in Fetchers
  PROVE  /\ DOMAIN fetcher = Fetchers /\ FetcherOK(fetcher[f])
         /\ fetcher[f] \in [at : FetchSteps, e : 0..published, todo : SUBSET Episodes,
                            attempt : 0..MaxAttempts]
BY DEF IInv, FetchersOK, FetcherOK

LEMMA ReturnsOK ==
  ASSUME IInv, Next, NEW r \in Runners, Returning(r)
  PROVE  FetchersOK'
<1>1. CASE fetcher' = fetcher
  BY <1>1, FetcherIs, FetcherMoves, ReturningLeaves DEF Fetchers, FetcherOK
<1>2. CASE FetchGoes("job", "shops")
  BY <1>2, FetcherGoes DEF Fetchers, Asking, FetchSteps
<1>3. CASE FetchGoes("job", "wait")
  BY <1>3, FetcherGoes DEF Fetchers, Asking, FetchSteps
<1> QED
  BY <1>1, <1>2, <1>3 DEF Returning, CheckFlag, Unlock, Returns

LEMMA FetchersSame ==
  ASSUME IInv, Next, UNCHANGED fetcher
  PROVE  FetchersOK'
<1>1. published <= published' /\ Bounds /\ Bounds'
  BY BoundsKept DEF IInv
<1>2. FetcherOK(fetcher["job"])'
  BY <1>1, FetcherIs, Numbers DEF FetchSteps, FetcherOK, Bounds, Fetchers
<1> QED
  BY <1>2, FetcherIs, FetcherMoves DEF Fetchers

LEMMA FetchingOK ==
  ASSUME IInv, Next, Fetching
  PROVE  FetchersOK'
<1>0. /\ Bounds /\ Bounds' /\ published' = published /\ DOMAIN fetcher = Fetchers
      /\ "job" \in Fetchers /\ "resync" \in Fetchers
  BY BoundsKept, FetchingLeaves DEF IInv, FetchersOK, Fetchers
<1>1. CASE Saturday
  <2>1. fetcher' = [fetcher EXCEPT !["job"] = [NoFetch EXCEPT !.at = "fetch", !.attempt = 1]]
    BY <1>1 DEF Saturday
  <2>2. fetcher'["job"] = [at |-> "fetch", e |-> 0, todo |-> {}, attempt |-> 1]
    BY <1>0, <2>1 DEF NoFetch
  <2>3. FetcherOK(fetcher["job"])'
    BY <1>0, <2>2, Numbers DEF FetchSteps, FetcherOK
  <2> QED
    BY <1>0, <2>1, <2>3, FetcherMoves
<1>2. CASE Resync
  <2>1. PICK latest \in 1..published :
            /\ setting = "manual"
            /\ fetcher' = [fetcher EXCEPT !["resync"] =
                              [NoFetch EXCEPT !.at = "pages", !.todo = 1..(latest - 1)]]
    BY <1>2 DEF Resync
  <2>2. fetcher'["resync"] = [at |-> "pages", e |-> 0, todo |-> 1..(latest - 1), attempt |-> 0]
    BY <1>0, <2>1 DEF NoFetch
  <2>3. 1..(latest - 1) \subseteq Episodes /\ 1..(latest - 1) \subseteq 1..(published - 1)
    BY <1>0, Numbers DEF Episodes
  <2>4. FetcherOK(fetcher["resync"])'
    BY <1>0, <2>2, <2>3, Numbers DEF FetchSteps, FetcherOK
  <2> QED
    BY <1>0, <2>1, <2>4, FetcherMoves
<1>3. CASE ClearAll
  <2>1. fetcher' = [fetcher EXCEPT !["resync"] = NoFetch] /\ fetcher["resync"].at # "idle"
    BY <1>3 DEF ClearAll
  <2> QED
    BY <1>0, <2>1, WhoFetches, FetcherEnds
<1>4. CASE Compare
  <2>1. FetchGoes("job", "wait") \/ FetchGoes("job", "find")
    BY <1>4 DEF Compare
  <2>2. fetcher["job"].e > 0
    BY <1>0, <1>4, AskingHas DEF Compare, Asking, FetchSteps
  <2> QED
    BY <1>0, <2>1, <2>2, FetcherGoes DEF Asking, FetchSteps
<1>5. CASE FetchShops
  <2>1. fetcher' = [fetcher EXCEPT !["job"].at = "storeShops", !["job"].todo = MissingShops]
    BY <1>5 DEF FetchShops
  <2>2. fetcher'["job"] = [fetcher["job"] EXCEPT !.at = "storeShops", !.todo = MissingShops]
    BY <1>0, <2>1
  <2>3. MissingShops \subseteq Episodes
    BY DEF MissingShops, Drawn
  <2>4. FetcherOK(fetcher["job"])'
    BY <1>0, <2>2, <2>3, FetcherIs DEF FetchSteps, FetcherOK
  <2> QED
    BY <1>0, <2>1, <2>4, FetcherMoves
<1>6. CASE Retry
  <2>1. CASE fetcher["job"].attempt < MaxAttempts
    <3>1. fetcher' = [fetcher EXCEPT !["job"] =
                        [NoFetch EXCEPT !.at = "fetch", !.attempt = fetcher["job"].attempt + 1]]
      BY <1>6, <2>1 DEF Retry
    <3>2. fetcher'["job"] = [at |-> "fetch", e |-> 0, todo |-> {},
                             attempt |-> fetcher["job"].attempt + 1]
      BY <1>0, <3>1 DEF NoFetch
    <3>3. fetcher["job"].attempt + 1 \in 0..MaxAttempts
      BY <1>0, <2>1, FetcherIs, Numbers
    <3>4. FetcherOK(fetcher["job"])'
      BY <1>0, <3>2, <3>3, Numbers DEF FetchSteps, FetcherOK
    <3> QED
      BY <1>0, <3>1, <3>4, FetcherMoves
  <2>2. CASE ~ (fetcher["job"].attempt < MaxAttempts)
    BY <1>0, <1>6, <2>2, FetcherEnds DEF Retry
  <2> QED
    BY <2>1, <2>2
<1>7. CASE FetchFails
  BY <1>0, <1>7, FetcherGoes DEF FetchFails, Asking, FetchSteps
<1>8. ASSUME NEW f \in Fetchers, Fetch(f) PROVE FetchersOK'
  <2> DEFINE x == IF f = "job" THEN "compare" ELSE "find"
  <2>1. fetcher' = [fetcher EXCEPT ![f].at = IF f = "job" THEN "compare" ELSE "find",
                                   ![f].e = published]
    BY <1>8 DEF Fetch
  <2>2. fetcher'[f] = [fetcher[f] EXCEPT !.at = x, !.e = published]
    BY <1>0, <2>1
  <2>3. FetcherOK(fetcher[f])'
    <3>1. x \in {"compare", "find"}
      OBVIOUS
    <3> HIDE DEF x
    <3>2. /\ published \in 1..published /\ published \in 0..published
          /\ x \in FetchSteps /\ x # "pages"
      BY <1>0, <3>1, Numbers DEF FetchSteps
    <3>3. /\ fetcher'[f] \in [at : FetchSteps, e : 0..published, todo : SUBSET Episodes,
                              attempt : 0..MaxAttempts]
          /\ fetcher'[f].e = published /\ fetcher'[f].at = x
      <4>1. fetcher[f] \in [at : FetchSteps, e : 0..published, todo : SUBSET Episodes,
                            attempt : 0..MaxAttempts]
        BY FetcherIs
      <4> QED
        BY <2>2, <3>2, <4>1
    <3> QED
      BY <1>0, <3>2, <3>3, Numbers DEF FetcherOK
  <2>4. f = "job" \/ setting = "manual"
    BY <1>8, WhoFetches DEF Fetch
  <2> QED
    BY <1>0, <2>1, <2>3, <2>4, FetcherMoves
<1>9. ASSUME NEW f \in Fetchers, Find(f) PROVE FetchersOK'
  <2>1. (f = "job" \/ setting = "manual") /\ fetcher[f].e > 0
    BY <1>9, WhoFetches, AskingHas DEF Find, Asking, FetchSteps
  <2>2. CASE FetchGoes(f, "store")
    BY <2>1, <2>2, FetcherGoes DEF Asking, FetchSteps
  <2>3. CASE FetchGoes(f, "clear")
    BY <2>1, <2>3, FetcherGoes DEF Asking, FetchSteps
  <2>4. CASE fetcher' = [fetcher EXCEPT ![f] = NoFetch]
    BY <2>1, <2>4, FetcherEnds
  <2> QED
    BY <1>9, <2>2, <2>3, <2>4 DEF Find
<1> QED
  BY <1>1, <1>2, <1>3, <1>4, <1>5, <1>6, <1>7, <1>8, <1>9 DEF Fetching

LEMMA StoringOK ==
  ASSUME IInv, Next, Storing
  PROVE  FetchersOK'
<1>0. /\ published' = published /\ DOMAIN fetcher = Fetchers
      /\ "job" \in Fetchers /\ "resync" \in Fetchers
  BY StoringLeaves, FetcherIs DEF Fetchers
<1>1. CASE StorePage
  <2>1. setting = "manual"
    BY <1>0, <1>1, WhoFetches DEF StorePage
  <2>2. CASE fetcher["resync"].todo = {}
    BY <1>0, <1>1, <2>1, <2>2, FetcherGoes DEF StorePage, Asking, FetchSteps
  <2>3. CASE fetcher["resync"].todo # {}
    <3>1. PICK e \in fetcher["resync"].todo : fetcher' = [fetcher EXCEPT !["resync"].todo = @ \ {e}]
      BY <1>1, <2>3 DEF StorePage
    <3>2. fetcher'["resync"] = [fetcher["resync"] EXCEPT !.todo = @ \ {e}]
      BY <1>0, <3>1
    <3>3. FetcherOK(fetcher["resync"])'
      BY <1>0, <3>2, FetcherIs DEF FetchSteps, FetcherOK
    <3> QED
      BY <1>0, <2>1, <3>1, <3>3, FetcherMoves
  <2> QED
    BY <2>2, <2>3
<1>2. ASSUME NEW f \in Fetchers, StoreDraw(f) PROVE FetchersOK'
  BY <1>2, FetcherGoes, WhoFetches, AskingHas DEF StoreDraw, Asking, FetchSteps
<1>3. ASSUME NEW f \in Fetchers, StorePlaceholder(f) PROVE FetchersOK'
  <2>1. f = "job" \/ setting = "manual"
    BY <1>3, WhoFetches DEF StorePlaceholder
  <2>2. FetchGoes(f, "analyze") \/ FetchGoes(f, "clear")
    BY <1>3 DEF StorePlaceholder
  <2> QED
    BY <2>1, <2>2, FetcherGoes DEF Asking, FetchSteps
<1> QED
  BY <1>1, <1>2, <1>3 DEF Storing

LEMMA FetchersKept ==
  ASSUME IInv, Next
  PROVE  FetchersOK'
<1>0. "job" \in Fetchers /\ DOMAIN fetcher = Fetchers
  BY FetcherIs DEF Fetchers
<1>1. CASE Shopping
  <2>1. CASE StoreShops
    <3>1. CASE fetcher["job"].todo = {}
      BY <1>0, <2>1, <3>1, FetcherEnds DEF StoreShops
    <3>2. CASE fetcher["job"].todo # {}
      <4>1. PICK e \in fetcher["job"].todo : fetcher' = [fetcher EXCEPT !["job"].todo = @ \ {e}]
        BY <2>1, <3>2 DEF StoreShops
      <4>2. fetcher'["job"] = [fetcher["job"] EXCEPT !.todo = @ \ {e}]
        BY <1>0, <4>1
      <4>3. FetcherOK(fetcher["job"])'
        BY <1>0, <1>1, <4>2, FetcherIs, ShoppingLeaves DEF FetchSteps, FetcherOK
      <4> QED
        BY <1>0, <4>1, <4>3, FetcherMoves
    <3> QED
      BY <3>1, <3>2
  <2>2. CASE ~ StoreShops
    BY <1>1, <2>2, FetchersSame DEF Shopping, AskShops, StoreWanted, FindShops
  <2> QED
    BY <2>1, <2>2
<1>2. CASE Crash
  <2>1. /\ fetcher' = [f \in Fetchers |-> NoFetch]
        /\ published' \in Nat /\ MaxAttempts \in Nat
    BY <1>2, BoundsKept, Numbers DEF Crash, IInv
  <2>2. (\A f \in Fetchers : FetcherOK(fetcher[f]))'
    BY <2>1 DEF FetchSteps, FetcherOK, NoFetch
  <2> QED
    BY <2>1, <2>2 DEF FetchersOK, Fetchers
<1>3. CASE Using \/ Reading \/ Siting \/ Publish \/ Analyze \/ \E r \in Runners : Analysing(r)
  BY <1>3, FetchersSame, UsingLeaves, ReadingLeaves, SitingLeaves, OthersLeave, AnalysingLeaves
<1> QED
  BY <1>1, <1>2, <1>3, FetchingOK, StoringOK, ReturnsOK, NextIs

-----------------------------------------------------------------------------
(* Analyses.                                                               *)

LEMMA RunIs ==
  ASSUME IInv, NEW r \in Runners
  PROVE  DOMAIN run = Runners /\ RunOK(run[r])
BY DEF IInv, RunsOK

LEMMA RunStaysOK ==
  ASSUME IInv, Next, NEW s \in Runners, run'[s] = run[s]
  PROVE  RunOK(run[s])'
<1>1. RunOK(run[s]) /\ Bounds /\ published \in Nat /\ published' \in Nat /\ published <= published'
  BY RunIs, BoundsKept, Numbers DEF IInv
<1>2. /\ run'[s].e \in 0..published'
      /\ run'[s] \in [at : RunSteps, e : 0..published',
                       todo : SUBSET (IF run'[s].at = "score" THEN Episodes \X Nat ELSE Episodes)]
  BY <1>1 DEF RunOK
<1>3. run'[s].at = "link" => run'[s].todo \subseteq Drawn'
  BY <1>1, DrawsStay DEF RunOK
<1>4. ASSUME run'[s].at = "score", NEW p \in run'[s].todo PROVE p[2] <= Total(p[1])'
  <2>1. p \in Episodes \X Nat /\ p[2] <= Total(p[1])
    BY <1>1, <1>4 DEF RunOK
  <2>2. PICK e \in Episodes, n \in Nat : p = <<e, n>>
    BY <2>1
  <2>3. n <= Total(e)
    BY <2>1, <2>2
  <2>4. n <= Total(e)'
    BY <2>3, PredictionsStay
  <2> QED
    BY <2>2, <2>4
<1> QED
  BY <1>2, <1>3, <1>4 DEF RunOK

\* One analysis moves, and the others stay. The job's has the job waiting for it.
LEMMA RunnerMoves ==
  ASSUME IInv, Next, NEW r \in Runners, DOMAIN run' = Runners,
         \A s \in Runners : s # r => run'[s] = run[s],
         RunOK(run[r])',
         run'["job"] # NoRun => fetcher'["job"].at = "analyze"
  PROVE  RunsOK'
<1>1. ASSUME NEW s \in Runners, s # r PROVE RunOK(run[s])'
  BY <1>1, RunStaysOK
<1>2. (\A s \in Runners : RunOK(run[s]))'
  BY <1>1
<1> QED
  BY <1>2 DEF RunsOK

LEMMA JobWaits ==
  ASSUME IInv, NEW r \in Runners, run[r] # NoRun, UNCHANGED fetcher,
         DOMAIN run' = Runners, \A s \in Runners : s # r => run'[s] = run[s]
  PROVE  run'["job"] # NoRun => fetcher'["job"].at = "analyze"
BY DEF IInv, RunsOK, Runners

LEMMA Working ==
  ASSUME NEW r \in Runners, Analysing(r)
  PROVE  run[r] # NoRun /\ UNCHANGED fetcher
<1>1. run[r].at # "idle"
  BY DEF Analysing, HandleDrawn, SetFlag, FindNumbers, LinkNumbers, FindKeys, Predict,
     FindUnscored, Score, Unflag, RunFails
<1> QED
  BY <1>1, AnalysingLeaves DEF NoRun

LEMMA RunGoesOn ==
  ASSUME IInv, Next, NEW r \in Runners, Analysing(r), NEW x \in RunSteps, RunGoes(r, x),
         x \notin {"link", "score"}, run[r].at # "score"
  PROVE  RunsOK'
<1>1. RunOK(run[r]) /\ DOMAIN run = Runners /\ published' = published
  BY RunIs, AnalysingLeaves
<1>2. /\ run'[r] = [run[r] EXCEPT !.at = x] /\ DOMAIN run' = Runners
      /\ \A s \in Runners : s # r => run'[s] = run[s]
  BY <1>1 DEF RunGoes
<1>3. RunOK(run[r])'
  BY <1>1, <1>2 DEF RunOK, RunSteps, UnderFlag
<1> QED
  BY <1>2, <1>3, Working, JobWaits, RunnerMoves

LEMMA RunTakes ==
  ASSUME IInv, Next, NEW r \in Runners, Analysing(r), NEW x \in RunSteps, NEW T,
         run' = [run EXCEPT ![r].at = x, ![r].todo = T],
         x # "score" => T \subseteq Episodes,
         x = "link" => T \subseteq Drawn,
         x = "score" => T \subseteq Episodes \X Nat /\ \A p \in T : p[2] <= Total(p[1])'
  PROVE  RunsOK'
<1>1. RunOK(run[r]) /\ DOMAIN run = Runners /\ published' = published /\ row' = row
  BY RunIs, AnalysingLeaves
<1>2. /\ run'[r] = [run[r] EXCEPT !.at = x, !.todo = T] /\ DOMAIN run' = Runners
      /\ \A s \in Runners : s # r => run'[s] = run[s]
  BY <1>1
<1>3. run[r] \in [at : RunSteps, e : 0..published,
                 todo : SUBSET (IF run[r].at = "score" THEN Episodes \X Nat ELSE Episodes)]
  BY <1>1 DEF RunOK
<1>4. run'[r].at = x /\ run'[r].todo = T /\ run'[r].e = run[r].e
  BY <1>2, <1>3
<1>5. run'[r] \in [at : RunSteps, e : 0..published,
                  todo : SUBSET (IF x = "score" THEN Episodes \X Nat ELSE Episodes)]
  BY <1>2, <1>3
<1>6. Drawn' = Drawn
  BY <1>1 DEF Drawn
<1>7. RunOK(run[r])'
  BY <1>1, <1>4, <1>5, <1>6 DEF RunOK
<1> QED
  BY <1>2, <1>7, Working, JobWaits, RunnerMoves

LEMMA UnpredictedAreEpisodes == Bounds => Unpredicted \subseteq Episodes
<1> SUFFICES ASSUME Bounds PROVE Unpredicted \subseteq Episodes
  OBVIOUS
<1>1. PICK n \in Nat : n = MaxWeeks + 2
  BY Numbers
<1>2. IsFiniteSet(1..n) /\ Cardinality(1..n) <= n
  <2>1. IsFiniteSet(1..n) /\ Cardinality(1..n) = IF 1 > n THEN 0 ELSE n - 1 + 1
    BY FS_Interval
  <2> QED
    BY <2>1
<1>3. Rows \in SUBSET (1..n) /\ Episodes = 1..n
  BY <1>1 DEF Rows, Episodes
<1>4. /\ Cardinality(Rows) <= Cardinality(1..n)
      /\ Cardinality(Rows) \in Nat /\ Cardinality(1..n) \in Nat
  BY <1>2, <1>3, FS_Subset, FS_CardinalityType
<1> QED
  BY <1>2, <1>3, <1>4 DEF Unpredicted

LEMMA AnalysingOK ==
  ASSUME IInv, Next, NEW r \in Runners, Analysing(r)
  PROVE  RunsOK'
<1>1. CASE HandleDrawn(r)
  BY <1>1, RunGoesOn DEF HandleDrawn, RunSteps
<1>2. CASE SetFlag(r)
  BY <1>2, RunGoesOn DEF SetFlag, RunSteps, UnderFlag
<1>3. CASE FindNumbers(r)
  <2>1. run' = [run EXCEPT ![r].at = "link", ![r].todo = Drawn \ linked]
    BY <1>3 DEF FindNumbers
  <2>2. PICK T : T = Drawn \ linked
    OBVIOUS
  <2>3. T \subseteq Drawn /\ T \subseteq Episodes
    BY <2>2 DEF Drawn
  <2> QED
    BY <2>1, <2>2, <2>3, RunTakes DEF RunSteps, UnderFlag
<1>4. CASE LinkNumbers(r)
  <2>1. PICK T : T = {}
    OBVIOUS
  <2>2. run' = [run EXCEPT ![r].at = "findKeys", ![r].todo = T]
    BY <1>4, <2>1 DEF LinkNumbers
  <2>3. "findKeys" \in RunSteps
    BY DEF RunSteps, UnderFlag
  <2>4. T \subseteq Episodes
    BY <2>1
  <2> QED
    BY <2>2, <2>3, <2>4, RunTakes
<1>5. CASE FindKeys(r)
  <2>1. PICK T : T = Unpredicted
    OBVIOUS
  <2>2. T \subseteq Episodes
    BY <2>1, UnpredictedAreEpisodes DEF IInv
  <2>3. run' = [run EXCEPT ![r].at = "predict", ![r].todo = T]
    BY <1>5, <2>1 DEF FindKeys
  <2>4. "predict" \in RunSteps
    BY DEF RunSteps, UnderFlag
  <2> QED
    BY <2>2, <2>3, <2>4, RunTakes
<1>6. CASE Predict(r)
  <2>1. CASE RunGoes(r, "findUnscored")
    BY <1>6, <2>1, RunGoesOn DEF Predict, RunSteps, UnderFlag
  <2>2. ASSUME NEW e \in run[r].todo, run' = [run EXCEPT ![r].todo = @ \ {e}] PROVE RunsOK'
    <3>1. RunOK(run[r]) /\ DOMAIN run = Runners /\ published' = published /\ run[r].at = "predict"
      BY <1>6, RunIs, AnalysingLeaves DEF Predict
    <3>2. /\ run'[r] = [run[r] EXCEPT !.todo = @ \ {e}] /\ DOMAIN run' = Runners
          /\ \A s \in Runners : s # r => run'[s] = run[s]
      BY <2>2, <3>1
    <3>3. RunOK(run[r])'
      BY <3>1, <3>2 DEF RunOK
    <3> QED
      BY <3>2, <3>3, Working, JobWaits, RunnerMoves
  <2> QED
    BY <1>6, <2>1, <2>2 DEF Predict
<1>7. CASE FindUnscored(r)
  <2>1. PICK T : T = Unscored
    OBVIOUS
  <2>2. \A p \in T : \E e \in Episodes : p = <<e, Total(e)>>
    BY <2>1 DEF Unscored, Drawn
  <2>3. T \subseteq Episodes \X Nat /\ \A p \in T : p[2] <= Total(p[1])'
    BY <2>2, PredictionsStay
  <2>4. run' = [run EXCEPT ![r].at = "score", ![r].todo = T]
    BY <1>7, <2>1 DEF FindUnscored
  <2>5. "score" \in RunSteps
    BY DEF RunSteps, UnderFlag
  <2> QED
    BY <2>3, <2>4, <2>5, RunTakes
<1>8. CASE Score(r)
  <2>1. PICK T : T = {}
    OBVIOUS
  <2>2. run' = [run EXCEPT ![r].at = "unflag", ![r].todo = T]
    BY <1>8, <2>1 DEF Score
  <2>3. "unflag" \in RunSteps
    BY DEF RunSteps, UnderFlag
  <2>4. T \subseteq Episodes
    BY <2>1
  <2> QED
    BY <2>2, <2>3, <2>4, RunTakes
<1>9. CASE Unflag(r)
  <2>1. CASE RunGoes(r, "unlock")
    BY <1>9, <2>1, RunGoesOn DEF Unflag, RunSteps
  <2>2. CASE RunGoes(r, "failedUnlock")
    BY <1>9, <2>2, RunGoesOn DEF Unflag, RunSteps
  <2> QED
    BY <1>9, <2>1, <2>2 DEF Unflag
<1>10. CASE RunFails(r)
  <2>1. run' = [run EXCEPT ![r] = [NoRun EXCEPT !.at = "failed"]] /\ DOMAIN run = Runners
    BY <1>10, RunIs DEF RunFails
  <2>2. /\ run'[r] = [at |-> "failed", e |-> 0, todo |-> {}] /\ DOMAIN run' = Runners
        /\ \A s \in Runners : s # r => run'[s] = run[s]
    BY <2>1 DEF NoRun
  <2>3. RunOK(run[r])'
    BY <2>2, BoundsKept DEF RunOK, RunSteps, UnderFlag, IInv
  <2> QED
    BY <2>2, <2>3, Working, JobWaits, RunnerMoves
<1> QED
  BY <1>1, <1>2, <1>3, <1>4, <1>5, <1>6, <1>7, <1>8, <1>9, <1>10 DEF Analysing

LEMMA NoRunIsOK ==
  ASSUME IInv, Next, NEW s \in Runners, run'[s] = NoRun
  PROVE  RunOK(run[s])'
BY BoundsKept DEF RunOK, NoRun, RunSteps, IInv

LEMMA ReturningRuns ==
  ASSUME IInv, NEW r \in Runners, Returning(r)
  PROVE  /\ run[r].at # "idle" /\ DOMAIN run' = Runners
         /\ \A s \in Runners : s # r => run'[s] = run[s]
         /\ \/ run'[r] = NoRun
            \/ run'[r] = [run[r] EXCEPT !.at = "begin"] /\ run[r].at = "check" /\ fetcher' = fetcher
               /\ ~ flag
         /\ r # "job" => fetcher' = fetcher
BY RunIs DEF Returning, CheckFlag, Unlock, Returns, RunGoes

\* Whatever the job does while it fetches is not done while it waits for its analysis.
LEMMA OnlyReturnsWakeJob ==
  ASSUME IInv, Next, Fetching \/ Storing \/ Shopping, fetcher["job"].at = "analyze"
  PROVE  fetcher'["job"].at = "analyze" \/ Saturday
<1>0. DOMAIN fetcher = Fetchers /\ "job" \in Fetchers
  BY FetcherIs DEF Fetchers
<1>1. CASE Fetching
  BY <1>0, <1>1 DEF Fetching, Resync, ClearAll, Compare, FetchShops, Retry, FetchFails, Fetch,
     Find, FetchGoes
<1>2. CASE Storing
  BY <1>0, <1>2 DEF Storing, StorePage, StoreDraw, StorePlaceholder, FetchGoes
<1>3. CASE Shopping
  BY <1>0, <1>3 DEF Shopping, StoreShops, AskShops, StoreWanted, FindShops
<1> QED
  BY <1>1, <1>2, <1>3

\* With the row of the coming draw the handler of the event starts, and the job's own
\* analysis.
LEMMA PlaceholderRuns ==
  ASSUME IInv, NEW f \in Fetchers, StorePlaceholder(f)
  PROVE  /\ DOMAIN run' = Runners /\ Handler(f) \in Runners \ {"job"}
         /\ run[Handler(f)] = NoRun
         /\ run'[Handler(f)] = [at |-> "drawn", e |-> fetcher[f].e, todo |-> {}]
         /\ f = "job" => run["job"] = NoRun /\ run'["job"] = [at |-> "check", e |-> 0, todo |-> {}]
         /\ \A s \in Runners : s # Handler(f) /\ (s # "job" \/ f # "job") => run'[s] = run[s]
<1>1. Handler(f) \in Runners \ {"job"} /\ fetcher[f].at = "placeholder" /\ run[Handler(f)] = NoRun
  BY DEF Handler, Runners, StorePlaceholder
<1>2. DOMAIN run = Runners /\ "job" \in Runners
  BY RunIs DEF Runners
<1>3. run' = [run EXCEPT ![Handler(f)] = [NoRun EXCEPT !.at = "drawn", !.e = fetcher[f].e],
                         !["job"].at = IF f = "job" THEN "check" ELSE @]
  BY DEF StorePlaceholder
<1>4. run'[Handler(f)] = [at |-> "drawn", e |-> fetcher[f].e, todo |-> {}]
  BY <1>1, <1>2, <1>3 DEF NoRun
<1>5. ASSUME f = "job"
      PROVE  run["job"] = NoRun /\ run'["job"] = [at |-> "check", e |-> 0, todo |-> {}]
  <2>1. run["job"] = NoRun
    BY <1>1, <1>2, <1>5 DEF IInv, RunsOK
  <2> QED
    BY <1>1, <1>2, <1>3, <1>5, <2>1 DEF NoRun
<1>6. ASSUME f # "job" PROVE run'["job"] = run["job"]
  BY <1>1, <1>2, <1>3, <1>6, RunIs DEF RunOK
<1> QED
  BY <1>1, <1>2, <1>3, <1>4, <1>5, <1>6

LEMMA RunsKept ==
  ASSUME IInv, Next
  PROVE  RunsOK'
<1>0. RunsOK /\ DOMAIN fetcher = Fetchers /\ DOMAIN run = Runners
      /\ "job" \in Fetchers /\ "job" \in Runners
  BY FetcherIs, RunIs DEF Fetchers, Runners, IInv
<1>1. CASE UNCHANGED run
  <2>1. run["job"] # NoRun /\ ~ Saturday /\ (Fetching \/ Storing \/ Shopping)
          => fetcher'["job"].at = "analyze"
    BY <1>0, OnlyReturnsWakeJob DEF RunsOK
  <2>2. Saturday => run["job"] = NoRun
    BY <1>0 DEF Saturday, Quiet
  <2>3. Using \/ Reading \/ Siting \/ Publish \/ Analyze => UNCHANGED fetcher
    BY UsingLeaves, ReadingLeaves, SitingLeaves, OthersLeave
  <2>4. Crash => run'["job"] = NoRun
    BY <1>0 DEF Crash
  <2>5. \A r \in Runners : Analysing(r) => UNCHANGED fetcher
    BY AnalysingLeaves
  <2>6. \A r \in Runners : Returning(r) => UNCHANGED fetcher \/ run'["job"] = NoRun
    BY ReturningRuns
  <2>7. run'["job"] # NoRun => fetcher'["job"].at = "analyze"
    BY <1>0, <1>1, <2>1, <2>2, <2>3, <2>4, <2>5, <2>6, NextIs DEF RunsOK
  <2>8. (\A s \in Runners : RunOK(run[s]))'
    BY <1>1, RunStaysOK
  <2> QED
    BY <1>0, <1>1, <2>7, <2>8 DEF RunsOK
<1>2. ASSUME NEW f \in Fetchers, StorePlaceholder(f) PROVE RunsOK'
  <2>1. ASSUME NEW s \in Runners, run'[s] # run[s] PROVE RunOK(run[s])'
    <3>1. CASE s = Handler(f)
      <4>1. published' = published /\ fetcher[f].at = "placeholder"
        BY <1>2 DEF StorePlaceholder
      <4>2. fetcher[f].e \in 1..published /\ published \in Nat
        BY <1>2, <4>1, ComingIsNotDrawn, Numbers DEF IInv
      <4>3. fetcher[f].e \in 0..published'
        BY <4>1, <4>2
      <4>4. run'[s] = [at |-> "drawn", e |-> fetcher[f].e, todo |-> {}]
        BY <1>2, <3>1, PlaceholderRuns
      <4> QED
        BY <4>3, <4>4 DEF RunOK, RunSteps
    <3>2. CASE s = "job" /\ f = "job"
      <4>1. run'[s] = [at |-> "check", e |-> 0, todo |-> {}]
        BY <1>2, <3>2, PlaceholderRuns
      <4>2. published' \in Nat
        BY BoundsKept DEF IInv
      <4> QED
        BY <4>1, <4>2 DEF RunOK, RunSteps
    <3> QED
      BY <1>2, <2>1, <3>1, <3>2, PlaceholderRuns
  <2>2. (\A s \in Runners : RunOK(run[s]))'
    BY <2>1, RunStaysOK
  <2>3. CASE f = "job"
    <3>1. fetcher'["job"].at = "analyze"
      BY <1>0, <1>2, <2>3 DEF StorePlaceholder, FetchGoes
    <3> QED
      BY <1>2, <2>2, <3>1, PlaceholderRuns DEF RunsOK
  <2>4. CASE f # "job"
    <3>1. run'["job"] = run["job"]
      BY <1>0, <1>2, <2>4, PlaceholderRuns DEF Handler
    <3>2. fetcher'["job"] = fetcher["job"]
      BY <1>0, <1>2, <2>4 DEF StorePlaceholder, FetchGoes
    <3> QED
      BY <1>0, <1>2, <2>2, <3>1, <3>2, PlaceholderRuns DEF RunsOK
  <2> QED
    BY <2>3, <2>4
<1>3. CASE Analyze
  <2>1. /\ run["manager"] = NoRun /\ run' = [run EXCEPT !["manager"].at = "check"]
        /\ "manager" \in Runners
    BY <1>3 DEF Analyze, RunGoes, Runners
  <2>2. run'["manager"] = [at |-> "check", e |-> 0, todo |-> {}] /\ DOMAIN run' = Runners
        /\ \A s \in Runners : s # "manager" => run'[s] = run[s]
    BY <1>0, <2>1 DEF NoRun
  <2>3. RunOK(run["manager"])'
    BY <2>2, BoundsKept DEF RunOK, RunSteps, IInv
  <2>4. run'["job"] # NoRun => fetcher'["job"].at = "analyze"
    BY <1>0, <1>3, <2>2, OthersLeave DEF RunsOK
  <2> QED
    BY <2>1, <2>2, <2>3, <2>4, RunnerMoves
<1>4. CASE Crash
  <2>1. run' = [r \in Runners |-> NoRun]
    BY <1>4 DEF Crash
  <2>2. (\A s \in Runners : RunOK(run[s]))'
    BY <2>1, NoRunIsOK
  <2> QED
    BY <1>0, <2>1, <2>2 DEF RunsOK
<1>5. ASSUME NEW r \in Runners, Returning(r) PROVE RunsOK'
  <2>1. CASE run'[r] = NoRun
    <3>1. run'["job"] # NoRun => fetcher'["job"].at = "analyze"
      BY <1>0, <1>5, <2>1, ReturningRuns DEF RunsOK
    <3> QED
      BY <1>5, <2>1, <3>1, ReturningRuns, NoRunIsOK, RunnerMoves
  <2>2. CASE run'[r] = [run[r] EXCEPT !.at = "begin"] /\ run[r].at = "check" /\ fetcher' = fetcher
    <3>1. RunOK(run[r])'
      BY <1>5, <2>2, RunIs, ReturningLeaves DEF RunOK, RunSteps
    <3>2. run[r] # NoRun
      BY <2>2 DEF NoRun
    <3> QED
      BY <1>5, <2>2, <3>1, <3>2, ReturningRuns, JobWaits, RunnerMoves
  <2> QED
    BY <1>5, <2>1, <2>2, ReturningRuns
<1>6. Storing => UNCHANGED run \/ \E f \in Fetchers : StorePlaceholder(f)
  BY DEF Storing, StorePage, StoreDraw
<1>7. Fetching \/ Shopping \/ Using \/ Reading \/ Siting \/ Publish => UNCHANGED run
  BY FetchingLeaves, ShoppingLeaves, UsingLeaves, ReadingLeaves, SitingLeaves, OthersLeave
<1> QED
  BY <1>1, <1>2, <1>3, <1>4, <1>5, <1>6, <1>7, AnalysingOK, NextIs

-----------------------------------------------------------------------------
(* Users and caches.                                                       *)

LEMMA UserKept ==
  ASSUME IInv, Next
  PROVE  UserOK'
<1>0. Bounds /\ RowsOK /\ UserOK
  BY DEF IInv
<1>1. CASE UNCHANGED user
  BY <1>0, <1>1 DEF UserOK
<1>2. CASE FindLatest
  <2>1. user' = [at |-> "create", e |-> Latest + 1]
    BY <1>2 DEF FindLatest
  <2>2. Latest \in 1..published
    BY <1>0, LatestIsLast
  <2>3. Latest + 1 \in Episodes /\ Latest + 1 \in Int /\ Latest + 1 > 0
    BY <1>0, <2>2, Numbers DEF Episodes
  <2> QED
    BY <2>1, <2>3 DEF UserOK
<1>3. CASE CreatePrediction
  BY <1>3 DEF CreatePrediction, UserOK, NoUser
<1> QED
  BY <1>1, <1>2, <1>3, NextIs, StoringLeaves, FetchingLeaves, ShoppingLeaves, ReadingLeaves,
     SitingLeaves, OthersLeave, ReturningLeaves, AnalysingLeaves DEF Using

LEMMA CacheMoves ==
  ASSUME Next
  PROVE  UNCHANGED cache \/ StorePage \/ ClearAll \/ Reading \/ \E r \in Runners : HandleDrawn(r)
<1>1. Storing => UNCHANGED cache \/ StorePage
  BY DEF Storing, StoreDraw, StorePlaceholder, reads
<1>2. Fetching => UNCHANGED cache \/ ClearAll
  BY DEF Fetching, Saturday, Resync, Compare, FetchShops, Retry, FetchFails, Fetch, Find, reads
<1>3. ASSUME NEW r \in Runners, Analysing(r) PROVE UNCHANGED cache \/ HandleDrawn(r)
  BY <1>3 DEF Analysing, SetFlag, FindNumbers, LinkNumbers, FindKeys, Predict, FindUnscored,
     Score, Unflag, RunFails, reads
<1> QED
  BY <1>1, <1>2, <1>3, NextIs, ShoppingLeaves, UsingLeaves, SitingLeaves, OthersLeave,
     ReturningLeaves

LEMMA ReadersMove ==
  ASSUME Next
  PROVE  UNCHANGED <<memo, reader>> \/ Reading
BY NextIs, StoringLeaves, FetchingLeaves, ShoppingLeaves, UsingLeaves, SitingLeaves,
   OthersLeave, ReturningLeaves, AnalysingLeaves

LEMMA Clearing ==
  ASSUME NEW K, cache' = Without(K)
  PROVE  DOMAIN cache' = Keys /\ \A k \in Keys : cache'[k] = IF k \in K THEN {} ELSE cache[k]
BY DEF Without

LEMMA CachesKept ==
  ASSUME IInv, Next
  PROVE  CachesOK'
<1>0. CachesOK
  BY DEF IInv
<1>1. DOMAIN cache' = Keys /\ \A k \in Keys : AtMostOne(cache'[k])
  <2>1. CASE UNCHANGED cache
    BY <1>0, <2>1 DEF CachesOK
  <2>2. ASSUME NEW K, cache' = Without(K)
        PROVE  DOMAIN cache' = Keys /\ \A k \in Keys : AtMostOne(cache'[k])
    BY <1>0, <2>2, Clearing DEF CachesOK, AtMostOne
  <2>3. ASSUME NEW k \in Keys, NEW v, cache' = [cache EXCEPT ![k] = {v}]
        PROVE  DOMAIN cache' = Keys /\ \A x \in Keys : AtMostOne(cache'[x])
    BY <1>0, <2>3 DEF CachesOK, AtMostOne
  <2>4. StorePage => UNCHANGED cache \/ \E K : cache' = Without(K)
    BY DEF StorePage
  <2>5. ClearAll => \E K : cache' = Without(K)
    BY DEF ClearAll
  <2>6. ASSUME NEW r \in Runners, HandleDrawn(r) PROVE \E K : cache' = Without(K)
    BY <2>6 DEF HandleDrawn
  <2>7. CASE Reading
    <3>1. ASSUME NEW k \in Keys, Read(k)
          PROVE  UNCHANGED cache \/ \E v : cache' = [cache EXCEPT ![k] = {v}]
      BY <3>1 DEF Read
    <3>2. ASSUME NEW k \in Keys, Expire(k) PROVE \E K : cache' = Without(K)
      BY <3>2 DEF Expire
    <3>3. CASE Fill
      <4>1. PICK p \in reader : cache' = [cache EXCEPT ![p[1]] = {p[2]}]
        BY <3>3 DEF Fill
      <4>2. p[1] \in Keys
        BY <1>0 DEF CachesOK
      <4>3. PICK k \in Keys : k = p[1]
        BY <4>2
      <4>4. PICK v : v = p[2]
        OBVIOUS
      <4> QED
        BY <2>3, <4>1, <4>3, <4>4
    <3>4. Forget => UNCHANGED cache
      BY DEF Forget
    <3> QED
      BY <2>1, <2>2, <2>3, <2>7, <3>1, <3>2, <3>3, <3>4 DEF Reading
  <2> QED
    BY <2>1, <2>2, <2>4, <2>5, <2>6, <2>7, CacheMoves
<1>2. AtMostOne(memo') /\ AtMostOne(reader') /\ \A p \in reader' : p[1] \in Keys
  <2>1. CASE UNCHANGED <<memo, reader>>
    BY <1>0, <2>1 DEF CachesOK
  <2>2. ASSUME NEW k \in Keys, Read(k)
        PROVE  AtMostOne(memo') /\ AtMostOne(reader') /\ \A p \in reader' : p[1] \in Keys
    <3>1. UNCHANGED memo \/ \E v : memo' = {v}
      BY <2>2 DEF Read
    <3>2. UNCHANGED reader \/ \E v : reader' = {<<k, v>>}
      BY <2>2 DEF Read
    <3> QED
      BY <1>0, <3>1, <3>2 DEF CachesOK, AtMostOne
  <2>3. ASSUME (\E k \in Keys : Expire(k)) \/ Fill \/ Forget
        PROVE  /\ memo' = memo \/ memo' = {}
               /\ reader' = reader \/ reader' = {}
    BY <2>3 DEF Expire, Fill, Forget
  <2> QED
    BY <1>0, <2>1, <2>2, <2>3, ReadersMove DEF Reading, CachesOK, AtMostOne
<1> QED
  BY <1>1, <1>2 DEF CachesOK

-----------------------------------------------------------------------------
(* The flag.                                                               *)

LEMMA AnalysingRuns ==
  ASSUME IInv, NEW r \in Runners, Analysing(r)
  PROVE  /\ DOMAIN run' = Runners /\ \A s \in Runners : s # r => run'[s] = run[s]
         /\ run'[r].at \notin {"begin", "drawn"}
         /\ run'[r].at \in UnderFlag => InAnalysis(r) /\ (SetFlag(r) \/ flag' = flag)
<1>0. DOMAIN run = Runners /\ RunOK(run[r])
  BY RunIs
<1>1. CASE HandleDrawn(r)
  BY <1>0, <1>1 DEF HandleDrawn, RunGoes, UnderFlag
<1>2. CASE SetFlag(r)
  <2>1. run[r].at = "begin" /\ run' = [run EXCEPT ![r].at = "findNumbers"]
    BY <1>2 DEF SetFlag, RunGoes
  <2>2. run'[r].at = "findNumbers" /\ DOMAIN run' = Runners
        /\ \A s \in Runners : s # r => run'[s] = run[s]
    BY <1>0, <2>1 DEF RunOK
  <2>3. InAnalysis(r)
    BY <2>1 DEF InAnalysis
  <2> QED
    BY <1>2, <2>2, <2>3
<1>3. CASE FindNumbers(r)
  BY <1>0, <1>3 DEF FindNumbers, InAnalysis, UnderFlag
<1>4. CASE LinkNumbers(r)
  BY <1>0, <1>4 DEF LinkNumbers, InAnalysis, UnderFlag, site
<1>5. CASE FindKeys(r)
  BY <1>0, <1>5 DEF FindKeys, InAnalysis, UnderFlag, site
<1>6. CASE Predict(r)
  <2>1. run[r].at = "predict" /\ flag' = flag /\ DOMAIN run' = Runners
        /\ \A s \in Runners : s # r => run'[s] = run[s]
    BY <1>0, <1>6 DEF Predict, RunGoes
  <2>2. run'[r].at \in {"predict", "findUnscored"}
    BY <1>0, <1>6 DEF Predict, RunGoes, RunOK
  <2> QED
    BY <2>1, <2>2 DEF InAnalysis, UnderFlag
<1>7. CASE FindUnscored(r)
  BY <1>0, <1>7 DEF FindUnscored, InAnalysis, UnderFlag, site
<1>8. CASE Score(r)
  BY <1>0, <1>8 DEF Score, InAnalysis, UnderFlag, site
<1>9. CASE Unflag(r)
  BY <1>0, <1>9 DEF Unflag, RunGoes, UnderFlag
<1>10. CASE RunFails(r)
  BY <1>0, <1>10 DEF RunFails, NoRun, InAnalysis, UnderFlag, site
<1> QED
  BY <1>1, <1>2, <1>3, <1>4, <1>5, <1>6, <1>7, <1>8, <1>9, <1>10 DEF Analysing

\* An analysis is entered at the flag and nowhere else.
LEMMA OnlyCheckEnters ==
  ASSUME IInv, Next, NEW s \in Runners, InAnalysis(s)', ~ CheckFlag(s)
  PROVE  InAnalysis(s)
<1>0. DOMAIN run = Runners
  BY RunIs
<1>1. CASE UNCHANGED run
  BY <1>1 DEF InAnalysis
<1>2. ASSUME NEW f \in Fetchers, StorePlaceholder(f) PROVE InAnalysis(s)
  <2>1. CASE run'[s] = run[s]
    BY <2>1 DEF InAnalysis
  <2>2. CASE run'[s] # run[s]
    <3>1. s = Handler(f) \/ (s = "job" /\ f = "job")
      BY <1>2, <2>2, PlaceholderRuns
    <3>2. CASE s = Handler(f)
      <4>1. run'[s] = [at |-> "drawn", e |-> fetcher[f].e, todo |-> {}]
        BY <1>2, <3>2, PlaceholderRuns
      <4> QED
        BY <4>1 DEF InAnalysis, UnderFlag
    <3>3. CASE s = "job" /\ f = "job"
      <4>1. run'[s] = [at |-> "check", e |-> 0, todo |-> {}]
        BY <1>2, <3>3, PlaceholderRuns
      <4> QED
        BY <4>1 DEF InAnalysis, UnderFlag
    <3> QED
      BY <3>1, <3>2, <3>3
  <2> QED
    BY <2>1, <2>2
<1>3. CASE Analyze
  BY <1>0, <1>3 DEF Analyze, RunGoes, InAnalysis, UnderFlag
<1>4. CASE Crash
  BY <1>4 DEF Crash, NoRun, InAnalysis, UnderFlag
<1>5. ASSUME NEW r \in Runners, Analysing(r) PROVE InAnalysis(s)
  <2>1. CASE s = r
    BY <1>5, <2>1, AnalysingRuns DEF InAnalysis
  <2>2. CASE s # r
    BY <1>5, <2>2, AnalysingRuns DEF InAnalysis
  <2> QED
    BY <2>1, <2>2
<1>6. ASSUME NEW r \in Runners, Returning(r) PROVE InAnalysis(s)
  <2>1. CASE s # r
    BY <1>6, <2>1, ReturningRuns DEF InAnalysis
  <2>2. CASE s = r
    <3>1. Unlock(s)
      BY <1>6, <2>2 DEF Returning
    <3>2. run'[s] = NoRun
      BY <1>0, <3>1 DEF Unlock, Returns
    <3> QED
      BY <3>2 DEF InAnalysis, NoRun, UnderFlag
  <2> QED
    BY <2>1, <2>2
<1>7. Storing => UNCHANGED run \/ \E f \in Fetchers : StorePlaceholder(f)
  BY DEF Storing, StorePage, StoreDraw
<1>8. Fetching \/ Shopping \/ Using \/ Reading \/ Siting \/ Publish => UNCHANGED run
  BY FetchingLeaves, ShoppingLeaves, UsingLeaves, ReadingLeaves, SitingLeaves, OthersLeave
<1> QED
  BY <1>1, <1>2, <1>3, <1>4, <1>5, <1>6, <1>7, <1>8, NextIs

LEMMA CheckingIs ==
  ASSUME IInv, NEW r \in Runners, CheckFlag(r)
  PROVE  /\ \A s \in Runners : s # r => run'[s] = run[s]
         /\ UNCHANGED <<setting, flag, sys>>
         /\ run'[r].at = "begin" \/ run'[r] = NoRun
         /\ setting # "race" /\ run'[r].at = "begin" => \A s \in Runners : ~ InAnalysis(s)
<1>1. Returning(r)
  BY DEF Returning
<1>2. RunOK(run[r])
  BY RunIs
<1>3. run'[r].at = "begin" => ~ flag
  <2>1. CASE run'[r] = NoRun
    BY <2>1 DEF NoRun
  <2> QED
    BY <1>1, <2>1, ReturningRuns
<1>4. setting # "race" => \A s \in Runners : run[s].at # "begin"
  BY DEF CheckFlag
<1>5. setting # "race" /\ ~ flag => \A s \in Runners : run[s].at \notin UnderFlag
  BY DEF IInv, Exclusive
<1>6. run'[r].at = "begin" \/ run'[r] = NoRun
  BY <1>1, <1>2, ReturningRuns DEF RunOK
<1> QED
  BY <1>1, <1>3, <1>4, <1>5, <1>6, ReturningRuns, ReturningLeaves DEF InAnalysis

LEMMA OneAnalysisKept ==
  ASSUME IInv, Next
  PROVE  OneAnalysis'
<1> SUFFICES ASSUME setting # "race", NEW r \in Runners, NEW s \in Runners,
                    InAnalysis(r)', InAnalysis(s)'
             PROVE  r = s
  BY SettingStays DEF OneAnalysis
<1>1. CASE \E t \in Runners : CheckFlag(t)
  <2>1. PICK t \in Runners : CheckFlag(t)
    BY <1>1
  <2>2. \A u \in Runners : InAnalysis(u)' => u = t \/ InAnalysis(u)
    BY <2>1, CheckingIs DEF InAnalysis
  <2>3. InAnalysis(t)' => \A u \in Runners : ~ InAnalysis(u)
    BY <2>1, CheckingIs DEF InAnalysis, NoRun, UnderFlag
  <2> QED
    BY <2>2, <2>3 DEF IInv, OneAnalysis
<1>2. CASE \A t \in Runners : ~ CheckFlag(t)
  BY <1>2, OnlyCheckEnters DEF IInv, OneAnalysis
<1> QED
  BY <1>1, <1>2

\* Who moves an analysis.
LEMMA RunnerIs ==
  ASSUME IInv, Next, NEW s \in Runners, run'[s] # run[s]
  PROVE  \/ Analysing(s) \/ Returning(s)
         \/ Analyze /\ s = "manager" /\ run'[s].at = "check"
         \/ Crash /\ run'[s] = NoRun
         \/ \E f \in Fetchers : /\ StorePlaceholder(f)
                               /\ \/ s = Handler(f) /\ run'[s].at = "drawn"
                                  \/ s = "job" /\ f = "job" /\ run'[s].at = "check"
<1>0. DOMAIN run = Runners /\ RunOK(run[s])
  BY RunIs
<1>1. CASE Storing
  <2>1. PICK f \in Fetchers : StorePlaceholder(f)
    BY <1>1 DEF Storing, StorePage, StoreDraw
  <2>2. CASE s = Handler(f)
    <3>1. run'[s] = [at |-> "drawn", e |-> fetcher[f].e, todo |-> {}]
      BY <2>1, <2>2, PlaceholderRuns
    <3> QED
      BY <2>1, <2>2, <3>1
  <2>3. CASE s = "job" /\ f = "job"
    <3>1. run'[s] = [at |-> "check", e |-> 0, todo |-> {}]
      BY <2>1, <2>3, PlaceholderRuns
    <3> QED
      BY <2>1, <2>3, <3>1
  <2> QED
    BY <2>1, <2>2, <2>3, PlaceholderRuns
<1>2. CASE Analyze
  <2>1. run' = [run EXCEPT !["manager"].at = "check"]
    BY <1>2 DEF Analyze, RunGoes
  <2> QED
    BY <1>0, <1>2, <2>1 DEF RunOK
<1>3. CASE Crash
  BY <1>3 DEF Crash
<1>4. ASSUME NEW r \in Runners, Analysing(r) PROVE Analysing(s)
  BY <1>4, AnalysingRuns
<1>5. ASSUME NEW r \in Runners, Returning(r) PROVE Returning(s)
  BY <1>5, ReturningRuns
<1>6. Fetching \/ Shopping \/ Using \/ Reading \/ Siting \/ Publish => UNCHANGED run
  BY FetchingLeaves, ShoppingLeaves, UsingLeaves, ReadingLeaves, SitingLeaves, OthersLeave
<1> QED
  BY <1>1, <1>2, <1>3, <1>4, <1>5, <1>6, NextIs

LEMMA FlagMoves ==
  ASSUME Next
  PROVE  UNCHANGED flag \/ FlagExpires \/ \E r \in Runners : SetFlag(r) \/ Unflag(r)
<1>1. Siting => UNCHANGED flag \/ FlagExpires
  BY DEF Siting, SyncFromRedis, ToggleStatus, LockExpires
<1>2. ASSUME NEW r \in Runners, Analysing(r) PROVE UNCHANGED flag \/ SetFlag(r) \/ Unflag(r)
  BY <1>2 DEF Analysing, HandleDrawn, FindNumbers, LinkNumbers, FindKeys, Predict,
     FindUnscored, Score, RunFails, site
<1> QED
  BY <1>1, <1>2, NextIs, StoringLeaves, FetchingLeaves, ShoppingLeaves, UsingLeaves,
     ReadingLeaves, OthersLeave, ReturningLeaves DEF site

LEMMA ReturningTo ==
  ASSUME IInv, NEW r \in Runners, Returning(r)
  PROVE  run'[r].at \in {"idle", "begin"}
<1>1. CASE run'[r] = NoRun
  BY <1>1 DEF NoRun
<1>2. CASE run'[r] = [run[r] EXCEPT !.at = "begin"]
  BY <1>2, RunIs DEF RunOK
<1> QED
  BY <1>1, <1>2, ReturningRuns

LEMMA AnalysingTo ==
  ASSUME IInv, NEW r \in Runners
  PROVE  /\ HandleDrawn(r) => run'[r].at = "check"
         /\ SetFlag(r) => run'[r].at = "findNumbers"
         /\ FindNumbers(r) => run'[r].at = "link"
         /\ LinkNumbers(r) => run'[r].at = "findKeys"
         /\ FindKeys(r) => run'[r].at = "predict"
         /\ FindUnscored(r) => run'[r].at = "score"
         /\ Score(r) => run'[r].at = "unflag"
         /\ Unflag(r) => run'[r].at \in {"unlock", "failedUnlock"}
         /\ RunFails(r) => run'[r].at = "failed"
<1>0. DOMAIN run = Runners /\ RunOK(run[r])
  BY RunIs
<1>1. ASSUME NEW x, RunGoes(r, x) PROVE run'[r].at = x
  BY <1>0, <1>1 DEF RunGoes, RunOK
<1>2. HandleDrawn(r) => run'[r].at = "check"
  BY <1>1 DEF HandleDrawn
<1>3. SetFlag(r) => run'[r].at = "findNumbers"
  BY <1>1 DEF SetFlag
<1>4. FindNumbers(r) => run'[r].at = "link"
  BY <1>0 DEF FindNumbers, RunOK
<1>5. LinkNumbers(r) => run'[r].at = "findKeys"
  BY <1>0 DEF LinkNumbers, RunOK
<1>6. FindKeys(r) => run'[r].at = "predict"
  BY <1>0 DEF FindKeys, RunOK
<1>7. FindUnscored(r) => run'[r].at = "score"
  BY <1>0 DEF FindUnscored, RunOK
<1>8. Score(r) => run'[r].at = "unflag"
  BY <1>0 DEF Score, RunOK
<1>9. Unflag(r) => run'[r].at \in {"unlock", "failedUnlock"}
  BY <1>1 DEF Unflag
<1>10. RunFails(r) => run'[r].at = "failed"
  BY <1>0 DEF RunFails, NoRun
<1> QED
  BY <1>2, <1>3, <1>4, <1>5, <1>6, <1>7, <1>8, <1>9, <1>10

\* Only with the flag set does an analysis come to work.
LEMMA OnlySetFlagEnters ==
  ASSUME IInv, Next, NEW s \in Runners, run'[s].at \in UnderFlag
  PROVE  run[s].at \in UnderFlag \/ SetFlag(s)
<1>1. CASE run'[s] = run[s]
  BY <1>1
<1>2. CASE Analysing(s)
  <2>1. run[s].at = "begin" => SetFlag(s)
    BY <1>2 DEF Analysing, HandleDrawn, FindNumbers, LinkNumbers, FindKeys, Predict,
       FindUnscored, Score, Unflag, RunFails
  <2> QED
    BY <1>2, <2>1, AnalysingRuns DEF InAnalysis
<1>3. CASE Returning(s)
  BY <1>3, ReturningTo DEF UnderFlag
<1>4. CASE run'[s].at \in {"check", "drawn"} \/ run'[s] = NoRun
  BY <1>4 DEF UnderFlag, NoRun
<1> QED
  BY <1>1, <1>2, <1>3, <1>4, RunnerIs

LEMMA FlagHeld ==
  ASSUME IInv, Next, setting # "race", NEW s \in Runners, run'[s].at \in UnderFlag
  PROVE  flag'
<1>1. SetFlag(s) => flag'
  BY DEF SetFlag
<1>2. CASE run[s].at \in UnderFlag
  <2>1. flag /\ InAnalysis(s)
    BY <1>2 DEF IInv, Exclusive, InAnalysis
  <2>2. ~ FlagExpires
    BY <1>2 DEF FlagExpires, NoRun, UnderFlag
  <2>3. \A r \in Runners : SetFlag(r) => flag'
    BY DEF SetFlag
  <2>4. ASSUME NEW r \in Runners, Unflag(r) PROVE FALSE
    <3>1. InAnalysis(r)
      BY <2>4 DEF Unflag, InAnalysis, UnderFlag
    <3>2. r = s
      BY <2>1, <3>1 DEF IInv, OneAnalysis
    <3>3. run'[s].at \in {"unlock", "failedUnlock"}
      BY <2>4, <3>2, RunIs DEF Unflag, RunGoes, RunOK
    <3> QED
      BY <3>3 DEF UnderFlag
  <2> QED
    BY <2>1, <2>2, <2>3, <2>4, FlagMoves
<1> QED
  BY <1>1, <1>2, OnlySetFlagEnters

LEMMA WhoPredicts ==
  ASSUME IInv, Next, NEW s \in Runners, run'[s].at = "predict"
  PROVE  run'[s] = run[s] \/ FindKeys(s) \/ Predict(s)
BY RunnerIs, ReturningTo, AnalysingTo DEF Analysing, NoRun

\* What an analysis has still to predict nobody has predicted.
LEMMA StillUnpredicted ==
  ASSUME IInv, Next, setting # "race", NEW s \in Runners, run'[s].at = "predict",
         NEW e \in run'[s].todo
  PROVE  sys'[e] = 0
<1>0. DOMAIN run = Runners /\ sys \in [Episodes -> Nat]
  BY RunIs DEF IInv, CountsOK
<1>1. CASE FindKeys(s)
  <2>1. run' = [run EXCEPT ![s].at = "predict", ![s].todo = Unpredicted] /\ sys' = sys
    BY <1>1 DEF FindKeys, db
  <2>2. run'[s].todo = Unpredicted
    BY <1>0, <2>1, RunIs DEF RunOK
  <2> QED
    BY <2>1, <2>2 DEF Unpredicted
<1>2. CASE Predict(s)
  <2>1. run[s].at = "predict" /\ \A d \in run[s].todo : d \in Episodes /\ sys[d] = 0
    BY <1>2, RunIs DEF Predict, IInv, Exclusive, RunOK
  <2>2. PICK d \in run[s].todo : /\ sys' = [sys EXCEPT ![d] = @ + 1]
                               /\ run' = [run EXCEPT ![s].todo = @ \ {d}]
    <3>1. run' # [run EXCEPT ![s].at = "findUnscored"]
      BY <1>0, RunIs DEF RunOK
    <3> QED
      BY <1>2, <3>1, Predicting
  <2>3. run'[s].todo = run[s].todo \ {d}
    BY <1>0, <2>2, RunIs DEF RunOK
  <2> QED
    BY <1>0, <2>1, <2>2, <2>3
<1>3. CASE run'[s] = run[s]
  <2>1. sys[e] = 0 /\ InAnalysis(s)
    BY <1>3 DEF IInv, Exclusive, InAnalysis, UnderFlag
  <2>2. ASSUME NEW r \in Runners, Predict(r) PROVE r = s
    <3>1. InAnalysis(r)
      BY <2>2 DEF Predict, InAnalysis, UnderFlag
    <3> QED
      BY <2>1, <3>1 DEF IInv, OneAnalysis
  <2> QED
    BY <1>2, <2>1, <2>2, PredictionsMove
<1> QED
  BY <1>1, <1>2, <1>3, WhoPredicts

LEMMA ExclusiveKept ==
  ASSUME IInv, Next
  PROVE  Exclusive'
<1> SUFFICES ASSUME setting # "race"
             PROVE  /\ \A r \in Runners : run'[r].at \in UnderFlag => flag'
                    /\ \A r \in Runners : run'[r].at = "predict" =>
                          \A e \in run'[r].todo : sys'[e] = 0
                    /\ \A e \in Episodes : sys'[e] <= 1
  BY SettingStays DEF Exclusive
<1>1. \A e \in Episodes : sys[e] <= 1
  BY DEF IInv, Exclusive
<1>2. ASSUME NEW r \in Runners, Predict(r) PROVE \A e \in Episodes : sys'[e] <= 1
  <2>1. sys \in [Episodes -> Nat] /\ \A e \in run[r].todo : sys[e] = 0
    BY <1>2 DEF IInv, CountsOK, Exclusive, Predict
  <2>2. CASE sys' = sys
    BY <1>1, <2>2
  <2>3. ASSUME NEW e \in run[r].todo, e \in Episodes, sys' = [sys EXCEPT ![e] = @ + 1]
        PROVE  \A d \in Episodes : sys'[d] <= 1
    BY <1>1, <2>1, <2>3
  <2> QED
    BY <1>2, <2>2, <2>3, Predicting
<1> QED
  BY <1>1, <1>2, FlagHeld, StillUnpredicted, PredictionsMove

-----------------------------------------------------------------------------
(* Shops.                                                                  *)

\* Who moves a fetcher.
LEMMA FetcherMovedBy ==
  ASSUME IInv, Next, NEW f \in Fetchers, fetcher'[f] # fetcher[f]
  PROVE  \/ Fetch(f) \/ Find(f) \/ StoreDraw(f) \/ StorePlaceholder(f) \/ Crash
         \/ f = "job" /\ (Saturday \/ Compare \/ FetchShops \/ StoreShops \/ Retry \/ FetchFails)
         \/ f = "job" /\ Returning("job") /\ fetcher["job"].at = "analyze"
         \/ f = "resync" /\ (Resync \/ StorePage \/ ClearAll)
<1>0. DOMAIN fetcher = Fetchers /\ "job" \in Fetchers /\ "resync" \in Fetchers
  BY FetcherIs DEF Fetchers
<1>1. CASE Storing
  <2>1. CASE StorePage
    <3>1. fetcher'["job"] = fetcher["job"]
      BY <1>0, <2>1 DEF StorePage, FetchGoes
    <3> QED
      BY <2>1, <3>1 DEF Fetchers
  <2>2. ASSUME NEW g \in Fetchers, StoreDraw(g) PROVE g = f
    BY <1>0, <2>2 DEF StoreDraw, FetchGoes
  <2>3. ASSUME NEW g \in Fetchers, StorePlaceholder(g) PROVE g = f
    BY <1>0, <2>3 DEF StorePlaceholder, FetchGoes
  <2> QED
    BY <1>1, <2>1, <2>2, <2>3 DEF Storing
<1>2. CASE Fetching
  <2>1. ASSUME Saturday \/ Compare \/ FetchShops \/ Retry \/ FetchFails PROVE f = "job"
    BY <1>0, <2>1 DEF Saturday, Compare, FetchShops, Retry, FetchFails, FetchGoes
  <2>2. ASSUME Resync \/ ClearAll PROVE f = "resync"
    BY <1>0, <2>2 DEF Resync, ClearAll
  <2>3. ASSUME NEW g \in Fetchers, Fetch(g) PROVE g = f
    BY <1>0, <2>3 DEF Fetch
  <2>4. ASSUME NEW g \in Fetchers, Find(g) PROVE g = f
    BY <1>0, <2>4 DEF Find, FetchGoes
  <2> QED
    BY <1>2, <2>1, <2>2, <2>3, <2>4 DEF Fetching
<1>3. CASE Shopping
  <2>1. StoreShops => f = "job"
    BY <1>0 DEF StoreShops
  <2> QED
    BY <1>3, <2>1 DEF Shopping, AskShops, StoreWanted, FindShops
<1>4. ASSUME NEW r \in Runners, Returning(r)
      PROVE  f = "job" /\ Returning("job") /\ fetcher["job"].at = "analyze"
  <2>1. r = "job"
    BY <1>4, ReturningRuns
  <2>2. f = "job"
    BY <1>0, <1>4 DEF Returning, CheckFlag, Unlock, Returns, FetchGoes
  <2>3. run[r].at # "idle"
    BY <1>4, ReturningRuns
  <2>4. run["job"] # NoRun
    BY <2>1, <2>3 DEF NoRun
  <2> QED
    BY <1>4, <2>1, <2>2, <2>4 DEF IInv, RunsOK
<1>5. Using \/ Reading \/ Siting \/ Publish \/ Analyze => UNCHANGED fetcher
  BY UsingLeaves, ReadingLeaves, SitingLeaves, OthersLeave
<1>6. \A r \in Runners : Analysing(r) => UNCHANGED fetcher
  BY AnalysingLeaves
<1> QED
  BY <1>1, <1>2, <1>3, <1>4, <1>5, <1>6, NextIs

LEMMA FetcherTo ==
  ASSUME IInv, NEW f \in Fetchers
  PROVE  /\ Fetch(f) => /\ fetcher'[f].at = IF f = "job" THEN "compare" ELSE "find"
                        /\ fetcher'[f].e = published /\ fetcher'[f].attempt = fetcher[f].attempt
         /\ Find(f) => \/ /\ fetcher'[f] = [fetcher[f] EXCEPT !.at = "store"]
                          /\ row[fetcher[f].e] # "drawn"
                       \/ fetcher'[f] = NoFetch /\ row[fetcher[f].e] = "drawn"
                       \/ fetcher'[f] = [fetcher[f] EXCEPT !.at = "clear"] /\ f # "job"
         /\ StoreDraw(f) => fetcher'[f] = [fetcher[f] EXCEPT !.at = "placeholder"]
         /\ StorePlaceholder(f) =>
                fetcher'[f].at = IF f = "job" THEN "analyze" ELSE "clear"
<1>0. DOMAIN fetcher = Fetchers /\ FetcherOK(fetcher[f])
  BY FetcherIs
<1>1. ASSUME NEW x, FetchGoes(f, x) PROVE fetcher'[f] = [fetcher[f] EXCEPT !.at = x]
  BY <1>0, <1>1 DEF FetchGoes
<1>2. ASSUME Fetch(f)
      PROVE  /\ fetcher'[f].at = IF f = "job" THEN "compare" ELSE "find"
             /\ fetcher'[f].e = published /\ fetcher'[f].attempt = fetcher[f].attempt
  <2>1. PICK x : x = IF f = "job" THEN "compare" ELSE "find"
    OBVIOUS
  <2>2. fetcher' = [fetcher EXCEPT ![f].at = x, ![f].e = published]
    BY <1>2, <2>1 DEF Fetch
  <2>3. fetcher'[f] = [fetcher[f] EXCEPT !.at = x, !.e = published]
    BY <1>0, <2>2
  <2>4. fetcher[f] \in [at : FetchSteps, e : 0..published, todo : SUBSET Episodes,
                         attempt : 0..MaxAttempts]
    BY FetcherIs
  <2>5. fetcher'[f].at = x /\ fetcher'[f].e = published
        /\ fetcher'[f].attempt = fetcher[f].attempt
    BY <2>3, <2>4
  <2> QED
    BY <2>1, <2>5
<1>3. ASSUME Find(f)
      PROVE  \/ fetcher'[f] = [fetcher[f] EXCEPT !.at = "store"] /\ row[fetcher[f].e] # "drawn"
             \/ fetcher'[f] = NoFetch /\ row[fetcher[f].e] = "drawn"
             \/ fetcher'[f] = [fetcher[f] EXCEPT !.at = "clear"] /\ f # "job"
  BY <1>0, <1>1, <1>3 DEF Find
<1>4. StoreDraw(f) => fetcher'[f] = [fetcher[f] EXCEPT !.at = "placeholder"]
  BY <1>1 DEF StoreDraw
<1>5. ASSUME StorePlaceholder(f)
      PROVE  fetcher'[f].at = IF f = "job" THEN "analyze" ELSE "clear"
  <2>1. PICK x : x = IF f = "job" THEN "analyze" ELSE "clear"
    OBVIOUS
  <2>2. FetchGoes(f, x)
    BY <1>5, <2>1 DEF StorePlaceholder
  <2>3. fetcher'[f].at = x
    BY <1>0, <1>1, <2>2 DEF FetcherOK
  <2> QED
    BY <2>1, <2>3
<1> QED
  BY <1>2, <1>3, <1>4, <1>5

LEMMA NoFetchIdles == NoFetch.at = "idle"
BY DEF NoFetch

\* What a fetcher that has found its draw not stored goes on with.
LEMMA FoundMissing ==
  ASSUME IInv, NEW f \in Fetchers, Find(f), fetcher'[f].at = "store"
  PROVE  fetcher[f].at = "find" /\ fetcher'[f].e = fetcher[f].e /\ row[fetcher[f].e] # "drawn"
<1>0. FetcherOK(fetcher[f]) /\ fetcher[f].at = "find"
  BY FetcherIs DEF Find
<1>1. ASSUME fetcher'[f] = [fetcher[f] EXCEPT !.at = "clear"] PROVE FALSE
  BY <1>0, <1>1 DEF FetcherOK
<1>2. fetcher'[f] = [fetcher[f] EXCEPT !.at = "store"] /\ row[fetcher[f].e] # "drawn"
  BY <1>1, FetcherTo, NoFetchIdles
<1> QED
  BY <1>0, <1>2 DEF FetcherOK

LEMMA JobTo ==
  ASSUME IInv
  PROVE  /\ Saturday => fetcher'["job"].at = "fetch"
         /\ Compare => \/ /\ fetcher'["job"] = [fetcher["job"] EXCEPT !.at = "wait"]
                          /\ fetcher["job"].e <= Latest
                       \/ /\ fetcher'["job"] = [fetcher["job"] EXCEPT !.at = "find"]
                          /\ ~ (fetcher["job"].e <= Latest)
         /\ FetchShops => fetcher'["job"] = [fetcher["job"] EXCEPT !.at = "storeShops",
                                                                 !.todo = MissingShops]
         /\ StoreShops => \/ fetcher'["job"] = NoFetch /\ shops' = shops
                          \/ \E e \in fetcher["job"].todo :
                                 /\ fetcher'["job"] = [fetcher["job"] EXCEPT !.todo = @ \ {e}]
                                 /\ StoreShopsOf(e)
         /\ Retry => \/ fetcher'["job"].at = "fetch"
                     \/ fetcher'["job"] = NoFetch /\ ~ (fetcher["job"].attempt < MaxAttempts)
         /\ FetchFails => fetcher'["job"].at = "wait"
         /\ Returning("job") /\ fetcher' # fetcher =>
                \/ fetcher'["job"].at = "shops"
                \/ fetcher'["job"].at = "wait" /\ run["job"].at = "failedUnlock"
<1>0. DOMAIN fetcher = Fetchers /\ "job" \in Fetchers /\ FetcherOK(fetcher["job"])
  BY FetcherIs DEF Fetchers
<1>1. ASSUME NEW x, FetchGoes("job", x) PROVE fetcher'["job"] = [fetcher["job"] EXCEPT !.at = x]
  BY <1>0, <1>1 DEF FetchGoes
<1>2. ASSUME NEW x, FetchGoes("job", x) PROVE fetcher'["job"].at = x
  BY <1>0, <1>1, <1>2 DEF FetcherOK
<1>3. Saturday => fetcher'["job"].at = "fetch"
  BY <1>0 DEF Saturday, NoFetch
<1>4. ASSUME Compare
      PROVE  \/ /\ fetcher'["job"] = [fetcher["job"] EXCEPT !.at = "wait"]
                /\ fetcher["job"].e <= Latest
             \/ /\ fetcher'["job"] = [fetcher["job"] EXCEPT !.at = "find"]
                /\ ~ (fetcher["job"].e <= Latest)
  BY <1>1, <1>4 DEF Compare
<1>5. FetchShops => fetcher'["job"] = [fetcher["job"] EXCEPT !.at = "storeShops",
                                                         !.todo = MissingShops]
  BY <1>0 DEF FetchShops
<1>6. ASSUME StoreShops
      PROVE  \/ fetcher'["job"] = NoFetch /\ shops' = shops
             \/ \E e \in fetcher["job"].todo :
                    /\ fetcher'["job"] = [fetcher["job"] EXCEPT !.todo = @ \ {e}]
                    /\ StoreShopsOf(e)
  BY <1>0, <1>6 DEF StoreShops
<1>7. ASSUME Retry
      PROVE  \/ fetcher'["job"].at = "fetch"
             \/ fetcher'["job"] = NoFetch /\ ~ (fetcher["job"].attempt < MaxAttempts)
  BY <1>0, <1>7 DEF Retry, NoFetch
<1>8. FetchFails => fetcher'["job"].at = "wait"
  BY <1>2 DEF FetchFails
<1>9. ASSUME Returning("job"), fetcher' # fetcher
      PROVE  \/ fetcher'["job"].at = "shops"
             \/ fetcher'["job"].at = "wait" /\ run["job"].at = "failedUnlock"
  BY <1>2, <1>9 DEF Returning, CheckFlag, Unlock, Returns
<1> QED
  BY <1>3, <1>4, <1>5, <1>6, <1>7, <1>8, <1>9

LEMMA JobMoves ==
  ASSUME IInv, Next, fetcher'["job"] # fetcher["job"]
  PROVE  \/ (Saturday \/ Retry) /\ fetcher'["job"].at = "fetch"
         \/ Fetch("job") /\ fetcher'["job"].at = "compare"
         \/ Compare /\ fetcher'["job"].at \in {"wait", "find"}
         \/ Find("job") /\ fetcher'["job"].at \in {"store", "idle"}
         \/ StoreDraw("job") /\ fetcher'["job"].at = "placeholder"
         \/ StorePlaceholder("job") /\ fetcher'["job"].at = "analyze"
         \/ Returning("job") /\ fetcher["job"].at = "analyze" /\ fetcher'["job"].at = "shops"
         \/ Returning("job") /\ fetcher'["job"].at = "wait" /\ run["job"].at = "failedUnlock"
         \/ FetchShops /\ fetcher'["job"].at = "storeShops"
         \/ StoreShops /\ fetcher'["job"].at \in {"storeShops", "idle"}
         \/ Retry /\ fetcher'["job"].at = "idle" /\ ~ (fetcher["job"].attempt < MaxAttempts)
         \/ FetchFails /\ fetcher'["job"].at = "wait"
         \/ Crash /\ fetcher'["job"].at = "idle"
<1>0. "job" \in Fetchers /\ FetcherOK(fetcher["job"])
  BY FetcherIs DEF Fetchers
<1>1. /\ Fetch("job") => fetcher'["job"].at = "compare"
      /\ StorePlaceholder("job") => fetcher'["job"].at = "analyze"
  BY <1>0, FetcherTo
<1>2. Find("job") => fetcher'["job"].at \in {"store", "idle"}
  <2>1. ASSUME fetcher'["job"] = [fetcher["job"] EXCEPT !.at = "store"]
        PROVE  fetcher'["job"].at = "store"
    BY <1>0, <2>1 DEF FetcherOK
  <2>2. NoFetch.at = "idle"
    BY DEF NoFetch
  <2>3. ASSUME Find("job")
        PROVE  fetcher'["job"] = [fetcher["job"] EXCEPT !.at = "store"] \/ fetcher'["job"] = NoFetch
    BY <1>0, <2>3, FetcherTo
  <2> QED
    BY <2>1, <2>2, <2>3
<1>3. StoreDraw("job") => fetcher'["job"].at = "placeholder"
  <2>1. ASSUME fetcher'["job"] = [fetcher["job"] EXCEPT !.at = "placeholder"]
        PROVE  fetcher'["job"].at = "placeholder"
    BY <1>0, <2>1 DEF FetcherOK
  <2> QED
    BY <1>0, <2>1, FetcherTo
<1>4. Compare => fetcher'["job"].at \in {"wait", "find"}
  BY <1>0, JobTo DEF FetcherOK
<1>5. FetchShops => fetcher'["job"].at = "storeShops"
  BY <1>0, JobTo DEF FetcherOK
<1>6. StoreShops => fetcher'["job"].at \in {"storeShops", "idle"}
  <2>1. ASSUME NEW e, fetcher'["job"] = [fetcher["job"] EXCEPT !.todo = @ \ {e}], StoreShops
        PROVE  fetcher'["job"].at = "storeShops"
    BY <1>0, <2>1 DEF FetcherOK, StoreShops
  <2>2. NoFetch.at = "idle"
    BY DEF NoFetch
  <2>3. ASSUME StoreShops
        PROVE  \/ fetcher'["job"] = NoFetch
               \/ \E e : fetcher'["job"] = [fetcher["job"] EXCEPT !.todo = @ \ {e}]
    BY <2>3, JobTo
  <2> QED
    BY <2>1, <2>2, <2>3
<1>7. Retry => \/ fetcher'["job"].at = "fetch"
               \/ fetcher'["job"].at = "idle" /\ ~ (fetcher["job"].attempt < MaxAttempts)
  BY JobTo DEF NoFetch
<1>8. Crash => fetcher'["job"].at = "idle"
  BY <1>0 DEF Crash, NoFetch
<1>9. /\ Saturday => fetcher'["job"].at = "fetch"
      /\ FetchFails => fetcher'["job"].at = "wait"
      /\ Returning("job") => \/ fetcher'["job"].at = "shops"
                             \/ fetcher'["job"].at = "wait" /\ run["job"].at = "failedUnlock"
  BY JobTo
<1> QED
  BY <1>0, <1>1, <1>2, <1>3, <1>4, <1>5, <1>6, <1>7, <1>8, <1>9, FetcherMovedBy

LEMMA StoringShopsOf ==
  ASSUME shops \in [Episodes -> Nat], \A d \in Episodes : shops[d] <= 1,
         NEW e \in Episodes, shops[e] = 0, StoreShopsOf(e)
  PROVE  /\ \A d \in Episodes : shops'[d] <= 1
         /\ \A d \in Episodes : d # e /\ shops[d] = 0 => shops'[d] = 0
BY DEF StoreShopsOf

LEMMA ShopsOnceKept ==
  ASSUME IInv, Next
  PROVE  ShopsOnce'
<1> SUFFICES ASSUME setting \notin {"weekly", "race"}
             PROVE  /\ fetcher'["job"].at = "storeShops" =>
                          wanted' = {} /\ \A e \in fetcher'["job"].todo : shops'[e] = 0
                    /\ \A e \in wanted' : shops'[e] = 0
                    /\ \A e \in Episodes : shops'[e] <= 1
  BY SettingStays DEF ShopsOnce
<1>0. /\ "job" \in Fetchers /\ FetcherOK(fetcher["job"]) /\ shops \in [Episodes -> Nat]
      /\ wanted \subseteq Episodes /\ \A e \in wanted : shops[e] = 0
      /\ \A e \in Episodes : shops[e] <= 1
      /\ fetcher["job"].at = "storeShops" =>
            wanted = {} /\ \A e \in fetcher["job"].todo : shops[e] = 0
  BY FetcherIs DEF Fetchers, IInv, CountsOK, ShopsOnce
<1>1. CASE StoreShops
  <2>1. fetcher["job"].at = "storeShops" /\ wanted' = wanted
    BY <1>1 DEF StoreShops
  <2>2. CASE fetcher'["job"] = NoFetch /\ shops' = shops
    BY <1>0, <2>1, <2>2 DEF NoFetch
  <2>3. ASSUME NEW e \in fetcher["job"].todo, StoreShopsOf(e),
               fetcher'["job"] = [fetcher["job"] EXCEPT !.todo = @ \ {e}]
        PROVE  /\ \A d \in fetcher'["job"].todo : shops'[d] = 0
               /\ \A d \in Episodes : shops'[d] <= 1
    <3>1. e \in Episodes /\ shops[e] = 0 /\ fetcher["job"].todo \subseteq Episodes
      BY <1>0, <2>1 DEF FetcherOK
    <3>2. fetcher'["job"].todo = fetcher["job"].todo \ {e}
      BY <1>0, <2>3 DEF FetcherOK
    <3>3. /\ \A d \in Episodes : shops'[d] <= 1
          /\ \A d \in Episodes : d # e /\ shops[d] = 0 => shops'[d] = 0
      BY <1>0, <2>3, <3>1, StoringShopsOf
    <3> QED
      BY <1>0, <2>1, <3>1, <3>2, <3>3
  <2> QED
    BY <1>0, <1>1, <2>1, <2>2, <2>3, JobTo
<1>2. CASE StoreWanted
  <2>1. PICK e \in wanted : StoreShopsOf(e) /\ wanted' = wanted \ {e}
    BY <1>2 DEF StoreWanted
  <2>2. fetcher' = fetcher /\ fetcher["job"].at # "storeShops"
    BY <1>0, <1>2, <2>1 DEF StoreWanted
  <2>3. /\ \A d \in Episodes : shops'[d] <= 1
        /\ \A d \in Episodes : d # e /\ shops[d] = 0 => shops'[d] = 0
    BY <1>0, <2>1, StoringShopsOf
  <2> QED
    BY <1>0, <2>1, <2>2, <2>3
<1>3. CASE AskShops
  <2>1. fetcher' = fetcher /\ fetcher["job"].at # "storeShops" /\ shops' = shops
        /\ wanted' = MissingShops
    BY <1>3 DEF AskShops
  <2> QED
    BY <1>0, <2>1 DEF MissingShops
<1>4. CASE ~ StoreShops /\ ~ StoreWanted /\ ~ AskShops
  <2>1. shops' = shops /\ wanted' = wanted
    BY <1>4, PredictionsMove DEF Shopping, FindShops
  <2>2. CASE fetcher'["job"] = fetcher["job"]
    BY <1>0, <2>1, <2>2
  <2>3. CASE FetchShops
    <3>1. fetcher'["job"].todo = MissingShops
      BY <1>0, <2>3, JobTo DEF FetcherOK
    <3>2. wanted = {}
      BY <2>3 DEF FetchShops
    <3> QED
      BY <1>0, <2>1, <3>1, <3>2 DEF MissingShops
  <2>4. CASE fetcher'["job"] # fetcher["job"] /\ ~ FetchShops
    <3>1. fetcher'["job"].at # "storeShops"
      BY <1>4, <2>4, JobMoves
    <3> QED
      BY <1>0, <2>1, <3>1
  <2> QED
    BY <2>2, <2>3, <2>4
<1> QED
  BY <1>1, <1>2, <1>3, <1>4

-----------------------------------------------------------------------------
(* The row of the coming draw.                                             *)

LEMMA ResyncIdles ==
  ASSUME IInv, setting # "manual"
  PROVE  fetcher["resync"].at = "idle"
BY DEF IInv, FetchersOK, NoFetch

LEMMA OnlyJob ==
  ASSUME IInv, setting # "manual"
  PROVE  ~ StorePage /\ ~ ClearAll /\ \A f \in Fetchers : fetcher[f].at # "idle" => f = "job"
BY ResyncIdles DEF StorePage, ClearAll, Fetchers

LEMMA LastIsFetchedKept ==
  ASSUME IInv, Next
  PROVE  LastIsFetched'
<1> SUFFICES ASSUME setting = "faults",
                    fetcher'["job"].at \in {"compare", "find", "store", "placeholder"}
             PROVE  Drawn' \subseteq 1..fetcher'["job"].e
  BY SettingStays DEF LastIsFetched
<1>0. /\ "job" \in Fetchers /\ FetcherOK(fetcher["job"]) /\ Drawn \subseteq 1..published
      /\ fetcher["job"].at \in {"compare", "find", "store", "placeholder"} =>
             Drawn \subseteq 1..fetcher["job"].e
  BY FetcherIs DEF Fetchers, IInv, RowsOK, LastIsFetched
<1>1. CASE StoreDraw("job")
  <2>1. Drawn' = Drawn \cup {fetcher["job"].e} /\ fetcher["job"].e \in 1..published
    BY <1>0, <1>1, StoringDraw
  <2>2. fetcher'["job"].e = fetcher["job"].e /\ fetcher["job"].at = "store"
    BY <1>0, <1>1, FetcherTo DEF FetcherOK, StoreDraw
  <2>3. fetcher["job"].e \in 1..fetcher["job"].e
    BY <2>1
  <2>4. Drawn' \subseteq 1..fetcher["job"].e
    BY <1>0, <2>1, <2>2, <2>3
  <2> QED
    BY <2>2, <2>4
<1>2. CASE ~ StoreDraw("job")
  <2>1. Drawn' = Drawn
    <3>1. \A f \in Fetchers : StoreDraw(f) => f = "job"
      BY OnlyJob DEF StoreDraw
    <3>2. \A f \in Fetchers : StorePlaceholder(f) => Drawn' = Drawn
      BY StoringPlaceholder
    <3>3. row' = row => Drawn' = Drawn
      BY DEF Drawn
    <3> QED
      BY <1>2, <3>1, <3>2, <3>3, RowsMove, OnlyJob DEF Storing
  <2>2. CASE fetcher'["job"] = fetcher["job"]
    BY <1>0, <2>1, <2>2
  <2>3. CASE Fetch("job")
    BY <1>0, <2>1, <2>3, FetcherTo
  <2>4. CASE Compare
    <3>1. fetcher["job"].at = "compare" /\ fetcher'["job"].e = fetcher["job"].e
      BY <1>0, <2>4, JobTo DEF Compare, FetcherOK
    <3> QED
      BY <1>0, <2>1, <3>1
  <2>5. CASE Find("job") /\ fetcher'["job"].at = "store"
    <3>1. fetcher["job"].at = "find" /\ fetcher'["job"].e = fetcher["job"].e
      BY <1>0, <2>5, FoundMissing
    <3> QED
      BY <1>0, <2>1, <3>1
  <2> QED
    BY <1>2, <2>2, <2>3, <2>4, <2>5, JobMoves
<1> QED
  BY <1>1, <1>2

\* A row that is there stays.
LEMMA RowsStay ==
  ASSUME IInv, Next, NEW e \in Episodes, row[e] # "none"
  PROVE  row'[e] # "none"
<1>1. row \in [Episodes -> {"none", "placeholder", "drawn"}]
  BY DEF IInv, RowsOK
<1>2. StorePage => row'[e] # "none"
  BY <1>1 DEF StorePage
<1>3. \A f \in Fetchers : StoreDraw(f) \/ StorePlaceholder(f) => row'[e] # "none"
  BY <1>1 DEF StoreDraw, StorePlaceholder
<1> QED
  BY <1>2, <1>3, RowsMove DEF Storing

LEMMA CalmWeeks ==
  ASSUME IInv, setting # "faults"
  PROVE  /\ NoneMissed /\ JobDelivers
         /\ week \in Nat /\ week + 1 \in Episodes /\ week + 2 \in Episodes
         /\ Drawn \subseteq 1..(week + 1) /\ 1..week \subseteq Drawn
         /\ ~ FetchFails /\ ~ Crash /\ \A r \in Runners : ~ RunFails(r)
<1>1. Bounds /\ RowsOK /\ NoneMissed /\ JobDelivers
  BY DEF IInv, Upcoming
<1>2. Drawn \subseteq 1..(week + 1)
  BY <1>1, Numbers DEF RowsOK
<1>3. ~ CanFail
  BY DEF CanFail, Trouble
<1>4. ASSUME NEW r \in Runners PROVE ~ RunFails(r)
  <2>1. ~ NoRow(r)
    BY <1>1 DEF NoneMissed, NoRow, Rows
  <2> QED
    BY <1>3, <2>1 DEF RunFails
<1> QED
  BY <1>1, <1>2, <1>3, <1>4, Numbers DEF Episodes, NoneMissed, FetchFails, Crash

\* A week begins with the draw of the one before stored.
LEMMA SaturdayIsReady ==
  ASSUME IInv, Saturday, setting # "faults"
  PROVE  /\ week + 1 \in Drawn /\ row[week + 2] # "none" /\ row[week + 2] # "drawn"
         /\ fetcher'["job"].at = "fetch" /\ fetcher'["resync"].at = "idle"
<1>1. fetcher["job"] = NoFetch /\ fetcher["resync"] = NoFetch
  BY DEF Saturday, Quiet, Fetchers
<1>2. week + 1 \in Drawn
  BY <1>1, CalmWeeks DEF JobDelivers, NoFetch
<1>3. row[week + 2] # "none"
  BY <1>1, <1>2, CalmWeeks DEF NoneMissed, Drawn, Fetchers, NoFetch
<1>4. row[week + 2] # "drawn"
  BY CalmWeeks DEF Drawn
<1>5. DOMAIN fetcher = Fetchers /\ "job" \in Fetchers /\ "resync" \in Fetchers
  BY FetcherIs DEF Fetchers
<1> QED
  BY <1>1, <1>2, <1>3, <1>4, <1>5 DEF Saturday, NoFetch

LEMMA PlaceholderWaits ==
  ASSUME IInv, Next, setting # "faults", NEW f \in Fetchers, fetcher[f].at = "placeholder",
         ~ StorePlaceholder(f)
  PROVE  fetcher'[f].at = "placeholder"
<1>1. ~ Saturday
  <2>1. ~ Quiet
    BY NoFetchIdles DEF Quiet
  <2> QED
    BY <2>1 DEF Saturday
<1>2. ~ Fetch(f) /\ ~ Find(f) /\ ~ StoreDraw(f)
  BY DEF Fetch, Find, StoreDraw
<1>3. f = "job" => /\ ~ Compare /\ ~ FetchShops /\ ~ StoreShops /\ ~ Retry
                   /\ fetcher["job"].at # "analyze"
  BY DEF Compare, FetchShops, StoreShops, Retry
<1>4. f = "resync" => ~ Resync /\ ~ StorePage /\ ~ ClearAll
  BY NoFetchIdles DEF Resync, StorePage, ClearAll
<1> QED
  BY <1>1, <1>2, <1>3, <1>4, FetcherMovedBy, CalmWeeks

\* Who is about to store a draw stores that of the week.
LEMMA DrawOfTheWeek ==
  ASSUME IInv, Next, setting # "faults", ~ Saturday, NEW f \in Fetchers,
         fetcher'[f].at \in {"store", "placeholder"}
  PROVE  fetcher'[f].e = week + 1
<1>0. DOMAIN fetcher = Fetchers /\ FetcherOK(fetcher[f])
  BY FetcherIs
<1>1. CASE fetcher'[f] = fetcher[f]
  BY <1>1, CalmWeeks DEF NoneMissed
<1>2. CASE StoreDraw(f)
  <2>1. fetcher'[f].e = fetcher[f].e /\ fetcher[f].at = "store"
    BY <1>0, <1>2, FetcherTo DEF FetcherOK, StoreDraw
  <2> QED
    BY <2>1, CalmWeeks DEF NoneMissed
<1>3. CASE Find(f)
  <2>1. fetcher'[f].at # "placeholder"
    <3>1. NoFetch.at # "placeholder"
      BY NoFetchIdles
    <3>2. [fetcher[f] EXCEPT !.at = "store"].at # "placeholder"
          /\ [fetcher[f] EXCEPT !.at = "clear"].at # "placeholder"
      BY <1>0 DEF FetcherOK
    <3> QED
      BY <1>3, <3>1, <3>2, FetcherTo
  <2>2. fetcher'[f].e = fetcher[f].e /\ fetcher[f].at = "find" /\ row[fetcher[f].e] # "drawn"
    BY <1>3, <2>1, FoundMissing
  <2>3. fetcher[f].e \in 1..(week + 1)
    BY <1>0, <2>2, Numbers DEF FetcherOK, IInv
  <2>4. fetcher[f].e \notin 1..week
    BY <2>2, CalmWeeks DEF Drawn
  <2> QED
    BY <2>2, <2>3, <2>4, CalmWeeks
<1>4. CASE f = "job" /\ fetcher'[f] # fetcher[f] /\ ~ StoreDraw(f) /\ ~ Find(f)
  BY <1>4, JobMoves
<1>5. CASE f = "resync" /\ fetcher'[f] # fetcher[f] /\ ~ StoreDraw(f) /\ ~ Find(f)
  <2>1. Fetch(f) \/ StorePlaceholder(f) => fetcher'[f].at \in {"find", "clear"}
    BY <1>5, FetcherTo
  <2>2. Resync => fetcher'[f].at = "pages"
    BY <1>0, <1>5 DEF Resync, NoFetch
  <2>3. ClearAll => fetcher'[f].at = "idle"
    BY <1>0, <1>5, NoFetchIdles DEF ClearAll
  <2>4. StorePage => fetcher'[f].at \in {"fetch", "pages"}
    BY <1>0, <1>5 DEF StorePage, FetchGoes, FetcherOK
  <2> QED
    BY <1>5, <2>1, <2>2, <2>3, <2>4, FetcherMovedBy, CalmWeeks
<1> QED
  BY <1>1, <1>2, <1>3, <1>4, <1>5 DEF Fetchers

\* Where no week is missed the rows have no hole, and what an analysis predicts for
\* is there.
LEMMA UnpredictedHaveRows ==
  ASSUME IInv, setting # "faults"
  PROVE  Unpredicted \subseteq Rows
<1>1. /\ week \in Nat /\ week + 1 \in Episodes /\ week + 2 \in Episodes
      /\ 1..week \subseteq Drawn /\ row[week + 1] # "none" /\ Rows \subseteq 1..(week + 2)
  BY CalmWeeks DEF NoneMissed, IInv, RowsOK
<1>2. PICK n \in {week + 1, week + 2} : Rows = 1..n
  <2>1. 1..(week + 1) \subseteq Rows
    <3>1. Drawn \subseteq Rows /\ week + 1 \in Rows
      BY <1>1 DEF Drawn, Rows
    <3> QED
      BY <1>1, <3>1
  <2>2. CASE week + 2 \in Rows
    <3>1. 1..(week + 2) \subseteq Rows
      BY <1>1, <2>1, <2>2
    <3>2. Rows = 1..(week + 2)
      BY <1>1, <3>1
    <3> QED
      BY <3>2
  <2>3. CASE week + 2 \notin Rows
    <3>1. Rows \subseteq 1..(week + 1)
      <4>1. ASSUME NEW e \in Rows PROVE e \in 1..(week + 1)
        <5>1. e \in 1..(week + 2) /\ e # week + 2
          BY <1>1, <2>3
        <5> QED
          BY <1>1, <5>1
      <4> QED
        BY <4>1
    <3>2. Rows = 1..(week + 1)
      BY <2>1, <3>1
    <3> QED
      BY <3>2
  <2> QED
    BY <2>2, <2>3
<1>3. n \in Nat /\ n >= 1
  BY <1>1, <1>2
<1>4. Cardinality(1..n) = IF 1 > n THEN 0 ELSE n - 1 + 1
  BY <1>3, FS_Interval
<1>5. Cardinality(Rows) = n
  BY <1>2, <1>3, <1>4
<1> QED
  BY <1>2, <1>3, <1>5 DEF Unpredicted

LEMMA PredictsRows ==
  ASSUME IInv, Next, setting # "faults", NEW r \in Runners, run'[r].at = "predict"
  PROVE  run'[r].todo \subseteq Rows'
<1>1. Rows \subseteq Rows'
  BY RowsStay DEF Rows
<1>2. DOMAIN run = Runners /\ RunOK(run[r])
  BY RunIs
<1>3. run[r].at = "predict" => run[r].todo \subseteq Rows
  BY CalmWeeks DEF NoneMissed
<1>4. CASE run'[r] = run[r]
  BY <1>1, <1>3, <1>4
<1>5. CASE FindKeys(r)
  <2>1. run'[r].todo = Unpredicted
    BY <1>2, <1>5 DEF FindKeys, RunOK
  <2> QED
    BY <1>1, <2>1, UnpredictedHaveRows
<1>6. CASE Predict(r)
  <2>1. run[r].at = "predict" /\ run'[r].todo \subseteq run[r].todo
    BY <1>2, <1>6 DEF Predict, RunGoes, RunOK
  <2> QED
    BY <1>1, <1>3, <2>1
<1> QED
  BY <1>4, <1>5, <1>6, WhoPredicts

LEMMA NoneMissedKept ==
  ASSUME IInv, Next, setting # "faults"
  PROVE  NoneMissed'
<1>0. week \in Nat /\ week + 1 \in Episodes /\ week + 2 \in Episodes /\ NoneMissed
  BY CalmWeeks
<1>1. \A r \in Runners : run'[r].at \notin {"failed", "failedUnlock"}
  <2>1. ASSUME NEW r \in Runners, run'[r].at \in {"failed", "failedUnlock"} PROVE FALSE
    <3>1. run[r].at \notin {"failed", "failedUnlock"}
      BY <1>0 DEF NoneMissed
    <3>2. CASE Unflag(r)
      <4>1. RunGoes(r, "unlock")
        BY <3>1, <3>2 DEF Unflag
      <4>2. run'[r].at = "unlock"
        BY <4>1, RunIs DEF RunGoes, RunOK
      <4> QED
        BY <2>1, <4>2
    <3>3. Predict(r) => run'[r].at \in {"predict", "findUnscored"}
      BY RunIs DEF Predict, RunGoes, RunOK
    <3>4. Analysing(r) => Unflag(r)
      BY <2>1, <3>3, AnalysingTo, CalmWeeks DEF Analysing
    <3> QED
      BY <2>1, <3>1, <3>2, <3>4, RunnerIs, ReturningTo, CalmWeeks
  <2> QED
    BY <2>1
<1>4. ASSUME NEW r \in Runners, run'[r].at = "predict"
      PROVE  run'[r].todo \subseteq Rows'
  BY <1>4, PredictsRows
<1>2. CASE Saturday
  <2>1. week' = week + 1 /\ row' = row
    BY <1>2 DEF Saturday, db
  <2>2. Drawn' = Drawn
    BY <2>1 DEF Drawn
  <2>3. 1..(week + 1) \subseteq Drawn
    BY <1>0, <1>2, SaturdayIsReady, CalmWeeks
  <2>4. \A f \in Fetchers : fetcher'[f].at \notin {"store", "placeholder"}
    BY <1>2, SaturdayIsReady DEF Fetchers
  <2>5. row'[week' + 1] # "none" /\ row'[week' + 1] # "drawn"
    BY <1>0, <1>2, <2>1, SaturdayIsReady
  <2> QED
    BY <1>1, <1>4, <2>1, <2>2, <2>3, <2>4, <2>5 DEF NoneMissed
<1>3. CASE ~ Saturday
  <2>1. week' = week
    BY <1>3, WeekMoves
  <2>2. 1..week \subseteq Drawn'
    BY CalmWeeks, DrawsStay
  <2>3. row'[week + 1] # "none"
    BY <1>0, RowsStay DEF NoneMissed
  <2>4. ASSUME row'[week + 1] = "drawn"
        PROVE  row'[week + 2] # "none" \/ \E f \in Fetchers : fetcher'[f].at = "placeholder"
    <3>1. CASE row[week + 1] = "drawn"
      <4>1. CASE row[week + 2] # "none"
        BY <1>0, <4>1, RowsStay
      <4>2. CASE row[week + 2] = "none"
        <5>1. PICK f \in Fetchers : fetcher[f].at = "placeholder"
          BY <1>0, <3>1, <4>2 DEF NoneMissed
        <5>2. CASE StorePlaceholder(f)
          <6>1. fetcher[f].e = week + 1
            BY <1>0, <5>1 DEF NoneMissed
          <6>2. row' = [row EXCEPT ![fetcher[f].e + 1] = "placeholder"]
                /\ row \in [Episodes -> {"none", "placeholder", "drawn"}]
            BY <5>2, StoringPlaceholder DEF IInv, RowsOK
          <6>3. fetcher[f].e + 1 = week + 2
            BY <1>0, <6>1
          <6> QED
            BY <1>0, <6>2, <6>3
        <5>3. CASE ~ StorePlaceholder(f)
          BY <5>1, <5>3, PlaceholderWaits
        <5> QED
          BY <5>2, <5>3
      <4> QED
        BY <4>1, <4>2
    <3>2. CASE row[week + 1] # "drawn"
      <4>1. PICK f \in Fetchers : StoreDraw(f)
        <5>1. StorePage => row'[week + 1] = row[week + 1]
          <6>1. fetcher["resync"].at = "pages" =>
                    fetcher["resync"].todo \subseteq 1..(published - 1)
            BY FetcherIs DEF Fetchers, FetcherOK
          <6>2. \A e \in 1..(published - 1) : e # week + 1
            BY Numbers DEF IInv
          <6>3. row \in [Episodes -> {"none", "placeholder", "drawn"}]
            BY DEF IInv, RowsOK
          <6> QED
            BY <1>0, <6>1, <6>2, <6>3 DEF StorePage
        <5>2. \A f \in Fetchers : StorePlaceholder(f) => Drawn' = Drawn
          BY StoringPlaceholder
        <5>3. Drawn' # Drawn /\ row' # row
          BY <1>0, <2>4, <3>2 DEF Drawn
        <5> QED
          BY <2>4, <3>2, <5>1, <5>2, <5>3, RowsMove DEF Storing
      <4>2. fetcher'[f].at = "placeholder"
        BY <4>1, FetcherTo, FetcherIs DEF FetcherOK
      <4> QED
        BY <4>2
    <3> QED
      BY <3>1, <3>2
  <2>5. \A f \in Fetchers : fetcher'[f].at \in {"store", "placeholder"} => fetcher'[f].e = week + 1
    BY <1>3, DrawOfTheWeek
  <2> QED
    BY <1>1, <1>4, <2>1, <2>2, <2>3, <2>4, <2>5 DEF NoneMissed
<1> QED
  BY <1>2, <1>3

LEMMA JobDeliversKept ==
  ASSUME IInv, Next, setting # "faults"
  PROVE  JobDelivers'
<1> DEFINE a == fetcher["job"]
           b == fetcher'["job"]
<1>0. /\ week \in Nat /\ NoneMissed /\ JobDelivers /\ Bounds /\ RowsOK
      /\ "job" \in Fetchers /\ FetcherOK(a)
  BY CalmWeeks, FetcherIs DEF IInv, Fetchers
<1>1. CASE Saturday
  BY <1>1, SaturdayIsReady DEF JobDelivers
<1>2. CASE ~ Saturday
  <2>1. week' = week /\ Drawn \subseteq Drawn'
    BY <1>2, WeekMoves, DrawsStay
  <2>2. CASE b = a
    BY <1>0, <2>1, <2>2 DEF JobDelivers
  <2>3. CASE b # a /\ b.at = "find"
    <3>1. Compare
      BY <2>3, JobMoves
    <3>2. a.at = "compare" /\ b.e = a.e /\ ~ (a.e <= Latest)
      <4>1. a.at = "compare"
        BY <3>1 DEF Compare
      <4>2. b # [a EXCEPT !.at = "wait"]
        BY <1>0, <2>3 DEF FetcherOK
      <4>3. b = [a EXCEPT !.at = "find"] /\ ~ (a.e <= Latest)
        BY <3>1, <4>2, JobTo
      <4> QED
        BY <1>0, <4>1, <4>3 DEF FetcherOK
    <3>3. a.e \in 1..(week + 1)
      BY <1>0, <3>2, Numbers DEF FetcherOK
    <3>4. a.e \notin Drawn
      BY <1>0, <3>2, LatestIsLast
    <3>5. b.e = week + 1
      BY <1>0, <3>2, <3>3, <3>4, CalmWeeks
    <3> QED
      BY <2>1, <2>3, <3>5 DEF JobDelivers
  <2>4. CASE b # a /\ b.at = "compare"
    <3>1. Fetch("job")
      BY <2>4, JobMoves
    <3>2. b.e = published /\ b.attempt = a.attempt
      BY <1>0, <3>1, FetcherTo
    <3>3. a.attempt = MaxAttempts => published > week
      BY <1>0, <3>1, Numbers DEF Fetch, InTime, Trouble
    <3> QED
      BY <1>0, <2>1, <2>4, <3>2, <3>3, Numbers DEF JobDelivers
  <2>5. CASE b # a /\ b.at = "wait"
    <3>1. Compare
      <4>1. run["job"].at # "failedUnlock"
        BY <1>0 DEF NoneMissed, Runners
      <4> QED
        BY <2>5, <4>1, JobMoves, CalmWeeks
    <3>2. a.at = "compare" /\ b.attempt = a.attempt /\ a.e <= Latest
      <4>1. a.at = "compare"
        BY <3>1 DEF Compare
      <4>2. b # [a EXCEPT !.at = "find"]
        BY <1>0, <2>5 DEF FetcherOK
      <4>3. b = [a EXCEPT !.at = "wait"] /\ a.e <= Latest
        BY <3>1, <4>2, JobTo
      <4> QED
        BY <1>0, <4>1, <4>3 DEF FetcherOK
    <3>3. a.attempt = MaxAttempts => week + 1 \in Drawn
      <4>1. Latest \in Drawn /\ Latest \in Nat /\ Latest <= week + 1
        BY <1>0, LatestIsLast, CalmWeeks, Numbers
      <4> QED
        BY <1>0, <3>2, <4>1 DEF JobDelivers
    <3> QED
      BY <2>1, <2>5, <3>2, <3>3 DEF JobDelivers
  <2>6. CASE b # a /\ b.at \in {"idle", "placeholder", "analyze", "shops", "storeShops"}
    <3>1. CASE a.at \in {"idle", "placeholder", "analyze", "shops", "storeShops"}
      BY <1>0, <2>1, <2>6, <3>1 DEF JobDelivers
    <3>2. CASE Find("job")
      <4>1. a.at = "find" /\ a.e = week + 1
        BY <1>0, <3>2 DEF Find, JobDelivers
      <4>2. row[a.e] = "drawn"
        <5>1. [a EXCEPT !.at = "store"].at = "store"
          BY <1>0 DEF FetcherOK
        <5> QED
          BY <1>0, <2>6, <3>2, <5>1, FetcherTo
      <4>3. week + 1 \in Drawn
        BY <4>1, <4>2, CalmWeeks DEF Drawn
      <4> QED
        BY <2>1, <2>6, <4>3 DEF JobDelivers
    <3>3. CASE StoreDraw("job")
      <4>1. a.e = week + 1
        BY <1>0, <3>3 DEF StoreDraw, NoneMissed
      <4>2. week + 1 \in Drawn'
        BY <1>0, <3>3, <4>1, StoringDraw
      <4> QED
        BY <2>1, <2>6, <4>2 DEF JobDelivers
    <3>4. CASE Retry
      <4>1. a.at = "wait" /\ ~ (a.attempt < MaxAttempts)
        BY <2>6, <3>4, JobTo DEF Retry
      <4>2. a.attempt = MaxAttempts
        BY <1>0, <4>1, Numbers DEF FetcherOK
      <4> QED
        BY <1>0, <2>1, <2>6, <4>1, <4>2 DEF JobDelivers
    <3>5. CASE StorePlaceholder("job") \/ FetchShops \/ StoreShops
      BY <3>1, <3>5 DEF StorePlaceholder, FetchShops, StoreShops
    <3> QED
      BY <2>6, <3>1, <3>2, <3>3, <3>4, <3>5, JobMoves, CalmWeeks
  <2>7. CASE b # a /\ b.at \notin {"find", "compare", "wait", "idle", "placeholder", "analyze",
                                  "shops", "storeShops"}
    BY <2>7 DEF JobDelivers
  <2> QED
    BY <2>2, <2>3, <2>4, <2>5, <2>6, <2>7
<1> QED
  BY <1>1, <1>2

LEMMA UpcomingKept ==
  ASSUME IInv, Next
  PROVE  Upcoming'
BY SettingStays, NoneMissedKept, JobDeliversKept DEF Upcoming

-----------------------------------------------------------------------------
(* What is cached about draws.                                             *)

LEMMA KeysAre ==
  ASSUME NEW k \in Keys, k[1] # "status"
  PROVE  \/ k[1] = "all" /\ View(k).drawn = Drawn /\ \A e : k \in Cleared(e)
         \/ k[1] = "latest" /\ View(k).drawn = {Latest} /\ \A e : k \in Cleared(e)
         \/ k[1] = "episode" /\ View(k).drawn = Drawn \cap {k[2]} /\ k[2] \in Episodes
            /\ \A e : k[2] = e => k \in Cleared(e)
<1>1. k \in CacheKeys
  BY DrawAssumption
<1>2. CASE k[1] = "all"
  <2>1. k = <<"all", 0>>
    BY <1>1, <1>2 DEF CacheKeys
  <2> QED
    BY <1>2, <2>1 DEF View, Seen, Cleared
<1>3. CASE k[1] = "latest"
  <2>1. k = <<"latest", 0>>
    BY <1>1, <1>3 DEF CacheKeys
  <2> QED
    BY <1>3, <2>1 DEF View, Seen, Cleared
<1>4. CASE k[1] = "episode"
  <2>1. k[2] \in Episodes /\ k = <<"episode", k[2]>>
    BY <1>1, <1>4 DEF CacheKeys
  <2>2. View(k).drawn = Drawn \cap {k[2]}
    BY <1>4 DEF View, Seen
  <2> QED
    BY <1>4, <2>1, <2>2 DEF Cleared
<1> QED
  BY <1>1, <1>2, <1>3, <1>4 DEF CacheKeys

\* What a reader is shown of the draws depends on them only.
LEMMA SameDrawsSameView ==
  ASSUME NEW k \in Keys, k[1] # "status", Drawn' = Drawn
  PROVE  View(k).drawn' = View(k).drawn
<1>1. Latest' = Latest
  BY DEF Latest
<1>2. CASE k[1] = "all"
  BY <1>2 DEF View, Seen
<1>3. CASE k[1] = "latest"
  BY <1>1, <1>3 DEF View, Seen
<1>4. CASE k[1] = "episode"
  BY <1>4 DEF View, Seen
<1> QED
  BY <1>2, <1>3, <1>4, KeysAre

\* The event of a draw stays on its way until its handler has cleared.
LEMMA EventStays ==
  ASSUME IInv, Next, setting = "readers", NEW k, Clears(k)
  PROVE  \/ Clears(k)'
         \/ HandleDrawn("jobDrawn") /\ k \in Cleared(run["jobDrawn"].e)
<1>0. "job" \in Fetchers /\ "jobDrawn" \in Runners /\ Handler("job") = "jobDrawn"
  BY DEF Fetchers, Runners, Handler
<1>1. CASE fetcher["job"].at = "placeholder" /\ k \in Cleared(fetcher["job"].e)
  <2>1. CASE StorePlaceholder("job")
    <3>1. run'["jobDrawn"] = [at |-> "drawn", e |-> fetcher["job"].e, todo |-> {}]
      BY <1>0, <2>1, PlaceholderRuns
    <3>2. run'["jobDrawn"].at = "drawn" /\ run'["jobDrawn"].e = fetcher["job"].e
      BY <3>1
    <3> QED
      BY <1>1, <3>2 DEF Clears, Cleared
  <2>2. CASE ~ StorePlaceholder("job")
    <3>1. fetcher'["job"].at = "placeholder"
      BY <1>0, <1>1, <2>2, PlaceholderWaits
    <3>2. fetcher'["job"] = fetcher["job"]
      <4>1. ~ StoreDraw("job")
        BY <1>1 DEF StoreDraw
      <4> QED
        BY <3>1, <4>1, JobMoves
    <3> QED
      BY <1>1, <3>2 DEF Clears, Cleared
  <2> QED
    BY <2>1, <2>2
<1>2. CASE run["jobDrawn"].at = "drawn" /\ k \in Cleared(run["jobDrawn"].e)
  <2>1. CASE run'["jobDrawn"] = run["jobDrawn"]
    BY <1>2, <2>1 DEF Clears, Cleared
  <2>2. CASE run'["jobDrawn"] # run["jobDrawn"]
    <3>1. run["jobDrawn"] # NoRun
      BY <1>2 DEF NoRun
    <3>2. \A f \in Fetchers : ~ StorePlaceholder(f) \/ "jobDrawn" # Handler(f)
      BY <3>1 DEF StorePlaceholder
    <3>3. Returning("jobDrawn") => FALSE
      BY <1>2 DEF Returning, CheckFlag, Unlock
    <3>4. Analysing("jobDrawn")
      BY <1>0, <2>2, <3>2, <3>3, RunnerIs, CalmWeeks
    <3>5. HandleDrawn("jobDrawn")
      BY <1>0, <1>2, <3>4, CalmWeeks DEF Analysing, SetFlag, FindNumbers, LinkNumbers, FindKeys,
         Predict, FindUnscored, Score, Unflag
    <3> QED
      BY <1>2, <3>5
  <2> QED
    BY <2>1, <2>2
<1> QED
  BY <1>1, <1>2 DEF Clears

LEMMA ReadersAreQuick ==
  ASSUME IInv, Next, setting = "readers"
  PROVE  reader' = {}
<1>1. reader = {}
  BY DEF IInv, CachesShow
<1>2. ASSUME NEW k \in Keys, Read(k) PROVE reader' = reader
  BY <1>2 DEF Read
<1>3. (\E k \in Keys : Expire(k)) \/ Fill \/ Forget => reader' \in {reader, {}}
  BY DEF Expire, Fill, Forget
<1> QED
  BY <1>1, <1>2, <1>3, ReadersMove DEF Reading

\* What is in a cache after a step was there before or has just been read.
LEMMA CachedBefore ==
  ASSUME IInv, Next, setting = "readers", NEW k \in Keys, NEW v \in cache'[k]
  PROVE  v \in cache[k] \/ (v = View(k) /\ row' = row)
<1>0. DOMAIN cache = Keys /\ reader = {}
  BY DEF IInv, CachesOK, CachesShow
<1>1. ASSUME NEW K, cache' = Without(K) PROVE v \in cache[k]
  BY <1>1, Clearing
<1>2. CASE Reading
  <2>1. row' = row
    BY <1>2, ReadingLeaves
  <2>2. ASSUME NEW x \in Keys, Read(x) PROVE v \in cache[k] \/ v = View(k)
    <3>1. cache' = [cache EXCEPT ![x] = {View(x)}]
      BY <2>2 DEF Read
    <3> QED
      BY <1>0, <3>1
  <2>3. ASSUME NEW x \in Keys, Expire(x) PROVE v \in cache[k]
    BY <1>1, <2>3 DEF Expire
  <2>4. ~ Fill
    BY <1>0 DEF Fill
  <2>5. Forget => v \in cache[k]
    BY DEF Forget
  <2> QED
    BY <1>2, <2>1, <2>2, <2>3, <2>4, <2>5 DEF Reading
<1>3. ASSUME NEW r \in Runners, HandleDrawn(r) PROVE v \in cache[k]
  BY <1>1, <1>3 DEF HandleDrawn
<1> QED
  BY <1>2, <1>3, CacheMoves, OnlyJob

LEMMA CachesShowKept ==
  ASSUME IInv, Next
  PROVE  CachesShow'
<1> SUFFICES ASSUME setting = "readers", NEW k \in Keys, k[1] # "status", ~ Clears(k)',
                    NEW v \in cache'[k]
             PROVE  v.drawn = View(k).drawn'
  BY SettingStays, ReadersAreQuick DEF CachesShow
<1>1. CASE Drawn' = Drawn
  <2>1. View(k).drawn' = View(k).drawn
    BY <1>1, SameDrawsSameView
  <2>2. CASE v = View(k)
    BY <2>1, <2>2
  <2>3. CASE v \in cache[k]
    <3>1. ~ Clears(k)
      <4>1. ASSUME HandleDrawn("jobDrawn"), k \in Cleared(run["jobDrawn"].e) PROVE FALSE
        BY <4>1 DEF HandleDrawn, Without
      <4> QED
        BY <4>1, EventStays
    <3>2. v.drawn = View(k).drawn
      BY <2>3, <3>1 DEF IInv, CachesShow
    <3> QED
      BY <2>1, <3>2
  <2> QED
    BY <2>2, <2>3, CachedBefore
<1>2. CASE Drawn' # Drawn
  <2>1. row' # row
    BY <1>2 DEF Drawn
  <2>2. PICK f \in Fetchers : StoreDraw(f)
    <3>1. \A f \in Fetchers : StorePlaceholder(f) => Drawn' = Drawn
      BY StoringPlaceholder
    <3> QED
      BY <1>2, <2>1, <3>1, RowsMove, OnlyJob DEF Storing
  <2>3. f = "job" /\ fetcher[f].at = "store"
    BY <2>2, OnlyJob DEF StoreDraw
  <2>4. fetcher'["job"] = [fetcher["job"] EXCEPT !.at = "placeholder"] /\ FetcherOK(fetcher["job"])
    BY <2>2, <2>3, FetcherTo, FetcherIs
  <2>5. fetcher'["job"].at = "placeholder" /\ fetcher'["job"].e = fetcher["job"].e
    BY <2>4 DEF FetcherOK
  <2>6. k \notin Cleared(fetcher["job"].e)
    BY <2>5 DEF Clears, Cleared
  <2>7. k[1] = "episode" /\ k[2] # fetcher["job"].e
    BY <2>6, KeysAre
  <2>8. v \in cache[k]
    BY <2>1, CachedBefore
  <2>9. ~ Clears(k)
    <3>1. ~ HandleDrawn("jobDrawn")
      BY <2>5, <2>3 DEF HandleDrawn
    <3> QED
      BY <3>1, EventStays
  <2>10. v.drawn = Drawn \cap {k[2]}
    BY <2>7, <2>8, <2>9 DEF IInv, CachesShow, View, Seen
  <2>11. Drawn' = Drawn \cup {fetcher["job"].e}
    BY <2>2, <2>3, StoringDraw
  <2>12. View(k).drawn' = Drawn' \cap {k[2]}
    BY <2>7 DEF View, Seen
  <2> QED
    BY <2>7, <2>10, <2>11, <2>12
<1> QED
  BY <1>1, <1>2

-----------------------------------------------------------------------------
(* The invariant.                                                          *)

LEMMA NextKeepsIInv ==
  ASSUME IInv, [Next]_vars
  PROVE  IInv'
<1>1. CASE Next
  BY <1>1, BoundsKept, RowsKept, CountsKept, FetchersKept, RunsKept, UserKept, CachesKept,
     OneAnalysisKept, ExclusiveKept, ShopsOnceKept, LastIsFetchedKept, UpcomingKept,
     CachesShowKept DEF IInv
<1>2. CASE UNCHANGED vars
  <2>1. UNCHANGED <<setting, week, published, row, linked, sys, usr, scored, shops, wanted, flag, locked,
                    shown, fetcher, run, user, cache, memo, reader, extras>>
    BY <1>2 DEF vars, db, stock, site, reads
  <2>2. Drawn' = Drawn /\ \A e : Total(e)' = Total(e)
    BY <2>1 DEF Drawn, Total
  <2>11. Rows' = Rows
    BY <2>1 DEF Rows
  <2>3. Bounds' /\ RowsOK' /\ CountsOK'
    BY <2>1, <2>2, <2>11 DEF IInv, Bounds, RowsOK, CountsOK
  <2>4. FetchersOK'
    BY <2>1 DEF IInv, FetchersOK, FetcherOK
  <2>5. (\A r \in Runners : RunOK(run[r]))'
    BY <2>1, <2>2 DEF IInv, RunsOK, RunOK
  <2>6. RunsOK'
    BY <2>1, <2>5 DEF IInv, RunsOK
  <2>7. UserOK' /\ CachesOK'
    BY <2>1 DEF IInv, UserOK, CachesOK, AtMostOne
  <2>8. OneAnalysis' /\ Exclusive' /\ ShopsOnce'
    BY <2>1 DEF IInv, OneAnalysis, InAnalysis, Exclusive, ShopsOnce
  <2>9. LastIsFetched' /\ Upcoming'
    BY <2>1, <2>2, <2>11 DEF IInv, LastIsFetched, Upcoming, NoneMissed, JobDelivers
  <2>10. CachesShow'
    <3>1. \A k \in Keys : k[1] # "status" => View(k).drawn' = View(k).drawn
      BY <2>2, SameDrawsSameView
    <3>2. \A k : Clears(k)' = Clears(k)
      BY <2>1 DEF Clears, Cleared
    <3> QED
      BY <2>1, <3>1, <3>2 DEF IInv, CachesShow
  <2> QED
    BY <2>3, <2>4, <2>6, <2>7, <2>8, <2>9, <2>10 DEF IInv
<1> QED
  BY <1>1, <1>2

LEMMA InitIsIInv ==
  ASSUME Init
  PROVE  IInv
<1>0. /\ MaxWeeks \in Nat /\ MaxWeeks > 0 /\ MaxAttempts \in Nat /\ MaxExtras \in Nat
      /\ 1 \in Episodes /\ 2 \in Episodes
  BY DrawAssumption DEF Episodes
<1>1. /\ setting \in Settings /\ week = 0 /\ published = 1
      /\ row = [e \in Episodes |-> CASE e = 1 -> "drawn" [] e = 2 -> "placeholder"
                                     [] OTHER -> "none"]
      /\ linked = {1}
      /\ sys = [e \in Episodes |-> IF e = 2 THEN 1 ELSE 0]
      /\ usr = [e \in Episodes |-> 0]
      /\ scored = [e \in Episodes |-> 0]
      /\ shops = [e \in Episodes |-> IF e = 1 THEN 1 ELSE 0]
      /\ wanted = {}
      /\ flag = FALSE /\ locked = FALSE /\ shown = FALSE
      /\ fetcher = [f \in Fetchers |-> NoFetch]
      /\ run = [r \in Runners |-> NoRun]
      /\ user = NoUser
      /\ cache = [k \in Keys |-> {}] /\ memo = {} /\ reader = {}
      /\ extras = 0
  BY DEF Init
<1>2. Bounds
  <2>1. week \in 0..MaxWeeks /\ published \in 1..(week + 1) /\ extras \in 0..MaxExtras
    BY <1>0, <1>1
  <2>2. {flag, locked, shown} \subseteq BOOLEAN
    BY <1>1
  <2> QED
    BY <1>1, <2>1, <2>2 DEF Bounds
<1>3. /\ row \in [Episodes -> {"none", "placeholder", "drawn"}] /\ row[1] = "drawn"
      /\ row[2] = "placeholder" /\ \A e \in Episodes : row[e] = "drawn" => e = 1
  BY <1>0, <1>1
<1>4. Drawn = {1}
  BY <1>0, <1>3 DEF Drawn
<1>5. RowsOK
  <2>1. Rows \subseteq {1, 2}
    BY <1>1 DEF Rows
  <2>2. Rows \subseteq 1..(week + 2)
    BY <1>1, <2>1
  <2> QED
    BY <1>1, <1>3, <1>4, <2>2 DEF RowsOK
<1>6. {sys, usr, scored, shops} \subseteq [Episodes -> Nat]
  BY <1>1
<1>7. CountsOK
  BY <1>1, <1>6 DEF CountsOK, Total
<1>8. /\ DOMAIN fetcher = Fetchers /\ DOMAIN run = Runners
      /\ \A f \in Fetchers : fetcher[f] = NoFetch /\ fetcher[f].at = "idle"
      /\ \A r \in Runners : run[r] = NoRun /\ run[r].at = "idle"
  BY <1>1 DEF NoFetch, NoRun
<1>9. FetchersOK
  BY <1>2, <1>8, NoFetchIsOK DEF FetchersOK, Fetchers
<1>10. RunOK(NoRun)
  BY <1>1 DEF RunOK, NoRun, RunSteps
<1>11. RunsOK
  BY <1>8, <1>10 DEF RunsOK, Runners
<1>12. UserOK
  BY <1>1 DEF UserOK, NoUser
<1>13. CachesOK
  BY <1>1 DEF CachesOK, AtMostOne
<1>14. OneAnalysis /\ Exclusive
  BY <1>1, <1>8 DEF OneAnalysis, Exclusive, InAnalysis, UnderFlag
<1>15. ShopsOnce
  BY <1>1, <1>8 DEF ShopsOnce, Fetchers
<1>16. LastIsFetched
  BY <1>8 DEF LastIsFetched, Fetchers
<1>17. NoneMissed
  BY <1>1, <1>3, <1>8 DEF NoneMissed
<1>18. JobDelivers
  BY <1>1, <1>4, <1>8 DEF JobDelivers, Fetchers
<1>19. CachesShow
  BY <1>1 DEF CachesShow
<1> QED
  BY <1>2, <1>5, <1>7, <1>9, <1>11, <1>12, <1>13, <1>14, <1>15, <1>16, <1>17, <1>18, <1>19
     DEF IInv, Upcoming

\* In whatever setting, analyses, draws, caches and the site keep to the invariant.
THEOREM Invariance == Spec => []IInv
<1>1. Init => IInv
  BY InitIsIInv
<1>2. IInv /\ [Next]_vars => IInv'
  BY NextKeepsIInv
<1> QED
  BY <1>1, <1>2, PTL DEF Spec

\* Every column, key and local variable stays within its values, and no more
\* predictions are scored than there are.
THEOREM TypesKept == Spec => []TypeOK
<1>1. ASSUME NEW S, AtMostOne(S) PROVE Cardinality(S) <= 1
  <2>1. CASE S = {}
    BY <2>1, FS_EmptySet
  <2>2. CASE S # {}
    <3>1. PICK v \in S : TRUE
      BY <2>2
    <3>2. S = {v}
      BY <1>1 DEF AtMostOne
    <3> QED
      BY <3>2, FS_Singleton
  <2> QED
    BY <2>1, <2>2
<1>2. ASSUME IInv PROVE TypeOK
  <2>1. Bounds /\ RowsOK /\ CountsOK /\ UserOK /\ CachesOK
    BY <1>2 DEF IInv
  <2>2. published \in Episodes
    BY <2>1, Numbers DEF Episodes
  <2>3. \A f \in Fetchers : /\ fetcher[f].e \in 0..(MaxWeeks + 1)
                            /\ fetcher[f].attempt \in 0..MaxAttempts
    BY <1>2, <2>1, FetcherIs, Numbers
  <2>4. \A r \in Runners : run[r].e \in 0..(MaxWeeks + 1)
    BY <1>2, <2>1, RunIs, Numbers DEF RunOK
  <2>5. /\ \A k \in Keys : Cardinality(cache[k]) <= 1
        /\ Cardinality(reader) <= 1 /\ Cardinality(memo) <= 1
    BY <1>1, <2>1 DEF CachesOK
  <2> QED
    BY <2>1, <2>2, <2>3, <2>4, <2>5 DEF TypeOK, Bounds, RowsOK, CountsOK, UserOK
<1> QED
  BY <1>2, Invariance, PTL

\* The flag in Redis keeps analyses apart, whoever starts them, but for two that
\* look at it before either has set it.
THEOREM OneAnalysisAtATime == Spec => []OneAnalysis
<1>1. IInv => OneAnalysis
  BY DEF IInv
<1> QED
  BY <1>1, Invariance, PTL

\* No prediction of the system is stored twice, and neither are the shops of a draw
\* where nobody fetches them while the job or a manager does.
THEOREM NothingIsStoredTwice == Spec => []NothingTwice
<1>1. IInv => NothingTwice
  BY DEF IInv, Exclusive, ShopsOnce, NothingTwice
<1> QED
  BY <1>1, Invariance, PTL

\* A user who asks right after a draw finds the row his prediction refers to.
THEOREM UpcomingRowIsThere == Spec => []UpcomingHasRow
<1>1. ASSUME IInv PROVE UpcomingHasRow
  <2> SUFFICES ASSUME setting # "faults", \A f \in Fetchers : fetcher[f].at # "placeholder"
               PROVE  row[Latest + 1] # "none"
    BY DEF UpcomingHasRow
  <2>1. Latest \in Drawn /\ Latest \in Nat /\ \A d \in Drawn : d <= Latest
    BY <1>1, LatestIsLast DEF IInv
  <2>2. Latest \in {week, week + 1}
    <3>1. week \in Nat /\ Latest <= week + 1 /\ Latest >= 1
      BY <1>1, <2>1, CalmWeeks
    <3>2. week > 0 => week <= Latest
      BY <1>1, <2>1, <3>1, CalmWeeks
    <3> QED
      BY <2>1, <3>1, <3>2
  <2>3. week + 1 \in Drawn => Latest = week + 1
    BY <1>1, <2>1, <2>2, CalmWeeks
  <2>4. week + 1 \in Drawn => row[week + 1] = "drawn" /\ row[week + 2] # "none"
    BY <1>1, CalmWeeks DEF NoneMissed, Drawn
  <2>5. row[week + 1] # "none" /\ week \in Nat
    BY <1>1, CalmWeeks DEF NoneMissed
  <2>6. CASE Latest = week + 1
    <3>1. Latest + 1 = week + 2
      BY <2>5, <2>6
    <3> QED
      BY <2>1, <2>4, <2>6, <3>1
  <2>7. CASE Latest = week
    BY <2>5, <2>7
  <2> QED
    BY <2>2, <2>6, <2>7
<1> QED
  BY <1>1, Invariance, PTL

\* Once the event of a draw is handled, what quick readers have cached shows it.
THEOREM CachesShowTheDraws == Spec => []CacheShowsDraws
<1>1. ASSUME IInv PROVE CacheShowsDraws
  BY <1>1 DEF IInv, CachesShow, Clears, CacheShowsDraws, Fetchers, Runners
<1> QED
  BY <1>1, Invariance, PTL
=============================================================================
