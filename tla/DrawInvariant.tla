--------------------------- MODULE DrawInvariant ---------------------------
(***************************************************************************)
(* What is true between any two steps of Draw, strong enough to be         *)
(* preserved by each of them.  IInv holds in every setting; what is said   *)
(* of one setting only says so.                                            *)
(***************************************************************************)
EXTENDS Draw

Bounds == /\ setting \in Settings /\ week \in 0..MaxWeeks
          /\ published \in 1..(week + 1)
          /\ extras \in 0..MaxExtras
          /\ {flag, locked, shown} \subseteq BOOLEAN

\* What is drawn has been published, and what is analysed has been drawn.
RowsOK == /\ row \in [Episodes -> {"none", "placeholder", "drawn"}]
          /\ row[1] = "drawn"
          /\ Drawn \subseteq 1..published
          /\ linked \subseteq Drawn
          /\ Rows \subseteq 1..(week + 2)

CountsOK == /\ {sys, usr, scored, shops} \subseteq [Episodes -> Nat]
            /\ wanted \subseteq Episodes
            /\ \A e \in Episodes : scored[e] <= Total(e)

FetchSteps == {"idle", "fetch", "compare", "wait", "find", "store", "placeholder", "analyze",
               "shops", "storeShops", "pages", "clear"}

\* A fetcher holds an episode that has been published, and one on its way to the
\* two rows of a draw finds nothing drawn after it: where anything goes wrong the
\* job is the only one.
FetcherOK(a) ==
    /\ a \in [at : FetchSteps, e : 0..published, todo : SUBSET Episodes, attempt : 0..MaxAttempts]
    /\ a.at \in {"compare", "find", "store", "placeholder"} => a.e > 0
    /\ a.at = "pages" => a.todo \subseteq 1..(published - 1)

FetchersOK == /\ DOMAIN fetcher = Fetchers
              /\ \A f \in Fetchers : FetcherOK(fetcher[f])
              /\ setting # "manual" => fetcher["resync"] = NoFetch

UnderFlag == {"findNumbers", "link", "findKeys", "predict", "findUnscored", "score",
              "unflag", "failed"}
RunSteps == {"idle", "drawn", "check", "begin", "unlock", "failedUnlock"} \cup UnderFlag

\* What an analysis has found is still so when it writes: draws stay drawn and
\* predictions stay.
RunOK(a) ==
    /\ a \in [at : RunSteps, e : 0..published,
              todo : SUBSET (IF a.at = "score" THEN Episodes \X Nat ELSE Episodes)]
    /\ a.at = "link" => a.todo \subseteq Drawn
    /\ a.at = "score" => \A p \in a.todo : p[2] <= Total(p[1])

RunsOK == /\ DOMAIN run = Runners
          /\ \A r \in Runners : RunOK(run[r])
          /\ run["job"] # NoRun => fetcher["job"].at = "analyze"

UserOK == /\ user \in [at : {"idle", "create"}, e : Int]
          /\ user.e \in {0} \cup Episodes /\ (user.at = "create" => user.e > 0)

AtMostOne(S) == \A v, w \in S : v = w

CachesOK == /\ DOMAIN cache = Keys
            /\ \A k \in Keys : AtMostOne(cache[k])
            /\ AtMostOne(memo) /\ AtMostOne(reader)
            /\ \A p \in reader : p[1] \in Keys

-----------------------------------------------------------------------------
(* The flag keeps analyses apart, but for two that look before it is set.  *)

InAnalysis(r) == run[r].at = "begin" \/ run[r].at \in UnderFlag

OneAnalysis == setting # "race" =>
    \A r, s \in Runners : InAnalysis(r) /\ InAnalysis(s) => r = s

Exclusive == setting # "race" =>
    /\ \A r \in Runners : run[r].at \in UnderFlag => flag
    /\ \A r \in Runners : run[r].at = "predict" => \A e \in run[r].todo : sys[e] = 0
    /\ \A e \in Episodes : sys[e] <= 1

\* Of two fetches of shops one has nothing to store, and no episode is stored that
\* one on its way has still to store.
ShopsOnce == setting \notin {"weekly", "race"} =>
    /\ fetcher["job"].at = "storeShops" => wanted = {}
    /\ fetcher["job"].at = "storeShops" => \A e \in fetcher["job"].todo : shops[e] = 0
    /\ \A e \in wanted : shops[e] = 0
    /\ \A e \in Episodes : shops[e] <= 1

-----------------------------------------------------------------------------
(* The row of the coming draw.                                             *)

\* Where things go wrong the job alone stores draws.
LastIsFetched == setting = "faults" =>
    (fetcher["job"].at \in {"compare", "find", "store", "placeholder"} =>
        Drawn \subseteq 1..fetcher["job"].e)

\* Elsewhere no week is missed, and a draw has its successor's row, or the fetcher
\* that stored it is about to write it.
NoneMissed ==
    /\ 1..week \subseteq Drawn /\ row[week + 1] # "none"
    /\ row[week + 1] = "drawn" => \/ row[week + 2] # "none"
                                  \/ \E f \in Fetchers : fetcher[f].at = "placeholder"
    /\ \A f \in Fetchers : fetcher[f].at \in {"store", "placeholder"} => fetcher[f].e = week + 1
    /\ \A r \in Runners : run[r].at \notin {"failed", "failedUnlock"}
    /\ \A r \in Runners : run[r].at = "predict" => run[r].todo \subseteq Rows

\* The job does not end before it, or someone else, has stored the draw of the week.
JobDelivers == LET a == fetcher["job"] IN
    /\ a.at \in {"idle", "placeholder", "analyze", "shops", "storeShops"} => week + 1 \in Drawn
    /\ a.at = "find" => a.e = week + 1
    /\ a.at = "compare" /\ a.attempt = MaxAttempts => a.e = week + 1
    /\ a.at = "wait" /\ a.attempt = MaxAttempts => week + 1 \in Drawn

Upcoming == setting # "faults" => NoneMissed /\ JobDelivers

-----------------------------------------------------------------------------
(* What is cached about draws, or an event on its way that clears it.      *)

Clears(k) == \/ fetcher["job"].at = "placeholder" /\ k \in Cleared(fetcher["job"].e)
             \/ run["jobDrawn"].at = "drawn" /\ k \in Cleared(run["jobDrawn"].e)

CachesShow == setting = "readers" =>
    /\ reader = {}
    /\ \A k \in Keys : k[1] # "status" =>
        (\A v \in cache[k] : v.drawn = View(k).drawn) \/ Clears(k)

IInv == /\ Bounds /\ RowsOK /\ CountsOK /\ FetchersOK /\ RunsOK /\ UserOK /\ CachesOK
        /\ OneAnalysis /\ Exclusive /\ ShopsOnce
        /\ LastIsFetched /\ Upcoming /\ CachesShow
=============================================================================
