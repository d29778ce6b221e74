-------------------------------- MODULE Draw --------------------------------
(***************************************************************************)
(* The weekly draw.  A cron job locks the site, asks the lottery's API for *)
(* the new draw, stores it, has it analysed and fetches its shops          *)
(* (TaskService).  Storing a draw also publishes an event, whose handler   *)
(* clears caches and starts the same analysis.  A manager may synchronise  *)
(* all draws again or start an analysis at any time.  Nothing but one key  *)
(* in Redis keeps two analyses apart, and the draw, its successor's row,   *)
(* the event, the analysis and the predictions are stored by separate      *)
(* calls.  Users meanwhile read through caches and buy predictions.        *)
(*                                                                         *)
(* Every behaviour happens in one setting, chosen at the start:            *)
(*   weekly      the job, a user who buys a prediction, users who look at  *)
(*               winning shops;                                            *)
(*   manual      and a manager who fetches draws and starts analyses;      *)
(*   shops       the job, and a manager who fetches shops before or after  *)
(*               it does, either of which may find none;                   *)
(*   race        the job, a manager who fetches shops when it does, two    *)
(*               analyses that may both look at the flag before one sets   *)
(*               it, and a flag that may expire while one runs;            *)
(*   faults      the job, with failing calls, crashes, late draws and the  *)
(*               status page's test switch, in every week but the last;    *)
(*   readers     the job, and readers whose reads end before it goes on;   *)
(*   lateReaders the job, and readers that are overtaken by it.            *)
(* One algorithm stands for all: the code treats them one after another.   *)
(***************************************************************************)
EXTENDS Integers, FiniteSets

CONSTANTS Settings,    \* the settings a behaviour may have
          Keys,        \* the cache keys readers use
          MaxWeeks,    \* bound: how often the job is started
          MaxAttempts, \* how often the job asks for the draw, 15
          MaxExtras    \* bound: requests of managers, failing calls and crashes

Episodes == 1..(MaxWeeks + 2)
AllSettings == {"weekly", "manual", "shops", "race", "faults", "readers", "lateReaders"}
CacheKeys == {"all", "latest", "status"} \X {0} \cup {"episode"} \X Episodes

ASSUME DrawAssumption == /\ Settings \subseteq AllSettings
                         /\ Keys \subseteq CacheKeys
                         /\ {MaxWeeks, MaxAttempts} \subseteq Nat \ {0}
                         /\ MaxExtras \in Nat

VARIABLES setting,   \* the setting of this behaviour
          week,      \* how often the cron job has been started
          published, \* the episode the API shows as the latest
          row,       \* winning_number: none, a placeholder, drawn
          linked,    \* the episodes with a row in winning_number_analysis
          sys,       \* predictions of the system, by episode
          usr,       \* predictions of users, by episode
          scored,    \* how many predictions have their reliability
          shops,     \* how many times the winning shops are stored
          wanted,    \* the episodes whose shops a manager's fetch has still to store
          flag,      \* system:status:analysis-running in Redis
          locked,    \* system:status:analysis-in-progress in Redis
          shown,     \* the status in memory, which the gateway broadcasts
          fetcher,   \* who fetches draws: the job, a manager
          run,       \* who analyses: the job, the handlers of both, a manager
          user,      \* a request to generate a prediction
          cache,     \* Redis, by key: nothing, or one view of the draws
          memo,      \* the draws GetLotteryBallStatusHandler keeps a minute
          reader,    \* a read on its way into the cache
          extras     \* how many requests of managers, failures and crashes

db == <<row, linked, sys, usr, scored>>
stock == <<shops, wanted>>
site == <<flag, locked, shown>>
reads == <<cache, memo, reader>>
vars == <<setting, week, published, db, stock, site, fetcher, run, user, reads, extras>>

-----------------------------------------------------------------------------
(* What is stored, and what a reader is shown of it. *)

Fetchers == {"job", "resync"}
Runners == {"job", "jobDrawn", "resyncDrawn", "manager"}
Handler(f) == IF f = "job" THEN "jobDrawn" ELSE "resyncDrawn"

Rows == {e \in Episodes : row[e] # "none"}
Drawn == {e \in Episodes : row[e] = "drawn"}
Latest == CHOOSE e \in Drawn : \A d \in Drawn : d <= e
Total(e) == sys[e] + usr[e]

Seen(draws, analysed) == [drawn |-> draws, linked |-> analysed]

\* status: what GetLotteryBallStatusHandler makes of the draws it remembers.
View(key) ==
    CASE key[1] = "all"     -> Seen(Drawn, linked)
      [] key[1] = "latest"  -> Seen({Latest}, linked \cap {Latest})
      [] key[1] = "episode" -> Seen(Drawn \cap {key[2]}, linked \cap {key[2]})
      [] key[1] = "status"  -> Seen(IF memo = {} THEN Drawn ELSE UNION memo, {})

\* The caches an event about a draw clears.
Cleared_NotLatest(e) == {<<"episode", e>>, <<"episode", e + 1>>, <<"all", 0>>}

Cleared(e) == {<<"episode", e>>, <<"episode", e + 1>>, <<"all", 0>>, <<"latest", 0>>}
Without(keys) == [k \in Keys |-> IF k \in keys THEN {} ELSE cache[k]]

-----------------------------------------------------------------------------
(* Processes. Between two steps of one, those of others may come.          *)

NoFetch == [at |-> "idle", e |-> 0, todo |-> {}, attempt |-> 0]
NoRun == [at |-> "idle", e |-> 0, todo |-> {}]
NoUser == [at |-> "idle", e |-> 0]

Quiet == /\ \A f \in Fetchers : fetcher[f] = NoFetch
         /\ \A r \in Runners : run[r] = NoRun
         /\ user = NoUser /\ wanted = {}

\* What can go wrong does so in all weeks but the last.
Trouble == setting = "faults" /\ week < MaxWeeks

Extra == extras < MaxExtras /\ extras' = extras + 1

FetchGoes(f, at) == fetcher' = [fetcher EXCEPT ![f].at = at]
RunGoes(r, at) == run' = [run EXCEPT ![r].at = at]

\* An analysis started by the job returns to it, well or not.
Returns(r, at) == /\ run' = [run EXCEPT ![r] = NoRun]
                  /\ IF r = "job" THEN FetchGoes("job", at) ELSE UNCHANGED fetcher

Init == /\ setting \in Settings
        /\ week = 0 /\ published = 1
        /\ row = [e \in Episodes |-> CASE e = 1 -> "drawn" [] e = 2 -> "placeholder"
                                       [] OTHER -> "none"]
        /\ linked = {1}
        /\ sys = [e \in Episodes |-> IF e = 2 THEN 1 ELSE 0]
        /\ usr = [e \in Episodes |-> 0]
        /\ scored = [e \in Episodes |-> 0]
        /\ shops = [e \in Episodes |-> IF e = 1 THEN 1 ELSE 0]
        /\ wanted = {}
        /\ flag = FALSE /\ locked = FALSE /\ shown = FALSE
        /\ fetcher = [f \in Fetchers |-> NoFetch]
        /\ run = [r \in Runners |-> NoRun]
        /\ user = NoUser
        /\ cache = [k \in Keys |-> {}] /\ memo = {} /\ reader = {}
        /\ extras = 0

-----------------------------------------------------------------------------
(* The site's status: SystemStatusService.                                 *)

\* setAnalysisStatus writes Redis, then what it broadcasts.
SetAnalysisStatus(b) == locked' = b /\ shown' = b

\* updateProgress broadcasts a status in progress, whoever holds the lock.
UpdateProgress == shown' = TRUE

\* GET system/status.
SyncFromRedis ==
    /\ setting = "faults" /\ shown' = locked
    /\ UNCHANGED <<setting, week, published, db, stock, flag, locked, fetcher, run,
                   user, reads, extras>>

\* POST system/status/test-toggle.
ToggleStatus(b) ==
    /\ Trouble /\ SetAnalysisStatus(b)
    /\ UNCHANGED <<setting, week, published, db, stock, flag, fetcher, run, user,
                   reads, extras>>

\* The lock lives two hours, the flag half an hour.
LockExpires ==
    /\ locked /\ Quiet /\ locked' = FALSE
    /\ UNCHANGED <<setting, week, published, db, stock, flag, shown, fetcher, run,
                   user, reads, extras>>

FlagExpires ==
    /\ flag /\ flag' = FALSE
    /\ setting = "race" \/ \A r \in Runners : run[r] = NoRun
    /\ UNCHANGED <<setting, week, published, db, stock, locked, shown, fetcher, run,
                   user, reads, extras>>

-----------------------------------------------------------------------------
(* Fetching draws.                                                         *)

\* The lottery publishes the draw of the week.
Publish ==
    /\ published <= week /\ published' = published + 1
    /\ UNCHANGED <<setting, week, db, stock, site, fetcher, run, user, reads, extras>>

\* Saturday, nine o'clock: lockSiteForAnalysis and fetchRecentWinningNumbers.
Saturday ==
    /\ week < MaxWeeks /\ Quiet /\ ~flag
    /\ week' = week + 1
    /\ SetAnalysisStatus(TRUE)
    /\ fetcher' = [fetcher EXCEPT !["job"] = [NoFetch EXCEPT !.at = "fetch", !.attempt = 1]]
    /\ UNCHANGED <<setting, published, db, stock, flag, run, user, reads, extras>>

\* FetchWinningNumbers: a manager names the latest episode, or one before it, and
\* has every draw older than that stored again.
Resync ==
    /\ setting = "manual" /\ Extra
    /\ fetcher["resync"] = NoFetch /\ run["resyncDrawn"] = NoRun
    /\ \E latest \in 1..published : fetcher' = [fetcher EXCEPT !["resync"] =
                      [NoFetch EXCEPT !.at = "pages", !.todo = 1..(latest - 1)]]
    /\ UNCHANGED <<setting, week, published, db, stock, site, run, user, reads>>

StorePage ==
    /\ fetcher["resync"].at = "pages"
    /\ IF fetcher["resync"].todo = {}
       THEN FetchGoes("resync", "fetch") /\ UNCHANGED <<row, cache>>
       ELSE \E e \in fetcher["resync"].todo :
                /\ row' = [row EXCEPT ![e] = "drawn"]
                /\ cache' = Without({<<"episode", e>>})
                /\ fetcher' = [fetcher EXCEPT !["resync"].todo = @ \ {e}]
    /\ UNCHANGED <<setting, week, published, linked, sys, usr, scored, stock, site, run,
                   user, memo, reader, extras>>

\* The job tells its progress and asks for the latest draw. Where nothing goes
\* wrong the lottery publishes it before the last attempt.
InTime(f) == f # "job" \/ fetcher[f].attempt < MaxAttempts \/ Trouble \/ published > week

Fetch(f) ==
    /\ fetcher[f].at = "fetch" /\ InTime(f)
    /\ IF f = "job" THEN UpdateProgress ELSE UNCHANGED shown
    /\ fetcher' = [fetcher EXCEPT ![f].at = IF f = "job" THEN "compare" ELSE "find",
                                  ![f].e = published]
    /\ UNCHANGED <<setting, week, published, db, stock, flag, locked, run, user, reads,
                   extras>>

\* The API still shows the draw that is stored: waiting_new_episode.
Compare ==
    /\ fetcher["job"].at = "compare"
    /\ FetchGoes("job", IF fetcher["job"].e <= Latest THEN "wait" ELSE "find")
    /\ UNCHANGED <<setting, week, published, db, stock, site, run, user, reads, extras>>

\* Someone else has stored the draw since: already_drawn.
Find(f) ==
    /\ fetcher[f].at = "find"
    /\ IF row[fetcher[f].e] # "drawn"
       THEN FetchGoes(f, "store") /\ UNCHANGED <<locked, shown>>
       ELSE IF f = "job"
            THEN SetAnalysisStatus(FALSE) /\ fetcher' = [fetcher EXCEPT ![f] = NoFetch]
            ELSE FetchGoes(f, "clear") /\ UNCHANGED <<locked, shown>>
    /\ UNCHANGED <<setting, week, published, db, stock, flag, run, user, reads, extras>>

StoreDraw(f) ==
    /\ fetcher[f].at = "store"
    /\ row' = [row EXCEPT ![fetcher[f].e] = "drawn"]
    /\ FetchGoes(f, "placeholder")
    /\ UNCHANGED <<setting, week, published, linked, sys, usr, scored, stock, site, run,
                   user, reads, extras>>

\* The row of the coming draw, then the event; the handler runs on its own. Bound:
\* the handler of the draw before has ended by then.
StorePlaceholder_Forgotten(f) ==
    /\ fetcher[f].at = "placeholder" /\ run[Handler(f)] = NoRun
    /\ run' = [run EXCEPT ![Handler(f)] = [NoRun EXCEPT !.at = "drawn", !.e = fetcher[f].e],
                          !["job"].at = IF f = "job" THEN "check" ELSE @]
    /\ FetchGoes(f, IF f = "job" THEN "analyze" ELSE "clear")
    /\ UNCHANGED <<setting, week, published, db, stock, site, user, reads, extras>>

StorePlaceholder(f) ==
    /\ fetcher[f].at = "placeholder" /\ run[Handler(f)] = NoRun
    /\ row' = [row EXCEPT ![fetcher[f].e + 1] = "placeholder"]
    /\ run' = [run EXCEPT ![Handler(f)] = [NoRun EXCEPT !.at = "drawn", !.e = fetcher[f].e],
                          !["job"].at = IF f = "job" THEN "check" ELSE @]
    /\ FetchGoes(f, IF f = "job" THEN "analyze" ELSE "clear")
    /\ UNCHANGED <<setting, week, published, linked, sys, usr, scored, stock, site, user,
                   reads, extras>>

\* The end of FetchWinningNumbers.
ClearAll ==
    /\ fetcher["resync"].at = "clear"
    /\ cache' = Without({<<"all", 0>>, <<"latest", 0>>})
    /\ fetcher' = [fetcher EXCEPT !["resync"] = NoFetch]
    /\ UNCHANGED <<setting, week, published, db, stock, site, run, user, memo, reader, extras>>

\* FetchWinningShops, of the job or a manager: the shops of drawn episodes that
\* have none; no index keeps two from storing the same. Only in a race do they
\* overlap. Where the request fails or the lottery shows none the episode stays
\* without.
MissingShops == {e \in Drawn : shops[e] = 0}

StoreShopsOf(e) == \/ shops' = [shops EXCEPT ![e] = @ + 1]
                   \/ setting \in {"faults", "shops"} /\ UNCHANGED shops

FetchShops ==
    /\ fetcher["job"].at = "shops" /\ (setting # "race" => wanted = {})
    /\ fetcher' = [fetcher EXCEPT !["job"].at = "storeShops", !["job"].todo = MissingShops]
    /\ UNCHANGED <<setting, week, published, db, stock, site, run, user, reads, extras>>

StoreShops ==
    /\ fetcher["job"].at = "storeShops"
    /\ IF fetcher["job"].todo = {}
       THEN fetcher' = [fetcher EXCEPT !["job"] = NoFetch] /\ UNCHANGED shops
       ELSE \E e \in fetcher["job"].todo :
                /\ StoreShopsOf(e)
                /\ fetcher' = [fetcher EXCEPT !["job"].todo = @ \ {e}]
    /\ UNCHANGED <<setting, week, published, db, wanted, site, run, user, reads, extras>>

AskShops ==
    /\ setting \in {"shops", "race"} /\ wanted = {} /\ Extra
    /\ setting = "shops" => fetcher["job"].at # "storeShops"
    /\ setting = "race" => fetcher["job"].at \in {"shops", "storeShops"}
    /\ wanted' = MissingShops
    /\ UNCHANGED <<setting, week, published, db, shops, site, fetcher, run, user, reads>>

StoreWanted ==
    /\ \E e \in wanted : StoreShopsOf(e) /\ wanted' = wanted \ {e}
    /\ UNCHANGED <<setting, week, published, db, site, fetcher, run, user, reads, extras>>

\* A user who looks at the shops of an episode that has none has them fetched.
FindShops(e) ==
    /\ setting = "weekly" /\ e \in MissingShops
    /\ shops' = [shops EXCEPT ![e] = @ + 1]
    /\ UNCHANGED <<setting, week, published, db, wanted, site, fetcher, run, user, reads,
                   extras>>

\* Two minutes later; after the last attempt the site is opened.
Retry ==
    /\ fetcher["job"].at = "wait"
    /\ IF fetcher["job"].attempt < MaxAttempts
       THEN /\ fetcher' = [fetcher EXCEPT !["job"] =
                              [NoFetch EXCEPT !.at = "fetch", !.attempt = fetcher["job"].attempt + 1]]
            /\ UNCHANGED <<locked, shown>>
       ELSE /\ SetAnalysisStatus(FALSE)
            /\ fetcher' = [fetcher EXCEPT !["job"] = NoFetch]
    /\ UNCHANGED <<setting, week, published, db, stock, flag, run, user, reads, extras>>

-----------------------------------------------------------------------------
(* The analysis: WinningNumberDrawnHandler and AnalyzeHandler.             *)

HandleDrawn(r) ==
    /\ run[r].at = "drawn"
    /\ cache' = Without(Cleared(run[r].e))
    /\ RunGoes(r, "check")
    /\ UNCHANGED <<setting, week, published, db, stock, site, fetcher, user, memo, reader,
                   extras>>

Analyze ==
    /\ setting = "manual" /\ Extra /\ run["manager"] = NoRun
    /\ RunGoes("manager", "check")
    /\ UNCHANGED <<setting, week, published, db, stock, site, fetcher, user, reads>>

\* Skipping duplicate run. Only in a race do two look before one has set it.
CheckFlag_Ignored(r) ==
    /\ run[r].at = "check" /\ RunGoes(r, "begin")
    /\ UNCHANGED <<setting, week, published, db, stock, site, fetcher, user, reads, extras>>

CheckFlag(r) ==
    /\ run[r].at = "check"
    /\ setting # "race" => \A s \in Runners : run[s].at # "begin"
    /\ IF flag THEN Returns(r, "shops") ELSE RunGoes(r, "begin") /\ UNCHANGED fetcher
    /\ UNCHANGED <<setting, week, published, db, stock, site, user, reads, extras>>

SetFlag(r) ==
    /\ run[r].at = "begin" /\ flag' = TRUE
    /\ SetAnalysisStatus(TRUE)
    /\ RunGoes(r, "findNumbers")
    /\ UNCHANGED <<setting, week, published, db, stock, fetcher, user, reads, extras>>

\* initializeWinningNumberAnalyses: what is drawn and has no analysis.
FindNumbers_LatestOnly(r) ==
    /\ run[r].at = "findNumbers" /\ UpdateProgress
    /\ run' = [run EXCEPT ![r].at = "link", ![r].todo = {Latest} \ linked]
    /\ UNCHANGED <<setting, week, published, db, stock, flag, locked, fetcher, user, reads,
                   extras>>

FindNumbers(r) ==
    /\ run[r].at = "findNumbers" /\ UpdateProgress
    /\ run' = [run EXCEPT ![r].at = "link", ![r].todo = Drawn \ linked]
    /\ UNCHANGED <<setting, week, published, db, stock, flag, locked, fetcher, user, reads,
                   extras>>

\* createMany skips what another analysis has stored meanwhile.
LinkNumbers(r) ==
    /\ run[r].at = "link"
    /\ linked' = linked \cup run[r].todo
    /\ run' = [run EXCEPT ![r].at = "findKeys", ![r].todo = {}]
    /\ UNCHANGED <<setting, week, published, row, sys, usr, scored, stock, site, fetcher,
                   user, reads, extras>>

\* initializeAlgorithms: the i-th row by episode counts as episode i + 1, the
\* placeholder's included; what has a prediction of the system is left out.
Unpredicted == {e \in 2..Cardinality(Rows) : sys[e] = 0}

FindKeys(r) ==
    /\ run[r].at = "findKeys"
    /\ run' = [run EXCEPT ![r].at = "predict", ![r].todo = Unpredicted]
    /\ UNCHANGED <<setting, week, published, db, stock, site, fetcher, user, reads, extras>>

\* saveMany creates the predictions one by one, in no order; the row of the episode
\* must be there, as a foreign key asks for it.
NoRow(r) == run[r].at = "predict" /\ \E e \in run[r].todo : row[e] = "none"

Predict(r) ==
    /\ run[r].at = "predict" /\ UpdateProgress
    /\ IF run[r].todo = {}
       THEN RunGoes(r, "findUnscored") /\ UNCHANGED sys
       ELSE \E e \in run[r].todo :
                /\ row[e] # "none"
                /\ sys' = [sys EXCEPT ![e] = @ + 1]
                /\ run' = [run EXCEPT ![r].todo = @ \ {e}]
    /\ UNCHANGED <<setting, week, published, row, linked, usr, scored, stock, flag, locked,
                   fetcher, user, reads, extras>>

\* The predictions of drawn episodes without reliability, with how many there are.
Unscored == {<<e, Total(e)>> : e \in {d \in Drawn : scored[d] < Total(d)}}

FindUnscored(r) ==
    /\ run[r].at = "findUnscored"
    /\ run' = [run EXCEPT ![r].at = "score", ![r].todo = Unscored]
    /\ UNCHANGED <<setting, week, published, db, stock, site, fetcher, user, reads, extras>>

Score(r) ==
    /\ run[r].at = "score"
    /\ scored' = [e \in Episodes |-> LET found == {p[2] : p \in {q \in run[r].todo : q[1] = e}}
                                     IN CHOOSE n \in found \cup {scored[e]} :
                                            \A k \in found \cup {scored[e]} : k <= n]
    /\ run' = [run EXCEPT ![r].at = "unflag", ![r].todo = {}]
    /\ UNCHANGED <<setting, week, published, row, linked, sys, usr, stock, site, fetcher,
                   user, reads, extras>>

\* finally: the flag, then the site. A run that failed goes back with its error.
Unflag(r) ==
    /\ run[r].at \in {"unflag", "failed"} /\ flag' = FALSE
    /\ RunGoes(r, IF run[r].at = "failed" THEN "failedUnlock" ELSE "unlock")
    /\ UNCHANGED <<setting, week, published, db, stock, locked, shown, fetcher, user, reads,
                   extras>>

Unlock_FlagOnly(r) ==
    /\ run[r].at \in {"unlock", "failedUnlock"}
    /\ Returns(r, IF run[r].at = "unlock" THEN "shops" ELSE "wait")
    /\ UNCHANGED <<setting, week, published, db, stock, site, user, reads, extras>>

Unlock(r) ==
    /\ run[r].at \in {"unlock", "failedUnlock"} /\ SetAnalysisStatus(FALSE)
    /\ Returns(r, IF run[r].at = "unlock" THEN "shops" ELSE "wait")
    /\ UNCHANGED <<setting, week, published, db, stock, flag, user, reads, extras>>

-----------------------------------------------------------------------------
(* A user buys a prediction: GeneratePredictionHandler. The row of the     *)
(* episode must be there when it is stored.                                *)

FindLatest ==
    /\ setting = "weekly" /\ user = NoUser /\ week < MaxWeeks
    /\ \A e \in Episodes : usr[e] = 0
    /\ user' = [at |-> "create", e |-> Latest + 1]
    /\ UNCHANGED <<setting, week, published, db, stock, site, fetcher, run, reads, extras>>

CreatePrediction ==
    /\ user.at = "create"
    /\ usr' = [usr EXCEPT ![user.e] = @ + (IF row[user.e] = "none" THEN 0 ELSE 1)]
    /\ user' = NoUser
    /\ UNCHANGED <<setting, week, published, row, linked, sys, scored, stock, site, fetcher,
                   run, reads, extras>>

-----------------------------------------------------------------------------
(* Readers: what is not cached is read and cached; in the setting of quick  *)
(* readers in one step, as nothing comes between.                          *)

Read(k) ==
    /\ setting \in {"readers", "lateReaders"} /\ reader = {} /\ cache[k] = {}
    /\ IF setting = "readers"
       THEN cache' = [cache EXCEPT ![k] = {View(k)}] /\ UNCHANGED reader
       ELSE reader' = {<<k, View(k)>>} /\ UNCHANGED cache
    /\ memo' = IF k[1] = "status" /\ memo = {} THEN {Drawn} ELSE memo
    /\ UNCHANGED <<setting, week, published, db, stock, site, fetcher, run, user, extras>>

Fill ==
    /\ \E r \in reader : cache' = [cache EXCEPT ![r[1]] = {r[2]}]
    /\ reader' = {}
    /\ UNCHANGED <<setting, week, published, db, stock, site, fetcher, run, user, memo, extras>>

\* Hours or days later, 'all' 24, 'latest' 12, an episode and a ball 168.
Expire_BallKept(k) ==
    /\ cache[k] # {} /\ k[1] # "status" /\ cache' = Without({k})
    /\ UNCHANGED <<setting, week, published, db, stock, site, fetcher, run, user, memo,
                   reader, extras>>

Expire(k) ==
    /\ cache[k] # {} /\ cache' = Without({k})
    /\ UNCHANGED <<setting, week, published, db, stock, site, fetcher, run, user, memo,
                   reader, extras>>

Forget ==
    /\ memo # {} /\ memo' = {}
    /\ UNCHANGED <<setting, week, published, db, stock, site, fetcher, run, user, cache,
                   reader, extras>>

-----------------------------------------------------------------------------
(* What can go wrong.                                                      *)

CanFail == Trouble /\ Extra

\* The job catches what it calls and tries again.
FetchFails ==
    /\ CanFail /\ fetcher["job"].at \in {"fetch", "compare", "find", "store", "placeholder"}
    /\ FetchGoes("job", "wait")
    /\ UNCHANGED <<setting, week, published, db, stock, site, run, user, reads>>

\* A call of an analysis is refused, as it always is for a row that is not there.
RunFails(r) ==
    /\ IF NoRow(r) THEN UNCHANGED extras ELSE CanFail
    /\ run[r].at \in {"findNumbers", "link", "findKeys", "predict", "findUnscored", "score"}
    /\ run' = [run EXCEPT ![r] = [NoRun EXCEPT !.at = "failed"]]
    /\ UNCHANGED <<setting, week, published, db, stock, site, fetcher, user, reads>>

\* The process ends and starts again: onModuleInit reads the lock.
Crash ==
    /\ CanFail /\ ~Quiet
    /\ fetcher' = [f \in Fetchers |-> NoFetch]
    /\ run' = [r \in Runners |-> NoRun]
    /\ shown' = locked
    /\ UNCHANGED <<setting, week, published, db, stock, flag, locked, user, reads>>

-----------------------------------------------------------------------------

FetchStep(f) == Fetch(f) \/ Find(f) \/ StoreDraw(f) \/ StorePlaceholder(f)
JobStep == Compare \/ FetchShops \/ StoreShops \/ Retry
ResyncStep == StorePage \/ ClearAll
RunStep(r) == \/ HandleDrawn(r) \/ CheckFlag(r) \/ SetFlag(r) \/ FindNumbers(r)
              \/ LinkNumbers(r) \/ FindKeys(r) \/ Predict(r) \/ FindUnscored(r)
              \/ Score(r) \/ Unflag(r) \/ Unlock(r)

Next == \/ Publish \/ Saturday \/ Resync \/ Analyze \/ JobStep \/ ResyncStep
        \/ AskShops \/ StoreWanted
        \/ \E f \in Fetchers : FetchStep(f)
        \/ \E r \in Runners : RunStep(r) \/ RunFails(r)
        \/ FindLatest \/ CreatePrediction
        \/ \E k \in Keys : Read(k) \/ Expire(k)
        \/ Fill \/ Forget
        \/ \E e \in Episodes : FindShops(e)
        \/ SyncFromRedis \/ \E b \in BOOLEAN : ToggleStatus(b)
        \/ LockExpires \/ FlagExpires \/ FetchFails \/ Crash

\* The event loop runs what is ready; the clock and the lottery go on.
Fairness == /\ WF_vars(Publish) /\ WF_vars(Saturday)
            /\ WF_vars(JobStep) /\ WF_vars(ResyncStep) /\ WF_vars(StoreWanted)
            /\ \A f \in Fetchers : WF_vars(FetchStep(f))
            /\ \A r \in Runners : WF_vars(RunStep(r) \/ (NoRow(r) /\ RunFails(r)))
            /\ WF_vars(CreatePrediction) /\ WF_vars(Fill)
            /\ \A k \in Keys : WF_vars(Expire(k))
            /\ WF_vars(Forget) /\ WF_vars(LockExpires) /\ WF_vars(FlagExpires)

Spec == Init /\ [][Next]_vars /\ Fairness

-----------------------------------------------------------------------------
(* Properties.                                                             *)

\* Every column, key and local variable stays within its values; no more is
\* scored than there is.
TypeOK ==
    /\ setting \in Settings /\ week \in 0..MaxWeeks /\ published \in Episodes
    /\ row \in [Episodes -> {"none", "placeholder", "drawn"}]
    /\ linked \subseteq Drawn /\ wanted \subseteq Episodes
    /\ {sys, usr, scored, shops} \subseteq [Episodes -> Nat]
    /\ \A e \in Episodes : scored[e] <= Total(e)
    /\ {flag, locked, shown} \subseteq BOOLEAN
    /\ \A f \in Fetchers : fetcher[f].e \in 0..(MaxWeeks + 1) /\ fetcher[f].attempt \in 0..MaxAttempts
    /\ \A r \in Runners : run[r].e \in 0..(MaxWeeks + 1)
    /\ user.e \in {0} \cup Episodes
    /\ \A k \in Keys : Cardinality(cache[k]) <= 1
    /\ Cardinality(reader) <= 1 /\ Cardinality(memo) <= 1
    /\ extras \in 0..MaxExtras

\* "Skipping duplicate run": the job, the handler of its own event and a manager
\* together never store a second prediction of the system, unless two of them
\* look at the flag before one sets it; and the fetches of shops of the job and of
\* a manager, with their attempts, failures and crashes, store no episode's shops
\* twice, unless they overlap or a user has them fetched meanwhile.
NothingTwice ==
    \A e \in Episodes : /\ setting # "race" => sys[e] <= 1
                        /\ setting \notin {"weekly", "race"} => shops[e] <= 1

\* A user who asks right after a draw finds the row his prediction refers to,
\* except between the two writes of a draw or where they failed.
UpcomingHasRow ==
    (setting # "faults" /\ \A f \in Fetchers : fetcher[f].at # "placeholder")
        => row[Latest + 1] # "none"

\* Once the event of a draw is handled, what is cached about draws shows it, if
\* readers are quick; the ball status is not among what is cleared.
CacheShowsDraws ==
    (setting = "readers" /\ \A f \in Fetchers : fetcher[f].at # "placeholder"
                         /\ \A r \in Runners : run[r].at # "drawn")
        => \A k \in Keys : k[1] # "status" => \A v \in cache[k] : v.drawn = View(k).drawn

\* Every stored draw is analysed in the end, predicted for and its predictions
\* scored: what a failure or a crash leaves behind, the next week's job makes up.
Complete(e) == e \in linked /\ (e > 1 => sys[e] > 0) /\ scored[e] = Total(e)
DrawnIsAnalysed == setting # "manual" => <>[](\A e \in Drawn : Complete(e))

\* The site is opened again, at the latest by the job of the following week.
SiteOpens == setting # "manual" => <>[]~(locked \/ shown)

\* What is cached agrees with the draws in the end.
FreshInTheEnd == <>[](\A k \in Keys : \A v \in cache[k] : v.drawn = View(k).drawn)
=============================================================================
