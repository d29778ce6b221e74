--------------------------- MODULE CommunityProofs ---------------------------
(***************************************************************************)
(* Proofs about Community, for any users, posts, files, names and bounds:  *)
(* types are kept, slips and reports count once, the files of posts and    *)
(* avatars stay, and nicknames are in order.                               *)
(***************************************************************************)
EXTENDS CommunityInvariant, TLAPS

(* Slots. *)

\* A handler's step changes its own slot only.
Moves(s) == \A x \in Slots : x # s => task'[x] = task[x]

LEMMA SlotsKept ==
  ASSUME SlotsOK, NEW s \in Slots, UNCHANGED <<part, calm>>, begun' \in Nat, Moves(s),
         task[s] # Nothing \/ (calm => s = Only)
  PROVE  SlotsOK'
BY DEF SlotsOK, Alone, Moves, Only

LEMMA ArrivesW ==
  ASSUME SlotsOK, NEW s \in Slots, W!Arrives(s)
  PROVE  UNCHANGED <<part, calm>> /\ begun' \in Nat /\ task[s] = Nothing /\ (calm => s = Only)
BY DEF SlotsOK, Only, W!Arrives, W!IsFree, W!Nothing, Nothing

LEMMA AtW ==
  ASSUME SlotsOK, NEW s \in Slots, NEW op, op # "nothing", W!At(s, op)
  PROVE  /\ UNCHANGED <<part, calm>> /\ begun' \in Nat
         /\ task[s] # Nothing /\ task[s].op = op /\ (calm => s = Only)
BY DEF SlotsOK, Alone, Only, W!At, Nothing

LEMMA OnlyIsSlot == Only \in Slots
BY RequestsAssumption DEF Only

-----------------------------------------------------------------------------
(* Nicknames and banned words. *)

WordsState == SlotsOK /\ part = "words" /\ WordTypes /\ OneHolderEach /\ (calm => WordsAgree)

WordSteps == {"add", "learn", "remove", "unlearn", "settle", "strip", "others"}

\* What the handlers put into their slots are tasks, with what their step uses.
LEMMA WordShape ==
  \A t \in WordTasks :
    /\ t.op = "name" => t.user \in Owners /\ t.name \in Names /\ t.by \in {"choice", "signup"}
    /\ t.op = "file" => t.name \in Names
    /\ t.op \in WordSteps => t.name \in Names /\ t.report \in Reports \cup {W!NoReport}
    /\ t.op = "reject" => t.report \in Reports
<1> SUFFICES ASSUME NEW t \in WordTasks
             PROVE  /\ t.op = "name" => t.user \in Owners /\ t.name \in Names
                                        /\ t.by \in {"choice", "signup"}
                    /\ t.op = "file" => t.name \in Names
                    /\ t.op \in WordSteps => t.name \in Names /\ t.report \in Reports \cup {W!NoReport}
                    /\ t.op = "reject" => t.report \in Reports
  OBVIOUS
<1>1. CASE t = Nothing
  BY <1>1 DEF Nothing, WordSteps
<1>2. CASE t \in [op : {"name"}, user : Owners, name : Names, by : {"choice", "signup"}]
  BY <1>2 DEF WordSteps
<1>3. CASE t \in [op : {"file"}, name : Names] \cup [op : {"reject"}, report : Reports]
  BY <1>3 DEF WordSteps
<1>4. CASE t \in [op : WordSteps, name : Names, report : Reports \cup {W!NoReport}]
  BY <1>4 DEF WordSteps
<1> QED
  BY <1>1, <1>2, <1>3, <1>4 DEF WordTasks, WordSteps

LEMMA NothingInTasks ==
  /\ Nothing \in WordTasks /\ Nothing \in FileTasks /\ Nothing \in BoardTasks
  /\ Nothing.op = "nothing" /\ W!Nothing = Nothing /\ A!Nothing = Nothing /\ B!Nothing = Nothing
BY DEF WordTasks, FileTasks, BoardTasks, Nothing, W!Nothing, A!Nothing, B!Nothing

LEMMA WordIsTask ==
  \A op \in WordSteps, n \in Names, r \in Reports \cup {W!NoReport} :
    /\ W!Word(op, n, r) \in WordTasks
    /\ W!Word(op, n, r).op = op /\ W!Word(op, n, r).name = n /\ W!Word(op, n, r).report = r
BY DEF W!Word, WordTasks, WordSteps

ReportsOK ==
  /\ report \in [Reports -> [name : Names \cup {"none"},
                             status : {"unfiled", "PENDING", "BLOCKED", "REJECTED"}]]
  /\ \A r \in Reports : report[r].status = "PENDING" => report[r].name \in Names

\* A step that leaves the nicknames and the words, and puts no name on its way.
LEMMA WordsQuiet ==
  ASSUME WordsState, NEW s \in Slots, UNCHANGED <<part, calm>>, begun' \in Nat,
         UNCHANGED <<nick, table, memory, cleared>>,
         ReportsOK',
         task' = [task EXCEPT ![s] = task'[s]], task'[s] \in WordTasks,
         task[s] # Nothing \/ (calm => s = Only),
         task[s].op \notin {"learn", "unlearn"}, task'[s].op \notin {"learn", "unlearn", "name"}
  PROVE  WordsState'
<1>1. Moves(s) /\ task' \in [Slots -> WordTasks]
  BY DEF WordsState, WordTypes, Moves
<1>2. SlotsOK' /\ (calm => s = Only)
  BY <1>1, SlotsKept DEF WordsState, SlotsOK, Alone
<1>3. WordTypes' /\ OneHolderEach'
  BY <1>1 DEF WordsState, WordTypes, OneHolderEach, ReportsOK
<1>4. ASSUME calm PROVE WordsAgree'
  BY <1>2, <1>4 DEF WordsState, WordsAgree
<1> QED
  BY <1>2, <1>3, <1>4 DEF WordsState

\* What a step of the handler in slot s leaves to show.
Steps(s) == UNCHANGED <<part, calm>> /\ begun' \in Nat /\ (task[s] # Nothing \/ (calm => s = Only))

LEMMA WordsGo ==
  ASSUME WordsState, NEW s \in Slots, Steps(s)
  PROVE  /\ calm => s = Only
         /\ \A t \in WordTasks : W!Then(s, t) =>
              /\ SlotsOK' /\ part' = "words" /\ task' \in [Slots -> WordTasks] /\ task'[s] = t
              /\ task' = [task EXCEPT ![s] = task'[s]]
<1>1. calm => s = Only
  BY DEF WordsState, SlotsOK, Alone, Steps
<1>2. ASSUME NEW t \in WordTasks, W!Then(s, t)
      PROVE  /\ SlotsOK' /\ part' = "words" /\ task' \in [Slots -> WordTasks] /\ task'[s] = t
             /\ task' = [task EXCEPT ![s] = task'[s]]
  <2>1. task' = [task EXCEPT ![s] = t] /\ task \in [Slots -> WordTasks]
    BY <1>2 DEF W!Then, WordsState, WordTypes
  <2>2. task' \in [Slots -> WordTasks] /\ task'[s] = t /\ Moves(s)
    BY <2>1, <1>2 DEF Moves
  <2>3. SlotsOK'
    BY <2>2, <1>1, SlotsKept DEF WordsState, Steps
  <2> QED
    BY <2>1, <2>2, <2>3 DEF WordsState, Steps
<1> QED
  BY <1>1, <1>2

LEMMA ArrivesSteps ==
  ASSUME SlotsOK, NEW s \in Slots, W!Arrives(s)
  PROVE  Steps(s) /\ task[s] = Nothing
BY ArrivesW DEF Steps

LEMMA AtSteps ==
  ASSUME SlotsOK, NEW s \in Slots, NEW op, op # "nothing", W!At(s, op)
  PROVE  Steps(s) /\ task[s].op = op
BY AtW DEF Steps

\* The same for a step that does not learn, unlearn or name.
LEMMA QuietGo ==
  ASSUME WordsState, NEW s \in Slots, Steps(s), UNCHANGED <<nick, table, memory, report, cleared>>,
         task[s].op \notin {"learn", "unlearn"},
         \E t \in WordTasks : W!Then(s, t) /\ t.op \notin {"learn", "unlearn", "name"}
  PROVE  WordsState'
<1>1. PICK t \in WordTasks : W!Then(s, t) /\ t.op \notin {"learn", "unlearn", "name"}
  OBVIOUS
<1>2. /\ task' = [task EXCEPT ![s] = task'[s]] /\ task'[s] \in WordTasks
      /\ task'[s].op \notin {"learn", "unlearn", "name"}
  BY <1>1, WordsGo
<1>3. ReportsOK'
  BY DEF WordsState, WordTypes, ReportsOK
<1> QED
  BY <1>2, <1>3, WordsQuiet DEF Steps

LEMMA SetNicknameReadsKept ==
  ASSUME WordsState, NEW s \in Slots, W!SetNicknameReads(s) PROVE WordsState'
<1>1. Steps(s) /\ task[s] = Nothing
  BY ArrivesSteps DEF W!SetNicknameReads, WordsState
<1>2. PICK u \in Owners, n \in Names :
        /\ n \notin memory
        /\ W!Then(s, [op |-> "name", user |-> u, name |-> n, by |-> "choice"])
  BY DEF W!SetNicknameReads, W!IsFit
<1>3. [op |-> "name", user |-> u, name |-> n, by |-> "choice"] \in WordTasks
  BY DEF WordTasks
<1>4. /\ SlotsOK' /\ part' = "words" /\ task' \in [Slots -> WordTasks]
      /\ task'[s] = [op |-> "name", user |-> u, name |-> n, by |-> "choice"]
      /\ calm => s = Only
  BY <1>1, <1>2, <1>3, WordsGo
<1>5. UNCHANGED <<nick, table, memory, report, cleared, calm>>
  BY <1>1 DEF W!SetNicknameReads, W!wordsVars, Steps
<1>6. WordTypes' /\ OneHolderEach'
  BY <1>4, <1>5 DEF WordsState, WordTypes, OneHolderEach
<1>7. ASSUME calm PROVE WordsAgree'
  <2>1. WordsAgree /\ task[Only].op = "nothing"
    BY <1>1, <1>4, <1>7, NothingInTasks DEF WordsState
  <2>2. memory = table /\ n \notin cleared
    BY <2>1, <1>2 DEF WordsAgree
  <2> QED
    BY <2>1, <2>2, <1>4, <1>5, <1>7 DEF WordsAgree
<1> QED
  BY <1>4, <1>5, <1>6, <1>7 DEF WordsState

LEMMA SignupNamesKept ==
  ASSUME WordsState, NEW s \in Slots, W!SignupNames(s) PROVE WordsState'
<1>1. Steps(s) /\ task[s] = Nothing
  BY ArrivesSteps DEF W!SignupNames, WordsState
<1>2. PICK u \in Owners, n \in Names :
        W!Then(s, [op |-> "name", user |-> u, name |-> n, by |-> "signup"])
  BY DEF W!SignupNames
<1>3. [op |-> "name", user |-> u, name |-> n, by |-> "signup"] \in WordTasks
  BY DEF WordTasks
<1>4. /\ SlotsOK' /\ part' = "words" /\ task' \in [Slots -> WordTasks]
      /\ task'[s] = [op |-> "name", user |-> u, name |-> n, by |-> "signup"]
      /\ calm => s = Only
  BY <1>1, <1>2, <1>3, WordsGo
<1>5. UNCHANGED <<nick, table, memory, report, cleared, calm>>
  BY <1>1 DEF W!SignupNames, W!wordsVars, Steps
<1>6. WordTypes' /\ OneHolderEach'
  BY <1>4, <1>5 DEF WordsState, WordTypes, OneHolderEach
<1>7. ASSUME calm PROVE WordsAgree'
  <2>1. WordsAgree /\ task[Only].op = "nothing"
    BY <1>1, <1>4, <1>7, NothingInTasks DEF WordsState
  <2> QED
    BY <2>1, <1>4, <1>5, <1>7 DEF WordsAgree
<1> QED
  BY <1>4, <1>5, <1>6, <1>7 DEF WordsState

LEMMA WritesNameKept ==
  ASSUME WordsState, NEW s \in Slots, W!WritesName(s) PROVE WordsState'
<1>1. Steps(s) /\ task[s].op = "name"
  BY AtSteps DEF W!WritesName, WordsState
<1>2. W!Then(s, Nothing)
  BY NothingInTasks DEF W!WritesName, W!Ends
<1>3. /\ SlotsOK' /\ part' = "words" /\ task' \in [Slots -> WordTasks]
      /\ task'[s] = Nothing
      /\ calm => s = Only
  BY <1>1, <1>2, NothingInTasks, WordsGo
<1>4. UNCHANGED <<table, memory, report, cleared, calm>>
  BY <1>1 DEF W!WritesName, Steps
<1>5. task[s].user \in Owners /\ task[s].name \in Names /\ task[s].by \in {"choice", "signup"}
  BY <1>1, WordShape DEF WordsState, WordTypes
<1>6. CASE nick' = nick
  <2>1. WordTypes' /\ OneHolderEach'
    BY <1>3, <1>4, <1>6 DEF WordsState, WordTypes, OneHolderEach
  <2>2. ASSUME calm PROVE WordsAgree'
    BY <1>1, <1>3, <1>4, <1>6, <2>2, NothingInTasks DEF WordsState, WordsAgree
  <2> QED
    BY <1>3, <2>1, <2>2, <1>4 DEF WordsState
<1>7. CASE nick' # nick
  <2> DEFINE v == [name |-> task[s].name, by |-> task[s].by]
  <2>1. /\ nick' = [nick EXCEPT ![task[s].user] = v]
        /\ \A u \in Owners : nick[u].name = task[s].name => u = task[s].user
    BY <1>7 DEF W!WritesName, W!Holders
  <2>2. v \in Nicknames
    BY <1>5 DEF Nicknames
  <2>3. nick \in [Owners -> Nicknames]
    BY DEF WordsState, WordTypes
  <2>4. /\ nick' \in [Owners -> Nicknames] /\ nick'[task[s].user] = v
        /\ \A u \in Owners : u # task[s].user => nick'[u] = nick[u]
    BY <2>1, <2>2, <2>3, <1>5
  <2>5. WordTypes'
    BY <2>4, <1>3, <1>4 DEF WordsState, WordTypes
  <2>6. v.name = task[s].name /\ v.by = task[s].by
    OBVIOUS
  <2>7. OneHolderEach'
    <3> HIDE DEF v
    <3>1. SUFFICES ASSUME NEW x \in Owners, NEW y \in Owners, nick'[x].name = nick'[y].name,
                          nick'[x].name \in Names
                   PROVE  x = y
      BY DEF OneHolderEach
    <3>2. OneHolderEach
      BY DEF WordsState
    <3> QED
      BY <3>1, <3>2, <2>1, <2>4, <2>6 DEF OneHolderEach
  <2>8. ASSUME calm PROVE WordsAgree'
    <3>1. WordsAgree /\ s = Only
      BY <2>8, <1>3 DEF WordsState
    <3>2. \A u \in Owners : nick'[u].by = "choice" => nick'[u].name \notin cleared
      BY <3>1, <2>4, <2>6, <1>1 DEF WordsAgree
    <3> QED
      BY <3>1, <3>2, <1>1, <1>3, <1>4, NothingInTasks DEF WordsAgree
  <2> QED
    BY <1>3, <2>5, <2>7, <2>8, <1>4 DEF WordsState
<1> QED
  BY <1>6, <1>7

LEMMA ResetUserNicknameKept ==
  ASSUME WordsState, NEW s \in Slots, W!ResetUserNickname(s) PROVE WordsState'
<1>1. Steps(s) /\ UNCHANGED <<task, table, memory, report, cleared>>
  BY ArrivesSteps DEF W!ResetUserNickname, WordsState
<1>2. PICK u \in Owners : nick' = [nick EXCEPT ![u] = W!NoName]
  BY DEF W!ResetUserNickname
<1>3. nick \in [Owners -> Nicknames] /\ W!NoName \in Nicknames
  BY DEF WordsState, WordTypes, Nicknames
<1>4. /\ nick' \in [Owners -> Nicknames]
      /\ \A x \in Owners : nick'[x] = IF x = u THEN W!NoName ELSE nick[x]
  BY <1>2, <1>3
<1>5. W!NoName.name \notin Names /\ W!NoName.by # "choice"
  BY CommunityAssumption DEF W!NoName
<1>6. SlotsOK' /\ part' = "words" /\ WordTypes'
  BY <1>1, <1>4 DEF WordsState, SlotsOK, Alone, WordTypes, Steps
<1>7. OneHolderEach'
  BY <1>4, <1>5 DEF WordsState, OneHolderEach
<1>8. ASSUME calm PROVE WordsAgree'
  <2>1. WordsAgree
    BY <1>8 DEF WordsState
  <2> QED
    BY <2>1, <1>1, <1>4, <1>5 DEF WordsAgree
<1> QED
  BY <1>6, <1>7, <1>8, <1>1 DEF WordsState, Steps

LEMMA ReportNicknameKept ==
  ASSUME WordsState, NEW s \in Slots, W!ReportNickname(s) PROVE WordsState'
<1>1. Steps(s) /\ task[s] = Nothing /\ UNCHANGED <<nick, table, memory, report, cleared>>
  BY ArrivesSteps DEF W!ReportNickname, W!wordsVars, WordsState
<1>2. PICK u \in Owners : /\ nick[u] # W!NoName
                           /\ W!Then(s, [op |-> "file", name |-> nick[u].name])
  BY DEF W!ReportNickname
<1>3. nick[u].name \in Names
  BY <1>2 DEF WordsState, WordTypes, Nicknames
<1>4. [op |-> "file", name |-> nick[u].name] \in WordTasks
  BY <1>3 DEF WordTasks
<1> QED
  BY <1>1, <1>2, <1>4, NothingInTasks, QuietGo

LEMMA AddBannedWordKept ==
  ASSUME WordsState, NEW s \in Slots, W!AddBannedWord(s) PROVE WordsState'
<1>1. Steps(s) /\ task[s] = Nothing /\ UNCHANGED <<nick, table, memory, report, cleared>>
  BY ArrivesSteps DEF W!AddBannedWord, W!wordsVars, WordsState
<1>2. PICK n \in Names : W!Then(s, W!Word("add", n, W!NoReport))
  BY DEF W!AddBannedWord
<1>3. W!Word("add", n, W!NoReport) \in WordTasks /\ W!Word("add", n, W!NoReport).op = "add"
  BY WordIsTask DEF WordSteps
<1> QED
  BY <1>1, <1>2, <1>3, NothingInTasks, QuietGo

LEMMA RemoveBannedWordKept ==
  ASSUME WordsState, NEW s \in Slots, W!RemoveBannedWord(s) PROVE WordsState'
<1>1. Steps(s) /\ task[s] = Nothing /\ UNCHANGED <<nick, table, memory, report, cleared>>
  BY ArrivesSteps DEF W!RemoveBannedWord, W!wordsVars, WordsState
<1>2. PICK n \in memory : W!Then(s, W!Word("remove", n, W!NoReport))
  BY DEF W!RemoveBannedWord
<1>3. n \in Names
  BY DEF WordsState, WordTypes
<1>4. W!Word("remove", n, W!NoReport) \in WordTasks /\ W!Word("remove", n, W!NoReport).op = "remove"
  BY <1>3, WordIsTask DEF WordSteps
<1> QED
  BY <1>1, <1>2, <1>4, NothingInTasks, QuietGo

LEMMA BlockNicknameReportKept ==
  ASSUME WordsState, NEW s \in Slots, W!BlockNicknameReport(s) PROVE WordsState'
<1>1. Steps(s) /\ task[s] = Nothing /\ UNCHANGED <<nick, table, memory, report, cleared>>
  BY ArrivesSteps DEF W!BlockNicknameReport, W!wordsVars, WordsState
<1>2. PICK r \in Reports :
        /\ report[r].status = "PENDING"
        /\ \E op \in {"settle", "add"} : W!Then(s, W!Word(op, report[r].name, r))
  BY DEF W!BlockNicknameReport
<1>3. report[r].name \in Names
  BY <1>2 DEF WordsState, WordTypes
<1>4. PICK op \in {"settle", "add"} : W!Then(s, W!Word(op, report[r].name, r))
  BY <1>2
<1>5. W!Word(op, report[r].name, r) \in WordTasks /\ W!Word(op, report[r].name, r).op = op
  BY <1>3, WordIsTask DEF WordSteps
<1> QED
  BY <1>1, <1>4, <1>5, NothingInTasks, QuietGo

LEMMA RejectNicknameReportKept ==
  ASSUME WordsState, NEW s \in Slots, W!RejectNicknameReport(s) PROVE WordsState'
<1>1. Steps(s) /\ task[s] = Nothing /\ UNCHANGED <<nick, table, memory, report, cleared>>
  BY ArrivesSteps DEF W!RejectNicknameReport, W!wordsVars, WordsState
<1>2. PICK r \in Reports : W!Then(s, [op |-> "reject", report |-> r])
  BY DEF W!RejectNicknameReport
<1>3. [op |-> "reject", report |-> r] \in WordTasks
  BY DEF WordTasks
<1> QED
  BY <1>1, <1>2, <1>3, NothingInTasks, QuietGo

LEMMA FilesReportKept ==
  ASSUME WordsState, NEW s \in Slots, W!FilesReport(s) PROVE WordsState'
<1>1. Steps(s) /\ task[s].op = "file" /\ UNCHANGED <<nick, table, memory, cleared>>
  BY AtSteps DEF W!FilesReport, WordsState
<1>2. W!Then(s, Nothing)
  BY NothingInTasks DEF W!FilesReport, W!Ends
<1>3. /\ task' = [task EXCEPT ![s] = task'[s]] /\ task'[s] \in WordTasks
      /\ task'[s].op \notin {"learn", "unlearn", "name"}
  BY <1>1, <1>2, NothingInTasks, WordsGo
<1>4. PICK r \in Reports : report' = [report EXCEPT ![r] = W!Filed(task[s].name, "PENDING")]
  BY DEF W!FilesReport
<1>5. task[s].name \in Names
  BY <1>1, WordShape DEF WordsState, WordTypes
<1>6. /\ W!Filed(task[s].name, "PENDING") \in [name : Names \cup {"none"},
                                 status : {"unfiled", "PENDING", "BLOCKED", "REJECTED"}]
      /\ W!Filed(task[s].name, "PENDING").name = task[s].name
  BY <1>5 DEF W!Filed
<1>7. /\ \A x \in Reports : report'[x] = IF x = r THEN W!Filed(task[s].name, "PENDING") ELSE report[x]
      /\ report' = [x \in Reports |-> report'[x]]
  BY <1>4 DEF WordsState, WordTypes
<1>8. ReportsOK'
  BY <1>5, <1>6, <1>7 DEF WordsState, WordTypes, ReportsOK
<1> QED
  BY <1>1, <1>3, <1>8, WordsQuiet DEF Steps

\* The answer to a report leaves its name.
LEMMA AnsweredShape ==
  \A r \in Reports, status \in {"BLOCKED", "REJECTED"} :
    WordTypes /\ report' = W!Answered(r, status) => ReportsOK'
<1> SUFFICES ASSUME NEW r \in Reports, NEW status \in {"BLOCKED", "REJECTED"},
                    WordTypes, report' = W!Answered(r, status)
             PROVE  ReportsOK'
  OBVIOUS
<1> DEFINE a == [name |-> report[r].name, status |-> status]
<1>1. /\ a \in [name : Names \cup {"none"}, status : {"unfiled", "PENDING", "BLOCKED", "REJECTED"}]
      /\ a.status # "PENDING"
  BY DEF WordTypes
<1>2. report' = [report EXCEPT ![r] = a]
  BY DEF W!Answered, W!Filed, WordTypes
<1> HIDE DEF a
<1> QED
  BY <1>1, <1>2 DEF WordTypes, ReportsOK

LEMMA SettlesReportKept ==
  ASSUME WordsState, NEW s \in Slots, W!SettlesReport(s) PROVE WordsState'
<1>1. Steps(s) /\ task[s].op = "settle" /\ UNCHANGED <<nick, table, memory, cleared>>
  BY AtSteps DEF W!SettlesReport, WordsState
<1>2. task[s].name \in Names /\ task[s].report \in Reports \cup {W!NoReport}
  BY <1>1, WordShape DEF WordsState, WordTypes, WordSteps
<1>3. /\ W!Word("strip", task[s].name, task[s].report) \in WordTasks
      /\ W!Word("strip", task[s].name, task[s].report).op = "strip"
  BY <1>2, WordIsTask DEF WordSteps
<1>4. /\ task' = [task EXCEPT ![s] = task'[s]] /\ task'[s] \in WordTasks
      /\ task'[s].op \notin {"learn", "unlearn", "name"}
  BY <1>1, <1>3, WordsGo DEF W!SettlesReport
<1>5. CASE task[s].report \in Reports
  <2>1. report' = W!Answered(task[s].report, "BLOCKED") /\ WordTypes
    BY DEF W!SettlesReport, WordsState
  <2>2. ReportsOK'
    BY <2>1, <1>5, AnsweredShape
  <2> QED
    BY <1>1, <1>4, <2>2, WordsQuiet DEF Steps
<1>6. CASE task[s].report \notin Reports
  <2>1. report' = report
    BY <1>6 DEF W!SettlesReport, W!Answered, WordsState, WordTypes
  <2> QED
    BY <1>1, <1>4, <2>1, WordsQuiet DEF Steps, WordsState, WordTypes, ReportsOK
<1> QED
  BY <1>5, <1>6

LEMMA RejectsReportKept ==
  ASSUME WordsState, NEW s \in Slots, W!RejectsReport(s) PROVE WordsState'
<1>1. Steps(s) /\ task[s].op = "reject" /\ UNCHANGED <<nick, table, memory, cleared>>
  BY AtSteps DEF W!RejectsReport, WordsState
<1>2. task[s].report \in Reports /\ W!Then(s, Nothing)
  BY <1>1, WordShape, NothingInTasks DEF WordsState, WordTypes, W!RejectsReport, W!Ends
<1>3. /\ task' = [task EXCEPT ![s] = task'[s]] /\ task'[s] \in WordTasks
      /\ task'[s].op \notin {"learn", "unlearn", "name"}
  BY <1>1, <1>2, NothingInTasks, WordsGo
<1>4. report' = W!Answered(task[s].report, "REJECTED") /\ WordTypes
  BY DEF W!RejectsReport, WordsState
<1>5. ReportsOK'
  BY <1>2, <1>4, AnsweredShape
<1> QED
  BY <1>1, <1>3, <1>5, WordsQuiet DEF Steps

LEMMA SettlesOthersKept ==
  ASSUME WordsState, NEW s \in Slots, W!SettlesOthers(s) PROVE WordsState'
<1>1. Steps(s) /\ task[s].op = "others" /\ UNCHANGED <<nick, table, memory, cleared>>
  BY AtSteps DEF W!SettlesOthers, WordsState
<1>2. task[s].name \in Names /\ W!Then(s, Nothing)
  BY <1>1, WordShape, NothingInTasks DEF WordsState, WordTypes, WordSteps, W!SettlesOthers, W!Ends
<1>3. /\ task' = [task EXCEPT ![s] = task'[s]] /\ task'[s] \in WordTasks
      /\ task'[s].op \notin {"learn", "unlearn", "name"}
  BY <1>1, <1>2, NothingInTasks, WordsGo
<1> DEFINE b == W!Filed(task[s].name, "BLOCKED")
<1>4. /\ b \in [name : Names \cup {"none"}, status : {"unfiled", "PENDING", "BLOCKED", "REJECTED"}]
      /\ b.status # "PENDING"
  BY <1>2 DEF W!Filed
<1>5. /\ report' = [r \in Reports |-> report'[r]]
      /\ \A r \in Reports : report'[r] \in {b, report[r]}
  BY DEF W!SettlesOthers
<1> HIDE DEF b
<1>6. ReportsOK'
  BY <1>4, <1>5 DEF WordsState, WordTypes, ReportsOK
<1> QED
  BY <1>1, <1>3, <1>6, WordsQuiet DEF Steps

LEMMA InsertsWordKept ==
  ASSUME WordsState, NEW s \in Slots, W!InsertsWord(s) PROVE WordsState'
<1>1. Steps(s) /\ task[s].op = "add" /\ UNCHANGED <<nick, memory, report, cleared>>
  BY AtSteps DEF W!InsertsWord, WordsState
<1>2. task[s].name \in Names /\ task[s].report \in Reports \cup {W!NoReport}
  BY <1>1, WordShape DEF WordsState, WordTypes, WordSteps
<1>3. CASE task[s].name \in table
  <2>1. UNCHANGED table /\ W!Then(s, Nothing)
    BY <1>3, NothingInTasks DEF W!InsertsWord, W!Ends
  <2> QED
    BY <1>1, <2>1, NothingInTasks, QuietGo
<1>4. CASE task[s].name \notin table
  <2> DEFINE t == W!Word("learn", task[s].name, task[s].report)
  <2>1. table' = table \cup {task[s].name} /\ W!Then(s, t)
    BY <1>4 DEF W!InsertsWord
  <2>2. t \in WordTasks /\ t.op = "learn" /\ t.name = task[s].name
    BY <1>2, WordIsTask DEF WordSteps
  <2> HIDE DEF t
  <2>3. /\ SlotsOK' /\ part' = "words" /\ task' \in [Slots -> WordTasks] /\ task'[s] = t
        /\ calm => s = Only
    BY <1>1, <2>1, <2>2, WordsGo
  <2>4. WordTypes' /\ OneHolderEach'
    BY <1>1, <1>2, <2>1, <2>3 DEF WordsState, WordTypes, OneHolderEach
  <2>5. ASSUME calm PROVE WordsAgree'
    <3>1. WordsAgree /\ s = Only
      BY <2>3, <2>5 DEF WordsState
    <3>2. memory = table /\ cleared \subseteq table
      BY <3>1, <1>1 DEF WordsAgree
    <3> QED
      BY <3>1, <3>2, <1>1, <1>4, <2>1, <2>2, <2>3 DEF WordsAgree
  <2> QED
    BY <1>1, <2>3, <2>4, <2>5 DEF WordsState, Steps
<1> QED
  BY <1>3, <1>4

LEMMA LearnsWordKept ==
  ASSUME WordsState, NEW s \in Slots, W!LearnsWord(s) PROVE WordsState'
<1>1. Steps(s) /\ task[s].op = "learn" /\ UNCHANGED <<nick, table, report, cleared>>
  BY AtSteps DEF W!LearnsWord, WordsState
<1>2. task[s].name \in Names /\ task[s].report \in Reports \cup {W!NoReport}
  BY <1>1, WordShape DEF WordsState, WordTypes, WordSteps
<1>3. memory' = memory \cup {task[s].name}
  BY DEF W!LearnsWord, W!Learnt
<1> DEFINE t == W!AfterAdding(task[s].name, task[s].report)
<1>4. t \in WordTasks /\ t.op \in {"nothing", "settle"} /\ W!Then(s, t)
  BY <1>2, WordIsTask, NothingInTasks DEF WordSteps, W!AfterAdding, W!LearnsWord
<1> HIDE DEF t
<1>5. /\ SlotsOK' /\ part' = "words" /\ task' \in [Slots -> WordTasks] /\ task'[s] = t
      /\ calm => s = Only
  BY <1>1, <1>4, WordsGo
<1>6. WordTypes' /\ OneHolderEach'
  BY <1>1, <1>2, <1>3, <1>5 DEF WordsState, WordTypes, OneHolderEach
<1>7. ASSUME calm PROVE WordsAgree'
  <2>1. WordsAgree /\ s = Only
    BY <1>5, <1>7 DEF WordsState
  <2>2. memory' = table /\ cleared \subseteq table
    BY <2>1, <1>1, <1>3 DEF WordsAgree
  <2> QED
    BY <2>1, <2>2, <1>1, <1>4, <1>5 DEF WordsAgree
<1> QED
  BY <1>1, <1>5, <1>6, <1>7 DEF WordsState, Steps

LEMMA DeletesWordKept ==
  ASSUME WordsState, NEW s \in Slots, W!DeletesWord(s) PROVE WordsState'
<1>1. Steps(s) /\ task[s].op = "remove" /\ UNCHANGED <<nick, memory, report>>
  BY AtSteps DEF W!DeletesWord, WordsState
<1>2. task[s].name \in Names
  BY <1>1, WordShape DEF WordsState, WordTypes, WordSteps
<1>3. CASE task[s].name \notin table
  <2>1. UNCHANGED <<table, cleared>> /\ W!Then(s, Nothing)
    BY <1>3, NothingInTasks DEF W!DeletesWord, W!Ends
  <2> QED
    BY <1>1, <2>1, NothingInTasks, QuietGo
<1>4. CASE task[s].name \in table
  <2> DEFINE t == W!Word("unlearn", task[s].name, W!NoReport)
  <2>1. /\ table' = table \ {task[s].name} /\ cleared' = cleared \ {task[s].name}
        /\ W!Then(s, t)
    BY <1>4 DEF W!DeletesWord
  <2>2. t \in WordTasks /\ t.op = "unlearn" /\ t.name = task[s].name
    BY <1>2, WordIsTask DEF WordSteps
  <2> HIDE DEF t
  <2>3. /\ SlotsOK' /\ part' = "words" /\ task' \in [Slots -> WordTasks] /\ task'[s] = t
        /\ calm => s = Only
    BY <1>1, <2>1, <2>2, WordsGo
  <2>4. WordTypes' /\ OneHolderEach'
    BY <1>1, <1>2, <2>1, <2>3 DEF WordsState, WordTypes, OneHolderEach
  <2>5. ASSUME calm PROVE WordsAgree'
    <3>1. WordsAgree /\ s = Only
      BY <2>3, <2>5 DEF WordsState
    <3>2. /\ memory = table /\ cleared \subseteq table
          /\ \A u \in Owners : nick[u].by = "choice" => nick[u].name \notin cleared
      BY <3>1, <1>1 DEF WordsAgree
    <3> QED
      BY <3>1, <3>2, <1>1, <1>4, <2>1, <2>2, <2>3 DEF WordsAgree
  <2> QED
    BY <1>1, <2>3, <2>4, <2>5 DEF WordsState, Steps
<1> QED
  BY <1>3, <1>4

LEMMA UnlearnsWordKept ==
  ASSUME WordsState, NEW s \in Slots, W!UnlearnsWord(s) PROVE WordsState'
<1>1. Steps(s) /\ task[s].op = "unlearn" /\ UNCHANGED <<nick, table, report, cleared>>
  BY AtSteps DEF W!UnlearnsWord, WordsState
<1>2. memory' = memory \ {task[s].name} /\ W!Then(s, Nothing)
  BY NothingInTasks DEF W!UnlearnsWord, W!Unlearnt, W!Ends
<1>3. /\ SlotsOK' /\ part' = "words" /\ task' \in [Slots -> WordTasks] /\ task'[s] = Nothing
      /\ calm => s = Only
  BY <1>1, <1>2, NothingInTasks, WordsGo
<1>4. WordTypes' /\ OneHolderEach'
  BY <1>1, <1>2, <1>3 DEF WordsState, WordTypes, OneHolderEach
<1>5. ASSUME calm PROVE WordsAgree'
  <2>1. WordsAgree /\ s = Only
    BY <1>3, <1>5 DEF WordsState
  <2>2. memory' = table
    BY <2>1, <1>1, <1>2 DEF WordsAgree
  <2> QED
    BY <2>1, <2>2, <1>1, <1>3, NothingInTasks DEF WordsAgree
<1> QED
  BY <1>1, <1>3, <1>4, <1>5 DEF WordsState, Steps

LEMMA StripsNameKept ==
  ASSUME WordsState, NEW s \in Slots, W!StripsName(s) PROVE WordsState'
<1>1. Steps(s) /\ task[s].op = "strip" /\ UNCHANGED <<table, memory, report>>
  BY AtSteps DEF W!StripsName, WordsState
<1>2. task[s].name \in Names /\ task[s].report \in Reports \cup {W!NoReport}
  BY <1>1, WordShape DEF WordsState, WordTypes, WordSteps
<1> DEFINE t == W!Word("others", task[s].name, task[s].report)
<1>3. t \in WordTasks /\ t.op = "others" /\ W!Then(s, t)
  BY <1>2, WordIsTask DEF WordSteps, W!StripsName
<1> HIDE DEF t
<1>4. /\ SlotsOK' /\ part' = "words" /\ task' \in [Slots -> WordTasks] /\ task'[s] = t
      /\ calm => s = Only
  BY <1>1, <1>3, WordsGo
<1>5. /\ nick' = [u \in Owners |-> IF nick[u].name = task[s].name THEN W!NoName ELSE nick[u]]
      /\ cleared' \subseteq cleared \cup {task[s].name}
      /\ task[s].name \notin memory => cleared' = cleared
  BY DEF W!StripsName, W!Stripped
<1>6. \A u \in Owners : nick'[u] = IF nick[u].name = task[s].name THEN W!NoName ELSE nick[u]
  BY <1>5
<1>7. /\ W!NoName.name \notin Names /\ W!NoName.by # "choice" /\ W!NoName \in Nicknames
  BY CommunityAssumption DEF W!NoName, Nicknames
<1>8. WordTypes'
  BY <1>1, <1>2, <1>4, <1>5, <1>6, <1>7 DEF WordsState, WordTypes
<1>9. OneHolderEach'
  BY <1>6, <1>7 DEF WordsState, OneHolderEach
<1>10. ASSUME calm PROVE WordsAgree'
  <2>1. WordsAgree /\ s = Only
    BY <1>4, <1>10 DEF WordsState
  <2>2. /\ memory = table /\ cleared \subseteq table
        /\ \A u \in Owners : nick[u].by = "choice" => nick[u].name \notin cleared
    BY <2>1, <1>1 DEF WordsAgree
  <2>3. \A u \in Owners : nick'[u].by = "choice" => nick'[u].name \notin cleared'
    BY <2>2, <1>5, <1>6, <1>7
  <2>4. cleared' \subseteq table
    BY <2>2, <1>5
  <2> QED
    BY <2>1, <2>2, <2>3, <2>4, <1>1, <1>3, <1>4 DEF WordsAgree
<1> QED
  BY <1>1, <1>4, <1>8, <1>9, <1>10 DEF WordsState, Steps

LEMMA RestartsKept ==
  ASSUME WordsState, W!Restarts PROVE WordsState'
<1>1. /\ task' = [s \in Slots |-> Nothing] /\ memory' = table
      /\ UNCHANGED <<part, calm, begun, nick, table, report, cleared>>
  BY NothingInTasks DEF W!Restarts
<1>2. \A s \in Slots : task'[s] = Nothing
  BY <1>1
<1>3. SlotsOK' /\ part' = "words"
  BY <1>1, <1>2 DEF WordsState, SlotsOK, Alone
<1>4. WordTypes' /\ OneHolderEach'
  BY <1>1, NothingInTasks DEF WordsState, WordTypes, OneHolderEach
<1>5. ASSUME calm PROVE WordsAgree'
  <2>1. /\ cleared \subseteq table
        /\ \A u \in Owners : nick[u].by = "choice" => nick[u].name \notin cleared
    BY <1>5 DEF WordsState, WordsAgree
  <2> QED
    BY <2>1, <1>1, <1>2, OnlyIsSlot, NothingInTasks DEF WordsAgree
<1> QED
  BY <1>1, <1>3, <1>4, <1>5 DEF WordsState

LEMMA WordsNextKept ==
  ASSUME WordsState, W!WordsNext PROVE WordsState'
<1>1. ASSUME NEW s \in Slots,
             \/ W!SetNicknameReads(s) \/ W!SignupNames(s) \/ W!WritesName(s)
             \/ W!ResetUserNickname(s) \/ W!ReportNickname(s) \/ W!FilesReport(s)
      PROVE  WordsState'
  BY <1>1, SetNicknameReadsKept, SignupNamesKept, WritesNameKept, ResetUserNicknameKept,
     ReportNicknameKept, FilesReportKept
<1>2. ASSUME NEW s \in Slots,
             \/ W!AddBannedWord(s) \/ W!InsertsWord(s) \/ W!LearnsWord(s)
             \/ W!RemoveBannedWord(s) \/ W!DeletesWord(s) \/ W!UnlearnsWord(s)
      PROVE  WordsState'
  BY <1>2, AddBannedWordKept, InsertsWordKept, LearnsWordKept, RemoveBannedWordKept,
     DeletesWordKept, UnlearnsWordKept
<1>3. ASSUME NEW s \in Slots,
             \/ W!BlockNicknameReport(s) \/ W!SettlesReport(s) \/ W!StripsName(s)
             \/ W!SettlesOthers(s) \/ W!RejectNicknameReport(s) \/ W!RejectsReport(s)
      PROVE  WordsState'
  BY <1>3, BlockNicknameReportKept, SettlesReportKept, StripsNameKept, SettlesOthersKept,
     RejectNicknameReportKept, RejectsReportKept
<1> QED
  BY <1>1, <1>2, <1>3, RestartsKept DEF W!WordsNext

-----------------------------------------------------------------------------
(* Files. *)

FilesState == SlotsOK /\ part = "attachments" /\ FileTypes /\ Claims /\ MissingOK

LEMMA FileShape ==
  \A t \in FileTasks :
    /\ t.op = "post" => t.file \in NoneOr(Files)
    /\ t.op \in {"edit", "unlink"} => t.page \in Pages /\ t.file \in NoneOr(Files)
    /\ t.op = "delete" => t.page \in Pages
    /\ t.op = "face" => t.user \in Faces /\ t.file \in NoneOr(Files)
BY DEF FileTasks, Nothing

LEMMA NoPlace == A!NoFile \notin Files /\ A!NoPage \notin Files /\ A!NoFile # A!NoPage
BY CommunityAssumption DEF A!NoFile, A!NoPage

LEMMA ArrivesFiles ==
  ASSUME SlotsOK, NEW s \in Slots, A!Arrives(s)
  PROVE  Steps(s) /\ task[s] = Nothing
BY DEF SlotsOK, Only, A!Arrives, A!IsFree, A!Nothing, Nothing, Steps

LEMMA AtFiles ==
  ASSUME SlotsOK, NEW s \in Slots, NEW op, op # "nothing", A!At(s, op)
  PROVE  Steps(s) /\ task[s].op = op
BY DEF SlotsOK, Alone, Only, A!At, Nothing, Steps

LEMMA FilesGo ==
  ASSUME FilesState, NEW s \in Slots, Steps(s)
  PROVE  \A t \in FileTasks : A!Then(s, t) =>
           /\ SlotsOK' /\ part' = "attachments" /\ task' \in [Slots -> FileTasks]
           /\ \A x \in Slots : task'[x] = IF x = s THEN t ELSE task[x]
<1> SUFFICES ASSUME NEW t \in FileTasks, A!Then(s, t)
             PROVE  /\ SlotsOK' /\ part' = "attachments" /\ task' \in [Slots -> FileTasks]
                    /\ \A x \in Slots : task'[x] = IF x = s THEN t ELSE task[x]
  OBVIOUS
<1>1. task' = [task EXCEPT ![s] = t] /\ task \in [Slots -> FileTasks]
  BY DEF A!Then, FilesState, FileTypes
<1>2. /\ task' \in [Slots -> FileTasks] /\ Moves(s)
      /\ \A x \in Slots : task'[x] = IF x = s THEN t ELSE task[x]
  BY <1>1 DEF Moves
<1>3. SlotsOK'
  BY <1>2, SlotsKept DEF FilesState, Steps, SlotsOK, Alone
<1> QED
  BY <1>2, <1>3 DEF FilesState, Steps

\* A step after which nobody has a claim he did not have before.
LEMMA NoMoreClaims ==
  ASSUME FilesState, UNCHANGED <<given, shared>>, disk \subseteq disk',
         \A f \in Files, p \in Pages : OfPage(f, p)' => OfPage(f, p),
         \A f \in Files, s \in Slots : InMaking(f, s)' => InMaking(f, s),
         \A f \in Files : OfFace(f)' => OfFace(f),
         \A p \in Pages : Going(p) => Going(p)'
  PROVE  Claims' /\ MissingOK'
<1>1. Claims'
  BY DEF FilesState, Claims, Claimed
<1>2. A!Missing' \subseteq A!Missing /\ A!Missing \subseteq Files /\ given' = given
  BY DEF A!Missing
<1> QED
  BY <1>1, <1>2 DEF FilesState, MissingOK

\* A request names a file: either it is the first to name one that is there, which
\* nobody has a claim to, or the file is shared from now on.
LEMMA NamesFile ==
  ASSUME FilesState, NEW f \in NoneOr(Files), A!Mentions(f)
  PROVE  /\ given \subseteq given' /\ shared \subseteq shared'
         /\ shared' \subseteq given' /\ given' \subseteq Files
         /\ f \in Files => f \in given'
         /\ f \in Files \ shared' => f \in disk /\ ~Claimed(f)
BY NoPlace DEF FilesState, FileTypes, Claims, A!Mentions, NoneOr

LEMMA OneMoreClaim ==
  ASSUME FilesState, NEW f \in NoneOr(Files), A!Mentions(f), disk' = disk,
         \A g \in Files, p \in Pages : OfPage(g, p)' => OfPage(g, p) \/ g = f,
         \A g \in Files, s \in Slots : InMaking(g, s)' => InMaking(g, s) \/ g = f,
         \A g \in Files : OfFace(g)' => OfFace(g) \/ g = f,
         \A p \in Pages : Going(p) => Going(p)',
         f \in Files \ shared' =>
           /\ \A p, q \in Pages : OfPage(f, p)' /\ OfPage(f, q)' => p = q
           /\ \A s, t \in Slots : InMaking(f, s)' /\ InMaking(f, t)' => s = t
           /\ \A p \in Pages, s \in Slots : ~(OfPage(f, p)' /\ InMaking(f, s)')
           /\ OfFace(f)' => \A p \in Pages, s \in Slots : ~OfPage(f, p)' /\ ~InMaking(f, s)'
  PROVE  Claims' /\ MissingOK'
<1>1. /\ given \subseteq given' /\ shared \subseteq shared' /\ (f \in Files => f \in given')
      /\ f \in Files \ shared' => f \in disk
  BY NamesFile
<1>2. \A g \in Files : Claimed(g)' => g \in given'
  BY <1>1 DEF FilesState, Claims, Claimed
<1>3. ASSUME NEW g \in Files \ shared', g # f
      PROVE  /\ \A p, q \in Pages : OfPage(g, p)' /\ OfPage(g, q)' => p = q
             /\ \A s, t \in Slots : InMaking(g, s)' /\ InMaking(g, t)' => s = t
             /\ \A p \in Pages, s \in Slots : ~(OfPage(g, p)' /\ InMaking(g, s)')
             /\ OfFace(g)' => \A p \in Pages, s \in Slots : ~OfPage(g, p)' /\ ~InMaking(g, s)'
  BY <1>1, <1>3 DEF FilesState, Claims
<1>4. Claims'
  BY <1>2, <1>3 DEF Claims
<1>5. ASSUME NEW g \in Files, g \in A!Missing', g \in given'
      PROVE  g # f /\ g \in A!Missing \cap given
  BY <1>1, <1>5 DEF A!Missing, A!Mentions
<1>6. A!Missing' \subseteq Files
  BY DEF A!Missing
<1>7. MissingOK'
  BY <1>5, <1>6 DEF FilesState, MissingOK
<1> QED
  BY <1>4, <1>7

LEMMA UploadKept ==
  ASSUME FilesState, NEW s \in Slots, A!Upload(s) PROVE FilesState'
<1>1. UNCHANGED <<task, image, avatar, given, shared>> /\ disk \subseteq disk' /\ disk' \subseteq Files
  BY DEF A!Upload, FilesState, FileTypes
<1>2. Steps(s)
  BY ArrivesFiles DEF A!Upload, FilesState
<1>3. SlotsOK' /\ part' = "attachments"
  BY <1>1, <1>2, SlotsKept DEF FilesState, Moves, Steps, SlotsOK, Alone
<1>4. FileTypes'
  BY <1>1 DEF FilesState, FileTypes
<1>5. Claims' /\ MissingOK'
  BY <1>1, NoMoreClaims DEF OfPage, InMaking, OfFace, Going
<1> QED
  BY <1>3, <1>4, <1>5 DEF FilesState

LEMMA CreateFilePostKept ==
  ASSUME FilesState, NEW s \in Slots, A!CreatePost(s) PROVE FilesState'
<1>1. PICK f \in NoneOr(Files) : A!Mentions(f) /\ A!Then(s, [op |-> "post", file |-> f])
  BY DEF A!CreatePost, NoneOr
<1>2. UNCHANGED <<disk, image, avatar>> /\ Steps(s) /\ task[s] = Nothing
  BY ArrivesFiles DEF A!CreatePost, FilesState
<1>3. [op |-> "post", file |-> f] \in FileTasks
  BY DEF FileTasks
<1>4. /\ SlotsOK' /\ part' = "attachments" /\ task' \in [Slots -> FileTasks]
      /\ \A x \in Slots : task'[x] = IF x = s THEN [op |-> "post", file |-> f] ELSE task[x]
  BY <1>1, <1>2, <1>3, FilesGo
<1>5. FileTypes'
  BY <1>1, <1>2, <1>4, NamesFile DEF FilesState, FileTypes
<1>6. /\ \A g, p : OfPage(g, p)' => OfPage(g, p)
      /\ \A g : \A x \in Slots : InMaking(g, x)' => InMaking(g, x) \/ (g = f /\ x = s)
      /\ \A g : OfFace(g)' => OfFace(g)
      /\ \A p \in Pages : Going(p) => Going(p)'
  BY <1>2, <1>4 DEF OfPage, InMaking, OfFace, Going, Nothing
<1>7. f \in Files \ shared' => ~Claimed(f)
  BY <1>1, NamesFile
<1>8. Claims' /\ MissingOK'
  BY <1>1, <1>2, <1>6, <1>7, OneMoreClaim DEF Claimed
<1> QED
  BY <1>4, <1>5, <1>8 DEF FilesState

LEMMA InsertsFilePostKept ==
  ASSUME FilesState, NEW s \in Slots, A!InsertsPost(s) PROVE FilesState'
<1>1. Steps(s) /\ task[s].op = "post"
  BY AtFiles DEF A!InsertsPost, FilesState
<1>2. PICK p \in Pages :
        /\ image[p] = A!NoPage
        /\ \A x \in Slots : task[x].op \in {"edit", "unlink", "delete"} => task[x].page # p
        /\ image' = [image EXCEPT ![p] = task[s].file]
  BY DEF A!InsertsPost
<1>3. UNCHANGED <<disk, avatar, given, shared>> /\ A!Then(s, Nothing)
  BY DEF A!InsertsPost, A!Ends, A!Nothing, Nothing
<1>4. /\ SlotsOK' /\ part' = "attachments" /\ task' \in [Slots -> FileTasks]
      /\ \A x \in Slots : task'[x] = IF x = s THEN Nothing ELSE task[x]
  BY <1>1, <1>3, FilesGo, NothingInTasks
<1>5. PICK f \in NoneOr(Files) : f = task[s].file
  BY <1>1, FileShape DEF FilesState, FileTypes
<1>6. FileTypes'
  BY <1>2, <1>3, <1>4, <1>5 DEF FilesState, FileTypes, NoneOr
<1>7. /\ \A g \in Files, q \in Pages : OfPage(g, q)' => (OfPage(g, q) /\ q # p) \/ (g = f /\ q = p)
      /\ \A g \in Files, x \in Slots : InMaking(g, x)' => InMaking(g, x) /\ x # s
      /\ \A g \in Files : OfFace(g)' => OfFace(g)
      /\ \A q \in Pages : q # p /\ Going(q) => Going(q)'
  <2>1. image \in [Pages -> Files \cup {A!NoFile, A!NoPage}]
    BY DEF FilesState, FileTypes
  <2> QED
    BY <1>1, <1>2, <1>3, <1>4, <1>5, <2>1, NoPlace DEF OfPage, InMaking, OfFace, Going, Nothing
<1>8. InMaking(f, s)
  BY <1>1, <1>5 DEF InMaking
<1>9. Claims'
  <2>1. \A g \in Files : Claimed(g)' => Claimed(g)
    BY <1>7, <1>8 DEF Claimed
  <2>2. \A g \in Files \ shared :
          /\ \A q, r \in Pages : OfPage(g, q)' /\ OfPage(g, r)' => q = r
          /\ \A x, y \in Slots : InMaking(g, x)' /\ InMaking(g, y)' => x = y
          /\ \A q \in Pages, x \in Slots : ~(OfPage(g, q)' /\ InMaking(g, x)')
          /\ OfFace(g)' => \A q \in Pages, x \in Slots : ~OfPage(g, q)' /\ ~InMaking(g, x)'
    BY <1>7, <1>8 DEF FilesState, Claims
  <2> QED
    BY <1>3, <2>1, <2>2 DEF FilesState, Claims
<1>10. MissingOK'
  <2>1. A!Missing' = A!Missing /\ given' = given /\ A!Missing \subseteq Files
    BY <1>3 DEF A!Missing
  <2>2. f \notin A!Missing \cap given
    BY <1>8 DEF FilesState, MissingOK
  <2> QED
    BY <1>7, <2>1, <2>2 DEF FilesState, MissingOK
<1> QED
  BY <1>4, <1>6, <1>9, <1>10 DEF FilesState

LEMMA UpdateFilePostKept ==
  ASSUME FilesState, NEW s \in Slots, A!UpdatePost(s) PROVE FilesState'
<1>1. PICK p \in Pages, f \in NoneOr(Files) :
        /\ image[p] # A!NoPage
        /\ IF f = image[p] THEN UNCHANGED <<given, shared>> ELSE A!Mentions(f)
        /\ A!Then(s, [op |-> "edit", page |-> p, file |-> f])
  BY DEF A!UpdatePost, NoneOr
<1>2. UNCHANGED <<disk, image, avatar>> /\ Steps(s) /\ task[s] = Nothing
  BY ArrivesFiles DEF A!UpdatePost, FilesState
<1>3. [op |-> "edit", page |-> p, file |-> f] \in FileTasks
  BY DEF FileTasks
<1>4. /\ SlotsOK' /\ part' = "attachments" /\ task' \in [Slots -> FileTasks]
      /\ \A x \in Slots : task'[x] = IF x = s THEN [op |-> "edit", page |-> p, file |-> f]
                                     ELSE task[x]
  BY <1>1, <1>2, <1>3, FilesGo
<1>5. /\ \A g : \A q \in Pages : OfPage(g, q)' => OfPage(g, q) \/ (g = f /\ q = p)
      /\ \A g : \A x \in Slots : InMaking(g, x)' => InMaking(g, x)
      /\ \A g : OfFace(g)' => OfFace(g)
      /\ \A q \in Pages : Going(q) => Going(q)'
  BY <1>2, <1>4 DEF OfPage, InMaking, OfFace, Going, Nothing
<1>6. CASE f = image[p]
  <2>1. UNCHANGED <<given, shared>> /\ OfPage(f, p)
    BY <1>1, <1>6 DEF OfPage
  <2>2. FileTypes'
    BY <1>2, <1>4, <2>1 DEF FilesState, FileTypes
  <2>3. Claims' /\ MissingOK'
    BY <1>2, <1>5, <2>1, NoMoreClaims
  <2> QED
    BY <1>4, <2>2, <2>3 DEF FilesState
<1>7. CASE f # image[p]
  <2>1. A!Mentions(f)
    BY <1>1, <1>7
  <2>2. FileTypes'
    BY <1>2, <1>4, <2>1, NamesFile DEF FilesState, FileTypes
  <2>3. f \in Files \ shared' => ~Claimed(f)
    BY <2>1, NamesFile
  <2>4. Claims' /\ MissingOK'
    BY <1>2, <1>5, <2>1, <2>3, OneMoreClaim DEF Claimed
  <2> QED
    BY <1>4, <2>2, <2>4 DEF FilesState
<1> QED
  BY <1>6, <1>7

LEMMA UpdatesFilePostKept ==
  ASSUME FilesState, NEW s \in Slots, A!UpdatesPost(s) PROVE FilesState'
<1>1. Steps(s) /\ task[s].op = "edit"
  BY AtFiles DEF A!UpdatesPost, FilesState
<1>2. /\ UNCHANGED <<disk, avatar, given, shared>> /\ A!Then(s, Nothing)
      /\ image' = A!Updated(s)
  BY DEF A!UpdatesPost, A!Ends, A!Nothing, Nothing
<1>3. /\ SlotsOK' /\ part' = "attachments" /\ task' \in [Slots -> FileTasks]
      /\ \A x \in Slots : task'[x] = IF x = s THEN Nothing ELSE task[x]
  BY <1>1, <1>2, FilesGo, NothingInTasks
<1>4. task[s].page \in Pages /\ task[s].file \in NoneOr(Files)
  BY <1>1, FileShape DEF FilesState, FileTypes
<1>5. PICK p \in Pages, f \in NoneOr(Files) : p = task[s].page /\ f = task[s].file
  BY <1>4
<1>6. /\ \A q \in Pages : image'[q] = IF q = p /\ image[p] # A!NoPage THEN f ELSE image[q]
      /\ image' \in [Pages -> Files \cup {A!NoFile, A!NoPage}]
  BY <1>2, <1>5 DEF A!Updated, FilesState, FileTypes, NoneOr
<1>7. FileTypes'
  BY <1>2, <1>3, <1>6 DEF FilesState, FileTypes
<1>8. /\ \A g \in Files, q \in Pages : OfPage(g, q)' => OfPage(g, q)
      /\ \A g \in Files, x \in Slots : InMaking(g, x)' => InMaking(g, x)
      /\ \A g \in Files : OfFace(g)' => OfFace(g)
      /\ \A q \in Pages : Going(q) => Going(q)'
  BY <1>1, <1>2, <1>3, <1>5, <1>6 DEF OfPage, InMaking, OfFace, Going, Nothing
<1>9. Claims' /\ MissingOK'
  BY <1>2, <1>8, NoMoreClaims
<1> QED
  BY <1>3, <1>7, <1>9 DEF FilesState

LEMMA DeleteFilePostKept ==
  ASSUME FilesState, NEW s \in Slots, A!DeletePost(s) PROVE FilesState'
<1>1. PICK p \in Pages :
        /\ image[p] # A!NoPage
        /\ A!Then(s, [op |-> "unlink", page |-> p, file |-> image[p]])
  BY DEF A!DeletePost
<1>2. UNCHANGED <<disk, image, avatar, given, shared>> /\ Steps(s) /\ task[s] = Nothing
  BY ArrivesFiles DEF A!DeletePost, A!attachmentsVars, FilesState
<1>3. PICK f \in NoneOr(Files) : f = image[p]
  BY <1>1 DEF FilesState, FileTypes, NoneOr
<1>4. [op |-> "unlink", page |-> p, file |-> f] \in FileTasks
  BY DEF FileTasks
<1>5. /\ SlotsOK' /\ part' = "attachments" /\ task' \in [Slots -> FileTasks]
      /\ \A x \in Slots : task'[x] = IF x = s THEN [op |-> "unlink", page |-> p, file |-> f]
                                     ELSE task[x]
  BY <1>1, <1>2, <1>3, <1>4, FilesGo
<1>6. FileTypes'
  BY <1>2, <1>5 DEF FilesState, FileTypes
<1>7. /\ \A g \in Files, q \in Pages : OfPage(g, q)' => OfPage(g, q)
      /\ \A g \in Files, x \in Slots : InMaking(g, x)' => InMaking(g, x)
      /\ \A g \in Files : OfFace(g)' => OfFace(g)
      /\ \A q \in Pages : Going(q) => Going(q)'
  BY <1>2, <1>3, <1>5 DEF OfPage, InMaking, OfFace, Going, Nothing
<1>8. Claims' /\ MissingOK'
  BY <1>2, <1>7, NoMoreClaims
<1> QED
  BY <1>5, <1>6, <1>8 DEF FilesState

LEMMA UnlinksImageKept ==
  ASSUME FilesState, NEW s \in Slots, A!UnlinksImage(s) PROVE FilesState'
<1>1. Steps(s) /\ task[s].op = "unlink"
  BY AtFiles DEF A!UnlinksImage, FilesState
<1>2. task[s].page \in Pages /\ task[s].file \in NoneOr(Files)
  BY <1>1, FileShape DEF FilesState, FileTypes
<1>3. PICK p \in Pages, f \in NoneOr(Files) : p = task[s].page /\ f = task[s].file
  BY <1>2
<1>4. /\ UNCHANGED <<image, avatar, given, shared>> /\ A!Then(s, [op |-> "delete", page |-> p])
      /\ disk' \subseteq disk /\ disk \subseteq disk' \cup {f}
  BY <1>3 DEF A!UnlinksImage
<1>5. [op |-> "delete", page |-> p] \in FileTasks
  BY DEF FileTasks
<1>6. /\ SlotsOK' /\ part' = "attachments" /\ task' \in [Slots -> FileTasks]
      /\ \A x \in Slots : task'[x] = IF x = s THEN [op |-> "delete", page |-> p] ELSE task[x]
  BY <1>1, <1>4, <1>5, FilesGo
<1>7. FileTypes'
  BY <1>4, <1>6 DEF FilesState, FileTypes
<1>8. /\ \A g \in Files, q \in Pages : OfPage(g, q)' => OfPage(g, q)
      /\ \A g \in Files, x \in Slots : InMaking(g, x)' => InMaking(g, x)
      /\ \A g \in Files : OfFace(g)' => OfFace(g)
      /\ \A q \in Pages : Going(q) => Going(q)'
      /\ Going(p)' /\ OfPage(f, p)
  BY <1>1, <1>3, <1>4, <1>6 DEF OfPage, InMaking, OfFace, Going
<1>9. Claims'
  BY <1>4, <1>8 DEF FilesState, Claims, Claimed
<1>10. MissingOK'
  <2>1. ASSUME NEW g \in Files, g \in A!Missing', g \in given'
        PROVE  /\ ~OfFace(g)'
               /\ \A x \in Slots : ~InMaking(g, x)'
               /\ \A q \in Pages : OfPage(g, q)' => Going(q)'
    <3>1. g \in Files \ shared /\ g \in given
      BY <1>4, <2>1 DEF A!Missing
    <3>2. CASE g = f
      BY <1>8, <3>1, <3>2 DEF FilesState, Claims
    <3>3. CASE g # f
      <4>1. g \in A!Missing
        BY <1>4, <2>1, <3>3 DEF A!Missing
      <4> QED
        BY <1>8, <3>1, <4>1 DEF FilesState, MissingOK
    <3> QED
      BY <3>2, <3>3
  <2>2. A!Missing' \subseteq Files
    BY DEF A!Missing
  <2> QED
    BY <2>1, <2>2 DEF MissingOK
<1> QED
  BY <1>6, <1>7, <1>9, <1>10 DEF FilesState

LEMMA DeletesFilePostKept ==
  ASSUME FilesState, NEW s \in Slots, A!DeletesPost(s) PROVE FilesState'
<1>1. Steps(s) /\ task[s].op = "delete"
  BY AtFiles DEF A!DeletesPost, FilesState
<1>2. /\ UNCHANGED <<disk, avatar, given, shared>> /\ A!Then(s, Nothing)
      /\ image' = [image EXCEPT ![task[s].page] = A!NoPage]
  BY DEF A!DeletesPost, A!Ends, A!Nothing, Nothing
<1>3. /\ SlotsOK' /\ part' = "attachments" /\ task' \in [Slots -> FileTasks]
      /\ \A x \in Slots : task'[x] = IF x = s THEN Nothing ELSE task[x]
  BY <1>1, <1>2, FilesGo, NothingInTasks
<1>4. task[s].page \in Pages
  BY <1>1, FileShape DEF FilesState, FileTypes
<1>5. PICK p \in Pages : p = task[s].page
  BY <1>4
<1>6. /\ \A q \in Pages : image'[q] = IF q = p THEN A!NoPage ELSE image[q]
      /\ image' \in [Pages -> Files \cup {A!NoFile, A!NoPage}]
  BY <1>2, <1>5 DEF FilesState, FileTypes
<1>7. FileTypes'
  BY <1>2, <1>3, <1>6 DEF FilesState, FileTypes
<1>8. /\ \A g \in Files, q \in Pages : OfPage(g, q)' => OfPage(g, q)
      /\ \A g \in Files, x \in Slots : InMaking(g, x)' => InMaking(g, x)
      /\ \A g \in Files : OfFace(g)' => OfFace(g)
      /\ \A q \in Pages : Going(q) => Going(q)'
  BY <1>1, <1>2, <1>3, <1>5, <1>6, NoPlace DEF OfPage, InMaking, OfFace, Going, Nothing
<1>9. Claims' /\ MissingOK'
  BY <1>2, <1>8, NoMoreClaims
<1> QED
  BY <1>3, <1>7, <1>9 DEF FilesState

LEMMA DeleteFilePostAdminKept ==
  ASSUME FilesState, NEW s \in Slots, A!DeletePostAdmin(s) PROVE FilesState'
<1>1. PICK p \in Pages : image' = [image EXCEPT ![p] = A!NoPage]
  BY DEF A!DeletePostAdmin
<1>2. UNCHANGED <<task, disk, avatar, given, shared>> /\ Steps(s)
  BY ArrivesFiles DEF A!DeletePostAdmin, FilesState
<1>3. SlotsOK' /\ part' = "attachments"
  BY <1>2, SlotsKept DEF FilesState, Moves, Steps, SlotsOK, Alone
<1>4. /\ \A q \in Pages : image'[q] = IF q = p THEN A!NoPage ELSE image[q]
      /\ image' \in [Pages -> Files \cup {A!NoFile, A!NoPage}]
  BY <1>1 DEF FilesState, FileTypes
<1>5. FileTypes'
  BY <1>2, <1>4 DEF FilesState, FileTypes
<1>6. /\ \A g \in Files, q \in Pages : OfPage(g, q)' => OfPage(g, q)
      /\ \A g \in Files, x \in Slots : InMaking(g, x)' => InMaking(g, x)
      /\ \A g \in Files : OfFace(g)' => OfFace(g)
      /\ \A q \in Pages : Going(q) => Going(q)'
  BY <1>2, <1>4, NoPlace DEF OfPage, InMaking, OfFace, Going
<1>7. Claims' /\ MissingOK'
  BY <1>2, <1>6, NoMoreClaims
<1> QED
  BY <1>3, <1>5, <1>7 DEF FilesState

LEMMA UpdateAvatarKept ==
  ASSUME FilesState, NEW s \in Slots, A!UpdateAvatar(s) PROVE FilesState'
<1>1. PICK u \in Faces, f \in NoneOr(Files) :
        A!Mentions(f) /\ A!Then(s, [op |-> "face", user |-> u, file |-> f])
  BY DEF A!UpdateAvatar, NoneOr
<1>2. UNCHANGED <<disk, image, avatar>> /\ Steps(s) /\ task[s] = Nothing
  BY ArrivesFiles DEF A!UpdateAvatar, FilesState
<1>3. [op |-> "face", user |-> u, file |-> f] \in FileTasks
  BY DEF FileTasks
<1>4. /\ SlotsOK' /\ part' = "attachments" /\ task' \in [Slots -> FileTasks]
      /\ \A x \in Slots : task'[x] = IF x = s THEN [op |-> "face", user |-> u, file |-> f]
                                     ELSE task[x]
  BY <1>1, <1>2, <1>3, FilesGo
<1>5. FileTypes'
  BY <1>1, <1>2, <1>4, NamesFile DEF FilesState, FileTypes
<1>6. /\ \A g, p : OfPage(g, p)' => OfPage(g, p)
      /\ \A g : \A x \in Slots : InMaking(g, x)' => InMaking(g, x)
      /\ \A g : OfFace(g)' => OfFace(g) \/ g = f
      /\ \A p \in Pages : Going(p) => Going(p)'
  BY <1>2, <1>4 DEF OfPage, InMaking, OfFace, Going, Nothing
<1>7. f \in Files \ shared' => ~Claimed(f)
  BY <1>1, NamesFile
<1>8. Claims' /\ MissingOK'
  BY <1>1, <1>2, <1>6, <1>7, OneMoreClaim DEF Claimed
<1> QED
  BY <1>4, <1>5, <1>8 DEF FilesState

LEMMA WritesAvatarKept ==
  ASSUME FilesState, NEW s \in Slots, A!WritesAvatar(s) PROVE FilesState'
<1>1. Steps(s) /\ task[s].op = "face"
  BY AtFiles DEF A!WritesAvatar, FilesState
<1>2. /\ UNCHANGED <<disk, image, given, shared>> /\ A!Then(s, Nothing)
      /\ avatar' = [avatar EXCEPT ![task[s].user] = task[s].file]
  BY DEF A!WritesAvatar, A!Ends, A!Nothing, Nothing
<1>3. /\ SlotsOK' /\ part' = "attachments" /\ task' \in [Slots -> FileTasks]
      /\ \A x \in Slots : task'[x] = IF x = s THEN Nothing ELSE task[x]
  BY <1>1, <1>2, FilesGo, NothingInTasks
<1>4. task[s].user \in Faces /\ task[s].file \in NoneOr(Files)
  BY <1>1, FileShape DEF FilesState, FileTypes
<1>5. /\ avatar' \in [Faces -> NoneOr(Files)]
      /\ \A u \in Faces : avatar'[u] = avatar[u] \/ avatar'[u] = task[s].file
  BY <1>2, <1>4 DEF FilesState, FileTypes
<1>6. FileTypes'
  BY <1>2, <1>3, <1>5 DEF FilesState, FileTypes
<1>7. /\ \A g \in Files, q \in Pages : OfPage(g, q)' => OfPage(g, q)
      /\ \A g \in Files, x \in Slots : InMaking(g, x)' => InMaking(g, x)
      /\ \A g \in Files : OfFace(g)' => OfFace(g)
      /\ \A q \in Pages : Going(q) => Going(q)'
  BY <1>1, <1>2, <1>3, <1>5 DEF OfPage, InMaking, OfFace, Going, Nothing
<1>8. Claims' /\ MissingOK'
  BY <1>2, <1>7, NoMoreClaims
<1> QED
  BY <1>3, <1>6, <1>8 DEF FilesState

LEMMA CleanUpKept ==
  ASSUME FilesState, A!CleanUp PROVE FilesState'
<1>1. UNCHANGED <<part, calm, task, begun, disk, image, avatar, given, shared>>
  BY DEF A!CleanUp, A!Swept, A!Outside, A!requestVars
<1>2. SlotsOK' /\ part' = "attachments" /\ FileTypes'
  BY <1>1 DEF FilesState, SlotsOK, Alone, FileTypes
<1>3. Claims' /\ MissingOK'
  BY <1>1, NoMoreClaims DEF OfPage, InMaking, OfFace, Going
<1> QED
  BY <1>2, <1>3 DEF FilesState

LEMMA FilesNextKept ==
  ASSUME FilesState, A!AttachmentsNext PROVE FilesState'
<1>1. ASSUME NEW s \in Slots, A!AttachmentsStep(s) PROVE FilesState'
  BY <1>1, UploadKept, CreateFilePostKept, InsertsFilePostKept, UpdateFilePostKept,
     UpdatesFilePostKept, DeleteFilePostKept, UnlinksImageKept, DeletesFilePostKept,
     DeleteFilePostAdminKept, UpdateAvatarKept, WritesAvatarKept
     DEF A!AttachmentsStep
<1> QED
  BY <1>1, CleanUpKept DEF A!AttachmentsNext

-----------------------------------------------------------------------------
(* The board. *)

BoardState == SlotsOK /\ part = "board" /\ BoardTypes /\ BoardRefs /\ CalmReports

LEMMA BoardShape ==
  \A t \in BoardTasks :
    /\ t.op = "post" => t.user \in Writers /\ t.slip \in Slips \cup {B!NoSlip}
    /\ t.op = "delete" => t.post \in PostIds
    /\ t.op = "uncomment" => t.comment \in CommentIds
    /\ t.op \in {"like", "unlike", "report"} => t.pair \in (PostIds \cup CommentIds) \X Writers
BY DEF BoardTasks, Nothing

LEMMA ArrivesBoard ==
  ASSUME SlotsOK, NEW s \in Slots, B!Arrives(s)
  PROVE  Steps(s) /\ task[s] = Nothing /\ (calm => s = Only)
BY DEF SlotsOK, Only, B!Arrives, B!IsFree, B!Nothing, Nothing, Steps

LEMMA AtBoard ==
  ASSUME SlotsOK, NEW s \in Slots, NEW op, op # "nothing", B!At(s, op)
  PROVE  Steps(s) /\ task[s].op = op /\ (calm => s = Only)
BY DEF SlotsOK, Alone, Only, B!At, Nothing, Steps

\* One more report in the bag.
LEMMA OneMoreReport ==
  \A r : B!IsABag(reported) /\ reported' = B!(+)(reported, B!SetToBag({r})) =>
    /\ B!IsABag(reported') /\ DOMAIN reported' = DOMAIN reported \cup {r}
    /\ \A x \in DOMAIN reported : x # r => reported'[x] = reported[x]
    /\ r \notin DOMAIN reported => reported'[r] = 1
BY DEF B!IsABag, B!SetToBag, B!(+)

LEMMA BoardGo ==
  ASSUME BoardState, NEW s \in Slots, Steps(s)
  PROVE  \A t \in BoardTasks : B!Then(s, t) =>
           /\ SlotsOK' /\ part' = "board" /\ task' \in [Slots -> BoardTasks]
           /\ \A x \in Slots : task'[x] = IF x = s THEN t ELSE task[x]
           /\ calm => task'[Only] = t
<1> SUFFICES ASSUME NEW t \in BoardTasks, B!Then(s, t)
             PROVE  /\ SlotsOK' /\ part' = "board" /\ task' \in [Slots -> BoardTasks]
                    /\ \A x \in Slots : task'[x] = IF x = s THEN t ELSE task[x]
                    /\ calm => task'[Only] = t
  OBVIOUS
<1>1. task' = [task EXCEPT ![s] = t] /\ task \in [Slots -> BoardTasks]
  BY DEF B!Then, BoardState, BoardTypes
<1>2. /\ task' \in [Slots -> BoardTasks] /\ Moves(s)
      /\ \A x \in Slots : task'[x] = IF x = s THEN t ELSE task[x]
  BY <1>1 DEF Moves
<1>3. SlotsOK'
  BY <1>2, SlotsKept DEF BoardState, Steps, SlotsOK, Alone
<1>4. calm => s = Only
  BY DEF BoardState, SlotsOK, Alone, Steps
<1> QED
  BY <1>2, <1>3, <1>4 DEF BoardState, Steps

\* A step that only puts a request on its way, a report being the first of its pair.
LEMMA BoardQuiet ==
  ASSUME BoardState, NEW s \in Slots, Steps(s),
         UNCHANGED <<post, comment, liked, reported, answered>>,
         \E t \in BoardTasks :
           /\ B!Then(s, t)
           /\ t.op = "report" /\ t.pair[1] \in PostIds => t.pair \notin DOMAIN reported
  PROVE  BoardState'
<1>1. PICK t \in BoardTasks :
        /\ B!Then(s, t)
        /\ t.op = "report" /\ t.pair[1] \in PostIds => t.pair \notin DOMAIN reported
  OBVIOUS
<1>2. /\ SlotsOK' /\ part' = "board" /\ task' \in [Slots -> BoardTasks]
      /\ calm => task'[Only] = t
  BY <1>1, BoardGo
<1>3. BoardTypes'
  BY <1>2 DEF BoardState, BoardTypes, PostRows
<1>4. BoardRefs'
  BY DEF BoardState, BoardRefs, B!IsPost, B!IsComment, B!Exists
<1>5. CalmReports'
  BY <1>1, <1>2 DEF BoardState, CalmReports, Steps
<1> QED
  BY <1>2, <1>3, <1>4, <1>5 DEF BoardState

LEMMA AnalyzeLottoKept ==
  ASSUME BoardState, NEW s \in Slots, B!AnalyzeLotto(s) PROVE BoardState'
<1>1. Steps(s) /\ UNCHANGED <<post, comment, liked, reported, answered>>
  BY ArrivesBoard DEF B!AnalyzeLotto, B!boardVars, BoardState
<1>2. PICK u \in Writers, x \in Slips : B!Then(s, [op |-> "post", user |-> u, slip |-> x])
  BY DEF B!AnalyzeLotto
<1>3. [op |-> "post", user |-> u, slip |-> x] \in BoardTasks
  BY DEF BoardTasks
<1> QED
  BY <1>1, <1>2, <1>3, BoardQuiet

LEMMA CreateBoardPostKept ==
  ASSUME BoardState, NEW s \in Slots, B!CreatePost(s) PROVE BoardState'
<1>1. Steps(s) /\ UNCHANGED <<post, comment, liked, reported, answered>>
  BY ArrivesBoard DEF B!CreatePost, B!boardVars, BoardState
<1>2. PICK u \in Writers : B!Then(s, [op |-> "post", user |-> u, slip |-> B!NoSlip])
  BY DEF B!CreatePost
<1>3. [op |-> "post", user |-> u, slip |-> B!NoSlip] \in BoardTasks
  BY DEF BoardTasks
<1> QED
  BY <1>1, <1>2, <1>3, BoardQuiet

LEMMA DeleteBoardPostKept ==
  ASSUME BoardState, NEW s \in Slots, B!DeletePost(s) PROVE BoardState'
<1>1. Steps(s) /\ UNCHANGED <<post, comment, liked, reported, answered>>
  BY ArrivesBoard DEF B!DeletePost, B!boardVars, BoardState
<1>2. PICK p \in PostIds : B!Then(s, [op |-> "delete", post |-> p])
  BY DEF B!DeletePost
<1>3. [op |-> "delete", post |-> p] \in BoardTasks
  BY DEF BoardTasks
<1> QED
  BY <1>1, <1>2, <1>3, BoardQuiet

LEMMA DeleteCommentKept ==
  ASSUME BoardState, NEW s \in Slots, B!DeleteComment(s) PROVE BoardState'
<1>1. Steps(s) /\ UNCHANGED <<post, comment, liked, reported, answered>>
  BY ArrivesBoard DEF B!DeleteComment, B!boardVars, BoardState
<1>2. PICK c \in CommentIds : B!Then(s, [op |-> "uncomment", comment |-> c])
  BY DEF B!DeleteComment
<1>3. [op |-> "uncomment", comment |-> c] \in BoardTasks
  BY DEF BoardTasks
<1> QED
  BY <1>1, <1>2, <1>3, BoardQuiet

LEMMA PairTask ==
  \A op \in {"like", "unlike", "report"}, x \in PostIds \cup CommentIds, u \in Writers :
    /\ [op |-> op, pair |-> <<x, u>>] \in BoardTasks
    /\ [op |-> op, pair |-> <<x, u>>].op = op /\ [op |-> op, pair |-> <<x, u>>].pair = <<x, u>>
    /\ <<x, u>>[1] = x
BY DEF BoardTasks

LEMMA ToggleLikeKept ==
  ASSUME BoardState, NEW s \in Slots, B!ToggleLike(s) PROVE BoardState'
<1>1. Steps(s) /\ UNCHANGED <<post, comment, liked, reported, answered>>
  BY ArrivesBoard DEF B!ToggleLike, B!boardVars, BoardState
<1>2. PICK u \in Writers, x \in PostIds \cup CommentIds :
        \E op \in {"unlike", "like"} : B!Then(s, [op |-> op, pair |-> <<x, u>>])
  BY DEF B!ToggleLike
<1>3. PICK op \in {"unlike", "like"} : B!Then(s, [op |-> op, pair |-> <<x, u>>])
  BY <1>2
<1>4. /\ [op |-> op, pair |-> <<x, u>>] \in BoardTasks
      /\ [op |-> op, pair |-> <<x, u>>].op # "report"
  BY PairTask
<1> QED
  BY <1>1, <1>3, <1>4, BoardQuiet

LEMMA ReportPostKept ==
  ASSUME BoardState, NEW s \in Slots, B!ReportPost(s) PROVE BoardState'
<1>1. Steps(s) /\ UNCHANGED <<post, comment, liked, reported, answered>>
  BY ArrivesBoard DEF B!ReportPost, B!boardVars, BoardState
<1>2. PICK u \in Writers, p \in PostIds : /\ <<p, u>> \notin DOMAIN reported
                                         /\ B!Then(s, [op |-> "report", pair |-> <<p, u>>])
  BY DEF B!ReportPost, B!MayReport, B!BagIn, B!BagToSet
<1>3. /\ [op |-> "report", pair |-> <<p, u>>] \in BoardTasks
      /\ [op |-> "report", pair |-> <<p, u>>].pair = <<p, u>>
  BY PairTask
<1> QED
  BY <1>1, <1>2, <1>3, BoardQuiet

LEMMA ReportCommentKept ==
  ASSUME BoardState, NEW s \in Slots, B!ReportComment(s) PROVE BoardState'
<1>1. Steps(s) /\ UNCHANGED <<post, comment, liked, reported, answered>>
  BY ArrivesBoard DEF B!ReportComment, B!boardVars, BoardState
<1>2. PICK u \in Writers, c \in CommentIds : B!Then(s, [op |-> "report", pair |-> <<c, u>>])
  BY DEF B!ReportComment
<1>3. /\ [op |-> "report", pair |-> <<c, u>>] \in BoardTasks
      /\ [op |-> "report", pair |-> <<c, u>>].pair[1] = c
  BY PairTask
<1>4. c \notin PostIds
  BY CommunityAssumption
<1> QED
  BY <1>1, <1>2, <1>3, <1>4, BoardQuiet

-----------------------------------------------------------------------------
(* Steps that write. *)

\* What goes leaves reports as they are, of rows that stay.
LEMMA CascadeKept ==
  \A gone :
    BoardState /\ B!Cascade(gone) /\ (\A x : B!Exists(x) /\ x \notin gone => B!Exists(x)') =>
      /\ B!IsABag(reported') /\ DOMAIN reported' \subseteq DOMAIN reported
      /\ \A r \in DOMAIN reported' : reported'[r] = reported[r]
      /\ \A l \in liked' \cup DOMAIN reported' \cup answered' : B!Exists(l[1])'
<1> SUFFICES ASSUME NEW gone, BoardState, B!Cascade(gone),
                    \A x : B!Exists(x) /\ x \notin gone => B!Exists(x)'
             PROVE  /\ B!IsABag(reported') /\ DOMAIN reported' \subseteq DOMAIN reported
                    /\ \A r \in DOMAIN reported' : reported'[r] = reported[r]
                    /\ \A l \in liked' \cup DOMAIN reported' \cup answered' : B!Exists(l[1])'
  OBVIOUS
<1>1. /\ reported' = [r \in {q \in DOMAIN reported : q[1] \notin gone} |-> reported[r]]
      /\ liked' = {l \in liked : l[1] \notin gone}
      /\ answered' = {r \in answered : r[1] \notin gone}
  BY DEF B!Cascade
<1>2. /\ B!IsABag(reported)
      /\ \A l \in liked \cup DOMAIN reported \cup answered : B!Exists(l[1])
  BY DEF BoardState, BoardTypes, BoardRefs
<1>3. B!IsABag(reported')
  BY <1>1, <1>2 DEF B!IsABag
<1>4. /\ DOMAIN reported' = {q \in DOMAIN reported : q[1] \notin gone}
      /\ \A r \in DOMAIN reported' : reported'[r] = reported[r]
  BY <1>1
<1>5. \A l \in liked' \cup DOMAIN reported' \cup answered' : B!Exists(l[1])'
  BY <1>1, <1>2, <1>4
<1> QED
  BY <1>3, <1>4, <1>5

\* Fewer reports, and none on its way, are as good.
LEMMA FewerReports ==
  ASSUME BoardState, UNCHANGED calm, calm => task'[Only] = Nothing,
         DOMAIN reported' \subseteq DOMAIN reported,
         \A r \in DOMAIN reported' : reported'[r] = reported[r]
  PROVE  CalmReports'
BY NothingInTasks DEF BoardState, CalmReports

LEMMA InsertsBoardPostKept ==
  ASSUME BoardState, NEW s \in Slots, B!InsertsPost(s) PROVE BoardState'
<1>1. /\ Steps(s) /\ task[s].op = "post" /\ UNCHANGED <<comment, liked, reported, answered>>
  BY AtBoard DEF B!InsertsPost, BoardState
<1>2. B!Then(s, Nothing) /\ Nothing \in BoardTasks
  BY NothingInTasks DEF B!InsertsPost, B!Ends
<1>3. /\ SlotsOK' /\ part' = "board" /\ task' \in [Slots -> BoardTasks]
      /\ calm => task'[Only] = Nothing
  BY <1>1, <1>2, BoardGo
<1>4. task[s].user \in Writers /\ task[s].slip \in Slips \cup {B!NoSlip}
  BY <1>1, BoardShape DEF BoardState, BoardTypes
<1>5. CalmReports'
  BY <1>1, <1>3, FewerReports DEF Steps
<1>6. CASE post' = post
  <2>1. BoardTypes'
    BY <1>1, <1>3, <1>6 DEF BoardState, BoardTypes, PostRows
  <2>2. BoardRefs'
    BY <1>1, <1>6 DEF BoardState, BoardRefs, B!IsPost, B!IsComment, B!Exists
  <2> QED
    BY <2>1, <2>2, <1>3, <1>5 DEF BoardState
<1>7. CASE post' # post
  <2> DEFINE r == B!Post(task[s].user, task[s].slip, FALSE, FALSE)
  <2>1. PICK p \in PostIds :
          /\ post[p] = B!NoPost /\ B!SlipFree(task[s].slip)
          /\ post' = [post EXCEPT ![p] = r]
    BY <1>7 DEF B!InsertsPost
  <2>2. r \in PostRows /\ r # B!NoPost /\ r.slip = task[s].slip
    BY <1>4 DEF B!Post, PostRows, B!NoPost
  <2> HIDE DEF r
  <2>3. /\ post' \in [PostIds -> PostRows \cup {B!NoPost}]
        /\ \A q \in PostIds : post'[q] = IF q = p THEN r ELSE post[q]
    BY <2>1, <2>2 DEF BoardState, BoardTypes
  <2>4. BoardTypes'
    BY <1>1, <1>3, <2>3 DEF BoardState, BoardTypes, PostRows
  <2>5. \A q \in PostIds : B!IsPost(q) /\ q # p /\ post[q].slip = task[s].slip => task[s].slip = B!NoSlip
    BY <2>1 DEF B!SlipFree, B!Holds
  <2>6. \A x : B!Exists(x) => B!Exists(x)'
    BY <1>1, <2>1, <2>2, <2>3 DEF B!Exists, B!IsPost, B!IsComment
  <2>7. \A a, b \in PostIds :
          B!IsPost(a)' /\ B!IsPost(b)' /\ post'[a].slip = post'[b].slip /\ post'[a].slip # B!NoSlip => a = b
    BY <2>2, <2>3, <2>5 DEF BoardState, BoardRefs, B!IsPost
  <2>8. \A x \in PostIds : post[x] # B!NoPost => post'[x] # B!NoPost
    BY <2>1, <2>2, <2>3
  <2>9. \A c \in CommentIds : B!IsComment(c)' => comment'[c].post \in PostIds /\ post'[comment'[c].post] # B!NoPost
    BY <1>1, <2>8 DEF BoardState, BoardRefs, B!IsComment, B!IsPost
  <2>10. \A l \in liked' \cup DOMAIN reported' \cup answered' : B!Exists(l[1])'
    BY <1>1, <2>6 DEF BoardState, BoardRefs
  <2>11. BoardRefs'
    BY <2>7, <2>9, <2>10 DEF BoardRefs, B!IsPost, B!IsComment
  <2> QED
    BY <1>3, <1>5, <2>4, <2>11 DEF BoardState
<1> QED
  BY <1>6, <1>7

\* A post goes, and a comment or more: what is left is about what is left.
LEMMA RowsGo ==
  \A gone :
    /\ BoardState /\ B!Cascade(gone)
    /\ post' \in [PostIds -> PostRows \cup {B!NoPost}]
    /\ comment' \in [CommentIds -> [owner : Writers, post : PostIds] \cup {B!NoComment}]
    /\ \A p \in PostIds : post'[p] = IF p \in gone THEN B!NoPost ELSE post[p]
    /\ \A c \in CommentIds : comment'[c] = IF c \in gone THEN B!NoComment ELSE comment[c]
    /\ \A c \in CommentIds : B!IsComment(c) /\ comment[c].post \in gone => c \in gone
    => /\ BoardRefs' /\ B!IsABag(reported') /\ DOMAIN reported' \subseteq DOMAIN reported
       /\ \A r \in DOMAIN reported' : reported'[r] = reported[r]
<1> SUFFICES ASSUME NEW gone, BoardState, B!Cascade(gone),
                    post' \in [PostIds -> PostRows \cup {B!NoPost}],
                    comment' \in [CommentIds -> [owner : Writers, post : PostIds] \cup {B!NoComment}],
                    \A p \in PostIds : post'[p] = IF p \in gone THEN B!NoPost ELSE post[p],
                    \A c \in CommentIds : comment'[c] = IF c \in gone THEN B!NoComment ELSE comment[c],
                    \A c \in CommentIds : B!IsComment(c) /\ comment[c].post \in gone => c \in gone
             PROVE  /\ BoardRefs' /\ B!IsABag(reported') /\ DOMAIN reported' \subseteq DOMAIN reported
                    /\ \A r \in DOMAIN reported' : reported'[r] = reported[r]
  OBVIOUS
<1>1. \A x : B!IsPost(x) /\ x \notin gone => B!IsPost(x)'
  BY DEF B!IsPost
<1>2. \A x : B!IsComment(x) /\ x \notin gone => B!IsComment(x)'
  BY DEF B!IsComment
<1>3. \A x : B!Exists(x) /\ x \notin gone => B!Exists(x)'
  BY <1>1, <1>2 DEF B!Exists
<1>4. /\ B!IsABag(reported') /\ DOMAIN reported' \subseteq DOMAIN reported
      /\ \A r \in DOMAIN reported' : reported'[r] = reported[r]
      /\ \A l \in liked' \cup DOMAIN reported' \cup answered' : B!Exists(l[1])'
  BY <1>3, CascadeKept
<1>5. \A p \in PostIds : B!IsPost(p)' => B!IsPost(p) /\ post'[p] = post[p]
  BY DEF B!IsPost
<1>6. \A p, q \in PostIds :
        B!IsPost(p)' /\ B!IsPost(q)' /\ post'[p].slip = post'[q].slip /\ post'[p].slip # B!NoSlip => p = q
  BY <1>5 DEF BoardState, BoardRefs
<1>7. \A c \in CommentIds : B!IsComment(c)' => comment'[c].post \in PostIds /\ post'[comment'[c].post] # B!NoPost
  <2>1. \A c \in CommentIds : B!IsComment(c)' => /\ B!IsComment(c) /\ c \notin gone
                                                 /\ comment'[c] = comment[c]
    BY DEF B!IsComment
  <2>2. \A c \in CommentIds : B!IsComment(c) =>
          comment[c].post \in PostIds /\ post[comment[c].post] # B!NoPost
    BY DEF BoardState, BoardRefs, B!IsPost
  <2> QED
    BY <2>1, <2>2
<1>8. BoardRefs'
  BY <1>4, <1>6, <1>7 DEF BoardRefs, B!IsPost, B!IsComment
<1> QED
  BY <1>4, <1>8

\* A post goes with its comments.
LEMMA PostGoesKept ==
  \A p \in PostIds :
    BoardState /\ B!PostGoes(p) /\ SlotsOK' /\ part' = "board" /\ UNCHANGED calm
      /\ task' \in [Slots -> BoardTasks] /\ (calm => task'[Only] = Nothing)
      => BoardState'
<1> SUFFICES ASSUME NEW p \in PostIds, BoardState, B!PostGoes(p), SlotsOK', part' = "board",
                    UNCHANGED calm, task' \in [Slots -> BoardTasks],
                    calm => task'[Only] = Nothing
             PROVE  BoardState'
  OBVIOUS
<1> DEFINE gone == {p} \cup B!CommentsOf(p)
<1>1. /\ post' = [post EXCEPT ![p] = B!NoPost]
      /\ comment' = [c \in CommentIds |->
                       IF c \in B!CommentsOf(p) THEN B!NoComment ELSE comment[c]]
      /\ B!Cascade(gone)
  BY DEF B!PostGoes
<1>2. B!CommentsOf(p) \subseteq CommentIds /\ PostIds \cap CommentIds = {}
  BY CommunityAssumption DEF B!CommentsOf
<1>3. /\ post \in [PostIds -> PostRows \cup {B!NoPost}]
      /\ comment \in [CommentIds -> [owner : Writers, post : PostIds] \cup {B!NoComment}]
  BY DEF BoardState, BoardTypes
<1>4. /\ post' \in [PostIds -> PostRows \cup {B!NoPost}]
      /\ \A q \in PostIds : post'[q] = IF q \in gone THEN B!NoPost ELSE post[q]
  BY <1>1, <1>2, <1>3
<1>5. /\ comment' \in [CommentIds -> [owner : Writers, post : PostIds] \cup {B!NoComment}]
      /\ \A c \in CommentIds : comment'[c] = IF c \in gone THEN B!NoComment ELSE comment[c]
  BY <1>1, <1>2, <1>3
<1>6. \A c \in CommentIds : B!IsComment(c) /\ comment[c].post \in gone => c \in gone
  <2> SUFFICES ASSUME NEW c \in CommentIds, B!IsComment(c), comment[c].post \in gone
               PROVE  c \in gone
    OBVIOUS
  <2>1. comment[c].post \in PostIds
    BY <1>3 DEF B!IsComment
  <2>2. comment[c].post = p
    BY <2>1, <1>2
  <2> QED
    BY <2>2 DEF B!CommentsOf
<1> HIDE DEF gone
<1>7. /\ BoardRefs' /\ B!IsABag(reported') /\ DOMAIN reported' \subseteq DOMAIN reported
      /\ \A r \in DOMAIN reported' : reported'[r] = reported[r]
  BY <1>1, <1>4, <1>5, <1>6, RowsGo
<1>8. BoardTypes'
  BY <1>4, <1>5, <1>7 DEF BoardTypes, PostRows
<1>9. CalmReports'
  BY <1>7, FewerReports
<1> QED
  BY <1>7, <1>8, <1>9 DEF BoardState

LEMMA DeletesBoardPostKept ==
  ASSUME BoardState, NEW s \in Slots, B!DeletesPost(s) PROVE BoardState'
<1>1. Steps(s) /\ task[s].op = "delete"
  BY AtBoard DEF B!DeletesPost, BoardState
<1>2. B!Then(s, Nothing) /\ Nothing \in BoardTasks /\ Nothing.op = "nothing"
  BY NothingInTasks DEF B!DeletesPost, B!Ends
<1>3. /\ SlotsOK' /\ part' = "board" /\ task' \in [Slots -> BoardTasks]
      /\ calm => task'[Only] = Nothing
  BY <1>1, <1>2, BoardGo
<1>4. task[s].post \in PostIds
  BY <1>1, BoardShape DEF BoardState, BoardTypes
<1>5. CASE B!PostGoes(task[s].post)
  BY <1>1, <1>3, <1>4, <1>5, PostGoesKept DEF Steps
<1>6. CASE UNCHANGED <<post, comment, liked, reported, answered>>
  BY <1>1, <1>2, <1>6, BoardQuiet
<1> QED
  BY <1>5, <1>6 DEF B!DeletesPost, B!boardVars

LEMMA DeleteBoardPostAdminKept ==
  ASSUME BoardState, NEW s \in Slots, B!DeletePostAdmin(s) PROVE BoardState'
<1>1. Steps(s) /\ task[s] = Nothing /\ (calm => s = Only) /\ UNCHANGED task
  BY ArrivesBoard DEF B!DeletePostAdmin, BoardState
<1>2. SlotsOK'
  BY <1>1 DEF BoardState, SlotsOK, Alone, Steps
<1>3. /\ part' = "board" /\ UNCHANGED calm /\ task' \in [Slots -> BoardTasks]
      /\ calm => task'[Only] = Nothing
  BY <1>1 DEF BoardState, BoardTypes, Steps
<1>4. PICK p \in PostIds : B!PostGoes(p)
  BY DEF B!DeletePostAdmin
<1> QED
  BY <1>2, <1>3, <1>4, PostGoesKept

\* A step that writes and puts nothing on its way.
LEMMA UpdatePostStatusKept ==
  ASSUME BoardState, NEW s \in Slots, B!UpdatePostStatus(s) PROVE BoardState'
<1>1. /\ Steps(s) /\ task[s] = Nothing /\ (calm => s = Only)
      /\ UNCHANGED <<task, comment, liked, reported, answered>>
  BY ArrivesBoard DEF B!UpdatePostStatus, BoardState
<1>2. SlotsOK' /\ part' = "board" /\ UNCHANGED calm
  BY <1>1 DEF BoardState, SlotsOK, Alone, Steps
<1>3. PICK p \in PostIds, d \in BOOLEAN, b \in BOOLEAN :
        B!IsPost(p) /\ post' = [post EXCEPT ![p] = B!Post(post[p].owner, post[p].slip, d, b)]
  BY DEF B!UpdatePostStatus
<1> DEFINE r == B!Post(post[p].owner, post[p].slip, d, b)
<1>4. post[p] \in PostRows
  BY <1>3 DEF BoardState, BoardTypes, B!IsPost
<1>5. r \in PostRows /\ r # B!NoPost /\ r.slip = post[p].slip
  BY <1>4 DEF B!Post, PostRows, B!NoPost
<1> HIDE DEF r
<1>6. /\ post' \in [PostIds -> PostRows \cup {B!NoPost}]
      /\ \A q \in PostIds : post'[q] = IF q = p THEN r ELSE post[q]
  BY <1>3, <1>5 DEF BoardState, BoardTypes, r
<1>7. BoardTypes'
  BY <1>1, <1>6 DEF BoardState, BoardTypes, PostRows
<1>8. \A q \in PostIds : /\ (post'[q] # B!NoPost) <=> (post[q] # B!NoPost)
                         /\ post[q] # B!NoPost => post'[q].slip = post[q].slip
  BY <1>3, <1>5, <1>6 DEF B!IsPost
<1>9. \A x : B!Exists(x) => B!Exists(x)'
  BY <1>1, <1>8 DEF B!Exists, B!IsPost, B!IsComment
<1>10. \A a, b1 \in PostIds :
         B!IsPost(a)' /\ B!IsPost(b1)' /\ post'[a].slip = post'[b1].slip /\ post'[a].slip # B!NoSlip => a = b1
  BY <1>8 DEF BoardState, BoardRefs, B!IsPost
<1>11. \A c \in CommentIds : B!IsComment(c)' => comment'[c].post \in PostIds /\ post'[comment'[c].post] # B!NoPost
  BY <1>1, <1>8 DEF BoardState, BoardRefs, B!IsComment, B!IsPost
<1>12. \A l \in liked' \cup DOMAIN reported' \cup answered' : B!Exists(l[1])'
  BY <1>1, <1>9 DEF BoardState, BoardRefs
<1>13. BoardRefs'
  BY <1>10, <1>11, <1>12 DEF BoardRefs, B!IsPost, B!IsComment
<1>14. CalmReports'
  BY <1>1, <1>2 DEF BoardState, CalmReports
<1> QED
  BY <1>2, <1>7, <1>13, <1>14 DEF BoardState

LEMMA CreateCommentKept ==
  ASSUME BoardState, NEW s \in Slots, B!CreateComment(s) PROVE BoardState'
<1>1. /\ Steps(s) /\ task[s] = Nothing /\ (calm => s = Only)
      /\ UNCHANGED <<task, post, liked, reported, answered>>
  BY ArrivesBoard DEF B!CreateComment, BoardState
<1>2. SlotsOK' /\ part' = "board" /\ UNCHANGED calm
  BY <1>1 DEF BoardState, SlotsOK, Alone, Steps
<1>3. PICK u \in Writers, p \in PostIds, c \in CommentIds :
        /\ B!IsPost(p) /\ comment[c] = B!NoComment
        /\ comment' = [comment EXCEPT ![c] = [owner |-> u, post |-> p]]
  BY DEF B!CreateComment
<1> DEFINE r == [owner |-> u, post |-> p]
<1>4. r \in [owner : Writers, post : PostIds] /\ r # B!NoComment /\ r.post = p
  BY DEF B!NoComment
<1> HIDE DEF r
<1>5. /\ comment' \in [CommentIds -> [owner : Writers, post : PostIds] \cup {B!NoComment}]
      /\ \A x \in CommentIds : comment'[x] = IF x = c THEN r ELSE comment[x]
  BY <1>3, <1>4 DEF BoardState, BoardTypes, r
<1>6. BoardTypes'
  BY <1>1, <1>5 DEF BoardState, BoardTypes, PostRows
<1>7. \A x : B!Exists(x) => B!Exists(x)'
  BY <1>1, <1>4, <1>5 DEF B!Exists, B!IsPost, B!IsComment
<1>8. \A x \in CommentIds : B!IsComment(x)' => comment'[x].post \in PostIds /\ post'[comment'[x].post] # B!NoPost
  BY <1>1, <1>3, <1>4, <1>5 DEF BoardState, BoardRefs, B!IsComment, B!IsPost
<1>9. \A l \in liked' \cup DOMAIN reported' \cup answered' : B!Exists(l[1])'
  BY <1>1, <1>7 DEF BoardState, BoardRefs
<1>10. BoardRefs'
  BY <1>1, <1>8, <1>9 DEF BoardState, BoardRefs, B!IsPost, B!IsComment
<1>11. CalmReports'
  BY <1>1, <1>2 DEF BoardState, CalmReports
<1> QED
  BY <1>2, <1>6, <1>10, <1>11 DEF BoardState

LEMMA DeletesCommentKept ==
  ASSUME BoardState, NEW s \in Slots, B!DeletesComment(s) PROVE BoardState'
<1>1. Steps(s) /\ task[s].op = "uncomment" /\ UNCHANGED post
  BY AtBoard DEF B!DeletesComment, BoardState
<1>2. B!Then(s, Nothing) /\ Nothing \in BoardTasks /\ Nothing.op = "nothing"
  BY NothingInTasks DEF B!DeletesComment, B!Ends
<1>3. /\ SlotsOK' /\ part' = "board" /\ task' \in [Slots -> BoardTasks]
      /\ calm => task'[Only] = Nothing
  BY <1>1, <1>2, BoardGo
<1>4. task[s].comment \in CommentIds
  BY <1>1, BoardShape DEF BoardState, BoardTypes
<1>5. CASE UNCHANGED <<comment, liked, reported, answered>>
  BY <1>1, <1>2, <1>5, BoardQuiet
<1>6. CASE /\ comment' = [comment EXCEPT ![task[s].comment] = B!NoComment]
           /\ B!Cascade({task[s].comment})
  <2> DEFINE gone == {task[s].comment}
  <2>1. /\ post' \in [PostIds -> PostRows \cup {B!NoPost}]
        /\ \A q \in PostIds : post'[q] = IF q \in gone THEN B!NoPost ELSE post[q]
    BY <1>1, <1>4, CommunityAssumption DEF BoardState, BoardTypes
  <2>2. /\ comment' \in [CommentIds -> [owner : Writers, post : PostIds] \cup {B!NoComment}]
        /\ \A c \in CommentIds : comment'[c] = IF c \in gone THEN B!NoComment ELSE comment[c]
    BY <1>4, <1>6 DEF BoardState, BoardTypes
  <2>3. \A c \in CommentIds : B!IsComment(c) /\ comment[c].post \in gone => c \in gone
    <3>1. \A c \in CommentIds : B!IsComment(c) => comment[c].post \in PostIds
      BY DEF BoardState, BoardTypes, B!IsComment
    <3> QED
      BY <3>1, <1>4, CommunityAssumption
  <2>4. B!Cascade(gone)
    BY <1>6
  <2> HIDE DEF gone
  <2>5. /\ BoardRefs' /\ B!IsABag(reported') /\ DOMAIN reported' \subseteq DOMAIN reported
        /\ \A r \in DOMAIN reported' : reported'[r] = reported[r]
    BY <2>1, <2>2, <2>3, <2>4, RowsGo
  <2>6. BoardTypes'
    BY <1>3, <2>1, <2>2, <2>5 DEF BoardTypes, PostRows
  <2>7. CalmReports'
    BY <1>1, <1>3, <2>5, FewerReports DEF Steps
  <2> QED
    BY <1>3, <2>5, <2>6, <2>7 DEF BoardState
<1> QED
  BY <1>5, <1>6 DEF B!DeletesComment

LEMMA WritesLikeKept ==
  ASSUME BoardState, NEW s \in Slots, B!WritesLike(s) PROVE BoardState'
<1>1. Steps(s) /\ UNCHANGED <<post, comment, reported, answered>>
  BY AtBoard DEF B!WritesLike, BoardState
<1>2. B!Then(s, Nothing) /\ Nothing \in BoardTasks
  BY NothingInTasks DEF B!WritesLike, B!Ends
<1>3. /\ SlotsOK' /\ part' = "board" /\ task' \in [Slots -> BoardTasks]
      /\ calm => task'[Only] = Nothing
  BY <1>1, <1>2, BoardGo
<1>4. \A l \in liked' : l \in liked \/ B!Exists(l[1])
  BY DEF B!WritesLike
<1>5. \A x : B!Exists(x) => B!Exists(x)'
  BY <1>1 DEF B!Exists, B!IsPost, B!IsComment
<1>6. \A l \in liked' \cup DOMAIN reported' \cup answered' : B!Exists(l[1])'
  BY <1>1, <1>4, <1>5 DEF BoardState, BoardRefs
<1>7. BoardRefs'
  BY <1>1, <1>6 DEF BoardState, BoardRefs, B!IsPost, B!IsComment
<1>8. BoardTypes'
  BY <1>1, <1>3 DEF BoardState, BoardTypes, PostRows
<1>9. CalmReports'
  BY <1>1, <1>3, FewerReports DEF Steps
<1> QED
  BY <1>3, <1>7, <1>8, <1>9 DEF BoardState

LEMMA WritesReportKept ==
  ASSUME BoardState, NEW s \in Slots, B!WritesReport(s) PROVE BoardState'
<1>1. /\ Steps(s) /\ task[s].op = "report" /\ UNCHANGED <<post, comment, liked, answered>>
      /\ calm => s = Only
  BY AtBoard DEF B!WritesReport, BoardState
<1>2. B!Then(s, Nothing) /\ Nothing \in BoardTasks /\ Nothing.op = "nothing"
  BY NothingInTasks DEF B!WritesReport, B!Ends
<1>3. /\ SlotsOK' /\ part' = "board" /\ task' \in [Slots -> BoardTasks]
      /\ calm => task'[Only] = Nothing
  BY <1>1, <1>2, BoardGo
<1>4. CASE reported' = reported
  BY <1>1, <1>2, <1>4, BoardQuiet
<1>5. CASE reported' # reported
  <2>1. PICK r : r = task[s].pair
    OBVIOUS
  <2>2. B!Exists(r[1]) /\ reported' = B!(+)(reported, B!SetToBag({r}))
    BY <1>5, <2>1 DEF B!WritesReport
  <2>3. B!IsABag(reported)
    BY DEF BoardState, BoardTypes
  <2>4. /\ B!IsABag(reported') /\ DOMAIN reported' = DOMAIN reported \cup {r}
        /\ \A x \in DOMAIN reported : x # r => reported'[x] = reported[x]
        /\ r \notin DOMAIN reported => reported'[r] = 1
    BY <2>2, <2>3, OneMoreReport
  <2>5. \A x : B!Exists(x) => B!Exists(x)'
    BY <1>1 DEF B!Exists, B!IsPost, B!IsComment
  <2>6. \A l \in liked' \cup DOMAIN reported' \cup answered' : B!Exists(l[1])'
    BY <1>1, <2>2, <2>4, <2>5 DEF BoardState, BoardRefs
  <2>7. BoardRefs'
    BY <1>1, <2>6 DEF BoardState, BoardRefs, B!IsPost, B!IsComment
  <2>8. BoardTypes'
    BY <1>1, <1>3, <2>4 DEF BoardState, BoardTypes, PostRows
  <2>9. CalmReports'
    <3> SUFFICES ASSUME calm PROVE CalmReports'
      BY <1>1 DEF CalmReports, Steps
    <3>1. /\ \A x \in DOMAIN reported : x[1] \in PostIds => reported[x] = 1
          /\ r[1] \in PostIds => r \notin DOMAIN reported
      BY <1>1, <2>1 DEF BoardState, CalmReports
    <3>2. \A x \in DOMAIN reported' : x[1] \in PostIds => reported'[x] = 1
      BY <3>1, <2>4
    <3> QED
      BY <3>2, <1>2, <1>3 DEF CalmReports
  <2> QED
    BY <1>3, <2>7, <2>8, <2>9 DEF BoardState
<1> QED
  BY <1>4, <1>5

LEMMA ResolveReportKept ==
  ASSUME BoardState, NEW s \in Slots, B!ResolveReport(s) PROVE BoardState'
<1>1. /\ Steps(s) /\ task[s] = Nothing /\ (calm => s = Only)
      /\ UNCHANGED <<task, post, comment, liked, reported>>
  BY ArrivesBoard DEF B!ResolveReport, BoardState
<1>2. SlotsOK' /\ part' = "board" /\ UNCHANGED calm
  BY <1>1 DEF BoardState, SlotsOK, Alone, Steps
<1>3. answered' \subseteq answered \cup DOMAIN reported
  BY DEF B!ResolveReport, B!BagToSet
<1>4. \A x : B!Exists(x) => B!Exists(x)'
  BY <1>1 DEF B!Exists, B!IsPost, B!IsComment
<1>5. \A l \in liked' \cup DOMAIN reported' \cup answered' : B!Exists(l[1])'
  BY <1>1, <1>3, <1>4 DEF BoardState, BoardRefs
<1>6. BoardRefs'
  BY <1>1, <1>5 DEF BoardState, BoardRefs, B!IsPost, B!IsComment
<1>7. BoardTypes'
  BY <1>1 DEF BoardState, BoardTypes, PostRows
<1>8. CalmReports'
  BY <1>1, <1>2 DEF BoardState, CalmReports
<1> QED
  BY <1>2, <1>6, <1>7, <1>8 DEF BoardState

LEMMA BoardNextKept ==
  ASSUME BoardState, B!BoardNext PROVE BoardState'
<1>1. PICK s \in Slots : B!BoardStep(s)
  BY DEF B!BoardNext
<1>2. CASE \/ B!AnalyzeLotto(s) \/ B!CreatePost(s) \/ B!InsertsPost(s) \/ B!DeletePost(s)
           \/ B!DeletesPost(s) \/ B!DeletePostAdmin(s) \/ B!UpdatePostStatus(s)
  BY <1>2, AnalyzeLottoKept, CreateBoardPostKept, InsertsBoardPostKept, DeleteBoardPostKept,
     DeletesBoardPostKept, DeleteBoardPostAdminKept, UpdatePostStatusKept
<1>3. CASE B!CreateComment(s) \/ B!DeleteComment(s) \/ B!DeletesComment(s)
  BY <1>3, CreateCommentKept, DeleteCommentKept, DeletesCommentKept
<1>4. CASE \/ B!ToggleLike(s) \/ B!WritesLike(s) \/ B!ReportPost(s) \/ B!ReportComment(s)
           \/ B!WritesReport(s) \/ B!ResolveReport(s)
  BY <1>4, ToggleLikeKept, WritesLikeKept, ReportPostKept, ReportCommentKept,
     WritesReportKept, ResolveReportKept
<1> QED
  BY <1>1, <1>2, <1>3, <1>4 DEF B!BoardStep

-----------------------------------------------------------------------------
(* The parts together. *)

LEMMA InitInv == Init => IInv
<1> SUFFICES ASSUME Init PROVE IInv
  OBVIOUS
<1>1. SlotsOK
  BY DEF Init, RequestsInit, SlotsOK, Alone
<1>2. \A s \in Slots : task[s] = Nothing
  BY DEF Init, RequestsInit
<1>3. task \in [Slots -> BoardTasks] /\ task \in [Slots -> FileTasks] /\ task \in [Slots -> WordTasks]
  BY NothingInTasks DEF Init, RequestsInit
<1>4. task[Only].op = "nothing"
  BY <1>2, OnlyIsSlot, NothingInTasks
<1>5. BoardInv
  <2>1. B!BoardInit
    BY DEF Init
  <2>2. /\ \A p \in PostIds : ~B!IsPost(p)
        /\ \A c \in CommentIds : ~B!IsComment(c)
    BY <2>1 DEF B!BoardInit, B!IsPost, B!IsComment
  <2>3. liked = {} /\ answered = {} /\ DOMAIN reported = {} /\ B!IsABag(reported)
    BY <2>1 DEF B!BoardInit, B!EmptyBag, B!SetToBag, B!IsABag
  <2>4. BoardTypes
    BY <1>3, <2>1, <2>3 DEF BoardTypes, B!BoardInit, PostRows
  <2>5. BoardRefs
    BY <2>2, <2>3 DEF BoardRefs
  <2>6. CalmReports
    BY <1>4, <2>3 DEF CalmReports
  <2> QED
    BY <2>1, <2>4, <2>5, <2>6 DEF BoardInv
<1>6. FilesInv
  <2>1. A!AttachmentsInit
    BY DEF Init
  <2>2. /\ \A p \in Pages : image[p] = A!NoPage
        /\ \A u \in Faces : avatar[u] = A!NoFile
        /\ given = {}
    BY <2>1 DEF A!AttachmentsInit
  <2>3. FileTypes
    BY <1>3, <2>1 DEF FileTypes, A!AttachmentsInit, NoneOr
  <2>4. \A f \in Files : ~Claimed(f)
    BY <1>2, <2>2, NothingInTasks, NoPlace DEF Claimed, OfPage, InMaking, OfFace
  <2>5. Claims
    BY <2>4 DEF Claims, Claimed
  <2>6. MissingOK
    BY <2>2 DEF MissingOK
  <2> QED
    BY <2>1, <2>3, <2>5, <2>6 DEF FilesInv
<1>7. WordsInv
  <2>1. W!WordsInit
    BY DEF Init
  <2>2. /\ \A u \in Owners : nick[u] = W!NoName
        /\ table \subseteq Names /\ memory = table /\ cleared = {}
        /\ \A r \in Reports : report[r] = W!Unfiled
    BY <2>1 DEF W!WordsInit
  <2>3. WordTypes
    BY <1>3, <2>1, <2>2 DEF WordTypes, W!WordsInit, W!Unfiled, Nicknames
  <2>4. OneHolderEach
    <3>1. W!NoName.name = "none"
      BY DEF W!NoName
    <3>2. \A u \in Owners : nick[u].name \notin Names
      BY <3>1, <2>2, CommunityAssumption
    <3> QED
      BY <3>2 DEF OneHolderEach
  <2>5. WordsAgree
    BY <1>4, <2>2 DEF WordsAgree
  <2> QED
    BY <2>1, <2>3, <2>4, <2>5 DEF WordsInv
<1> QED
  BY <1>1, <1>5, <1>6, <1>7 DEF IInv

\* A part stays as it is at the start while another one is explored.
LEMMA BoardStays ==
  ASSUME BoardInv, part # "board", UNCHANGED <<part, boardVars>> PROVE BoardInv'
BY DEF BoardInv, B!BoardInit, boardVars

LEMMA FilesStay ==
  ASSUME FilesInv, part # "attachments", UNCHANGED <<part, attachmentsVars>> PROVE FilesInv'
BY DEF FilesInv, A!AttachmentsInit, attachmentsVars

LEMMA WordsStay ==
  ASSUME WordsInv, part # "words", UNCHANGED <<part, wordsVars>> PROVE WordsInv'
<1>1. W!WordsInit
  BY DEF WordsInv
<1>2. W!WordsInit'
  BY <1>1 DEF W!WordsInit, wordsVars
<1> QED
  BY <1>2 DEF WordsInv

LEMMA NextInv == IInv /\ [Next]_vars => IInv'
<1> SUFFICES ASSUME IInv, [Next]_vars PROVE IInv'
  OBVIOUS
<1>1. CASE B!BoardNext /\ UNCHANGED <<attachmentsVars, wordsVars>>
  <2>1. part = "board" /\ BoardState
    BY <1>1 DEF B!BoardNext, IInv, BoardInv, BoardState
  <2>2. BoardState'
    BY <1>1, <2>1, BoardNextKept
  <2>3. SlotsOK' /\ BoardInv' /\ part' = part
    BY <2>1, <2>2 DEF BoardState, BoardInv
  <2> QED
    BY <1>1, <2>1, <2>3, FilesStay, WordsStay DEF IInv
<1>2. CASE A!AttachmentsNext /\ UNCHANGED <<boardVars, wordsVars>>
  <2>1. part = "attachments" /\ FilesState
    BY <1>2 DEF A!AttachmentsNext, IInv, FilesInv, FilesState
  <2>2. FilesState'
    BY <1>2, <2>1, FilesNextKept
  <2>3. SlotsOK' /\ FilesInv' /\ part' = part
    BY <2>1, <2>2 DEF FilesState, FilesInv
  <2> QED
    BY <1>2, <2>1, <2>3, BoardStays, WordsStay DEF IInv
<1>3. CASE W!WordsNext /\ UNCHANGED <<boardVars, attachmentsVars>>
  <2>1. part = "words" /\ WordsState
    BY <1>3 DEF W!WordsNext, IInv, WordsInv, WordsState
  <2>2. WordsState'
    BY <1>3, <2>1, WordsNextKept
  <2>3. SlotsOK' /\ WordsInv' /\ part' = part
    BY <2>1, <2>2 DEF WordsState, WordsInv
  <2> QED
    BY <1>3, <2>1, <2>3, BoardStays, FilesStay DEF IInv
<1>4. CASE UNCHANGED vars
  <2>1. UNCHANGED <<part, calm, task, begun>> /\ UNCHANGED <<boardVars, attachmentsVars, wordsVars>>
    BY <1>4 DEF vars, requestVars
  <2>2. SlotsOK'
    BY <2>1 DEF IInv, SlotsOK, Alone
  <2>3. BoardInv'
    <3>1. CASE part = "board"
      BY <3>1, <2>1 DEF IInv, BoardInv, BoardTypes, BoardRefs, CalmReports, boardVars,
                        B!IsPost, B!IsComment, B!Exists
    <3> QED
      BY <3>1, <2>1, BoardStays DEF IInv
  <2>4. FilesInv'
    <3>1. CASE part = "attachments"
      BY <3>1, <2>1 DEF IInv, FilesInv, FileTypes, Claims, MissingOK, attachmentsVars,
                        Claimed, OfPage, InMaking, OfFace, Going, A!Missing
    <3> QED
      BY <3>1, <2>1, FilesStay DEF IInv
  <2>5. WordsInv'
    <3>1. CASE part = "words"
      BY <3>1, <2>1 DEF IInv, WordsInv, WordTypes, OneHolderEach, WordsAgree, wordsVars
    <3> QED
      BY <3>1, <2>1, WordsStay DEF IInv
  <2> QED
    BY <2>2, <2>3, <2>4, <2>5 DEF IInv
<1> QED
  BY <1>1, <1>2, <1>3, <1>4 DEF Next

\* The inductive invariant of the composition holds in every state.
THEOREM Invariance == Spec => []IInv
<1>1. Init => IInv
  BY InitInv
<1>2. IInv /\ [Next]_vars => IInv'
  BY NextInv
<1> QED
  BY <1>1, <1>2, PTL DEF Spec

-----------------------------------------------------------------------------
(* What follows from it. *)

\* The variables of the three parts keep their types, whatever requests overlap
\* (the rows of the board, of files and of words, as their handlers write them).
THEOREM TypesKept == Spec => []TypeOK
<1>1. IInv => TypeOK
  <2> SUFFICES ASSUME IInv PROVE TypeOK
    OBVIOUS
  <2>1. B!BoardTypeOK
    <3>1. CASE part = "board"
      <4>1. BoardTypes
        BY <3>1 DEF IInv, BoardInv
      <4> QED
        BY <4>1 DEF BoardTypes, PostRows, B!BoardTypeOK
    <3>2. CASE part # "board"
      <4>1. B!BoardInit
        BY <3>2 DEF IInv, BoardInv
      <4> QED
        BY <4>1 DEF B!BoardInit, B!BoardTypeOK, B!EmptyBag, B!SetToBag, B!IsABag
    <3> QED
      BY <3>1, <3>2
  <2>2. A!AttachmentsTypeOK
    <3>1. CASE part = "attachments"
      BY <3>1 DEF IInv, FilesInv, FileTypes, NoneOr, A!AttachmentsTypeOK
    <3>2. CASE part # "attachments"
      BY <3>2 DEF IInv, FilesInv, A!AttachmentsInit, A!AttachmentsTypeOK
    <3> QED
      BY <3>1, <3>2
  <2>3. W!WordsTypeOK
    <3>1. CASE part = "words"
      <4>1. WordTypes
        BY <3>1 DEF IInv, WordsInv
      <4>2. Nicknames \subseteq [name : Names \cup {"none"}, by : {"none", "choice", "signup"}]
        BY DEF Nicknames, W!NoName
      <4> QED
        BY <4>1, <4>2 DEF WordTypes, W!WordsTypeOK
    <3>2. CASE part # "words"
      BY <3>2 DEF IInv, WordsInv, W!WordsInit, W!WordsTypeOK, W!NoName, W!Unfiled
    <3> QED
      BY <3>1, <3>2
  <2> QED
    BY <2>1, <2>2, <2>3 DEF TypeOK
<1> QED
  BY <1>1, Invariance, PTL

\* A slip counts for one post at most, comments, likes, reports and answers are
\* about what is there, and a report of a post counts once when requests wait for
\* each other (createPost, deletePost, reportPost of the board).
THEOREM SlipsCountOnce == Spec => []CountedOnce
<1>1. IInv => CountedOnce
  <2> SUFFICES ASSUME IInv PROVE B!CountedOnce
    BY DEF CountedOnce
  <2>1. (BoardTypes /\ BoardRefs /\ CalmReports) \/ B!BoardInit
    BY DEF IInv, BoardInv
  <2>2. CASE BoardTypes /\ BoardRefs /\ CalmReports
    <3>1. \A x \in Slips : \A p, q \in B!Holds(x) : p = q
      <4>1. \A x \in Slips : x # B!NoSlip
        BY CommunityAssumption DEF B!NoSlip
      <4> QED
        BY <2>2, <4>1 DEF B!Holds, BoardRefs
    <3>2. /\ \A c \in CommentIds : B!IsComment(c) => B!IsPost(comment[c].post)
          /\ \A l \in liked \cup B!BagToSet(reported) \cup answered : B!Exists(l[1])
      BY <2>2 DEF BoardRefs, B!BagToSet
    <3>3. calm => \A r \in B!BagToSet(reported) : r[1] \in PostIds => reported[r] = 1
      BY <2>2 DEF CalmReports, B!BagToSet
    <3> QED
      BY <3>1, <3>2, <3>3 DEF B!CountedOnce
  <2>3. CASE B!BoardInit
    <3>1. /\ \A p \in PostIds : ~B!IsPost(p)
          /\ \A c \in CommentIds : ~B!IsComment(c)
      BY <2>3 DEF B!BoardInit, B!IsPost, B!IsComment
    <3>2. liked = {} /\ answered = {} /\ B!BagToSet(reported) = {}
      BY <2>3 DEF B!BoardInit, B!EmptyBag, B!SetToBag, B!BagToSet
    <3>3. \A x \in Slips : \A p, q \in B!Holds(x) : p = q
      BY <3>1 DEF B!Holds
    <3> QED
      BY <3>1, <3>2, <3>3 DEF B!CountedOnce
  <2> QED
    BY <2>1, <2>2, <2>3
<1> QED
  BY <1>1, Invariance, PTL

\* A file that one request has named and no other stays on the disk while a post or
\* an avatar shows it, whatever edits, deletions and new avatars overlap (createPost,
\* updatePost, deletePost of the board, updateAvatar of the profile).
THEOREM ImagesStay == Spec => []ShownImageStays
<1>1. IInv => ShownImageStays
  <2> SUFFICES ASSUME IInv PROVE A!ShownImageStays
    BY DEF ShownImageStays
  <2>1. CASE part = "attachments"
    <3>1. FileTypes /\ Claims /\ MissingOK /\ A!Missing \subseteq Files
      BY <2>1 DEF IInv, FilesInv, A!Missing
    <3>2. \A f \in A!Missing : Claimed(f) => f \in given
      BY <3>1 DEF Claims
    <3>3. \A u \in Faces : avatar[u] \notin A!Missing
      BY <3>1, <3>2 DEF MissingOK, Claimed, OfFace
    <3>4. ASSUME NEW p \in Pages, image[p] \in A!Missing
          PROVE  \E s \in Slots : task[s].op = "delete" /\ task[s].page = p
      <4>1. PICK f \in A!Missing : f = image[p]
        BY <3>4
      <4>2. OfPage(f, p) /\ f \in given
        BY <3>2, <4>1 DEF Claimed, OfPage
      <4> QED
        BY <3>1, <4>1, <4>2, NoPlace DEF MissingOK, Going
    <3> QED
      BY <3>3, <3>4 DEF A!ShownImageStays
  <2>2. CASE part # "attachments"
    <3>1. A!AttachmentsInit /\ A!Missing \subseteq Files
      BY <2>2 DEF IInv, FilesInv, A!Missing
    <3> QED
      BY <3>1, NoPlace DEF A!AttachmentsInit, A!ShownImageStays
  <2> QED
    BY <2>1, <2>2
<1> QED
  BY <1>1, Invariance, PTL

\* A nickname has one holder at most; when requests wait for each other and
\* wherever the process restarts, memory and table agree and a name blocked after
\* a report is nobody's choice (setNickname, BadWordsService, the manager's answers).
THEOREM NamesAreInOrder == Spec => []NamesInOrder
<1>1. IInv => NamesInOrder
  <2> SUFFICES ASSUME IInv PROVE W!NamesInOrder
    BY DEF NamesInOrder
  <2>1. \A n \in Names : \A u, v \in W!Holders(n) : u = v
    <3>1. CASE part = "words"
      BY <3>1 DEF IInv, WordsInv, OneHolderEach, W!Holders
    <3>2. CASE part # "words"
      <4>1. \A u \in Owners : nick[u].name = "none"
        BY <3>2 DEF IInv, WordsInv, W!WordsInit, W!NoName
      <4> QED
        BY <4>1, CommunityAssumption DEF W!Holders
    <3> QED
      BY <3>1, <3>2
  <2>2. ASSUME calm, W!AllFree
        PROVE  /\ memory = table
               /\ \A u \in Owners : nick[u].by = "choice" => nick[u].name \notin cleared
    <3>1. CASE part = "words"
      <4>1. WordsAgree
        BY <2>2, <3>1 DEF IInv, WordsInv
      <4>2. task[Only].op = "nothing"
        BY <2>2, OnlyIsSlot, NothingInTasks DEF W!AllFree, W!IsFree
      <4> QED
        BY <4>1, <4>2 DEF WordsAgree
    <3>2. CASE part # "words"
      BY <3>2 DEF IInv, WordsInv, W!WordsInit
    <3> QED
      BY <3>1, <3>2
  <2> QED
    BY <2>1, <2>2 DEF W!NamesInOrder
<1> QED
  BY <1>1, Invariance, PTL
=============================================================================
