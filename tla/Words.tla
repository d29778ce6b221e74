-------------------------------- MODULE Words --------------------------------
(***************************************************************************)
(* Nicknames, reports against them and the banned words of BadWordsService *)
(* which keeps the words of its table in memory as well.                   *)
(*                                                                         *)
(* A nickname and a word are the same small set of names: a text contains  *)
(* a word when it is the word.                                             *)
(***************************************************************************)
EXTENDS Requests

CONSTANTS
  Owners,     \* user ids
  Names,      \* nicknames and words
  Reports     \* ids of nickname reports

VARIABLES
  nick,       \* the nickname of a user and how the user came by it
  table,      \* rows of banned_word
  memory,     \* BadWordsService.bannedWords
  report,     \* nickname reports
  cleared     \* names a manager has blocked after a report, and not allowed since

wordsVars == <<nick, table, memory, report, cleared>>

NoName == [name |-> "none", by |-> "none"]
Unfiled == [name |-> "none", status |-> "unfiled"]

WordsInit == /\ nick = [u \in Owners |-> NoName]
             /\ table \in SUBSET Names
             /\ memory = table
             /\ report = [r \in Reports |-> Unfiled]
             /\ cleared = {}

Holders(n) == {u \in Owners : nick[u].name = n}

----------------------------------------------------------------------------
\* A user without a nickname takes one; sign-up asks for one without a look at
\* the banned words.

IsFit(n) == n \notin memory
NotHeld(n) == Holders(n) = {}

SetNicknameReads(s) ==
  /\ Arrives(s)
  /\ \E u \in Owners, n \in Names :
       /\ IsFit(n)
       /\ nick[u] = NoName
       /\ NotHeld(n)
       /\ Then(s, [op |-> "name", user |-> u, name |-> n, by |-> "choice"])
  /\ UNCHANGED wordsVars

SignupNames(s) ==
  /\ Arrives(s)
  /\ \E u \in Owners, n \in Names :
       /\ nick[u] = NoName
       /\ NotHeld(n)
       /\ Then(s, [op |-> "name", user |-> u, name |-> n, by |-> "signup"])
  /\ UNCHANGED wordsVars

\* The unique index on the nickname refuses a name that was taken meanwhile.
WritesName(s) ==
  /\ At(s, "name")
  /\ LET t == task[s] IN
       nick' = IF Holders(t.name) \subseteq {t.user}
                 THEN [nick EXCEPT ![t.user] = [name |-> t.name, by |-> t.by]]
                 ELSE nick
  /\ Ends(s)
  /\ UNCHANGED <<table, memory, report, cleared>>

ResetUserNickname(s) ==
  /\ Arrives(s)
  /\ \E u \in Owners : nick' = [nick EXCEPT ![u] = NoName]
  /\ UNCHANGED <<task, table, memory, report, cleared>>

ReportNickname(s) ==
  /\ Arrives(s)
  /\ \E u \in Owners : /\ nick[u] # NoName
                      /\ Then(s, [op |-> "file", name |-> nick[u].name])
  /\ UNCHANGED wordsVars

Filed(n, status) == [name |-> n, status |-> status]

FilesReport(s) ==
  /\ At(s, "file")
  /\ \E r \in Reports :
       /\ report[r] = Unfiled
       /\ report' = [report EXCEPT ![r] = Filed(task[s].name, "PENDING")]
  /\ Ends(s)
  /\ UNCHANGED <<nick, table, memory, cleared>>

----------------------------------------------------------------------------
\* addBannedWord and removeBannedWord: a look at the memory, the row, the
\* memory.  A row that is there already, or is not there any more, throws.

\* A word on its way, and the report it comes from.
NoReport == "no report"
Word(op, n, r) == [op |-> op, name |-> n, report |-> r]

\* What a handler does after the word is in the memory.
AfterAdding(n, r) == IF r = NoReport THEN Nothing ELSE Word("settle", n, r)

AddBannedWord(s) ==
  /\ Arrives(s)
  /\ \E n \in Names : n \notin memory /\ Then(s, Word("add", n, NoReport))
  /\ UNCHANGED wordsVars

InsertsWord(s) ==
  /\ At(s, "add")
  /\ LET n == task[s].name IN
       IF n \in table
         THEN Ends(s) /\ UNCHANGED table
         ELSE table' = table \cup {n} /\ Then(s, Word("learn", n, task[s].report))
  /\ UNCHANGED <<nick, memory, report, cleared>>

Learnt(n) == memory \cup {n}

LearnsWord(s) ==
  /\ At(s, "learn")
  /\ memory' = Learnt(task[s].name)
  /\ Then(s, AfterAdding(task[s].name, task[s].report))
  /\ UNCHANGED <<nick, table, report, cleared>>

RemoveBannedWord(s) ==
  /\ Arrives(s)
  /\ \E n \in memory : Then(s, Word("remove", n, NoReport))
  /\ UNCHANGED wordsVars

DeletesWord(s) ==
  /\ At(s, "remove")
  /\ LET n == task[s].name IN
       IF n \in table
         THEN /\ table' = table \ {n}
              /\ cleared' = cleared \ {n}
              /\ Then(s, Word("unlearn", n, NoReport))
         ELSE Ends(s) /\ UNCHANGED <<table, cleared>>
  /\ UNCHANGED <<nick, memory, report>>

Unlearnt(n) == memory \ {n}

UnlearnsWord(s) ==
  /\ At(s, "unlearn")
  /\ memory' = Unlearnt(task[s].name)
  /\ Ends(s)
  /\ UNCHANGED <<nick, table, report, cleared>>

\* The process starts anew: handlers are gone, onModuleInit loads the table.
Restarts == /\ task' = [s \in Slots |-> Nothing]
            /\ memory' = table
            /\ UNCHANGED <<part, calm, begun, nick, table, report, cleared>>

----------------------------------------------------------------------------
\* A manager answers a report.

BlockNicknameReport(s) ==
  /\ Arrives(s)
  /\ \E r \in Reports :
       /\ report[r].status = "PENDING"
       /\ LET n == report[r].name IN
            Then(s, Word(IF n \in memory THEN "settle" ELSE "add", n, r))
  /\ UNCHANGED wordsVars

Answered(r, status) == [report EXCEPT ![r] = Filed(@.name, status)]

SettlesReport(s) ==
  /\ At(s, "settle")
  /\ report' = Answered(task[s].report, "BLOCKED")
  /\ Then(s, Word("strip", task[s].name, task[s].report))
  /\ UNCHANGED <<nick, table, memory, cleared>>

Stripped_NotAtAll(n) == nick
Stripped(n) == [u \in Owners |-> IF nick[u].name = n THEN NoName ELSE nick[u]]

StripsName(s) ==
  /\ At(s, "strip")
  /\ nick' = Stripped(task[s].name)
  /\ cleared' = IF task[s].name \in memory THEN cleared \cup {task[s].name} ELSE cleared
  /\ Then(s, Word("others", task[s].name, task[s].report))
  /\ UNCHANGED <<table, memory, report>>

SettlesOthers(s) ==
  /\ At(s, "others")
  /\ report' = [r \in Reports |->
       IF report[r] = Filed(task[s].name, "PENDING")
         THEN Filed(task[s].name, "BLOCKED") ELSE report[r]]
  /\ Ends(s)
  /\ UNCHANGED <<nick, table, memory, cleared>>

RejectNicknameReport(s) ==
  /\ Arrives(s)
  /\ \E r \in Reports : /\ report[r].status = "PENDING"
                        /\ Then(s, [op |-> "reject", report |-> r])
  /\ UNCHANGED wordsVars

RejectsReport(s) ==
  /\ At(s, "reject")
  /\ report' = Answered(task[s].report, "REJECTED")
  /\ Ends(s)
  /\ UNCHANGED <<nick, table, memory, cleared>>

----------------------------------------------------------------------------
WordsNext ==
  /\ part = "words"
  /\ \/ \E s \in Slots :
          \/ SetNicknameReads(s) \/ SignupNames(s) \/ WritesName(s)
          \/ ResetUserNickname(s) \/ ReportNickname(s) \/ FilesReport(s)
          \/ AddBannedWord(s) \/ InsertsWord(s) \/ LearnsWord(s)
          \/ RemoveBannedWord(s) \/ DeletesWord(s) \/ UnlearnsWord(s)
          \/ BlockNicknameReport(s) \/ SettlesReport(s) \/ StripsName(s)
          \/ SettlesOthers(s) \/ RejectNicknameReport(s) \/ RejectsReport(s)
     \/ Restarts

----------------------------------------------------------------------------
\* Nicknames, words and reports have their types.
WordsTypeOK ==
  /\ nick \in [Owners -> [name : Names \cup {"none"}, by : {"none", "choice", "signup"}]]
  /\ table \subseteq Names /\ memory \subseteq Names
  /\ report \in [Reports -> [name : Names \cup {"none"},
                             status : {"unfiled", "PENDING", "BLOCKED", "REJECTED"}]]

\* However requests overlap, a nickname has one holder at most.  One after the
\* other, and wherever the process stops, the memory then holds the words of the
\* table, and a nickname that was blocked after a report and is still a banned
\* word is nobody's, but for a user who signed up with it.
NamesInOrder ==
  /\ \A n \in Names : \A u, v \in Holders(n) : u = v
  /\ calm /\ AllFree =>
       /\ memory = table
       /\ \A u \in Owners : nick[u].by = "choice" => nick[u].name \notin cleared
=============================================================================
