--------------------------- MODULE AccessInvariant ---------------------------
(***************************************************************************)
(* What holds between the awaits of the handlers of Access and makes its   *)
(* safety properties inductive.                                            *)
(***************************************************************************)
EXTENDS Access

Users == [state : {"active", "deleted"}, email : Addresses \cup {Random},
          restoreToken : Addresses \cup {None}, password : Passwords \cup {Random},
          home : Addresses]

Logs == [count : 0..MaxFails, lock : {"absent", "off", "on", "past"}]

Entries == {Missing, "true", "false"}

\* The one slot of a calm behaviour.
Only == CHOOSE x \in Slots : TRUE

\* What a slot can hold.
Steps == {"address", "lookup", "block", "remember", "judge", "bind", "note",
          "register", "insert", "inquire"}

Tasks ==
  UNION {{Nothing},
         [op : {"create", "repass"}, mail : Addresses, password : Passwords],
         [op : {"reset", "check", "fail"}, mail : Addresses, password : Passwords,
          seen : Logs],
         [op : {"clear", "erase", "revive"}, id : Ids, mail : Addresses],
         [op : {"token", "forget"}, id : Ids],
         [op : Steps, ip : Ips, errand : Errands, cached : Entries,
          saved : Ips \cup {Missing, Unbound}],
         [op : {"cache"}, value : {"true", "false"}]}

-----------------------------------------------------------------------------
(* Types, of what handlers have read too. *)

TablesOK ==
  /\ users \in [Ids -> Users \cup {NoRow}]
  /\ stored \in [Ids -> 0..MaxTokens]
  /\ issued \in [Ids -> 0..MaxTokens]
  /\ failLog \in [Addresses -> Logs]
  /\ missed \in [Addresses -> [sinceLock : Nat, inARow : Nat]]

HandlersOK ==
  /\ part \in Parts /\ calm \in BOOLEAN /\ begun \in Nat
  /\ task \in [Slots -> Tasks]

TypesOK == TablesOK /\ HandlersOK /\ GuardTypeOK

-----------------------------------------------------------------------------
(* Rows and their addresses. *)

\* A row that is there is live under its address or withdrawn from it.
RowsOK ==
  \A i \in Ids : users[i] # NoRow =>
    IF IsDeleted(i) THEN users[i].restoreToken = users[i].home /\ users[i].email = Random
                    ELSE users[i].restoreToken = None /\ users[i].email = users[i].home

\* No two rows answer to one address, or can be restored to it.
HoldersOK ==
  \A a \in Addresses, i, j \in Ids : /\ i \in Live(a) /\ j \in Live(a) => i = j
                                     /\ i \in Withdrawn(a) /\ j \in Withdrawn(a) => i = j

\* Who withdraws a row or restores it does so under its address; one to restore may
\* be gone.
ErrandsOK == \A s \in Slots : task[s].op \in {"erase", "revive"} =>
               \/ task[s].op = "revive" /\ users[task[s].id] = NoRow
               \/ /\ users[task[s].id] # NoRow
                  /\ task[s].mail = users[task[s].id].home

TokensOK == \A i \in Ids : stored[i] <= issued[i]

AccountInv == RowsOK /\ HoldersOK /\ ErrandsOK /\ TokensOK

-----------------------------------------------------------------------------
(* The log of failed logins. *)

\* A count below the limit counts failures since the last lock; a lock has them all.
LogsOK ==
  \A a \in Addresses :
    /\ failLog[a].lock = "absent" => failLog[a] = NoLog
    /\ failLog[a].lock = "off" => failLog[a].count < MaxFails
                                  /\ failLog[a].count <= missed[a].sinceLock
    /\ failLog[a].lock = "on" => missed[a].sinceLock >= MaxFails

\* What a login has read is as good, however old.
ReadsOK ==
  \A s \in Slots :
    LET t == task[s] IN
      /\ t.op = "reset" => t.seen.lock = "past"
      /\ t.op \in {"check", "fail"} =>
           /\ t.seen.lock \in {"absent", "off"}
           /\ t.seen.lock = "absent" => t.seen = NoLog
           /\ t.seen.count < MaxFails
           /\ t.seen.count + (IF t.op = "fail" THEN 1 ELSE 0) <= missed[t.mail].sinceLock

LogInv == LogsOK /\ ReadsOK

IInv == TypesOK /\ AccountInv /\ LogInv

-----------------------------------------------------------------------------
(* When requests wait for each other. *)

Alone == \A s \in Slots : task[s] # Nothing => s = Only

\* The failures in a row the log knows of.
Known(a) == IF failLog[a].lock \in {"off", "on"} THEN failLog[a].count ELSE 0

\* The log knows all of them, but for the one that is being written.
Failures ==
  LET t == task[Only] IN
    \A a \in Addresses :
      IF t.op \in {"reset", "check", "fail", "clear"} /\ t.mail = a
        THEN IF t.op = "clear"
               THEN missed[a].inARow = 0
               ELSE /\ t.seen = failLog[a]
                    /\ missed[a].inARow = Known(a) + (IF t.op = "fail" THEN 1 ELSE 0)
        ELSE missed[a].inARow = Known(a)

\* What is cached was so, and is but for a block that ran out.
CachesAgree ==
  /\ row = Missing => block = "none"
  /\ task[Only].op # "cache" => /\ blocked = "true" => block # "none"
                                /\ blocked = "false" => ~IsBlocked
  /\ savedIp \in {Missing, row} \/ (task[Only].op = "insert" /\ savedIp = task[Only].ip)

\* And so is what the guard has read.
GuardAgrees ==
  LET t == task[Only] IN
    /\ t.op \in {"address", "lookup"} => t.cached # "true" /\ (t.cached = "false" => ~IsBlocked)
    /\ t.op = "lookup" => t.saved \in {Missing, row}
    /\ t.op \in {"block", "remember", "judge"} => t.saved = row
    /\ t.op = "block" => row # Missing
    /\ t.op = "remember" => t.cached = (IF IsBlocked THEN "true" ELSE "false")
    /\ t.op = "judge" => (t.cached = "true" <=> IsBlocked)
    /\ t.op = "bind" => row = Unbound
    /\ t.op = "note" => row = t.ip
    /\ t.op \in {"bind", "note"} => ~IsBlocked
    /\ t.op \in {"register", "insert", "inquire"} => row \in {Missing, t.ip}
    /\ t.op = "cache" => IF t.value = "true" THEN IsBlocked ELSE block = "none"

CalmInv == calm => Alone /\ Failures /\ CachesAgree /\ GuardAgrees
=============================================================================
