------------------------------- MODULE Account -------------------------------
(***************************************************************************)
(* Accounts of AuthService: sign-up, login with the lock after repeated    *)
(* failures, refresh tokens, the links mailed for a new password, for a    *)
(* withdrawal and for a restoration, and the yearly clean-up of withdrawn  *)
(* accounts.                                                               *)
(*                                                                         *)
(* A withdrawn row loses its address, keeps a hash of it and stays in the  *)
(* table.  Hashes are modelled by what is hashed, random values by the     *)
(* values no client has.  Nicknames are in Words.tla, the 50 HON of a      *)
(* new account (created in the same transaction) in HonLedger.tla.         *)
(***************************************************************************)
EXTENDS Requests

CONSTANTS
  Ids,          \* user ids generateId draws from
  Addresses,    \* e-mail addresses
  Passwords,    \* passwords that users choose
  MaxFails,     \* failed logins that lock an address, 5 in the code
  MaxTokens     \* bound: refresh tokens issued to a user

ASSUME AccountAssumption == /\ MaxFails \in Nat /\ MaxFails > 1
                            /\ MaxTokens \in Nat
                            /\ {"none", "random"} \cap Addresses = {}

VARIABLES
  users,    \* user rows: address, hash of the former address, password
  stored,   \* Redis: the refresh token of a user, 0 when there is none
  issued,   \* refresh tokens issued to a user, the last of them is the newest
  links,    \* mailed links that still open
  failLog,  \* LoginFailLog of an address (one client address is modelled)
  missed    \* failed logins since the last lock ended, and since that or a success

accountVars == <<users, stored, issued, links, failLog, missed>>

NoRow == [state |-> "none"]
None == "none"
Random == "random"       \* an address or a password nobody has
NoLog == [count |-> 0, lock |-> "absent"]

Live(a) == {i \in Ids : users[i] # NoRow /\ users[i].email = a}
Withdrawn(a) == {i \in Ids : users[i] # NoRow /\ users[i].restoreToken = a}
IsDeleted(i) == users[i] # NoRow /\ users[i].state = "deleted"

Row(a, p, h) == [state |-> "active", email |-> a, restoreToken |-> None,
                 password |-> p, home |-> h]
Tombstone(a, h) == [state |-> "deleted", email |-> Random, restoreToken |-> a,
                    password |-> Random, home |-> h]

Missed(n, m) == [sinceLock |-> n, inARow |-> m]

AccountInit ==
  /\ users = [i \in Ids |-> NoRow]
  /\ stored = [i \in Ids |-> 0]
  /\ issued = [i \in Ids |-> 0]
  /\ links = {}
  /\ failLog = [a \in Addresses |-> NoLog]
  /\ missed = [a \in Addresses |-> Missed(0, 0)]

\* The unique indices of the user table on the address and on its hash.
EmailFree_NoIndex(a, i) == TRUE
EmailFree(a, i) == Live(a) \subseteq {i}
RestoreTokenFree(a, i) == Withdrawn(a) \subseteq {i}

----------------------------------------------------------------------------
\* Tokens: the last step of sign-up, login and refresh.

StoreToken(s) ==
  /\ At(s, "token")
  /\ LET i == task[s].id IN
       /\ issued[i] < MaxTokens
       /\ issued' = [issued EXCEPT ![i] = @ + 1]
       /\ stored' = [stored EXCEPT ![i] = issued[i] + 1]
  /\ Ends(s)
  /\ UNCHANGED <<users, links, failLog, missed>>

Token(i) == [op |-> "token", id |-> i]

\* A refresh trusts the stored token alone, it does not look at the user row.
Refresh(s) ==
  /\ Arrives(s)
  /\ \E i \in Ids : \E t \in 1..issued[i] :
       /\ stored[i] = t
       /\ issued[i] < MaxTokens
       /\ Then(s, Token(i))
  /\ UNCHANGED accountVars

----------------------------------------------------------------------------
\* Sign-up.

SignupReads(s) ==
  /\ Arrives(s)
  /\ \E a \in Addresses, p \in Passwords :
       /\ Live(a) = {}
       /\ Then(s, [op |-> "create", mail |-> a, password |-> p])
  /\ UNCHANGED accountVars

\* The requests under way that hold the id of a row.
Holding(i, ops) == {s \in Slots : task[s].op \in ops /\ task[s].id = i}

\* An id drawn at random is not one a token or a request still knows.
Fresh(i) == /\ users[i] = NoRow /\ stored[i] = 0
            /\ Holding(i, {"token", "clear", "erase", "forget", "revive"}) = {}

SignupCreates(s) ==
  /\ At(s, "create")
  /\ LET a == task[s].mail IN
       \E i \in Ids :
         /\ Fresh(i)
         /\ IF EmailFree(a, i)
              THEN /\ users' = [users EXCEPT ![i] = Row(a, task[s].password, a)]
                   /\ Then(s, Token(i))
              ELSE Ends(s) /\ UNCHANGED users
  /\ UNCHANGED <<stored, issued, links, failLog, missed>>

----------------------------------------------------------------------------
\* Login.  `seen' is the row of the log the handler has read.

Attempt(op, a, p, seen) == [op |-> op, mail |-> a, password |-> p, seen |-> seen]

LoginReads(s) ==
  /\ Arrives(s)
  /\ \E a \in Addresses, p \in Passwords :
       /\ failLog[a].lock # "on"
       /\ Then(s, Attempt(IF failLog[a].lock = "past" THEN "reset" ELSE "check",
                          a, p, failLog[a]))
  /\ UNCHANGED accountVars

Counted(n) == [count |-> n, lock |-> "off"]

\* A lock that has ended leaves a fresh count.
AfterLock == Counted(0)

LoginResets(s) ==
  /\ At(s, "reset")
  /\ LET a == task[s].mail IN
       IF failLog[a] = NoLog
         THEN Ends(s) /\ UNCHANGED failLog
         ELSE /\ failLog' = [failLog EXCEPT ![a] = AfterLock]
              /\ Then(s, Attempt("check", a, task[s].password, AfterLock))
  /\ UNCHANGED <<users, stored, issued, links, missed>>

Forgotten(a) == [missed EXCEPT ![a] = Missed(@.sinceLock, 0)]
OneMore(a) == [missed EXCEPT ![a] = Missed(@.sinceLock + 1, @.inARow + 1)]

LoginChecks(s) ==
  /\ At(s, "check")
  /\ LET a == task[s].mail
         known == {i \in Live(a) : users[i].password = task[s].password} IN
       IF known # {}
         THEN /\ \E i \in known :
                   Then(s, IF task[s].seen = NoLog
                             THEN Token(i)
                             ELSE [op |-> "clear", id |-> i, mail |-> a])
              /\ missed' = Forgotten(a)
         ELSE /\ Then(s, Attempt("fail", a, task[s].password, task[s].seen))
              /\ missed' = OneMore(a)
  /\ UNCHANGED <<users, stored, issued, links, failLog>>

\* What handleFail writes after n failures it has seen.
Locked_OneEarly(n) == [count |-> n, lock |-> IF n + 1 >= MaxFails THEN "on" ELSE "off"]
Locked(n) == [count |-> n, lock |-> IF n >= MaxFails THEN "on" ELSE "off"]

LoginFails(s) ==
  /\ At(s, "fail")
  /\ LET a == task[s].mail
         seen == task[s].seen IN
       CASE seen = NoLog /\ failLog[a] = NoLog ->
              failLog' = [failLog EXCEPT ![a] = Counted(1)]
         [] seen # NoLog /\ failLog[a] # NoLog ->
              failLog' = [failLog EXCEPT ![a] = Locked(seen.count + 1)]
         [] OTHER -> UNCHANGED failLog      \* the row appeared or is gone: 500
  /\ Ends(s)
  /\ UNCHANGED <<users, stored, issued, links, missed>>

LoginClears(s) ==
  /\ At(s, "clear")
  /\ LET a == task[s].mail IN
       IF failLog[a] = NoLog
         THEN Ends(s) /\ UNCHANGED failLog
         ELSE /\ failLog' = [failLog EXCEPT ![a] = NoLog]
              /\ Then(s, Token(task[s].id))
  /\ UNCHANGED <<users, stored, issued, links, missed>>

\* Five minutes have passed; no login takes as long.
LockEnds(a) ==
  /\ failLog[a].lock = "on"
  /\ AllFree
  /\ failLog' = [failLog EXCEPT ![a] = [count |-> @.count, lock |-> "past"]]
  /\ missed' = [missed EXCEPT ![a] = Missed(0, 0)]
  /\ Outside
  /\ UNCHANGED <<users, stored, issued, links>>

----------------------------------------------------------------------------
\* Links.  One that only shows the address back (sign-up) changes nothing.

Mail(l) == links' = links \cup {l} /\ UNCHANGED <<users, stored, issued, failLog, missed>>

SendVerificationEmail(s) ==
  /\ Arrives(s)
  /\ \E a \in Addresses : /\ \E i \in Withdrawn(a) : IsDeleted(i)
                          /\ Mail([type |-> "restore", to |-> a])
  /\ UNCHANGED task

SendPasswordResetLink(s) ==
  /\ Arrives(s)
  /\ \E a \in Addresses : /\ \E i \in Live(a) : ~IsDeleted(i)
                          /\ Mail([type |-> "reset-password", to |-> a])
  /\ UNCHANGED task

SendWithdrawalLink(s) ==
  /\ Arrives(s)
  /\ \E i \in Ids : /\ users[i] # NoRow /\ ~IsDeleted(i)
                    /\ Mail([type |-> "withdraw", to |-> i])
  /\ UNCHANGED task

\* A link opens any number of times in its fifteen minutes.
LinkExpires == /\ \E l \in links : links' = links \ {l}
               /\ AllFree
               /\ Outside
               /\ UNCHANGED <<users, stored, issued, failLog, missed>>

----------------------------------------------------------------------------
\* A new password.

ResetReads(s) ==
  /\ Arrives(s)
  /\ \E a \in Addresses, p \in Passwords :
       /\ [type |-> "reset-password", to |-> a] \in links
       /\ \E i \in Live(a) : ~IsDeleted(i)
       /\ Then(s, [op |-> "repass", mail |-> a, password |-> p])
  /\ UNCHANGED accountVars

ResetWrites(s) ==
  /\ At(s, "repass")
  /\ users' = [i \in Ids |-> IF i \in Live(task[s].mail)
                               THEN [users[i] EXCEPT !.password = task[s].password]
                               ELSE users[i]]
  /\ Ends(s)
  /\ UNCHANGED <<stored, issued, links, failLog, missed>>

----------------------------------------------------------------------------
\* Withdrawal and restoration.

WithdrawReads(s) ==
  /\ Arrives(s)
  /\ \E i \in Ids :
       /\ [type |-> "withdraw", to |-> i] \in links
       /\ users[i] # NoRow /\ ~IsDeleted(i)
       /\ Then(s, [op |-> "erase", id |-> i, mail |-> users[i].email])
  /\ UNCHANGED accountVars

WithdrawErases(s) ==
  /\ At(s, "erase")
  /\ LET i == task[s].id
         a == task[s].mail IN
       IF RestoreTokenFree(a, i)
         THEN /\ users' = [users EXCEPT ![i] = Tombstone(a, @.home)]
              /\ Then(s, [op |-> "forget", id |-> i])
         ELSE Ends(s) /\ UNCHANGED users
  /\ UNCHANGED <<stored, issued, links, failLog, missed>>

\* The refresh token of the withdrawn user is deleted.
Dropped(i) == 0

WithdrawForgets(s) ==
  /\ At(s, "forget")
  /\ stored' = [stored EXCEPT ![task[s].id] = Dropped(task[s].id)]
  /\ Ends(s)
  /\ UNCHANGED <<users, issued, links, failLog, missed>>

RestoreReads(s) ==
  /\ Arrives(s)
  /\ \E a \in Addresses :
       /\ [type |-> "restore", to |-> a] \in links
       /\ \E i \in Withdrawn(a) :
            /\ IsDeleted(i)
            /\ Then(s, [op |-> "revive", id |-> i, mail |-> a])
  /\ UNCHANGED accountVars

RestoreRevives(s) ==
  /\ At(s, "revive")
  /\ LET i == task[s].id
         a == task[s].mail IN
       /\ users' = IF users[i] # NoRow /\ EmailFree(a, i)
                     THEN [users EXCEPT ![i] = Row(a, @.password, @.home)]
                     ELSE users
       /\ Ends(s)
  /\ UNCHANGED <<stored, issued, links, failLog, missed>>

\* Withdrawn not long ago: the link it took still opens, or the request goes on.
JustLeft(i) == \/ [type |-> "withdraw", to |-> i] \in links
               \/ Holding(i, {"erase", "forget"}) # {}

\* At night rows withdrawn a year ago are deleted, whatever is under way.
HandleCron ==
  /\ \E old \in SUBSET {i \in Ids : IsDeleted(i) /\ ~JustLeft(i)} :
       /\ old # {}
       /\ users' = [i \in Ids |-> IF i \in old THEN NoRow ELSE users[i]]
  /\ Outside
  /\ UNCHANGED <<stored, issued, links, failLog, missed>>

\* Fourteen days after its issue.
TokenExpires ==
  /\ AllFree
  /\ \E i \in Ids : stored[i] # 0 /\ stored' = [stored EXCEPT ![i] = 0]
  /\ Outside
  /\ UNCHANGED <<users, issued, links, failLog, missed>>

----------------------------------------------------------------------------
LoginStep(s) == \/ LoginReads(s) \/ LoginResets(s) \/ LoginChecks(s)
                \/ LoginFails(s) \/ LoginClears(s)

AccountStep(s) == \/ SendVerificationEmail(s) \/ SendPasswordResetLink(s)
                  \/ SendWithdrawalLink(s) \/ Refresh(s)
                  \/ ResetReads(s) \/ ResetWrites(s)
                  \/ WithdrawReads(s) \/ WithdrawErases(s) \/ WithdrawForgets(s)
                  \/ RestoreReads(s) \/ RestoreRevives(s)

AccountNext ==
  \/ /\ part \in {"logins", "accounts"}
     /\ \E s \in Slots : SignupReads(s) \/ SignupCreates(s) \/ StoreToken(s)
  \/ /\ part = "logins"
     /\ \/ \E s \in Slots : LoginStep(s)
        \/ \E a \in Addresses : LockEnds(a)
  \/ /\ part = "accounts"
     /\ \/ \E s \in Slots : AccountStep(s)
        \/ LinkExpires \/ HandleCron \/ TokenExpires

----------------------------------------------------------------------------
\* Accounts, tokens, links and the log of failed logins have their types.
AccountTypeOK ==
  /\ \A i \in Ids :
       \/ users[i] = NoRow
       \/ users[i] \in [state : {"active", "deleted"},
                        email : Addresses \cup {Random},
                        restoreToken : Addresses \cup {None},
                        password : Passwords \cup {Random},
                        home : Addresses]
  /\ stored \in [Ids -> 0..MaxTokens]
  /\ \A i \in Ids : stored[i] <= issued[i]
  /\ \A a \in Addresses : failLog[a].count \in 0..MaxFails

\* However sign-ups, withdrawals and restorations interleave: one row at most
\* answers to an address and one at most can be restored to it; a withdrawn
\* row can be restored to the address it was signed up with and to no other,
\* a live one has that address and nothing left to restore.
OneHolder ==
  /\ \A a \in Addresses : Cardinality(Live(a)) <= 1 /\ Cardinality(Withdrawn(a)) <= 1
  /\ \A i \in Ids : users[i] # NoRow =>
       IF IsDeleted(i)
         THEN users[i].restoreToken = users[i].home /\ users[i].email = Random
         ELSE users[i].restoreToken = None /\ users[i].email = users[i].home

\* An address is locked only after MaxFails failed logins since the last lock
\* ended, also when logins overlap; and one after the other, MaxFails failed
\* logins in a row do lock it.
LockIsEarned ==
  \A a \in Addresses :
    /\ failLog[a].lock = "on" => missed[a].sinceLock >= MaxFails
    /\ calm /\ AllFree /\ missed[a].inARow >= MaxFails => failLog[a].lock = "on"

=============================================================================
