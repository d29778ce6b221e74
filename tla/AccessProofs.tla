---------------------------- MODULE AccessProofs ----------------------------
(***************************************************************************)
(* Proofs about Access, for any users, addresses, visitors, slots and      *)
(* bounds: types are kept, an address has one holder, a lock is earned,    *)
(* and the verdicts of the guard are right when requests do not overlap.   *)
(***************************************************************************)
EXTENDS AccessInvariant, TLAPS, FiniteSetTheorems

USE DEF Then

(* Rows. *)

LEMMA RowIsUser ==
  \A a \in Addresses, p \in Passwords \cup {Random}, h \in Addresses :
    /\ Row(a, p, h) \in Users
    /\ Tombstone(a, h) \in Users
    /\ Row(a, p, h).state = "active" /\ Row(a, p, h).email = a
    /\ Row(a, p, h).restoreToken = None /\ Row(a, p, h).home = h
    /\ Tombstone(a, h).state = "deleted" /\ Tombstone(a, h).email = Random
    /\ Tombstone(a, h).restoreToken = a /\ Tombstone(a, h).home = h
BY DEF Row, Tombstone, Users, Random, None

\* No user is the row that is missing.
LEMMA UserIsThere == \A u \in Users : u # NoRow
<1> SUFFICES ASSUME NEW u \in Users PROVE u # NoRow
  OBVIOUS
<1>1. u.state \in {"active", "deleted"} /\ NoRow.state = "none"
  BY DEF Users, NoRow
<1> QED
  BY <1>1

\* A set whose elements are equal has one element at most.
LEMMA OneAtMost ==
  ASSUME NEW S, \A x, y \in S : x = y
  PROVE  Cardinality(S) <= 1
<1>1. CASE S = {}
  BY <1>1, FS_EmptySet
<1>2. CASE S # {}
  <2>1. PICK x : x \in S
    BY <1>2
  <2>2. S = {x}
    BY <2>1
  <2> QED
    BY <2>2, FS_Singleton
<1> QED
  BY <1>1, <1>2

-----------------------------------------------------------------------------
(* Tasks. *)

\* A task has what its step uses.
LEMMA Shape ==
  \A t \in Tasks :
    /\ t.op \in {"create", "repass"} => t.mail \in Addresses /\ t.password \in Passwords
    /\ t.op \in {"reset", "check", "fail"} =>
         t.mail \in Addresses /\ t.password \in Passwords /\ t.seen \in Logs
    /\ t.op \in {"clear", "erase", "revive"} => t.id \in Ids /\ t.mail \in Addresses
    /\ t.op \in {"token", "forget"} => t.id \in Ids
    /\ t.op \in Steps => /\ t.ip \in Ips /\ t.errand \in Errands
                         /\ t.cached \in Entries /\ t.saved \in Ips \cup {Missing, Unbound}
    /\ t.op = "cache" => t.value \in {"true", "false"}
<1> SUFFICES ASSUME NEW t \in Tasks
             PROVE  /\ t.op \in {"create", "repass"} => t.mail \in Addresses /\ t.password \in Passwords
                    /\ t.op \in {"reset", "check", "fail"} =>
                         t.mail \in Addresses /\ t.password \in Passwords /\ t.seen \in Logs
                    /\ t.op \in {"clear", "erase", "revive"} => t.id \in Ids /\ t.mail \in Addresses
                    /\ t.op \in {"token", "forget"} => t.id \in Ids
                    /\ t.op \in Steps =>
                         /\ t.ip \in Ips /\ t.errand \in Errands
                         /\ t.cached \in Entries /\ t.saved \in Ips \cup {Missing, Unbound}
                    /\ t.op = "cache" => t.value \in {"true", "false"}
  OBVIOUS
<1>1. CASE t = Nothing
  BY <1>1 DEF Nothing, Steps
<1>2. CASE t \in [op : {"create", "repass"}, mail : Addresses, password : Passwords]
  BY <1>2 DEF Steps
<1>3. CASE t \in [op : {"reset", "check", "fail"}, mail : Addresses, password : Passwords,
                  seen : Logs]
  BY <1>3 DEF Steps
<1>4. CASE t \in [op : {"clear", "erase", "revive"}, id : Ids, mail : Addresses]
  BY <1>4 DEF Steps
<1>5. CASE t \in [op : {"token", "forget"}, id : Ids]
  BY <1>5 DEF Steps
<1>6. CASE t \in [op : Steps, ip : Ips, errand : Errands, cached : Entries,
                  saved : Ips \cup {Missing, Unbound}]
  BY <1>6 DEF Steps
<1>7. CASE t \in [op : {"cache"}, value : {"true", "false"}]
  BY <1>7 DEF Steps
<1> QED
  BY <1>1, <1>2, <1>3, <1>4, <1>5, <1>6, <1>7 DEF Tasks

\* What the handlers put into their slots are tasks.
LEMMA NothingIsTask == Nothing \in Tasks /\ Nothing.op = "nothing"
BY DEF Tasks, Nothing

LEMMA TokenIsTask == \A i \in Ids : Token(i) \in Tasks /\ Token(i).op = "token"
BY DEF Tasks, Token

LEMMA PasswordIsTask ==
  \A op \in {"create", "repass"}, a \in Addresses, p \in Passwords :
    [op |-> op, mail |-> a, password |-> p] \in Tasks
BY DEF Tasks

LEMMA AttemptIsTask ==
  \A op \in {"reset", "check", "fail"}, a \in Addresses, p \in Passwords, l \in Logs :
    Attempt(op, a, p, l) \in Tasks
BY DEF Tasks, Attempt

LEMMA ErrandIsTask ==
  \A op \in {"clear", "erase", "revive"}, i \in Ids, a \in Addresses :
    [op |-> op, id |-> i, mail |-> a] \in Tasks
BY DEF Tasks

LEMMA ForgetIsTask == \A i \in Ids : [op |-> "forget", id |-> i] \in Tasks
BY DEF Tasks

LEMMA GuardedIsTask ==
  \A op \in Steps, ip \in Ips, e \in Errands, c \in Entries, v \in Ips \cup {Missing, Unbound} :
    Guarded(op, ip, e, c, v) \in Tasks
BY DEF Tasks, Guarded

LEMMA CacheIsTask == \A v \in {"true", "false"} : [op |-> "cache", value |-> v] \in Tasks
BY DEF Tasks

\* A handler's step changes its own slot only.
Moves(s) == \A x \in Slots : x # s => task'[x] = task[x]

LEMMA SlotsAfter ==
  ASSUME HandlersOK, NEW s \in Slots, UNCHANGED <<part, calm>>, begun' \in Nat,
         task' = [task EXCEPT ![s] = task'[s]], task'[s] \in Tasks
  PROVE  HandlersOK' /\ Moves(s)
BY DEF HandlersOK, Moves

\* A handler that moves is the only one of a calm behaviour.
LEMMA OnlyMoves ==
  ASSUME HandlersOK, CalmInv, calm, NEW s \in Slots,
         Arrives(s) \/ task[s] # Nothing
  PROVE  s = Only
BY DEF CalmInv, Alone, Arrives, Only

LEMMA OnlyIsSlot == Only \in Slots
BY RequestsAssumption DEF Only

-----------------------------------------------------------------------------
(* What a step leaves as it is. *)

LEMMA AccountKept ==
  ASSUME AccountInv, UNCHANGED <<users, stored, issued>>, NEW s \in Slots, Moves(s),
         task'[s].op \notin {"erase", "revive"}
  PROVE  AccountInv'
BY DEF AccountInv, RowsOK, HoldersOK, ErrandsOK, TokensOK, Live, Withdrawn, IsDeleted, Moves

LEMMA LogKept ==
  ASSUME LogInv, UNCHANGED <<failLog, missed>>, NEW s \in Slots, Moves(s),
         task'[s].op \notin {"reset", "check", "fail"}
  PROVE  LogInv'
BY DEF LogInv, LogsOK, ReadsOK, Moves

\* A step of the accounts is nothing to the guard, and the other way round.
LEMMA GuardKept ==
  ASSUME CalmInv, calm, UNCHANGED guardVars,
         task[Only].op \notin Steps \cup {"cache"}, task'[Only].op \notin Steps \cup {"cache"}
  PROVE  CachesAgree' /\ GuardAgrees'
BY DEF CalmInv, CachesAgree, GuardAgrees, guardVars, Steps, IsBlocked

LEMMA FailuresKept ==
  ASSUME CalmInv, calm, UNCHANGED <<failLog, missed>>,
         task[Only].op \notin {"reset", "check", "fail", "clear"},
         task'[Only].op \notin {"reset", "check", "fail", "clear"}
  PROVE  Failures'
BY DEF CalmInv, Failures, Known

LEMMA AloneKept ==
  ASSUME HandlersOK, CalmInv, calm, NEW s \in Slots, Arrives(s) \/ task[s] # Nothing, Moves(s)
  PROVE  Alone'
BY OnlyMoves DEF CalmInv, Alone, Moves

\* Nothing moves when time passes.
LEMMA OutsideKept ==
  ASSUME HandlersOK, Outside
  PROVE  HandlersOK' /\ (CalmInv /\ calm => Alone')
BY DEF HandlersOK, Outside, requestVars, CalmInv, Alone

-----------------------------------------------------------------------------
(* A step of the accounts that does not touch the log of failed logins. *)

Kept == IInv' /\ (CalmInv => CalmInv')

LoginSteps == {"reset", "check", "fail", "clear"}

LEMMA QuietStep ==
  ASSUME IInv, NEW s \in Slots,
         UNCHANGED <<part, calm>>, begun' \in Nat,
         UNCHANGED guardVars, UNCHANGED <<failLog, missed>>,
         TablesOK', Moves(s) => AccountInv',
         task' = [task EXCEPT ![s] = task'[s]], task'[s] \in Tasks,
         task'[s].op \notin Steps \cup {"cache"} \cup LoginSteps,
         Arrives(s) \/ task[s].op \notin Steps \cup {"cache", "nothing"} \cup LoginSteps
  PROVE  Kept
<1>1. HandlersOK' /\ Moves(s)
  BY SlotsAfter DEF IInv, TypesOK
<1>2. LogInv'
  BY <1>1, LogKept DEF IInv, LoginSteps
<1>3. ASSUME CalmInv PROVE CalmInv'
  <2> SUFFICES ASSUME calm PROVE Alone' /\ Failures' /\ CachesAgree' /\ GuardAgrees'
    BY DEF CalmInv
  <2>1. task[s].op \notin Steps \cup {"cache"} \cup LoginSteps
    BY NothingIsTask DEF Arrives, IsFree, Steps, LoginSteps
  <2>2. Arrives(s) \/ task[s] # Nothing
    BY NothingIsTask
  <2>3. s = Only
    BY <1>3, <2>2, OnlyMoves DEF IInv, TypesOK
  <2> QED
    BY <1>1, <1>3, <2>1, <2>2, <2>3, AloneKept, FailuresKept, GuardKept
    DEF LoginSteps, IInv, TypesOK
<1> QED
  BY <1>1, <1>2, <1>3 DEF Kept, IInv, TypesOK, GuardTypeOK, guardVars

-----------------------------------------------------------------------------
(* Tokens and sign-up. *)

LEMMA StoreTokenOK ==
  ASSUME IInv, NEW s \in Slots, StoreToken(s), UNCHANGED guardVars PROVE Kept
<1> USE DEF StoreToken, At, Ends
<1>1. task[s].op = "token" /\ task[s].id \in Ids
  BY Shape DEF IInv, TypesOK, HandlersOK
<1>2. task'[s] = Nothing /\ task' = [task EXCEPT ![s] = task'[s]] /\ begun' \in Nat
  BY DEF IInv, TypesOK, HandlersOK
<1>3. TablesOK' /\ TokensOK'
  <2>1. issued[task[s].id] + 1 \in 0..MaxTokens
    BY <1>1, AccountAssumption DEF IInv, TypesOK, TablesOK
  <2> QED
    BY <1>1, <2>1 DEF IInv, TypesOK, TablesOK, AccountInv, TokensOK
<1>4. ASSUME Moves(s) PROVE AccountInv'
  BY <1>2, <1>3, <1>4, NothingIsTask
  DEF IInv, AccountInv, RowsOK, HoldersOK, ErrandsOK, Live, Withdrawn, IsDeleted, Moves
<1> QED
  BY <1>1, <1>2, <1>3, <1>4, QuietStep, NothingIsTask DEF Steps, LoginSteps

LEMMA RefreshOK ==
  ASSUME IInv, NEW s \in Slots, Refresh(s), UNCHANGED guardVars PROVE Kept
<1> USE DEF Refresh, Arrives
<1>1. PICK i \in Ids : task' = [task EXCEPT ![s] = Token(i)]
  OBVIOUS
<1>2. task'[s] = Token(i) /\ task' = [task EXCEPT ![s] = task'[s]] /\ begun' \in Nat
  BY <1>1 DEF IInv, TypesOK, HandlersOK
<1>3. TablesOK'
  BY DEF IInv, TypesOK, TablesOK, accountVars
<1> QED
  BY <1>2, <1>3, QuietStep, AccountKept, TokenIsTask DEF Steps, LoginSteps, IInv, accountVars

LEMMA SignupReadsOK ==
  ASSUME IInv, NEW s \in Slots, SignupReads(s), UNCHANGED guardVars PROVE Kept
<1> USE DEF SignupReads, Arrives
<1>1. PICK a \in Addresses, p \in Passwords :
        task' = [task EXCEPT ![s] = [op |-> "create", mail |-> a, password |-> p]]
  OBVIOUS
<1>2. /\ task'[s] = [op |-> "create", mail |-> a, password |-> p]
      /\ task' = [task EXCEPT ![s] = task'[s]] /\ begun' \in Nat
  BY <1>1 DEF IInv, TypesOK, HandlersOK
<1>3. TablesOK'
  BY DEF IInv, TypesOK, TablesOK, accountVars
<1>4. task'[s] \in Tasks /\ task'[s].op = "create"
  BY <1>2, PasswordIsTask
<1> QED
  BY <1>2, <1>3, <1>4, QuietStep, AccountKept DEF Steps, LoginSteps, IInv, accountVars

\* A new row under an address nobody else has.
LEMMA NewRow ==
  ASSUME IInv, NEW s \in Slots, NEW i \in Ids, NEW a \in Addresses,
         NEW p \in Passwords \cup {Random},
         \A x \in Holding(i, {"erase", "revive"}) : task[x].mail = a, EmailFree(a, i),
         users' = [users EXCEPT ![i] = Row(a, p, a)], UNCHANGED <<stored, issued>>,
         Moves(s), task'[s].op \notin {"erase", "revive"}
  PROVE  AccountInv' /\ users' \in [Ids -> Users \cup {NoRow}]
<1>0. Row(a, p, a) \in Users /\ Row(a, p, a) # NoRow
  BY RowIsUser, UserIsThere
<1>1. /\ users' \in [Ids -> Users \cup {NoRow}]
      /\ users'[i] = Row(a, p, a) /\ users'[i] # NoRow
      /\ \A j \in Ids : j # i => users'[j] = users[j]
  BY <1>0 DEF IInv, TypesOK, TablesOK
<1>2. RowsOK'
  BY <1>1, RowIsUser DEF IInv, AccountInv, RowsOK, IsDeleted
<1>3. HoldersOK'
  <2>1. \A b \in Addresses, j \in Ids : j # i => (j \in Live(b)' <=> j \in Live(b))
                                              /\ (j \in Withdrawn(b)' <=> j \in Withdrawn(b))
    BY <1>1 DEF Live, Withdrawn
  <2>2. \A b \in Addresses : i \notin Withdrawn(b)' /\ (i \in Live(b)' => b = a)
    BY <1>1, RowIsUser, AccountAssumption DEF Live, Withdrawn, None
  <2>3. Live(a)' \subseteq {i}
    BY <2>1 DEF EmailFree, Live
  <2> QED
    BY <2>1, <2>2, <2>3 DEF IInv, AccountInv, HoldersOK
<1>4. ErrandsOK'
  <2> SUFFICES ASSUME NEW x \in Slots, task'[x].op \in {"erase", "revive"}
               PROVE  \/ task'[x].op = "revive" /\ users'[task'[x].id] = NoRow
                      \/ /\ users'[task'[x].id] # NoRow
                         /\ task'[x].mail = users'[task'[x].id].home
    BY DEF ErrandsOK
  <2>1. x # s /\ task'[x] = task[x]
    BY DEF Moves, IInv, TypesOK, HandlersOK
  <2>2. task[x].id \in Ids
    BY <2>1, Shape DEF IInv, TypesOK, HandlersOK
  <2>3. CASE task[x].id = i
    <3>1. task[x].mail = a
      BY <2>1, <2>3 DEF Holding
    <3>2. users'[i].home = a
      BY <1>1, RowIsUser
    <3> QED
      BY <1>1, <2>1, <2>3, <3>1, <3>2
  <2>4. CASE task[x].id # i
    BY <1>1, <2>1, <2>2, <2>4 DEF IInv, AccountInv, ErrandsOK
  <2> QED
    BY <2>3, <2>4
<1> QED
  BY <1>1, <1>2, <1>3, <1>4 DEF IInv, AccountInv, TokensOK
LEMMA SignupCreatesOK ==
  ASSUME IInv, NEW s \in Slots, SignupCreates(s), UNCHANGED guardVars PROVE Kept
<1> USE DEF SignupCreates, At, Ends
<1>1. /\ task[s].op = "create"
      /\ task[s].mail \in Addresses /\ task[s].password \in Passwords
  BY Shape DEF IInv, TypesOK, HandlersOK
<1>2. PICK i \in Ids :
        /\ Fresh(i)
        /\ IF EmailFree(task[s].mail, i)
             THEN /\ users' = [users EXCEPT ![i] = Row(task[s].mail, task[s].password,
                                                       task[s].mail)]
                  /\ task' = [task EXCEPT ![s] = Token(i)]
             ELSE task' = [task EXCEPT ![s] = Nothing] /\ UNCHANGED users
  OBVIOUS
<1>3. /\ task'[s] \in {Nothing, Token(i)}
      /\ task' = [task EXCEPT ![s] = task'[s]] /\ begun' \in Nat
  BY <1>2 DEF IInv, TypesOK, HandlersOK
<1>4. task'[s] \in Tasks /\ task'[s].op \in {"nothing", "token"}
  BY <1>3, NothingIsTask, TokenIsTask
<1>5. ASSUME Moves(s) PROVE AccountInv'
  <2>1. CASE EmailFree(task[s].mail, i)
    <3>1. \A x \in Holding(i, {"erase", "revive"}) : task[x].mail = task[s].mail
      BY <1>2 DEF Fresh, Holding
    <3> QED
      BY <1>1, <1>2, <1>4, <1>5, <2>1, <3>1, NewRow
  <2>2. CASE ~EmailFree(task[s].mail, i)
    BY <1>2, <1>4, <1>5, <2>2, AccountKept DEF IInv
  <2> QED
    BY <2>1, <2>2
<1>6. TablesOK'
  <2>1. users' \in [Ids -> Users \cup {NoRow}]
    BY <1>1, <1>2, RowIsUser DEF IInv, TypesOK, TablesOK
  <2> QED
    BY <2>1 DEF IInv, TypesOK, TablesOK
<1> QED
  BY <1>1, <1>3, <1>4, <1>5, <1>6, QuietStep DEF Steps, LoginSteps

-----------------------------------------------------------------------------
(* Links and new passwords. *)

\* A request that mails a link, or only reads what its next step needs.
LEMMA ReadsKept ==
  ASSUME IInv, NEW s \in Slots, Arrives(s),
         UNCHANGED <<users, stored, issued, failLog, missed>>, UNCHANGED guardVars,
         task' = [task EXCEPT ![s] = task'[s]], task'[s] \in Tasks,
         task'[s].op \in {"nothing", "token", "create", "repass", "forget"}
  PROVE  Kept
<1>1. TablesOK' /\ begun' \in Nat
  BY DEF IInv, TypesOK, TablesOK, HandlersOK, Arrives
<1> QED
  BY <1>1, QuietStep, AccountKept DEF Arrives, IInv, Steps, LoginSteps

LEMMA MailOK ==
  ASSUME IInv, NEW s \in Slots, UNCHANGED guardVars,
         SendVerificationEmail(s) \/ SendPasswordResetLink(s) \/ SendWithdrawalLink(s)
  PROVE  Kept
<1>1. Arrives(s) /\ UNCHANGED task /\ UNCHANGED <<users, stored, issued, failLog, missed>>
  BY DEF SendVerificationEmail, SendPasswordResetLink, SendWithdrawalLink, Mail
<1>2. task'[s] = Nothing /\ task' = [task EXCEPT ![s] = task'[s]]
  BY <1>1 DEF Arrives, IsFree, IInv, TypesOK, HandlersOK
<1> QED
  BY <1>1, <1>2, ReadsKept, NothingIsTask

LEMMA ResetReadsOK ==
  ASSUME IInv, NEW s \in Slots, ResetReads(s), UNCHANGED guardVars PROVE Kept
<1> USE DEF ResetReads
<1>1. PICK a \in Addresses, p \in Passwords :
        task' = [task EXCEPT ![s] = [op |-> "repass", mail |-> a, password |-> p]]
  OBVIOUS
<1>2. /\ task'[s] = [op |-> "repass", mail |-> a, password |-> p]
      /\ task' = [task EXCEPT ![s] = task'[s]]
  BY <1>1 DEF IInv, TypesOK, HandlersOK
<1>3. task'[s] \in Tasks /\ task'[s].op = "repass"
  BY <1>2, PasswordIsTask
<1> QED
  BY <1>2, <1>3, ReadsKept DEF accountVars

LEMMA ResetWritesOK ==
  ASSUME IInv, NEW s \in Slots, ResetWrites(s), UNCHANGED guardVars PROVE Kept
<1> USE DEF ResetWrites, At, Ends
<1>1. /\ task[s].op = "repass"
      /\ task[s].mail \in Addresses /\ task[s].password \in Passwords
  BY Shape DEF IInv, TypesOK, HandlersOK
<1>2. task'[s] = Nothing /\ task' = [task EXCEPT ![s] = task'[s]] /\ begun' \in Nat
  BY DEF IInv, TypesOK, HandlersOK
<1>3. \A i \in Ids : IF users[i] = NoRow
                       THEN users'[i] = NoRow
                       ELSE /\ users'[i] \in Users /\ users'[i] # NoRow
                            /\ users'[i].state = users[i].state
                            /\ users'[i].email = users[i].email
                            /\ users'[i].restoreToken = users[i].restoreToken
                            /\ users'[i].home = users[i].home
  <2> SUFFICES ASSUME NEW i \in Ids, users[i] # NoRow
               PROVE  /\ users'[i] \in Users
                      /\ users'[i].state = users[i].state
                      /\ users'[i].email = users[i].email
                      /\ users'[i].restoreToken = users[i].restoreToken
                      /\ users'[i].home = users[i].home
    BY UserIsThere DEF Live
  <2>1. users[i] \in Users
    BY DEF IInv, TypesOK, TablesOK
  <2>2. users'[i] \in {users[i], [users[i] EXCEPT !.password = task[s].password]}
    OBVIOUS
  <2> QED
    BY <1>1, <2>1, <2>2 DEF Users
<1>4. TablesOK'
  <2>1. users' \in [Ids -> Users \cup {NoRow}]
    BY <1>3
  <2> QED
    BY <2>1 DEF IInv, TypesOK, TablesOK
<1>5. ASSUME Moves(s) PROVE AccountInv'
  <2>1. RowsOK' /\ HoldersOK'
    BY <1>3 DEF IInv, AccountInv, RowsOK, HoldersOK, Live, Withdrawn, IsDeleted
  <2>2. ErrandsOK'
    <3> SUFFICES ASSUME NEW x \in Slots, task'[x].op \in {"erase", "revive"}
                 PROVE  \/ task'[x].op = "revive" /\ users'[task'[x].id] = NoRow
                        \/ /\ users'[task'[x].id] # NoRow
                           /\ task'[x].mail = users'[task'[x].id].home
      BY DEF ErrandsOK
    <3>1. x # s /\ task'[x] = task[x]
      BY <1>2, <1>5, NothingIsTask DEF Moves
    <3>2. task[x].id \in Ids
      BY <3>1, Shape DEF IInv, TypesOK, HandlersOK
    <3>3. PICK i \in Ids : i = task[x].id
      BY <3>2
    <3>4. \/ task[x].op = "revive" /\ users[i] = NoRow
          \/ users[i] # NoRow /\ task[x].mail = users[i].home
      BY <3>1, <3>3 DEF IInv, AccountInv, ErrandsOK
    <3>5. IF users[i] = NoRow THEN users'[i] = NoRow
                              ELSE users'[i] # NoRow /\ users'[i].home = users[i].home
      BY <1>3
    <3> QED
      BY <3>1, <3>3, <3>4, <3>5
  <2> QED
    BY <2>1, <2>2 DEF IInv, AccountInv, TokensOK
<1> QED
  BY <1>1, <1>2, <1>4, <1>5, QuietStep, NothingIsTask DEF Steps, LoginSteps

-----------------------------------------------------------------------------
(* Withdrawal and restoration. *)

LEMMA WithdrawReadsOK ==
  ASSUME IInv, NEW s \in Slots, WithdrawReads(s), UNCHANGED guardVars PROVE Kept
<1> USE DEF WithdrawReads, Arrives
<1>1. PICK i \in Ids :
        /\ users[i] # NoRow /\ ~IsDeleted(i)
        /\ task' = [task EXCEPT ![s] = [op |-> "erase", id |-> i, mail |-> users[i].email]]
  OBVIOUS
<1>2. users[i].email = users[i].home /\ users[i].home \in Addresses
  BY <1>1 DEF IInv, AccountInv, RowsOK, TypesOK, TablesOK, Users
<1>3. /\ task'[s] = [op |-> "erase", id |-> i, mail |-> users[i].home]
      /\ task' = [task EXCEPT ![s] = task'[s]] /\ begun' \in Nat
  BY <1>1, <1>2 DEF IInv, TypesOK, HandlersOK
<1>4. task'[s] \in Tasks /\ task'[s].op = "erase"
  BY <1>2, <1>3, ErrandIsTask
<1>5. ASSUME Moves(s) PROVE AccountInv'
  BY <1>1, <1>3, <1>5
  DEF IInv, AccountInv, RowsOK, HoldersOK, ErrandsOK, TokensOK, Live, Withdrawn, IsDeleted,
      Moves, accountVars
<1>6. TablesOK'
  BY DEF IInv, TypesOK, TablesOK, accountVars
<1> QED
  BY <1>3, <1>4, <1>5, <1>6, QuietStep DEF Steps, LoginSteps, accountVars

LEMMA WithdrawErasesOK ==
  ASSUME IInv, NEW s \in Slots, WithdrawErases(s), UNCHANGED guardVars PROVE Kept
<1> USE DEF WithdrawErases, At, Ends
<1>1. PICK i \in Ids, a \in Addresses :
        /\ task[s].op = "erase" /\ i = task[s].id /\ a = task[s].mail
        /\ users[i] # NoRow /\ users[i].home = a
  BY Shape DEF IInv, TypesOK, HandlersOK, AccountInv, ErrandsOK
<1>2. CASE ~RestoreTokenFree(a, i)
  <2>1. /\ task'[s] = Nothing /\ task' = [task EXCEPT ![s] = task'[s]] /\ begun' \in Nat
        /\ UNCHANGED users
    BY <1>1, <1>2 DEF IInv, TypesOK, HandlersOK
  <2>2. TablesOK'
    BY <2>1 DEF IInv, TypesOK, TablesOK
  <2> QED
    BY <1>1, <2>1, <2>2, QuietStep, AccountKept, NothingIsTask DEF Steps, LoginSteps, IInv
<1>3. CASE RestoreTokenFree(a, i)
  <2>1. /\ task'[s] = [op |-> "forget", id |-> i]
        /\ task' = [task EXCEPT ![s] = task'[s]] /\ begun' \in Nat
        /\ users' = [users EXCEPT ![i] = Tombstone(a, a)]
    BY <1>1, <1>3 DEF IInv, TypesOK, HandlersOK, TablesOK
  <2>2. task'[s] \in Tasks /\ task'[s].op = "forget"
    BY <2>1, ForgetIsTask
  <2>3. PICK p : p \in Passwords \cup {Random}
    OBVIOUS
  <2>4. /\ Tombstone(a, a) \in Users /\ Tombstone(a, a) # NoRow
        /\ Tombstone(a, a).state = "deleted" /\ Tombstone(a, a).email = Random
        /\ Tombstone(a, a).restoreToken = a /\ Tombstone(a, a).home = a
    BY <2>3, RowIsUser, UserIsThere
  <2>5. /\ users' \in [Ids -> Users \cup {NoRow}]
        /\ users'[i] = Tombstone(a, a) /\ users'[i] # NoRow
        /\ \A j \in Ids : j # i => users'[j] = users[j]
    BY <2>1, <2>4 DEF IInv, TypesOK, TablesOK
  <2>6. TablesOK'
    BY <2>5 DEF IInv, TypesOK, TablesOK
  <2>7. RowsOK'
    BY <2>4, <2>5 DEF IInv, AccountInv, RowsOK, IsDeleted
  <2>8. HoldersOK'
    <3>1. \A b \in Addresses, j \in Ids :
            j # i => (j \in Live(b)' <=> j \in Live(b)) /\ (j \in Withdrawn(b)' <=> j \in Withdrawn(b))
      BY <2>5 DEF Live, Withdrawn
    <3>2. \A b \in Addresses : i \notin Live(b)' /\ (i \in Withdrawn(b)' => b = a)
      BY <2>4, <2>5, AccountAssumption DEF Live, Withdrawn, Random
    <3>3. Withdrawn(a)' \subseteq {i}
      BY <1>3, <3>1 DEF RestoreTokenFree, Withdrawn
    <3> QED
      BY <3>1, <3>2, <3>3 DEF IInv, AccountInv, HoldersOK
  <2>9. ASSUME Moves(s) PROVE ErrandsOK'
    <3> SUFFICES ASSUME NEW x \in Slots, task'[x].op \in {"erase", "revive"}
                 PROVE  \/ task'[x].op = "revive" /\ users'[task'[x].id] = NoRow
                        \/ /\ users'[task'[x].id] # NoRow
                           /\ task'[x].mail = users'[task'[x].id].home
      BY DEF ErrandsOK
    <3>1. x # s /\ task'[x] = task[x]
      BY <2>2, <2>9 DEF Moves
    <3>2. task[x].id \in Ids
      BY <3>1, Shape DEF IInv, TypesOK, HandlersOK
    <3> QED
      BY <1>1, <2>4, <2>5, <3>1, <3>2 DEF IInv, AccountInv, ErrandsOK
  <2>10. TokensOK'
    BY DEF IInv, AccountInv, TokensOK
  <2> QED
    BY <1>1, <2>1, <2>2, <2>6, <2>7, <2>8, <2>9, <2>10, QuietStep
    DEF Steps, LoginSteps, AccountInv
<1> QED
  BY <1>2, <1>3

LEMMA WithdrawForgetsOK ==
  ASSUME IInv, NEW s \in Slots, WithdrawForgets(s), UNCHANGED guardVars PROVE Kept
<1> USE DEF WithdrawForgets, At, Ends, Dropped
<1>1. task[s].op = "forget" /\ task[s].id \in Ids
  BY Shape DEF IInv, TypesOK, HandlersOK
<1>2. task'[s] = Nothing /\ task' = [task EXCEPT ![s] = task'[s]] /\ begun' \in Nat
  BY DEF IInv, TypesOK, HandlersOK
<1>3. TablesOK' /\ TokensOK'
  BY <1>1, AccountAssumption DEF IInv, TypesOK, TablesOK, AccountInv, TokensOK
<1>4. ASSUME Moves(s) PROVE AccountInv'
  BY <1>2, <1>3, <1>4, NothingIsTask
  DEF IInv, AccountInv, RowsOK, HoldersOK, ErrandsOK, Live, Withdrawn, IsDeleted, Moves
<1> QED
  BY <1>1, <1>2, <1>3, <1>4, QuietStep, NothingIsTask DEF Steps, LoginSteps

LEMMA RestoreReadsOK ==
  ASSUME IInv, NEW s \in Slots, RestoreReads(s), UNCHANGED guardVars PROVE Kept
<1> USE DEF RestoreReads, Arrives
<1>1. PICK a \in Addresses, i \in Ids :
        /\ i \in Withdrawn(a) /\ IsDeleted(i)
        /\ task' = [task EXCEPT ![s] = [op |-> "revive", id |-> i, mail |-> a]]
  BY DEF Withdrawn
<1>2. i \in Ids /\ users[i] # NoRow /\ users[i].home = a
  BY <1>1 DEF IInv, AccountInv, RowsOK, Withdrawn, IsDeleted
<1>3. /\ task'[s] = [op |-> "revive", id |-> i, mail |-> a]
      /\ task' = [task EXCEPT ![s] = task'[s]] /\ begun' \in Nat
  BY <1>1 DEF IInv, TypesOK, HandlersOK
<1>4. task'[s] \in Tasks /\ task'[s].op = "revive"
  BY <1>2, <1>3, ErrandIsTask
<1>5. ASSUME Moves(s) PROVE AccountInv'
  BY <1>1, <1>2, <1>3, <1>5
  DEF IInv, AccountInv, RowsOK, HoldersOK, ErrandsOK, TokensOK, Live, Withdrawn, IsDeleted,
      Moves, accountVars
<1>6. TablesOK'
  BY DEF IInv, TypesOK, TablesOK, accountVars
<1> QED
  BY <1>3, <1>4, <1>5, <1>6, QuietStep DEF Steps, LoginSteps, accountVars

LEMMA RestoreRevivesOK ==
  ASSUME IInv, NEW s \in Slots, RestoreRevives(s), UNCHANGED guardVars PROVE Kept
<1> USE DEF RestoreRevives, At, Ends
<1>1. PICK i \in Ids, a \in Addresses :
        /\ task[s].op = "revive" /\ i = task[s].id /\ a = task[s].mail
        /\ users[i] # NoRow => users[i].home = a
  BY Shape DEF IInv, TypesOK, HandlersOK, AccountInv, ErrandsOK
<1>2. task'[s] = Nothing /\ task' = [task EXCEPT ![s] = task'[s]] /\ begun' \in Nat
  BY DEF IInv, TypesOK, HandlersOK
<1>3. CASE ~(users[i] # NoRow /\ EmailFree(a, i))
  <2>1. TablesOK' /\ UNCHANGED users
    BY <1>1, <1>3 DEF IInv, TypesOK, TablesOK
  <2> QED
    BY <1>1, <1>2, <2>1, QuietStep, AccountKept, NothingIsTask DEF Steps, LoginSteps, IInv
<1>4. CASE users[i] # NoRow /\ EmailFree(a, i)
  <2>1. PICK p \in Passwords \cup {Random} : p = users[i].password
    BY <1>1, <1>4 DEF IInv, TypesOK, TablesOK, Users
  <2>2. users' = [users EXCEPT ![i] = Row(a, p, a)]
    BY <1>1, <1>4, <2>1
  <2>3. TablesOK'
    <3>1. Row(a, p, a) \in Users
      BY RowIsUser
    <3>2. users' \in [Ids -> Users \cup {NoRow}]
      BY <2>2, <3>1 DEF IInv, TypesOK, TablesOK
    <3> QED
      BY <3>2 DEF IInv, TypesOK, TablesOK
  <2>4. ASSUME Moves(s) PROVE AccountInv'
    <3>1. \A x \in Holding(i, {"erase", "revive"}) : task[x].mail = a
      BY <1>1, <1>4 DEF IInv, AccountInv, ErrandsOK, Holding
    <3> QED
      BY <1>1, <1>2, <1>4, <2>2, <2>4, <3>1, NewRow, NothingIsTask
  <2> QED
    BY <1>1, <1>2, <2>3, <2>4, QuietStep, NothingIsTask DEF Steps, LoginSteps
<1> QED
  BY <1>3, <1>4

-----------------------------------------------------------------------------
(* Time passes for the accounts. *)

\* What needs no handler and touches neither the log nor the guard.
LEMMA TimeKept ==
  ASSUME IInv, Outside, UNCHANGED guardVars, UNCHANGED <<failLog, missed>>,
         TablesOK', AccountInv'
  PROVE  Kept
<1>1. HandlersOK' /\ LogInv'
  BY OutsideKept DEF IInv, TypesOK, LogInv, LogsOK, ReadsOK, Outside, requestVars
<1>2. ASSUME CalmInv PROVE CalmInv'
  BY <1>2
  DEF CalmInv, Alone, Failures, Known, CachesAgree, GuardAgrees, guardVars, IsBlocked,
      Outside, requestVars
<1> QED
  BY <1>1, <1>2 DEF Kept, IInv, TypesOK, GuardTypeOK, guardVars

LEMMA LinkExpiresOK ==
  ASSUME IInv, LinkExpires, UNCHANGED guardVars PROVE Kept
<1>1. TablesOK' /\ AccountInv'
  BY DEF LinkExpires, Outside, requestVars, IInv, TypesOK, TablesOK, AccountInv, RowsOK, HoldersOK, ErrandsOK,
         TokensOK, Live, Withdrawn, IsDeleted
<1> QED
  BY <1>1, TimeKept DEF LinkExpires

LEMMA TokenExpiresOK ==
  ASSUME IInv, TokenExpires, UNCHANGED guardVars PROVE Kept
<1> USE DEF TokenExpires
<1>1. PICK i \in Ids : stored' = [stored EXCEPT ![i] = 0]
  OBVIOUS
<1>2. TablesOK' /\ TokensOK'
  BY <1>1, AccountAssumption DEF IInv, TypesOK, TablesOK, AccountInv, TokensOK
<1>3. AccountInv'
  BY <1>2 DEF Outside, requestVars, IInv, AccountInv, RowsOK, HoldersOK, ErrandsOK,
              Live, Withdrawn, IsDeleted
<1> QED
  BY <1>2, <1>3, TimeKept

LEMMA HandleCronOK ==
  ASSUME IInv, HandleCron, UNCHANGED guardVars PROVE Kept
<1> USE DEF HandleCron
<1>1. PICK old \in SUBSET {i \in Ids : IsDeleted(i) /\ ~JustLeft(i)} :
        users' = [i \in Ids |-> IF i \in old THEN NoRow ELSE users[i]]
  OBVIOUS
<1>2. \A i \in Ids : users'[i] = IF i \in old THEN NoRow ELSE users[i]
  BY <1>1
<1>3. TablesOK' /\ TokensOK'
  <2>1. users' \in [Ids -> Users \cup {NoRow}]
    BY <1>1 DEF IInv, TypesOK, TablesOK
  <2> QED
    BY <2>1 DEF IInv, TypesOK, TablesOK, AccountInv, TokensOK
<1>4. RowsOK' /\ HoldersOK'
  BY <1>2 DEF IInv, AccountInv, RowsOK, HoldersOK, Live, Withdrawn, IsDeleted
<1>5. ErrandsOK'
  <2> SUFFICES ASSUME NEW s \in Slots, task[s].op \in {"erase", "revive"}
               PROVE  \/ task[s].op = "revive" /\ users'[task[s].id] = NoRow
                      \/ /\ users'[task[s].id] # NoRow
                         /\ task[s].mail = users'[task[s].id].home
    BY DEF ErrandsOK, Outside, requestVars
  <2>1. task[s].id \in Ids
    BY Shape DEF IInv, TypesOK, HandlersOK
  <2>2. task[s].op = "erase" => task[s].id \notin old
    BY <1>1, <2>1 DEF JustLeft, Holding
  <2> QED
    BY <1>2, <2>1, <2>2 DEF IInv, AccountInv, ErrandsOK
<1> QED
  BY <1>3, <1>4, <1>5, TimeKept DEF AccountInv

-----------------------------------------------------------------------------
(* Logins. *)

LogTypes == failLog \in [Addresses -> Logs] /\ missed \in [Addresses -> [sinceLock : Nat, inARow : Nat]]

LEMMA LoginKept ==
  ASSUME IInv, NEW s \in Slots,
         UNCHANGED <<part, calm>>, begun' \in Nat,
         UNCHANGED guardVars, UNCHANGED <<users, stored, issued>>,
         LogTypes', Moves(s) => LogInv',
         task' = [task EXCEPT ![s] = task'[s]], task'[s] \in Tasks,
         task'[s].op \in LoginSteps \cup {"nothing", "token"},
         Arrives(s) \/ task[s].op \in LoginSteps,
         CalmInv /\ calm /\ s = Only => Failures'
  PROVE  Kept
<1>1. HandlersOK' /\ Moves(s)
  BY SlotsAfter DEF IInv, TypesOK
<1>2. AccountInv'
  BY <1>1, AccountKept DEF IInv, LoginSteps
<1>3. ASSUME CalmInv PROVE CalmInv'
  <2> SUFFICES ASSUME calm PROVE Alone' /\ Failures' /\ CachesAgree' /\ GuardAgrees'
    BY DEF CalmInv
  <2>1. task[s].op \notin Steps \cup {"cache"}
    BY NothingIsTask DEF Arrives, IsFree, Steps, LoginSteps
  <2>2. Arrives(s) \/ task[s] # Nothing
    BY NothingIsTask DEF LoginSteps
  <2>3. s = Only
    BY <1>3, <2>2, OnlyMoves DEF IInv, TypesOK
  <2>4. task'[Only].op \notin Steps \cup {"cache"}
    BY <2>3 DEF Steps, LoginSteps
  <2> QED
    BY <1>1, <1>3, <2>1, <2>2, <2>3, <2>4, AloneKept, GuardKept DEF IInv, TypesOK
<1>4. TablesOK'
  BY DEF IInv, TypesOK, TablesOK, LogTypes
<1> QED
  BY <1>1, <1>2, <1>3, <1>4 DEF Kept, IInv, TypesOK, GuardTypeOK, guardVars

\* Entries of the log.
LEMMA LogEntries ==
  /\ NoLog \in Logs /\ NoLog.lock = "absent" /\ NoLog.count = 0
  /\ \A n \in 0..MaxFails : Counted(n) \in Logs /\ Counted(n).count = n /\ Counted(n).lock = "off"
  /\ \A n \in 0..MaxFails :
       /\ Locked(n) \in Logs /\ Locked(n).count = n
       /\ Locked(n).lock = (IF n >= MaxFails THEN "on" ELSE "off")
BY AccountAssumption DEF NoLog, Counted, Locked, Logs

LEMMA LoginReadsOK ==
  ASSUME IInv, NEW s \in Slots, LoginReads(s), UNCHANGED guardVars PROVE Kept
<1> USE DEF LoginReads
<1>1. PICK a \in Addresses, p \in Passwords, op \in {"reset", "check"} :
        /\ failLog[a].lock # "on"
        /\ op = IF failLog[a].lock = "past" THEN "reset" ELSE "check"
        /\ task' = [task EXCEPT ![s] = Attempt(op, a, p, failLog[a])]
  OBVIOUS
<1>2. failLog[a] \in Logs /\ LogTypes' /\ begun' \in Nat
  BY DEF IInv, TypesOK, TablesOK, LogTypes, accountVars, HandlersOK, Arrives
<1>3. /\ task'[s] = Attempt(op, a, p, failLog[a])
      /\ task' = [task EXCEPT ![s] = task'[s]]
  BY <1>1 DEF IInv, TypesOK, HandlersOK
<1>4. /\ task'[s] \in Tasks /\ task'[s].op = op
      /\ task'[s].mail = a /\ task'[s].seen = failLog[a]
  BY <1>2, <1>3, AttemptIsTask DEF Attempt
<1>5. ASSUME Moves(s) PROVE LogInv'
  <2>1. LogsOK'
    BY DEF IInv, LogInv, LogsOK, accountVars
  <2>2. op = "check" =>
          /\ failLog[a].lock \in {"absent", "off"}
          /\ failLog[a].lock = "absent" => failLog[a] = NoLog
          /\ failLog[a].count < MaxFails
          /\ failLog[a].count <= missed[a].sinceLock
    BY <1>1, <1>2, LogEntries, AccountAssumption
    DEF Logs, IInv, LogInv, LogsOK, TypesOK, TablesOK
  <2>3. op = "check" => failLog[a].count + 0 <= missed[a].sinceLock
    BY <1>2, <2>2 DEF Logs, IInv, TypesOK, TablesOK
  <2>4. UNCHANGED missed
    BY DEF accountVars
  <2>5. ReadsOK'
    BY <1>1, <1>4, <1>5, <2>2, <2>3, <2>4 DEF ReadsOK, IInv, LogInv, Moves
  <2> QED
    BY <2>1, <2>5 DEF LogInv
<1>6. ASSUME CalmInv, calm, s = Only PROVE Failures'
  <2>1. \A b \in Addresses : missed[b].inARow = Known(b)
    BY <1>6, NothingIsTask DEF CalmInv, Failures, Arrives, IsFree
  <2>2. missed[a].inARow \in Nat /\ missed[a].inARow + 0 = missed[a].inARow
    BY DEF IInv, TypesOK, TablesOK
  <2> QED
    BY <1>1, <1>4, <1>6, <2>1, <2>2 DEF Failures, Known, accountVars
<1> QED
  BY <1>2, <1>3, <1>4, <1>5, <1>6, LoginKept DEF LoginSteps, accountVars, Arrives

LEMMA LoginResetsOK ==
  ASSUME IInv, NEW s \in Slots, LoginResets(s), UNCHANGED guardVars PROVE Kept
<1> USE DEF LoginResets, At, Ends, AfterLock
<1>1. PICK a \in Addresses, p \in Passwords :
        task[s].op = "reset" /\ a = task[s].mail /\ p = task[s].password
  BY Shape DEF IInv, TypesOK, HandlersOK
<1>2. 0 \in 0..MaxFails
  BY AccountAssumption
<1>3. CASE failLog[a] = NoLog
  <2>1. /\ task'[s] = Nothing /\ task' = [task EXCEPT ![s] = task'[s]] /\ begun' \in Nat
        /\ UNCHANGED <<failLog, missed>> /\ LogTypes'
    BY <1>1, <1>3 DEF IInv, TypesOK, HandlersOK, TablesOK, LogTypes
  <2>2. ASSUME CalmInv, calm, s = Only PROVE Failures'
    BY <1>1, <1>3, <2>1, <2>2, NothingIsTask, LogEntries
    DEF CalmInv, Failures, Known, IInv, TypesOK, TablesOK
  <2> QED
    BY <1>1, <2>1, <2>2, LoginKept, LogKept, NothingIsTask DEF LoginSteps, IInv
<1>4. CASE failLog[a] # NoLog
  <2>1. /\ task'[s] = Attempt("check", a, p, Counted(0))
        /\ task' = [task EXCEPT ![s] = task'[s]] /\ begun' \in Nat
        /\ failLog' = [failLog EXCEPT ![a] = Counted(0)] /\ UNCHANGED missed
    BY <1>1, <1>4 DEF IInv, TypesOK, HandlersOK
  <2>2. /\ Counted(0) \in Logs /\ Counted(0).count = 0 /\ Counted(0).lock = "off"
    BY <1>2, LogEntries
  <2>3. /\ task'[s] \in Tasks /\ task'[s].op = "check"
        /\ task'[s].mail = a /\ task'[s].seen = Counted(0)
    BY <2>1, <2>2, AttemptIsTask DEF Attempt
  <2>4. LogTypes' /\ missed[a].sinceLock \in Nat /\ missed[a].inARow \in Nat
    BY <2>1, <2>2 DEF IInv, TypesOK, TablesOK, LogTypes
  <2>5. failLog'[a] = Counted(0) /\ \A b \in Addresses : b # a => failLog'[b] = failLog[b]
    BY <2>1 DEF IInv, TypesOK, TablesOK
  <2>6. 0 < MaxFails /\ 0 + 0 = 0 /\ 0 <= missed[a].sinceLock
    BY <2>4, AccountAssumption
  <2>7. ASSUME Moves(s) PROVE LogInv'
    <3>1. LogsOK'
      BY <2>1, <2>2, <2>5, <2>6 DEF IInv, LogInv, LogsOK
    <3>2. ReadsOK'
      BY <2>1, <2>2, <2>3, <2>6, <2>7 DEF IInv, LogInv, ReadsOK, Moves
    <3> QED
      BY <3>1, <3>2 DEF LogInv
  <2>8. ASSUME CalmInv, calm, s = Only PROVE Failures'
    <3>1. /\ failLog[a].lock = "past"
          /\ missed[a].inARow = Known(a) + 0
      BY <1>1, <2>8, OnlyIsSlot DEF CalmInv, Failures, IInv, LogInv, ReadsOK
    <3>2. missed[a].inARow = 0
      BY <3>1 DEF Known
    <3> QED
      BY <1>1, <2>1, <2>2, <2>3, <2>5, <2>6, <2>8, <3>2 DEF CalmInv, Failures, Known
  <2> QED
    BY <1>1, <2>1, <2>3, <2>4, <2>7, <2>8, LoginKept DEF LoginSteps
<1> QED
  BY <1>3, <1>4

LEMMA LoginChecksOK ==
  ASSUME IInv, NEW s \in Slots, LoginChecks(s), UNCHANGED guardVars PROVE Kept
<1> USE DEF LoginChecks, At
<1>1. PICK a \in Addresses, p \in Passwords, l \in Logs :
        task[s].op = "check" /\ a = task[s].mail /\ p = task[s].password /\ l = task[s].seen
  BY Shape DEF IInv, TypesOK, HandlersOK
<1>2. /\ l.lock \in {"absent", "off"} /\ (l.lock = "absent" => l = NoLog)
      /\ l.count < MaxFails /\ l.count + 0 <= missed[a].sinceLock
  BY <1>1 DEF IInv, LogInv, ReadsOK
<1>3. missed[a].sinceLock \in Nat /\ missed[a].inARow \in Nat /\ l.count \in Nat /\ begun' \in Nat
  BY DEF IInv, TypesOK, TablesOK, HandlersOK, Logs
<1>4. CASE \E i \in Live(a) : users[i].password = p
  <2>1. PICK i \in Ids :
          task' = [task EXCEPT ![s] = IF l = NoLog
                                        THEN Token(i)
                                        ELSE [op |-> "clear", id |-> i, mail |-> a]]
    BY <1>1, <1>4 DEF Live
  <2>2. /\ task'[s] = (IF l = NoLog THEN Token(i) ELSE [op |-> "clear", id |-> i, mail |-> a])
        /\ task' = [task EXCEPT ![s] = task'[s]]
    BY <2>1 DEF IInv, TypesOK, HandlersOK
  <2>3. /\ task'[s] \in Tasks
        /\ IF l = NoLog THEN task'[s].op = "token"
                        ELSE task'[s].op = "clear" /\ task'[s].mail = a
    BY <2>2, TokenIsTask, ErrandIsTask
  <2>4. missed' = [missed EXCEPT ![a] = Missed(missed[a].sinceLock, 0)] /\ UNCHANGED failLog
    BY <1>1, <1>4 DEF Forgotten, IInv, TypesOK, TablesOK
  <2>5. /\ missed'[a].sinceLock = missed[a].sinceLock /\ missed'[a].inARow = 0
        /\ \A b \in Addresses : b # a => missed'[b] = missed[b]
    BY <2>4 DEF Missed, IInv, TypesOK, TablesOK
  <2>6. LogTypes'
    BY <1>3, <2>4 DEF Missed, LogTypes, IInv, TypesOK, TablesOK
  <2>7. ASSUME Moves(s) PROVE LogInv'
    <3>1. LogsOK'
      BY <2>4, <2>5 DEF IInv, LogInv, LogsOK
    <3>2. \A b \in Addresses : missed'[b].sinceLock = missed[b].sinceLock
      BY <2>5
    <3>3. ReadsOK'
      <4> SUFFICES ASSUME NEW x \in Slots, x # s, task'[x].op \in {"reset", "check", "fail"}
                   PROVE  /\ task'[x].op = "reset" => task'[x].seen.lock = "past"
                          /\ task'[x].op \in {"check", "fail"} =>
                               /\ task'[x].seen.lock \in {"absent", "off"}
                               /\ task'[x].seen.lock = "absent" => task'[x].seen = NoLog
                               /\ task'[x].seen.count < MaxFails
                               /\ task'[x].seen.count + (IF task'[x].op = "fail" THEN 1 ELSE 0)
                                    <= missed'[task'[x].mail].sinceLock
        BY <2>3 DEF ReadsOK
      <4>1. task'[x] = task[x] /\ task[x].mail \in Addresses
        BY <2>7, Shape DEF Moves, IInv, TypesOK, HandlersOK
      <4> QED
        BY <3>2, <4>1 DEF IInv, LogInv, ReadsOK
    <3> QED
      BY <3>1, <3>3 DEF LogInv
  <2>8. ASSUME CalmInv, calm, s = Only PROVE Failures'
    <3>1. failLog[a] = l /\ \A b \in Addresses : b # a => missed[b].inARow = Known(b)
      BY <1>1, <2>8 DEF CalmInv, Failures
    <3>2. l = NoLog => Known(a) = 0
      BY <3>1, LogEntries DEF Known
    <3> QED
      BY <2>3, <2>4, <2>5, <2>8, <3>1, <3>2 DEF Failures, Known
  <2> QED
    BY <1>1, <1>3, <2>2, <2>3, <2>4, <2>6, <2>7, <2>8, LoginKept DEF LoginSteps
<1>5. CASE ~\E i \in Live(a) : users[i].password = p
  <2>1. /\ task' = [task EXCEPT ![s] = Attempt("fail", a, p, l)]
        /\ missed' = [missed EXCEPT ![a] = Missed(missed[a].sinceLock + 1, missed[a].inARow + 1)]
        /\ UNCHANGED failLog
    BY <1>1, <1>5 DEF OneMore, IInv, TypesOK, TablesOK
  <2>2. task'[s] = Attempt("fail", a, p, l) /\ task' = [task EXCEPT ![s] = task'[s]]
    BY <2>1 DEF IInv, TypesOK, HandlersOK
  <2>3. /\ task'[s] \in Tasks /\ task'[s].op = "fail"
        /\ task'[s].mail = a /\ task'[s].seen = l
    BY <2>2, AttemptIsTask DEF Attempt
  <2>4. /\ missed'[a].sinceLock = missed[a].sinceLock + 1
        /\ missed'[a].inARow = missed[a].inARow + 1
        /\ \A b \in Addresses : b # a => missed'[b] = missed[b]
    BY <2>1 DEF Missed, IInv, TypesOK, TablesOK
  <2>5. LogTypes'
    BY <1>3, <2>1 DEF Missed, LogTypes, IInv, TypesOK, TablesOK
  <2>6. \A b \in Addresses : \A n \in Nat :
          n <= missed[b].sinceLock => n <= missed'[b].sinceLock
    <3>1. \A b \in Addresses : /\ missed[b].sinceLock \in Nat
                               /\ missed'[b].sinceLock \in {missed[b].sinceLock,
                                                            missed[b].sinceLock + 1}
      BY <2>4 DEF IInv, TypesOK, TablesOK
    <3> QED
      BY <3>1
  <2>7. ASSUME Moves(s) PROVE LogInv'
    <3>1. LogsOK'
      <4> SUFFICES ASSUME NEW b \in Addresses
                   PROVE  /\ failLog'[b].lock = "absent" => failLog'[b] = NoLog
                          /\ failLog'[b].lock = "off" => failLog'[b].count < MaxFails
                                                        /\ failLog'[b].count <= missed'[b].sinceLock
                          /\ failLog'[b].lock = "on" => missed'[b].sinceLock >= MaxFails
        BY DEF LogsOK
      <4>1. failLog'[b] = failLog[b] /\ failLog[b].count \in Nat
        BY <2>1 DEF IInv, TypesOK, TablesOK, Logs
      <4>2. failLog[b].lock = "on" => MaxFails <= missed'[b].sinceLock
        BY <2>6, AccountAssumption DEF IInv, LogInv, LogsOK, TypesOK, TablesOK
      <4>3. failLog[b].lock = "on" => missed'[b].sinceLock >= MaxFails
        BY <2>5, <4>2, AccountAssumption DEF LogTypes
      <4> QED
        BY <2>6, <4>1, <4>3 DEF IInv, LogInv, LogsOK
    <3>2. l.count + 1 <= missed'[a].sinceLock
      BY <1>2, <1>3, <2>4
    <3>3. ReadsOK'
      <4> SUFFICES ASSUME NEW x \in Slots, x # s, task'[x].op \in {"reset", "check", "fail"}
                   PROVE  /\ task'[x].op = "reset" => task'[x].seen.lock = "past"
                          /\ task'[x].op \in {"check", "fail"} =>
                               /\ task'[x].seen.lock \in {"absent", "off"}
                               /\ task'[x].seen.lock = "absent" => task'[x].seen = NoLog
                               /\ task'[x].seen.count < MaxFails
                               /\ task'[x].seen.count + (IF task'[x].op = "fail" THEN 1 ELSE 0)
                                    <= missed'[task'[x].mail].sinceLock
        BY <1>2, <2>3, <3>2 DEF ReadsOK
      <4>1. /\ task'[x] = task[x] /\ task[x].mail \in Addresses
            /\ task[x].seen.count + (IF task[x].op = "fail" THEN 1 ELSE 0) \in Nat
        BY <2>7, Shape DEF Moves, IInv, TypesOK, HandlersOK, Logs
      <4> QED
        BY <2>6, <4>1 DEF IInv, LogInv, ReadsOK
    <3> QED
      BY <3>1, <3>3 DEF LogInv
  <2>8. ASSUME CalmInv, calm, s = Only PROVE Failures'
    <3>1. /\ failLog[a] = l /\ missed[a].inARow = Known(a) + 0
          /\ \A b \in Addresses : b # a => missed[b].inARow = Known(b)
      BY <1>1, <2>8 DEF CalmInv, Failures
    <3>2. Known(a) = missed[a].inARow
      BY <1>3, <3>1 DEF Known, Logs
    <3>3. missed'[a].inARow = Known(a)' + 1
      BY <2>1, <2>4, <3>2 DEF Known
    <3> QED
      BY <2>1, <2>3, <2>4, <2>8, <3>1, <3>3 DEF Failures, Known
  <2> QED
    BY <1>1, <1>3, <2>1, <2>2, <2>3, <2>5, <2>7, <2>8, LoginKept DEF LoginSteps
<1> QED
  BY <1>4, <1>5

\* The log with a new entry for a: what other logins have read is still good.
LEMMA NewEntry ==
  ASSUME IInv, NEW a \in Addresses, NEW l \in Logs, NEW s \in Slots,
         failLog' = [failLog EXCEPT ![a] = l], UNCHANGED missed,
         l.lock = "absent" => l = NoLog,
         l.lock = "off" => l.count < MaxFails /\ l.count <= missed[a].sinceLock,
         l.lock = "on" => missed[a].sinceLock >= MaxFails,
         Moves(s), task'[s].op \notin {"reset", "check", "fail"}
  PROVE  LogInv'
<1>1. failLog'[a] = l /\ \A b \in Addresses : b # a => failLog'[b] = failLog[b]
  BY DEF IInv, TypesOK, TablesOK
<1>2. LogsOK'
  BY <1>1 DEF IInv, LogInv, LogsOK
<1>3. ReadsOK'
  BY DEF IInv, LogInv, ReadsOK, Moves
<1> QED
  BY <1>2, <1>3 DEF LogInv

LEMMA LoginFailsOK ==
  ASSUME IInv, NEW s \in Slots, LoginFails(s), UNCHANGED guardVars PROVE Kept
<1> USE DEF LoginFails, At, Ends
<1>1. PICK a \in Addresses, l \in Logs :
        task[s].op = "fail" /\ a = task[s].mail /\ l = task[s].seen
  BY Shape DEF IInv, TypesOK, HandlersOK
<1>2. /\ l.lock \in {"absent", "off"} /\ (l.lock = "absent" => l = NoLog)
      /\ l.count < MaxFails /\ l.count + 1 <= missed[a].sinceLock
  BY <1>1 DEF IInv, LogInv, ReadsOK
<1>3. /\ task'[s] = Nothing /\ task' = [task EXCEPT ![s] = task'[s]] /\ begun' \in Nat
      /\ UNCHANGED missed /\ missed[a].sinceLock \in Nat /\ missed[a].inARow \in Nat
      /\ l.count \in Nat
  BY DEF IInv, TypesOK, HandlersOK, TablesOK, Logs
<1>4. task'[s] \in Tasks /\ task'[s].op = "nothing"
  BY <1>3, NothingIsTask
<1>5. ASSUME CalmInv, calm, s = Only
      PROVE  /\ failLog[a] = l /\ missed[a].inARow = Known(a) + 1
             /\ \A b \in Addresses : b # a => missed[b].inARow = Known(b)
  BY <1>1, <1>5 DEF CalmInv, Failures
<1>6. CASE UNCHANGED failLog /\ ~(l = NoLog <=> failLog[a] = NoLog)
  <2>1. LogTypes' /\ (Moves(s) => LogInv')
    BY <1>3, <1>4, <1>6, LogKept DEF LogTypes, IInv, TypesOK, TablesOK
  <2> QED
    BY <1>1, <1>3, <1>4, <1>5, <1>6, <2>1, LoginKept DEF LoginSteps
<1>7. ASSUME NEW e \in Logs, failLog' = [failLog EXCEPT ![a] = e],
             e.count = l.count + 1, l.lock \in {"absent", "off"},
             e.lock = IF l.count + 1 >= MaxFails THEN "on" ELSE "off"
      PROVE  Kept
  <2>1. /\ failLog'[a] = e /\ LogTypes'
        /\ \A b \in Addresses : b # a => failLog'[b] = failLog[b]
    BY <1>3, <1>7 DEF LogTypes, IInv, TypesOK, TablesOK
  <2>2. /\ e.lock = "off" => e.count < MaxFails /\ e.count <= missed[a].sinceLock
        /\ e.lock = "on" => missed[a].sinceLock >= MaxFails
        /\ e.lock \in {"on", "off"}
    BY <1>2, <1>3, <1>7, AccountAssumption
  <2>3. Moves(s) => LogInv'
    BY <1>3, <1>4, <1>7, <2>2, NewEntry
  <2>4. ASSUME CalmInv, calm, s = Only PROVE Failures'
    <3>1. Known(a) = l.count
      BY <1>2, <1>5, <2>4, LogEntries DEF Known
    <3>2. missed'[a].inARow = Known(a)'
      BY <1>3, <1>5, <1>7, <2>1, <2>2, <2>4, <3>1 DEF Known
    <3> QED
      BY <1>3, <1>4, <1>5, <2>1, <2>4, <3>2 DEF Failures, Known
  <2> QED
    BY <1>1, <1>3, <1>4, <2>1, <2>3, <2>4, LoginKept DEF LoginSteps
<1>8. CASE l = NoLog /\ failLog[a] = NoLog
  <2>1. Counted(1) \in Logs /\ Counted(1).count = 0 + 1 /\ Counted(1).lock = "off"
    BY LogEntries, AccountAssumption
  <2>2. failLog' = [failLog EXCEPT ![a] = Counted(1)]
    BY <1>1, <1>8
  <2>3. ~(0 + 1 >= MaxFails) /\ l.count = 0
    BY <1>8, LogEntries, AccountAssumption
  <2> QED
    BY <1>2, <1>7, <2>1, <2>2, <2>3
<1>9. CASE l # NoLog /\ failLog[a] # NoLog
  <2>1. l.count + 1 \in 0..MaxFails
    BY <1>2, <1>3, AccountAssumption
  <2>2. /\ Locked(l.count + 1) \in Logs /\ Locked(l.count + 1).count = l.count + 1
        /\ Locked(l.count + 1).lock = (IF l.count + 1 >= MaxFails THEN "on" ELSE "off")
    BY <2>1, LogEntries
  <2>3. failLog' = [failLog EXCEPT ![a] = Locked(l.count + 1)]
    BY <1>1, <1>9
  <2> QED
    BY <1>2, <1>7, <2>2, <2>3
<1>10. UNCHANGED failLog \/ (l = NoLog /\ failLog[a] = NoLog) \/ (l # NoLog /\ failLog[a] # NoLog)
  BY <1>1
<1> QED
  BY <1>6, <1>8, <1>9, <1>10

LEMMA LoginClearsOK ==
  ASSUME IInv, NEW s \in Slots, LoginClears(s), UNCHANGED guardVars PROVE Kept
<1> USE DEF LoginClears, At, Ends
<1>1. PICK a \in Addresses, i \in Ids :
        task[s].op = "clear" /\ a = task[s].mail /\ i = task[s].id
  BY Shape DEF IInv, TypesOK, HandlersOK
<1>2. ASSUME CalmInv, calm, s = Only
      PROVE  /\ missed[a].inARow = 0
             /\ \A b \in Addresses : b # a => missed[b].inARow = Known(b)
  BY <1>1, <1>2 DEF CalmInv, Failures
<1>3. CASE failLog[a] = NoLog
  <2>1. /\ task'[s] = Nothing /\ task' = [task EXCEPT ![s] = task'[s]] /\ begun' \in Nat
        /\ UNCHANGED <<failLog, missed>> /\ LogTypes'
    BY <1>1, <1>3 DEF IInv, TypesOK, HandlersOK, TablesOK, LogTypes
  <2>2. ASSUME CalmInv, calm, s = Only PROVE Failures'
    BY <1>2, <1>3, <2>1, <2>2, NothingIsTask, LogEntries DEF Failures, Known
  <2> QED
    BY <1>1, <2>1, <2>2, LoginKept, LogKept, NothingIsTask DEF LoginSteps, IInv
<1>4. CASE failLog[a] # NoLog
  <2>1. /\ task'[s] = Token(i) /\ task' = [task EXCEPT ![s] = task'[s]] /\ begun' \in Nat
        /\ failLog' = [failLog EXCEPT ![a] = NoLog] /\ UNCHANGED missed
    BY <1>1, <1>4 DEF IInv, TypesOK, HandlersOK
  <2>2. task'[s] \in Tasks /\ task'[s].op = "token"
    BY <2>1, TokenIsTask
  <2>3. /\ failLog'[a] = NoLog /\ LogTypes'
        /\ \A b \in Addresses : b # a => failLog'[b] = failLog[b]
    BY <2>1, LogEntries DEF LogTypes, IInv, TypesOK, TablesOK
  <2>4. Moves(s) => LogInv'
    BY <2>1, <2>2, NewEntry, LogEntries
  <2>5. ASSUME CalmInv, calm, s = Only PROVE Failures'
    BY <1>2, <2>1, <2>2, <2>3, <2>5, LogEntries DEF Failures, Known
  <2> QED
    BY <1>1, <2>1, <2>2, <2>3, <2>4, <2>5, LoginKept DEF LoginSteps
<1> QED
  BY <1>3, <1>4

LEMMA LockEndsOK ==
  ASSUME IInv, NEW a \in Addresses, LockEnds(a), UNCHANGED guardVars PROVE Kept
<1> USE DEF LockEnds
<1>1. \A s \in Slots : task[s].op = "nothing" /\ task'[s] = task[s]
  BY NothingIsTask DEF AllFree, IsFree, Outside, requestVars
<1>2. PICK n \in 0..MaxFails : n = failLog[a].count
  BY DEF IInv, TypesOK, TablesOK, Logs
<1>3. PICK e \in Logs : e = [count |-> n, lock |-> "past"]
  BY DEF Logs
<1>4. failLog' = [failLog EXCEPT ![a] = e] /\ missed' = [missed EXCEPT ![a] = Missed(0, 0)]
  BY <1>2, <1>3 DEF IInv, TypesOK, TablesOK
<1>5. /\ failLog'[a].lock = "past" /\ missed'[a].inARow = 0
      /\ \A b \in Addresses : b # a => failLog'[b] = failLog[b] /\ missed'[b] = missed[b]
  BY <1>3, <1>4 DEF Missed, IInv, TypesOK, TablesOK
<1>6. TablesOK'
  BY <1>4 DEF Missed, IInv, TypesOK, TablesOK
<1>7. AccountInv'
  BY <1>1 DEF IInv, AccountInv, RowsOK, HoldersOK, ErrandsOK, TokensOK, Live, Withdrawn, IsDeleted
<1>8. LogInv'
  BY <1>1, <1>5 DEF IInv, LogInv, LogsOK, ReadsOK
<1>9. ASSUME CalmInv PROVE CalmInv'
  <2> SUFFICES ASSUME calm PROVE Alone' /\ Failures' /\ CachesAgree' /\ GuardAgrees'
    BY DEF CalmInv, Outside, requestVars
  <2>1. Failures'
    BY <1>1, <1>5, <1>9, OnlyIsSlot DEF CalmInv, Failures, Known
  <2> QED
    BY <1>1, <1>9, <2>1, OnlyIsSlot, GuardKept, OutsideKept DEF Steps, IInv, TypesOK
<1> QED
  BY <1>6, <1>7, <1>8, <1>9, OutsideKept DEF Kept, IInv, TypesOK, GuardTypeOK, guardVars

-----------------------------------------------------------------------------
(* Steps of the guard and of the requests behind it. *)

GuardSteps == Steps \cup {"cache"}

LEMMA GuardedKept ==
  ASSUME IInv, NEW s \in Slots,
         UNCHANGED <<part, calm>>, begun' \in Nat, UNCHANGED accountVars,
         GuardTypeOK',
         task' = [task EXCEPT ![s] = task'[s]], task'[s] \in Tasks,
         task'[s].op \in GuardSteps \cup {"nothing"},
         Arrives(s) \/ task[s].op \in GuardSteps,
         CalmInv /\ calm /\ s = Only => CachesAgree' /\ GuardAgrees'
  PROVE  Kept
<1>1. HandlersOK' /\ Moves(s)
  BY SlotsAfter DEF IInv, TypesOK
<1>2. TablesOK' /\ AccountInv' /\ LogInv'
  BY <1>1, AccountKept, LogKept DEF IInv, GuardSteps, Steps, accountVars, TypesOK, TablesOK
<1>3. ASSUME CalmInv PROVE CalmInv'
  <2> SUFFICES ASSUME calm PROVE Alone' /\ Failures' /\ CachesAgree' /\ GuardAgrees'
    BY DEF CalmInv
  <2>1. task[s].op \notin {"reset", "check", "fail", "clear"}
    BY NothingIsTask DEF Arrives, IsFree, GuardSteps, Steps
  <2>2. Arrives(s) \/ task[s] # Nothing
    BY NothingIsTask DEF GuardSteps, Steps
  <2>3. s = Only
    BY <1>3, <2>2, OnlyMoves DEF IInv, TypesOK
  <2>4. task'[Only].op \notin {"reset", "check", "fail", "clear"}
    BY <2>3 DEF GuardSteps, Steps
  <2> QED
    BY <1>1, <1>3, <2>1, <2>2, <2>3, <2>4, AloneKept, FailuresKept DEF IInv, TypesOK, accountVars
<1> QED
  BY <1>1, <1>2, <1>3 DEF Kept, IInv, TypesOK

\* What a guarded request has.
LEMMA GuardedHas ==
  \A op, ip, e, c, v : LET t == Guarded(op, ip, e, c, v) IN
    t.op = op /\ t.ip = ip /\ t.errand = e /\ t.cached = c /\ t.saved = v
BY DEF Guarded

LEMMA GuardStepShape ==
  ASSUME IInv, NEW s \in Slots
  PROVE  /\ task[s] \in Tasks
         /\ task[s].op \in Steps =>
              /\ task[s].ip \in Ips /\ task[s].errand \in Errands
              /\ task[s].cached \in Entries /\ task[s].saved \in Ips \cup {Missing, Unbound}
         /\ task[s].op = "cache" => task[s].value \in {"true", "false"}
BY Shape DEF IInv, TypesOK, HandlersOK

\* The next step of a guarded request.
LEMMA GoesOnTo ==
  ASSUME IInv, NEW s \in Slots, NEW op \in Steps, NEW c \in Entries,
         NEW v \in Ips \cup {Missing, Unbound}, task[s].op \in Steps,
         GoesOn(s, op, c, v)
  PROVE  /\ task' = [task EXCEPT ![s] = task'[s]] /\ task'[s] \in Tasks
         /\ task'[s].op = op /\ task'[s].ip = task[s].ip /\ task'[s].errand = task[s].errand
         /\ task'[s].cached = c /\ task'[s].saved = v
<1>1. task'[s] = Guarded(op, task[s].ip, task[s].errand, c, v)
  BY DEF GoesOn, IInv, TypesOK, HandlersOK
<1>2. task'[s] \in Tasks
  BY <1>1, GuardedIsTask, GuardStepShape
<1>3. /\ task'[s].op = op /\ task'[s].ip = task[s].ip /\ task'[s].errand = task[s].errand
      /\ task'[s].cached = c /\ task'[s].saved = v
  BY <1>1, GuardedHas
<1>4. task' = [task EXCEPT ![s] = task'[s]]
  BY <1>1 DEF GoesOn
<1> QED
  BY <1>2, <1>3, <1>4

LEMMA EntersOK ==
  ASSUME IInv, NEW s \in Slots, Enters(s), UNCHANGED accountVars PROVE Kept
<1> USE DEF Enters
<1>1. PICK ip \in Ips, e \in Errands :
        IF blocked = "true"
          THEN UNCHANGED task
          ELSE task' = [task EXCEPT ![s] = Guarded("address", ip, e, blocked, Missing)]
  OBVIOUS
<1>2. /\ UNCHANGED <<row, block, blocked, savedIp>> /\ begun' \in Nat /\ GuardTypeOK'
      /\ blocked \in Entries
  BY DEF IInv, TypesOK, HandlersOK, GuardTypeOK, Arrives, Entries
<1>3. task[s] = Nothing
  BY DEF Arrives, IsFree
<1>4. CASE blocked = "true"
  <2>1. task'[s] = Nothing /\ task' = [task EXCEPT ![s] = task'[s]] /\ UNCHANGED task
    BY <1>1, <1>3, <1>4 DEF IInv, TypesOK, HandlersOK
  <2>2. CalmInv /\ calm => CachesAgree' /\ GuardAgrees'
    BY <1>2, <2>1 DEF CalmInv, CachesAgree, GuardAgrees, IsBlocked
  <2> QED
    BY <1>2, <2>1, <2>2, GuardedKept, NothingIsTask DEF Arrives
<1>5. CASE blocked # "true"
  <2>1. /\ task'[s] = Guarded("address", ip, e, blocked, Missing)
        /\ task' = [task EXCEPT ![s] = task'[s]]
    BY <1>1, <1>5 DEF IInv, TypesOK, HandlersOK
  <2>2. task'[s] \in Tasks /\ task'[s].op = "address" /\ task'[s].cached = blocked
    BY <1>2, <2>1, GuardedIsTask, GuardedHas DEF Steps
  <2>3. CalmInv /\ calm /\ s = Only => CachesAgree' /\ GuardAgrees'
    BY <1>2, <1>3, <1>5, <2>2, NothingIsTask
    DEF CalmInv, CachesAgree, GuardAgrees, IsBlocked
  <2> QED
    BY <1>2, <2>1, <2>2, <2>3, GuardedKept DEF Arrives, GuardSteps, Steps
<1> QED
  BY <1>4, <1>5

LEMMA ReadsAddressOK ==
  ASSUME IInv, NEW s \in Slots, ReadsAddress(s), UNCHANGED accountVars PROVE Kept
<1> USE DEF ReadsAddress, At
<1>1. PICK op \in {"lookup", "judge"}, c \in Entries, v \in Ips \cup {Missing, Unbound} :
        /\ c = task[s].cached /\ v = savedIp
        /\ op = "judge" => v # Missing /\ c # Missing
        /\ GoesOn(s, op, c, v)
  BY GuardStepShape DEF IInv, TypesOK, GuardTypeOK, NeedsLookup, Steps
<1>2. /\ UNCHANGED <<row, block, blocked, savedIp>> /\ begun' \in Nat /\ GuardTypeOK'
  BY DEF guardVars, IInv, TypesOK, HandlersOK, GuardTypeOK
<1>3. /\ task' = [task EXCEPT ![s] = task'[s]] /\ task'[s] \in Tasks
      /\ task'[s].op = op /\ task'[s].cached = c /\ task'[s].saved = v
  BY <1>1, GoesOnTo DEF Steps
<1>4. CalmInv /\ calm /\ s = Only => CachesAgree' /\ GuardAgrees'
  BY <1>1, <1>2, <1>3 DEF CalmInv, CachesAgree, GuardAgrees, IsBlocked, Entries
<1> QED
  BY <1>2, <1>3, <1>4, GuardedKept DEF GuardSteps, Steps

LEMMA FindsUserOK ==
  ASSUME IInv, NEW s \in Slots, FindsUser(s), UNCHANGED accountVars PROVE Kept
<1> USE DEF FindsUser, At
<1>1. PICK op \in {"block", "judge"}, c \in Entries, v \in Ips \cup {Missing, Unbound} :
        /\ c = task[s].cached /\ v = (IF row = Missing THEN task[s].saved ELSE row)
        /\ op = (IF row = Missing THEN "judge" ELSE "block")
        /\ GoesOn(s, op, c, v)
  BY GuardStepShape DEF IInv, TypesOK, GuardTypeOK, Steps
<1>2. /\ UNCHANGED <<row, block, blocked, savedIp>> /\ begun' \in Nat /\ GuardTypeOK'
  BY DEF guardVars, IInv, TypesOK, HandlersOK, GuardTypeOK
<1>3. /\ task' = [task EXCEPT ![s] = task'[s]] /\ task'[s] \in Tasks
      /\ task'[s].op = op /\ task'[s].cached = c /\ task'[s].saved = v
  BY <1>1, GoesOnTo DEF Steps
<1>4. CalmInv /\ calm /\ s = Only => CachesAgree' /\ GuardAgrees'
  BY <1>1, <1>2, <1>3 DEF CalmInv, CachesAgree, GuardAgrees, IsBlocked, Entries, Active
<1> QED
  BY <1>2, <1>3, <1>4, GuardedKept DEF GuardSteps, Steps

LEMMA FindsBlockOK ==
  ASSUME IInv, NEW s \in Slots, FindsBlock(s), UNCHANGED accountVars PROVE Kept
<1> USE DEF FindsBlock, At
<1>1. PICK c \in Entries, v \in Ips \cup {Missing, Unbound} :
        /\ c = (IF IsBlocked THEN "true" ELSE "false") /\ v = task[s].saved
        /\ GoesOn(s, "remember", c, v)
  BY GuardStepShape DEF Entries, Steps
<1>2. /\ UNCHANGED <<row, block, blocked, savedIp>> /\ begun' \in Nat /\ GuardTypeOK'
  BY DEF guardVars, IInv, TypesOK, HandlersOK, GuardTypeOK
<1>3. /\ task' = [task EXCEPT ![s] = task'[s]] /\ task'[s] \in Tasks
      /\ task'[s].op = "remember" /\ task'[s].cached = c /\ task'[s].saved = v
  BY <1>1, GoesOnTo DEF Steps
<1>4. CalmInv /\ calm /\ s = Only => CachesAgree' /\ GuardAgrees'
  BY <1>1, <1>2, <1>3 DEF CalmInv, CachesAgree, GuardAgrees, IsBlocked
<1> QED
  BY <1>2, <1>3, <1>4, GuardedKept DEF GuardSteps, Steps

LEMMA RemembersOK ==
  ASSUME IInv, NEW s \in Slots, Remembers(s), UNCHANGED accountVars PROVE Kept
<1> USE DEF Remembers, At
<1>1. PICK c \in Entries, v \in Ips \cup {Missing, Unbound} :
        c = task[s].cached /\ v = task[s].saved /\ GoesOn(s, "judge", c, v)
  BY GuardStepShape DEF Steps
<1>2. /\ UNCHANGED <<row, block, savedIp>> /\ blocked' = c /\ begun' \in Nat /\ GuardTypeOK'
  BY <1>1 DEF IInv, TypesOK, HandlersOK, GuardTypeOK, Entries
<1>3. /\ task' = [task EXCEPT ![s] = task'[s]] /\ task'[s] \in Tasks
      /\ task'[s].op = "judge" /\ task'[s].cached = c /\ task'[s].saved = v
  BY <1>1, GoesOnTo DEF Steps
<1>4. CalmInv /\ calm /\ s = Only => CachesAgree' /\ GuardAgrees'
  BY <1>1, <1>2, <1>3 DEF CalmInv, CachesAgree, GuardAgrees, IsBlocked, Active
<1> QED
  BY <1>2, <1>3, <1>4, GuardedKept DEF GuardSteps, Steps

\* A request that is let in goes on to its errand, one that is not ends.
LEMMA AdmittedTo ==
  ASSUME IInv, NEW s \in Slots, task[s].op \in Steps, Admitted(s)
  PROVE  /\ task' = [task EXCEPT ![s] = task'[s]] /\ task'[s] \in Tasks
         /\ task'[s].op \in {"nothing", "register", "inquire"}
         /\ task'[s].op # "nothing" => task'[s].ip = task[s].ip
<1>1. CASE task[s].errand = "visit"
  <2>1. task'[s] = Nothing /\ task' = [task EXCEPT ![s] = task'[s]]
    BY <1>1 DEF Admitted, Ends, IInv, TypesOK, HandlersOK
  <2> QED
    BY <2>1, NothingIsTask
<1>2. CASE task[s].errand # "visit"
  <2>1. PICK op \in {"register", "inquire"}, c \in Entries, v \in Ips \cup {Missing, Unbound} :
          op = task[s].errand /\ c = task[s].cached /\ v = task[s].saved
    BY <1>2, GuardStepShape DEF Errands
  <2>2. GoesOn(s, op, c, v)
    BY <1>2, <2>1 DEF Admitted
  <2> QED
    BY <2>1, <2>2, GoesOnTo DEF Steps
<1> QED
  BY <1>1, <1>2

LEMMA RefusedTo ==
  ASSUME IInv, NEW s \in Slots, Refused(s)
  PROVE  /\ task' = [task EXCEPT ![s] = task'[s]] /\ task'[s] \in Tasks
         /\ task'[s].op = "nothing"
<1>1. task'[s] = Nothing /\ task' = [task EXCEPT ![s] = task'[s]]
  BY DEF Refused, Ends, IInv, TypesOK, HandlersOK
<1> QED
  BY <1>1, NothingIsTask

LEMMA JudgesOK ==
  ASSUME IInv, NEW s \in Slots, Judges(s), UNCHANGED accountVars PROVE Kept
<1> USE DEF Judges, At
<1>1. /\ UNCHANGED <<row, block, blocked, savedIp>> /\ begun' \in Nat /\ GuardTypeOK'
  BY DEF IInv, TypesOK, HandlersOK, GuardTypeOK
<1>2. CASE Refused(s)
  <2>1. CalmInv /\ calm /\ s = Only => CachesAgree' /\ GuardAgrees'
    BY <1>1, <1>2, RefusedTo DEF CalmInv, CachesAgree, GuardAgrees, IsBlocked
  <2> QED
    BY <1>1, <1>2, <2>1, RefusedTo, GuardedKept DEF GuardSteps, Steps
<1>3. CASE task[s].cached # "true" /\ task[s].saved = Unbound
           /\ GoesOn(s, "bind", task[s].cached, task[s].saved)
  <2>1. PICK c \in Entries, v \in Ips \cup {Missing, Unbound} :
          c = task[s].cached /\ v = task[s].saved /\ GoesOn(s, "bind", c, v)
    BY <1>3, GuardStepShape DEF Steps
  <2>2. /\ task' = [task EXCEPT ![s] = task'[s]] /\ task'[s] \in Tasks
        /\ task'[s].op = "bind" /\ task'[s].cached = c /\ task'[s].saved = v
    BY <2>1, GoesOnTo DEF Steps
  <2>3. CalmInv /\ calm /\ s = Only => CachesAgree' /\ GuardAgrees'
    BY <1>1, <1>3, <2>2 DEF CalmInv, CachesAgree, GuardAgrees, IsBlocked
  <2> QED
    BY <1>1, <2>2, <2>3, GuardedKept DEF GuardSteps, Steps
<1>4. CASE task[s].cached # "true" /\ task[s].saved \in {Missing, task[s].ip} /\ Admitted(s)
  <2>1. CalmInv /\ calm /\ s = Only => CachesAgree' /\ GuardAgrees'
    BY <1>1, <1>4, AdmittedTo DEF CalmInv, CachesAgree, GuardAgrees, IsBlocked, Steps
  <2> QED
    BY <1>1, <1>4, <2>1, AdmittedTo, GuardedKept DEF GuardSteps, Steps
<1> QED
  BY <1>2, <1>3, <1>4

LEMMA BindsOK ==
  ASSUME IInv, NEW s \in Slots, Binds(s), UNCHANGED accountVars PROVE Kept
<1> USE DEF Binds, At
<1>1. PICK c \in Entries, v \in Ips \cup {Missing, Unbound} :
        c = task[s].cached /\ v = task[s].saved /\ GoesOn(s, "note", c, v)
  BY GuardStepShape DEF Steps
<1>2. /\ UNCHANGED <<block, blocked, savedIp>> /\ row' = task[s].ip
      /\ begun' \in Nat /\ GuardTypeOK' /\ row' \in Ips
  BY GuardStepShape DEF IInv, TypesOK, HandlersOK, GuardTypeOK, Steps
<1>3. /\ task' = [task EXCEPT ![s] = task'[s]] /\ task'[s] \in Tasks
      /\ task'[s].op = "note" /\ task'[s].ip = task[s].ip
  BY <1>1, GoesOnTo DEF Steps
<1>4. CalmInv /\ calm /\ s = Only => CachesAgree' /\ GuardAgrees'
  BY <1>2, <1>3, GuardAssumption
  DEF CalmInv, CachesAgree, GuardAgrees, IsBlocked, Missing, Unbound, IInv, TypesOK, GuardTypeOK
<1> QED
  BY <1>2, <1>3, <1>4, GuardedKept DEF GuardSteps, Steps

LEMMA NotesOK ==
  ASSUME IInv, NEW s \in Slots, Notes(s), UNCHANGED accountVars PROVE Kept
<1> USE DEF Notes, At
<1>1. /\ UNCHANGED <<row, block, blocked>> /\ savedIp' = task[s].ip
      /\ begun' \in Nat /\ GuardTypeOK' /\ task[s].op \in Steps
  BY GuardStepShape DEF IInv, TypesOK, HandlersOK, GuardTypeOK, Steps
<1>2. /\ task' = [task EXCEPT ![s] = task'[s]] /\ task'[s] \in Tasks
      /\ task'[s].op \in {"nothing", "register", "inquire"}
      /\ task'[s].op # "nothing" => task'[s].ip = task[s].ip
  BY <1>1, AdmittedTo
<1>3. CalmInv /\ calm /\ s = Only => CachesAgree' /\ GuardAgrees'
  BY <1>1, <1>2 DEF CalmInv, CachesAgree, GuardAgrees, IsBlocked
<1> QED
  BY <1>1, <1>2, <1>3, GuardedKept DEF GuardSteps, Steps

LEMMA RegisterNotesOK ==
  ASSUME IInv, NEW s \in Slots, RegisterNotes(s), UNCHANGED accountVars PROVE Kept
<1> USE DEF RegisterNotes, At
<1>1. PICK c \in Entries, v \in Ips \cup {Missing, Unbound} :
        c = task[s].cached /\ v = task[s].saved /\ GoesOn(s, "insert", c, v)
  BY GuardStepShape DEF Steps
<1>2. /\ UNCHANGED <<row, block, blocked>> /\ savedIp' = task[s].ip
      /\ begun' \in Nat /\ GuardTypeOK'
  BY GuardStepShape DEF IInv, TypesOK, HandlersOK, GuardTypeOK, Steps
<1>3. /\ task' = [task EXCEPT ![s] = task'[s]] /\ task'[s] \in Tasks
      /\ task'[s].op = "insert" /\ task'[s].ip = task[s].ip
  BY <1>1, GoesOnTo DEF Steps
<1>4. CalmInv /\ calm /\ s = Only => CachesAgree' /\ GuardAgrees'
  BY <1>2, <1>3 DEF CalmInv, CachesAgree, GuardAgrees, IsBlocked
<1> QED
  BY <1>2, <1>3, <1>4, GuardedKept DEF GuardSteps, Steps

\* A row for a visitor without one.
LEMMA InsertsOK ==
  ASSUME IInv, NEW s \in Slots, RegisterInserts(s) \/ Inquires(s), UNCHANGED accountVars
  PROVE  Kept
<1> USE DEF RegisterInserts, Inquires, At, Ends
<1>1. /\ UNCHANGED <<block, blocked, savedIp>>
      /\ row' = IF row = Missing THEN task[s].ip ELSE row
      /\ begun' \in Nat /\ GuardTypeOK' /\ task[s].op \in {"insert", "inquire"}
      /\ task[s].ip \in Ips
  BY GuardStepShape DEF IInv, TypesOK, HandlersOK, GuardTypeOK, Steps
<1>2. task'[s] = Nothing /\ task' = [task EXCEPT ![s] = task'[s]]
  BY DEF IInv, TypesOK, HandlersOK
<1>3. CalmInv /\ calm /\ s = Only => CachesAgree' /\ GuardAgrees'
  BY <1>1, <1>2, NothingIsTask, GuardAssumption
  DEF CalmInv, CachesAgree, GuardAgrees, IsBlocked, Missing
<1> QED
  BY <1>1, <1>2, <1>3, GuardedKept, NothingIsTask DEF GuardSteps, Steps

LEMMA BlocksOK ==
  ASSUME IInv, NEW s \in Slots, BlockUser(s) \/ UnblockUser(s), UNCHANGED accountVars
  PROVE  Kept
<1> USE DEF BlockUser, UnblockUser
<1>1. PICK w \in {"true", "false"} :
        /\ IF w = "true" THEN block' \in Active ELSE block' = "none"
        /\ task' = [task EXCEPT ![s] = [op |-> "cache", value |-> w]]
  OBVIOUS
<1>2. /\ UNCHANGED <<row, blocked, savedIp>> /\ row # Missing
      /\ begun' \in Nat /\ GuardTypeOK'
  BY <1>1 DEF IInv, TypesOK, HandlersOK, GuardTypeOK, Arrives
<1>3. /\ task'[s] = [op |-> "cache", value |-> w] /\ task' = [task EXCEPT ![s] = task'[s]]
  BY <1>1 DEF IInv, TypesOK, HandlersOK
<1>4. task'[s] \in Tasks /\ task'[s].op = "cache" /\ task'[s].value = w
  BY <1>3, CacheIsTask
<1>5. task[s].op = "nothing"
  BY NothingIsTask DEF Arrives, IsFree
<1>6. CalmInv /\ calm /\ s = Only => CachesAgree' /\ GuardAgrees'
  BY <1>1, <1>2, <1>4, <1>5 DEF CalmInv, CachesAgree, GuardAgrees, IsBlocked
<1> QED
  BY <1>2, <1>3, <1>4, <1>6, GuardedKept DEF GuardSteps, Arrives

LEMMA CachesBlockOK ==
  ASSUME IInv, NEW s \in Slots, CachesBlock(s), UNCHANGED accountVars PROVE Kept
<1> USE DEF CachesBlock, At, Ends
<1>1. /\ UNCHANGED <<row, block, savedIp>> /\ blocked' = task[s].value
      /\ begun' \in Nat /\ GuardTypeOK' /\ task[s].value \in {"true", "false"}
  BY GuardStepShape DEF IInv, TypesOK, HandlersOK, GuardTypeOK
<1>2. task'[s] = Nothing /\ task' = [task EXCEPT ![s] = task'[s]]
  BY DEF IInv, TypesOK, HandlersOK
<1>3. CalmInv /\ calm /\ s = Only => CachesAgree' /\ GuardAgrees'
  BY <1>1, <1>2, NothingIsTask DEF CalmInv, CachesAgree, GuardAgrees, IsBlocked, Active
<1> QED
  BY <1>1, <1>2, <1>3, GuardedKept, NothingIsTask DEF GuardSteps

LEMMA ResetCurrentDatabaseOK ==
  ASSUME IInv, NEW s \in Slots, ResetCurrentDatabase(s), UNCHANGED accountVars PROVE Kept
<1> USE DEF ResetCurrentDatabase
<1>1. /\ UNCHANGED <<row, block>> /\ savedIp' = Missing /\ blocked' = Missing
      /\ begun' \in Nat /\ GuardTypeOK'
  BY DEF IInv, TypesOK, HandlersOK, GuardTypeOK, Arrives
<1>2. /\ task[s] = Nothing /\ task'[s] = Nothing /\ task' = [task EXCEPT ![s] = task'[s]]
      /\ UNCHANGED task
  BY DEF IInv, TypesOK, HandlersOK, Arrives, IsFree
<1>3. CalmInv /\ calm /\ s = Only => CachesAgree' /\ GuardAgrees'
  BY <1>1, <1>2, NothingIsTask DEF CalmInv, CachesAgree, GuardAgrees, IsBlocked, Missing
<1> QED
  BY <1>1, <1>2, <1>3, GuardedKept, NothingIsTask DEF Arrives

\* Time passes for the guard, or the manager's code opens a session.
LEMMA GuardTimeOK ==
  ASSUME IInv, UNCHANGED accountVars,
         BlockLapses \/ BlockedExpires \/ AddressExpires \/ EntersCode \/ SessionExpires
  PROVE  Kept
<1> USE DEF BlockLapses, BlockedExpires, AddressExpires, EntersCode, SessionExpires
<1>1. Outside /\ UNCHANGED task /\ UNCHANGED calm
  BY DEF Outside, requestVars
<1>2. HandlersOK' /\ GuardTypeOK'
  BY <1>1, OutsideKept DEF IInv, TypesOK, GuardTypeOK
<1>3. TablesOK' /\ AccountInv' /\ LogInv'
  BY <1>1 DEF IInv, TypesOK, TablesOK, accountVars, AccountInv, RowsOK, HoldersOK, ErrandsOK,
              TokensOK, Live, Withdrawn, IsDeleted, LogInv, LogsOK, ReadsOK
<1>4. ASSUME CalmInv PROVE CalmInv'
  <2> SUFFICES ASSUME calm PROVE Alone' /\ Failures' /\ CachesAgree' /\ GuardAgrees'
    BY <1>1 DEF CalmInv
  <2>1. Alone' /\ Failures'
    BY <1>1, <1>4 DEF CalmInv, Alone, Failures, Known, accountVars
  <2>2. CASE BlockLapses
    <3>1. AllFree
      BY <2>2
    <3>2. task[Only].op = "nothing" /\ task'[Only].op = "nothing"
      BY <1>1, <3>1, OnlyIsSlot, NothingIsTask DEF AllFree, IsFree
    <3>3. /\ UNCHANGED <<row, blocked, savedIp>>
          /\ block \notin {"none"} /\ block' \notin {"none"}
          /\ ~IsBlocked'
      BY <2>2 DEF IsBlocked, Active
    <3>4. CachesAgree /\ GuardAgrees
      BY <1>4 DEF CalmInv
    <3> QED
      BY <2>1, <3>2, <3>3, <3>4 DEF CachesAgree, GuardAgrees
  <2>3. CASE BlockedExpires \/ AddressExpires \/ EntersCode \/ SessionExpires
    BY <1>1, <1>4, <2>1, <2>3 DEF CalmInv, CachesAgree, GuardAgrees, IsBlocked, Missing
  <2> QED
    BY <2>2, <2>3
<1> QED
  BY <1>2, <1>3, <1>4 DEF Kept, IInv, TypesOK

-----------------------------------------------------------------------------
(* The invariant. *)

LEMMA InitOK == Init => IInv /\ CalmInv
<1> SUFFICES ASSUME Init PROVE IInv /\ CalmInv
  OBVIOUS
<1> USE DEF Init, RequestsInit, AccountInit, GuardInit
<1>1. \A s \in Slots : task[s] = Nothing /\ task[s].op = "nothing"
  BY NothingIsTask
<1>2. HandlersOK
  BY <1>1, NothingIsTask DEF HandlersOK
<1>3. TablesOK /\ GuardTypeOK
  BY AccountAssumption, LogEntries DEF TablesOK, GuardTypeOK, Missed, Active
<1>4. AccountInv
  BY <1>1, AccountAssumption
  DEF AccountInv, RowsOK, HoldersOK, ErrandsOK, TokensOK, Live, Withdrawn, IsDeleted
<1>5. LogInv
  BY <1>1, LogEntries DEF LogInv, LogsOK, ReadsOK
<1>6. Failures
  BY <1>1, OnlyIsSlot, LogEntries DEF Failures, Known, Missed
<1>7. CalmInv
  BY <1>1, <1>6, OnlyIsSlot, GuardAssumption
  DEF CalmInv, Alone, CachesAgree, GuardAgrees, Missing
<1> QED
  BY <1>2, <1>3, <1>4, <1>5, <1>7 DEF IInv, TypesOK

LEMMA StutterOK == IInv /\ UNCHANGED vars => Kept
BY DEF Kept, vars, requestVars, accountVars, guardVars, IInv, TypesOK, TablesOK, HandlersOK,
       GuardTypeOK, AccountInv, RowsOK, HoldersOK, ErrandsOK, TokensOK, Live, Withdrawn,
       IsDeleted, LogInv, LogsOK, ReadsOK, CalmInv, Alone, Failures, Known, CachesAgree,
       GuardAgrees, IsBlocked

\* Every step keeps the invariant, and what calm behaviours add to it.
LEMMA NextOK == IInv /\ [Next]_vars => Kept
<1> SUFFICES ASSUME IInv, [Next]_vars PROVE Kept
  OBVIOUS
<1>1. ASSUME AccountNext, UNCHANGED guardVars PROVE Kept
  <2>1. ASSUME NEW s \in Slots, SignupReads(s) \/ SignupCreates(s) \/ StoreToken(s) PROVE Kept
    BY <1>1, <2>1, SignupReadsOK, SignupCreatesOK, StoreTokenOK
  <2>2. ASSUME NEW s \in Slots, LoginStep(s) PROVE Kept
    BY <1>1, <2>2, LoginReadsOK, LoginResetsOK, LoginChecksOK, LoginFailsOK, LoginClearsOK
    DEF LoginStep
  <2>3. ASSUME NEW s \in Slots, AccountStep(s) PROVE Kept
    BY <1>1, <2>3, MailOK, RefreshOK, ResetReadsOK, ResetWritesOK, WithdrawReadsOK,
       WithdrawErasesOK, WithdrawForgetsOK, RestoreReadsOK, RestoreRevivesOK
    DEF AccountStep
  <2>4. ASSUME NEW a \in Addresses, LockEnds(a) PROVE Kept
    BY <1>1, <2>4, LockEndsOK
  <2>5. CASE LinkExpires \/ HandleCron \/ TokenExpires
    BY <1>1, <2>5, LinkExpiresOK, HandleCronOK, TokenExpiresOK
  <2> QED
    BY <1>1, <2>1, <2>2, <2>3, <2>4, <2>5 DEF AccountNext
<1>2. ASSUME GuardNext, UNCHANGED accountVars PROVE Kept
  <2>1. ASSUME NEW s \in Slots, GuardStep(s) PROVE Kept
    BY <1>2, <2>1, EntersOK, ReadsAddressOK, FindsUserOK, FindsBlockOK, RemembersOK, JudgesOK,
       BindsOK, NotesOK, RegisterNotesOK, InsertsOK, BlocksOK, CachesBlockOK,
       ResetCurrentDatabaseOK
    DEF GuardStep
  <2> QED
    BY <1>2, <2>1, GuardTimeOK DEF GuardNext
<1> QED
  BY <1>1, <1>2, StutterOK DEF Next

LEMMA Invariant == Spec => [](IInv /\ CalmInv)
<1>1. IInv /\ CalmInv /\ [Next]_vars => (IInv /\ CalmInv)'
  BY NextOK DEF Kept
<1> QED
  BY <1>1, InitOK, PTL DEF Spec

-----------------------------------------------------------------------------
(* The theorems. *)

\* Accounts, tokens, the log of failed logins, the visitor's row and the cached entries
\* keep their types, whatever requests overlap.
THEOREM TypesKept == Spec => []TypeOK
<1>1. IInv => TypeOK
  <2> SUFFICES ASSUME IInv PROVE TypeOK
    OBVIOUS
  <2>1. AccountTypeOK
    BY DEF AccountTypeOK, IInv, TypesOK, TablesOK, AccountInv, TokensOK, Users, Logs
  <2> QED
    BY <2>1 DEF TypeOK, IInv, TypesOK
<1> QED
  BY <1>1, Invariant, PTL

\* However sign-ups, withdrawals, restorations and the yearly clean-up interleave, one row
\* at most answers to an address and one at most can be restored to it.
THEOREM AddressesHaveOneHolder == Spec => []OneHolder
<1>1. IInv => OneHolder
  <2> SUFFICES ASSUME IInv PROVE OneHolder
    OBVIOUS
  <2>1. ASSUME NEW a \in Addresses
        PROVE  Cardinality(Live(a)) <= 1 /\ Cardinality(Withdrawn(a)) <= 1
    <3>1. /\ \A i, j \in Live(a) : i = j
          /\ \A i, j \in Withdrawn(a) : i = j
      BY DEF IInv, AccountInv, HoldersOK, Live, Withdrawn
    <3>2. PICK L, W : L = Live(a) /\ W = Withdrawn(a)
      OBVIOUS
    <3> QED
      BY <3>1, <3>2, OneAtMost
  <2> QED
    BY <2>1 DEF OneHolder, IInv, AccountInv, RowsOK
<1> QED
  BY <1>1, Invariant, PTL

\* A lock has MaxFails failed logins behind it even when logins overlap, and MaxFails
\* failures in a row, one login after the other, do lock the address.
THEOREM LocksAreEarned == Spec => []LockIsEarned
<1>1. IInv /\ CalmInv => LockIsEarned
  <2> SUFFICES ASSUME IInv, CalmInv PROVE LockIsEarned
    OBVIOUS
  <2>1. ASSUME NEW a \in Addresses, failLog[a].lock = "on"
        PROVE  missed[a].sinceLock >= MaxFails
    BY <2>1 DEF IInv, LogInv, LogsOK
  <2>2. ASSUME NEW a \in Addresses, calm, AllFree, missed[a].inARow >= MaxFails
        PROVE  failLog[a].lock = "on"
    <3>1. task[Only].op = "nothing"
      BY <2>2, OnlyIsSlot, NothingIsTask DEF AllFree, IsFree
    <3>2. missed[a].inARow = Known(a)
      BY <2>2, <3>1 DEF CalmInv, Failures
    <3>3. failLog[a] \in Logs /\ failLog[a].count \in Nat
      BY DEF IInv, TypesOK, TablesOK, Logs
    <3>4. CASE failLog[a].lock = "off"
      <4>1. Known(a) = failLog[a].count /\ failLog[a].count < MaxFails
        BY <3>4 DEF Known, IInv, LogInv, LogsOK
      <4> QED
        BY <2>2, <3>2, <3>3, <4>1, AccountAssumption
    <3>5. CASE failLog[a].lock \notin {"off", "on"}
      <4>1. Known(a) = 0
        BY <3>5 DEF Known
      <4> QED
        BY <2>2, <3>2, <4>1, AccountAssumption
    <3> QED
      BY <3>4, <3>5
  <2> QED
    BY <2>1, <2>2 DEF LockIsEarned
<1> QED
  BY <1>1, Invariant, PTL

\* One request after the other, the guard judges by what is true: nobody whose block is in
\* force or who comes from elsewhere gets in, and nobody else is kept out but for a block
\* of some hours that ran out and is still cached.
THEOREM VerdictsAreRight == Spec => VerdictIsRight
<1> DEFINE Right == calm /\ verdict' # verdict =>
                      IF verdict'.pass
                        THEN ~IsBlocked /\ row' \in {Missing, verdict'.ip}
                        ELSE \/ IsBlocked
                             \/ row \notin {Missing, Unbound, verdict'.ip}
                             \/ block = "over" /\ blocked = "true"
<1>1. IInv /\ CalmInv /\ [Next]_vars => [Right]_<<requestVars, guardVars>>
  <2> SUFFICES ASSUME IInv, CalmInv, [Next]_vars, calm, verdict' # verdict PROVE Right
    OBVIOUS
  <2>1. GuardNext
    BY DEF Next, vars, guardVars
  <2>2. PICK s \in Slots : Enters(s) \/ Judges(s) \/ Notes(s)
    BY <2>1 DEF GuardNext, GuardStep, ReadsAddress, FindsUser, FindsBlock, Remembers, Binds,
                RegisterNotes, RegisterInserts, Inquires, BlockUser, UnblockUser, CachesBlock,
                ResetCurrentDatabase, BlockLapses, BlockedExpires, AddressExpires, EntersCode,
                SessionExpires, guardVars
  <2>3. s = Only
    BY <2>2, OnlyMoves, NothingIsTask DEF Enters, Judges, Notes, At, IInv, TypesOK
  <2>4. CachesAgree /\ GuardAgrees
    BY DEF CalmInv
  <2>5. CASE Enters(s)
    <3>1. PICK ip \in Ips : blocked = "true" /\ verdict' = [ip |-> ip, pass |-> FALSE]
      BY <2>5 DEF Enters, Judged
    <3>2. block # "none" /\ verdict'.pass = FALSE
      BY <2>3, <2>4, <2>5, <3>1, NothingIsTask DEF CachesAgree, Enters, Arrives, IsFree
    <3> QED
      BY <3>1, <3>2 DEF IInv, TypesOK, GuardTypeOK, IsBlocked
  <2>6. CASE Judges(s)
    <3>1. /\ task[s].op = "judge" /\ task[s].saved = row /\ UNCHANGED row
          /\ task[s].cached = "true" <=> IsBlocked
      BY <2>3, <2>4, <2>6 DEF GuardAgrees, Judges, At
    <3>2. CASE Refused(s)
      <4>1. verdict' = [ip |-> task[s].ip, pass |-> FALSE]
        BY <3>2 DEF Refused, Judged
      <4>2. verdict'.ip = task[s].ip /\ verdict'.pass = FALSE
        BY <4>1
      <4>3. ~Admitted(s)
        <5> SUFFICES ASSUME Admitted(s) PROVE FALSE
          OBVIOUS
        <5>1. verdict' = [ip |-> task[s].ip, pass |-> TRUE]
          BY DEF Admitted, Judged
        <5> QED
          BY <4>2, <5>1
      <4>4. IsBlocked \/ row \notin {Missing, Unbound, task[s].ip}
        BY <2>6, <3>1, <4>3 DEF Judges
      <4> QED
        BY <4>2, <4>4
    <3>3. CASE Admitted(s) /\ task[s].cached # "true" /\ task[s].saved \in {Missing, task[s].ip}
      <4>1. verdict' = [ip |-> task[s].ip, pass |-> TRUE]
        BY <3>3 DEF Admitted, Judged
      <4>2. verdict'.ip = task[s].ip /\ verdict'.pass = TRUE
        BY <4>1
      <4> QED
        BY <3>1, <3>3, <4>2
    <3> QED
      BY <2>6, <3>2, <3>3 DEF Judges
  <2>7. CASE Notes(s)
    <3>1. row = task[s].ip /\ ~IsBlocked /\ UNCHANGED row
      BY <2>3, <2>4, <2>7 DEF GuardAgrees, Notes, At
    <3>2. verdict' = [ip |-> task[s].ip, pass |-> TRUE]
      BY <2>7 DEF Notes, Admitted, Judged
    <3>3. verdict'.ip = task[s].ip /\ verdict'.pass = TRUE
      BY <3>2
    <3> QED
      BY <3>1, <3>3
  <2> QED
    BY <2>2, <2>5, <2>6, <2>7
<1> QED
  BY <1>1, Invariant, PTL DEF Spec, VerdictIsRight
=============================================================================
