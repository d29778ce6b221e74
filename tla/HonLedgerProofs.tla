-------------------------- MODULE HonLedgerProofs --------------------------
(***************************************************************************)
(* Proofs about HonLedger, for any users, slots, amounts and settings:     *)
(* balances stay non-negative and backed however operations overlap, and   *)
(* the events explain the balances when operations come one at a time.     *)
(***************************************************************************)
EXTENDS HonInvariant, TLAPS

(* What the operations compute. *)

\* deductHon conserves HON: it takes exactly the amount, from either purse first,
\* and leaves both purses non-negative when the total suffices.
LEMMA DeductedExactly ==
  ASSUME NEW h \in Purses, NotNegative(h), NEW n \in Nat, n <= Total(h),
         NEW paidFirst \in BOOLEAN
  PROVE  LET d == Deducted(h, n, paidFirst) IN
           /\ d \in Purses /\ NotNegative(d)
           /\ Covers(h, d)
           /\ Total(d) = Total(h) - n
<1>1. h.free \in Int /\ h.paid \in Int /\ h.free >= 0 /\ h.paid >= 0
  BY DEF Purses, NotNegative
<1>2. n <= h.free + h.paid
  BY DEF Total
<1>3. CASE paidFirst
  <2>1. CASE h.paid <= n
    BY <1>1, <1>2, <1>3, <2>1 DEF Deducted, Smaller, Purse, Purses, NotNegative, Covers, Total
  <2>2. CASE ~(h.paid <= n)
    BY <1>1, <1>2, <1>3, <2>2 DEF Deducted, Smaller, Purse, Purses, NotNegative, Covers, Total
  <2> QED
    BY <2>1, <2>2
<1>4. CASE ~paidFirst
  <2>1. CASE h.free <= n
    BY <1>1, <1>2, <1>4, <2>1 DEF Deducted, Smaller, Purse, Purses, NotNegative, Covers, Total
  <2>2. CASE ~(h.free <= n)
    BY <1>1, <1>2, <1>4, <2>2 DEF Deducted, Smaller, Purse, Purses, NotNegative, Covers, Total
  <2> QED
    BY <2>1, <2>2
<1> QED
  BY <1>3, <1>4

\* A handler that is about to save.
Saving(a) == /\ a.op \in Ops \ {"open"}
             /\ a.amount \in Int /\ (a.op # "provision" => a.amount >= 0)
             /\ a.was \in Purses /\ NotNegative(a.was)
             /\ ~Short(a.op, a.amount, a.was)

\* What it saves is not negative, and nothing beyond what it read and credits.
LEMMA AfterFits ==
  ASSUME NEW a, Saving(a)
  PROVE  /\ After(a) \in Purses /\ NotNegative(After(a))
         /\ Credit(a) \in Purses /\ NotNegative(Credit(a))
         /\ Covers(Plus(a.was, Credit(a)), After(a))
<1>1. /\ a.was.free \in Int /\ a.was.paid \in Int /\ a.amount \in Int
      /\ a.was.free >= 0 /\ a.was.paid >= 0
  BY DEF Saving, Purses, NotNegative
<1>2. CASE a.op = "charge"
  BY <1>1, <1>2 DEF Saving, After, Credit, Given, Plus, Purse, Purses, NotNegative, Covers
<1>3. CASE a.op = "gift"
  BY <1>1, <1>3 DEF Saving, After, Credit, Given, Plus, Purse, Purses, NotNegative, Covers
<1>4. CASE a.op \in {"deduct", "recover"}
  <2>1. PICK b \in BOOLEAN : b = (a.op = "recover")
    OBVIOUS
  <2>2. a.amount \in Nat /\ a.amount <= Total(a.was)
    BY <1>1, <1>4 DEF Saving, Short, Total
  <2>3. After(a) = Deducted(a.was, a.amount, b) /\ Credit(a) = Purse(0, 0)
    BY <1>4, <2>1 DEF After, Credit
  <2>4. /\ After(a) \in Purses /\ NotNegative(After(a)) /\ Covers(a.was, After(a))
    BY <2>2, <2>3, DeductedExactly DEF Saving
  <2>5. Plus(a.was, Credit(a)) = Purse(a.was.free, a.was.paid)
    BY <1>1, <2>3 DEF Plus, Purse
  <2> QED
    BY <2>3, <2>4, <2>5 DEF Purse, Purses, NotNegative, Covers
<1>5. CASE a.op = "provision"
  <2>1. CASE a.amount >= 0
    BY <1>1, <1>5, <2>1 DEF After, Credit, Provisioned, Larger, Plus, Purse, Purses, NotNegative, Covers
  <2>2. CASE ~(a.amount >= 0)
    BY <1>1, <1>5, <2>2 DEF After, Credit, Provisioned, Larger, Plus, Purse, Purses, NotNegative, Covers
  <2> QED
    BY <2>1, <2>2
<1> QED
  BY <1>2, <1>3, <1>4, <1>5 DEF Saving, Ops

-----------------------------------------------------------------------------
(* The steps, whatever overlaps: IInv. *)

\* The initial state satisfies the invariant.
LEMMA InitIInv == Init => IInv
<1> SUFFICES ASSUME Init PROVE IInv
  OBVIOUS
<1>1. Purse(0, 0) \in Purses /\ Purse(0, 0).free = 0 /\ Purse(0, 0).paid = 0
  BY DEF Purse, Purses
<1>2. TypeOK
  <2>1. /\ users \subseteq Users /\ rows \subseteq users
        /\ hon \in [Users -> Purses] /\ credited \in [Users -> Purses]
        /\ opening \in [Users -> Nat]
    BY <1>1 DEF Init
  <2>2. book \in [Users -> Books]
    BY DEF Init, NoEvent, Books
  <2>3. task \in [Tasks -> [pc : Pcs, op : Ops \cup {"none"}, user : Users \cup {NoUser},
                            amount : Int, was : Purses, todo : SUBSET Users]]
    BY <1>1 DEF Init, Idle, Pcs
  <2>4. job \in [pc : {"idle", "commit"},
                 event : [type : DailyTypes \cup {"none"}, amount : Int],
                 seen : SUBSET Users, read : [Users -> Purses]]
    BY <1>1 DEF Init, NoJob
  <2>5. begun \in 0 .. MaxOps
    BY HonAssumption DEF Init
  <2> QED
    BY <2>1, <2>2, <2>3, <2>4, <2>5 DEF TypeOK
<1>3. Handlers
  BY DEF Init, Idle, Handlers, Employed, Informed
<1>4. Daily
  BY DEF Init, NoJob, Daily
<1>5. Solvent /\ Backed
  BY <1>1 DEF Init, Solvent, Backed
<1> QED
  BY <1>2, <1>3, <1>4, <1>5 DEF IInv

TaskType == [pc : Pcs, op : Ops \cup {"none"}, user : Users \cup {NoUser},
             amount : Int, was : Purses, todo : SUBSET Users]

\* A step that leaves the handlers alone, and takes away neither users nor
\* credit, leaves them in order.
LEMMA HandlersKept ==
  ASSUME TypeOK, Handlers, users \subseteq users', task' = task,
         credited' \in [Users -> Purses], \A u \in Users : Covers(credited'[u], credited[u])
  PROVE  Handlers'
<1> SUFFICES ASSUME NEW t \in Tasks PROVE Employed(task[t])' /\ Informed(task[t])'
  BY DEF Handlers
<1>1. task'[t] = task[t] /\ Employed(task[t]) /\ Informed(task[t]) /\ task[t] \in TaskType
  BY DEF Handlers, TypeOK, TaskType
<1>2. Employed(task[t])'
  BY <1>1 DEF Employed
<1>3. Informed(task[t])'
  <2> SUFFICES ASSUME task[t].pc \in {"save", "event"}
               PROVE  Covers(credited'[task[t].user], task[t].was)
    BY <1>1 DEF Informed
  <2>1. task[t].user \in Users
    BY <1>1 DEF Employed, TypeOK
  <2>2. /\ Covers(credited[task[t].user], task[t].was)
        /\ Covers(credited'[task[t].user], credited[task[t].user])
    BY <1>1, <2>1 DEF Informed
  <2>3. /\ credited[task[t].user] \in Purses /\ credited'[task[t].user] \in Purses
        /\ task[t].was \in Purses
    BY <1>1, <2>1 DEF TypeOK, TaskType
  <2> QED
    BY <2>2, <2>3 DEF Covers, Purses
<1> QED
  BY <1>2, <1>3

\* A handler that moves on alone: the others are as they were.
LEMMA HandlerMoves ==
  ASSUME TypeOK, Handlers, NEW t \in Tasks, NEW a \in TaskType,
         task' = [task EXCEPT ![t] = a], users \subseteq users',
         credited' \in [Users -> Purses], \A u \in Users : Covers(credited'[u], credited[u]),
         Employed(a)', Informed(a)'
  PROVE  Handlers' /\ task' \in [Tasks -> TaskType]
<1>1. task' \in [Tasks -> TaskType]
  BY DEF TypeOK, TaskType
<1>2. ASSUME NEW s \in Tasks PROVE Employed(task[s])' /\ Informed(task[s])'
  <2>1. CASE s = t
    BY <2>1 DEF TypeOK, Employed, Informed
  <2>2. CASE s # t
    <3>1. task'[s] = task[s] /\ Employed(task[s]) /\ Informed(task[s]) /\ task[s] \in TaskType
      BY <2>2 DEF Handlers, TypeOK, TaskType
    <3>2. Employed(task[s])'
      BY <3>1 DEF Employed
    <3>3. Informed(task[s])'
      <4> SUFFICES ASSUME task[s].pc \in {"save", "event"}
                   PROVE  Covers(credited'[task[s].user], task[s].was)
        BY <3>1 DEF Informed
      <4>1. task[s].user \in Users
        BY <3>1 DEF Employed, TypeOK
      <4>2. /\ Covers(credited[task[s].user], task[s].was)
            /\ Covers(credited'[task[s].user], credited[task[s].user])
        BY <3>1, <4>1 DEF Informed
      <4>3. /\ credited[task[s].user] \in Purses /\ credited'[task[s].user] \in Purses
            /\ task[s].was \in Purses
        BY <3>1, <4>1 DEF TypeOK, TaskType
      <4> QED
        BY <4>2, <4>3 DEF Covers, Purses
    <3> QED
      BY <3>2, <3>3
  <2> QED
    BY <2>1, <2>2
<1> QED
  BY <1>1, <1>2 DEF Handlers

\* Covers is reflexive, and credit only grows when a purse is added to it.
LEMMA CoversGrows ==
  ASSUME NEW h \in Purses, NEW k \in Purses, NotNegative(k)
  PROVE  Plus(h, k) \in Purses /\ Covers(Plus(h, k), h) /\ Covers(h, h)
BY DEF Purses, NotNegative, Plus, Purse, Covers

LEMMA ZeroPurse == Purse(0, 0) \in Purses /\ Purse(0, 0).free = 0 /\ Purse(0, 0).paid = 0
BY DEF Purse, Purses

\* An operation that begins leaves the invariant, whatever else is under way.
LEMMA BeginIInv ==
  ASSUME IInv, NEW t \in Tasks, NEW u \in Users, NEW op \in Ops, NEW n \in Int,
         NEW todo \in SUBSET Users, NEW pc \in {"load", "create"},
         users \subseteq users', users' \subseteq Users, u \in users', todo \subseteq users',
         pc = "create" <=> op = "open", op = "open" => todo = {},
         op # "provision" => n >= 0,
         Begin(t, pc, op, u, n, todo)
  PROVE  IInv'
<1>1. PICK a : a = [pc |-> pc, op |-> op, user |-> u, amount |-> n,
                    was |-> Purse(0, 0), todo |-> todo]
  OBVIOUS
<1>2. a \in TaskType
  BY <1>1, ZeroPurse DEF TaskType, Pcs
<1>3. task' = [task EXCEPT ![t] = a] /\ UNCHANGED <<rows, hon, book, opening, credited, job>>
  BY <1>1 DEF Begin
<1>4. credited' \in [Users -> Purses] /\ \A v \in Users : Covers(credited'[v], credited[v])
  BY <1>3 DEF IInv, TypeOK, Covers, Purses
<1>5. Employed(a)' /\ Informed(a)'
  BY <1>1 DEF Employed, Informed
<1>6. Handlers' /\ task' \in [Tasks -> TaskType]
  BY <1>2, <1>3, <1>4, <1>5, HandlerMoves DEF IInv
<1>7. begun' \in 0 .. MaxOps
  BY HonAssumption DEF Begin, MayBegin, IInv, TypeOK
<1>8. TypeOK'
  BY <1>3, <1>6, <1>7 DEF IInv, TypeOK, TaskType
<1>9. Daily' /\ Solvent' /\ Backed'
  BY <1>3 DEF IInv, Daily, Solvent, Backed
<1> QED
  BY <1>6, <1>8, <1>9 DEF IInv

\* A handler that is over, or goes on with its bulk, leaves the handlers in order.
LEMMA DoneHandlers ==
  ASSUME TypeOK, Handlers, NEW t \in Tasks, task[t].pc # "idle", Done(t), users' = users,
         credited' \in [Users -> Purses], \A u \in Users : Covers(credited'[u], credited[u])
  PROVE  Handlers' /\ task' \in [Tasks -> TaskType]
<1>1. task[t] \in TaskType /\ Employed(task[t])
  BY DEF TypeOK, TaskType, Handlers
<1>2. CASE task' = [task EXCEPT ![t] = Idle]
  <2>1. Idle \in TaskType
    BY ZeroPurse DEF Idle, TaskType, Pcs
  <2>2. Employed(Idle)' /\ Informed(Idle)'
    BY DEF Idle, Employed, Informed
  <2>3. PICK a : a = Idle
    OBVIOUS
  <2> QED
    BY <1>2, <2>1, <2>2, <2>3, HandlerMoves
<1>3. CASE task' # [task EXCEPT ![t] = Idle]
  <2>1. PICK u \in task[t].todo :
          task' = [task EXCEPT ![t] = [pc |-> "load", op |-> task[t].op, user |-> u,
                                       amount |-> task[t].amount, was |-> Purse(0, 0),
                                       todo |-> task[t].todo \ {u}]]
    BY <1>3 DEF Done
  <2>2. PICK a : a = [pc |-> "load", op |-> task[t].op, user |-> u,
                      amount |-> task[t].amount, was |-> Purse(0, 0),
                      todo |-> task[t].todo \ {u}]
    OBVIOUS
  <2>3. a \in TaskType
    BY <1>1, <2>1, <2>2, ZeroPurse DEF TaskType, Pcs
  <2>4. Employed(a)' /\ Informed(a)'
    BY <1>1, <2>1, <2>2 DEF Employed, Informed
  <2> QED
    BY <2>1, <2>2, <2>3, <2>4, HandlerMoves
<1> QED
  BY <1>2, <1>3 DEF Done

\* Every way an operation can arrive begins it in order.
LEMMA ArriveIInv ==
  ASSUME IInv, NEW t \in Tasks, Arrive(t)
  PROVE  IInv'
<1>1. WelcomeHon \in Int /\ WelcomeHon >= 0 /\ users \subseteq Users
  BY HonAssumption DEF IInv, TypeOK
<1>2. ASSUME NEW u \in Users, Register(t, u) PROVE IInv'
  <2>1. users' = users \cup {u} /\ Begin(t, "load", "gift", u, WelcomeHon, {})
    BY <1>2 DEF Register
  <2> QED
    BY <1>1, <2>1, BeginIInv DEF Ops
<1>3. ASSUME NEW u \in Users, CreateInquiry(t, u) PROVE IInv'
  <2>1. users' = users \cup {u} /\ Begin(t, "create", "open", u, 0, {})
    BY <1>3 DEF CreateInquiry
  <2> QED
    BY <1>1, <2>1, BeginIInv DEF Ops
<1>4. ASSUME NEW u \in Users, ChargeHon(t, u) PROVE IInv'
  <2>1. PICK n \in Charges : Begin(t, "load", "charge", u, n, {})
    BY <1>4 DEF ChargeHon
  <2>2. n \in Int /\ n >= 0 /\ users' = users /\ u \in users
    BY <1>4, HonAssumption DEF ChargeHon
  <2> QED
    BY <1>1, <2>1, <2>2, BeginIInv DEF Ops
<1>5. ASSUME NEW u \in Users, DeductHon(t, u) PROVE IInv'
  <2>1. PICK n \in Fees, op \in {"deduct", "recover"} : Begin(t, "load", op, u, n, {})
    BY <1>5 DEF DeductHon
  <2>2. n \in Int /\ n >= 0 /\ users' = users /\ u \in users
    BY <1>5, HonAssumption DEF DeductHon
  <2> QED
    BY <1>1, <2>1, <2>2, BeginIInv DEF Ops
<1>6. ASSUME NEW u \in Users, ProvisionHonByAdmin(t, u) PROVE IInv'
  <2>1. PICK n \in AdminAmounts : Begin(t, "load", "provision", u, n, {})
    BY <1>6 DEF ProvisionHonByAdmin
  <2>2. n \in Int /\ users' = users /\ u \in users
    BY <1>6, HonAssumption DEF ProvisionHonByAdmin
  <2> QED
    BY <1>1, <2>1, <2>2, BeginIInv DEF Ops
<1>7. ASSUME BulkProvisionHonByAdmin(t) PROVE IInv'
  <2>1. PICK u \in users, n \in AdminAmounts :
          Begin(t, "load", "provision", u, n, users \ {u})
    BY <1>7 DEF BulkProvisionHonByAdmin
  <2>2. n \in Int /\ users' = users /\ u \in Users /\ users \ {u} \in SUBSET Users
    BY <1>1, <1>7, HonAssumption DEF BulkProvisionHonByAdmin
  <2> QED
    BY <1>1, <2>1, <2>2, BeginIInv DEF Ops
<1> QED
  BY <1>2, <1>3, <1>4, <1>5, <1>6, <1>7 DEF Arrive

\* The welcome HON is credited as it is written.
LEMMA WelcomedKeeps ==
  ASSUME IInv, NEW u \in Users, u \notin rows, Welcomed(u)
  PROVE  /\ hon' \in [Users -> Purses] /\ credited' \in [Users -> Purses]
         /\ opening' \in [Users -> Nat]
         /\ rows' = rows \cup {u}
         /\ \A v \in Users : Covers(credited'[v], credited[v])
         /\ Solvent' /\ Backed'
<1>1. /\ hon \in [Users -> Purses] /\ credited \in [Users -> Purses] /\ opening \in [Users -> Nat]
      /\ WelcomeHon \in Nat
  BY HonAssumption DEF IInv, TypeOK
<1>2. Purse(WelcomeHon, 0) \in Purses /\ NotNegative(Purse(WelcomeHon, 0))
  BY <1>1 DEF Purse, Purses, NotNegative
<1>3. Plus(credited[u], Purse(WelcomeHon, 0)) \in Purses
      /\ Covers(Plus(credited[u], Purse(WelcomeHon, 0)), credited[u])
  BY <1>1, <1>2, CoversGrows
<1>4. /\ hon' \in [Users -> Purses] /\ credited' \in [Users -> Purses]
      /\ opening' \in [Users -> Nat] /\ rows' = rows \cup {u}
  BY <1>1, <1>2, <1>3 DEF Welcomed
<1>5. \A v \in Users : Covers(credited'[v], credited[v])
  <2> TAKE v \in Users
  <2>1. CASE v = u
    BY <1>1, <1>3, <2>1 DEF Welcomed
  <2>2. CASE v # u
    BY <1>1, <2>2, CoversGrows, ZeroPurse DEF Welcomed, Covers, Purses
  <2> QED
    BY <2>1, <2>2
<1>6. Solvent'
  BY <1>1, <1>2 DEF Welcomed, Solvent, IInv, NotNegative
<1>7. Backed'
  <2> SUFFICES ASSUME NEW v \in Users
               PROVE  hon'[v].free <= credited'[v].free /\ hon'[v].paid <= credited'[v].paid
    BY DEF Backed
  <2>1. CASE v = u
    <3>1. credited[u].free \in Int /\ credited[u].paid \in Int
          /\ credited[u].free >= 0 /\ credited[u].paid >= 0
      BY <1>1 DEF IInv, Solvent, Backed, Purses
    <3>2. hon'[u] = Purse(WelcomeHon, 0) /\ credited'[u] = Plus(credited[u], Purse(WelcomeHon, 0))
      BY <1>1 DEF Welcomed
    <3> QED
      BY <1>1, <2>1, <3>1, <3>2 DEF Plus, Purse
  <2>2. CASE v # u
    BY <1>1, <2>2 DEF Welcomed, IInv, Backed
  <2> QED
    BY <2>1, <2>2
<1> QED
  BY <1>4, <1>5, <1>6, <1>7

LEMMA SignupIInv ==
  ASSUME IInv, NEW u \in Users, Signup(u)
  PROVE  IInv'
<1>1. u \notin rows /\ Welcomed(u)
  BY DEF IInv, TypeOK, Signup
<1>2. /\ hon' \in [Users -> Purses] /\ credited' \in [Users -> Purses]
      /\ opening' \in [Users -> Nat] /\ rows' = rows \cup {u}
      /\ \A v \in Users : Covers(credited'[v], credited[v])
      /\ Solvent' /\ Backed'
  BY <1>1, WelcomedKeeps
<1>3. Handlers'
  BY <1>2, HandlersKept DEF IInv, Signup
<1>4. begun' \in 0 .. MaxOps
  BY HonAssumption DEF Signup, MayBegin, IInv, TypeOK
<1>5. TypeOK'
  BY <1>2, <1>4 DEF Signup, IInv, TypeOK
<1>6. Daily'
  BY DEF Signup, IInv, Daily
<1> QED
  BY <1>2, <1>3, <1>5, <1>6 DEF IInv

LEMMA CreateHonIInv ==
  ASSUME IInv, NEW t \in Tasks, CreateHon(t)
  PROVE  IInv'
<1>1. task[t].user \in users /\ users \subseteq Users /\ task[t].pc # "idle"
  BY DEF CreateHon, IInv, Handlers, Employed, TypeOK
<1>2. /\ hon' \in [Users -> Purses] /\ credited' \in [Users -> Purses]
      /\ opening' \in [Users -> Nat] /\ rows' \subseteq users
      /\ \A v \in Users : Covers(credited'[v], credited[v])
      /\ Solvent' /\ Backed'
  <2>1. CASE task[t].user \in rows
    <3>1. UNCHANGED <<rows, hon, opening, credited>>
      BY <2>1 DEF CreateHon
    <3> QED
      BY <3>1, CoversGrows DEF IInv, TypeOK, Solvent, Backed, Covers, Purses
  <2>2. CASE task[t].user \notin rows
    <3>1. Welcomed(task[t].user)
      BY <2>2 DEF CreateHon
    <3>2. PICK u \in Users : u = task[t].user
      BY <1>1
    <3> QED
      BY <1>1, <2>2, <3>1, <3>2, WelcomedKeeps DEF IInv, TypeOK
  <2> QED
    BY <2>1, <2>2
<1>3. Handlers' /\ task' \in [Tasks -> TaskType]
  BY <1>1, <1>2, DoneHandlers DEF CreateHon, IInv
<1>4. TypeOK'
  BY <1>2, <1>3 DEF CreateHon, IInv, TypeOK, TaskType
<1>5. Daily'
  BY DEF CreateHon, IInv, Daily
<1> QED
  BY <1>2, <1>3, <1>4, <1>5 DEF IInv

\* A step that changes nothing but the handlers, the events or the job.
LEMMA BalancesKept ==
  ASSUME IInv, UNCHANGED <<users, rows, hon, opening, credited, begun>>,
         Handlers', task' \in [Tasks -> TaskType],
         book' \in [Users -> Books], UNCHANGED job
  PROVE  IInv'
<1>1. TypeOK'
  BY DEF IInv, TypeOK, TaskType
<1>2. Daily' /\ Solvent' /\ Backed'
  BY DEF IInv, Daily, Solvent, Backed
<1> QED
  BY <1>1, <1>2 DEF IInv

\* Nothing less is credited when nothing is.
LEMMA CreditKept ==
  ASSUME TypeOK, credited' = credited
  PROVE  credited' \in [Users -> Purses] /\ \A v \in Users : Covers(credited'[v], credited[v])
<1>1. \A v \in Users : credited[v] \in Purses
  BY DEF TypeOK
<1> QED
  BY <1>1, CoversGrows, ZeroPurse DEF TypeOK, Covers, Purses

LEMMA GetHonIInv ==
  ASSUME IInv, NEW t \in Tasks, GetHon(t)
  PROVE  IInv'
<1> DEFINE h == hon[task[t].user]
<1>1. /\ task[t].pc = "load" /\ task[t] \in TaskType /\ Employed(task[t])
      /\ UNCHANGED <<users, rows, hon, book, opening, credited, job, begun>>
  BY DEF GetHon, IInv, TypeOK, TaskType, Handlers
<1>2. /\ task[t].user \in Users /\ h \in Purses /\ NotNegative(h)
      /\ Covers(credited[task[t].user], h)
  BY <1>1 DEF Employed, IInv, TypeOK, Solvent, Backed, NotNegative, Covers
<1>3. Handlers' /\ task' \in [Tasks -> TaskType]
  <2>1. CASE Short(task[t].op, task[t].amount, h)
    BY <1>1, <2>1, DoneHandlers, CreditKept DEF GetHon, IInv
  <2>2. CASE ~Short(task[t].op, task[t].amount, h)
    <3>1. PICK a : a = [pc |-> "save", op |-> task[t].op, user |-> task[t].user,
                        amount |-> task[t].amount, was |-> h, todo |-> task[t].todo]
      OBVIOUS
    <3>2. task' = [task EXCEPT ![t] = a]
      BY <2>2, <3>1 DEF GetHon, Advance
    <3>3. a \in TaskType
      BY <1>1, <1>2, <3>1 DEF TaskType, Pcs
    <3>4. Employed(a)' /\ Informed(a)'
      BY <1>1, <1>2, <2>2, <3>1 DEF Employed, Informed
    <3> QED
      BY <1>1, <3>2, <3>3, <3>4, HandlerMoves, CreditKept DEF IInv
  <2> QED
    BY <2>1, <2>2
<1>4. book' \in [Users -> Books]
  BY <1>1 DEF IInv, TypeOK
<1> QED
  BY <1>1, <1>3, <1>4, BalancesKept

\* A handler about to save, or that has saved, is in the position AfterFits speaks of.
LEMMA SavingIs ==
  ASSUME IInv, NEW t \in Tasks, task[t].pc \in {"save", "event"}
  PROVE  /\ Saving(task[t]) /\ task[t].user \in Users /\ task[t].user \in users
         /\ Covers(credited[task[t].user], task[t].was)
BY DEF IInv, TypeOK, Handlers, Employed, Informed, Saving

LEMMA SaveHonIInv ==
  ASSUME IInv, NEW t \in Tasks, SaveHon(t)
  PROVE  IInv'
<1> DEFINE b == task[t]
<1>1. /\ b.pc = "save" /\ b \in TaskType /\ Employed(b)
      /\ UNCHANGED <<users, book, opening, job, begun>>
      /\ rows' = rows \cup {b.user}
      /\ hon' = [hon EXCEPT ![b.user] = After(b)]
      /\ credited' = [credited EXCEPT ![b.user] = Plus(credited[b.user], Credit(b))]
      /\ Advance(t, "event", b.was)
  BY DEF SaveHon, IInv, TypeOK, TaskType, Handlers
<1>2. /\ Saving(b) /\ b.user \in Users /\ b.user \in users /\ Covers(credited[b.user], b.was)
  BY <1>1, SavingIs
<1>3. /\ After(b) \in Purses /\ NotNegative(After(b))
      /\ Credit(b) \in Purses /\ NotNegative(Credit(b))
      /\ Covers(Plus(b.was, Credit(b)), After(b))
  BY <1>2, AfterFits
<1>4. hon \in [Users -> Purses] /\ credited \in [Users -> Purses]
  BY DEF IInv, TypeOK
<1>5. /\ Plus(credited[b.user], Credit(b)) \in Purses
      /\ Covers(Plus(credited[b.user], Credit(b)), credited[b.user])
  BY <1>2, <1>3, <1>4, CoversGrows
<1>6. /\ hon' \in [Users -> Purses] /\ credited' \in [Users -> Purses]
  BY <1>1, <1>3, <1>4, <1>5
<1>7. \A v \in Users : Covers(credited'[v], credited[v])
  <2> TAKE v \in Users
  <2>1. CASE v = b.user
    BY <1>1, <1>4, <1>5, <2>1
  <2>2. CASE v # b.user
    BY <1>1, <1>4, <2>2 DEF Covers, Purses
  <2> QED
    BY <2>1, <2>2
<1>8. Handlers' /\ task' \in [Tasks -> TaskType]
  <2>1. PICK a : a = [pc |-> "event", op |-> b.op, user |-> b.user,
                      amount |-> b.amount, was |-> b.was, todo |-> b.todo]
    OBVIOUS
  <2>2. task' = [task EXCEPT ![t] = a]
    BY <1>1, <2>1 DEF Advance
  <2>3. a \in TaskType
    BY <1>1, <2>1 DEF TaskType, Pcs
  <2>4. Covers(credited'[b.user], b.was)
    <3>1. b.was \in Purses /\ credited[b.user] \in Purses /\ credited'[b.user] \in Purses
      BY <1>1, <1>2, <1>4, <1>6 DEF TaskType
    <3> QED
      BY <1>2, <1>7, <3>1 DEF Covers, Purses
  <2>5. Employed(a)' /\ Informed(a)'
    BY <1>1, <1>2, <2>1, <2>4 DEF Employed, Informed, Saving
  <2> QED
    BY <1>1, <1>6, <1>7, <2>2, <2>3, <2>5, HandlerMoves DEF IInv
<1>9. TypeOK'
  BY <1>1, <1>2, <1>6, <1>8 DEF IInv, TypeOK, TaskType
<1>10. Solvent'
  BY <1>1, <1>3, <1>4 DEF IInv, Solvent, NotNegative
<1>11. Backed'
  <2> SUFFICES ASSUME NEW v \in Users
               PROVE  hon'[v].free <= credited'[v].free /\ hon'[v].paid <= credited'[v].paid
    BY DEF Backed
  <2>1. CASE v = b.user
    <3>1. Covers(Plus(credited[b.user], Credit(b)), Plus(b.was, Credit(b)))
      <4>1. b.was \in Purses /\ credited[b.user] \in Purses
        BY <1>1, <1>2, <1>4 DEF TaskType
      <4> QED
        BY <1>2, <1>3, <4>1 DEF Covers, Plus, Purse, Purses
    <3>2. Plus(b.was, Credit(b)) \in Purses
      BY <1>1, <1>3 DEF Plus, Purse, Purses, TaskType
    <3>3. Covers(Plus(credited[b.user], Credit(b)), After(b))
      BY <1>3, <1>5, <3>1, <3>2 DEF Covers, Purses
    <3> QED
      BY <1>1, <1>2, <1>4, <2>1, <3>3 DEF Covers
  <2>2. CASE v # b.user
    BY <1>1, <1>4, <2>2 DEF IInv, Backed
  <2> QED
    BY <2>1, <2>2
<1>12. Daily'
  BY <1>1 DEF IInv, Daily
<1> QED
  BY <1>8, <1>9, <1>10, <1>11, <1>12 DEF IInv

\* The columns of an event are integers.
LEMMA AfterTyped ==
  ASSUME NEW a \in TaskType, a.op \in Ops \ {"open"}
  PROVE  /\ After(a) \in Purses /\ Signed(a) \in Int /\ BalanceOf(a) \in Int
         /\ Change(a.was, After(a)) \in Purses
<1>1. a.was.free \in Int /\ a.was.paid \in Int /\ a.amount \in Int /\ a.was \in Purses
  BY DEF TaskType, Purses
<1>2. \A b \in BOOLEAN : Deducted(a.was, a.amount, b) \in Purses
  BY <1>1 DEF Deducted, Smaller, Purse, Purses
<1>3. Provisioned(a.was, a.amount) \in Purses
  BY <1>1 DEF Provisioned, Larger, Purse, Purses
<1>4. Plus(a.was, Given(a.op, a.amount)) \in Purses
  BY <1>1 DEF Plus, Given, Purse, Purses
<1>5. After(a) \in Purses
  <2>1. CASE a.op \in {"charge", "gift"}
    BY <1>4, <2>1 DEF After
  <2>2. CASE a.op = "deduct"
    BY <1>2, <2>2 DEF After
  <2>3. CASE a.op = "recover"
    BY <1>2, <2>3 DEF After
  <2>4. CASE a.op = "provision"
    BY <1>3, <2>4 DEF After
  <2> QED
    BY <2>1, <2>2, <2>3, <2>4 DEF Ops
<1>6. After(a).free \in Int /\ After(a).paid \in Int
  BY <1>5 DEF Purses
<1>7. Signed(a) \in Int /\ BalanceOf(a) \in Int
  BY <1>1, <1>6 DEF Signed, BalanceOf, Total
<1>8. Change(a.was, After(a)) \in Purses
  BY <1>1, <1>6 DEF Change, Purse, Purses
<1> QED
  BY <1>5, <1>7, <1>8

LEMMA EnteredTyped ==
  ASSUME NEW b \in Books, NEW by \in Ops \cup {"daily"}, NEW n \in Int,
         NEW change \in Purses, NEW balance \in Int
  PROVE  Entered(b, by, n, change, balance) \in Books
BY DEF Entered, Books, Purses

LEMMA SaveHonEventIInv ==
  ASSUME IInv, NEW t \in Tasks, SaveHonEvent(t)
  PROVE  IInv'
<1> DEFINE a == task[t]
<1>1. /\ a.pc = "event" /\ a \in TaskType /\ Employed(a) /\ book \in [Users -> Books]
      /\ UNCHANGED <<users, rows, hon, opening, credited, job, begun>> /\ Done(t)
  BY DEF SaveHonEvent, IInv, TypeOK, TaskType, Handlers
<1>2. Handlers' /\ task' \in [Tasks -> TaskType]
  BY <1>1, DoneHandlers, CreditKept DEF IInv
<1>3. a.user \in Users /\ a.op \in Ops \ {"open"}
  BY <1>1 DEF Employed, IInv, TypeOK
<1>4. /\ Signed(a) \in Int /\ BalanceOf(a) \in Int /\ Change(a.was, After(a)) \in Purses
  BY <1>1, <1>3, AfterTyped
<1>5. Entered(book[a.user], a.op, Signed(a), Change(a.was, After(a)), BalanceOf(a)) \in Books
  BY <1>1, <1>3, <1>4, EnteredTyped
<1>6. book' \in [Users -> Books]
  BY <1>1, <1>3, <1>5 DEF SaveHonEvent
<1> QED
  BY <1>1, <1>2, <1>6, BalancesKept

LEMMA RefusedIInv ==
  ASSUME IInv, NEW t \in Tasks, Refused(t)
  PROVE  IInv'
<1>1. /\ task[t].pc # "idle" /\ Done(t)
      /\ UNCHANGED <<users, rows, hon, book, opening, credited, job, begun>>
  BY DEF Refused
<1>2. Handlers' /\ task' \in [Tasks -> TaskType]
  BY <1>1, DoneHandlers, CreditKept DEF IInv
<1>3. book' \in [Users -> Books]
  BY <1>1 DEF IInv, TypeOK
<1> QED
  BY <1>1, <1>2, <1>3, BalancesKept

NoJobTyped(j) == j \in [pc : {"idle", "commit"},
                        event : [type : DailyTypes \cup {"none"}, amount : Int],
                        seen : SUBSET Users, read : [Users -> Purses]]

LEMMA NoJobIs == NoJobTyped(NoJob) /\ NoJob.pc = "idle"
BY ZeroPurse DEF NoJob, NoJobTyped

LEMMA CrashIInv ==
  ASSUME IInv, Crash
  PROVE  IInv'
<1>1. /\ task' = [t \in Tasks |-> Idle] /\ job' = NoJob
      /\ UNCHANGED <<users, rows, hon, book, opening, credited, begun>>
  BY DEF Crash
<1>2. Idle \in TaskType
  BY ZeroPurse DEF Idle, TaskType, Pcs
<1>3. TypeOK'
  BY <1>1, <1>2, NoJobIs DEF IInv, TypeOK, TaskType, NoJobTyped
<1>4. Handlers'
  BY <1>1 DEF Handlers, Employed, Informed, Idle
<1>5. Daily' /\ Solvent' /\ Backed'
  BY <1>1, NoJobIs DEF IInv, Daily, Solvent, Backed
<1> QED
  BY <1>3, <1>4, <1>5 DEF IInv

\* The daily job reads, or gives up.
LEMMA DailyReadIInv ==
  ASSUME IInv, (\E e \in DailyEvents : DailyRead(e)) \/ DailyRefused
  PROVE  IInv'
<1>1. UNCHANGED <<users, rows, hon, book, opening, credited, task>>
  BY DEF DailyRead, DailyRefused
<1>2. Handlers'
  BY <1>1, HandlersKept, CreditKept DEF IInv
<1>3. NoJobTyped(job') /\ Daily' /\ begun' \in 0 .. MaxOps
  <2>1. CASE DailyRefused
    BY <2>1, NoJobIs DEF DailyRefused, IInv, TypeOK, Daily
  <2>2. CASE \E e \in DailyEvents : DailyRead(e)
    <3>1. PICK e \in DailyEvents : DailyRead(e)
      BY <2>2
    <3>2. job' = [pc |-> "commit", event |-> e, seen |-> Eligible(e), read |-> hon]
      BY <3>1 DEF DailyRead
    <3>3. e \in [type : DailyTypes \cup {"none"}, amount : Int]
      BY HonAssumption
    <3>4. Eligible(e) \subseteq Users
      BY DEF Eligible, IInv, TypeOK
    <3>5. begun' \in 0 .. MaxOps
      BY <3>1, HonAssumption DEF DailyRead, MayBegin, IInv, TypeOK
    <3> QED
      BY <3>2, <3>3, <3>4, <3>5 DEF NoJobTyped, Daily, IInv, TypeOK
  <2> QED
    BY <2>1, <2>2
<1>4. TypeOK'
  BY <1>1, <1>3 DEF IInv, TypeOK, NoJobTyped
<1>5. Solvent' /\ Backed'
  BY <1>1 DEF IInv, Solvent, Backed
<1> QED
  BY <1>2, <1>3, <1>4, <1>5 DEF IInv

\* The daily job's gain is not negative for a row it is eligible to lift.
LEMMA GainFits ==
  ASSUME NEW e \in DailyEvents, NEW h \in Purses
  PROVE  /\ DailyGain(e, h) \in Purses
         /\ AddsGive => (e.type = "ADD" \/ h.free < e.amount => NotNegative(DailyGain(e, h)))
BY HonAssumption DEF AddsGive, DailyGain, Purse, Purses, NotNegative, DailyTypes

LEMMA DailyCommitIInv ==
  ASSUME AddsGive, IInv, DailyCommit
  PROVE  IInv'
<1> DEFINE e == job.event
           gain(u) == DailyGain(e, hon[u])
<1>1. /\ e \in DailyEvents /\ job' = NoJob
      /\ UNCHANGED <<users, rows, opening, task, begun>>
      /\ hon \in [Users -> Purses] /\ credited \in [Users -> Purses]
      /\ book \in [Users -> Books] /\ job.read \in [Users -> Purses]
  BY DEF DailyCommit, IInv, Daily, TypeOK
<1>2. \A u \in Users :
        /\ gain(u) \in Purses
        /\ u \in Eligible(e) => NotNegative(gain(u))
  BY <1>1, GainFits DEF Eligible
<1>3. \A u \in Users :
        /\ Plus(hon[u], gain(u)) \in Purses
        /\ Plus(credited[u], gain(u)) \in Purses
  BY <1>1, <1>2 DEF Plus, Purse, Purses
<1>4. /\ hon' = [u \in Users |-> IF u \in Eligible(e) THEN Plus(hon[u], gain(u)) ELSE hon[u]]
      /\ credited' = [u \in Users |->
           IF u \in Eligible(e) THEN Plus(credited[u], gain(u)) ELSE credited[u]]
  BY DEF DailyCommit
<1>5. hon' \in [Users -> Purses] /\ credited' \in [Users -> Purses]
  BY <1>1, <1>3, <1>4
<1>6. \A u \in Users : Covers(credited'[u], credited[u])
  <2> TAKE u \in Users
  <2>1. credited[u] \in Purses /\ gain(u) \in Purses
    BY <1>1, <1>2
  <2>2. CASE u \in Eligible(e)
    BY <1>2, <1>4, <2>1, <2>2, CoversGrows
  <2>3. CASE u \notin Eligible(e)
    BY <1>4, <2>1, <2>3 DEF Covers, Purses
  <2> QED
    BY <2>2, <2>3
<1>7. Handlers'
  BY <1>1, <1>5, <1>6, HandlersKept DEF IInv
<1>8. book' \in [Users -> Books]
  <2>1. ASSUME NEW u \in Users
        PROVE  LET g == DailyGain(e, job.read[u])
               IN  Entered(book[u], "daily", g.free, g, Total(Plus(job.read[u], g))) \in Books
    <3>1. DailyGain(e, job.read[u]) \in Purses /\ job.read[u] \in Purses
      BY <1>1, GainFits
    <3>2. Total(Plus(job.read[u], DailyGain(e, job.read[u]))) \in Int
      BY <3>1 DEF Total, Plus, Purse, Purses
    <3>3. DailyGain(e, job.read[u]).free \in Int
      BY <3>1 DEF Purses
    <3> QED
      BY <1>1, <3>1, <3>2, <3>3, EnteredTyped
  <2> QED
    BY <1>1, <2>1 DEF DailyCommit
<1>9. TypeOK'
  BY <1>1, <1>5, <1>8, NoJobIs DEF IInv, TypeOK, NoJobTyped
<1>10. Solvent' /\ Backed'
  <2> SUFFICES ASSUME NEW u \in Users
               PROVE  /\ hon'[u].free >= 0 /\ hon'[u].paid >= 0
                      /\ hon'[u].free <= credited'[u].free /\ hon'[u].paid <= credited'[u].paid
    BY DEF Solvent, Backed
  <2>1. /\ hon[u] \in Purses /\ credited[u] \in Purses /\ gain(u) \in Purses
        /\ NotNegative(hon[u]) /\ Covers(credited[u], hon[u])
    BY <1>1, <1>2 DEF IInv, Solvent, Backed, NotNegative, Covers
  <2>2. CASE u \in Eligible(e)
    BY <1>2, <1>4, <2>1, <2>2 DEF Plus, Purse, Purses, NotNegative, Covers
  <2>3. CASE u \notin Eligible(e)
    BY <1>4, <2>1, <2>3 DEF NotNegative, Covers
  <2> QED
    BY <2>2, <2>3
<1>11. Daily'
  BY <1>1, NoJobIs DEF Daily
<1> QED
  BY <1>7, <1>9, <1>10, <1>11 DEF IInv

\* The invariant is inductive.
LEMMA StepIInv ==
  ASSUME AddsGive
  PROVE  IInv /\ [Next]_vars => IInv'
<1> SUFFICES ASSUME IInv, [Next]_vars PROVE IInv'
  OBVIOUS
<1>1. CASE UNCHANGED vars
  <2>1. Handlers'
    BY <1>1, HandlersKept, CreditKept DEF vars, IInv
  <2> QED
    BY <1>1, <2>1 DEF vars, IInv, TypeOK, Daily, Solvent, Backed
<1>2. ASSUME NEW t \in Tasks, Arrive(t) \/ Proceed(t) \/ Refused(t) PROVE IInv'
  BY <1>2, ArriveIInv, GetHonIInv, SaveHonIInv, SaveHonEventIInv, CreateHonIInv, RefusedIInv
     DEF Proceed
<1>3. ASSUME NEW u \in Users, Signup(u) PROVE IInv'
  BY <1>3, SignupIInv
<1> QED
  BY <1>1, <1>2, <1>3, DailyReadIInv, DailyCommitIInv, CrashIInv DEF Next

LEMMA InvarianceIInv ==
  ASSUME AddsGive
  PROVE  Spec => []IInv
BY InitIInv, StepIInv, PTL DEF Spec

\* Type correctness of HonService's state, whatever overlaps.
THEOREM TypeCorrect ==
  ASSUME AddsGive
  PROVE  Spec => []TypeOK
<1>1. IInv => TypeOK
  BY DEF IInv
<1> QED
  BY <1>1, InvarianceIInv, PTL

\* While no ADD setting takes HON, no interleaving of chargeHon, deductHon,
\* provisionHonByAdmin and the daily job, and no failure between their steps, makes a
\* balance negative.
THEOREM NoOverdraft ==
  ASSUME AddsGive
  PROVE  Spec => []Solvent
<1>1. IInv => Solvent
  BY DEF IInv
<1> QED
  BY <1>1, InvarianceIInv, PTL

\* No interleaving makes HON out of nothing: free HON was given, and paid HON,
\* which confirmRefund turns back into money, was bought.
THEOREM HonIsBacked ==
  ASSUME AddsGive
  PROVE  Spec => []Backed
<1>1. IInv => Backed
  BY DEF IInv
<1> QED
  BY <1>1, InvarianceIInv, PTL

LEMMA SplitSum ==
  \A f, p, g, q, n \in Int : g + q = (f + p) - n => (g - f) + (q - p) = -n
OBVIOUS

\* What a handler saves differs from what it read by the amount of its operation.
LEMMA ExactChange ==
  ASSUME NEW a, Saving(a), ~(a.op = "provision" /\ a.amount < 0)
  PROVE  Total(Change(a.was, After(a))) = Signed(a)
<1>1. /\ a.was.free \in Int /\ a.was.paid \in Int /\ a.amount \in Int
      /\ a.was.free >= 0 /\ a.was.paid >= 0
  BY DEF Saving, Purses, NotNegative
<1>2. CASE a.op \in {"charge", "gift"}
  <2>1. After(a) = Plus(a.was, Given(a.op, a.amount)) /\ Signed(a) = a.amount
    BY <1>2 DEF After, Signed
  <2>2. Given(a.op, a.amount) = Purse(a.amount, 0) \/ Given(a.op, a.amount) = Purse(0, a.amount)
    BY DEF Given
  <2>3. CASE Given(a.op, a.amount) = Purse(a.amount, 0)
    BY <1>1, <2>1, <2>3 DEF Plus, Purse, Change, Total
  <2>4. CASE Given(a.op, a.amount) = Purse(0, a.amount)
    BY <1>1, <2>1, <2>4 DEF Plus, Purse, Change, Total
  <2> QED
    BY <2>2, <2>3, <2>4
<1>3. CASE a.op \in {"deduct", "recover"}
  <2>1. PICK b \in BOOLEAN : b = (a.op = "recover")
    OBVIOUS
  <2>2. a.amount \in Nat /\ a.amount <= Total(a.was)
    BY <1>1, <1>3 DEF Saving, Short, Total
  <2>3. After(a) = Deducted(a.was, a.amount, b)
    BY <1>3, <2>1 DEF After
  <2>4. After(a) \in Purses /\ Total(After(a)) = Total(a.was) - a.amount
    BY <2>2, <2>3, DeductedExactly DEF Saving
  <2>5. After(a).free \in Int /\ After(a).paid \in Int
        /\ After(a).free + After(a).paid = (a.was.free + a.was.paid) - a.amount
    BY <2>4 DEF Purses, Total
  <2>6. Total(Change(a.was, After(a)))
          = (After(a).free - a.was.free) + (After(a).paid - a.was.paid)
    BY DEF Change, Total, Purse
  <2>7. Total(Change(a.was, After(a))) = -a.amount
    BY <1>1, <2>5, <2>6, SplitSum
  <2> QED
    BY <1>3, <2>7 DEF Signed
<1>4. CASE a.op = "provision" /\ a.amount >= 0
  BY <1>1, <1>4 DEF After, Provisioned, Larger, Purse, Change, Total, Signed
<1> QED
  BY <1>1, <1>2, <1>3, <1>4 DEF Saving, Ops

\* deductHon, chargeHon and a provision move exactly the amount their event
\* records, whatever has happened to the balance in the meantime.
THEOREM AmountsAreExact ==
  ASSUME AddsGive
  PROVE  Spec => []ExactAmounts
<1>1. IInv => ExactAmounts
  BY SavingIs, ExactChange DEF ExactAmounts
<1> QED
  BY <1>1, InvarianceIInv, PTL

-----------------------------------------------------------------------------
(* One operation at a time, none failing: the events explain the balances. *)

OneAtATime == ~Overlapping /\ Faults = {}

\* The initial state has nothing to explain.
LEMMA InitBooks == Init => BooksInv
<1> SUFFICES ASSUME Init PROVE BooksInv
  OBVIOUS
<1>1. Alone /\ Blank /\ Current /\ DailyCurrent
  BY DEF Init, Idle, NoJob, Alone, Blank, Current, DailyCurrent
<1>2. Settled
  BY DEF Init, NoEvent, Settled, Exact, Explained, Purse
<1> QED
  BY <1>1, <1>2 DEF BooksInv

\* No handler is between its balance and its event, no job is waiting, and the
\* balance of every user is exact.
Resting == /\ Alone /\ Blank /\ job.pc = "idle"
           /\ \A u \in Users : Exact(u)
           /\ \A t \in Tasks : task[t].pc \notin {"save", "event"}

LEMMA RestingBooks == Resting => BooksInv
BY DEF Resting, BooksInv, Settled, Current, DailyCurrent

LEMMA RestingBooksNext == (Resting => BooksInv)'
BY RestingBooks, PTL

\* With nobody owing an event every balance is explained.
LEMMA QuietExact ==
  ASSUME BooksInv, \A t \in Tasks : task[t].pc # "event"
  PROVE  \A u \in Users : Exact(u)
BY DEF BooksInv, Settled, Owes

LEMMA BeginBooks ==
  ASSUME OneAtATime, IInv, BooksInv, NEW t \in Tasks, NEW pc \in {"load", "create"},
         NEW op, NEW u, NEW n, NEW todo, Begin(t, pc, op, u, n, todo)
  PROVE  BooksInv'
<1>1. Quiet /\ UNCHANGED <<rows, hon, book, opening, job>>
  BY DEF Begin, MayBegin, OneAtATime
<1>2. \A s \in Tasks : task'[s].pc = IF s = t THEN pc ELSE "idle"
  BY <1>1 DEF Begin, Quiet, IInv, TypeOK
<1>3. \A v \in Users : Exact(v)'
  <2>1. \A v \in Users : Exact(v)
    BY <1>1, QuietExact DEF Quiet
  <2> QED
    BY <1>1, <2>1 DEF Exact, Explained
<1>4. Alone' /\ Blank' /\ (job.pc = "idle")'
  BY <1>1, <1>2 DEF Alone, Blank, Quiet, BooksInv
<1>5. Resting'
  BY <1>2, <1>3, <1>4 DEF Resting
<1> QED
  BY <1>5, RestingBooksNext

\* Arrivals of every kind begin an operation at rest.
LEMMA ArriveBooks ==
  ASSUME OneAtATime, IInv, BooksInv, NEW t \in Tasks, Arrive(t)
  PROVE  BooksInv'
<1>1. ASSUME NEW u \in Users, Register(t, u) PROVE BooksInv'
  BY <1>1, BeginBooks DEF Register
<1>2. ASSUME NEW u \in Users, CreateInquiry(t, u) PROVE BooksInv'
  BY <1>2, BeginBooks DEF CreateInquiry
<1>3. ASSUME NEW u \in Users, ChargeHon(t, u) PROVE BooksInv'
  <2>1. PICK n \in Charges : Begin(t, "load", "charge", u, n, {})
    BY <1>3 DEF ChargeHon
  <2> QED
    BY <2>1, BeginBooks
<1>4. ASSUME NEW u \in Users, DeductHon(t, u) PROVE BooksInv'
  <2>1. PICK n \in Fees, op \in {"deduct", "recover"} : Begin(t, "load", op, u, n, {})
    BY <1>4 DEF DeductHon
  <2> QED
    BY <2>1, BeginBooks
<1>5. ASSUME NEW u \in Users, ProvisionHonByAdmin(t, u) PROVE BooksInv'
  <2>1. PICK n \in AdminAmounts : Begin(t, "load", "provision", u, n, {})
    BY <1>5 DEF ProvisionHonByAdmin
  <2> QED
    BY <2>1, BeginBooks
<1>6. ASSUME BulkProvisionHonByAdmin(t) PROVE BooksInv'
  <2>1. PICK u \in users, n \in AdminAmounts :
          Begin(t, "load", "provision", u, n, users \ {u})
    BY <1>6 DEF BulkProvisionHonByAdmin
  <2>2. PICK todo : todo = users \ {u}
    OBVIOUS
  <2> QED
    BY <2>1, <2>2, BeginBooks
<1> QED
  BY <1>1, <1>2, <1>3, <1>4, <1>5, <1>6 DEF Arrive

\* A user that gets a first balance row has no events yet.
LEMMA WelcomedExact ==
  ASSUME IInv, Blank, \A u \in Users : Exact(u), NEW u \in Users, u \notin rows,
         Welcomed(u), UNCHANGED book
  PROVE  Blank' /\ \A v \in Users : Exact(v)'
<1>1. hon \in [Users -> Purses] /\ opening \in [Users -> Nat] /\ WelcomeHon \in Nat
  BY HonAssumption DEF IInv, TypeOK
<1>2. /\ hon' = [hon EXCEPT ![u] = Purse(WelcomeHon, 0)]
      /\ opening' = [opening EXCEPT ![u] = WelcomeHon] /\ rows' = rows \cup {u}
  BY DEF Welcomed
<1>3. Blank'
  BY <1>1, <1>2 DEF Blank
<1>4. ASSUME NEW v \in Users PROVE Exact(v)'
  <2>1. CASE v = u
    <3>1. book[u] = NoEvent
      BY DEF Blank
    <3>2. hon'[u] = Purse(WelcomeHon, 0) /\ opening'[u] = WelcomeHon /\ book'[u] = NoEvent
      BY <1>1, <1>2, <3>1
    <3>3. WelcomeHon + 0 = WelcomeHon
      BY <1>1
    <3> QED
      BY <2>1, <3>2, <3>3 DEF Exact, Explained, NoEvent
  <2>2. CASE v # u
    BY <1>1, <1>2, <2>2 DEF Exact, Explained
  <2> QED
    BY <2>1, <2>2
<1> QED
  BY <1>3, <1>4

LEMMA SignupBooks ==
  ASSUME OneAtATime, IInv, BooksInv, NEW u \in Users, Signup(u)
  PROVE  BooksInv'
<1>1. Quiet /\ UNCHANGED <<book, task, job>> /\ Welcomed(u) /\ u \notin rows
  BY DEF Signup, MayBegin, OneAtATime, IInv, TypeOK
<1>2. \A v \in Users : Exact(v)
  BY <1>1, QuietExact DEF Quiet
<1>3. Blank' /\ \A v \in Users : Exact(v)'
  BY <1>1, <1>2, WelcomedExact DEF BooksInv
<1>4. Resting'
  BY <1>1, <1>3 DEF Resting, Alone, Quiet
<1> QED
  BY <1>4, RestingBooksNext

\* A handler that was alone and is over, or turns to the next user of a bulk.
LEMMA DoneAlone ==
  ASSUME OneAtATime, IInv, Alone, NEW t \in Tasks, task[t].pc # "idle", Done(t),
         UNCHANGED job
  PROVE  /\ Alone' /\ (job.pc = "idle")'
         /\ \A s \in Tasks : task'[s].pc \notin {"save", "event"}
<1>1. \A s \in Tasks : s # t => task[s].pc = "idle"
  BY DEF Alone
<1>2. job.pc = "idle"
  BY DEF Alone
<1>3. \A s \in Tasks : IF s = t THEN task'[s].pc \in {"idle", "load"}
                                ELSE task'[s].pc = "idle"
  BY <1>1 DEF Done, Idle, IInv, TypeOK
<1> QED
  BY <1>2, <1>3 DEF Alone

LEMMA CreateHonBooks ==
  ASSUME OneAtATime, IInv, BooksInv, NEW t \in Tasks, CreateHon(t)
  PROVE  BooksInv'
<1>1. task[t].pc = "create" /\ Done(t) /\ UNCHANGED <<users, book, job, begun>>
  BY DEF CreateHon
<1>2. \A s \in Tasks : task[s].pc # "event"
  BY <1>1 DEF BooksInv, Alone
<1>3. \A v \in Users : Exact(v)
  BY <1>2, QuietExact
<1>4. /\ Alone' /\ (job.pc = "idle")'
      /\ \A s \in Tasks : task'[s].pc \notin {"save", "event"}
  BY <1>1, DoneAlone DEF BooksInv
<1>5. Blank' /\ \A v \in Users : Exact(v)'
  <2>1. CASE task[t].user \in rows
    <3>1. UNCHANGED <<rows, hon, opening, book>>
      BY <1>1, <2>1 DEF CreateHon
    <3> QED
      BY <1>3, <3>1 DEF Blank, Exact, Explained, BooksInv
  <2>2. CASE task[t].user \notin rows
    <3>1. PICK u \in Users : u = task[t].user
      BY <1>1 DEF IInv, TypeOK, Handlers, Employed
    <3>2. Welcomed(u)
      BY <2>2, <3>1 DEF CreateHon
    <3> QED
      BY <1>1, <1>3, <2>2, <3>1, <3>2, WelcomedExact DEF BooksInv
  <2> QED
    BY <2>1, <2>2
<1> QED
  BY <1>4, <1>5, RestingBooksNext DEF Resting

LEMMA GetHonBooks ==
  ASSUME OneAtATime, IInv, BooksInv, NEW t \in Tasks, GetHon(t)
  PROVE  BooksInv'
<1> DEFINE h == hon[task[t].user]
<1>1. task[t].pc = "load" /\ UNCHANGED <<users, rows, hon, book, opening, credited, job, begun>>
  BY DEF GetHon
<1>2. \A s \in Tasks : s # t => task[s].pc = "idle"
  BY <1>1 DEF BooksInv, Alone
<1>3. \A v \in Users : Exact(v)
  BY <1>1, <1>2, QuietExact
<1>4. (\A v \in Users : Exact(v)') /\ Blank'
  BY <1>1, <1>3 DEF Exact, Explained, Blank, BooksInv
<1>5. CASE Short(task[t].op, task[t].amount, h)
  <2>1. Done(t)
    BY <1>5 DEF GetHon
  <2> QED
    BY <1>1, <1>4, <2>1, DoneAlone, RestingBooksNext DEF Resting, BooksInv
<1>6. CASE ~Short(task[t].op, task[t].amount, h)
  <2>1. Advance(t, "save", h)
    BY <1>6 DEF GetHon
  <2>2. /\ task'[t].pc = "save" /\ task'[t].user = task[t].user /\ task'[t].was = h
        /\ \A s \in Tasks : s # t => task'[s].pc = "idle"
    BY <1>2, <2>1 DEF Advance, IInv, TypeOK
  <2>3. job.pc = "idle"
    BY <1>1 DEF BooksInv, Alone
  <2>4. Alone' /\ DailyCurrent'
    BY <1>1, <2>2, <2>3 DEF Alone, DailyCurrent
  <2>5. Settled'
    BY <1>4 DEF Settled
  <2>6. Current'
    BY <1>1, <2>2 DEF Current
  <2> QED
    BY <1>4, <2>4, <2>5, <2>6 DEF BooksInv
<1> QED
  BY <1>5, <1>6

LEMMA SaveHonBooks ==
  ASSUME OneAtATime, IInv, BooksInv, NEW t \in Tasks, SaveHon(t)
  PROVE  BooksInv'
<1> DEFINE a == task[t]
<1>1. /\ a.pc = "save" /\ a.user \in Users
      /\ UNCHANGED <<users, book, opening, job, begun>>
      /\ rows' = rows \cup {a.user} /\ hon' = [hon EXCEPT ![a.user] = After(a)]
      /\ Advance(t, "event", a.was)
  BY SavingIs DEF SaveHon
<1>2. \A s \in Tasks : s # t => task[s].pc = "idle"
  BY <1>1 DEF BooksInv, Alone
<1>3. \A v \in Users : Exact(v)
  BY <1>1, <1>2, QuietExact
<1>4. /\ task'[t] = [pc |-> "event", op |-> a.op, user |-> a.user, amount |-> a.amount,
                     was |-> a.was, todo |-> a.todo]
      /\ \A s \in Tasks : s # t => task'[s] = task[s]
  BY <1>1 DEF Advance, IInv, TypeOK
<1>5. job.pc = "idle"
  BY <1>1 DEF BooksInv, Alone
<1>6. Alone' /\ DailyCurrent'
  BY <1>1, <1>2, <1>4, <1>5 DEF Alone, DailyCurrent
<1>7. hon \in [Users -> Purses]
  BY DEF IInv, TypeOK
<1>8. Blank'
  BY <1>1, <1>7 DEF BooksInv, Blank
<1>9. Settled'
  <2> SUFFICES ASSUME NEW v \in Users, ~Owes(v)' PROVE Exact(v)'
    BY DEF Settled
  <2>1. v # a.user
    BY <1>4 DEF Owes
  <2> QED
    BY <1>1, <1>3, <1>7, <2>1 DEF Exact, Explained
<1>10. Current'
  <2>1. After(task'[t]) = After(a)
    BY <1>4 DEF After
  <2>2. a.was = Purse(opening'[a.user] + book'[a.user].free, book'[a.user].paid)
    BY <1>1, <1>3 DEF BooksInv, Current, Exact, Explained
  <2>3. hon'[a.user] = After(a) /\ a.user \in rows'
    BY <1>1, <1>7
  <2>4. \A s \in Tasks : s # t => task'[s].pc = "idle"
    BY <1>2, <1>4
  <2> QED
    BY <1>4, <2>1, <2>2, <2>3, <2>4 DEF Current, Explained
<1> QED
  BY <1>6, <1>8, <1>9, <1>10 DEF BooksInv

\* The event explains the change made since the balance was read.
LEMMA EnteredExplains ==
  ASSUME NEW was \in Purses, NEW now \in Purses, NEW b \in Books, NEW o \in Nat,
         was = Purse(o + b.free, b.paid), NEW by, NEW n, NEW balance
  PROVE  LET c == Entered(b, by, n, Change(was, now), balance)
         IN  Purse(o + c.free, c.paid) = now
<1>1. /\ was.free \in Int /\ was.paid \in Int /\ now.free \in Int /\ now.paid \in Int
      /\ b.free \in Int /\ b.paid \in Int
  BY DEF Purses, Books
<1>2. was.free = o + b.free /\ was.paid = b.paid
  BY DEF Purse
<1>3. o + (b.free + (now.free - was.free)) = now.free
      /\ b.paid + (now.paid - was.paid) = now.paid
  BY <1>1, <1>2
<1>4. now = [free |-> now.free, paid |-> now.paid]
  BY DEF Purses
<1> QED
  BY <1>3, <1>4 DEF Entered, Change, Purse

LEMMA SaveHonEventBooks ==
  ASSUME OneAtATime, IInv, BooksInv, NEW t \in Tasks, SaveHonEvent(t)
  PROVE  BooksInv'
<1> DEFINE a == task[t]
           c == Entered(book[a.user], a.op, Signed(a), Change(a.was, After(a)), BalanceOf(a))
<1>1. /\ a.pc = "event" /\ a \in TaskType /\ Done(t)
      /\ UNCHANGED <<users, rows, hon, opening, credited, job, begun>>
      /\ book' = [book EXCEPT ![a.user] = c]
      /\ book \in [Users -> Books] /\ opening \in [Users -> Nat]
  BY DEF SaveHonEvent, IInv, TypeOK, TaskType
<1>2. a.user \in Users /\ a.op \in Ops \ {"open"}
  BY <1>1 DEF IInv, TypeOK, Handlers, Employed
<1>3. /\ a.user \in rows /\ a.was = Explained(a.user) /\ hon[a.user] = After(a)
  BY <1>1 DEF BooksInv, Current
<1>4. /\ Alone' /\ (job.pc = "idle")'
      /\ \A s \in Tasks : task'[s].pc \notin {"save", "event"}
  BY <1>1, DoneAlone DEF BooksInv
<1>5. Blank'
  BY <1>1, <1>3 DEF BooksInv, Blank
<1>6. ASSUME NEW v \in Users PROVE Exact(v)'
  <2>1. CASE v # a.user
    <3>1. ~Owes(v)
      BY <1>1, <2>1 DEF Owes, BooksInv, Alone
    <3>2. Exact(v)
      BY <3>1 DEF BooksInv, Settled
    <3> QED
      BY <1>1, <2>1, <3>2 DEF Exact, Explained
  <2>2. CASE v = a.user
    <3>1. a.was \in Purses /\ After(a) \in Purses
      BY <1>1, <1>2, AfterTyped DEF TaskType
    <3>2. Purse(opening[v] + c.free, c.paid) = After(a)
      BY <1>1, <1>2, <1>3, <2>2, <3>1, EnteredExplains DEF Explained
    <3>3. book'[v] = c /\ hon'[v] = After(a) /\ opening'[v] = opening[v]
      BY <1>1, <1>2, <1>3, <2>2
    <3>4. hon'[v] = Explained(v)'
      BY <3>2, <3>3 DEF Explained
    <3>5. c.by = a.op /\ (a.op # "provision" => c.balance = Total(After(a)))
      BY DEF Entered, BalanceOf
    <3> QED
      BY <3>3, <3>4, <3>5 DEF Exact
  <2> QED
    BY <2>1, <2>2
<1> QED
  BY <1>4, <1>5, <1>6, RestingBooksNext DEF Resting

LEMMA DailyReadBooks ==
  ASSUME OneAtATime, IInv, BooksInv, NEW e \in DailyEvents, DailyRead(e)
  PROVE  BooksInv'
<1>1. /\ Quiet /\ UNCHANGED <<users, rows, hon, book, opening, credited, task>>
      /\ job' = [pc |-> "commit", event |-> e, seen |-> Eligible(e), read |-> hon]
  BY DEF DailyRead, MayBegin, OneAtATime
<1>2. Alone' /\ Blank'
  BY <1>1 DEF Alone, Blank, Quiet, BooksInv
<1>3. Settled' /\ Current'
  BY <1>1 DEF Quiet, BooksInv, Settled, Owes, Exact, Explained, Current
<1>4. DailyCurrent'
  BY <1>1 DEF DailyCurrent, Eligible
<1> QED
  BY <1>2, <1>3, <1>4 DEF BooksInv

LEMMA DailyCommitBooks ==
  ASSUME OneAtATime, IInv, BooksInv, DailyCommit
  PROVE  BooksInv'
<1> DEFINE e == job.event
           gain(u) == DailyGain(e, hon[u])
<1>1. /\ job.read = hon /\ job.seen = Eligible(e) /\ job' = NoJob /\ e \in DailyEvents
      /\ UNCHANGED <<users, rows, opening, task, begun>>
      /\ hon \in [Users -> Purses] /\ book \in [Users -> Books] /\ opening \in [Users -> Nat]
  BY DEF DailyCommit, BooksInv, DailyCurrent, IInv, Daily, TypeOK
<1>2. \A s \in Tasks : task[s].pc = "idle"
  BY DEF DailyCommit, BooksInv, Alone
<1>3. \A v \in Users : Exact(v)
  BY <1>2, QuietExact
<1>4. \A v \in Users :
        /\ v \in Eligible(e) => hon'[v] = Plus(hon[v], gain(v))
        /\ v \notin Eligible(e) => hon'[v] = hon[v]
  BY DEF DailyCommit
<1>5. \A v \in Users :
        /\ v \in Eligible(e) => book'[v] = Entered(book[v], "daily", gain(v).free, gain(v),
                                                   Total(Plus(hon[v], gain(v))))
        /\ v \notin Eligible(e) => book'[v] = book[v]
  BY <1>1 DEF DailyCommit
<1>6. ASSUME NEW v \in Users PROVE Exact(v)'
  <2>1. CASE v \notin Eligible(e)
    BY <1>1, <1>3, <1>4, <1>5, <2>1 DEF Exact, Explained
  <2>2. CASE v \in Eligible(e)
    <3>1. /\ hon[v] \in Purses /\ gain(v) \in Purses /\ book[v] \in Books /\ opening[v] \in Nat
          /\ hon[v] = Purse(opening[v] + book[v].free, book[v].paid)
      BY <1>1, <1>3, GainFits DEF Exact, Explained
    <3>2. Plus(hon[v], gain(v)) = Purse(opening[v] + (book[v].free + gain(v).free),
                                        book[v].paid + gain(v).paid)
      <4>1. hon[v].free = opening[v] + book[v].free /\ hon[v].paid = book[v].paid
        BY <3>1 DEF Purse
      <4>2. book[v].free \in Int /\ gain(v).free \in Int
        BY <3>1 DEF Books, Purses
      <4>3. hon[v].free + gain(v).free = opening[v] + (book[v].free + gain(v).free)
        BY <3>1, <4>1, <4>2
      <4> QED
        BY <4>1, <4>3 DEF Plus
    <3>3. /\ book'[v].free = book[v].free + gain(v).free
          /\ book'[v].paid = book[v].paid + gain(v).paid
          /\ book'[v].balance = Total(Plus(hon[v], gain(v)))
      <4>1. PICK c : c = Entered(book[v], "daily", gain(v).free, gain(v),
                                 Total(Plus(hon[v], gain(v))))
        OBVIOUS
      <4>2. /\ c.free = book[v].free + gain(v).free
            /\ c.paid = book[v].paid + gain(v).paid
            /\ c.balance = Total(Plus(hon[v], gain(v)))
        BY <4>1 DEF Entered
      <4> QED
        BY <1>5, <2>2, <4>1, <4>2
    <3>4. hon'[v] = Explained(v)' /\ book'[v].balance = Total(hon'[v])
      BY <1>1, <1>4, <2>2, <3>2, <3>3 DEF Explained
    <3> QED
      BY <3>4 DEF Exact
  <2> QED
    BY <2>1, <2>2
<1>7. Blank'
  <2>1. Eligible(e) \subseteq rows
    BY DEF Eligible
  <2> QED
    BY <1>1, <1>4, <1>5, <2>1 DEF BooksInv, Blank
<1>8. Alone' /\ (job.pc = "idle")'
  BY <1>1, <1>2, NoJobIs DEF Alone
<1>9. Resting'
  BY <1>1, <1>2, <1>6, <1>7, <1>8 DEF Resting
<1> QED
  BY <1>9, RestingBooksNext

\* Both invariants together are inductive when operations come one at a time.
LEMMA StepBooks ==
  ASSUME OneAtATime
  PROVE  IInv /\ BooksInv /\ [Next]_vars => BooksInv'
<1> SUFFICES ASSUME IInv, BooksInv, [Next]_vars PROVE BooksInv'
  OBVIOUS
<1>1. CASE UNCHANGED vars
  BY <1>1 DEF vars, BooksInv, Alone, Blank, Settled, Owes, Exact, Explained, Current,
              DailyCurrent, Eligible
<1>2. ASSUME NEW t \in Tasks, Arrive(t) \/ Proceed(t) PROVE BooksInv'
  BY <1>2, ArriveBooks, GetHonBooks, SaveHonBooks, SaveHonEventBooks, CreateHonBooks
     DEF Proceed
<1>3. ASSUME NEW u \in Users, Signup(u) PROVE BooksInv'
  BY <1>3, SignupBooks
<1>4. ASSUME NEW e \in DailyEvents, DailyRead(e) PROVE BooksInv'
  BY <1>4, DailyReadBooks
<1>5. ~DailyRefused /\ ~Crash /\ \A t \in Tasks : ~Refused(t)
  BY DEF OneAtATime, DailyRefused, Crash, Refused
<1> QED
  BY <1>1, <1>2, <1>3, <1>4, <1>5, DailyCommitBooks DEF Next

LEMMA InvarianceBooks ==
  ASSUME OneAtATime, AddsGive
  PROVE  Spec => [](IInv /\ BooksInv)
<1>1. Init => IInv /\ BooksInv
  BY InitIInv, InitBooks
<1>2. IInv /\ BooksInv /\ [Next]_vars => (IInv /\ BooksInv)'
  BY StepIInv, StepBooks
<1> QED
  BY <1>1, <1>2, PTL DEF Spec

\* When operations come one at a time, no database call fails and ADD settings give,
\* the recorded free and paid changes add up to every balance: what the code computes is
\* right, and only overlap and failure can make hon and hon_event differ.
THEOREM LedgerBalances ==
  ASSUME OneAtATime, AddsGive
  PROVE  Spec => []BooksBalance
<1>1. IInv /\ BooksInv => BooksBalance
  <2> SUFFICES ASSUME BooksInv, Quiet PROVE \A u \in Users : hon[u] = Explained(u)
    BY DEF BooksBalance, Explained
  <2>1. \A u \in Users : Exact(u)
    BY QuietExact DEF Quiet
  <2> QED
    BY <2>1 DEF Exact
<1> QED
  BY <1>1, InvarianceBooks, PTL

\* Under the same conditions the last event states the balance the user has,
\* but for the provisions by an administrator.
THEOREM LastEventStatesBalance ==
  ASSUME OneAtATime, AddsGive
  PROVE  Spec => []StatedBalance
<1>1. IInv /\ BooksInv => StatedBalance
  <2> SUFFICES ASSUME BooksInv, Quiet PROVE StatedBalance
    BY DEF StatedBalance
  <2>1. \A u \in Users : Exact(u)
    BY QuietExact DEF Quiet
  <2> QED
    BY <2>1 DEF StatedBalance, Exact
<1> QED
  BY <1>1, InvarianceBooks, PTL
=============================================================================
