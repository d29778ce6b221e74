------------------------ MODULE SubscriptionProofs ------------------------
(***************************************************************************)
(* Proofs about Subscription, for any users, slots, lengths of the plans   *)
(* and bounds: what is renewed was paid for, however requests and the job  *)
(* overlap and fail; and, when they run one at a time, nobody is charged   *)
(* early or after a cancellation, and no paid time is lost.                *)
(***************************************************************************)
EXTENDS SubscriptionInvariant, TLAPS

(* The subscriptions that are written. *)

\* A subscription a handler may write back: of a plan, with one date.
Writable(s) == s \in Subs /\ s.plan # "NONE" /\ s.next = s.ends

LEMMA LengthPositive == ASSUME NEW plan PROVE Length(plan) \in Nat /\ Length(plan) > 0
BY SubscriptionAssumption DEF Length

LEMMA ActiveIsWritable ==
  ASSUME NEW plan \in Plans, NEW ends \in Nat
  PROVE  /\ Writable(Active(plan, ends))
         /\ Active(plan, ends).status = "ACTIVE"
         /\ Active(plan, ends).ends = ends
BY DEF Writable, Active, Subs, Plans

\* A payment buys a period that ends in the future.
LEMMA StartedIsWritable ==
  ASSUME NEW old \in Subs, NEW plan \in {"MONTHLY", "YEARLY"}, NEW at \in Nat
  PROVE  /\ Writable(Started(old, plan, at))
         /\ Started(old, plan, at).status = "ACTIVE"
         /\ Started(old, plan, at).ends > at
<1>1. plan \in Plans /\ old.ends \in Nat /\ Length(plan) \in Nat /\ Length(plan) > 0
      /\ Year \in Nat
  BY LengthPositive, SubscriptionAssumption DEF Plans, Subs
<1>2. CASE old.ends > at /\ old.plan = "MONTHLY" /\ plan = "YEARLY"
  <2>1. Started(old, plan, at) = Active(plan, old.ends + Year)
    BY <1>2 DEF Started
  <2>2. old.ends + Year \in Nat /\ old.ends + Year > at
    BY <1>1, <1>2
  <2> QED
    BY <1>1, <2>1, <2>2, ActiveIsWritable
<1>3. CASE ~(old.ends > at /\ old.plan = "MONTHLY" /\ plan = "YEARLY")
  <2>1. Started(old, plan, at) = Active(plan, at + Length(plan))
    BY <1>3 DEF Started
  <2>2. at + Length(plan) \in Nat /\ at + Length(plan) > at
    BY <1>1
  <2> QED
    BY <1>1, <2>1, <2>2, ActiveIsWritable
<1> QED
  BY <1>2, <1>3

LEMMA CancelledIsWritable ==
  ASSUME NEW s, Writable(s)
  PROVE  /\ Writable(Cancelled(s))
         /\ Cancelled(s).status = "CANCELLED"
         /\ Cancelled(s).ends = s.ends
BY DEF Writable, Cancelled, Subs

LEMMA ExpiredIsWritable ==
  ASSUME NEW s, Writable(s)
  PROVE  /\ Writable(Expired(s))
         /\ Expired(s).status = "EXPIRED"
         /\ Expired(s).ends = s.ends
BY DEF Writable, Expired, Subs

LEMMA RenewedIsWritable ==
  ASSUME NEW s, Writable(s)
  PROVE  /\ Writable(Renewed(s))
         /\ Renewed(s).status = "ACTIVE"
         /\ Renewed(s).ends = s.ends + Length(s.plan)
         /\ Renewed(s).ends > s.ends
<1>1. Length(s.plan) \in Nat /\ Length(s.plan) > 0 /\ s.ends \in Nat /\ s.next \in Nat
      /\ s.plan \in Plans \cup {"NONE"}
  BY LengthPositive DEF Writable, Subs
<1>2. s.next + Length(s.plan) = s.ends + Length(s.plan) /\ s.ends + Length(s.plan) \in Nat
      /\ s.ends + Length(s.plan) > s.ends
  BY <1>1 DEF Writable
<1> QED
  BY <1>1, <1>2 DEF Writable, Renewed, Subs

LEMMA NoSubIsRow == NoSub \in Subs /\ NoSub.next = NoSub.ends /\ NoSub.status # "ACTIVE"
BY DEF NoSub, Subs

\* A row with a status is of a plan.
LEMMA RowIsWritable ==
  ASSUME IInv, NEW u \in Users, sub[u].status # "NONE"
  PROVE  Writable(sub[u])
<1>1. sub[u] \in Subs /\ (sub[u].plan = "NONE" => sub[u] = NoSub) /\ sub[u].next = sub[u].ends
  BY DEF IInv, TypeOK, DatesOK
<1> QED
  BY <1>1 DEF Writable, NoSub

LEMMA ListedIsWritable ==
  ASSUME IInv, NEW u \in Users, u \in Pending
  PROVE  Writable(job.list[u])
BY DEF IInv, TypeOK, Jobs, DatesOK, HandlersOK, Writable

-----------------------------------------------------------------------------
(* What the requests save. *)

\* A request begins with a period that ends in the future, or with the row and
\* another status.
LEMMA RequestBegins ==
  ASSUME IInv, NEW t \in Tasks, Request(t)
  PROVE  \E u \in Users, s \in Subs :
           /\ Begin(t, u, s)
           /\ Writable(s)
           /\ \/ s.status = "ACTIVE" /\ s.ends > now
              \/ s.status # "ACTIVE" /\ s.ends = sub[u].ends
<1>1. now \in Nat
  BY SubscriptionAssumption DEF IInv, TypeOK
<1>2. PICK u \in Users : \/ StartSubscription(t, u) \/ CancelSubscription(t, u)
                         \/ ProvisionUnlimited(t, u)
  BY DEF Request
<1>3. sub[u] \in Subs
  BY DEF IInv, TypeOK
<1>4. CASE StartSubscription(t, u)
  <2>1. PICK plan \in {"MONTHLY", "YEARLY"} : Begin(t, u, Started(sub[u], plan, now))
    BY <1>4 DEF StartSubscription
  <2>2. PICK s : s = Started(sub[u], plan, now)
    OBVIOUS
  <2>3. Writable(s) /\ s.status = "ACTIVE" /\ s.ends > now
    BY <1>1, <1>3, <2>2, StartedIsWritable
  <2>4. s \in Subs
    BY <2>3 DEF Writable
  <2> QED
    BY <2>1, <2>2, <2>3, <2>4
<1>5. CASE CancelSubscription(t, u)
  <2>1. sub[u].status = "ACTIVE" /\ Begin(t, u, Cancelled(sub[u]))
    BY <1>5 DEF CancelSubscription
  <2>2. PICK s : s = Cancelled(sub[u])
    OBVIOUS
  <2>3. Writable(s) /\ s.status = "CANCELLED" /\ s.ends = sub[u].ends
    BY <2>1, <2>2, RowIsWritable, CancelledIsWritable
  <2>4. s \in Subs
    BY <2>3 DEF Writable
  <2> QED
    BY <2>1, <2>2, <2>3, <2>4
<1>6. CASE ProvisionUnlimited(t, u)
  <2>1. PICK n \in PassHours : Begin(t, u, Active("UNLIMITED", now + n))
    BY <1>6 DEF ProvisionUnlimited
  <2>2. PICK s : s = Active("UNLIMITED", now + n)
    OBVIOUS
  <2>3. now + n \in Nat /\ now + n > now
    BY <1>1, SubscriptionAssumption
  <2>4. Writable(s) /\ s.status = "ACTIVE" /\ s.ends > now
    BY <2>2, <2>3, ActiveIsWritable DEF Plans
  <2>5. s \in Subs
    BY <2>4 DEF Writable
  <2> QED
    BY <2>1, <2>2, <2>4, <2>5
<1> QED
  BY <1>2, <1>4, <1>5, <1>6
-----------------------------------------------------------------------------
(* The invariant, however requests and the job overlap and fail. *)

LEMMA NoJobIsJob ==
  /\ NoJob \in Jobs
  /\ NoJob.pc = "idle" /\ NoJob.todo = {}
  /\ \A u \in Users : NoJob.list[u] = NoSub
BY NoSubIsRow DEF NoJob, Jobs

\* Going on with the users left over needs nothing but the list.
LEMMA LeftIsJob ==
  ASSUME IInv, NEW todo \in SUBSET Users
  PROVE  /\ Left(todo) \in Jobs
         /\ Left(todo).todo = todo
         /\ Left(todo).pc = IF todo = {} THEN "idle" ELSE "pick"
         /\ todo # {} => Left(todo).list = job.list
         /\ \A u \in Users : Left(todo).list[u] \in {NoSub, job.list[u]}
BY NoJobIsJob DEF Left, Jobs, IInv, TypeOK

LEMMA InitIsSound == Init => IInv
<1> SUFFICES ASSUME Init PROVE IInv
  OBVIOUS
<1>1. TypeOK
  BY NoSubIsRow, NoJobIsJob, SubscriptionAssumption DEF Init, TypeOK, Idle, Requests, NoSub
<1>2. HandlersOK
  BY NoJobIsJob DEF Init, HandlersOK, Working, Pending, Idle
<1>3. BooksOK
  BY NoJobIsJob DEF Init, BooksOK
<1>4. DatesOK
  BY NoJobIsJob, NoSubIsRow DEF Init, DatesOK, Idle
<1> QED
  BY <1>1, <1>2, <1>3, <1>4 DEF IInv

LEMMA BeginIsSound ==
  ASSUME IInv, NEW t \in Tasks, NEW u \in Users, NEW s \in Subs, Writable(s), Begin(t, u, s)
  PROVE  IInv'
<1>1. /\ task \in [Tasks -> Requests]
      /\ task' = [task EXCEPT ![t] = [pc |-> "save", user |-> u, save |-> s]]
      /\ begun \in 0 .. MaxOps /\ begun < MaxOps /\ begun' = begun + 1 /\ MaxOps \in Nat
      /\ UNCHANGED <<now, midnight, sub, stopped, captured, recorded, renewed, job>>
  BY SubscriptionAssumption DEF IInv, TypeOK, Begin
<1>2. \A t2 \in Tasks : \/ t2 # t /\ task'[t2] = task[t2]
                        \/ task'[t2] = [pc |-> "save", user |-> u, save |-> s]
  BY <1>1
<1>3. TypeOK'
  <2>1. task' \in [Tasks -> Requests]
    BY <1>1 DEF Requests
  <2>2. begun' \in 0 .. MaxOps
    BY <1>1
  <2> QED
    BY <1>1, <2>1, <2>2 DEF IInv, TypeOK
<1>4. HandlersOK'
  BY <1>1, <1>2 DEF IInv, HandlersOK, Working, Pending, Writable
<1>5. BooksOK'
  BY <1>1 DEF IInv, BooksOK
<1>6. DatesOK'
  BY <1>1, <1>2 DEF IInv, DatesOK, Writable
<1> QED
  BY <1>3, <1>4, <1>5, <1>6 DEF IInv

\* The end of a request that leaves the rows as they are, or writes what it has.
LEMMA SaveIsSound ==
  ASSUME IInv, NEW t \in Tasks, SaveSubscription(t) \/ Refused(t)
  PROVE  IInv'
<1>1. /\ task[t].pc = "save" /\ task' = [task EXCEPT ![t] = Idle]
      /\ sub' \in {sub, [sub EXCEPT ![task[t].user] = task[t].save]}
      /\ stopped' \in {stopped, [stopped EXCEPT ![task[t].user] = task[t].save.status = "CANCELLED"]}
      /\ UNCHANGED <<now, midnight, captured, recorded, renewed, job, begun>>
  BY DEF SaveSubscription, Refused
<1>2. task[t].user \in Users /\ Writable(task[t].save)
  BY <1>1 DEF IInv, TypeOK, HandlersOK, DatesOK, Requests, Writable
<1>3. \A u \in Users : sub'[u] = sub[u] \/ sub'[u] = task[t].save
  BY <1>1, <1>2 DEF IInv, TypeOK
<1>4. \A t2 \in Tasks : task'[t2] = task[t2] \/ task'[t2] = Idle
  BY <1>1 DEF IInv, TypeOK
<1>5. TypeOK'
  <2>1. sub' \in [Users -> Subs]
    BY <1>1, <1>2 DEF IInv, TypeOK, Writable
  <2>2. \A u \in Users : sub'[u].plan = "NONE" => sub'[u] = NoSub
    BY <1>2, <1>3 DEF IInv, TypeOK, Writable
  <2>3. stopped' \in [Users -> BOOLEAN]
    BY <1>1, <1>2 DEF IInv, TypeOK
  <2>4. task' \in [Tasks -> Requests]
    BY <1>1, NoSubIsRow DEF IInv, TypeOK, Idle, Requests
  <2> QED
    BY <1>1, <2>1, <2>2, <2>3, <2>4 DEF IInv, TypeOK
<1>6. HandlersOK'
  BY <1>1, <1>4 DEF IInv, HandlersOK, Working, Pending, Idle
<1>7. BooksOK'
  BY <1>1 DEF IInv, BooksOK
<1>8. DatesOK'
  BY <1>1, <1>2, <1>3, <1>4, NoSubIsRow DEF IInv, DatesOK, Idle, Writable
<1> QED
  BY <1>5, <1>6, <1>7, <1>8 DEF IInv

\* The job starts, stops or takes the next user: the rows stay as they are.
LEMMA JobMovesSoundly ==
  ASSUME IInv, Tick \/ JobLost \/ ListDue \/ RenewalRefused
  PROVE  IInv'
<1>1. UNCHANGED <<sub, stopped, captured, recorded, renewed, task, begun>>
  BY DEF Tick, JobLost, ListDue, RenewalRefused
<1>2. /\ now' \in 0 .. Horizon /\ midnight' \in Nat
      /\ midnight' <= now' /\ now' < midnight' + Day
  BY SubscriptionAssumption DEF Tick, JobLost, ListDue, RenewalRefused, IInv, TypeOK
<1>3. /\ job' \in Jobs
      /\ job'.pc \in {"idle", "due", "pick"}
      /\ \A u \in Users : job'.list[u] \in {NoSub, job.list[u], sub[u]}
      /\ \A u \in job'.todo : job'.list[u].plan # "NONE"
  <2>1. CASE Tick
    <3>1. CASE job' = [NoJob EXCEPT !.pc = "due"]
      BY <3>1, NoJobIsJob DEF NoJob, Jobs
    <3>2. CASE job' = job
      BY <2>1, <3>2 DEF Tick, IInv, TypeOK, HandlersOK, Pending
    <3> QED
      BY <2>1, <3>1, <3>2 DEF Tick
  <2>2. CASE JobLost
    BY <2>2, NoJobIsJob DEF JobLost
  <2>3. CASE RenewalRefused
    <3>1. job.todo \in SUBSET Users /\ job' = Left(job.todo)
      BY <2>3 DEF RenewalRefused, IInv, TypeOK, Jobs
    <3>2. \A u \in job.todo : job.list[u].plan # "NONE"
      BY DEF IInv, HandlersOK, Pending
    <3> QED
      BY <3>1, <3>2, LeftIsJob
  <2>4. CASE ListDue
    <3>1. PICK due \in SUBSET Users :
            /\ \A u \in due : IsDue(sub[u])
            /\ job' = IF due = {} THEN NoJob
                      ELSE [pc |-> "pick", user |-> NoUser, todo |-> due, list |-> sub]
      BY <2>4 DEF ListDue
    <3>2. \A u \in due : sub[u].plan # "NONE"
      BY <3>1 DEF IInv, TypeOK, IsDue, NoSub
    <3>3. CASE due = {}
      BY <3>1, <3>3, NoJobIsJob
    <3>4. CASE due # {}
      BY <3>1, <3>2, <3>4 DEF IInv, TypeOK, Jobs
    <3> QED
      BY <3>3, <3>4
  <2> QED
    BY <2>1, <2>2, <2>3, <2>4
<1>4. TypeOK'
  BY <1>1, <1>2, <1>3 DEF IInv, TypeOK
<1>5. HandlersOK'
  BY <1>1, <1>3 DEF IInv, HandlersOK, Working, Pending
<1>6. BooksOK'
  <2>1. \A u \in Users : renewed[u] \in Nat /\ recorded[u] \in Nat /\ captured[u] \in Nat
    BY DEF IInv, TypeOK
  <2>2. \A u \in Users : renewed[u] <= recorded[u] /\ recorded[u] <= captured[u]
    BY <2>1 DEF IInv, BooksOK
  <2>3. job'.pc # "renew" /\ job'.pc # "record"
    BY <1>3
  <2> QED
    BY <1>1, <2>1, <2>2, <2>3 DEF BooksOK
<1>7. DatesOK'
  <2>1. \A u \in Users : sub[u].next = sub[u].ends /\ job.list[u].next = job.list[u].ends
    BY DEF IInv, DatesOK
  <2> QED
    BY <1>1, <1>3, <2>1, NoSubIsRow DEF IInv, DatesOK
<1> QED
  BY <1>4, <1>5, <1>6, <1>7 DEF IInv

LEMMA ChargeIsSound ==
  ASSUME IInv, Charge
  PROVE  IInv'
<1>1. job.pc = "pick" /\ job.todo \in SUBSET Users /\ job \in Jobs
      /\ UNCHANGED <<now, midnight, sub, stopped, recorded, renewed, task, begun>>
  BY DEF IInv, TypeOK, Jobs, Charge
<1>2. PICK u \in job.todo, paid \in BOOLEAN, answered \in BOOLEAN :
        /\ captured' = IF paid THEN [captured EXCEPT ![u] = @ + 1] ELSE captured
        /\ job' = [pc |-> Verdict(paid, answered), user |-> u, todo |-> job.todo \ {u},
                   list |-> job.list]
  BY DEF Charge, Goto
<1>3. u \in Users /\ Verdict(paid, answered) \in {"record", "expire"}
      /\ (Verdict(paid, answered) = "record" => paid)
  BY <1>1 DEF Verdict
<1>4. TypeOK'
  <2>1. captured' \in [Users -> Nat]
    <3>1. captured \in [Users -> Nat]
      BY DEF IInv, TypeOK
    <3>2. [captured EXCEPT ![u] = @ + 1] \in [Users -> Nat]
      BY <1>3, <3>1
    <3> QED
      BY <1>2, <3>1, <3>2
  <2>2. job' \in Jobs
    BY <1>1, <1>2, <1>3 DEF Jobs
  <2> QED
    BY <1>1, <2>1, <2>2 DEF IInv, TypeOK
<1>5. HandlersOK'
  BY <1>1, <1>2, <1>3 DEF IInv, HandlersOK, Working, Pending
<1>6. BooksOK'
  <2>1. \A v \in Users : /\ renewed[v] \in Nat /\ recorded[v] \in Nat /\ captured[v] \in Nat
                         /\ renewed[v] <= recorded[v] /\ recorded[v] <= captured[v]
    BY <1>1 DEF IInv, TypeOK, BooksOK
  <2>2. \A v \in Users : captured'[v] = captured[v] + (IF paid /\ v = u THEN 1 ELSE 0)
    BY <1>2, <2>1 DEF IInv, TypeOK
  <2>3. job'.pc # "renew" /\ (job'.pc = "record" => paid) /\ job'.user = u
    BY <1>2, <1>3
  <2> QED
    BY <1>1, <2>1, <2>2, <2>3 DEF BooksOK
<1>7. DatesOK'
  BY <1>1, <1>2 DEF IInv, DatesOK
<1> QED
  BY <1>4, <1>5, <1>6, <1>7 DEF IInv

LEMMA RecordIsSound ==
  ASSUME IInv, RecordPayment
  PROVE  IInv'
<1>1. /\ job.pc = "record" /\ job \in Jobs /\ job.user \in Users
      /\ recorded' = [recorded EXCEPT ![job.user] = @ + 1]
      /\ job' = [pc |-> "renew", user |-> job.user, todo |-> job.todo, list |-> job.list]
      /\ UNCHANGED <<now, midnight, sub, stopped, captured, renewed, task, begun>>
  BY DEF IInv, TypeOK, HandlersOK, Working, RecordPayment, Goto
<1>2. TypeOK'
  <2>1. recorded' \in [Users -> Nat]
    BY <1>1 DEF IInv, TypeOK
  <2>2. job' \in Jobs
    BY <1>1 DEF Jobs
  <2> QED
    BY <1>1, <2>1, <2>2 DEF IInv, TypeOK
<1>3. HandlersOK'
  BY <1>1 DEF IInv, HandlersOK, Working, Pending
<1>4. BooksOK'
  <2>1. \A v \in Users : /\ renewed[v] \in Nat /\ recorded[v] \in Nat /\ captured[v] \in Nat
                         /\ renewed[v] <= recorded[v]
                         /\ recorded[v] + (IF job.user = v THEN 1 ELSE 0) <= captured[v]
    BY <1>1 DEF IInv, TypeOK, BooksOK
  <2>2. \A v \in Users : recorded'[v] = recorded[v] + (IF job.user = v THEN 1 ELSE 0)
    BY <1>1, <2>1 DEF IInv, TypeOK
  <2> QED
    BY <1>1, <2>1, <2>2 DEF BooksOK
<1>5. DatesOK'
  BY <1>1 DEF IInv, DatesOK
<1> QED
  BY <1>2, <1>3, <1>4, <1>5 DEF IInv

\* The last call for a user: the subscription as it was listed, renewed or over.
LEMMA EndIsSound ==
  ASSUME IInv, SaveRenewed \/ SaveExpired
  PROVE  IInv'
<1>1. /\ job.pc \in {"renew", "expire"} /\ job \in Jobs /\ job.user \in Users
      /\ job.user \in Pending /\ job.todo \in SUBSET Users /\ job' = Left(job.todo)
      /\ UNCHANGED <<now, midnight, stopped, captured, recorded, task, begun>>
  BY DEF IInv, TypeOK, Jobs, HandlersOK, Working, Pending, SaveRenewed, SaveExpired
<1>2. PICK s : s = IF job.pc = "renew" THEN Renewed(job.list[job.user])
                                       ELSE Expired(job.list[job.user])
  OBVIOUS
<1>3. Writable(s)
  BY <1>1, <1>2, ListedIsWritable, RenewedIsWritable, ExpiredIsWritable
<1>4. sub' = [sub EXCEPT ![job.user] = s]
  BY <1>2 DEF SaveRenewed, SaveExpired
<1>5. renewed' = IF job.pc = "renew" THEN [renewed EXCEPT ![job.user] = @ + 1] ELSE renewed
  BY DEF SaveRenewed, SaveExpired
<1>6. \A u \in Users : sub'[u] \in {s, sub[u]}
  BY <1>4 DEF IInv, TypeOK
<1>7. /\ job' \in Jobs /\ job'.pc \in {"idle", "pick"} /\ job'.todo = job.todo
      /\ job.todo # {} => job'.list = job.list
      /\ \A u \in Users : job'.list[u] \in {NoSub, job.list[u]}
  BY <1>1, LeftIsJob
<1>8. TypeOK'
  <2>1. sub' \in [Users -> Subs]
    BY <1>3, <1>4 DEF IInv, TypeOK, Writable
  <2>2. \A u \in Users : sub'[u].plan = "NONE" => sub'[u] = NoSub
    BY <1>3, <1>6 DEF IInv, TypeOK, Writable
  <2>3. renewed' \in [Users -> Nat]
    <3>1. renewed \in [Users -> Nat]
      BY DEF IInv, TypeOK
    <3>2. [renewed EXCEPT ![job.user] = @ + 1] \in [Users -> Nat]
      BY <1>1, <3>1
    <3> QED
      BY <1>5, <3>1, <3>2
  <2> QED
    BY <1>1, <1>7, <2>1, <2>2, <2>3 DEF IInv, TypeOK
<1>9. HandlersOK'
  BY <1>1, <1>7 DEF IInv, HandlersOK, Working, Pending
<1>10. BooksOK'
  <2>1. \A u \in Users : /\ renewed[u] \in Nat /\ recorded[u] \in Nat /\ captured[u] \in Nat
                         /\ renewed[u] + (IF job.pc = "renew" /\ job.user = u THEN 1 ELSE 0)
                              <= recorded[u]
                         /\ recorded[u] <= captured[u]
    BY <1>1 DEF IInv, TypeOK, BooksOK
  <2>2. \A u \in Users :
          renewed'[u] = renewed[u] + (IF job.pc = "renew" /\ job.user = u THEN 1 ELSE 0)
    BY <1>5, <2>1 DEF IInv, TypeOK
  <2>3. job'.pc # "renew" /\ job'.pc # "record"
    BY <1>7
  <2> QED
    BY <1>1, <2>1, <2>2, <2>3 DEF BooksOK
<1>11. DatesOK'
  <2>1. \A u \in Users : sub[u].next = sub[u].ends /\ job.list[u].next = job.list[u].ends
    BY DEF IInv, DatesOK
  <2> QED
    BY <1>1, <1>3, <1>6, <1>7, <2>1, NoSubIsRow DEF IInv, DatesOK, Writable
<1> QED
  BY <1>8, <1>9, <1>10, <1>11 DEF IInv

LEMMA StutterIsSound ==
  ASSUME IInv, UNCHANGED vars
  PROVE  IInv'
BY DEF vars, IInv, TypeOK, HandlersOK, Working, Pending, BooksOK, DatesOK

LEMMA StepIsSound == IInv /\ [Next]_vars => IInv'
<1> SUFFICES ASSUME IInv, [Next]_vars PROVE IInv'
  OBVIOUS
<1>1. ASSUME NEW t \in Tasks, Request(t) PROVE IInv'
  <2>1. PICK u \in Users, s \in Subs : Begin(t, u, s) /\ Writable(s)
    BY <1>1, RequestBegins
  <2> QED
    BY <2>1, BeginIsSound
<1>2. ASSUME NEW t \in Tasks, SaveSubscription(t) \/ Refused(t) PROVE IInv'
  BY <1>2, SaveIsSound
<1>3. CASE Tick \/ JobLost \/ ListDue \/ RenewalRefused
  BY <1>3, JobMovesSoundly
<1>4. CASE Charge
  BY <1>4, ChargeIsSound
<1>5. CASE RecordPayment
  BY <1>5, RecordIsSound
<1>6. CASE SaveRenewed \/ SaveExpired
  BY <1>6, EndIsSound
<1>7. CASE UNCHANGED vars
  BY <1>7, StutterIsSound
<1> QED
  BY <1>1, <1>2, <1>3, <1>4, <1>5, <1>6, <1>7 DEF Next, Renewal

LEMMA Invariance == Spec => []IInv
BY InitIsSound, StepIsSound, PTL DEF Spec

\* Every row that exists was bought or given, whatever overlaps or fails.
THEOREM TypeCorrect == Spec => []TypeOK
<1>1. IInv => TypeOK
  BY DEF IInv
<1> QED
  BY <1>1, Invariance, PTL

\* No period is renewed that the gateway was not paid for and that has no approval
\* on record, however answers get lost, calls fail and the job goes down.
THEOREM NoUnpaidRenewal == Spec => []RenewalsArePaid
<1>1. IInv => RenewalsArePaid
  BY DEF IInv, TypeOK, BooksOK, RenewalsArePaid
<1> QED
  BY <1>1, Invariance, PTL

\* The next payment falls due when the period ends, although requests and the job
\* write back dates they read awaits ago.
THEOREM DatesAgree == Spec => []NextIsEnd
<1>1. IInv => NextIsEnd
  BY DEF IInv, DatesOK, NextIsEnd
<1> QED
  BY <1>1, Invariance, PTL

-----------------------------------------------------------------------------
(* Requests and the job one at a time. *)

LEMMA InitIsSerial == Init => SerialInv
BY NoJobIsJob, NoSubIsRow DEF Init, SerialInv, Alone, NoTasks, ListIsFresh, Working, Pending,
   StoppedIsInactive, WritesBack, Idle

LEMMA BeginIsSerial ==
  ASSUME IInv, SerialInv, ~Overlapping, NEW t \in Tasks, NEW u \in Users, NEW s \in Subs,
         s.status = "ACTIVE" \/ s.ends = sub[u].ends, Begin(t, u, s)
  PROVE  SerialInv'
<1>1. /\ NoTasks /\ job.pc = "idle"
      /\ task' = [task EXCEPT ![t] = [pc |-> "save", user |-> u, save |-> s]]
      /\ task \in [Tasks -> Requests]
      /\ UNCHANGED <<now, midnight, sub, stopped, captured, recorded, renewed, job>>
  BY DEF Begin, IInv, TypeOK
<1>2. task'[t] = [pc |-> "save", user |-> u, save |-> s]
      /\ \A t2 \in Tasks : t2 # t => task'[t2].pc = "idle"
  BY <1>1 DEF NoTasks
<1>3. Alone'
  BY <1>1, <1>2 DEF SerialInv, Alone
<1>4. ListIsFresh' /\ StoppedIsInactive'
  BY <1>1 DEF SerialInv, ListIsFresh, Working, Pending, IsDue, StoppedIsInactive
<1>5. WritesBack'
  BY <1>1, <1>2 DEF WritesBack
<1> QED
  BY <1>3, <1>4, <1>5 DEF SerialInv

LEMMA SaveIsSerial ==
  ASSUME IInv, SerialInv, NEW t \in Tasks, SaveSubscription(t) \/ Refused(t)
  PROVE  SerialInv'
<1>1. /\ task[t].pc = "save" /\ task' = [task EXCEPT ![t] = Idle]
      /\ task \in [Tasks -> Requests] /\ task[t].user \in Users
      /\ UNCHANGED <<now, midnight, captured, recorded, renewed, job, begun>>
  BY DEF SaveSubscription, Refused, IInv, TypeOK, HandlersOK
<1>2. NoTasks'
  BY <1>1 DEF SerialInv, Alone, NoTasks, Idle, Requests
<1>3. job.pc \in {"idle", "due"} /\ job.todo = {} /\ job' = job
  BY <1>1 DEF SerialInv, Alone, NoTasks
<1>4. Alone' /\ WritesBack'
  BY <1>2, <1>3 DEF Alone, NoTasks, WritesBack
<1>5. ListIsFresh'
  BY <1>3 DEF ListIsFresh, Working, Pending
<1>6. StoppedIsInactive'
  <2>1. CASE SaveSubscription(t)
    BY <1>1, <2>1 DEF SaveSubscription, SerialInv, StoppedIsInactive, IInv, TypeOK
  <2>2. CASE Refused(t)
    BY <2>2 DEF Refused, SerialInv, StoppedIsInactive
  <2> QED
    BY <2>1, <2>2
<1> QED
  BY <1>4, <1>5, <1>6 DEF SerialInv

LEMMA JobMovesSerially ==
  ASSUME IInv, SerialInv, ~Overlapping, Tick \/ JobLost \/ ListDue \/ RenewalRefused
  PROVE  SerialInv'
<1>1. UNCHANGED <<sub, stopped, task>>
  BY DEF Tick, JobLost, ListDue, RenewalRefused
<1>2. /\ job'.pc \in {"idle", "due", "pick"}
      /\ job'.pc = "pick" => NoTasks
      /\ job'.pc # "pick" => job'.todo = {}
      /\ \A u \in job'.todo : job'.list[u] = sub[u] /\ IsDue(sub[u])'
  <2>1. CASE Tick
    <3>1. CASE job' = [NoJob EXCEPT !.pc = "due"]
      BY <3>1, NoJobIsJob DEF NoJob
    <3>2. CASE job' = job
      BY <2>1, <3>2 DEF Tick, SerialInv, Alone
    <3> QED
      BY <2>1, <3>1, <3>2 DEF Tick
  <2>2. CASE JobLost
    BY <2>2, NoJobIsJob DEF JobLost
  <2>3. CASE RenewalRefused
    <3>1. job.todo \in SUBSET Users /\ job' = Left(job.todo) /\ NoTasks /\ now' = now
      BY <2>3 DEF RenewalRefused, IInv, TypeOK, Jobs, SerialInv, Alone
    <3>2. \A u \in job.todo : job.list[u] = sub[u] /\ IsDue(sub[u])
      BY DEF SerialInv, ListIsFresh, Pending
    <3> QED
      BY <1>1, <3>1, <3>2, LeftIsJob DEF IsDue
  <2>4. CASE ListDue
    <3>1. PICK due \in SUBSET Users :
            /\ \A u \in due : IsDue(sub[u])
            /\ job' = IF due = {} THEN NoJob
                      ELSE [pc |-> "pick", user |-> NoUser, todo |-> due, list |-> sub]
      BY <2>4 DEF ListDue
    <3>2. NoTasks /\ now' = now
      BY <2>4 DEF ListDue
    <3>3. CASE due = {}
      BY <3>1, <3>3, NoJobIsJob
    <3>4. CASE due # {}
      BY <1>1, <3>1, <3>2, <3>4 DEF IsDue
    <3> QED
      BY <3>3, <3>4
  <2> QED
    BY <2>1, <2>2, <2>3, <2>4
<1>3. Alone'
  BY <1>1, <1>2 DEF SerialInv, Alone, NoTasks
<1>4. ListIsFresh'
  BY <1>1, <1>2 DEF ListIsFresh, Working, Pending
<1>5. StoppedIsInactive' /\ WritesBack'
  BY <1>1 DEF SerialInv, StoppedIsInactive, WritesBack
<1> QED
  BY <1>3, <1>4, <1>5 DEF SerialInv

LEMMA ChargeIsSerial ==
  ASSUME IInv, SerialInv, Charge \/ RecordPayment
  PROVE  SerialInv'
<1>1. /\ job.pc \in {"pick", "record"} /\ NoTasks
      /\ UNCHANGED <<now, midnight, sub, stopped, renewed, task, begun>>
  BY DEF Charge, RecordPayment, SerialInv, Alone
<1>2. /\ job'.pc \in {"record", "renew", "expire"} /\ job'.list = job.list
      /\ job'.user \notin job'.todo
      /\ job'.todo \cup {job'.user} \subseteq Pending
  <2>1. CASE Charge
    BY <2>1 DEF Charge, Goto, Verdict, Pending
  <2>2. CASE RecordPayment
    BY <2>2 DEF RecordPayment, Goto, SerialInv, ListIsFresh, Working, Pending
  <2> QED
    BY <2>1, <2>2
<1>3. Alone'
  BY <1>1, <1>2 DEF SerialInv, Alone, NoTasks
<1>4. ListIsFresh'
  <2>1. \A u \in Pending : job.list[u] = sub[u] /\ IsDue(sub[u])
    BY DEF SerialInv, ListIsFresh
  <2>2. Working' /\ Pending' = job'.todo \cup {job'.user}
    BY <1>2 DEF Working, Pending
  <2>3. \A u \in Pending' : job'.list[u] = sub'[u] /\ IsDue(sub[u])'
    BY <1>1, <1>2, <2>1, <2>2 DEF IsDue
  <2> QED
    BY <1>2, <2>2, <2>3 DEF ListIsFresh
<1>5. StoppedIsInactive' /\ WritesBack'
  BY <1>1 DEF SerialInv, StoppedIsInactive, WritesBack
<1> QED
  BY <1>3, <1>4, <1>5 DEF SerialInv

LEMMA EndIsSerial ==
  ASSUME IInv, SerialInv, SaveRenewed \/ SaveExpired
  PROVE  SerialInv'
<1>1. /\ NoTasks /\ Working /\ job.user \in Users /\ job.todo \in SUBSET Users
      /\ job' = Left(job.todo)
      /\ UNCHANGED <<now, midnight, stopped, task>>
  BY DEF SaveRenewed, SaveExpired, SerialInv, Alone, Working, IInv, TypeOK, HandlersOK, Jobs
<1>2. \A u \in Users : u # job.user => sub'[u] = sub[u]
  BY DEF SaveRenewed, SaveExpired, IInv, TypeOK
<1>3. /\ job'.pc = (IF job.todo = {} THEN "idle" ELSE "pick") /\ job'.todo = job.todo
      /\ job.todo # {} => job'.list = job.list
  BY <1>1, LeftIsJob
<1>4. /\ \A u \in Pending : job.list[u] = sub[u] /\ IsDue(sub[u])
      /\ job.user \in Pending /\ job.user \notin job.todo /\ job.todo \subseteq Pending
  BY <1>1 DEF SerialInv, ListIsFresh, Pending
<1>5. Alone'
  BY <1>1, <1>3 DEF SerialInv, Alone, NoTasks
<1>6. ListIsFresh'
  <2>1. ~Working' /\ Pending' = job.todo
    BY <1>3 DEF Working, Pending
  <2>2. \A u \in job.todo : job'.list[u] = sub'[u] /\ IsDue(sub[u])'
    BY <1>1, <1>2, <1>3, <1>4 DEF IsDue
  <2> QED
    BY <2>1, <2>2 DEF ListIsFresh
<1>7. StoppedIsInactive'
  <2>1. ~stopped[job.user]
    BY <1>1, <1>4 DEF SerialInv, StoppedIsInactive, IsDue
  <2> QED
    BY <1>1, <1>2, <2>1 DEF SerialInv, StoppedIsInactive
<1>8. WritesBack'
  BY <1>1 DEF WritesBack, NoTasks
<1> QED
  BY <1>5, <1>6, <1>7, <1>8 DEF SerialInv

LEMMA StutterIsSerial ==
  ASSUME SerialInv, UNCHANGED vars
  PROVE  SerialInv'
BY DEF vars, SerialInv, Alone, NoTasks, ListIsFresh, Working, Pending, IsDue,
   StoppedIsInactive, WritesBack

LEMMA StepIsSerial ==
  ASSUME ~Overlapping
  PROVE  IInv /\ SerialInv /\ [Next]_vars => SerialInv'
<1> SUFFICES ASSUME IInv, SerialInv, [Next]_vars PROVE SerialInv'
  OBVIOUS
<1>1. ASSUME NEW t \in Tasks, Request(t) PROVE SerialInv'
  <2>1. PICK u \in Users, s \in Subs : /\ Begin(t, u, s)
                                       /\ s.status = "ACTIVE" \/ s.ends = sub[u].ends
    BY <1>1, RequestBegins
  <2> QED
    BY <2>1, BeginIsSerial
<1>2. ASSUME NEW t \in Tasks, SaveSubscription(t) \/ Refused(t) PROVE SerialInv'
  BY <1>2, SaveIsSerial
<1>3. CASE Tick \/ JobLost \/ ListDue \/ RenewalRefused
  BY <1>3, JobMovesSerially
<1>4. CASE Charge \/ RecordPayment
  BY <1>4, ChargeIsSerial
<1>5. CASE SaveRenewed \/ SaveExpired
  BY <1>5, EndIsSerial
<1>6. CASE UNCHANGED vars
  BY <1>6, StutterIsSerial
<1> QED
  BY <1>1, <1>2, <1>3, <1>4, <1>5, <1>6 DEF Next, Renewal

LEMMA SerialInvariance ==
  ASSUME ~Overlapping
  PROVE  Spec => [](IInv /\ SerialInv)
BY InitIsSound, InitIsSerial, StepIsSound, StepIsSerial, PTL DEF Spec

(* What the invariant says of a charge. *)

\* The gateway is asked for users on the list only, whose row is as listed.
LEMMA OnlyTheDueAreCharged ==
  ASSUME IInv, SerialInv, [Next]_vars, NEW u \in Users, ChargedFor(u)
  PROVE  IsDue(sub[u])
<1>1. Charge
  BY DEF ChargedFor, Next, Request, StartSubscription, CancelSubscription, ProvisionUnlimited,
     Begin, SaveSubscription, Refused, Tick, JobLost, Renewal, ListDue, RecordPayment,
     SaveRenewed, SaveExpired, RenewalRefused, vars
<1>2. captured \in [Users -> Nat]
  BY DEF IInv, TypeOK
<1>3. u \in job.todo
  BY <1>1, <1>2 DEF Charge, ChargedFor
<1> QED
  BY <1>3 DEF SerialInv, ListIsFresh, Pending

\* One at a time, the job charges only for a period that is over.
THEOREM ChargesAtTheEnd ==
  ASSUME ~Overlapping
  PROVE  Spec => NotChargedEarly
<1>1. IInv /\ SerialInv /\ [Next]_vars
        => [\A u \in Users : ChargedFor(u) => sub[u].ends <= now]_vars
  BY OnlyTheDueAreCharged DEF IsDue, IInv, DatesOK
<1> QED
  BY <1>1, SerialInvariance, PTL DEF Spec, NotChargedEarly

\* One at a time, nobody is charged after a cancellation.  (A cancellation between
\* the job's list and its charge is what this leaves out.)
THEOREM CancellationStopsCharges ==
  ASSUME ~Overlapping
  PROVE  Spec => StoppedIsNotCharged
<1>1. IInv /\ SerialInv /\ [Next]_vars
        => [\A u \in Users : ChargedFor(u) => ~stopped[u]]_vars
  BY OnlyTheDueAreCharged DEF IsDue, SerialInv, StoppedIsInactive
<1> QED
  BY <1>1, SerialInvariance, PTL DEF Spec, StoppedIsNotCharged

LEMMA StepNeverShortens ==
  ASSUME IInv, SerialInv, [Next]_vars, NEW u \in Users
  PROVE  sub'[u].ends >= sub[u].ends \/ SavesPeriod(u)
<1>1. sub[u].ends \in Nat
  BY DEF IInv, TypeOK, Subs
<1>2. CASE sub' = sub
  BY <1>1, <1>2
<1>3. ASSUME NEW t \in Tasks, SaveSubscription(t)
      PROVE  sub'[u].ends >= sub[u].ends \/ SavesPeriod(u)
  <2>1. /\ task[t].pc = "save" /\ task'[t].pc = "idle"
        /\ sub' = [sub EXCEPT ![task[t].user] = task[t].save]
        /\ sub \in [Users -> Subs]
    BY <1>3 DEF SaveSubscription, Idle, IInv, TypeOK
  <2>2. CASE task[t].user # u
    BY <1>1, <2>1, <2>2
  <2>3. CASE task[t].user = u /\ task[t].save.status = "ACTIVE"
    BY <2>1, <2>3 DEF SavesPeriod
  <2>4. CASE task[t].user = u /\ task[t].save.status # "ACTIVE"
    <3>1. task[t].save.ends = sub[u].ends
      BY <2>1, <2>4 DEF SerialInv, WritesBack
    <3>2. sub'[u].ends = sub[u].ends
      BY <2>1, <2>4, <3>1
    <3> QED
      BY <1>1, <3>2
  <2> QED
    BY <2>2, <2>3, <2>4
<1>4. CASE SaveRenewed \/ SaveExpired
  <2>1. job.user \in Users /\ job.user \in Pending /\ sub \in [Users -> Subs]
    BY <1>4 DEF SaveRenewed, SaveExpired, IInv, TypeOK, HandlersOK, Working, Pending
  <2>2. job.list[job.user] = sub[job.user] /\ Writable(sub[job.user])
    BY <2>1, ListedIsWritable DEF SerialInv, ListIsFresh
  <2>3. PICK s : /\ sub' = [sub EXCEPT ![job.user] = s]
                 /\ s.ends = sub[job.user].ends \/ s.ends > sub[job.user].ends
                 /\ s.ends \in Nat
    BY <1>4, <2>2, RenewedIsWritable, ExpiredIsWritable
       DEF SaveRenewed, SaveExpired, Writable, Subs
  <2>4. sub'[u] = IF u = job.user THEN s ELSE sub[u]
    BY <2>1, <2>3
  <2>5. CASE u = job.user
    <3>1. sub'[u] = s
      BY <2>4, <2>5
    <3>2. (s.ends = sub[u].ends \/ s.ends > sub[u].ends) /\ s.ends \in Nat
      BY <2>3, <2>5
    <3> QED
      BY <1>1, <3>1, <3>2
  <2>6. CASE u # job.user
    BY <1>1, <2>4, <2>6
  <2> QED
    BY <2>5, <2>6
<1> QED
  BY <1>2, <1>3, <1>4 DEF Next, Request, StartSubscription, CancelSubscription,
     ProvisionUnlimited, Begin, Refused, Tick, JobLost, Renewal, ListDue, Charge,
     RecordPayment, RenewalRefused, vars

\* One at a time, neither a cancellation nor a renewal nor its failure takes away
\* time that was paid for.
THEOREM PaidTimeIsKept ==
  ASSUME ~Overlapping
  PROVE  Spec => NeverShortened
<1>1. IInv /\ SerialInv /\ [Next]_vars
        => [\A u \in Users : sub'[u].ends >= sub[u].ends \/ SavesPeriod(u)]_vars
  BY StepNeverShortens
<1> QED
  BY <1>1, SerialInvariance, PTL DEF Spec, NeverShortened

-----------------------------------------------------------------------------
(* One at a time, and nothing fails. *)

Smooth == ~Overlapping /\ Faults = {}

LEMMA InitIsUpToDate == Init => UpToDate /\ Recorded
BY NoSubIsRow, NoJobIsJob DEF Init, UpToDate, Recorded, Idle

LEMMA StepIsRecorded ==
  ASSUME Faults = {}, IInv, Recorded, [Next]_vars
  PROVE  Recorded'
<1>1. ~JobLost /\ ~RenewalRefused
  BY DEF JobLost, RenewalRefused
<1>2. captured \in [Users -> Nat] /\ recorded \in [Users -> Nat] /\ job.todo \subseteq Users
  BY DEF IInv, TypeOK, Jobs
<1>3. CASE Charge
  <2>1. PICK u \in job.todo, paid \in BOOLEAN, answered \in BOOLEAN :
          /\ answered \/ "lost" \in Faults
          /\ captured' = IF paid THEN [captured EXCEPT ![u] = @ + 1] ELSE captured
          /\ job' = [pc |-> Verdict(paid, answered), user |-> u, todo |-> job.todo \ {u},
                     list |-> job.list]
    BY <1>3 DEF Charge, Goto
  <2>2. recorded' = recorded /\ job.pc = "pick"
    BY <1>3 DEF Charge
  <2>3. \A v \in Users : captured'[v] = captured[v] + (IF paid /\ v = u THEN 1 ELSE 0)
    BY <1>2, <2>1
  <2>4. job'.pc = "record" <=> paid
    BY <2>1 DEF Verdict
  <2>5. \A v \in Users : captured[v] = recorded[v]
    BY <1>2, <2>2 DEF Recorded
  <2> QED
    BY <1>2, <2>1, <2>2, <2>3, <2>4, <2>5 DEF Recorded
<1>4. CASE RecordPayment
  <2>1. /\ job.pc = "record" /\ job'.pc = "renew" /\ captured' = captured
        /\ recorded' = [recorded EXCEPT ![job.user] = @ + 1]
    BY <1>4 DEF RecordPayment, Goto
  <2>2. \A v \in Users : recorded'[v] = recorded[v] + (IF job.user = v THEN 1 ELSE 0)
    BY <1>2, <2>1
  <2> QED
    BY <1>2, <2>1, <2>2 DEF Recorded
<1>5. CASE Tick \/ ListDue \/ SaveRenewed \/ SaveExpired
  <2>1. job.pc # "record" /\ UNCHANGED <<captured, recorded>>
    BY <1>5 DEF Tick, ListDue, SaveRenewed, SaveExpired
  <2>2. job'.pc # "record"
    BY <1>2, <1>5, NoJobIsJob, LeftIsJob DEF Tick, NoJob, ListDue, SaveRenewed, SaveExpired
  <2> QED
    BY <2>1, <2>2 DEF Recorded
<1>6. ASSUME NEW t \in Tasks, Request(t) \/ SaveSubscription(t) \/ Refused(t) PROVE Recorded'
  BY <1>6 DEF Request, StartSubscription, CancelSubscription, ProvisionUnlimited, Begin,
     SaveSubscription, Refused, Recorded
<1>7. CASE UNCHANGED vars
  BY <1>7 DEF vars, Recorded
<1> QED
  BY <1>1, <1>3, <1>4, <1>5, <1>6, <1>7 DEF Next, Renewal

\* What the gateway took is on record once the job is through, when no answer is
\* lost and no call fails.
THEOREM CapturesOnRecord ==
  ASSUME Faults = {}
  PROVE  Spec => []CapturedIsOnRecord
<1>1. IInv /\ Recorded => CapturedIsOnRecord
  <2> SUFFICES ASSUME IInv, Recorded, NEW u \in Users, job.pc = "idle"
               PROVE  captured[u] = recorded[u]
    BY DEF CapturedIsOnRecord
  <2>1. captured[u] = recorded[u] + 0 /\ recorded[u] \in Nat
    BY DEF Recorded, IInv, TypeOK
  <2> QED
    BY <2>1
<1> QED
  BY <1>1, Invariance, InitIsUpToDate, StepIsRecorded, PTL DEF Spec

LEMMA StepIsUpToDate ==
  ASSUME Smooth, IInv, SerialInv, UpToDate, [Next]_vars
  PROVE  UpToDate'
<1>1. ~JobLost /\ ~RenewalRefused /\ \A t \in Tasks : ~Refused(t)
  BY DEF Smooth, JobLost, RenewalRefused, Refused
<1>2. /\ now \in Nat /\ midnight \in Nat /\ midnight <= now
      /\ Day \in Nat /\ Day > 0
      /\ sub \in [Users -> Subs] /\ task \in [Tasks -> Requests]
      /\ job.todo \in SUBSET Users
      /\ \A u \in Users : sub[u].ends \in Nat /\ sub[u].next = sub[u].ends
      /\ \A t \in Tasks : task[t].save.ends \in Nat
  BY SubscriptionAssumption DEF IInv, TypeOK, DatesOK, Subs, Requests, Jobs
<1>3. job.pc \in {"idle", "due"} => Pending = {}
  BY DEF SerialInv, Alone, Working, Pending
<1>4. ASSUME NEW t \in Tasks, Request(t) PROVE UpToDate'
  <2>1. PICK u \in Users, s \in Subs :
           /\ Begin(t, u, s)
           /\ s.status = "ACTIVE" => s.ends > now
    BY <1>4, RequestBegins
  <2>2. /\ task' = [task EXCEPT ![t] = [pc |-> "save", user |-> u, save |-> s]]
        /\ job.pc = "idle" /\ UNCHANGED <<now, midnight, sub, job>>
    BY <2>1 DEF Begin, Smooth
  <2>3. \A t2 \in Tasks : task'[t2] = task[t2] \/ task'[t2].save = s
    BY <1>2, <2>2
  <2>4. \A v \in Users : sub[v].status = "ACTIVE" => sub[v].ends > midnight
    BY <1>3, <2>2 DEF UpToDate, Lasts
  <2>5. job'.pc = "idle" /\ Pending' = {}
    BY <1>3, <2>2 DEF Pending, Working
  <2>6. s.status = "ACTIVE" => s.ends > midnight
    BY <1>2, <2>1 DEF Subs
  <2>7. \A t2 \in Tasks : task[t2].pc = "save" /\ task[t2].save.status = "ACTIVE"
                           => task[t2].save.ends > midnight
    BY <2>2 DEF UpToDate, Lasts
  <2>8. \A t2 \in Tasks : task'[t2].pc = "save" /\ task'[t2].save.status = "ACTIVE"
                           => task'[t2].save.ends > midnight
    BY <2>3, <2>6, <2>7
  <2> QED
    BY <2>2, <2>4, <2>5, <2>8 DEF UpToDate, Lasts
<1>5. ASSUME NEW t \in Tasks, SaveSubscription(t) PROVE UpToDate'
  <2>1. /\ task[t].pc = "save" /\ task' = [task EXCEPT ![t] = Idle]
        /\ sub' = [sub EXCEPT ![task[t].user] = task[t].save]
        /\ UNCHANGED <<now, midnight, job>>
    BY <1>5 DEF SaveSubscription
  <2>2. job.pc \in {"idle", "due"} /\ Pending = {} /\ Pending' = {}
    BY <1>3, <2>1 DEF SerialInv, Alone, NoTasks, Pending, Working
  <2>3. \A u \in Users : sub'[u] = sub[u] \/ sub'[u] = task[t].save
    BY <1>2, <2>1
  <2>4. \A t2 \in Tasks : task'[t2] = task[t2] \/ task'[t2].pc = "idle"
    BY <1>2, <2>1 DEF Idle
  <2>5. CASE job.pc = "due"
    BY <2>1, <2>2, <2>3, <2>4, <2>5 DEF UpToDate, LastedYesterday
  <2>6. CASE job.pc = "idle"
    BY <2>1, <2>2, <2>3, <2>4, <2>6 DEF UpToDate, Lasts
  <2> QED
    BY <2>2, <2>5, <2>6
<1>6. CASE Tick
  <2>1. job.pc = "idle" /\ Pending = {} /\ UNCHANGED <<sub, task>>
    BY <1>3, <1>6 DEF Tick
  <2>2. /\ \A u \in Users : sub[u].status = "ACTIVE" => sub[u].ends > midnight
        /\ \A t \in Tasks : task[t].pc = "save" /\ task[t].save.status = "ACTIVE"
                            => task[t].save.ends > midnight
    BY <2>1 DEF UpToDate, Lasts
  <2>3. CASE now + 1 = midnight + Day
    <3>1. midnight' = midnight + Day /\ job'.pc = "due"
      BY <1>6, <2>3 DEF Tick, NoJob
    <3>2. /\ \A u \in Users : sub[u].status = "ACTIVE" => sub[u].ends + Day > midnight + Day
          /\ \A t \in Tasks : task[t].pc = "save" /\ task[t].save.status = "ACTIVE"
                              => task[t].save.ends + Day > midnight + Day
      BY <1>2, <2>2
    <3> QED
      BY <2>1, <3>1, <3>2 DEF UpToDate, LastedYesterday
  <2>4. CASE now + 1 # midnight + Day
    <3>1. midnight' = midnight /\ job' = job
      BY <1>6, <2>4 DEF Tick
    <3>2. Pending' = {} /\ job'.pc = "idle"
      BY <2>1, <3>1 DEF Pending, Working
    <3> QED
      BY <2>1, <2>2, <3>1, <3>2 DEF UpToDate, Lasts
  <2> QED
    BY <2>3, <2>4
<1>7. CASE ListDue
  <2>1. job.pc = "due" /\ NoTasks /\ UNCHANGED <<now, midnight, sub, task>>
    BY <1>7 DEF ListDue, Smooth
  <2>2. job'.pc \in {"idle", "pick"} /\ Pending' = {u \in Users : IsDue(sub[u])}
    BY <1>7, NoJobIsJob DEF ListDue, Pending, Working
  <2>3. \A u \in Users : sub[u].status = "ACTIVE" => LastedYesterday(sub[u])
    BY <2>1 DEF UpToDate
  <2>4. \A u \in Users : sub[u].status = "ACTIVE" /\ ~IsDue(sub[u]) => sub[u].ends > midnight
    BY <1>2 DEF IsDue
  <2> QED
    BY <2>1, <2>2, <2>3, <2>4 DEF UpToDate, NoTasks, Lasts, LastedYesterday
<1>8. CASE Charge \/ RecordPayment
  <2>1. job.pc # "due" /\ NoTasks /\ UNCHANGED <<now, midnight, sub, task>>
    BY <1>8 DEF Charge, RecordPayment, SerialInv, Alone
  <2>2. job'.pc # "due" /\ Pending' = Pending
    <3>1. CASE Charge
      BY <3>1 DEF Charge, Goto, Verdict, Pending, Working
    <3>2. CASE RecordPayment
      BY <3>2 DEF RecordPayment, Goto, Pending, Working
    <3> QED
      BY <1>8, <3>1, <3>2
  <2> QED
    BY <2>1, <2>2 DEF UpToDate, NoTasks, Lasts, LastedYesterday
<1>9. CASE SaveRenewed \/ SaveExpired
  <2>1. /\ job.pc # "due" /\ NoTasks /\ UNCHANGED <<now, midnight, task>>
        /\ job' = Left(job.todo)
        /\ job.user \in Users /\ job.user \in Pending
        /\ Pending = job.todo \cup {job.user}
    BY <1>9 DEF SaveRenewed, SaveExpired, SerialInv, Alone, IInv, HandlersOK, Working, Pending
  <2>2. /\ job.list[job.user] = sub[job.user] /\ Writable(sub[job.user])
        /\ sub[job.user].status = "ACTIVE"
    BY <2>1, ListedIsWritable DEF SerialInv, ListIsFresh, IsDue
  <2>3. sub[job.user].ends + Day > midnight
    BY <2>1, <2>2 DEF UpToDate, LastedYesterday
  <2>4. PICK s : /\ sub' = [sub EXCEPT ![job.user] = s]
                 /\ \/ s.status = "EXPIRED"
                    \/ s.ends = sub[job.user].ends + Length(sub[job.user].plan)
    BY <1>9, <2>2, RenewedIsWritable, ExpiredIsWritable DEF SaveRenewed, SaveExpired
  <2>5. s.status = "ACTIVE" => s.ends > midnight
    <3>1. Length(sub[job.user].plan) \in Nat /\ Length(sub[job.user].plan) >= Day
      BY SubscriptionAssumption DEF Length
    <3> QED
      BY <1>2, <2>1, <2>3, <2>4, <3>1
  <2>6. \A u \in Users : sub'[u] = IF u = job.user THEN s ELSE sub[u]
    BY <1>2, <2>4
  <2>7. job'.pc \in {"idle", "pick"} /\ Pending' = job.todo
    BY <1>2, <2>1, LeftIsJob DEF Pending, Working
  <2>8. job.user \notin job.todo
    BY <1>9 DEF SaveRenewed, SaveExpired, SerialInv, ListIsFresh, Working
  <2>9. \A u \in Users : sub'[u].status = "ACTIVE" =>
          IF u \in job.todo THEN LastedYesterday(sub'[u]) ELSE Lasts(sub'[u])
    BY <2>1, <2>5, <2>6, <2>8 DEF UpToDate, Lasts
  <2>10. \A u \in Users : sub'[u].status = "ACTIVE" =>
           IF u \in job.todo THEN sub'[u].ends + Day > midnight' ELSE sub'[u].ends > midnight'
    BY <2>1, <2>9 DEF Lasts, LastedYesterday
  <2> QED
    BY <2>1, <2>7, <2>10 DEF UpToDate, NoTasks, Lasts, LastedYesterday
<1>10. CASE UNCHANGED vars
  BY <1>10 DEF vars, UpToDate, Lasts, LastedYesterday, Pending, Working
<1> QED
  BY <1>1, <1>4, <1>5, <1>6, <1>7, <1>8, <1>9, <1>10 DEF Next, Renewal

\* One at a time and when nothing fails, nobody is exempt from fees, once the job
\* of the day is through, on a period that ended by the midnight it ran at: a
\* subscription that is over exempts for less than a day.
THEOREM NobodyRidesFree ==
  ASSUME Smooth
  PROVE  Spec => []NoFreeRide
<1>1. IInv /\ SerialInv /\ UpToDate => NoFreeRide
  BY DEF SerialInv, Alone, UpToDate, Lasts, Working, Pending, NoFreeRide, Exempt
<1>2. IInv /\ SerialInv /\ UpToDate /\ [Next]_vars => UpToDate'
  BY StepIsUpToDate
<1>3. Spec => [](IInv /\ SerialInv)
  BY SerialInvariance DEF Smooth
<1> QED
  BY <1>1, <1>2, <1>3, InitIsUpToDate, PTL DEF Spec
=============================================================================
