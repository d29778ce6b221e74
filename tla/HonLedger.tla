----------------------------- MODULE HonLedger -----------------------------
(***************************************************************************)
(* The HON credit of the users: a balance row per user, split into free    *)
(* and paid HON, and the table of HON events that explains it.  HonService *)
(* reads a balance, computes the new one and writes it back, each behind   *)
(* an await of its own, then records an event; the daily job reads every   *)
(* balance and later commits events and balances in one transaction.       *)
(* Operations overlap at every await.                                      *)
(*                                                                         *)
(* A user without a balance row counts as a balance of zero, as in the     *)
(* code.  That a payment is charged at most once is module Payment's       *)
(* business, and whether a user is subscribed the subscriptions': deduct   *)
(* may find either here.                                                   *)
(***************************************************************************)
EXTENDS Integers, FiniteSets

CONSTANTS Users,         \* the user ids
          Tasks,         \* handler slots: how many requests run at once
          WelcomeHon,    \* what a new user is given: 50
          Charges,       \* what a one-off payment buys: 30, 100 or 200
          Fees,          \* what an analysis or a refund takes
          AdminAmounts,  \* what an administrator gives or, below zero, takes
          DailyEvents,   \* the settings of the daily job: [type, amount]
          Overlapping,   \* an operation may begin while others run
          Faults,        \* "refused": a database call fails; "crash"
          MaxOps,        \* bound: how many operations a behaviour begins
          NoUser

DailyTypes == {"RESET", "ADD"}

ASSUME HonAssumption == /\ NoUser \notin Users
                        /\ WelcomeHon \in Nat
                        /\ Charges \subseteq Nat
                        /\ Fees \subseteq Nat
                        /\ AdminAmounts \subseteq Int
                        /\ DailyEvents \subseteq [type : DailyTypes, amount : Int]
                        /\ Overlapping \in BOOLEAN
                        /\ Faults \subseteq {"refused", "crash"}
                        /\ MaxOps \in Nat

VARIABLES users,    \* the ids with a user row
          rows,     \* the ids with a balance row
          hon,      \* hon: the free and the paid balance
          book,     \* hon_event: the sums of its columns and its last row
          opening,  \* free HON that came with the balance row, without an event
          credited, \* all HON ever written in a user's favour, daily gains and losses
          task,     \* the handler running in each slot
          job,      \* the daily job
          begun     \* how many operations have begun

vars == <<users, rows, hon, book, opening, credited, task, job, begun>>

-----------------------------------------------------------------------------
(* Balances. *)

Purse(free, paid) == [free |-> free, paid |-> paid]

Total(h) == h.free + h.paid

Smaller(a, b) == IF a <= b THEN a ELSE b
Larger(a, b) == IF a >= b THEN a ELSE b

Plus(h, k) == Purse(h.free + k.free, h.paid + k.paid)

\* Mutant: a free gift is booked as bought.
Given_AllPaid(op, amount) == Purse(0, amount)

\* chargeHon: a payment buys paid HON, a registration is given free HON.
Given(op, amount) == IF op = "gift" THEN Purse(amount, 0) ELSE Purse(0, amount)

\* deductHon takes from one purse first and the rest from the other one.
Deducted(h, amount, paidFirst) ==
  LET fromPaid == IF paidFirst THEN Smaller(h.paid, amount)
                  ELSE amount - Smaller(h.free, amount)
  IN  Purse(h.free - (amount - fromPaid), h.paid - fromPaid)

\* provisionHonByAdmin gives free HON and takes paid HON, down to zero.
Provisioned(h, amount) ==
  IF amount >= 0 THEN Purse(h.free + amount, Larger(0, h.paid))
                 ELSE Purse(h.free, Larger(0, h.paid + amount))

-----------------------------------------------------------------------------
(* Handlers. *)

Ops == {"charge", "gift", "deduct", "recover", "provision", "open"}

Idle == [pc |-> "idle", op |-> "none", user |-> NoUser, amount |-> 0,
         was |-> Purse(0, 0), todo |-> {}]

NoJob == [pc |-> "idle", event |-> [type |-> "none", amount |-> 0], seen |-> {},
          read |-> [u \in Users |-> Purse(0, 0)]]

\* The row saveHon writes, from the row getHon read.
After(a) ==
  CASE a.op \in {"charge", "gift"} -> Plus(a.was, Given(a.op, a.amount))
    [] a.op = "deduct"             -> Deducted(a.was, a.amount, FALSE)
    [] a.op = "recover"            -> Deducted(a.was, a.amount, TRUE)
    [] OTHER                       -> Provisioned(a.was, a.amount)

\* What a write puts in the user's favour.
Credit(a) ==
  CASE a.op = "charge"                        -> Purse(0, a.amount)
    [] a.op = "gift"                          -> Purse(a.amount, 0)
    [] a.op = "provision" /\ a.amount >= 0    -> Purse(a.amount, 0)
    [] OTHER                                  -> Purse(0, 0)

\* The amount column: negative when deductHon records it.
Signed(a) == IF a.op \in {"deduct", "recover"} THEN -a.amount ELSE a.amount

\* Mutant: the balance before the change is recorded.
BalanceOf_Before(a) == Total(a.was)

\* The balance recorded with the event.  provisionHonByAdmin adds the new paid
\* balance to the free balance it read.
BalanceOf(a) == IF a.op = "provision" THEN a.was.free + After(a).paid
                                      ELSE Total(After(a))

\* hon_event after one more row.
Entered(b, by, amount, change, balance) ==
  [amount |-> b.amount + amount, free |-> b.free + change.free,
   paid |-> b.paid + change.paid, balance |-> balance, by |-> by]

\* Mutant: the paid part of a change is left at its default of zero.
Change_FreeOnly(from, to) == Purse(to.free - from.free, 0)

\* The freeAmount and paidAmount columns.
Change(from, to) == Purse(to.free - from.free, to.paid - from.paid)

NoEvent == [amount |-> 0, free |-> 0, paid |-> 0, balance |-> 0, by |-> "none"]

Init == /\ users = {}
        /\ rows = {}
        /\ hon = [u \in Users |-> Purse(0, 0)]
        /\ book = [u \in Users |-> NoEvent]
        /\ opening = [u \in Users |-> 0]
        /\ credited = [u \in Users |-> Purse(0, 0)]
        /\ task = [t \in Tasks |-> Idle]
        /\ job = NoJob
        /\ begun = 0

Quiet == (\A t \in Tasks : task[t].pc = "idle") /\ job.pc = "idle"

MayBegin == begun < MaxOps /\ (Overlapping \/ Quiet)

\* An operation takes slot t; its first shared access is still to come.
Begin(t, pc, op, u, amount, todo) ==
  /\ MayBegin /\ task[t].pc = "idle"
  /\ task' = [task EXCEPT ![t] = [pc |-> pc, op |-> op, user |-> u, amount |-> amount,
                                  was |-> Purse(0, 0), todo |-> todo]]
  /\ begun' = begun + 1
  /\ UNCHANGED <<rows, hon, book, opening, credited, job>>

\* The balance row of u is created with the welcome HON, and no event.
Welcomed(u) ==
  /\ rows' = rows \cup {u}
  /\ hon' = [hon EXCEPT ![u] = Purse(WelcomeHon, 0)]
  /\ opening' = [opening EXCEPT ![u] = WelcomeHon]
  /\ credited' = [credited EXCEPT ![u] = Plus(@, Purse(WelcomeHon, 0))]

\* signup: the user and the balance row in one transaction.
Signup(u) == /\ MayBegin /\ u \notin users
             /\ users' = users \cup {u}
             /\ Welcomed(u)
             /\ begun' = begun + 1
             /\ UNCHANGED <<book, task, job>>

\* register: the user row, then chargeHon with free HON.
Register(t, u) == /\ u \notin users
                  /\ users' = users \cup {u}
                  /\ Begin(t, "load", "gift", u, WelcomeHon, {})

\* createInquiry makes a missing user, then the balance row.
CreateInquiry(t, u) == /\ u \notin users
                       /\ users' = users \cup {u}
                       /\ Begin(t, "create", "open", u, 0, {})

ChargeHon(t, u) == /\ u \in users
                   /\ \E a \in Charges : Begin(t, "load", "charge", u, a, {})
                   /\ UNCHANGED users

\* An ACTIVE subscriber is let go, which changes nothing; others go on.
DeductHon(t, u) ==
  /\ u \in users
  /\ \E a \in Fees, op \in {"deduct", "recover"} : Begin(t, "load", op, u, a, {})
  /\ UNCHANGED users

ProvisionHonByAdmin(t, u) ==
  /\ u \in users
  /\ \E a \in AdminAmounts : Begin(t, "load", "provision", u, a, {})
  /\ UNCHANGED users

\* The users are listed once, then provisioned one after the other.
BulkProvisionHonByAdmin(t) ==
  /\ \E u \in users, a \in AdminAmounts :
       Begin(t, "load", "provision", u, a, users \ {u})
  /\ UNCHANGED users

\* The handler in slot t goes on, with h the balance it works from.
Advance(t, pc, h) ==
  task' = [task EXCEPT ![t] = [pc |-> pc, op |-> task[t].op, user |-> task[t].user,
                               amount |-> task[t].amount, was |-> h,
                               todo |-> task[t].todo]]

\* The handler is over, or goes on with the next user of a bulk.
Done(t) ==
  LET a == task[t] IN
    \/ a.todo = {} /\ task' = [task EXCEPT ![t] = Idle]
    \/ \E u \in a.todo :
         task' = [task EXCEPT ![t] = [pc |-> "load", op |-> a.op, user |-> u,
                                      amount |-> a.amount, was |-> Purse(0, 0),
                                      todo |-> a.todo \ {u}]]

\* Mutant: the balance is not checked.
Short_Never(op, amount, h) == FALSE

\* deductHon refuses to take more than there is.
Short(op, amount, h) == op \in {"deduct", "recover"} /\ Total(h) < amount

\* getHon, and the sufficiency check of deductHon.
GetHon(t) ==
  /\ task[t].pc = "load"
  /\ LET h == hon[task[t].user] IN
       IF Short(task[t].op, task[t].amount, h)
       THEN Done(t)
       ELSE Advance(t, "save", h)
  /\ UNCHANGED <<users, rows, hon, book, opening, credited, job, begun>>

\* saveHon: an upsert of both balances as computed from the row read before.
SaveHon(t) ==
  /\ task[t].pc = "save"
  /\ LET a == task[t] IN
       /\ rows' = rows \cup {a.user}
       /\ hon' = [hon EXCEPT ![a.user] = After(a)]
       /\ credited' = [credited EXCEPT ![a.user] = Plus(@, Credit(a))]
       /\ Advance(t, "event", a.was)
  /\ UNCHANGED <<users, book, opening, job, begun>>

SaveHonEvent(t) ==
  /\ task[t].pc = "event"
  /\ LET a == task[t] IN
       book' = [book EXCEPT ![a.user] =
                  Entered(@, a.op, Signed(a), Change(a.was, After(a)), BalanceOf(a))]
  /\ Done(t)
  /\ UNCHANGED <<users, rows, hon, opening, credited, job, begun>>

\* createInquiry's second step: the row is created, or is there and it throws.
CreateHon(t) ==
  /\ task[t].pc = "create"
  /\ IF task[t].user \in rows THEN UNCHANGED <<rows, hon, opening, credited>>
                              ELSE Welcomed(task[t].user)
  /\ Done(t)
  /\ UNCHANGED <<users, book, job, begun>>

-----------------------------------------------------------------------------
(* processAdminHonEvents: one setting after the other. *)

Eligible(e) == {u \in rows : e.type = "ADD" \/ hon[u].free < e.amount}

DailyRead(e) == /\ MayBegin /\ job.pc = "idle" /\ Eligible(e) # {}
                /\ job' = [pc |-> "commit", event |-> e, seen |-> Eligible(e), read |-> hon]
                /\ begun' = begun + 1
                /\ UNCHANGED <<users, rows, hon, book, opening, credited, task>>

\* RESET lifts the free balance to the amount, ADD adds the amount.
DailyGain(e, h) == Purse(IF e.type = "RESET" THEN e.amount - h.free ELSE e.amount, 0)

\* One transaction: the events as computed from the balances read before, the
\* balances as they are now.
DailyCommit ==
  /\ job.pc = "commit"
  /\ LET e == job.event IN
       /\ book' = [u \in Users |->
            IF u \notin job.seen THEN book[u]
            ELSE LET gain == DailyGain(e, job.read[u])
                 IN  Entered(book[u], "daily", gain.free, gain,
                             Total(Plus(job.read[u], gain)))]
       /\ hon' = [u \in Users |-> IF u \in Eligible(e)
                                  THEN Plus(hon[u], DailyGain(e, hon[u])) ELSE hon[u]]
       /\ credited' = [u \in Users |-> IF u \in Eligible(e)
                         THEN Plus(credited[u], DailyGain(e, hon[u])) ELSE credited[u]]
  /\ job' = NoJob
  /\ UNCHANGED <<users, rows, opening, task, begun>>

-----------------------------------------------------------------------------
(* The database refuses a call: the handler throws, a bulk logs the error and
   goes on, the daily job logs it and ends. *)

Refused(t) == /\ "refused" \in Faults /\ task[t].pc # "idle"
              /\ Done(t)
              /\ UNCHANGED <<users, rows, hon, book, opening, credited, job, begun>>

DailyRefused == /\ "refused" \in Faults /\ job.pc # "idle"
                /\ job' = NoJob
                /\ UNCHANGED <<users, rows, hon, book, opening, credited, task, begun>>

\* The process stops: nothing that was under way goes on.
Crash == /\ "crash" \in Faults /\ ~Quiet
         /\ task' = [t \in Tasks |-> Idle]
         /\ job' = NoJob
         /\ UNCHANGED <<users, rows, hon, book, opening, credited, begun>>

Arrive(t) == \/ \E u \in Users : Register(t, u) \/ CreateInquiry(t, u)
             \/ \E u \in Users : ChargeHon(t, u) \/ DeductHon(t, u)
             \/ \E u \in Users : ProvisionHonByAdmin(t, u)
             \/ BulkProvisionHonByAdmin(t)

Proceed(t) == GetHon(t) \/ SaveHon(t) \/ SaveHonEvent(t) \/ CreateHon(t)

Next == \/ \E u \in Users : Signup(u)
        \/ \E t \in Tasks : Arrive(t) \/ Proceed(t) \/ Refused(t)
        \/ \E e \in DailyEvents : DailyRead(e)
        \/ DailyCommit \/ DailyRefused \/ Crash

Spec == Init /\ [][Next]_vars

-----------------------------------------------------------------------------
(* Properties. *)

Purses == [free : Int, paid : Int]

Pcs == {"idle", "load", "save", "event", "create"}

Books == [amount : Int, free : Int, paid : Int, balance : Int,
          by : Ops \cup {"none", "daily"}]

\* Type invariant: balances and events are integers, and only users have rows.
TypeOK ==
  /\ users \subseteq Users /\ rows \subseteq users
  /\ hon \in [Users -> Purses]
  /\ book \in [Users -> Books]
  /\ opening \in [Users -> Nat]
  /\ credited \in [Users -> Purses]
  /\ task \in [Tasks -> [pc : Pcs, op : Ops \cup {"none"}, user : Users \cup {NoUser},
                         amount : Int, was : Purses, todo : SUBSET Users]]
  /\ job \in [pc : {"idle", "commit"},
              event : [type : DailyTypes \cup {"none"}, amount : Int],
              seen : SUBSET Users, read : [Users -> Purses]]
  /\ begun \in 0 .. MaxOps

\* Nothing checks the amount of a setting: an ADD below zero takes HON from all.
AddsGive == \A e \in DailyEvents : e.type = "ADD" => e.amount >= 0

\* While ADD settings give, no balance is ever negative, although deductHon checks a balance it read one
\* await before it writes and the daily job writes in between.
Solvent == \A u \in Users : hon[u].free >= 0 /\ hon[u].paid >= 0

\* However handlers and the daily job overwrite each other, crash or fail half
\* way, a user never holds more free HON than was given, nor more paid HON (what
\* a refund pays out) than was bought.
Backed == \A u \in Users : /\ hon[u].free <= credited[u].free
                           /\ hon[u].paid <= credited[u].paid

\* Whatever a handler saves, its event tells in full: what it puts into or takes
\* out of the two purses is the amount of the event, whichever purse ran out.
\* Only a deduction by an administrator may be cut off at zero.
ExactAmounts ==
  \A t \in Tasks :
    LET a == task[t] IN
      a.pc = "event" /\ ~(a.op = "provision" /\ a.amount < 0)
        => Total(Change(a.was, After(a))) = Signed(a)

\* While nothing is under way, the free and the paid changes recorded in
\* hon_event add up to the balance row.
BooksBalance ==
  Quiet => \A u \in Users : hon[u] = Purse(opening[u] + book[u].free, book[u].paid)

\* The balance of the last event is the balance of the user, whatever recorded
\* it, but for a provision by an administrator.
StatedBalance ==
  Quiet => \A u \in Users :
    book[u].by \notin {"none", "provision"} => book[u].balance = Total(hon[u])

=============================================================================
