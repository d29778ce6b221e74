---------------------------- MODULE Subscription ----------------------------
(***************************************************************************)
(* A user's subscription over time: bought by a payment, cancelled by the  *)
(* user, given by an administrator, and renewed by the midnight job,       *)
(* which lists what is due and then goes through its list, asking the      *)
(* gateway for each, recording the payment and writing the subscription    *)
(* back as it was listed.  Requests read a subscription, and write it back *)
(* an await later; they overlap with each other and with the job.          *)
(*                                                                         *)
(* Time is counted in hours, as many to a day as one likes.  A period ends *)
(* at the hour it was bought at; the job looks at midnight only.           *)
(*                                                                         *)
(* The gateway is external: it takes the money or declines, and its answer *)
(* may get lost.  The payment that buys a first period is module Payment.  *)
(***************************************************************************)
EXTENDS Naturals, FiniteSets

CONSTANTS Users,
          Tasks,        \* handler slots: how many requests run at once
          Day,          \* the hours from one midnight to the next
          Month, Year,  \* the lengths of the plans, in hours
          PassHours,    \* for how long an administrator may give a free pass
          Horizon,      \* bound: the last hour
          MaxOps,       \* bound: how many requests a behaviour begins
          Overlapping,  \* a request may begin while others or the job run
          Faults,       \* "lost" answers, "refused" calls, a server "down"
          NoUser

ASSUME SubscriptionAssumption == /\ Day \in Nat \ {0}
                                 /\ Month \in Nat /\ Month >= Day
                                 /\ Year \in Nat /\ Year >= Day
                                 /\ PassHours \subseteq Nat \ {0}
                                 /\ Horizon \in Nat /\ MaxOps \in Nat
                                 /\ Overlapping \in BOOLEAN
                                 /\ Faults \subseteq {"lost", "refused", "down"}
                                 /\ NoUser \notin Users

VARIABLES now,      \* the hour
          midnight, \* when today began
          sub,      \* subscription: status, plan, next payment, end
          stopped,  \* the user's last word was a cancellation
          captured, \* renewals the gateway took the money for
          recorded, \* renewals with a PaymentApproved event
          renewed,  \* renewals written to the subscription
          task,     \* the request running in each slot
          job,      \* the renewal job
          begun     \* how many requests have begun

vars == <<now, midnight, sub, stopped, captured, recorded, renewed, task, job, begun>>

-----------------------------------------------------------------------------
Plans == {"MONTHLY", "YEARLY", "UNLIMITED"}

Length(plan) == IF plan = "MONTHLY" THEN Month ELSE Year

NoSub == [status |-> "NONE", plan |-> "NONE", next |-> 0, ends |-> 0]

\* A subscription whose next payment falls due when it ends.
Active(plan, ends) == [status |-> "ACTIVE", plan |-> plan, next |-> ends, ends |-> ends]

\* startSubscription: a period from now, or a year on top of a running MONTHLY.
Started(old, plan, at) ==
  IF old.ends > at /\ old.plan = "MONTHLY" /\ plan = "YEARLY"
  THEN Active(plan, old.ends + Year) ELSE Active(plan, at + Length(plan))

\* cancelSubscription writes back what it read, with another status.
Cancelled(s) == [s EXCEPT !.status = "CANCELLED"]

\* The renewal extends the dates it has listed and sets ACTIVE.
Renewed(s) == [status |-> "ACTIVE", plan |-> s.plan, next |-> s.next + Length(s.plan),
               ends |-> s.ends + Length(s.plan)]

Expired(s) == [s EXCEPT !.status = "EXPIRED"]

\* Mutants: due only after its hour, due an hour early, due whatever the status.
IsDue_Late(s) == s.status = "ACTIVE" /\ s.next < now
IsDue_Early(s) == s.status = "ACTIVE" /\ s.next <= now + 1
IsDue_AnyStatus(s) == s.status # "NONE" /\ s.next <= now

\* findExpiredSubscriptions.
IsDue(s) == s.status = "ACTIVE" /\ s.next <= now

\* deductHon lets the subscriber go without a fee.
Exempt(u) == sub[u].status = "ACTIVE"

-----------------------------------------------------------------------------
Idle == [pc |-> "idle", user |-> NoUser, save |-> NoSub]

NoJob == [pc |-> "idle", user |-> NoUser, todo |-> {}, list |-> [u \in Users |-> NoSub]]

Init == /\ now = 0 /\ midnight = 0
        /\ sub = [u \in Users |-> NoSub]
        /\ stopped = [u \in Users |-> FALSE]
        /\ captured = [u \in Users |-> 0]
        /\ recorded = [u \in Users |-> 0]
        /\ renewed = [u \in Users |-> 0]
        /\ task = [t \in Tasks |-> Idle]
        /\ job = NoJob
        /\ begun = 0

NoTasks == \A t \in Tasks : task[t].pc = "idle"

\* A request reads what it needs and computes what it is going to save.
Begin(t, u, s) ==
  /\ task[t].pc = "idle" /\ begun < MaxOps
  /\ Overlapping \/ (NoTasks /\ job.pc = "idle")
  /\ task' = [task EXCEPT ![t] = [pc |-> "save", user |-> u, save |-> s]]
  /\ begun' = begun + 1
  /\ UNCHANGED <<now, midnight, sub, stopped, captured, recorded, renewed, job>>

StartSubscription(t, u) ==
  \E plan \in {"MONTHLY", "YEARLY"} : Begin(t, u, Started(sub[u], plan, now))

CancelSubscription(t, u) == sub[u].status = "ACTIVE" /\ Begin(t, u, Cancelled(sub[u]))

ProvisionUnlimited(t, u) == \E n \in PassHours : Begin(t, u, Active("UNLIMITED", now + n))

\* saveSubscription, an upsert of every column.
SaveSubscription(t) ==
  /\ task[t].pc = "save"
  /\ sub' = [sub EXCEPT ![task[t].user] = task[t].save]
  /\ stopped' = [stopped EXCEPT ![task[t].user] = task[t].save.status = "CANCELLED"]
  /\ task' = [task EXCEPT ![t] = Idle]
  /\ UNCHANGED <<now, midnight, captured, recorded, renewed, job, begun>>

\* The database refuses the call and the request throws.
Refused(t) ==
  /\ "refused" \in Faults /\ task[t].pc = "save"
  /\ task' = [task EXCEPT ![t] = Idle]
  /\ UNCHANGED <<now, midnight, sub, stopped, captured, recorded, renewed, job, begun>>

-----------------------------------------------------------------------------
(* renewSubscriptions. *)

\* An hour passes.  At midnight the job is to run; it is through before the next
\* hour strikes.
Tick == /\ now < Horizon /\ job.pc = "idle"
        /\ now' = now + 1
        /\ IF now + 1 = midnight + Day
           THEN midnight' = now + 1 /\ job' = [NoJob EXCEPT !.pc = "due"]
           ELSE UNCHANGED <<midnight, job>>
        /\ UNCHANGED <<sub, stopped, captured, recorded, renewed, task, begun>>

\* The server is down at midnight, or goes down while the job runs: nothing
\* resumes it before the next midnight.
JobLost == /\ "down" \in Faults /\ job.pc # "idle"
           /\ job' = NoJob
           /\ UNCHANGED <<now, midnight, sub, stopped, captured, recorded, renewed, task,
                          begun>>

\* The job with the users todo left over.
Left(todo) == IF todo = {} THEN NoJob
              ELSE [pc |-> "pick", user |-> NoUser, todo |-> todo, list |-> job.list]

ListDue ==
  /\ job.pc = "due" /\ (Overlapping \/ NoTasks)
  /\ LET due == {u \in Users : IsDue(sub[u])} IN
       job' = IF due = {} THEN NoJob
              ELSE [pc |-> "pick", user |-> NoUser, todo |-> due, list |-> sub]
  /\ UNCHANGED <<now, midnight, sub, stopped, captured, recorded, renewed, task, begun>>

Goto(pc, u, todo) == job' = [pc |-> pc, user |-> u, todo |-> todo, list |-> job.list]

\* Mutant: whatever the gateway says, it goes on as paid.
Verdict_AlwaysPaid(paid, answered) == "record"

\* Mutant: a paid renewal is written without recording its payment.
Verdict_NotRecorded(paid, answered) == IF paid /\ answered THEN "renew" ELSE "expire"

\* PortoneClient.payWithBillingKey turns every error into success: false.
Verdict(paid, answered) == IF paid /\ answered THEN "record" ELSE "expire"

\* A free pass has no billing key the gateway knows.
Charge ==
  /\ job.pc = "pick"
  /\ \E u \in job.todo, paid \in BOOLEAN, answered \in BOOLEAN :
       /\ paid => job.list[u].plan # "UNLIMITED"
       /\ answered \/ "lost" \in Faults
       /\ captured' = IF paid THEN [captured EXCEPT ![u] = @ + 1] ELSE captured
       /\ Goto(Verdict(paid, answered), u, job.todo \ {u})
  /\ UNCHANGED <<now, midnight, sub, stopped, recorded, renewed, task, begun>>

\* PaymentRequested, PaymentApproved and the projection, under a fresh payment id.
RecordPayment ==
  /\ job.pc = "record"
  /\ recorded' = [recorded EXCEPT ![job.user] = @ + 1]
  /\ Goto("renew", job.user, job.todo)
  /\ UNCHANGED <<now, midnight, sub, stopped, captured, renewed, task, begun>>

\* SubscriptionRenewed, and the subscription as it was listed, extended.
SaveRenewed ==
  /\ job.pc = "renew"
  /\ sub' = [sub EXCEPT ![job.user] = Renewed(job.list[job.user])]
  /\ renewed' = [renewed EXCEPT ![job.user] = @ + 1]
  /\ job' = Left(job.todo)
  /\ UNCHANGED <<now, midnight, stopped, captured, recorded, task, begun>>

\* Mutant: the first subscription that cannot be renewed ends the job.
SaveExpired_Stops ==
  /\ job.pc = "expire"
  /\ sub' = [sub EXCEPT ![job.user] = Expired(job.list[job.user])]
  /\ job' = NoJob
  /\ UNCHANGED <<now, midnight, stopped, captured, recorded, renewed, task, begun>>

\* SubscriptionRenewalFailed, and the subscription as it was listed, EXPIRED.
SaveExpired ==
  /\ job.pc = "expire"
  /\ sub' = [sub EXCEPT ![job.user] = Expired(job.list[job.user])]
  /\ job' = Left(job.todo)
  /\ UNCHANGED <<now, midnight, stopped, captured, recorded, renewed, task, begun>>

\* A call of the job fails: it logs the error and takes the next user.
RenewalRefused ==
  /\ "refused" \in Faults /\ job.pc \in {"record", "renew", "expire"}
  /\ job' = Left(job.todo)
  /\ UNCHANGED <<now, midnight, sub, stopped, captured, recorded, renewed, task, begun>>

Renewal == ListDue \/ Charge \/ RecordPayment \/ SaveRenewed \/ SaveExpired

Request(t) == \E u \in Users : \/ StartSubscription(t, u) \/ CancelSubscription(t, u)
                               \/ ProvisionUnlimited(t, u)

Next == \/ \E t \in Tasks : Request(t) \/ SaveSubscription(t) \/ Refused(t)
        \/ Tick \/ JobLost \/ Renewal \/ RenewalRefused

Spec == Init /\ [][Next]_vars

\* Node resumes requests and the job; the clock needs no fairness.
FairSpec == Spec /\ WF_vars(Renewal) /\ \A t \in Tasks : WF_vars(SaveSubscription(t))

-----------------------------------------------------------------------------
(* Properties. *)

Subs == [status : {"NONE", "ACTIVE", "CANCELLED", "EXPIRED"}, plan : Plans \cup {"NONE"},
         next : Nat, ends : Nat]

Requests == [pc : {"idle", "save"}, user : Users \cup {NoUser}, save : Subs]

Jobs == [pc : {"idle", "due", "pick", "record", "renew", "expire"},
         user : Users \cup {NoUser}, todo : SUBSET Users, list : [Users -> Subs]]

\* Type invariant: every row that exists was bought or given.
TypeOK ==
  /\ now \in 0 .. Horizon /\ midnight \in Nat
  /\ midnight <= now /\ now < midnight + Day
  /\ sub \in [Users -> Subs]
  /\ \A u \in Users : sub[u].plan = "NONE" => sub[u] = NoSub
  /\ stopped \in [Users -> BOOLEAN]
  /\ captured \in [Users -> Nat] /\ recorded \in [Users -> Nat] /\ renewed \in [Users -> Nat]
  /\ task \in [Tasks -> Requests] /\ job \in Jobs
  /\ begun \in 0 .. MaxOps

\* Whatever overlaps or fails, no period is renewed that the gateway was not paid
\* for, and none without an approval on record.
RenewalsArePaid ==
  \A u \in Users : renewed[u] <= recorded[u] /\ recorded[u] <= captured[u]

\* The next payment never falls due before the paid period ends, nor after it,
\* although requests and the job write back dates they read earlier.
NextIsEnd == \A u \in Users : sub[u].next = sub[u].ends

\* A subscription that is over exempts from fees until the next midnight at most:
\* once the job of the day is through, nobody uses the service for nothing on a
\* period that ended before the day began, or as it began.
NoFreeRide == \A u \in Users : job.pc = "idle" /\ Exempt(u) => sub[u].ends > midnight

ChargedFor(u) == captured'[u] # captured[u]

\* The job takes money only when the period it was paid for is over.
NotChargedEarly == [][\A u \in Users : ChargedFor(u) => sub[u].ends <= now]_vars

\* Nobody is charged after a cancellation (cancelSubscription: the right remains
\* to the end of the period, the automatic payment stops).
StoppedIsNotCharged == [][\A u \in Users : ChargedFor(u) => ~stopped[u]]_vars

SavesPeriod(u) == \E t \in Tasks : /\ task[t].user = u /\ task'[t].pc = "idle"
                                   /\ task[t].save.status = "ACTIVE"

\* Neither a renewal nor a cancellation takes away time that was paid for.
NeverShortened == [][\A u \in Users : sub'[u].ends >= sub[u].ends \/ SavesPeriod(u)]_vars

\* Money the gateway took for a renewal is on record once the job is through.
CapturedIsOnRecord == \A u \in Users : job.pc = "idle" => captured[u] = recorded[u]

\* A subscription that is due is renewed or ends, whatever becomes of the others
\* on the list.
DueIsSettled ==
  \A u \in Users : u \in job.todo ~> job.pc = "idle" /\ ~IsDue(sub[u])
=============================================================================
