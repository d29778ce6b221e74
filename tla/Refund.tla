------------------------------- MODULE Refund -------------------------------
(***************************************************************************)
(* The refund of what one user has paid.  The user opens an inquiry        *)
(* (UserController), the manager proposes an amount or rejects             *)
(* (ManagerController), the user confirms: the payments are cancelled one  *)
(* by one, latest first, the HON they bought is taken back and the inquiry *)
(* is closed, every step behind an await of its own, with no transaction.  *)
(* Nothing locks the inquiry, the payments or the balance meanwhile.       *)
(* Beside the inquiry a payment can be cancelled directly, for its whole   *)
(* price (PaymentController): no HON is taken back then.                   *)
(*                                                                         *)
(* One inquiry concerns one user only, so the module has one.  How a       *)
(* payment is approved is module Payment's business; here it is one step.  *)
(***************************************************************************)
EXTENDS Integers, Sequences, FiniteSets, Functions

CONSTANTS Asked,        \* the types of inquiry the user makes
          Tasks,        \* handler slots: how many requests run at once
          HonAmounts,   \* won: the one-off payments on sale
          PlanAmounts,  \* won: the subscriptions on sale
          Fees,         \* HON: what an analysis takes
          WelcomeHon,   \* HON: what a new user is given, 50
          UsedValues,   \* won: what predictions since a subscription count for
          MaxPays,      \* bound: payments of the user
          MaxInquiries, \* bound: inquiries of the user
          MaxOps,       \* bound: requests of a calm behaviour
          MaxOverlaps   \* bound: requests of a behaviour that is not calm

Types == {"GENERAL", "BLOCK", "REFUND"}

ASSUME RefundAssumption == /\ Asked \subseteq Types
                           /\ HonAmounts \subseteq {1000, 3000, 5000}
                           /\ PlanAmounts \subseteq {12000, 100000}
                           /\ Fees \subseteq Nat \ {0}
                           /\ WelcomeHon \in Nat
                           /\ UsedValues \subseteq Nat
                           /\ {MaxPays, MaxInquiries, MaxOps, MaxOverlaps} \subseteq Nat

VARIABLES calm,     \* requests come one at a time and no call fails
          pays,     \* payment_projection, oldest first, with what went back
          hon,      \* the balance row: free and paid HON
          sub,      \* the subscription: none, a plan that is ACTIVE, stopped
          inq,      \* inquiry, in the order of the ids
          direct,   \* the payments cancelled directly
          reopened, \* the manager has proposed on an inquiry that was closed
          task,     \* the handler running in each slot
          begun     \* how many requests have begun

vars == <<calm, pays, hon, sub, inq, direct, reopened, task, begun>>

-----------------------------------------------------------------------------
(* What is stored. *)

RefundStatuses == {"NONE", "PENDING", "PROPOSED", "CONFIRMED", "REJECTED", "CANCELLED"}
Plan == [a \in PlanAmounts |-> IF a = 12000 THEN "MONTHLY" ELSE "YEARLY"]
Active == sub \in {"MONTHLY", "YEARLY"}

Payment == [amount : HonAmounts \cup PlanAmounts,
            status : {"READY", "PAID", "CANCELLED"}, back : Nat]
Inquiry == [type : Types, status : {"PENDING", "ANSWERED"},
            refund : RefundStatuses, paymentId : 0..MaxPays]
Purse == [free : Nat, paid : Nat]

\* Under work, or waiting for the user: what keeps a second one from being made.
Open(i) == inq[i].status = "PENDING" \/ inq[i].refund = "PROPOSED"

Inquired(type) == \E i \in DOMAIN inq : inq[i].type = type /\ Open(i)

-----------------------------------------------------------------------------
(* The amount of a refund.                                                 *)

\* The HON a payment bought.
ChargedHon(amount) == CASE amount = 1000 -> 30
                        [] amount = 3000 -> 100
                        [] amount = 5000 -> 200
                        [] OTHER -> 0

Paid == {p \in DOMAIN pays : pays[p].status = "PAID"}
Charged(S) == SumFunctionOnSet([p \in DOMAIN pays |-> ChargedHon(pays[p].amount)], S)
Worth(S) == SumFunctionOnSet([p \in DOMAIN pays |-> pays[p].amount], S)
Least(a, b) == IF a <= b THEN a ELSE b
AtLeastZero(n) == IF n < 0 THEN 0 ELSE n

\* HON that comes back, and the won that go back for it: nine tenths of all
\* payments, less 50 won for every HON of theirs that is used up.
Returned_AllCharged(S, paid) == IF paid > 0 THEN Charged(S) ELSE 0

Returned(S, paid) == IF paid > 0 THEN Least(Charged(S), paid) ELSE 0

HonRefund_NoFee(S, paid) ==
    IF Returned(S, paid) = 0 THEN 0
    ELSE AtLeastZero(Worth(S) - (Charged(S) - Returned(S, paid)) * 50)

HonRefund(S, paid) ==
    IF Returned(S, paid) = 0 THEN 0
    ELSE AtLeastZero((Worth(S) * 9) \div 10 - (Charged(S) - Returned(S, paid)) * 50)

-----------------------------------------------------------------------------
(* Handlers. A slot holds the variables of the request it runs.            *)

Steps == {"idle", "insertInquiry", "insertPayment", "propose", "list",
          "cancel", "saveCancel", "deduct", "write", "settle", "record"}

Request == [at : Steps, i : Nat, type : Types, amount : Nat, purse : Purse,
            queue : SUBSET Nat, owed : Nat, take : Nat]

Idle == [at |-> "idle", i |-> 0, type |-> "GENERAL", amount |-> 0,
         purse |-> [free |-> 0, paid |-> 0], queue |-> {}, owed |-> 0, take |-> 0]

Run(t, r) == task' = [task EXCEPT ![t] = r]
Goto(t, step) == Run(t, [task[t] EXCEPT !.at = step])
End(t) == Run(t, Idle)

\* A request comes in; in calm times only when no other runs.
Arrives == /\ begun < (IF calm THEN MaxOps ELSE MaxOverlaps)
           /\ calm => \A t \in Tasks : task[t] = Idle
           /\ begun' = begun + 1

Begin(t, r) == Arrives /\ task[t] = Idle /\ Run(t, r)

Init == /\ calm \in BOOLEAN
        /\ pays = <<>>
        /\ hon = [free |-> WelcomeHon, paid |-> 0]
        /\ sub = "NONE"
        /\ inq = <<>>
        /\ direct = {}
        /\ reopened = FALSE
        /\ task = [t \in Tasks |-> Idle]
        /\ begun = 0

-----------------------------------------------------------------------------
(* Payments, subscription and use of the service.                          *)

\* readyPayment: refused while a refund is open, and for what the plan excludes.
CheckPayment(t, amount) ==
    /\ ~Inquired("REFUND")
    /\ Active => amount \notin HonAmounts
    /\ ~(sub = "YEARLY" /\ amount = 12000)
    /\ Begin(t, [Idle EXCEPT !.at = "insertPayment", !.amount = amount])
    /\ UNCHANGED <<calm, pays, hon, sub, inq, direct, reopened>>

InsertPayment(t) ==
    /\ task[t].at = "insertPayment"
    /\ Len(pays) < MaxPays
    /\ pays' = Append(pays, [amount |-> task[t].amount, status |-> "READY", back |-> 0])
    /\ End(t)
    /\ UNCHANGED <<calm, hon, sub, inq, direct, reopened, begun>>

\* confirmPayment looks at no inquiry.
ApprovePayment(p) ==
    /\ Arrives
    /\ pays[p].status = "READY"
    /\ pays' = [pays EXCEPT ![p].status = "PAID"]
    /\ IF pays[p].amount \in PlanAmounts
       THEN sub' = Plan[pays[p].amount] /\ UNCHANGED hon
       ELSE /\ hon' = [hon EXCEPT !.paid = @ + ChargedHon(pays[p].amount)]
            /\ UNCHANGED sub
    /\ UNCHANGED <<calm, inq, direct, reopened, task>>

CancelSubscription ==
    /\ Arrives
    /\ Active
    /\ sub' = "STOPPED"
    /\ UNCHANGED <<calm, pays, hon, inq, direct, reopened, task>>

\* deductHon computes from the row it has read; free HON goes first, or paid.
Afford(fee) == hon.free + hon.paid >= fee

After_Unchecked(fee, paidFirst) ==
    IF paidFirst THEN [hon EXCEPT !.paid = @ - fee] ELSE [hon EXCEPT !.free = @ - fee]

After(fee, paidFirst) ==
    LET first == IF paidFirst THEN hon.paid ELSE hon.free
        rest  == AtLeastZero(fee - first)
    IN  IF paidFirst
        THEN [free |-> hon.free - rest, paid |-> AtLeastZero(hon.paid - fee)]
        ELSE [free |-> AtLeastZero(hon.free - fee), paid |-> hon.paid - rest]

Spend(t, fee) ==
    /\ ~Active
    /\ Afford(fee)
    /\ Begin(t, [Idle EXCEPT !.at = "write", !.purse = After(fee, FALSE)])
    /\ UNCHANGED <<calm, pays, hon, sub, inq, direct, reopened>>

-----------------------------------------------------------------------------
(* Inquiries.                                                              *)

CheckInquiry(t, type) ==
    /\ type \in {"BLOCK", "REFUND"} => ~Inquired(type)
    /\ Begin(t, [Idle EXCEPT !.at = "insertInquiry", !.type = type])
    /\ UNCHANGED <<calm, pays, hon, sub, inq, direct, reopened>>

InsertInquiry(t) ==
    /\ task[t].at = "insertInquiry"
    /\ Len(inq) < MaxInquiries
    /\ inq' = Append(inq, [type |-> task[t].type, status |-> "PENDING", paymentId |-> 0,
                 refund |-> IF task[t].type = "REFUND" THEN "PENDING" ELSE "NONE"])
    /\ End(t)
    /\ UNCHANGED <<calm, pays, hon, sub, direct, reopened, begun>>

\* The plain answer closes any inquiry and leaves the refund where it is.
AnswerInquiry(i) ==
    /\ Arrives
    /\ inq' = [inq EXCEPT ![i].status = "ANSWERED"]
    /\ UNCHANGED <<calm, pays, hon, sub, direct, reopened, task>>

RejectRefund(i) ==
    /\ Arrives
    /\ inq[i].type = "REFUND"
    /\ inq' = [inq EXCEPT ![i].refund = "REJECTED", ![i].status = "ANSWERED"]
    /\ UNCHANGED <<calm, pays, hon, sub, direct, reopened, task>>

CancelRefund(i) ==
    /\ Arrives
    /\ inq[i].type = "REFUND"
    /\ Open(i)
    /\ inq' = [inq EXCEPT ![i].refund = "CANCELLED", ![i].status = "ANSWERED"]
    /\ UNCHANGED <<calm, pays, hon, sub, direct, reopened, task>>

\* The offer in the answer: the latest payment decides the rule. A plan goes
\* back in full when unused within seven days, else less a tenth and its use.
Latest(S) == CHOOSE p \in S : \A q \in S : q <= p

Offers(S) ==
    LET last == pays[Latest(S)].amount IN
    IF last \in PlanAmounts
    THEN {last} \cup {AtLeastZero(last - last \div 10 - used) : used \in UsedValues}
    ELSE {HonRefund(S, hon.paid)}

\* The refund status the inquiry has is not looked at.
ProposeRefund(t, i) ==
    /\ inq[i].type = "REFUND"
    /\ Paid # {}
    /\ \E offer \in Offers(Paid) :
          Begin(t, [Idle EXCEPT !.at = "propose", !.i = i, !.amount = offer,
                                !.queue = {Latest(Paid)}])
    /\ UNCHANGED <<calm, pays, hon, sub, inq, direct, reopened>>

SaveProposal(t) ==
    LET i == task[t].i IN
    /\ task[t].at = "propose"
    /\ inq' = [inq EXCEPT ![i].refund = "PROPOSED", ![i].paymentId = Latest(task[t].queue)]
    /\ reopened' = (reopened \/ ~Open(i))
    /\ End(t)
    /\ UNCHANGED <<calm, pays, hon, sub, direct, begun>>

-----------------------------------------------------------------------------
(* confirmRefund: the inquiry with the balance, then the payments, then    *)
(* one cancellation after the other, the deduction and the inquiry.        *)

ConfirmRefund(t, i) ==
    /\ inq[i].type = "REFUND"
    /\ inq[i].refund = "PROPOSED"
    /\ inq[i].paymentId # 0
    /\ Begin(t, [Idle EXCEPT !.at = "list", !.i = i, !.purse = hon])
    /\ UNCHANGED <<calm, pays, hon, sub, inq, direct, reopened>>

\* The amount is computed anew, always by the rule for HON.
ListPayments(t) ==
    /\ task[t].at = "list"
    /\ IF Paid = {} THEN End(t)
       ELSE Run(t, [task[t] EXCEPT
               !.at = "cancel",
               !.queue = Paid,
               !.owed = HonRefund(Paid, task[t].purse.paid),
               !.take = Returned(Paid, task[t].purse.paid)])
    /\ UNCHANGED <<calm, pays, hon, sub, inq, direct, reopened, begun>>

\* The latest payment comes next. cancelPayment asks the gateway first, which
\* gives back at most what is left.
Current(t) == Latest(task[t].queue)

GatewayCancel(t) ==
    LET p == Current(t)
        share == Least(task[t].owed, pays[p].amount)
    IN  /\ task[t].at = "cancel"
        /\ task[t].owed > 0
        /\ task[t].queue # {}
        /\ IF share <= pays[p].amount - pays[p].back
           THEN /\ pays' = [pays EXCEPT ![p].back = @ + share]
                /\ Run(t, [task[t] EXCEPT !.at = "saveCancel", !.amount = share])
           ELSE End(t) /\ UNCHANGED pays
        /\ UNCHANGED <<calm, hon, sub, inq, direct, reopened, begun>>

\* ... and then records it, which another cancellation may have done before.
SaveCancel_PartialKeepsPaid(t) ==
    LET p == Current(t) IN
    /\ task[t].at = "saveCancel"
    /\ pays' = IF task[t].amount < pays[p].amount THEN pays
               ELSE [pays EXCEPT ![p].status = "CANCELLED"]
    /\ Run(t, [task[t] EXCEPT !.at = "cancel", !.queue = @ \ {p},
                              !.owed = @ - task[t].amount])
    /\ UNCHANGED <<calm, hon, sub, inq, direct, reopened, begun>>

SaveCancel(t) ==
    LET p == Current(t) IN
    /\ task[t].at = "saveCancel"
    /\ IF pays[p].status = "PAID"
       THEN /\ pays' = [pays EXCEPT ![p].status = "CANCELLED"]
            /\ Run(t, [task[t] EXCEPT !.at = "cancel", !.queue = @ \ {p},
                                      !.owed = @ - task[t].amount])
       ELSE End(t) /\ UNCHANGED pays
    /\ UNCHANGED <<calm, hon, sub, inq, direct, reopened, begun>>

AllCancelled_KeepsHon(t) ==
    /\ task[t].at = "cancel"
    /\ task[t].owed = 0 \/ task[t].queue = {}
    /\ Goto(t, "settle")
    /\ UNCHANGED <<calm, pays, hon, sub, inq, direct, reopened, begun>>

AllCancelled(t) ==
    /\ task[t].at = "cancel"
    /\ task[t].owed = 0 \/ task[t].queue = {}
    /\ Goto(t, IF task[t].take > 0 THEN "deduct" ELSE "settle")
    /\ UNCHANGED <<calm, pays, hon, sub, inq, direct, reopened, begun>>

\* deductHon takes nothing from a subscriber.
DeductHon(t) ==
    /\ task[t].at = "deduct"
    /\ IF Active THEN Goto(t, "settle")
       ELSE IF ~Afford(task[t].take) THEN End(t)
       ELSE Run(t, [task[t] EXCEPT !.at = "write", !.purse = After(task[t].take, TRUE)])
    /\ UNCHANGED <<calm, pays, hon, sub, inq, direct, reopened, begun>>

\* The balance computed is written, whatever the row holds by now.
WriteHon(t) ==
    /\ task[t].at = "write"
    /\ hon' = task[t].purse
    /\ IF task[t].i = 0 THEN End(t) ELSE Goto(t, "settle")
    /\ UNCHANGED <<calm, pays, sub, inq, direct, reopened, begun>>

Settle(t) ==
    /\ task[t].at = "settle"
    /\ inq' = [inq EXCEPT ![task[t].i].refund = "CONFIRMED",
                          ![task[t].i].status = "ANSWERED"]
    /\ End(t)
    /\ UNCHANGED <<calm, pays, hon, sub, direct, reopened, begun>>

-----------------------------------------------------------------------------
(* POST payments/:id/cancel: cancelPayment without an amount.              *)

\* The gateway gives back all that is left of the price ...
CancelPayment(t, p) ==
    /\ pays[p].status # "READY"
    /\ pays[p].back < pays[p].amount
    /\ pays' = [pays EXCEPT ![p].back = pays[p].amount]
    /\ direct' = direct \cup {p}
    /\ Begin(t, [Idle EXCEPT !.at = "record", !.queue = {p}])
    /\ UNCHANGED <<calm, hon, sub, inq, reopened>>

\* ... and the aggregate throws unless the payment is PAID.
RecordCancel(t) ==
    /\ task[t].at = "record"
    /\ pays' = IF pays[Current(t)].status = "PAID"
               THEN [pays EXCEPT ![Current(t)].status = "CANCELLED"] ELSE pays
    /\ End(t)
    /\ UNCHANGED <<calm, hon, sub, inq, direct, reopened, begun>>

\* A call rejects or the process stops: what is done stays done.
Abort(t) ==
    /\ ~calm
    /\ task[t] # Idle
    /\ End(t)
    /\ UNCHANGED <<calm, pays, hon, sub, inq, direct, reopened, begun>>

Confirmation(t) ==
    \/ ListPayments(t)
    \/ GatewayCancel(t)
    \/ SaveCancel(t)
    \/ AllCancelled(t)
    \/ DeductHon(t)
    \/ WriteHon(t)
    \/ Settle(t)

Next == \/ \E t \in Tasks :
             \/ \E amount \in HonAmounts \cup PlanAmounts : CheckPayment(t, amount)
             \/ InsertPayment(t)
             \/ \E fee \in Fees : Spend(t, fee)
             \/ \E type \in Asked : CheckInquiry(t, type)
             \/ InsertInquiry(t)
             \/ \E i \in DOMAIN inq : ProposeRefund(t, i) \/ ConfirmRefund(t, i)
             \/ SaveProposal(t)
             \/ Confirmation(t)
             \/ \E p \in DOMAIN pays : CancelPayment(t, p)
             \/ RecordCancel(t)
             \/ Abort(t)
        \/ \E p \in DOMAIN pays : ApprovePayment(p)
        \/ CancelSubscription
        \/ \E i \in DOMAIN inq : AnswerInquiry(i) \/ RejectRefund(i) \/ CancelRefund(i)

Spec == Init /\ [][Next]_vars

-----------------------------------------------------------------------------
(* Properties.                                                             *)

\* The variables hold values of their types; in particular no balance and no
\* amount still owed turns negative, however deductions and refunds overlap.
TypeOK == /\ calm \in BOOLEAN /\ reopened \in BOOLEAN /\ begun \in Nat
          /\ pays \in Seq(Payment)
          /\ hon \in Purse
          /\ sub \in {"NONE", "MONTHLY", "YEARLY", "STOPPED"}
          /\ inq \in Seq(Inquiry)
          /\ task \in [Tasks -> Request]

Quiet == calm /\ \A t \in Tasks : task[t] = Idle
Subscribed == \E p \in DOMAIN pays : pays[p].amount \in PlanAmounts
                                     /\ pays[p].status # "READY"

\* A payment is on record as cancelled only after money has gone back for it,
\* and in calm times the other way round: the loop over the payments leaves
\* none behind that was paid back and still counts as PAID.
CancelledIsPaidBack ==
    \A p \in DOMAIN pays : /\ pays[p].status = "CANCELLED" => pays[p].back > 0
                           /\ Quiet /\ pays[p].back > 0 => pays[p].status = "CANCELLED"

\* Payments whose HON a user may rightly hold: those that stand, and those that
\* were cancelled directly, as nothing takes their HON back.
Lost == {p \in DOMAIN pays : p \in direct /\ pays[p].status # "PAID"}

\* What a refund gives back in money it takes back in HON, across several refunds,
\* new payments, direct cancellations and use in between: no paid HON is held but
\* that of payments that stand or were cancelled directly. A subscriber, from whom
\* deductHon takes nothing, and requests that overlap or fail are excepted: there
\* it is false.
PaidHonIsBacked == Quiet /\ ~Subscribed => hon.paid <= Charged(Paid \cup Lost)

GivenBack == SumFunctionOnSet([p \in DOMAIN pays |-> pays[p].back], DOMAIN pays)

\* Over any number of refunds a user without a plan, of whom no payment was
\* cancelled directly, gets back at most nine tenths of what was ever paid: a
\* payment that stays PAID after a refund that was met from later ones does not
\* count a second time. (The HON a subscriber keeps does, and so does what a
\* direct cancellation leaves: two refunds then come to more.)
NineTenthsAtMost ==
    calm /\ ~Subscribed /\ direct = {} => 10 * GivenBack
        <= 9 * Worth({p \in DOMAIN pays : pays[p].status # "READY"})

\* In calm times a confirmation that has begun to move money comes to its end:
\* the gateway has all that is asked of it, and the HON to take back is there.
NeverHalfway ==
    [][calm => \A t \in Tasks :
          task[t].at \in {"cancel", "saveCancel", "deduct", "write"} /\ task[t].i # 0
             => task'[t] # Idle]_vars
=============================================================================
