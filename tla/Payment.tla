------------------------------ MODULE Payment ------------------------------
(***************************************************************************)
(* PaymentService over the event store, the projection table and the       *)
(* payment gateway.  Every request is a handler that runs between awaits:  *)
(* it loads the events of a payment and replays them into an aggregate,    *)
(* asks the gateway, applies one event to the aggregate, saves the event   *)
(* (the only optimistic lock is the unique pair paymentId/version), saves  *)
(* the projection, and for an approval grants the product.  Two handlers   *)
(* interleave at every await.                                              *)
(*                                                                         *)
(* The gateway is external: it is modelled from what PortoneClient asks of *)
(* it.  The amount is the client's word twice, in the order and in the     *)
(* confirmation, and the two need not agree: the confirmed one chooses how *)
(* the gateway is asked and what is granted, the ordered one only the      *)
(* gateway id a cancellation names.                                        *)
(***************************************************************************)
EXTENDS Naturals, FiniteSets

CONSTANTS Payments,      \* the identities randomUUID() may draw
          PlanOrders,    \* the payments ordered for 12000 or 100000, or as a renewal
          HonPrices,     \* 1000, 3000 and 5000: a confirmation charges HON
          PlanPrices,    \* 12000 and 100000: a billing key pays for a plan
          OtherAmounts,  \* amounts no product costs
          Orders,        \* the order ids the clients send
          Requests,      \* handler slots: how many requests run at once
          TestMode,      \* PortoneClient.isTestMode()
          LossyGateway,  \* an answer of the gateway may be lost on its way
          MayAbort,      \* a handler may die between two awaits
          NoPayment, NoOrder, NoAmount

Products == HonPrices \cup PlanPrices
Amounts  == Products \cup OtherAmounts

ASSUME PaymentAssumption == /\ HonPrices \cap PlanPrices = {}
                            /\ Products \cap OtherAmounts = {}
                            /\ PlanOrders \subseteq Payments
                            /\ TestMode \in BOOLEAN
                            /\ LossyGateway \in BOOLEAN
                            /\ MayAbort \in BOOLEAN
                            /\ NoPayment \notin Payments
                            /\ NoOrder \notin Orders
                            /\ NoAmount \notin Amounts

VARIABLES log,      \* payment_event: version -> event type, of each payment
          orderOf,  \* the order id its PaymentRequested event carries
          proj,     \* payment_projection.status, "NONE" while there is no row
          pg,       \* what the gateway holds of it under each of its two ids
          price,    \* history: the amount its recorded approval was confirmed with
          granted,  \* how often chargeHon or startSubscription wrote its grant
          req       \* the handler running in each slot

vars == <<log, orderOf, proj, pg, price, granted, req>>

-----------------------------------------------------------------------------
(* The aggregate: the status a history of events replays to. *)

Statuses == {"NONE", "READY", "PAID", "FAILED", "CANCELLED"}

StatusEvents == {"PaymentRequested", "PaymentApproved", "PaymentFailed",
                 "PaymentCancelled"}

\* chargeHon records HonCharged, startSubscription SubscriptionStarted.
GrantEvent(amount) ==
  IF amount \in PlanPrices THEN "SubscriptionStarted" ELSE "HonCharged"

EventTypes == StatusEvents \cup {"HonCharged", "SubscriptionStarted"}

StatusAfter == [PaymentRequested |-> "READY", PaymentApproved |-> "PAID",
                PaymentFailed |-> "FAILED", PaymentCancelled |-> "CANCELLED"]

Newest(V) == CHOOSE v \in V : \A w \in V : w <= v

\* PaymentAggregate.rebuild: the last event that changes the status decides.
Replay(l) == LET moves == {v \in DOMAIN l : l[v] \in StatusEvents}
             IN  IF moves = {} THEN "NONE" ELSE StatusAfter[l[Newest(moves)]]

Occurs(e, p) == \E v \in DOMAIN log[p] : log[p][v] = e

-----------------------------------------------------------------------------
(* Handlers. *)

Idle == [pc |-> "idle", pay |-> NoPayment, status |-> "NONE", version |-> 0,
         emit |-> "none", amount |-> NoAmount]

GatewayIds == {"orderId", "paymentId"}

Init == /\ log = [p \in Payments |-> [v \in {} |-> "none"]]
        /\ orderOf = [p \in Payments |-> NoOrder]
        /\ proj = [p \in Payments |-> "NONE"]
        /\ pg = [p \in Payments |-> [id \in GatewayIds |-> "NONE"]]
        /\ price = [p \in Payments |-> NoAmount]
        /\ granted = [p \in Payments |-> 0]
        /\ req = [r \in Requests |-> Idle]

At(r, pc) == req[r].pc = pc
Goto(r, pc) == req' = [req EXCEPT ![r].pc = pc]
Finish(r) == req' = [req EXCEPT ![r] = Idle]

\* Load the events of p and rebuild the aggregate.
Rebuilt(p, pc) == [pc |-> pc, pay |-> p, status |-> Replay(log[p]),
                   version |-> Newest(DOMAIN log[p]), emit |-> "none",
                   amount |-> NoAmount]

\* The aggregate a applies the new event e and has it saved next.
Applied(a, e) == [pc |-> "save_event", pay |-> a.pay, status |-> StatusAfter[e],
                  version |-> a.version + 1, emit |-> e, amount |-> a.amount]

\* Mutant: a transition without its status check.
Emit_NoCheck(r, from, e) == req' = [req EXCEPT ![r] = Applied(req[r], e)]

\* approve, fail and cancel throw unless the replayed status is from.
Emit(r, from, e) ==
  req' = [req EXCEPT ![r] = IF req[r].status = from THEN Applied(req[r], e) ELSE Idle]

\* readyPayment: a fresh payment id, version 1.  Its checks on refund inquiries
\* and subscriptions only refuse a request; here every request may pass them.
Ready(r, p, o) ==
  /\ At(r, "idle")
  /\ orderOf[p] = NoOrder
  /\ orderOf' = [orderOf EXCEPT ![p] = o]
  /\ req' = [req EXCEPT ![r] = Applied([Idle EXCEPT !.pay = p], "PaymentRequested")]
  /\ UNCHANGED <<log, proj, pg, price, granted>>

\* getProjectionByOrderId: order ids are unique among the projections.
FoundByOrder(o, p) == proj[p] # "NONE" /\ orderOf[p] = o

\* The amount of the request body; nothing compares it with the ordered one.
ConfirmPayment(r, p, amount) ==
  /\ At(r, "idle")
  /\ req' = [req EXCEPT ![r] = [Rebuilt(p, "ask_confirm") EXCEPT !.amount = amount]]
  /\ UNCHANGED <<log, orderOf, proj, pg, price, granted>>

\* The client reports a failed checkout: no gateway call, fail() at once.
FailPayment(r, p) ==
  /\ At(r, "idle")
  /\ Replay(log[p]) = "READY"
  /\ req' = [req EXCEPT ![r] = Applied(Rebuilt(p, "idle"), "PaymentFailed")]
  /\ UNCHANGED <<log, orderOf, proj, pg, price, granted>>

\* A client cancels a payment it was told of: one with a projection.
CancelPayment(r, p) == /\ At(r, "idle")
                       /\ proj[p] # "NONE"
                       /\ req' = [req EXCEPT ![r] = Rebuilt(p, "ask_cancel")]
                       /\ UNCHANGED <<log, orderOf, proj, pg, price, granted>>

-----------------------------------------------------------------------------
(* The gateway. *)

Answered == IF LossyGateway THEN BOOLEAN ELSE {TRUE}

\* isSubscription of confirmPayment: a billing key captures under the payment's
\* own id.  Any other amount goes by the order id and is captured by its token
\* or, after an instant checkout, only queried.
AskedId(amount) == IF amount \in PlanPrices THEN "paymentId" ELSE "orderId"

Flows(amount) == IF amount \in PlanPrices THEN {"capture"} ELSE {"capture", "query"}

\* isSubscription of cancelPayment goes by what was ordered.
CancelledId(p) == IF p \in PlanOrders THEN "paymentId" ELSE "orderId"

\* The checkout page of the gateway takes the money before the confirm call.
ClientPays(p) == /\ proj[p] # "NONE"
                 /\ pg[p]["orderId"] = "NONE"
                 /\ pg' = [pg EXCEPT ![p]["orderId"] = "PAID"]
                 /\ UNCHANGED <<log, orderOf, proj, price, granted, req>>

\* Mutant: an instant payment counts as paid because the query was answered.
Verdict_StatusIgnored(paid, answered) ==
  IF answered THEN "PaymentApproved" ELSE "PaymentFailed"

\* PortoneClient turns every error into success: false.
Verdict(paid, answered) ==
  IF paid /\ answered THEN "PaymentApproved" ELSE "PaymentFailed"

\* The gateway captures an id once and may decline it, whatever the amount.  Only
\* the query compares the total the page took with the amount of the request.
GatewayConfirm(r) ==
  /\ At(r, "ask_confirm")
  /\ LET p  == req[r].pay
         id == AskedId(req[r].amount)
     IN  \E flow \in Flows(req[r].amount), accepted, totalAgrees \in BOOLEAN,
            answered \in Answered :
           LET captured == flow = "capture" /\ pg[p][id] = "NONE" /\ accepted
               paid     == \/ captured
                           \/ flow = "query" /\ pg[p][id] = "PAID" /\ totalAgrees
           IN  /\ pg' = IF captured THEN [pg EXCEPT ![p][id] = "PAID"] ELSE pg
               /\ Emit(r, "READY", Verdict(paid, answered))
  /\ UNCHANGED <<log, orderOf, proj, price, granted>>

\* cancelPayment asks the gateway for the money back before the aggregate is
\* asked whether it may be cancelled.  The refund may cover a part.
GatewayCancel(r) ==
  /\ At(r, "ask_cancel")
  /\ LET p == req[r].pay
         id == CancelledId(p)
     IN  \/ \E rest \in {"PARTIAL", "REFUNDED"}, answered \in Answered :
              /\ pg[p][id] \in {"PAID", "PARTIAL"}
              /\ pg' = [pg EXCEPT ![p][id] = rest]
              /\ IF answered THEN Emit(r, "PAID", "PaymentCancelled") ELSE Finish(r)
         \/ pg[p][id] \in {"NONE", "REFUNDED"} /\ Finish(r) /\ UNCHANGED pg
  /\ UNCHANGED <<log, orderOf, proj, price, granted>>

-----------------------------------------------------------------------------
(* save(aggregate), and the grant that follows an approval. *)

\* Mutant: the event table without its unique index.
VersionFree_NoIndex(p, v) == v \in Nat

\* payment_event is unique in (paymentId, version).
VersionFree(p, v) == v \notin DOMAIN log[p]

Recorded(p, v, e) ==
  [log EXCEPT ![p] = [w \in DOMAIN log[p] \cup {v} |-> IF w = v THEN e ELSE log[p][w]]]

\* saveEvent: a version that is taken makes the call, and the handler, throw.
Append(r, from, next) ==
  /\ At(r, from)
  /\ LET a == req[r] IN
       IF VersionFree(a.pay, a.version)
       THEN /\ log' = Recorded(a.pay, a.version, a.emit)
            /\ price' = IF a.emit = "PaymentApproved"
                        THEN [price EXCEPT ![a.pay] = a.amount] ELSE price
            /\ Goto(r, next)
       ELSE Finish(r) /\ UNCHANGED <<log, price>>
  /\ UNCHANGED <<orderOf, proj, pg, granted>>

SaveEvent(r) == Append(r, "save_event", "save_projection")

\* The upsert by paymentId fails when another payment's row has the order id.
OrderTaken(p) == \E q \in Payments \ {p} : FoundByOrder(orderOf[p], q)

\* Mutant: the test mode check is inverted.
IsGranted_TestOnly(a) ==
  a.emit = "PaymentApproved" /\ TestMode /\ a.amount \in Products

\* Only an approval goes on after its projection, not in test mode, and only
\* when the confirmed amount is the price of a product: no other has a branch.
IsGranted(a) == a.emit = "PaymentApproved" /\ ~TestMode /\ a.amount \in Products

SaveProjection(r) ==
  /\ At(r, "save_projection")
  /\ LET a == req[r] IN
       IF OrderTaken(a.pay)
       THEN Finish(r) /\ UNCHANGED proj
       ELSE /\ proj' = [proj EXCEPT ![a.pay] = a.status]
            /\ IF IsGranted(a) THEN Goto(r, "grant_load") ELSE Finish(r)
  /\ UNCHANGED <<log, orderOf, pg, price, granted>>

\* Mutant: the version of the last event instead of the next one.
NextVersion_OffByOne(p) == Cardinality(DOMAIN log[p])

\* chargeHon and startSubscription count the events for their next version.
NextVersion(p) == Cardinality(DOMAIN log[p]) + 1

GrantLoad(r) ==
  /\ At(r, "grant_load")
  /\ LET a == req[r] IN
       req' = [req EXCEPT ![r] = [pc |-> "grant_event", pay |-> a.pay,
                                  status |-> a.status, version |-> NextVersion(a.pay),
                                  emit |-> GrantEvent(a.amount),
                                  amount |-> a.amount]]
  /\ UNCHANGED <<log, orderOf, proj, pg, price, granted>>

SaveGrantEvent(r) == Append(r, "grant_event", "grant_write")

\* saveHon or saveSubscription.
GrantWrite(r) ==
  /\ At(r, "grant_write")
  /\ granted' = [granted EXCEPT ![req[r].pay] = @ + 1]
  /\ Finish(r)
  /\ UNCHANGED <<log, orderOf, proj, pg, price>>

\* The process stops, or the database refuses a call: the rest never runs.
Abort(r) == /\ MayAbort /\ req[r].pc # "idle"
            /\ Finish(r)
            /\ UNCHANGED <<log, orderOf, proj, pg, price, granted>>

-----------------------------------------------------------------------------
Arrive(r) ==
  \/ \E p \in Payments, o \in Orders : Ready(r, p, o)
  \/ \E p \in Payments, o \in Orders, amount \in Amounts :
       FoundByOrder(o, p) /\ ConfirmPayment(r, p, amount)
  \/ \E p \in Payments, o \in Orders : FoundByOrder(o, p) /\ FailPayment(r, p)
  \/ \E p \in Payments : CancelPayment(r, p)

Proceed(r) == \/ GatewayConfirm(r) \/ GatewayCancel(r)
              \/ SaveEvent(r) \/ SaveProjection(r)
              \/ GrantLoad(r) \/ SaveGrantEvent(r) \/ GrantWrite(r)

Next == \/ \E r \in Requests : Arrive(r) \/ Proceed(r) \/ Abort(r)
        \/ \E p \in Payments : ClientPays(p)

Spec == Init /\ [][Next]_vars

\* Node runs every settled await to its continuation: a handler goes on.
FairSpec == Spec /\ \A r \in Requests : WF_vars(Proceed(r))

-----------------------------------------------------------------------------
(* Properties. *)

Pcs == {"idle", "ask_confirm", "ask_cancel", "save_event", "save_projection",
        "grant_load", "grant_event", "grant_write"}

Handlers == [pc : Pcs, pay : Payments \cup {NoPayment}, status : Statuses,
             version : Nat, emit : EventTypes \cup {"none"},
             amount : Amounts \cup {NoAmount}]

GatewayStates == {"NONE", "PAID", "PARTIAL", "REFUNDED"}

\* Type invariant: every event log numbers events of the declared types from 1.
TypeOK ==
  /\ \A p \in Payments : \E n \in 0 .. 4 : log[p] \in [1 .. n -> EventTypes]
  /\ DOMAIN log = Payments
  /\ orderOf \in [Payments -> Orders \cup {NoOrder}]
  /\ proj \in [Payments -> Statuses]
  /\ pg \in [Payments -> [GatewayIds -> GatewayStates]]
  /\ price \in [Payments -> Amounts \cup {NoAmount}]
  /\ granted \in [Payments -> Nat]
  /\ req \in [Requests -> Handlers]

\* The histories a payment may have: what PaymentAggregate's guards allow one
\* caller after another.  No two handlers can break them by deciding on the
\* same snapshot, because the versions are unique: no approval next to a
\* failure, no second approval, cancellation or grant, nothing after a failure.
LegalHistory ==
  \A p \in Payments :
    /\ 1 \in DOMAIN log[p] => log[p][1] = "PaymentRequested"
    /\ 2 \in DOMAIN log[p] => log[p][2] \in {"PaymentApproved", "PaymentFailed"}
    /\ 3 \in DOMAIN log[p] => log[p][2] = "PaymentApproved"
    /\ \A v \in DOMAIN log[p] :
         v > 2 => log[p][v] \in {GrantEvent(price[p]), "PaymentCancelled"}
    /\ \A v, w \in DOMAIN log[p] : log[p][v] = log[p][w] => v = w

\* A product is handed over at most once, whatever confirmations run at the same
\* time, and only for a payment whose approval, for the price of that product,
\* and grant are on record.
EntitledOnce ==
  \A p \in Payments :
    /\ granted[p] <= 1
    /\ granted[p] = 1 => /\ Occurs("PaymentApproved", p) /\ price[p] \in Products
                         /\ Occurs(GrantEvent(price[p]), p)

\* What the gateway holds under the id the request named.
Taken(p, amount) == pg[p][AskedId(amount)] # "NONE"
GivenBack(p)     == pg[p][CancelledId(p)] \in {"PARTIAL", "REFUNDED"}

\* An approval is on record only for money the gateway has taken, a cancellation
\* only for money it has given back, also when its answers get lost.
BooksMatchGateway ==
  \A p \in Payments :
    /\ Occurs("PaymentApproved", p) => Taken(p, price[p])
    /\ Occurs("PaymentCancelled", p) => GivenBack(p)

\* The projection never shows a status that no recorded event gave the payment,
\* although save() overwrites it without looking at the log.
ProjectionFromHistory ==
  \A p \in Payments :
    proj[p] # "NONE" => \E v \in DOMAIN log[p] :
      log[p][v] \in StatusEvents /\ proj[p] = StatusAfter[log[p][v]]

\* Once the projection has told a client the verdict, paid or failed, no late
\* handler turns it into the other one or back into READY.
ProjectionVerdictStands ==
  [][\A p \in Payments :
       /\ proj[p] = "FAILED" => proj'[p] = "FAILED"
       /\ proj[p] \in {"PAID", "CANCELLED"} => proj'[p] \in {"PAID", "CANCELLED"}]_vars

InFlight(p) == \E r \in Requests : req[r].pay = p

\* A payment approved for the price of a product, on which no handler works any
\* more, has been granted, unless a cancellation took the version of the grant
\* (confirmPayment's last part).  An amount no product costs buys nothing.
PaidIsGranted ==
  \A p \in Payments :
    Replay(log[p]) = "PAID" /\ ~InFlight(p) /\ ~TestMode =>
      granted[p] = (IF price[p] \in Products THEN 1 ELSE 0)

\* The abstract payment: its status is what the log replays to.
Lifecycle == INSTANCE PaymentLifecycle
               WITH status <- [p \in Payments |-> Replay(log[p])],
                    sold <- {p \in Payments : price[p] \in Products},
                    entitled <- granted

\* The event-sourced handlers implement the life cycle of a payment.
RefinesLifecycle == Lifecycle!Safe

\* With fair handlers that do not die, a payment that stays paid and was approved
\* for the price of a product is delivered.
DeliversWhatIsPaid == Lifecycle!Delivery
=============================================================================
