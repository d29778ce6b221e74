-------------------------- MODULE PaymentInvariant --------------------------
(***************************************************************************)
(* The inductive invariant behind the safety properties of Payment: what a *)
(* handler may still rely on, at every await, of the snapshot it took.     *)
(***************************************************************************)
EXTENDS Payment

\* The types TypeOK declares, with no bound on the length of a log.
Typed ==
  /\ DOMAIN log = Payments
  /\ orderOf \in [Payments -> Orders \cup {NoOrder}]
  /\ proj \in [Payments -> Statuses]
  /\ pg \in [Payments -> [GatewayIds -> GatewayStates]]
  /\ price \in [Payments -> Amounts \cup {NoAmount}]
  /\ granted \in [Payments -> Nat]
  /\ req \in [Requests -> Handlers]

Contiguous == \A p \in Payments : \E n \in Nat : log[p] \in [1 .. n -> EventTypes]

\* A payment id nobody drew yet has left no trace.
FreshUntouched ==
  \A p \in Payments : orderOf[p] = NoOrder => DOMAIN log[p] = {} /\ proj[p] = "NONE"

Approved(p) == 2 \in DOMAIN log[p] /\ log[p][2] = "PaymentApproved"

NotYetGranted(p) == granted[p] = 0 /\ ~Occurs(GrantEvent(price[p]), p)

\* No cancellation among the events a snapshot of version v has seen.
UncancelledUpTo(v, p) ==
  /\ Approved(p) /\ v >= 2 /\ v \in DOMAIN log[p]
  /\ \A w \in DOMAIN log[p] : w <= v => log[p][w] # "PaymentCancelled"

\* The snapshot a handler waits at the gateway with.
SnapshotOK(a) ==
  /\ 1 \in DOMAIN log[a.pay]
  /\ a.status = "READY" => a.version = 1
  /\ a.status = "PAID" => UncancelledUpTo(a.version, a.pay)

\* The event a handler is about to append is the legal successor of its snapshot.
PendingOK(a) ==
  LET l == log[a.pay] IN
  /\ a.emit \in StatusEvents /\ a.status = StatusAfter[a.emit]
  /\ a.emit = "PaymentRequested" =>
       a.version = 1 /\ DOMAIN l = {} /\ proj[a.pay] = "NONE"
  /\ a.emit \in {"PaymentApproved", "PaymentFailed"} => a.version = 2 /\ 1 \in DOMAIN l
  /\ a.emit = "PaymentApproved" => Taken(a.pay, a.amount)
  /\ a.emit = "PaymentCancelled" => /\ UncancelledUpTo(a.version - 1, a.pay)
                                    /\ GivenBack(a.pay)

RecordedOK(a) ==
  /\ a.emit \in StatusEvents /\ a.status = StatusAfter[a.emit] /\ Occurs(a.emit, a.pay)
  /\ a.emit = "PaymentRequested" => proj[a.pay] = "NONE"
  /\ a.emit = "PaymentApproved" => /\ Approved(a.pay) /\ NotYetGranted(a.pay)
                                   /\ a.amount = price[a.pay]

\* The price of a product, confirmed by this handler.
Sells(a) == a.amount = price[a.pay] /\ a.amount \in Products

GrantOK(a) ==
  /\ Approved(a.pay) /\ NotYetGranted(a.pay)
  /\ a.emit = GrantEvent(a.amount) /\ Sells(a)
  /\ a.version >= 3 /\ a.version - 1 \in DOMAIN log[a.pay]

HandlerOK(a) ==
  /\ a.pc # "idle" => a.pay \in Payments /\ orderOf[a.pay] # NoOrder
  /\ a.pc \in {"ask_confirm", "ask_cancel"} => SnapshotOK(a)
  /\ a.pc = "save_event" => PendingOK(a)
  /\ a.pc = "save_projection" => RecordedOK(a)
  /\ a.pc = "grant_load" => Approved(a.pay) /\ NotYetGranted(a.pay) /\ Sells(a)
  /\ a.pc = "grant_event" => GrantOK(a)
  /\ a.pc = "grant_write" => /\ Approved(a.pay) /\ granted[a.pay] = 0 /\ Sells(a)
                             /\ Occurs(GrantEvent(a.amount), a.pay)

HandlersOK == \A r \in Requests : HandlerOK(req[r])

\* The one handler whose approval was recorded is the only one that grants.
Granting(a) == \/ a.pc \in {"grant_load", "grant_event", "grant_write"}
               \/ a.pc = "save_projection" /\ a.emit = "PaymentApproved"

OneGranter == \A r, s \in Requests :
  Granting(req[r]) /\ Granting(req[s]) /\ req[r].pay = req[s].pay => r = s

\* The handler that draws a payment id is alone with it until its projection tells
\* the client.
Requesting(a) == a.pc \in {"save_event", "save_projection"} /\ a.emit = "PaymentRequested"

RequesterAlone == \A r, s \in Requests :
  Requesting(req[r]) /\ req[s].pc # "idle" /\ req[s].pay = req[r].pay => r = s

Granted == \A p \in Payments :
  granted[p] # 0 => /\ granted[p] = 1 /\ Approved(p) /\ price[p] \in Products
                    /\ Occurs(GrantEvent(price[p]), p)

IInv == /\ Typed /\ Contiguous /\ FreshUntouched /\ LegalHistory
        /\ HandlersOK /\ OneGranter /\ RequesterAlone
        /\ Granted /\ BooksMatchGateway /\ ProjectionFromHistory

-----------------------------------------------------------------------------
(* What else holds when handlers do not die: no approval for the price of a *)
(* product loses its grant.                                                 *)

OneRowPerOrder ==
  \A p, q \in Payments :
    proj[p] # "NONE" /\ proj[q] # "NONE" /\ orderOf[p] = orderOf[q] => p = q

\* Handlers that approve, or may, found the payment by its projection.
Approving(a) == a.pc = "ask_confirm" \/ (a.pc = "save_event" /\ a.emit = "PaymentApproved")

ShownFirst ==
  /\ \A p \in Payments : Approved(p) => proj[p] # "NONE"
  /\ \A r \in Requests : Approving(req[r]) => proj[req[r].pay] # "NONE"

OnItsWay(p) == \E r \in Requests : Granting(req[r]) /\ req[r].pay = p

NoGrantLost ==
  ~TestMode => \A p \in Payments :
    Approved(p) /\ price[p] \in Products /\ ~Occurs("PaymentCancelled", p)
      => granted[p] = 1 \/ OnItsWay(p)

DeliveryInv == OneRowPerOrder /\ ShownFirst /\ NoGrantLost
=============================================================================
