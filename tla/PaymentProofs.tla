--------------------------- MODULE PaymentProofs ---------------------------
(***************************************************************************)
(* Proofs about Payment, for any sets of payments, orders and requests:    *)
(* IInv is inductive, and it implies the safety properties TLC checks.     *)
(***************************************************************************)
EXTENDS PaymentInvariant, FiniteSetTheorems, TLAPS

(* Replay and Newest, by the shape of a legal history. *)

\* Newest picks the one member that no member exceeds.
LEMMA NewestIs ==
  ASSUME NEW V, V \subseteq Nat, NEW m \in V, \A w \in V : w <= m
  PROVE  Newest(V) = m
<1>1. \A v \in V : (\A w \in V : w <= v) => v = m
  OBVIOUS
<1> QED
  BY <1>1 DEF Newest

\* The replayed status of a history with no cancellation is that of its second
\* event, or of its first while there is no second.
LEMMA ReplayLegal ==
  ASSUME Contiguous, LegalHistory, NEW p \in Payments, 1 \in DOMAIN log[p]
  PROVE  Replay(log[p]) = IF Occurs("PaymentCancelled", p) THEN "CANCELLED"
                          ELSE IF 2 \in DOMAIN log[p] THEN StatusAfter[log[p][2]]
                          ELSE "READY"
<1> DEFINE l == log[p]
           moves == {v \in DOMAIN l : l[v] \in StatusEvents}
<1>1. PICK n \in Nat : log[p] \in [1 .. n -> EventTypes]
  BY DEF Contiguous
<1>2. DOMAIN l = 1 .. n /\ moves \subseteq Nat /\ 1 \in moves
  BY <1>1 DEF LegalHistory, StatusEvents
<1>3. Replay(l) = StatusAfter[l[Newest(moves)]]
  BY <1>2 DEF Replay
<1>4. CASE Occurs("PaymentCancelled", p)
  <2>1. PICK c \in DOMAIN l : l[c] = "PaymentCancelled"
    BY <1>4 DEF Occurs
  <2>2. c > 2
    BY <2>1, <1>2 DEF LegalHistory
  <2>3. \A w \in moves : w <= c
    <3>1. SUFFICES ASSUME NEW w \in moves, w > c PROVE FALSE
      BY <1>2, <2>1
    <3>2. l[w] = "PaymentCancelled"
      BY <3>1, <2>2, <1>2 DEF LegalHistory, GrantEvent, StatusEvents
    <3>3. w = c
      BY <3>2, <2>1 DEF LegalHistory
    <3> QED
      BY <3>1, <3>3, <1>2
  <2>4. Newest(moves) = c
    BY <2>1, <2>3, <1>2, NewestIs DEF StatusEvents
  <2> QED
    BY <1>3, <1>4, <2>1, <2>4 DEF StatusAfter
<1>5. CASE ~Occurs("PaymentCancelled", p) /\ 2 \in DOMAIN l
  <2>1. 2 \in moves
    BY <1>5, <1>2 DEF LegalHistory, StatusEvents
  <2>2. \A w \in moves : w <= 2
    <3>1. SUFFICES ASSUME NEW w \in moves, w > 2 PROVE FALSE
      BY <1>2
    <3>2. l[w] \in {GrantEvent(price[p]), "PaymentCancelled"}
      BY <3>1 DEF LegalHistory
    <3> QED
      BY <3>1, <3>2, <1>5 DEF Occurs, GrantEvent, StatusEvents
  <2>3. Newest(moves) = 2
    BY <2>1, <2>2, <1>2, NewestIs
  <2>4. Replay(l) = StatusAfter[l[2]]
    BY <1>3, <2>3
  <2> QED
    BY <1>5, <2>4
<1>6. CASE ~Occurs("PaymentCancelled", p) /\ 2 \notin DOMAIN l
  <2>1. \A w \in moves : w <= 1
    BY <1>6, <1>2
  <2>2. Newest(moves) = 1
    BY <2>1, <1>2, NewestIs
  <2>3. Replay(l) = StatusAfter["PaymentRequested"]
    BY <1>3, <2>2 DEF LegalHistory
  <2>4. StatusAfter["PaymentRequested"] = "READY"
    BY DEF StatusAfter
  <2> QED
    BY <1>6, <2>3, <2>4
<1> QED
  BY <1>4, <1>5, <1>6

\* The snapshot a handler takes of a payment that has been requested.
LEMMA RebuiltOK ==
  ASSUME IInv, NEW p \in Payments, 1 \in DOMAIN log[p], NEW pc \in Pcs
  PROVE  /\ Rebuilt(p, pc) \in Handlers
         /\ SnapshotOK(Rebuilt(p, pc))
         /\ Replay(log[p]) = "READY" => Newest(DOMAIN log[p]) = 1
<1>1. PICK n \in Nat : log[p] \in [1 .. n -> EventTypes]
  BY DEF IInv, Contiguous
<1>2. n >= 1 /\ Newest(DOMAIN log[p]) = n
  <2>1. DOMAIN log[p] = 1 .. n
    BY <1>1
  <2>2. 1 \in 1 .. n
    BY <2>1
  <2>3. n >= 1
    BY <2>2
  <2>4. PICK V : V = 1 .. n
    OBVIOUS
  <2>5. V \subseteq Nat /\ n \in V /\ \A w \in V : w <= n
    BY <2>3, <2>4
  <2>6. Newest(V) = n
    BY <2>5, NewestIs
  <2> QED
    BY <2>1, <2>3, <2>4, <2>6
<1>3. Replay(log[p]) = IF Occurs("PaymentCancelled", p) THEN "CANCELLED"
                       ELSE IF 2 \in DOMAIN log[p] THEN StatusAfter[log[p][2]]
                       ELSE "READY"
  BY ReplayLegal DEF IInv
<1>4. 2 \in DOMAIN log[p] => log[p][2] \in {"PaymentApproved", "PaymentFailed"}
  BY DEF IInv, LegalHistory
<1>5. Replay(log[p]) \in Statuses
  BY <1>3, <1>4 DEF Statuses, StatusAfter
<1>6. Replay(log[p]) = "READY" => n = 1
  BY <1>1, <1>2, <1>3, <1>4 DEF StatusAfter
<1>7. Replay(log[p]) = "PAID" => UncancelledUpTo(n, p)
  BY <1>1, <1>2, <1>3, <1>4 DEF StatusAfter, UncancelledUpTo, Approved, Occurs
<1> QED
  BY <1>2, <1>5, <1>6, <1>7 DEF Rebuilt, Handlers, SnapshotOK

-----------------------------------------------------------------------------
(* Steps that leave the logs, the projections and the grants alone. *)

\* The gateway takes money once and never takes back a refund.
PgGrows ==
  /\ pg' \in [Payments -> [GatewayIds -> GatewayStates]]
  /\ \A p \in Payments : /\ \A amount : Taken(p, amount) => Taken(p, amount)'
                         /\ GivenBack(p) => GivenBack(p)'

\* What one id of one payment moves to.
LEMMA PgSet ==
  ASSUME IInv, NEW p \in Payments, NEW id \in GatewayIds, NEW to \in GatewayStates,
         pg' = [pg EXCEPT ![p][id] = to], to # "NONE",
         pg[p][id] \in {"PARTIAL", "REFUNDED"} => to \in {"PARTIAL", "REFUNDED"}
  PROVE  PgGrows /\ pg'[p][id] = to
<1>1. pg \in [Payments -> [GatewayIds -> GatewayStates]]
  BY DEF IInv, Typed
<1>2. pg' \in [Payments -> [GatewayIds -> GatewayStates]]
  BY <1>1
<1>3. \A q \in Payments, k \in GatewayIds :
        pg'[q][k] = IF q = p /\ k = id THEN to ELSE pg[q][k]
  BY <1>1
<1>4. \A amount, q : AskedId(amount) \in GatewayIds /\ CancelledId(q) \in GatewayIds
  BY DEF AskedId, CancelledId, GatewayIds
<1> QED
  BY <1>2, <1>3, <1>4 DEF PgGrows, Taken, GivenBack

LEMMA PgKept ==
  ASSUME IInv, UNCHANGED pg
  PROVE  PgGrows
BY DEF IInv, Typed, PgGrows, Taken, GivenBack

LEMMA HandlerKept ==
  ASSUME NEW b \in Handlers, HandlerOK(b), PgGrows,
         UNCHANGED <<log, orderOf, proj, price, granted>>
  PROVE  HandlerOK(b)'
BY DEF PgGrows, HandlerOK, SnapshotOK, PendingOK, RecordedOK, GrantOK, Approved,
       NotYetGranted, Occurs, UncancelledUpTo, Sells

LEMMA WorldKept ==
  ASSUME IInv, PgGrows, UNCHANGED <<log, orderOf, proj, price, granted>>
  PROVE  /\ Contiguous' /\ FreshUntouched' /\ LegalHistory' /\ Granted'
         /\ BooksMatchGateway' /\ ProjectionFromHistory'
<1>1. Contiguous' /\ FreshUntouched' /\ LegalHistory'
  BY DEF IInv, Contiguous, FreshUntouched, LegalHistory
<1>2. Granted' /\ ProjectionFromHistory'
  BY DEF IInv, Granted, Approved, Occurs, ProjectionFromHistory
<1>3. BooksMatchGateway'
  BY DEF IInv, BooksMatchGateway, Occurs, PgGrows
<1> QED
  BY <1>1, <1>2, <1>3

\* A handler moves on, ends, or loads a payment that has a projection.
LEMMA ReqStep ==
  ASSUME IInv, PgGrows, UNCHANGED <<log, orderOf, proj, price, granted>>,
         NEW r \in Requests, NEW a \in Handlers,
         req' = [req EXCEPT ![r] = a],
         HandlerOK(a)',
         Granting(a) => Granting(req[r]) /\ a.pay = req[r].pay,
         ~Requesting(a),
         a.pc # "idle" => \/ a.pay = req[r].pay /\ req[r].pc # "idle"
                          \/ proj[a.pay] # "NONE"
  PROVE  IInv'
<1>1. Typed'
  BY DEF IInv, Typed, PgGrows
<1>2. \A s \in Requests : req'[s] = IF s = r THEN a ELSE req[s]
  BY DEF IInv, Typed
<1>3. \A s \in Requests : req[s] \in Handlers /\ HandlerOK(req[s])
  BY DEF IInv, Typed, HandlersOK
<1>4. HandlersOK'
  <2>1. SUFFICES ASSUME NEW s \in Requests PROVE HandlerOK(req[s])'
    BY DEF HandlersOK
  <2>2. CASE s = r
    <3>1. req'[s] = a
      BY <1>2, <2>2
    <3> QED
      BY <3>1 DEF HandlerOK, SnapshotOK, PendingOK, RecordedOK, GrantOK
  <2>3. CASE s # r
    <3> DEFINE b == req[s]
    <3>1. req'[s] = b
      BY <1>2, <2>3
    <3>2. b \in Handlers /\ HandlerOK(b)
      BY <1>3
    <3>3. \A c \in Handlers : HandlerOK(c) => HandlerOK(c)'
      BY HandlerKept
    <3> QED
      BY <3>1, <3>2, <3>3 DEF HandlerOK, SnapshotOK, PendingOK, RecordedOK, GrantOK
  <2> QED
    BY <2>2, <2>3
<1>5. OneGranter'
  BY <1>2 DEF IInv, OneGranter, Granting
<1>6. RequesterAlone'
  <2>1. SUFFICES ASSUME NEW s \in Requests, NEW t \in Requests,
                        Requesting(req'[s]),
                        req'[t].pc # "idle", req'[t].pay = req'[s].pay
                 PROVE  s = t
    BY DEF RequesterAlone
  <2>2. s # r /\ req'[s] = req[s]
    BY <1>2, <2>1
  <2>3. proj[req[s].pay] = "NONE"
    BY <1>3, <2>1, <2>2 DEF HandlerOK, PendingOK, RecordedOK, Requesting
  <2> QED
    BY <1>2, <2>1, <2>2, <2>3 DEF IInv, RequesterAlone
<1> QED
  BY WorldKept, <1>1, <1>4, <1>5, <1>6 DEF IInv

LEMMA IdleOK == Idle \in Handlers /\ ~Granting(Idle)
BY DEF Idle, Handlers, Granting, Pcs, Statuses

\* A handler throws or returns: its slot is free again.
LEMMA FinishStep ==
  ASSUME IInv, NEW r \in Requests, Finish(r), PgGrows,
         UNCHANGED <<log, orderOf, proj, price, granted>>
  PROVE  IInv'
<1>1. HandlerOK(Idle)'
  BY DEF HandlerOK, Idle
<1>2. Idle.pc = "idle"
  BY DEF Idle
<1> QED
  BY <1>1, <1>2, IdleOK, ReqStep DEF Finish, Requesting

\* A payment with a projection has been requested.
LEMMA Projected ==
  ASSUME IInv, NEW p \in Payments, proj[p] # "NONE"
  PROVE  1 \in DOMAIN log[p] /\ orderOf[p] # NoOrder
BY DEF IInv, Contiguous, FreshUntouched, ProjectionFromHistory

LEMMA ConfirmStep ==
  ASSUME IInv, NEW r \in Requests, NEW p \in Payments, NEW amount \in Amounts,
         proj[p] # "NONE", ConfirmPayment(r, p, amount)
  PROVE  IInv'
<1>0. PICK b, a : /\ b = Rebuilt(p, "ask_confirm")
                  /\ a = [b EXCEPT !.amount = amount]
  OBVIOUS
<1>1. b \in Handlers /\ SnapshotOK(b) /\ orderOf[p] # NoOrder
  BY <1>0, Projected, RebuiltOK DEF Pcs
<1>2. b.pc = "ask_confirm" /\ b.pay = p
  BY <1>0 DEF Rebuilt
<1>2a. /\ a \in Handlers /\ a.pc = b.pc /\ a.pay = b.pay
       /\ a.status = b.status /\ a.version = b.version
  BY <1>0, <1>1 DEF Handlers
<1>2b. SnapshotOK(a)
  BY <1>1, <1>2a DEF SnapshotOK
<1>3. PgGrows
  BY PgKept DEF ConfirmPayment
<1>4. HandlerOK(a)
  BY <1>1, <1>2, <1>2a, <1>2b DEF HandlerOK
<1>5. HandlerOK(a)'
  BY <1>2a, <1>3, <1>4, HandlerKept DEF ConfirmPayment
<1> QED
  BY <1>0, <1>2, <1>2a, <1>3, <1>5, ReqStep DEF ConfirmPayment, Granting, Requesting

LEMMA CancelStep ==
  ASSUME IInv, NEW r \in Requests, NEW p \in Payments, CancelPayment(r, p)
  PROVE  IInv'
<1>0. PICK a : a = Rebuilt(p, "ask_cancel")
  OBVIOUS
<1>1. a \in Handlers /\ SnapshotOK(a) /\ orderOf[p] # NoOrder
  BY <1>0, Projected, RebuiltOK DEF Pcs, CancelPayment
<1>2. a.pc = "ask_cancel" /\ a.pay = p
  BY <1>0 DEF Rebuilt
<1>3. PgGrows
  BY PgKept DEF CancelPayment
<1>4. HandlerOK(a)
  BY <1>1, <1>2 DEF HandlerOK
<1>5. HandlerOK(a)'
  BY <1>1, <1>3, <1>4, HandlerKept DEF CancelPayment
<1> QED
  BY <1>0, <1>1, <1>2, <1>3, <1>5, ReqStep DEF CancelPayment, Granting, Requesting

\* What apply() makes of an aggregate.
LEMMA AppliedIs ==
  ASSUME NEW a \in Handlers, NEW e \in StatusEvents
  PROVE  /\ Applied(a, e) \in Handlers
         /\ Applied(a, e).pc = "save_event" /\ Applied(a, e).pay = a.pay
         /\ Applied(a, e).status = StatusAfter[e] /\ Applied(a, e).emit = e
         /\ Applied(a, e).version = a.version + 1
         /\ Applied(a, e).amount = a.amount
<1>1. StatusAfter[e] \in Statuses
  BY DEF StatusAfter, StatusEvents, Statuses
<1>2. a.pay \in Payments \cup {NoPayment} /\ a.version + 1 \in Nat
  BY DEF Handlers
<1>3. "save_event" \in Pcs /\ e \in EventTypes \cup {"none"}
  BY DEF Pcs, EventTypes
<1> QED
  BY <1>1, <1>2, <1>3 DEF Handlers, Applied

LEMMA FailStep ==
  ASSUME IInv, NEW r \in Requests, NEW p \in Payments, proj[p] # "NONE",
         FailPayment(r, p)
  PROVE  IInv'
<1>0. PICK b, a : b = Rebuilt(p, "idle") /\ a = Applied(b, "PaymentFailed")
  OBVIOUS
<1>1. /\ b \in Handlers /\ b.pay = p /\ b.version = 1
      /\ orderOf[p] # NoOrder /\ 1 \in DOMAIN log[p]
  BY <1>0, Projected, RebuiltOK DEF Pcs, FailPayment, Rebuilt
<1>2. /\ a \in Handlers /\ a.pc = "save_event" /\ a.pay = p /\ a.version = 2
      /\ a.emit = "PaymentFailed" /\ a.status = StatusAfter["PaymentFailed"]
  BY <1>0, <1>1, AppliedIs DEF StatusEvents
<1>3. PgGrows
  BY PgKept DEF FailPayment
<1>4. HandlerOK(a)
  BY <1>1, <1>2 DEF HandlerOK, PendingOK, StatusEvents
<1>5. HandlerOK(a)'
  BY <1>2, <1>3, <1>4, HandlerKept DEF FailPayment
<1> QED
  BY <1>0, <1>1, <1>2, <1>3, <1>5, ReqStep DEF FailPayment, Granting, Requesting

-----------------------------------------------------------------------------
(* The gateway steps. *)

\* A handler that waits at the gateway emits the event its snapshot allows.
LEMMA EmitStep ==
  ASSUME IInv, PgGrows, UNCHANGED <<log, orderOf, proj, price, granted>>,
         NEW r \in Requests, req[r].pc \in {"ask_confirm", "ask_cancel"},
         NEW from, NEW e,
         \/ /\ from = "READY" /\ e \in {"PaymentApproved", "PaymentFailed"}
            /\ e = "PaymentApproved" =>
                 \A b : b = req[r] => Taken(b.pay, b.amount)'
         \/ /\ from = "PAID" /\ e = "PaymentCancelled"
            /\ \A b : b = req[r] => GivenBack(b.pay)',
         Emit(r, from, e)
  PROVE  IInv'
<1>0. PICK b, a : b = req[r] /\ a = Applied(b, e)
  OBVIOUS
<1>1. b \in Handlers /\ HandlerOK(b) /\ e \in StatusEvents
  BY <1>0 DEF IInv, Typed, HandlersOK, StatusEvents
<1>2. CASE b.status # from
  BY <1>0, <1>2, FinishStep DEF Emit, Finish
<1>3. CASE b.status = from
  <2>1. /\ a \in Handlers /\ a.pc = "save_event" /\ a.pay = b.pay
        /\ a.status = StatusAfter[e] /\ a.emit = e /\ a.version = b.version + 1
        /\ a.amount = b.amount
    BY <1>0, <1>1, AppliedIs
  <2>2. b.pay \in Payments /\ orderOf[b.pay] # NoOrder /\ SnapshotOK(b) /\ b.version \in Nat
    BY <1>0, <1>1 DEF HandlerOK, Handlers
  <2>3. HandlerOK(a)'
    <3>1. CASE from = "READY"
      <4>1. a.version = 2 /\ 1 \in DOMAIN log'[a.pay]
        BY <1>3, <2>1, <2>2, <3>1 DEF SnapshotOK
      <4> QED
        BY <1>0, <1>1, <2>1, <2>2, <3>1, <4>1 DEF HandlerOK, PendingOK
    <3>2. CASE from = "PAID"
      <4>1. UncancelledUpTo(a.version - 1, a.pay)'
        BY <1>3, <2>1, <2>2, <3>2 DEF SnapshotOK, UncancelledUpTo, Approved
      <4> QED
        BY <1>0, <1>1, <2>1, <2>2, <3>2, <4>1 DEF HandlerOK, PendingOK
    <3> QED
      BY <3>1, <3>2
  <2>4. req' = [req EXCEPT ![r] = a]
    BY <1>0, <1>3 DEF Emit
  <2> QED
    BY <1>0, <2>1, <2>3, <2>4, ReqStep DEF Granting, Requesting
<1> QED
  BY <1>2, <1>3

LEMMA GatewayConfirmStep ==
  ASSUME IInv, NEW r \in Requests, GatewayConfirm(r)
  PROVE  IInv'
<1>1. PICK b, p, id : b = req[r] /\ p = b.pay /\ id = AskedId(b.amount)
  OBVIOUS
<1>2. b.pc = "ask_confirm" /\ p \in Payments /\ id \in GatewayIds
  BY <1>1 DEF GatewayConfirm, At, IInv, HandlersOK, HandlerOK, AskedId, GatewayIds
<1>3. PICK captured, paid, e :
        /\ captured \in BOOLEAN /\ paid \in BOOLEAN
        /\ captured => pg[p][id] = "NONE"
        /\ paid => captured \/ pg[p][id] = "PAID"
        /\ pg' = IF captured THEN [pg EXCEPT ![p][id] = "PAID"] ELSE pg
        /\ e \in {"PaymentApproved", "PaymentFailed"} /\ (e = "PaymentApproved" => paid)
        /\ Emit(r, "READY", e)
  <2>1. PICK flow \in Flows(b.amount), accepted \in BOOLEAN, totalAgrees \in BOOLEAN,
             answered \in Answered :
          LET captured == flow = "capture" /\ pg[p][id] = "NONE" /\ accepted
              paid     == \/ captured
                          \/ flow = "query" /\ pg[p][id] = "PAID" /\ totalAgrees
          IN  /\ pg' = IF captured THEN [pg EXCEPT ![p][id] = "PAID"] ELSE pg
              /\ Emit(r, "READY", Verdict(paid, answered))
    BY <1>1 DEF GatewayConfirm
  <2> DEFINE captured == flow = "capture" /\ pg[p][id] = "NONE" /\ accepted
             paid == \/ captured
                     \/ flow = "query" /\ pg[p][id] = "PAID" /\ totalAgrees
  <2>2. PICK e : e = Verdict(paid, answered)
    OBVIOUS
  <2>3. e \in {"PaymentApproved", "PaymentFailed"} /\ (e = "PaymentApproved" => paid)
    BY <2>2 DEF Verdict
  <2>4. /\ captured \in BOOLEAN /\ paid \in BOOLEAN
        /\ captured => pg[p][id] = "NONE"
        /\ paid => captured \/ pg[p][id] = "PAID"
    OBVIOUS
  <2>5. /\ pg' = IF captured THEN [pg EXCEPT ![p][id] = "PAID"] ELSE pg
        /\ Emit(r, "READY", e)
    BY <2>1, <2>2
  <2> HIDE DEF captured, paid
  <2> QED
    BY <2>3, <2>4, <2>5
<1>4. PgGrows /\ (paid => pg'[p][id] # "NONE")
  <2>1. CASE captured
    <3>1. pg' = [pg EXCEPT ![p][id] = "PAID"] /\ "PAID" \in GatewayStates
      BY <1>3, <2>1 DEF GatewayStates
    <3>2. pg[p][id] \in {"PARTIAL", "REFUNDED"} => "PAID" \in {"PARTIAL", "REFUNDED"}
      BY <1>3, <2>1
    <3>3. PICK to \in GatewayStates : to = "PAID"
      BY DEF GatewayStates
    <3>4. PgGrows /\ pg'[p][id] = to
      BY <1>2, <3>1, <3>2, <3>3, PgSet
    <3> QED
      BY <3>3, <3>4
  <2>2. CASE ~captured
    <3>1. pg' = pg
      BY <1>3, <2>2
    <3>2. paid => pg[p][id] = "PAID"
      BY <1>3, <2>2
    <3> QED
      BY <3>1, <3>2, PgKept
  <2> QED
    BY <2>1, <2>2
<1>5. e = "PaymentApproved" => \A c : c = req[r] => Taken(c.pay, c.amount)'
  BY <1>1, <1>3, <1>4 DEF Taken
<1> QED
  BY <1>1, <1>2, <1>3, <1>4, <1>5, EmitStep DEF GatewayConfirm

LEMMA GatewayCancelStep ==
  ASSUME IInv, NEW r \in Requests, GatewayCancel(r)
  PROVE  IInv'
<1>1. PICK b, p, id : b = req[r] /\ p = b.pay /\ id = CancelledId(p)
  OBVIOUS
<1>2. b.pc = "ask_cancel" /\ p \in Payments /\ id \in GatewayIds
  BY <1>1 DEF GatewayCancel, At, IInv, HandlersOK, HandlerOK, CancelledId, GatewayIds
<1>3. CASE Finish(r) /\ UNCHANGED pg
  BY <1>3, FinishStep, PgKept DEF GatewayCancel
<1>4. CASE \E rest \in {"PARTIAL", "REFUNDED"}, answered \in Answered :
             /\ pg[p][id] \in {"PAID", "PARTIAL"}
             /\ pg' = [pg EXCEPT ![p][id] = rest]
             /\ IF answered THEN Emit(r, "PAID", "PaymentCancelled") ELSE Finish(r)
  <2>1. PICK rest \in {"PARTIAL", "REFUNDED"} :
          /\ pg' = [pg EXCEPT ![p][id] = rest]
          /\ Emit(r, "PAID", "PaymentCancelled") \/ Finish(r)
    BY <1>4
  <2>2. rest \in GatewayStates /\ rest # "NONE"
    BY DEF GatewayStates
  <2>3. PgGrows /\ pg'[p][id] = rest
    BY <1>2, <2>1, <2>2, PgSet
  <2>4. \A c : c = req[r] => GivenBack(c.pay)'
    BY <1>1, <2>3 DEF GivenBack
  <2> QED
    BY <1>1, <1>2, <2>1, <2>3, <2>4, EmitStep, FinishStep DEF GatewayCancel
<1> QED
  BY <1>1, <1>3, <1>4 DEF GatewayCancel

LEMMA ClientPaysStep ==
  ASSUME IInv, NEW p \in Payments, ClientPays(p)
  PROVE  IInv'
<1>1. PgGrows
  <2>1. /\ "orderId" \in GatewayIds /\ "PAID" \in GatewayStates
        /\ pg' = [pg EXCEPT ![p]["orderId"] = "PAID"] /\ pg[p]["orderId"] = "NONE"
    BY DEF ClientPays, GatewayIds, GatewayStates
  <2> QED
    BY <2>1, PgSet
<1>2. HandlersOK'
  <2>1. SUFFICES ASSUME NEW s \in Requests PROVE HandlerOK(req[s])'
    BY DEF HandlersOK
  <2>2. PICK b : b = req[s]
    OBVIOUS
  <2>3. HandlerOK(b)'
    BY <1>1, <2>2, HandlerKept DEF ClientPays, IInv, Typed, HandlersOK
  <2> QED
    BY <2>2, <2>3 DEF ClientPays
<1>3. Typed' /\ OneGranter' /\ RequesterAlone'
  BY <1>1 DEF ClientPays, IInv, Typed, OneGranter, RequesterAlone, PgGrows
<1> QED
  BY <1>1, <1>2, <1>3, WorldKept DEF ClientPays, IInv

-----------------------------------------------------------------------------
(* Saving an event. *)

\* The event a handler is about to append at version v of payment p.
Next3(v, e, p) == /\ v >= 3 /\ v - 1 \in DOMAIN log[p] /\ Approved(p)
                  /\ e \in {GrantEvent(price[p]), "PaymentCancelled"} /\ ~Occurs(e, p)

Successor(v, e, p) ==
  \/ v = 1 /\ DOMAIN log[p] = {} /\ e = "PaymentRequested"
  \/ v = 2 /\ 1 \in DOMAIN log[p] /\ e \in {"PaymentApproved", "PaymentFailed"}
  \/ Next3(v, e, p)

\* A free version that succeeds one in the log is the next one, so the log grows
\* by one legal event at its end.
LEMMA AppendLegal ==
  ASSUME IInv, NEW p \in Payments, NEW v \in Nat, NEW e \in EventTypes,
         VersionFree(p, v), Successor(v, e, p), log' = Recorded(p, v, e),
         \A q \in Payments : price'[q] = price[q] \/ (q = p /\ v = 2)
  PROVE  /\ Contiguous' /\ LegalHistory' /\ DOMAIN log' = Payments
         /\ DOMAIN log'[p] = DOMAIN log[p] \cup {v} /\ log'[p][v] = e
         /\ \A w \in DOMAIN log[p] : log'[p][w] = log[p][w]
         /\ \A q \in Payments \ {p} : log'[q] = log[q]
         /\ \A w \in DOMAIN log[p] : w < v
<1>1. PICK n \in Nat : log[p] \in [1 .. n -> EventTypes]
  BY DEF IInv, Contiguous
<1>2. v = n + 1
  BY <1>1 DEF VersionFree, Successor, Next3
<1>3. /\ DOMAIN log' = Payments
      /\ log'[p] = [w \in DOMAIN log[p] \cup {v} |-> IF w = v THEN e ELSE log[p][w]]
      /\ \A q \in Payments \ {p} : log'[q] = log[q]
  BY DEF Recorded, IInv, Typed
<1>4. /\ DOMAIN log'[p] = DOMAIN log[p] \cup {v} /\ log'[p][v] = e
      /\ \A w \in DOMAIN log[p] : log'[p][w] = log[p][w]
  BY <1>3 DEF VersionFree
<1>5. log'[p] \in [1 .. v -> EventTypes]
  <2>1. DOMAIN log[p] = 1 .. n /\ 1 .. v = 1 .. n \cup {v}
    BY <1>1, <1>2
  <2>2. \A w \in 1 .. v : (IF w = v THEN e ELSE log[p][w]) \in EventTypes
    BY <1>1, <1>2
  <2> QED
    BY <1>3, <2>1, <2>2
<1>6. Contiguous'
  BY <1>3, <1>5 DEF Contiguous, IInv
<1>7. LegalHistory'
  <2>1. SUFFICES ASSUME NEW q \in Payments
        PROVE /\ 1 \in DOMAIN log'[q] => log'[q][1] = "PaymentRequested"
              /\ 2 \in DOMAIN log'[q] => log'[q][2] \in {"PaymentApproved", "PaymentFailed"}
              /\ 3 \in DOMAIN log'[q] => log'[q][2] = "PaymentApproved"
              /\ \A u \in DOMAIN log'[q] :
                   u > 2 => log'[q][u] \in {GrantEvent(price'[q]), "PaymentCancelled"}
              /\ \A u, w \in DOMAIN log'[q] : log'[q][u] = log'[q][w] => u = w
    BY DEF LegalHistory, GrantEvent
  <2>2. CASE q # p
    BY <1>3, <2>2 DEF IInv, LegalHistory
  <2>3. CASE q = p
    <3>1. DOMAIN log[p] = 1 .. n
      BY <1>1
    <3>2. \A w \in DOMAIN log[p] : log[p][w] # e
      BY <3>1, <1>2 DEF Successor, Next3, Occurs, IInv, LegalHistory, GrantEvent
    <3>3. \A u, w \in DOMAIN log'[p] : log'[p][u] = log'[p][w] => u = w
      BY <1>4, <3>2 DEF IInv, LegalHistory
    <3>4. /\ v = 1 => e = "PaymentRequested"
          /\ v = 2 => e \in {"PaymentApproved", "PaymentFailed"}
          /\ v > 2 => e \in {GrantEvent(price[p]), "PaymentCancelled"} /\ Approved(p)
      BY <1>2, <3>1 DEF Successor, Next3
    <3>5. \A u \in DOMAIN log'[p] : u = v \/ (u \in DOMAIN log[p] /\ u < v)
      BY <1>2, <1>4, <3>1
    <3>6. 1 \in DOMAIN log'[p] => log'[p][1] = "PaymentRequested"
      BY <1>4, <3>4, <3>5 DEF IInv, LegalHistory
    <3>7. 2 \in DOMAIN log'[p] => log'[p][2] \in {"PaymentApproved", "PaymentFailed"}
      BY <1>4, <3>4, <3>5 DEF IInv, LegalHistory
    <3>8. 3 \in DOMAIN log'[p] => log'[p][2] = "PaymentApproved"
      BY <1>4, <3>4, <3>5 DEF IInv, LegalHistory, Approved
    <3>9. \A u \in DOMAIN log'[p] :
            u > 2 => log'[p][u] \in {GrantEvent(price'[p]), "PaymentCancelled"}
      BY <1>4, <3>1, <3>4, <3>5, <1>2 DEF IInv, LegalHistory
    <3> QED
      BY <2>3, <3>3, <3>6, <3>7, <3>8, <3>9
  <2> QED
    BY <2>2, <2>3
<1>8. \A w \in DOMAIN log[p] : w < v
  BY <1>1, <1>2
<1> QED
  BY <1>3, <1>4, <1>6, <1>7, <1>8

\* What a handler relies on survives an event appended by another one.
LEMMA OtherKept ==
  ASSUME NEW b \in Handlers, HandlerOK(b), NEW p \in Payments, NEW v, NEW e,
         DOMAIN log'[p] = DOMAIN log[p] \cup {v}, log'[p][v] = e,
         v \notin DOMAIN log[p],
         \A w \in DOMAIN log[p] : log'[p][w] = log[p][w],
         \A q \in Payments \ {p} : log'[q] = log[q],
         UNCHANGED <<orderOf, proj, pg, granted>>,
         \A q \in Payments : price'[q] = price[q] \/ (q = p /\ v = 2),
         \A w \in DOMAIN log[p] : w < v,
         v \in Nat,
         b.pc = "save_event" /\ b.emit = "PaymentRequested" => b.pay # p,
         Granting(b) => b.pay # p \/ e # GrantEvent(price[p])
  PROVE  HandlerOK(b)'
<1>1. CASE b.pay # p \/ b.pc = "idle"
  <2>1. CASE b.pc = "idle"
    BY <2>1 DEF HandlerOK
  <2>2. CASE b.pc # "idle" /\ b.pay # p
    <3>1. PICK q \in Payments : q = b.pay
      BY <2>2 DEF HandlerOK
    <3>2. log'[q] = log[q] /\ price'[q] = price[q]
      BY <2>2, <3>1
    <3> QED
      BY <2>2, <3>1, <3>2 DEF HandlerOK, SnapshotOK, PendingOK, RecordedOK, GrantOK, Approved,
         NotYetGranted, Occurs, UncancelledUpTo, Sells, Taken, GivenBack
  <2> QED
    BY <1>1, <2>1, <2>2
<1>2. CASE b.pay = p /\ b.pc # "idle"
  <2>1. \A f : Occurs(f, p) => Occurs(f, p)'
    BY DEF Occurs
  <2>2. Approved(p) => Approved(p)'
    BY DEF Approved
  <2>3. \A u \in Int : UncancelledUpTo(u, p) => UncancelledUpTo(u, p)'
    <3>1. SUFFICES ASSUME NEW u \in Int, UncancelledUpTo(u, p)
                   PROVE  UncancelledUpTo(u, p)'
      OBVIOUS
    <3>2. u < v
      BY <3>1 DEF UncancelledUpTo
    <3> QED
      BY <3>1, <3>2, <2>2 DEF UncancelledUpTo
  <2>3a. Granting(b) => Approved(p)
    BY <1>2 DEF Granting, HandlerOK, RecordedOK, GrantOK
  <2>3b. Granting(b) => price'[p] = price[p]
    BY <2>3a DEF Approved
  <2>4. Granting(b) => (NotYetGranted(p) => NotYetGranted(p)')
    BY <1>2, <2>3b DEF NotYetGranted, Occurs
  <2>4a. \A amount : Taken(p, amount) <=> Taken(p, amount)'
    BY DEF Taken
  <2>4b. GivenBack(p) <=> GivenBack(p)'
    BY DEF GivenBack
  <2>4c. Granting(b) => (Sells(b) => Sells(b)')
    BY <1>2, <2>3b DEF Sells
  <2>5. b.pay \in Payments /\ orderOf[b.pay] # NoOrder /\ b.version \in Nat
    BY <1>2 DEF HandlerOK, Handlers
  <2>6. CASE b.pc \in {"ask_confirm", "ask_cancel"}
    BY <1>2, <2>3, <2>5, <2>6 DEF HandlerOK, SnapshotOK
  <2>7. CASE b.pc = "save_event"
    <3>1. b.emit # "PaymentRequested" /\ PendingOK(b)
      BY <1>2, <2>7 DEF HandlerOK
    <3>2. PendingOK(b)'
      BY <1>2, <2>3, <2>4a, <2>4b, <2>5, <3>1 DEF PendingOK
    <3> QED
      BY <2>5, <2>7, <3>2 DEF HandlerOK
  <2>8. CASE b.pc = "save_projection"
    BY <1>2, <2>1, <2>2, <2>3b, <2>4, <2>5, <2>8 DEF HandlerOK, RecordedOK, Granting
  <2>9. CASE b.pc \in {"grant_load", "grant_event", "grant_write"}
    BY <1>2, <2>1, <2>2, <2>4, <2>4c, <2>5, <2>9 DEF HandlerOK, GrantOK, Granting
  <2> QED
    BY <1>2, <2>6, <2>7, <2>8, <2>9 DEF Handlers, Pcs
<1> QED
  BY <1>1, <1>2

\* The event of a pending handler, when its version is still free, is the legal
\* successor of the whole log, not only of the snapshot it was decided on.
LEMMA PendingIsSuccessor ==
  ASSUME IInv, NEW b \in Handlers, HandlerOK(b),
         b.pc \in {"save_event", "grant_event"}, VersionFree(b.pay, b.version)
  PROVE  Successor(b.version, b.emit, b.pay)
<1>1. b.pay \in Payments
  BY DEF HandlerOK
<1>2. PICK n \in Nat : log[b.pay] \in [1 .. n -> EventTypes]
  BY <1>1 DEF IInv, Contiguous
<1>3. b.version \in Nat
  BY DEF Handlers
<1>4. CASE b.pc = "save_event"
  <2>1. PendingOK(b) /\ b.emit \in StatusEvents
    BY <1>4 DEF HandlerOK, PendingOK
  <2>2. CASE b.emit \in {"PaymentRequested", "PaymentApproved", "PaymentFailed"}
    BY <2>1, <2>2 DEF PendingOK, Successor
  <2>3. CASE b.emit = "PaymentCancelled"
    <3>1. UncancelledUpTo(b.version - 1, b.pay)
      BY <2>1, <2>3 DEF PendingOK
    <3>2. b.version >= 3 /\ b.version - 1 \in DOMAIN log[b.pay] /\ Approved(b.pay)
      BY <1>3, <3>1 DEF UncancelledUpTo
    <3>3. \A w \in DOMAIN log[b.pay] : w <= b.version - 1
      BY <1>2, <1>3, <3>2 DEF VersionFree
    <3>4. ~Occurs("PaymentCancelled", b.pay)
      BY <3>1, <3>3 DEF UncancelledUpTo, Occurs
    <3> QED
      BY <2>3, <3>2, <3>4 DEF Successor, Next3
  <2> QED
    BY <2>1, <2>2, <2>3 DEF StatusEvents
<1>5. CASE b.pc = "grant_event"
  BY <1>5 DEF HandlerOK, GrantOK, NotYetGranted, Successor, Next3, Sells
<1> QED
  BY <1>4, <1>5

\* The amount goes on record with the approval, and with nothing else.
PriceStep(p, v, e, amount) ==
  /\ price' \in [Payments -> Amounts \cup {NoAmount}]
  /\ \A q \in Payments : price'[q] = price[q] \/ (q = p /\ v = 2 /\ e = "PaymentApproved")
  /\ e = "PaymentApproved" => price'[p] = amount
  /\ e # "PaymentApproved" => price' = price

LEMMA PriceSaved ==
  \A r \in Requests : \A from, next, b :
    /\ b = req[r] /\ IInv /\ Append(r, from, next) /\ VersionFree(b.pay, b.version)
    /\ b.pay \in Payments /\ Successor(b.version, b.emit, b.pay)
    => PriceStep(b.pay, b.version, b.emit, b.amount)
<1> SUFFICES ASSUME NEW r \in Requests, NEW from, NEW next, NEW b, b = req[r],
                    IInv, Append(r, from, next), VersionFree(b.pay, b.version),
                    b.pay \in Payments, Successor(b.version, b.emit, b.pay)
             PROVE  PriceStep(b.pay, b.version, b.emit, b.amount)
  OBVIOUS
<1>1. price \in [Payments -> Amounts \cup {NoAmount}] /\ b.amount \in Amounts \cup {NoAmount}
  BY DEF IInv, Typed, Handlers
<1>2. price' = IF b.emit = "PaymentApproved"
               THEN [price EXCEPT ![b.pay] = b.amount] ELSE price
  BY DEF Append
<1>3. b.emit = "PaymentApproved" => b.version = 2
  BY DEF Successor, Next3, GrantEvent
<1> QED
  BY <1>1, <1>2, <1>3 DEF PriceStep

LEMMA AppendStep ==
  ASSUME IInv, NEW r \in Requests, NEW from, NEW next, Append(r, from, next),
         \/ from = "save_event" /\ next = "save_projection"
         \/ from = "grant_event" /\ next = "grant_write"
  PROVE  IInv'
<1>0. PICK b, c : b = req[r] /\ c = [b EXCEPT !.pc = next]
  OBVIOUS
<1>1. b \in Handlers /\ HandlerOK(b) /\ b.pc = from
  BY <1>0 DEF IInv, Typed, HandlersOK, Append, At
<1>2. CASE ~VersionFree(b.pay, b.version)
  BY <1>0, <1>2, FinishStep, PgKept DEF Append
<1>3. CASE VersionFree(b.pay, b.version)
  <2> DEFINE p == b.pay
             v == b.version
             e == b.emit
  <2>1. /\ log' = Recorded(p, v, e) /\ req' = [req EXCEPT ![r] = c]
        /\ UNCHANGED <<orderOf, proj, pg, granted>>
    BY <1>0, <1>3 DEF Append, Goto
  <2>2. p \in Payments /\ v \in Nat /\ orderOf[p] # NoOrder /\ e \in EventTypes
    BY <1>1 DEF HandlerOK, PendingOK, GrantOK, Handlers, EventTypes, GrantEvent
  <2>3. Successor(v, e, p)
    BY <1>1, <1>3, PendingIsSuccessor
  <2>3a. PriceStep(p, v, e, b.amount)
    BY <1>0, <1>3, <2>2, <2>3, PriceSaved DEF Append
  <2>4. /\ Contiguous' /\ LegalHistory' /\ DOMAIN log' = Payments
        /\ DOMAIN log'[p] = DOMAIN log[p] \cup {v} /\ log'[p][v] = e
        /\ \A w \in DOMAIN log[p] : log'[p][w] = log[p][w]
        /\ \A q \in Payments \ {p} : log'[q] = log[q]
        /\ \A w \in DOMAIN log[p] : w < v
    BY <1>3, <2>1, <2>2, <2>3, <2>3a, AppendLegal DEF PriceStep
  <2>5. /\ c \in Handlers /\ c.pc = next /\ c.pay = p /\ c.emit = e
        /\ c.status = b.status /\ c.version = v /\ c.amount = b.amount
    BY <1>0, <1>1 DEF Handlers, Pcs
  <2>6. \A s \in Requests : req'[s] = IF s = r THEN c ELSE req[s]
    BY <2>1 DEF IInv, Typed
  <2>7. \A s \in Requests : req[s] \in Handlers /\ HandlerOK(req[s])
    BY DEF IInv, Typed, HandlersOK
  <2>8. from = "save_event" => e # GrantEvent(price[p])
    BY <1>1 DEF HandlerOK, PendingOK, StatusEvents, GrantEvent
  <2>9. Occurs(e, p)' /\ \A f, q : q \in Payments /\ Occurs(f, q) => Occurs(f, q)'
    BY <2>2, <2>4 DEF Occurs
  <2>10. \A q \in Payments : Approved(q) => Approved(q)'
    BY <2>2, <2>4 DEF Approved
  <2>11. HandlerOK(c)'
    <3>1. CASE from = "save_event"
      <4>1. PendingOK(b)
        BY <1>1, <3>1 DEF HandlerOK
      <4>2. CASE e = "PaymentApproved"
        <5>1. v = 2 /\ 2 \notin DOMAIN log[p] /\ ~Approved(p)
          BY <1>3, <4>1, <4>2 DEF PendingOK, VersionFree, Approved
        <5>2. granted[p] = 0
          BY <2>2, <5>1 DEF IInv, Granted
        <5>3. ~Occurs(GrantEvent(price[p]), p)'
          BY <2>2, <2>4, <4>2, <5>1 DEF Occurs, IInv, LegalHistory, Contiguous, GrantEvent
        <5>4. Approved(p)'
          BY <2>4, <4>2, <5>1 DEF Approved
        <5>5. NotYetGranted(p)'
          BY <2>1, <5>2, <5>3 DEF NotYetGranted, Occurs
        <5>6. c.amount = price'[p]
          BY <2>3a, <2>5, <4>2 DEF PriceStep
        <5> QED
          BY <2>1, <2>2, <2>5, <2>9, <3>1, <4>1, <4>2, <5>4, <5>5, <5>6
          DEF HandlerOK, RecordedOK, PendingOK
      <4> QED
        BY <2>1, <2>2, <2>5, <2>9, <3>1, <4>1, <4>2 DEF HandlerOK, RecordedOK, PendingOK
    <3>2. CASE from = "grant_event"
      <4>1. GrantOK(b)
        BY <1>1, <3>2 DEF HandlerOK
      <4>2. Sells(c)'
        BY <2>3a, <2>5, <4>1 DEF GrantOK, Sells, PriceStep, GrantEvent
      <4> QED
        BY <2>1, <2>2, <2>5, <2>9, <2>10, <3>2, <4>1, <4>2 DEF HandlerOK, GrantOK, NotYetGranted
    <3> QED
      BY <3>1, <3>2
  <2>12. HandlersOK'
    <3>1. SUFFICES ASSUME NEW s \in Requests, s # r PROVE HandlerOK(req[s])'
      BY <2>6, <2>11 DEF HandlersOK, HandlerOK, SnapshotOK, PendingOK, RecordedOK, GrantOK
    <3>2. PICK d : d = req[s]
      OBVIOUS
    <3>3. d \in Handlers /\ HandlerOK(d) /\ req'[s] = d
      BY <2>6, <2>7, <3>1, <3>2
    <3>4. d.pc = "save_event" /\ d.emit = "PaymentRequested" => d.pay # p
      BY <1>0, <1>1, <3>1, <3>2 DEF IInv, RequesterAlone, Requesting
    <3>5. Granting(d) => d.pay # p \/ e # GrantEvent(price[p])
      BY <1>0, <1>1, <2>8, <3>1, <3>2 DEF IInv, OneGranter, Granting
    <3>6. HandlerOK(d)'
      BY <1>3, <2>1, <2>2, <2>3a, <2>4, <3>3, <3>4, <3>5, OtherKept
      DEF VersionFree, PriceStep
    <3> QED
      BY <3>3, <3>6
  <2>13. OneGranter'
    <3>1. CASE Granting(b)
      <4>1. SUFFICES ASSUME NEW s \in Requests, NEW t \in Requests,
                            Granting(req'[s]), Granting(req'[t]),
                            req'[s].pay = req'[t].pay
                     PROVE  s = t
        BY DEF OneGranter, Granting
      <4>2. /\ Granting(req[s]) /\ req[s].pay = req'[s].pay
            /\ Granting(req[t]) /\ req[t].pay = req'[t].pay
        BY <1>0, <2>5, <2>6, <3>1, <4>1
      <4> QED
        BY <4>1, <4>2 DEF IInv, OneGranter
    <3>2. CASE ~Granting(b)
      <4>1. Granting(c) => v = 2
        BY <1>1, <2>5, <3>2 DEF Granting, HandlerOK, PendingOK
      <4>2. \A s \in Requests : Granting(req[s]) => Approved(req[s].pay)
        BY <2>7 DEF Granting, HandlerOK, RecordedOK, GrantOK
      <4>3. Granting(c) => \A s \in Requests : Granting(req[s]) => req[s].pay # p
        BY <1>3, <4>1, <4>2 DEF VersionFree, Approved
      <4> QED
        BY <2>5, <2>6, <4>3 DEF IInv, OneGranter, Granting
    <3> QED
      BY <3>1, <3>2
  <2>14. RequesterAlone'
    <3>1. SUFFICES ASSUME NEW s \in Requests, NEW t \in Requests,
                          Requesting(req'[s]),
                          req'[t].pc # "idle", req'[t].pay = req'[s].pay
                   PROVE  s = t
      BY DEF RequesterAlone
    <3>2. Requesting(c) => Requesting(b)
      BY <1>1, <2>5 DEF Requesting, GrantOK, HandlerOK
    <3>3. Requesting(req[s]) /\ req[s].pay = req'[s].pay
      BY <1>0, <2>5, <2>6, <3>1, <3>2
    <3>4. req[t].pc # "idle" /\ req[t].pay = req'[t].pay
      BY <1>0, <1>1, <2>5, <2>6, <3>1
    <3> QED
      BY <3>1, <3>3, <3>4 DEF IInv, RequesterAlone
  <2>15. Granted'
    <3> SUFFICES ASSUME NEW q \in Payments, granted'[q] # 0
                 PROVE  /\ granted'[q] = 1 /\ Approved(q)' /\ price'[q] \in Products
                        /\ Occurs(GrantEvent(price[q]), q)'
      BY DEF Granted
    <3>1. /\ granted[q] = 1 /\ Approved(q) /\ price[q] \in Products
          /\ Occurs(GrantEvent(price[q]), q)
      BY <2>1 DEF IInv, Granted
    <3>2. price'[q] = price[q]
      BY <1>3, <2>3a, <3>1 DEF PriceStep, Approved, VersionFree
    <3>3. Occurs(GrantEvent(price[q]), q)'
      BY <2>2, <2>4, <3>1, <3>2 DEF Occurs
    <3> QED
      BY <2>1, <2>10, <3>1, <3>2, <3>3
  <2>16. BooksMatchGateway'
    <3>1. /\ e = "PaymentApproved" => Taken(p, b.amount)
          /\ e = "PaymentCancelled" => GivenBack(p)
      BY <1>1 DEF HandlerOK, PendingOK, GrantOK, GrantEvent
    <3>2. \A f, q : q \in Payments /\ Occurs(f, q)' => Occurs(f, q) \/ (f = e /\ q = p)
      BY <2>2, <2>4 DEF Occurs
    <3> SUFFICES ASSUME NEW q \in Payments
                 PROVE  /\ Occurs("PaymentApproved", q)' => Taken(q, price[q])'
                        /\ Occurs("PaymentCancelled", q)' => GivenBack(q)'
      BY DEF BooksMatchGateway
    <3>3. /\ Taken(q, price[q])' <=> pg[q][AskedId(price'[q])] # "NONE"
          /\ GivenBack(q)' <=> GivenBack(q)
      BY <2>1 DEF Taken, GivenBack
    <3>4. ASSUME Occurs("PaymentApproved", q)' PROVE Taken(q, price[q])'
      <4>1. CASE e = "PaymentApproved" /\ q = p
        <5>1. price'[q] = b.amount
          BY <2>3a, <4>1 DEF PriceStep
        <5> QED
          BY <3>1, <3>3, <4>1, <5>1 DEF Taken
      <4>2. CASE ~(e = "PaymentApproved" /\ q = p)
        <5>1. Occurs("PaymentApproved", q)
          BY <3>2, <3>4, <4>2
        <5>2. price'[q] = price[q]
          BY <2>3a, <4>2 DEF PriceStep
        <5> QED
          BY <3>3, <5>1, <5>2 DEF IInv, BooksMatchGateway, Taken
      <4> QED
        BY <4>1, <4>2
    <3>5. ASSUME Occurs("PaymentCancelled", q)' PROVE GivenBack(q)'
      BY <3>1, <3>2, <3>3, <3>5 DEF IInv, BooksMatchGateway
    <3> QED
      BY <3>4, <3>5
  <2>17. ProjectionFromHistory'
    BY <2>1, <2>2, <2>4 DEF IInv, ProjectionFromHistory
  <2>18. FreshUntouched'
    BY <2>1, <2>2, <2>4 DEF IInv, FreshUntouched
  <2>19. Typed'
    BY <2>1, <2>3a, <2>4, <2>5 DEF IInv, Typed, PriceStep
  <2> QED
    BY <2>4, <2>12, <2>13, <2>14, <2>15, <2>16, <2>17, <2>18, <2>19 DEF IInv
<1> QED
  BY <1>2, <1>3

-----------------------------------------------------------------------------
(* Saving the projection and granting. *)

\* A saved projection disturbs only the requester of a payment id, and the
\* handler that saves it recorded version 1 or a later one.
LEMMA SaveProjectionStep ==
  ASSUME IInv, NEW r \in Requests, SaveProjection(r)
  PROVE  IInv'
<1>0. PICK b : b = req[r]
  OBVIOUS
<1>1. b \in Handlers /\ HandlerOK(b) /\ b.pc = "save_projection"
  BY <1>0 DEF IInv, Typed, HandlersOK, SaveProjection, At
<1>2. CASE OrderTaken(b.pay)
  BY <1>0, <1>2, FinishStep, PgKept DEF SaveProjection
<1>3. CASE ~OrderTaken(b.pay)
  <2> DEFINE p == b.pay
  <2>1. /\ p \in Payments /\ orderOf[p] # NoOrder /\ RecordedOK(b)
        /\ proj' = [proj EXCEPT ![p] = b.status]
        /\ UNCHANGED <<log, orderOf, pg, price, granted>>
    BY <1>0, <1>1, <1>3 DEF HandlerOK, SaveProjection
  <2>2. PICK c \in Handlers :
          /\ req' = [req EXCEPT ![r] = c]
          /\ \/ c.pc = "idle"
             \/ /\ c.pc = "grant_load" /\ c.pay = p /\ b.emit = "PaymentApproved"
                /\ c.amount = b.amount /\ b.amount \in Products
    <3>1. CASE IsGranted(b)
      <4>1. PICK d : d = [b EXCEPT !.pc = "grant_load"]
        OBVIOUS
      <4>2. /\ d \in Handlers /\ d.pc = "grant_load" /\ d.pay = p
            /\ d.amount = b.amount
        BY <1>1, <4>1 DEF Handlers, Pcs
      <4> QED
        BY <1>0, <1>3, <3>1, <4>1, <4>2 DEF SaveProjection, Goto, IsGranted
    <3>2. CASE ~IsGranted(b)
      BY <1>0, <1>3, <3>2, IdleOK DEF SaveProjection, Finish, Idle
    <3> QED
      BY <3>1, <3>2
  <2>3. \A s \in Requests : req'[s] = IF s = r THEN c ELSE req[s]
    BY <2>2 DEF IInv, Typed
  <2>4. \A s \in Requests : req[s] \in Handlers /\ HandlerOK(req[s])
    BY DEF IInv, Typed, HandlersOK
  <2>5. HandlerOK(c)'
    BY <2>1, <2>2 DEF HandlerOK, RecordedOK, Approved, NotYetGranted, Occurs, Sells
  <2>6. HandlersOK'
    <3>1. SUFFICES ASSUME NEW s \in Requests, s # r PROVE HandlerOK(req[s])'
      BY <2>3, <2>5 DEF HandlersOK, HandlerOK, SnapshotOK, PendingOK, RecordedOK, GrantOK
    <3>2. PICK d : d = req[s]
      OBVIOUS
    <3>3. d \in Handlers /\ HandlerOK(d) /\ req'[s] = d
      BY <2>3, <2>4, <3>1, <3>2
    <3>4. Requesting(d) => d.pay # p
      BY <1>0, <1>1, <3>1, <3>2 DEF IInv, RequesterAlone
    <3>5. HandlerOK(d)'
      BY <2>1, <3>3, <3>4 DEF IInv, Typed, HandlerOK, SnapshotOK, PendingOK, RecordedOK,
         GrantOK, Approved, NotYetGranted, Occurs, UncancelledUpTo, Requesting, Sells, Taken, GivenBack
    <3> QED
      BY <3>3, <3>5
  <2>7. OneGranter'
    <3>1. SUFFICES ASSUME NEW s \in Requests, NEW t \in Requests,
                          Granting(req'[s]), Granting(req'[t]),
                          req'[s].pay = req'[t].pay
                   PROVE  s = t
      BY DEF OneGranter, Granting
    <3>2. /\ Granting(req[s]) /\ req[s].pay = req'[s].pay
          /\ Granting(req[t]) /\ req[t].pay = req'[t].pay
      BY <1>0, <1>1, <2>2, <2>3, <3>1 DEF Granting
    <3> QED
      BY <3>1, <3>2 DEF IInv, OneGranter
  <2>8. RequesterAlone'
    <3>1. SUFFICES ASSUME NEW s \in Requests, NEW t \in Requests,
                          Requesting(req'[s]),
                          req'[t].pc # "idle", req'[t].pay = req'[s].pay
                   PROVE  s = t
      BY DEF RequesterAlone
    <3>2. s # r /\ req'[s] = req[s]
      BY <2>2, <2>3, <3>1 DEF Requesting
    <3>3. req[t].pc # "idle" /\ req[t].pay = req[s].pay
      BY <1>0, <1>1, <2>2, <2>3, <3>1, <3>2
    <3> QED
      BY <3>1, <3>2, <3>3 DEF IInv, RequesterAlone
  <2>9. Contiguous' /\ LegalHistory' /\ FreshUntouched'
    BY <2>1 DEF IInv, Contiguous, LegalHistory, FreshUntouched, Typed
  <2>10. ProjectionFromHistory'
    BY <2>1 DEF IInv, ProjectionFromHistory, Typed, RecordedOK, Occurs
  <2>11. Granted' /\ BooksMatchGateway'
    BY <2>1 DEF IInv, Granted, Approved, Occurs, BooksMatchGateway, Taken, GivenBack
  <2>12. Typed'
    BY <1>1, <2>1, <2>2 DEF IInv, Typed, Handlers
  <2> QED
    BY <2>6, <2>7, <2>8, <2>9, <2>10, <2>11, <2>12 DEF IInv
<1> QED
  BY <1>2, <1>3

LEMMA GrantLoadStep ==
  ASSUME IInv, NEW r \in Requests, GrantLoad(r)
  PROVE  IInv'
<1>0. PICK b, a : /\ b = req[r]
                  /\ a = [pc |-> "grant_event", pay |-> b.pay, status |-> b.status,
                          version |-> NextVersion(b.pay), emit |-> GrantEvent(b.amount),
                          amount |-> b.amount]
  OBVIOUS
<1>1. b \in Handlers /\ HandlerOK(b) /\ b.pc = "grant_load"
  BY <1>0 DEF IInv, Typed, HandlersOK, GrantLoad, At
<1>2. b.pay \in Payments /\ orderOf[b.pay] # NoOrder /\ Approved(b.pay)
      /\ NotYetGranted(b.pay) /\ Sells(b)
  BY <1>1 DEF HandlerOK
<1>3. PICK n \in Nat : log[b.pay] \in [1 .. n -> EventTypes]
  BY <1>2 DEF IInv, Contiguous
<1>4. NextVersion(b.pay) = n + 1 /\ n >= 2
  <2>1. DOMAIN log[b.pay] = 1 .. n /\ n >= 2
    BY <1>2, <1>3 DEF Approved
  <2>2. Cardinality(1 .. n) = n
    BY FS_Interval
  <2> QED
    BY <2>1, <2>2 DEF NextVersion
<1>5. a \in Handlers
  BY <1>0, <1>1, <1>4 DEF Handlers, Pcs, GrantEvent, EventTypes
<1>6. HandlerOK(a)
  BY <1>0, <1>2, <1>3, <1>4 DEF HandlerOK, GrantOK, Sells
<1>7. PgGrows
  BY PgKept DEF GrantLoad
<1>8. HandlerOK(a)'
  BY <1>5, <1>6, <1>7, HandlerKept DEF GrantLoad
<1>9. req' = [req EXCEPT ![r] = a]
  BY <1>0 DEF GrantLoad
<1> QED
  BY <1>0, <1>1, <1>5, <1>7, <1>8, <1>9, ReqStep DEF GrantLoad, Granting, Requesting

LEMMA GrantWriteStep ==
  ASSUME IInv, NEW r \in Requests, GrantWrite(r)
  PROVE  IInv'
<1>0. PICK b : b = req[r]
  OBVIOUS
<1>1. b \in Handlers /\ HandlerOK(b) /\ b.pc = "grant_write"
  BY <1>0 DEF IInv, Typed, HandlersOK, GrantWrite, At
<1> DEFINE p == b.pay
<1>2. /\ p \in Payments /\ granted[p] = 0 /\ granted' = [granted EXCEPT ![p] = 1]
      /\ Approved(p) /\ Occurs(GrantEvent(price[p]), p) /\ price[p] \in Products
      /\ UNCHANGED <<log, orderOf, proj, pg, price>>
  <2>1. /\ p \in Payments /\ granted[p] = 0
        /\ Approved(p) /\ Occurs(GrantEvent(price[p]), p) /\ price[p] \in Products
    BY <1>1 DEF HandlerOK, Sells
  <2>2. granted' = [granted EXCEPT ![p] = granted[p] + 1]
    BY <1>0 DEF GrantWrite
  <2>3. granted[p] + 1 = 1
    BY <2>1
  <2> QED
    BY <2>1, <2>2, <2>3 DEF GrantWrite
<1>3. \A s \in Requests : req'[s] = IF s = r THEN Idle ELSE req[s]
  BY DEF GrantWrite, Finish, IInv, Typed
<1>4. HandlersOK'
  <2>1. SUFFICES ASSUME NEW s \in Requests PROVE HandlerOK(req[s])'
    BY DEF HandlersOK
  <2>2. CASE s = r
    BY <1>3, <2>2 DEF HandlerOK, Idle
  <2>3. CASE s # r
    <3>1. PICK d : d = req[s]
      OBVIOUS
    <3>2. d \in Handlers /\ HandlerOK(d) /\ req'[s] = d
      BY <1>3, <2>3, <3>1 DEF IInv, Typed, HandlersOK
    <3>3. Granting(d) => d.pay # p
      BY <1>0, <1>1, <2>3, <3>1 DEF IInv, OneGranter, Granting
    <3>4. HandlerOK(d)'
      BY <1>2, <3>2, <3>3 DEF IInv, Typed, HandlerOK, SnapshotOK, PendingOK, RecordedOK,
         GrantOK, Approved, NotYetGranted, Occurs, UncancelledUpTo, Granting, Sells, Taken, GivenBack
    <3> QED
      BY <3>2, <3>4
  <2> QED
    BY <2>2, <2>3
<1>5. OneGranter' /\ RequesterAlone'
  BY <1>3, IdleOK DEF IInv, OneGranter, RequesterAlone, Granting, Idle, Requesting
<1>6. Granted'
  BY <1>2 DEF IInv, Granted, Typed, Approved, Occurs, GrantEvent
<1>7. Contiguous' /\ LegalHistory' /\ FreshUntouched' /\ BooksMatchGateway'
      /\ ProjectionFromHistory'
  BY <1>2 DEF IInv, Contiguous, LegalHistory, FreshUntouched, BooksMatchGateway,
              ProjectionFromHistory, Occurs, Taken, GivenBack
<1>8. Typed'
  BY <1>2, IdleOK DEF IInv, Typed, GrantWrite, Finish
<1> QED
  BY <1>4, <1>5, <1>6, <1>7, <1>8 DEF IInv

LEMMA ReadyStep ==
  ASSUME IInv, NEW r \in Requests, NEW p \in Payments, NEW o \in Orders, Ready(r, p, o)
  PROVE  IInv'
<1>0. PICK b, a : b = [Idle EXCEPT !.pay = p] /\ a = Applied(b, "PaymentRequested")
  OBVIOUS
<1>1. b \in Handlers /\ b.pay = p /\ b.version = 0
  BY <1>0, IdleOK DEF Idle, Handlers
<1>2. /\ a \in Handlers /\ a.pc = "save_event" /\ a.pay = p /\ a.version = 1
      /\ a.emit = "PaymentRequested" /\ a.status = StatusAfter["PaymentRequested"]
  <2>1. "PaymentRequested" \in StatusEvents
    BY DEF StatusEvents
  <2>2. b.version + 1 = 1
    BY <1>1
  <2> QED
    BY <1>0, <1>1, <2>1, <2>2, AppliedIs
<1>3. /\ orderOf[p] = NoOrder /\ orderOf' = [orderOf EXCEPT ![p] = o]
      /\ o # NoOrder /\ req' = [req EXCEPT ![r] = a]
      /\ UNCHANGED <<log, proj, pg, price, granted>>
  BY <1>0, PaymentAssumption DEF Ready
<1>4. DOMAIN log[p] = {} /\ proj[p] = "NONE"
  BY <1>3 DEF IInv, FreshUntouched
<1>5. \A s \in Requests : req'[s] = IF s = r THEN a ELSE req[s]
  BY <1>3 DEF IInv, Typed
<1>6. \A s \in Requests : req[s].pc # "idle" => req[s].pay # p
  BY <1>3 DEF IInv, HandlersOK, HandlerOK
<1>7. \A q \in Payments : orderOf'[q] = IF q = p THEN o ELSE orderOf[q]
  BY <1>3 DEF IInv, Typed
<1>8. HandlersOK'
  <2>1. SUFFICES ASSUME NEW s \in Requests PROVE HandlerOK(req[s])'
    BY DEF HandlersOK
  <2>2. CASE s = r
    <3>1. HandlerOK(a)'
      BY <1>2, <1>3, <1>4, <1>7 DEF HandlerOK, PendingOK, StatusEvents
    <3>2. req'[s] = a
      BY <1>5, <2>2
    <3> QED
      BY <3>1, <3>2 DEF HandlerOK, SnapshotOK, PendingOK, RecordedOK, GrantOK
  <2>3. CASE s # r
    <3>1. PICK d : d = req[s]
      OBVIOUS
    <3>2. d \in Handlers /\ HandlerOK(d) /\ req'[s] = d
      BY <1>5, <2>3, <3>1 DEF IInv, Typed, HandlersOK
    <3>3. d.pc # "idle" => orderOf'[d.pay] # NoOrder
      BY <1>7, <1>3, <3>2 DEF HandlerOK
    <3>4. HandlerOK(d)'
      BY <1>3, <3>2, <3>3 DEF HandlerOK, SnapshotOK, PendingOK, RecordedOK,
         GrantOK, Approved, NotYetGranted, Occurs, UncancelledUpTo, Sells, Taken,
         GivenBack
    <3> QED
      BY <3>2, <3>4
  <2> QED
    BY <2>2, <2>3
<1>9. OneGranter'
  BY <1>2, <1>5 DEF IInv, OneGranter, Granting
<1>10. RequesterAlone'
  BY <1>2, <1>5, <1>6 DEF IInv, RequesterAlone, Requesting
<1>11. Contiguous' /\ LegalHistory' /\ BooksMatchGateway' /\ ProjectionFromHistory'
       /\ Granted'
  <2>1. Contiguous' /\ LegalHistory'
    BY <1>3 DEF IInv, Contiguous, LegalHistory
  <2>2. BooksMatchGateway' /\ Granted'
    BY <1>3 DEF IInv, BooksMatchGateway, Occurs, Granted, Approved, Taken, GivenBack
  <2>3. ProjectionFromHistory'
    BY <1>3 DEF IInv, ProjectionFromHistory
  <2> QED
    BY <2>1, <2>2, <2>3
<1>12. FreshUntouched'
  BY <1>3, <1>7 DEF IInv, FreshUntouched
<1>13. Typed'
  BY <1>2, <1>3 DEF IInv, Typed
<1> QED
  BY <1>8, <1>9, <1>10, <1>11, <1>12, <1>13 DEF IInv

-----------------------------------------------------------------------------
(* The invariance of IInv. *)

LEMMA InitOK == Init => IInv
<1> SUFFICES ASSUME Init PROVE IInv
  OBVIOUS
<1> USE DEF Init
<1>1. \A p \in Payments : log[p] \in [1 .. 0 -> EventTypes] /\ DOMAIN log[p] = {}
  <2>1. 1 .. 0 = {}
    OBVIOUS
  <2> QED
    BY <2>1
<1>2. Contiguous
  BY <1>1 DEF Contiguous
<1>3. Typed
  BY IdleOK DEF Typed, Statuses, GatewayStates
<1>4. FreshUntouched /\ LegalHistory /\ BooksMatchGateway /\ ProjectionFromHistory
  BY <1>1 DEF FreshUntouched, LegalHistory, BooksMatchGateway, ProjectionFromHistory, Occurs
<1>5. Granted
  BY DEF Granted
<1>6. HandlersOK /\ OneGranter /\ RequesterAlone
  BY IdleOK DEF HandlersOK, HandlerOK, OneGranter, RequesterAlone, Requesting, Idle
<1> QED
  BY <1>2, <1>3, <1>4, <1>5, <1>6 DEF IInv

LEMMA StutterOK ==
  ASSUME IInv, UNCHANGED vars
  PROVE  IInv'
BY DEF vars, IInv, Typed, Contiguous, FreshUntouched, LegalHistory, HandlersOK, HandlerOK,
       SnapshotOK, PendingOK, RecordedOK, GrantOK, Approved, NotYetGranted, Occurs,
       UncancelledUpTo, Sells, Taken, GivenBack, OneGranter, RequesterAlone, Granted, BooksMatchGateway,
       ProjectionFromHistory

LEMMA NextOK ==
  ASSUME IInv, [Next]_vars
  PROVE  IInv'
<1>1. ASSUME NEW r \in Requests, Arrive(r) PROVE IInv'
  BY <1>1, ReadyStep, ConfirmStep, FailStep, CancelStep DEF Arrive, FoundByOrder
<1>2. ASSUME NEW r \in Requests, Proceed(r) PROVE IInv'
  <2>1. CASE GatewayConfirm(r)
    BY <2>1, GatewayConfirmStep
  <2>2. CASE GatewayCancel(r)
    BY <2>2, GatewayCancelStep
  <2>3. CASE SaveEvent(r)
    BY <2>3, AppendStep DEF SaveEvent
  <2>4. CASE SaveProjection(r)
    BY <2>4, SaveProjectionStep
  <2>5. CASE GrantLoad(r)
    BY <2>5, GrantLoadStep
  <2>6. CASE SaveGrantEvent(r)
    BY <2>6, AppendStep DEF SaveGrantEvent
  <2>7. CASE GrantWrite(r)
    BY <2>7, GrantWriteStep
  <2> QED
    BY <1>2, <2>1, <2>2, <2>3, <2>4, <2>5, <2>6, <2>7 DEF Proceed
<1>3. ASSUME NEW r \in Requests, Abort(r) PROVE IInv'
  BY <1>3, FinishStep, PgKept DEF Abort
<1>4. ASSUME NEW p \in Payments, ClientPays(p) PROVE IInv'
  BY <1>4, ClientPaysStep
<1> QED
  BY <1>1, <1>2, <1>3, <1>4, StutterOK DEF Next

\* What every handler relies on, at every await, holds throughout.
THEOREM Invariance == Spec => []IInv
<1>1. Init => IInv
  BY InitOK
<1>2. IInv /\ [Next]_vars => IInv'
  BY NextOK
<1> QED
  BY <1>1, <1>2, PTL DEF Spec

-----------------------------------------------------------------------------
(* The properties TLC checks, for every instance. *)

\* A legal history has at most four events: after the verdict only the grant and
\* the cancellation can follow, each once.
LEMMA AtMostFour ==
  ASSUME IInv, NEW p \in Payments
  PROVE  \E n \in 0 .. 4 : log[p] \in [1 .. n -> EventTypes]
<1>1. PICK n \in Nat : log[p] \in [1 .. n -> EventTypes]
  BY DEF IInv, Contiguous
<1>2. n <= 4
  <2>1. SUFFICES ASSUME n > 4 PROVE FALSE
    BY <1>1
  <2>2. 3 \in DOMAIN log[p] /\ 4 \in DOMAIN log[p] /\ 5 \in DOMAIN log[p]
    BY <1>1, <2>1
  <2>3. /\ log[p][3] \in {GrantEvent(price[p]), "PaymentCancelled"}
        /\ log[p][4] \in {GrantEvent(price[p]), "PaymentCancelled"}
        /\ log[p][5] \in {GrantEvent(price[p]), "PaymentCancelled"}
    BY <2>2 DEF IInv, LegalHistory
  <2>4. log[p][3] # log[p][4] /\ log[p][3] # log[p][5] /\ log[p][4] # log[p][5]
    BY <2>2 DEF IInv, LegalHistory
  <2> QED
    BY <2>3, <2>4
<1>3. n \in 0 .. 4
  BY <1>2
<1> QED
  BY <1>1, <1>3, Zenon

\* Type correctness of the event store, the projections and the handlers.
THEOREM TypeCorrect == Spec => []TypeOK
<1>1. IInv => TypeOK
  BY AtMostFour DEF IInv, Typed, TypeOK
<1> QED
  BY <1>1, Invariance, PTL

\* The unique pair (paymentId, version) alone keeps every history legal, however
\* many confirmations, failures and cancellations of a payment interleave.
THEOREM HistoriesAreLegal == Spec => []LegalHistory
<1>1. IInv => LegalHistory
  BY DEF IInv
<1> QED
  BY <1>1, Invariance, PTL

\* No payment hands its product over twice, and none without an approval.
THEOREM GrantedAtMostOnce == Spec => []EntitledOnce
<1>1. IInv => EntitledOnce
  <2>1. SUFFICES ASSUME IInv, NEW p \in Payments, granted[p] # 0
                 PROVE  /\ granted[p] = 1 /\ Occurs("PaymentApproved", p)
                        /\ price[p] \in Products /\ Occurs(GrantEvent(price[p]), p)
    BY DEF EntitledOnce
  <2>2. /\ granted[p] = 1 /\ Approved(p)
        /\ price[p] \in Products /\ Occurs(GrantEvent(price[p]), p)
    BY <2>1 DEF IInv, Granted
  <2>3. Occurs("PaymentApproved", p)
    BY <2>2 DEF Approved, Occurs
  <2> QED
    BY <2>2, <2>3
<1> QED
  BY <1>1, Invariance, PTL

\* The books never claim money the gateway did not take or did not give back.
THEOREM BooksAreBacked == Spec => []BooksMatchGateway
<1>1. IInv => BooksMatchGateway
  BY DEF IInv
<1> QED
  BY <1>1, Invariance, PTL

\* The projection only ever shows a status that some recorded event gave.
THEOREM ProjectionIsBacked == Spec => []ProjectionFromHistory
<1>1. IInv => ProjectionFromHistory
  BY DEF IInv
<1> QED
  BY <1>1, Invariance, PTL

-----------------------------------------------------------------------------
(* What a step may never do to a projection. *)

\* Only a handler that recorded an event writes a projection, and the requester
\* writes the first one.
LEMMA ProjectionStep ==
  ASSUME IInv, Next, NEW p \in Payments, proj'[p] # proj[p]
  PROVE  \E e \in StatusEvents : /\ proj'[p] = StatusAfter[e] /\ Occurs(e, p)
                                 /\ e = "PaymentRequested" => proj[p] = "NONE"
<1>1. PICK r \in Requests : SaveProjection(r)
  <2>1. ASSUME NEW r \in Requests, Arrive(r) \/ Abort(r) PROVE proj' = proj
    BY <2>1 DEF Arrive, Ready, ConfirmPayment, FailPayment, CancelPayment, Abort
  <2>2. ASSUME NEW r \in Requests, Proceed(r), ~SaveProjection(r) PROVE proj' = proj
    BY <2>2 DEF Proceed, GatewayConfirm, GatewayCancel, SaveEvent, Append, GrantLoad,
                SaveGrantEvent, GrantWrite
  <2>3. ASSUME NEW q \in Payments, ClientPays(q) PROVE proj' = proj
    BY <2>3 DEF ClientPays
  <2> QED
    BY <2>1, <2>2, <2>3 DEF Next
<1>2. PICK b : b = req[r]
  OBVIOUS
<1>3. b.pc = "save_projection" /\ HandlerOK(b)
  BY <1>1, <1>2 DEF SaveProjection, At, IInv, HandlersOK
<1>4. RecordedOK(b)
  BY <1>3 DEF HandlerOK
<1>5. b.pay = p /\ proj'[p] = b.status
  BY <1>1, <1>2 DEF SaveProjection, IInv, Typed
<1> QED
  BY <1>4, <1>5 DEF RecordedOK

\* A verdict the projection has shown stands: FAILED for good, PAID until it is
\* cancelled, and no stale save brings back READY.
THEOREM VerdictStands == Spec => ProjectionVerdictStands
<1> DEFINE Stands == \A p \in Payments :
       /\ proj[p] = "FAILED" => proj'[p] = "FAILED"
       /\ proj[p] \in {"PAID", "CANCELLED"} => proj'[p] \in {"PAID", "CANCELLED"}
<1>1. ASSUME IInv, Next PROVE Stands
  <2>1. SUFFICES ASSUME NEW p \in Payments, proj[p] \in {"FAILED", "PAID", "CANCELLED"},
                        proj'[p] # proj[p]
                 PROVE  /\ proj[p] # "FAILED"
                        /\ proj'[p] \in {"PAID", "CANCELLED"}
    OBVIOUS
  <2>2. PICK e \in StatusEvents : /\ proj'[p] = StatusAfter[e] /\ Occurs(e, p)
                                  /\ e = "PaymentRequested" => proj[p] = "NONE"
    BY <1>1, <2>1, ProjectionStep
  <2>3. PICK v \in DOMAIN log[p] :
          log[p][v] \in StatusEvents /\ proj[p] = StatusAfter[log[p][v]]
    BY <1>1, <2>1 DEF IInv, ProjectionFromHistory
  <2>4. PICK w \in DOMAIN log[p] : log[p][w] = e
    BY <2>2 DEF Occurs
  <2>5. PICK n \in Nat : log[p] \in [1 .. n -> EventTypes]
    BY <1>1 DEF IInv, Contiguous
  <2>6. v >= 2 /\ w >= 2 /\ 2 \in DOMAIN log[p]
    BY <1>1, <2>1, <2>2, <2>3, <2>4, <2>5 DEF IInv, LegalHistory, StatusAfter
  <2>7. \A u \in DOMAIN log[p] : u > 2 =>
          /\ log[p][2] = "PaymentApproved"
          /\ log[p][u] \in StatusEvents => log[p][u] = "PaymentCancelled"
    BY <1>1, <2>5 DEF IInv, LegalHistory, GrantEvent, StatusEvents
  <2>8. log[p][2] \in {"PaymentApproved", "PaymentFailed"}
    BY <1>1, <2>6 DEF IInv, LegalHistory
  <2>9. CASE log[p][2] = "PaymentFailed"
    <3>1. v = 2 /\ w = 2
      BY <2>5, <2>6, <2>7, <2>9
    <3> QED
      BY <2>1, <2>2, <2>3, <2>4, <3>1
  <2>10. CASE log[p][2] = "PaymentApproved"
    <3>1. log[p][v] \in {"PaymentApproved", "PaymentCancelled"}
      BY <2>3, <2>5, <2>6, <2>7, <2>10
    <3>2. e \in {"PaymentApproved", "PaymentCancelled"}
      BY <2>4, <2>5, <2>6, <2>7, <2>10
    <3> QED
      BY <2>2, <2>3, <3>1, <3>2 DEF StatusAfter
  <2> QED
    BY <2>8, <2>9, <2>10
<1>2. IInv /\ [Next]_vars => [Stands]_vars
  BY <1>1
<1> QED
  BY <1>2, Invariance, PTL DEF Spec, ProjectionVerdictStands

-----------------------------------------------------------------------------
(* The refinement: what each step does to the replayed status. *)

\* The status of a legal history, without a replay.
StatusBy(p) == IF 1 \notin DOMAIN log[p] THEN "NONE"
               ELSE IF Occurs("PaymentCancelled", p) THEN "CANCELLED"
               ELSE IF 2 \in DOMAIN log[p] THEN StatusAfter[log[p][2]]
               ELSE "READY"

LEMMA ReplayIs == IInv => \A p \in Payments : Replay(log[p]) = StatusBy(p)
<1> SUFFICES ASSUME IInv, NEW p \in Payments PROVE Replay(log[p]) = StatusBy(p)
  OBVIOUS
<1>1. CASE 1 \in DOMAIN log[p]
  BY <1>1, ReplayLegal DEF StatusBy, IInv
<1>2. CASE 1 \notin DOMAIN log[p]
  <2>1. PICK n \in Nat : log[p] \in [1 .. n -> EventTypes]
    BY DEF IInv, Contiguous
  <2>2. {v \in DOMAIN log[p] : log[p][v] \in StatusEvents} = {}
    BY <1>2, <2>1
  <2> QED
    BY <1>2, <2>2 DEF Replay, StatusBy
<1> QED
  BY <1>1, <1>2

LEMMA ReplayIsNext == (IInv => \A p \in Payments : Replay(log[p]) = StatusBy(p))'
BY ReplayIs, PTL

LEMMA MapMove ==
  ASSUME NEW p \in Payments, NEW from, NEW to,
         Replay(log[p]) = from, Replay(log'[p]) = to,
         \A q \in Payments \ {p} : log'[q] = log[q],
         UNCHANGED granted
  PROVE  /\ Lifecycle!Move(p, from, to)
         /\ UNCHANGED price => Lifecycle!Unpriced(p, from, to)
BY DEF Lifecycle!Move, Lifecycle!Unpriced

\* An approval decides whether a product was sold, for the one payment.
LEMMA MapSold ==
  ASSUME NEW p \in Payments, \A q \in Payments : price'[q] = price[q] \/ q = p
  PROVE  {q \in Payments : price'[q] \in Products}
           \in {{q \in Payments : price[q] \in Products} \cup {p},
                {q \in Payments : price[q] \in Products} \ {p}}
<1>1. CASE price'[p] \in Products
  <2>1. {q \in Payments : price'[q] \in Products}
          = {q \in Payments : price[q] \in Products} \cup {p}
    BY <1>1
  <2> QED
    BY <2>1
<1>2. CASE price'[p] \notin Products
  <2>1. {q \in Payments : price'[q] \in Products}
          = {q \in Payments : price[q] \in Products} \ {p}
    BY <1>2
  <2> QED
    BY <2>1
<1> QED
  BY <1>1, <1>2

\* An appended event moves the status as the life cycle says, or is a grant.
LEMMA AppendRefines ==
  ASSUME IInv, IInv', NEW r \in Requests, NEW from, NEW next, Append(r, from, next),
         from \in {"save_event", "grant_event"}
  PROVE  Lifecycle!Next \/ UNCHANGED Lifecycle!lifecycleVars
<1>0. PICK b : b = req[r]
  OBVIOUS
<1>1. b \in Handlers /\ HandlerOK(b) /\ b.pc = from
  BY <1>0 DEF IInv, Typed, HandlersOK, Append, At
<1>2. CASE ~VersionFree(b.pay, b.version)
  BY <1>0, <1>2 DEF Append, Lifecycle!lifecycleVars
<1>3. CASE VersionFree(b.pay, b.version)
  <2> DEFINE p == b.pay
             v == b.version
             e == b.emit
  <2>1. log' = Recorded(p, v, e) /\ UNCHANGED granted
    BY <1>0, <1>3 DEF Append
  <2>2. p \in Payments /\ v \in Nat /\ e \in EventTypes
    BY <1>1 DEF HandlerOK, PendingOK, GrantOK, Handlers, EventTypes, GrantEvent
  <2>3. Successor(v, e, p)
    BY <1>1, <1>3, PendingIsSuccessor
  <2>3a. PriceStep(p, v, e, b.amount)
    BY <1>0, <1>3, <2>2, <2>3, PriceSaved
  <2>4. /\ DOMAIN log'[p] = DOMAIN log[p] \cup {v} /\ log'[p][v] = e
        /\ \A w \in DOMAIN log[p] : log'[p][w] = log[p][w]
        /\ \A q \in Payments \ {p} : log'[q] = log[q]
        /\ \A w \in DOMAIN log[p] : w < v
    BY <1>3, <2>1, <2>2, <2>3, <2>3a, AppendLegal DEF PriceStep
  <2>5. Replay(log[p]) = StatusBy(p)
    BY <2>2, ReplayIs
  <2>6. Replay(log'[p]) = StatusBy(p)'
    BY <2>2, ReplayIsNext
  <2>7. \A f : Occurs(f, p)' <=> (Occurs(f, p) \/ f = e)
    BY <2>4 DEF Occurs
  <2>8. \A w \in DOMAIN log[p] : log[p][w] = "PaymentCancelled" => w > 2
    BY <2>2 DEF IInv, LegalHistory, Contiguous
  <2>9. v <= 2 => ~Occurs("PaymentCancelled", p)
    BY <2>2, <2>4, <2>8 DEF Occurs, IInv, Contiguous
  <2>10. CASE v = 1 /\ DOMAIN log[p] = {} /\ e = "PaymentRequested"
    <3>1. StatusBy(p) = "NONE"
      BY <2>10 DEF StatusBy
    <3>2. StatusBy(p)' = "READY"
      BY <2>4, <2>7, <2>9, <2>10 DEF StatusBy
    <3> QED
      BY <2>1, <2>2, <2>3a, <2>4, <2>5, <2>6, <2>10, <3>1, <3>2, MapMove
      DEF Lifecycle!Next, Lifecycle!Request, PriceStep
  <2>11. CASE v = 2 /\ 1 \in DOMAIN log[p] /\ e \in {"PaymentApproved", "PaymentFailed"}
    <3>1. StatusBy(p) = "READY"
      BY <1>3, <2>9, <2>11 DEF StatusBy, VersionFree
    <3>2. StatusBy(p)' = StatusAfter[e]
      BY <2>4, <2>7, <2>9, <2>11 DEF StatusBy
    <3>3. StatusAfter[e] = IF e = "PaymentApproved" THEN "PAID" ELSE "FAILED"
      BY <2>11 DEF StatusAfter
    <3> QED
      <4>1. CASE e = "PaymentApproved"
        <5>1. Lifecycle!Move(p, "READY", "PAID")
          BY <2>1, <2>2, <2>4, <2>5, <2>6, <3>1, <3>2, <3>3, <4>1, MapMove
        <5>2. Lifecycle!Approve(p)
          BY <2>2, <2>3a, <5>1, MapSold DEF Lifecycle!Approve, PriceStep
        <5> QED
          BY <2>2, <5>2 DEF Lifecycle!Next
      <4>2. CASE e = "PaymentFailed"
        BY <2>1, <2>2, <2>3a, <2>4, <2>5, <2>6, <3>1, <3>2, <3>3, <4>2, MapMove
        DEF Lifecycle!Next, Lifecycle!Fail, PriceStep
      <4> QED
        BY <2>11, <4>1, <4>2
  <2>12. CASE Next3(v, e, p) /\ e = "PaymentCancelled"
    <3>0. 1 \in DOMAIN log[p] /\ 2 \in DOMAIN log[p] /\ log[p][2] = "PaymentApproved"
      BY <2>2, <2>12 DEF Next3, Approved, IInv, Contiguous
    <3>1. StatusBy(p) = "PAID"
      BY <2>12, <3>0 DEF StatusBy, Next3, StatusAfter
    <3>2. StatusBy(p)' = "CANCELLED"
      BY <2>4, <2>7, <2>12, <3>0 DEF StatusBy
    <3> QED
      BY <2>1, <2>2, <2>3a, <2>4, <2>5, <2>6, <2>12, <3>1, <3>2, MapMove
      DEF Lifecycle!Next, Lifecycle!Cancel, PriceStep
  <2>13. CASE Next3(v, e, p) /\ e # "PaymentCancelled"
    <3>0. 1 \in DOMAIN log[p] /\ 2 \in DOMAIN log[p]
      BY <2>2, <2>13 DEF Next3, Approved, IInv, Contiguous
    <3>1. StatusBy(p)' = StatusBy(p)
      BY <2>4, <2>7, <2>13, <3>0 DEF StatusBy
    <3>3. e # "PaymentApproved"
      BY <2>13 DEF Next3, GrantEvent
    <3>2. \A q \in Payments : Replay(log'[q]) = Replay(log[q])
      BY <2>4, <2>5, <2>6, <3>1
    <3> QED
      BY <2>1, <2>3a, <2>13, <3>2, <3>3 DEF Lifecycle!lifecycleVars, PriceStep
  <2> QED
    BY <2>3, <2>10, <2>11, <2>12, <2>13 DEF Successor
<1> QED
  BY <1>2, <1>3

\* The grant is the entitlement of an approved payment.
LEMMA GrantRefines ==
  ASSUME IInv, NEW r \in Requests, GrantWrite(r)
  PROVE  Lifecycle!Next
<1>0. PICK b : b = req[r]
  OBVIOUS
<1>1. HandlerOK(b) /\ b.pc = "grant_write"
  BY <1>0 DEF IInv, HandlersOK, GrantWrite, At
<1>2. /\ b.pay \in Payments /\ granted[b.pay] = 0 /\ Approved(b.pay)
      /\ price[b.pay] \in Products
  BY <1>1 DEF HandlerOK, Sells
<1>3. Replay(log[b.pay]) \in {"PAID", "CANCELLED"}
  <2>1. 1 \in DOMAIN log[b.pay]
    BY <1>2 DEF Approved, IInv, Contiguous
  <2>2. StatusBy(b.pay) \in {"PAID", "CANCELLED"}
    BY <1>2, <2>1 DEF Approved, StatusBy, StatusAfter
  <2> QED
    BY <1>2, <2>2, ReplayIs
<1>4. granted' = [granted EXCEPT ![b.pay] = 1] /\ log' = log /\ price' = price
  <2>1. granted[b.pay] + 1 = 1
    BY <1>2
  <2> QED
    BY <1>0, <2>1 DEF GrantWrite
<1> QED
  BY <1>2, <1>3, <1>4 DEF Lifecycle!Next, Lifecycle!Entitle

\* The event-sourced handlers implement the life cycle of a payment: every step is
\* a request, an approval, a failure, a cancellation, an entitlement or a stutter.
THEOREM HandlersRefineLifecycle == Spec => RefinesLifecycle
<1>1. Init => Lifecycle!Init
  <2>1. NoAmount \notin Products
    BY PaymentAssumption DEF Amounts
  <2> SUFFICES ASSUME Init PROVE Lifecycle!Init
    OBVIOUS
  <2>2. {p \in Payments : price[p] \in Products} = {}
    BY <2>1 DEF Init
  <2>3. [p \in Payments |-> Replay(log[p])] = [p \in Payments |-> "NONE"]
    BY DEF Init, Replay
  <2>4. granted = [p \in Payments |-> 0]
    BY DEF Init
  <2> QED
    BY <2>2, <2>3, <2>4 DEF Lifecycle!Init
<1>2. IInv /\ IInv' /\ [Next]_vars => [Lifecycle!Next]_(Lifecycle!lifecycleVars)
  <2>1. SUFFICES ASSUME IInv, IInv', [Next]_vars
                 PROVE  Lifecycle!Next \/ UNCHANGED Lifecycle!lifecycleVars
    OBVIOUS
  <2>2. CASE UNCHANGED <<log, price, granted>>
    BY <2>2 DEF Lifecycle!lifecycleVars
  <2>3. ASSUME NEW r \in Requests, Append(r, "save_event", "save_projection")
        PROVE Lifecycle!Next \/ UNCHANGED Lifecycle!lifecycleVars
    BY <2>1, <2>3, AppendRefines
  <2>4. ASSUME NEW r \in Requests, Append(r, "grant_event", "grant_write")
        PROVE Lifecycle!Next \/ UNCHANGED Lifecycle!lifecycleVars
    BY <2>1, <2>4, AppendRefines
  <2>5. ASSUME NEW r \in Requests, Arrive(r) \/ Abort(r) PROVE UNCHANGED <<log, price, granted>>
    BY <2>5 DEF Arrive, Ready, ConfirmPayment, FailPayment, CancelPayment, Abort
  <2>6. ASSUME NEW r \in Requests, Proceed(r)
        PROVE Lifecycle!Next \/ UNCHANGED Lifecycle!lifecycleVars
    <3>1. CASE GatewayConfirm(r) \/ GatewayCancel(r) \/ SaveProjection(r) \/ GrantLoad(r)
      <4>1. UNCHANGED <<log, price, granted>>
        BY <3>1 DEF GatewayConfirm, GatewayCancel, SaveProjection, GrantLoad
      <4> QED
        BY <2>2, <4>1
    <3>2. CASE SaveEvent(r) \/ SaveGrantEvent(r)
      BY <2>3, <2>4, <3>2 DEF SaveEvent, SaveGrantEvent
    <3>3. CASE GrantWrite(r)
      BY <2>1, <3>3, GrantRefines
    <3> QED
      BY <2>6, <3>1, <3>2, <3>3 DEF Proceed
  <2>7. ASSUME NEW p \in Payments, ClientPays(p) PROVE UNCHANGED <<log, price, granted>>
    BY <2>7 DEF ClientPays
  <2>8. CASE UNCHANGED vars
    BY <2>2, <2>8 DEF vars
  <2> QED
    BY <2>1, <2>2, <2>5, <2>6, <2>7, <2>8 DEF Next
<1> QED
  BY <1>1, <1>2, Invariance, PTL DEF Spec, RefinesLifecycle, Lifecycle!Safe

-----------------------------------------------------------------------------
(* No approval loses its grant while handlers do not die. *)

\* A handler moves on and leaves logs, projections and grants alone.
LEMMA DeliveryMove ==
  \A r \in Requests, a \in Handlers :
    /\ IInv /\ DeliveryInv /\ req' = [req EXCEPT ![r] = a]
    /\ UNCHANGED <<log, proj, price, granted>>
    /\ \A p \in Payments : proj[p] # "NONE" => orderOf'[p] = orderOf[p]
    /\ Approving(a) => proj[a.pay] # "NONE"
    /\ Granting(req[r]) /\ ~TestMode => Granting(a) /\ a.pay = req[r].pay
    => DeliveryInv'
<1> SUFFICES ASSUME NEW r \in Requests, NEW a \in Handlers, IInv, DeliveryInv,
                    req' = [req EXCEPT ![r] = a], UNCHANGED <<log, proj, price, granted>>,
                    \A p \in Payments : proj[p] # "NONE" => orderOf'[p] = orderOf[p],
                    Approving(a) => proj[a.pay] # "NONE",
                    Granting(req[r]) /\ ~TestMode => Granting(a) /\ a.pay = req[r].pay
             PROVE  DeliveryInv'
  OBVIOUS
<1>1. \A s \in Requests : req'[s] = IF s = r THEN a ELSE req[s]
  BY DEF IInv, Typed
<1>2. OneRowPerOrder'
  BY DEF DeliveryInv, OneRowPerOrder
<1>3. ShownFirst'
  BY <1>1 DEF DeliveryInv, ShownFirst, Approved, Approving
<1>4. ASSUME ~TestMode, NEW p \in Payments, OnItsWay(p) PROVE OnItsWay(p)'
  BY <1>1, <1>4 DEF OnItsWay, Granting
<1>5. NoGrantLost'
  BY <1>4 DEF DeliveryInv, NoGrantLost, Approved, Occurs
<1> QED
  BY <1>2, <1>3, <1>5 DEF DeliveryInv

\* A handler that does not hold a grant throws or returns.
LEMMA DeliveryFinish ==
  ASSUME IInv, DeliveryInv, NEW r \in Requests, Finish(r), TestMode \/ ~Granting(req[r]),
         UNCHANGED <<log, proj, price, granted, orderOf>>
  PROVE  DeliveryInv'
<1>1. Idle \in Handlers /\ ~Approving(Idle)
  BY IdleOK DEF Approving, Idle
<1> QED
  BY <1>1, DeliveryMove DEF Finish

LEMMA DeliveryArrive ==
  ASSUME IInv, DeliveryInv, NEW r \in Requests, Arrive(r) PROVE DeliveryInv'
<1>1. req[r].pc = "idle" /\ ~Granting(req[r]) /\ UNCHANGED <<log, proj, price, granted>>
  BY DEF Arrive, Ready, ConfirmPayment, FailPayment, CancelPayment, At, Granting
<1>2. ASSUME NEW p \in Payments, NEW o \in Orders, Ready(r, p, o) PROVE DeliveryInv'
  <2>1. PICK b, a : b = [Idle EXCEPT !.pay = p] /\ a = Applied(b, "PaymentRequested")
    OBVIOUS
  <2>2. b \in Handlers
    BY <2>1, IdleOK DEF Idle, Handlers
  <2>3. a \in Handlers /\ ~Approving(a)
    BY <2>1, <2>2, AppliedIs DEF Approving, StatusEvents
  <2>4. \A q \in Payments : proj[q] # "NONE" => orderOf'[q] = orderOf[q]
    BY <1>2 DEF Ready, IInv, Typed, FreshUntouched
  <2> QED
    BY <1>1, <1>2, <2>1, <2>3, <2>4, DeliveryMove DEF Ready
<1>3. ASSUME NEW p \in Payments, proj[p] # "NONE",
             NEW amount \in Amounts, ConfirmPayment(r, p, amount)
      PROVE  DeliveryInv'
  <2>1. PICK b, a : /\ b = Rebuilt(p, "ask_confirm")
                    /\ a = [b EXCEPT !.amount = amount]
    OBVIOUS
  <2>2a. b \in Handlers /\ b.pay = p
    BY <1>3, <2>1, Projected, RebuiltOK DEF Pcs, Rebuilt
  <2>2. a \in Handlers /\ a.pay = p
    BY <2>1, <2>2a DEF Handlers
  <2> QED
    BY <1>1, <1>3, <2>1, <2>2, DeliveryMove DEF ConfirmPayment
<1>4. ASSUME NEW p \in Payments, proj[p] # "NONE", FailPayment(r, p) PROVE DeliveryInv'
  <2>1. PICK b, a : b = Rebuilt(p, "idle") /\ a = Applied(b, "PaymentFailed")
    OBVIOUS
  <2>2. b \in Handlers
    BY <1>4, <2>1, Projected, RebuiltOK DEF Pcs
  <2>3. a \in Handlers /\ ~Approving(a)
    BY <2>1, <2>2, AppliedIs DEF Approving, StatusEvents
  <2> QED
    BY <1>1, <1>4, <2>1, <2>3, DeliveryMove DEF FailPayment
<1>5. ASSUME NEW p \in Payments, CancelPayment(r, p) PROVE DeliveryInv'
  <2>1. PICK a : a = Rebuilt(p, "ask_cancel")
    OBVIOUS
  <2>2. a \in Handlers /\ ~Approving(a)
    BY <1>5, <2>1, Projected, RebuiltOK DEF Pcs, Rebuilt, Approving, CancelPayment
  <2> QED
    BY <1>1, <1>5, <2>1, <2>2, DeliveryMove DEF CancelPayment
<1> QED
  BY <1>2, <1>3, <1>4, <1>5 DEF Arrive, FoundByOrder

\* A verdict is for the payment the handler found by its projection.
LEMMA DeliveryGateway ==
  ASSUME IInv, DeliveryInv, NEW r \in Requests, GatewayConfirm(r) \/ GatewayCancel(r)
  PROVE  DeliveryInv'
<1>1. PICK b : b = req[r]
  OBVIOUS
<1>2. /\ b \in Handlers /\ b.pc \in {"ask_confirm", "ask_cancel"} /\ ~Granting(b)
      /\ UNCHANGED <<log, proj, price, granted, orderOf>>
  BY <1>1 DEF GatewayConfirm, GatewayCancel, At, IInv, Typed, Granting
<1>3. PICK e \in StatusEvents :
        /\ Finish(r) \/ req' = [req EXCEPT ![r] = Applied(b, e)]
        /\ e = "PaymentApproved" => b.pc = "ask_confirm"
  <2>1. CASE GatewayConfirm(r)
    <3>1. PICK e \in {"PaymentApproved", "PaymentFailed"} : Emit(r, "READY", e)
      BY <2>1 DEF GatewayConfirm, Verdict
    <3>2. Finish(r) \/ req' = [req EXCEPT ![r] = Applied(b, e)]
      BY <1>1, <3>1 DEF Emit, Finish
    <3>3. b.pc = "ask_confirm"
      BY <1>1, <2>1 DEF GatewayConfirm, At
    <3> QED
      BY <3>1, <3>2, <3>3 DEF StatusEvents
  <2>2. CASE GatewayCancel(r)
    <3>1. Finish(r) \/ Emit(r, "PAID", "PaymentCancelled")
      BY <2>2 DEF GatewayCancel
    <3>2. Finish(r) \/ req' = [req EXCEPT ![r] = Applied(b, "PaymentCancelled")]
      BY <1>1, <3>1 DEF Emit, Finish
    <3> QED
      BY <3>2 DEF StatusEvents
  <2> QED
    BY <2>1, <2>2
<1>4. CASE Finish(r)
  BY <1>1, <1>2, <1>4, DeliveryFinish
<1>5. CASE req' = [req EXCEPT ![r] = Applied(b, e)]
  <2>1. PICK a : a = Applied(b, e)
    OBVIOUS
  <2>2. a \in Handlers /\ a.pc = "save_event" /\ a.pay = b.pay /\ a.emit = e
    BY <1>2, <2>1, AppliedIs
  <2>3. Approving(a) => proj[a.pay] # "NONE"
    BY <1>1, <1>3, <2>2 DEF Approving, DeliveryInv, ShownFirst
  <2> QED
    BY <1>1, <1>2, <1>5, <2>1, <2>2, <2>3, DeliveryMove
<1> QED
  BY <1>3, <1>4, <1>5

\* Whoever takes the version of a grant is a cancellation.
LEMMA DeliveryAppend ==
  ASSUME IInv, DeliveryInv, NEW r \in Requests, NEW from, NEW next, Append(r, from, next),
         \/ from = "save_event" /\ next = "save_projection"
         \/ from = "grant_event" /\ next = "grant_write"
  PROVE  DeliveryInv'
<1>0. PICK b, c : b = req[r] /\ c = [b EXCEPT !.pc = next]
  OBVIOUS
<1>1. b \in Handlers /\ HandlerOK(b) /\ b.pc = from /\ UNCHANGED <<orderOf, proj, granted>>
  BY <1>0 DEF IInv, Typed, HandlersOK, Append, At
<1> DEFINE p == b.pay
           v == b.version
           e == b.emit
<1>2. CASE ~VersionFree(p, v)
  <2>1. Finish(r) /\ UNCHANGED <<log, price>>
    BY <1>0, <1>2 DEF Append
  <2>2. CASE from = "save_event"
    BY <1>0, <1>1, <2>1, <2>2, DeliveryFinish DEF Granting
  <2>3. CASE from = "grant_event"
    <3>1. GrantOK(b) /\ p \in Payments /\ v \in DOMAIN log[p]
      BY <1>1, <1>2, <2>3 DEF HandlerOK, VersionFree
    <3>2. log[p][v] = "PaymentCancelled"
      BY <1>1, <3>1 DEF GrantOK, NotYetGranted, Occurs, IInv, LegalHistory, Handlers
    <3>3. Occurs("PaymentCancelled", p)
      BY <3>1, <3>2 DEF Occurs
    <3>4. \A s \in Requests : req'[s] = IF s = r THEN Idle ELSE req[s]
      BY <2>1 DEF Finish, IInv, Typed
    <3>5. \A q \in Payments : OnItsWay(q) /\ q # p => OnItsWay(q)'
      BY <1>0, <3>4 DEF OnItsWay
    <3>6. NoGrantLost'
      BY <1>1, <2>1, <3>3, <3>5 DEF DeliveryInv, NoGrantLost, Approved, Occurs
    <3>7. OneRowPerOrder' /\ ShownFirst'
      BY <1>1, <2>1, <3>4 DEF DeliveryInv, OneRowPerOrder, ShownFirst, Approved, Approving, Idle
    <3> QED
      BY <3>6, <3>7 DEF DeliveryInv
  <2> QED
    BY <2>2, <2>3
<1>3. CASE VersionFree(p, v)
  <2>1. log' = Recorded(p, v, e) /\ req' = [req EXCEPT ![r] = c]
    BY <1>0, <1>3 DEF Append, Goto
  <2>2. p \in Payments /\ v \in Nat /\ e \in EventTypes
    BY <1>1 DEF HandlerOK, PendingOK, GrantOK, Handlers, EventTypes, GrantEvent
  <2>3. Successor(v, e, p)
    BY <1>1, <1>3, PendingIsSuccessor
  <2>3a. PriceStep(p, v, e, b.amount)
    BY <1>0, <1>3, <2>2, <2>3, PriceSaved
  <2>4. /\ DOMAIN log'[p] = DOMAIN log[p] \cup {v} /\ log'[p][v] = e
        /\ \A w \in DOMAIN log[p] : log'[p][w] = log[p][w]
        /\ \A q \in Payments \ {p} : log'[q] = log[q]
    BY <1>3, <2>1, <2>2, <2>3, <2>3a, AppendLegal DEF PriceStep
  <2>5. c.pc = next /\ c.pay = p /\ c.emit = e
    BY <1>0, <1>1 DEF Handlers
  <2>6. \A s \in Requests : req'[s] = IF s = r THEN c ELSE req[s]
    BY <2>1 DEF IInv, Typed
  <2>7. \A q \in Payments :
          Approved(q)' => Approved(q) \/ (q = p /\ v = 2 /\ e = "PaymentApproved")
    BY <2>2, <2>4 DEF Approved
  <2>8. e = "PaymentApproved" => from = "save_event"
    BY <1>1 DEF HandlerOK, GrantOK, GrantEvent
  <2>9. ShownFirst'
    <3>1. e = "PaymentApproved" => proj[p] # "NONE"
      BY <1>0, <1>1, <2>8 DEF DeliveryInv, ShownFirst, Approving
    <3>2. \A s \in Requests : Approving(req'[s]) => req'[s] = req[s]
      BY <2>5, <2>6 DEF Approving
    <3> QED
      BY <1>1, <2>7, <3>1, <3>2 DEF DeliveryInv, ShownFirst, Approving
  <2>10. NoGrantLost'
    <3> SUFFICES ASSUME ~TestMode, NEW q \in Payments, Approved(q)',
                        price'[q] \in Products, ~Occurs("PaymentCancelled", q)'
                 PROVE  granted'[q] = 1 \/ OnItsWay(q)'
      BY DEF NoGrantLost
    <3>1. CASE Approved(q)
      <4>1. ~Occurs("PaymentCancelled", q)
        BY <2>4 DEF Occurs
      <4>1a. price[q] \in Products
        BY <1>3, <2>3a, <3>1 DEF PriceStep, Approved, VersionFree
      <4>2. granted[q] = 1 \/ OnItsWay(q)
        BY <3>1, <4>1, <4>1a DEF DeliveryInv, NoGrantLost
      <4>3. Granting(b) => Granting(c)
        BY <1>1, <2>5 DEF Granting
      <4>4. ASSUME OnItsWay(q) PROVE OnItsWay(q)'
        <5>1. PICK s \in Requests : Granting(req[s]) /\ req[s].pay = q
          BY <4>4 DEF OnItsWay
        <5>2. CASE s = r
          <6>1. Granting(c) /\ c.pay = q
            BY <1>0, <2>5, <4>3, <5>1, <5>2
          <6>2. req'[s] = c
            BY <2>6, <5>2
          <6> QED
            BY <6>1, <6>2 DEF OnItsWay, Granting
        <5>3. CASE s # r
          <6>1. req'[s] = req[s]
            BY <2>6, <5>3
          <6> QED
            BY <5>1, <6>1 DEF OnItsWay, Granting
        <5> QED
          BY <5>2, <5>3
      <4> QED
        BY <1>1, <4>2, <4>4
    <3>2. CASE ~Approved(q)
      <4>1. q = p /\ from = "save_event" /\ e = "PaymentApproved"
        BY <2>7, <2>8, <3>2
      <4>2. Granting(c)
        BY <2>5, <4>1 DEF Granting
      <4>3. req'[r] = c
        BY <2>6
      <4> QED
        BY <2>5, <4>1, <4>2, <4>3 DEF OnItsWay, Granting
    <3> QED
      BY <3>1, <3>2
  <2>11. OneRowPerOrder'
    BY <1>1 DEF DeliveryInv, OneRowPerOrder
  <2> QED
    BY <2>9, <2>10, <2>11 DEF DeliveryInv
<1> QED
  BY <1>2, <1>3

\* An approval finds its own row under its order id, so it is not refused.
LEMMA DeliverySave ==
  ASSUME IInv, DeliveryInv, NEW r \in Requests, SaveProjection(r) PROVE DeliveryInv'
<1>0. PICK b : b = req[r]
  OBVIOUS
<1>1. /\ b \in Handlers /\ HandlerOK(b) /\ b.pc = "save_projection"
      /\ UNCHANGED <<log, orderOf, price, granted>>
  BY <1>0 DEF IInv, Typed, HandlersOK, SaveProjection, At
<1> DEFINE p == b.pay
<1>2. p \in Payments /\ RecordedOK(b)
  BY <1>1 DEF HandlerOK
<1>3. CASE OrderTaken(p)
  <2>1. Finish(r) /\ UNCHANGED proj
    BY <1>0, <1>3 DEF SaveProjection
  <2>2. proj[p] = "NONE"
    BY <1>2, <1>3 DEF OrderTaken, FoundByOrder, DeliveryInv, OneRowPerOrder
  <2>3. ~Granting(b)
    BY <1>1, <1>2, <2>2 DEF Granting, RecordedOK, DeliveryInv, ShownFirst
  <2> QED
    BY <1>0, <1>1, <2>1, <2>3, DeliveryFinish
<1>4. CASE ~OrderTaken(p)
  <2>1. proj' = [proj EXCEPT ![p] = b.status]
    BY <1>0, <1>4 DEF SaveProjection
  <2>2. b.status # "NONE"
    BY <1>2 DEF RecordedOK, StatusEvents, StatusAfter
  <2>3. \A q \in Payments : proj'[q] = IF q = p THEN b.status ELSE proj[q]
    BY <1>2, <2>1 DEF IInv, Typed
  <2>4. OneRowPerOrder'
    <3>1. \A q \in Payments : q # p /\ proj[q] # "NONE" => orderOf[q] # orderOf[p]
      BY <1>4 DEF OrderTaken, FoundByOrder
    <3> QED
      BY <1>1, <2>3, <3>1 DEF DeliveryInv, OneRowPerOrder
  <2>5. PICK c \in Handlers :
          /\ req' = [req EXCEPT ![r] = c]
          /\ \/ c = Idle /\ (TestMode \/ b.emit # "PaymentApproved" \/ b.amount \notin Products)
             \/ c.pc = "grant_load" /\ c.pay = p
    <3>1. CASE IsGranted(b)
      <4>1. PICK d : d = [b EXCEPT !.pc = "grant_load"]
        OBVIOUS
      <4>2. d \in Handlers /\ d.pc = "grant_load" /\ d.pay = p
        BY <1>1, <4>1 DEF Handlers, Pcs
      <4> QED
        BY <1>0, <1>4, <3>1, <4>1, <4>2 DEF SaveProjection, Goto
    <3>2. CASE ~IsGranted(b)
      BY <1>0, <1>4, <3>2, IdleOK DEF SaveProjection, Finish, IsGranted
    <3> QED
      BY <3>1, <3>2
  <2>6. \A s \in Requests : req'[s] = IF s = r THEN c ELSE req[s]
    BY <2>5 DEF IInv, Typed
  <2>7. ShownFirst'
    <3>1. ~Approving(c)
      BY <2>5 DEF Approving, Idle
    <3>2. \A s \in Requests : Approving(req'[s]) => req'[s] = req[s]
      BY <2>6, <3>1
    <3>3. \A q \in Payments : proj[q] # "NONE" => proj'[q] # "NONE"
      BY <2>2, <2>3
    <3>4. \A s \in Requests : Approving(req[s]) => req[s].pay \in Payments
      BY DEF Approving, IInv, HandlersOK, HandlerOK
    <3>5. \A q \in Payments : Approved(q)' => proj'[q] # "NONE"
      BY <1>1, <3>3 DEF DeliveryInv, ShownFirst, Approved
    <3>6. \A s \in Requests : Approving(req'[s]) => proj'[req'[s].pay] # "NONE"
      BY <3>2, <3>3, <3>4 DEF DeliveryInv, ShownFirst
    <3> QED
      BY <3>5, <3>6 DEF ShownFirst, Approving
  <2>8. NoGrantLost'
    <3> SUFFICES ASSUME ~TestMode, NEW q \in Payments, Approved(q)',
                        price'[q] \in Products, ~Occurs("PaymentCancelled", q)'
                 PROVE  granted'[q] = 1 \/ OnItsWay(q)'
      BY DEF NoGrantLost
    <3>1. granted[q] = 1 \/ OnItsWay(q)
      BY <1>1 DEF DeliveryInv, NoGrantLost, Approved, Occurs
    <3>2. Granting(b) => b.amount = price[p]
      BY <1>1, <1>2 DEF Granting, RecordedOK
    <3>3. Granting(b) /\ p = q => Granting(c) /\ c.pay = p
      BY <1>1, <2>5, <3>2 DEF Granting
    <3>4. OnItsWay(q) => OnItsWay(q)'
      BY <1>0, <2>6, <3>3 DEF OnItsWay, Granting
    <3> QED
      BY <1>1, <3>1, <3>4
  <2> QED
    BY <2>4, <2>7, <2>8 DEF DeliveryInv
<1> QED
  BY <1>3, <1>4

LEMMA DeliveryGrantLoad ==
  ASSUME IInv, DeliveryInv, NEW r \in Requests, GrantLoad(r) PROVE DeliveryInv'
<1>1. IInv'
  BY GrantLoadStep
<1>2. PICK a : a = req'[r]
  OBVIOUS
<1>3. /\ req' = [req EXCEPT ![r] = a] /\ a.pc = "grant_event" /\ a.pay = req[r].pay
      /\ UNCHANGED <<log, proj, price, granted, orderOf>>
  BY <1>2 DEF GrantLoad, IInv, Typed
<1>4. a \in Handlers
  BY <1>1, <1>2 DEF IInv, Typed
<1> QED
  BY <1>3, <1>4, DeliveryMove DEF Approving, Granting

LEMMA DeliveryGrant ==
  ASSUME IInv, DeliveryInv, NEW r \in Requests, GrantWrite(r) PROVE DeliveryInv'
<1>0. PICK b : b = req[r]
  OBVIOUS
<1>1. /\ b.pay \in Payments /\ granted[b.pay] = 0
      /\ UNCHANGED <<log, orderOf, proj, price>>
  BY <1>0 DEF GrantWrite, At, IInv, HandlersOK, HandlerOK
<1>2. \A q \in Payments : granted'[q] = IF q = b.pay THEN 1 ELSE granted[q]
  BY <1>0, <1>1 DEF GrantWrite, IInv, Typed
<1>3. \A s \in Requests : req'[s] = IF s = r THEN Idle ELSE req[s]
  BY DEF GrantWrite, Finish, IInv, Typed
<1>4. \A q \in Payments : OnItsWay(q) /\ q # b.pay => OnItsWay(q)'
  BY <1>0, <1>3 DEF OnItsWay
<1>5. NoGrantLost'
  BY <1>1, <1>2, <1>4 DEF DeliveryInv, NoGrantLost, Approved, Occurs
<1>6. OneRowPerOrder' /\ ShownFirst'
  BY <1>1, <1>3 DEF DeliveryInv, OneRowPerOrder, ShownFirst, Approved, Approving, Idle
<1> QED
  BY <1>5, <1>6 DEF DeliveryInv

LEMMA DeliveryNext ==
  ASSUME ~MayAbort, IInv, DeliveryInv, [Next]_vars PROVE DeliveryInv'
<1>1. ASSUME NEW r \in Requests, Proceed(r) PROVE DeliveryInv'
  <2>1. CASE GatewayConfirm(r) \/ GatewayCancel(r)
    BY <2>1, DeliveryGateway
  <2>2. CASE SaveEvent(r) \/ SaveGrantEvent(r)
    BY <2>2, DeliveryAppend DEF SaveEvent, SaveGrantEvent
  <2>3. CASE SaveProjection(r) \/ GrantLoad(r) \/ GrantWrite(r)
    BY <2>3, DeliverySave, DeliveryGrantLoad, DeliveryGrant
  <2> QED
    BY <1>1, <2>1, <2>2, <2>3 DEF Proceed
<1>2. CASE UNCHANGED <<log, orderOf, proj, price, granted, req>>
  BY <1>2 DEF DeliveryInv, OneRowPerOrder, ShownFirst, NoGrantLost, Approved, Occurs, OnItsWay
<1>3. ASSUME NEW r \in Requests, Abort(r) PROVE FALSE
  BY <1>3 DEF Abort
<1> QED
  BY <1>1, <1>2, <1>3, DeliveryArrive DEF Next, ClientPays, vars

\* While handlers do not die, a payment approved for the price of a product that is
\* not cancelled and that no handler works on any more has been granted, and one
\* approved for any other amount has not (confirmPayment's branches on the amount).
THEOREM ApprovalsAreGranted ==
  ASSUME ~MayAbort PROVE Spec => []PaidIsGranted
<1>1. Init => DeliveryInv
  <2> SUFFICES ASSUME Init PROVE DeliveryInv
    OBVIOUS
  <2>1. \A p \in Payments : DOMAIN log[p] = {} /\ proj[p] = "NONE"
    BY DEF Init
  <2>2. \A r \in Requests : ~Approving(req[r])
    BY DEF Init, Approving, Idle
  <2> QED
    BY <2>1, <2>2 DEF DeliveryInv, OneRowPerOrder, ShownFirst, NoGrantLost, Approved
<1>2. IInv /\ DeliveryInv /\ [Next]_vars => DeliveryInv'
  BY DeliveryNext
<1>3. IInv /\ DeliveryInv => PaidIsGranted
  <2> SUFFICES ASSUME IInv, DeliveryInv, NEW p \in Payments,
                      Replay(log[p]) = "PAID", ~InFlight(p), ~TestMode
               PROVE  granted[p] = (IF price[p] \in Products THEN 1 ELSE 0)
    BY DEF PaidIsGranted
  <2>1. StatusBy(p) = "PAID"
    BY ReplayIs
  <2>2. Approved(p) /\ ~Occurs("PaymentCancelled", p)
    BY <2>1 DEF StatusBy, Approved, StatusAfter, IInv, LegalHistory
  <2>3. ~OnItsWay(p)
    BY DEF InFlight, OnItsWay
  <2>4. price[p] \in Products => granted[p] = 1
    BY <2>2, <2>3 DEF DeliveryInv, NoGrantLost
  <2>5. price[p] \notin Products => granted[p] = 0
    BY DEF IInv, Granted
  <2> QED
    BY <2>4, <2>5
<1> QED
  BY <1>1, <1>2, <1>3, Invariance, PTL DEF Spec
=============================================================================
