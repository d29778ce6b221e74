-------------------------- MODULE PaymentLifecycle --------------------------
(***************************************************************************)
(* What the payment service promises about one payment, with no handlers,  *)
(* no event store and no gateway: the status a payment may move through    *)
(* (READY, then PAID or FAILED, and CANCELLED only after PAID), whether it *)
(* was approved for the price of a product, and that product, handed over  *)
(* at most once and for nothing less.  Payment refines this specification. *)
(***************************************************************************)
EXTENDS Naturals

CONSTANT Payments   \* the identities a payment may get

VARIABLES status,   \* the status of each payment, "NONE" before it is requested
          sold,     \* the payments approved for the price of a product
          entitled  \* how often the product of a payment was handed over

lifecycleVars == <<status, sold, entitled>>

Statuses == {"NONE", "READY", "PAID", "FAILED", "CANCELLED"}

Init == /\ status = [p \in Payments |-> "NONE"]
        /\ sold = {}
        /\ entitled = [p \in Payments |-> 0]

Move(p, from, to) == /\ status[p] = from
                     /\ status' = [status EXCEPT ![p] = to]
                     /\ UNCHANGED entitled

Unpriced(p, from, to) == Move(p, from, to) /\ UNCHANGED sold

Request(p) == Unpriced(p, "NONE", "READY")
Fail(p)    == Unpriced(p, "READY", "FAILED")
Cancel(p)  == Unpriced(p, "PAID", "CANCELLED")

\* Nothing asks for the amount to be a product's when it is approved.
Approve(p) == /\ Move(p, "READY", "PAID")
              /\ sold' \in {sold \cup {p}, sold \ {p}}

\* The product may still be handed over while a cancellation overtakes it.
Entitle(p) == /\ status[p] \in {"PAID", "CANCELLED"}
              /\ p \in sold /\ entitled[p] = 0
              /\ entitled' = [entitled EXCEPT ![p] = 1]
              /\ UNCHANGED <<status, sold>>

Next == \E p \in Payments :
          Request(p) \/ Approve(p) \/ Fail(p) \/ Cancel(p) \/ Entitle(p)

Safe == Init /\ [][Next]_lifecycleVars

\* The product of a payment that stays paid is eventually handed over.
Delivery == \A p \in Payments :
              WF_lifecycleVars(status[p] = "PAID" /\ Entitle(p))

Spec == Safe /\ Delivery
=============================================================================
