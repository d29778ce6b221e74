-------------------------- MODULE RefundInvariant --------------------------
(***************************************************************************)
(* What is true between any two steps of Refund, strong enough to be       *)
(* preserved by each of them: IInv however requests overlap and fail,      *)
(* CalmInv when they come one at a time, BackedInv when in addition the    *)
(* user never had a plan, PlainInv when moreover no payment was cancelled  *)
(* directly.                                                               *)
(***************************************************************************)
EXTENDS Refund

\* What a request in flight knows of what is stored: payments and the inquiry it
\* holds are there, a cancellation to record has its money given back, an amount is
\* one that is owed.
RequestOK(a) ==
    /\ a.queue \subseteq DOMAIN pays
    /\ a.i # 0 => a.i \in DOMAIN inq
    /\ a.at = "insertPayment" => a.amount \in HonAmounts \cup PlanAmounts
    /\ a.at = "propose" => a.queue # {}
    /\ a.at \in {"propose", "list", "cancel", "saveCancel", "deduct", "settle"} => a.i # 0
    /\ a.at = "record" => a.queue # {} /\ pays[Latest(a.queue)].back > 0
    /\ a.at = "saveCancel" => /\ a.queue # {} /\ pays[Latest(a.queue)].back > 0
                              /\ 0 < a.amount /\ a.amount <= a.owed

PaysOK == /\ Len(pays) <= MaxPays
          /\ \A p \in DOMAIN pays : pays[p].amount \in HonAmounts \cup PlanAmounts

PaidBack == \A p \in DOMAIN pays : pays[p].status = "CANCELLED" => pays[p].back > 0

IInv == /\ TypeOK /\ PaysOK /\ PaidBack
        /\ \A t \in Tasks : RequestOK(task[t])
        /\ Active => Subscribed

-----------------------------------------------------------------------------
(* One request after the other.                                            *)

Alone == \A t, u \in Tasks : task[t] # Idle /\ task[u] # Idle => t = u

Sold == {p \in DOMAIN pays : pays[p].status # "READY"}

\* What the request in flight has read is still so: the balance, and payments that
\* stand and of which nothing has gone back but for the one just cancelled.
Fresh(a) ==
    /\ a.at = "record" => Latest(a.queue) \in Sold
    /\ a.at = "list" => a.purse = hon
    /\ a.at \in {"cancel", "saveCancel"} => a.queue \subseteq Paid
    /\ a.at \in {"cancel", "saveCancel", "deduct"} => a.take <= hon.paid
    /\ a.at = "write" /\ a.i = 0 => a.purse.paid <= hon.paid

Recording(p) == \E t \in Tasks : task[t].at \in {"saveCancel", "record"} /\ Current(t) = p

CalmInv == calm => /\ Alone
                   /\ \A t \in Tasks : Fresh(task[t])
                   /\ \A p \in DOMAIN pays : pays[p].back > 0 =>
                        pays[p].status = "CANCELLED" \/ Recording(p)

-----------------------------------------------------------------------------
(* A user without a plan.                                                  *)

Moves(a) == a.at \in {"cancel", "saveCancel", "deduct"} \/ (a.at = "write" /\ a.i # 0)

\* Payments whose HON the user may hold.
Held == Paid \cup Lost

\* What a confirmation on its way leaves the user of paid HON is that of payments
\* cancelled directly; and of those is the one whose cancellation is to be recorded.
Leaves(a) ==
    /\ a.at \in {"cancel", "saveCancel", "deduct"} => hon.paid - a.take <= Charged(Lost)
    /\ a.at = "write" /\ a.i # 0 => a.purse.paid <= Charged(Lost)
    /\ a.at = "record" => a.queue \subseteq direct

BackedInv ==
    calm /\ ~Subscribed =>
        /\ direct \subseteq Sold
        /\ \A t \in Tasks : Leaves(task[t])
        /\ (\A t \in Tasks : ~Moves(task[t])) => hon.paid <= Charged(Held)

-----------------------------------------------------------------------------
(* ... and without a direct cancellation.                                  *)

\* A confirmation on its way takes back all paid HON, and what it still owes is
\* covered.
Takes(a) ==
    /\ a.at \in {"cancel", "saveCancel", "deduct"} => a.take = hon.paid
    /\ a.at = "write" /\ a.i # 0 => a.purse.paid = 0
    /\ a.at = "cancel" => 10 * (GivenBack + a.owed) <= 9 * Worth(Sold)
    /\ a.at = "saveCancel" => 10 * (GivenBack + a.owed - a.amount) <= 9 * Worth(Sold)

\* Between refunds paid HON is backed, and what another refund of all that stands
\* would add to what has gone back stays within nine tenths of what was sold: the
\* payments a refund leaves behind cost more for their used HON than they are worth.
Balanced == /\ hon.paid <= Charged(Paid)
            /\ 10 * GivenBack + 9 * Worth(Paid) - 500 * (Charged(Paid) - hon.paid)
                  <= 9 * Worth(Sold)

PlainInv ==
    calm /\ ~Subscribed /\ direct = {} =>
        /\ \A t \in Tasks : Takes(task[t])
        /\ 10 * GivenBack <= 9 * Worth(Sold)
        /\ (\A t \in Tasks : ~Moves(task[t])) => Balanced
=============================================================================
