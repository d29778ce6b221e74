---------------------------- MODULE HonInvariant ----------------------------
(***************************************************************************)
(* The inductive invariants of HonLedger.  IInv holds however operations   *)
(* overlap, fail and crash.  Books, next to it, is what holds in addition  *)
(* when one operation runs at a time and none fails.                       *)
(***************************************************************************)
EXTENDS HonLedger

Covers(k, h) == h.free <= k.free /\ h.paid <= k.paid

NotNegative(h) == h.free >= 0 /\ h.paid >= 0

\* A running handler works for users that exist, with an amount its operation
\* may have, and lists nobody but users for the rest of its bulk.
Employed(a) ==
  a.pc # "idle" =>
    /\ a.user \in users /\ a.todo \subseteq users
    /\ a.op \in Ops
    /\ a.pc = "create" <=> a.op = "open"
    /\ a.op = "open" => a.todo = {}
    /\ a.op # "provision" => a.amount >= 0

\* The balance a handler builds on is one the user has had, and, when it takes
\* HON, one that suffices.
Informed(a) ==
  a.pc \in {"save", "event"} =>
    /\ NotNegative(a.was)
    /\ Covers(credited[a.user], a.was)
    /\ ~Short(a.op, a.amount, a.was)

Handlers == \A t \in Tasks : Employed(task[t]) /\ Informed(task[t])

Daily == job.pc = "commit" => job.event \in DailyEvents

IInv == TypeOK /\ Handlers /\ Daily /\ Solvent /\ Backed

-----------------------------------------------------------------------------
(* One operation at a time, none of them failing. *)

Alone == /\ \A s, t \in Tasks : task[s].pc # "idle" /\ task[t].pc # "idle" => s = t
         /\ job.pc # "idle" => \A t \in Tasks : task[t].pc = "idle"

\* A user without a balance row has nothing and no events.
Blank == \A u \in Users \ rows : hon[u] = Purse(0, 0) /\ book[u] = NoEvent /\ opening[u] = 0

\* The balance the events of u explain.
Explained(u) == Purse(opening[u] + book[u].free, book[u].paid)

\* The handler between saveHon and saveHonEvent owes u an event.
Owes(u) == \E t \in Tasks : task[t].pc = "event" /\ task[t].user = u

Exact(u) == /\ hon[u] = Explained(u)
            /\ book[u].by \notin {"none", "provision"} => book[u].balance = Total(hon[u])

Settled == \A u \in Users : ~Owes(u) => Exact(u)

\* What a handler has read is still so, and what it has written is there.
Current == \A t \in Tasks :
  LET a == task[t] IN
    /\ a.pc = "save" => a.was = hon[a.user]
    /\ a.pc = "event" => /\ a.user \in rows
                         /\ a.was = Explained(a.user)
                         /\ hon[a.user] = After(a)

DailyCurrent == job.pc = "commit" => job.read = hon /\ job.seen = Eligible(job.event)

BooksInv == Alone /\ Blank /\ Settled /\ Current /\ DailyCurrent
=============================================================================
