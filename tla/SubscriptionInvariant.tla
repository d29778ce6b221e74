----------------------- MODULE SubscriptionInvariant -----------------------
(***************************************************************************)
(* What holds between the awaits of a request and of the renewal job, and  *)
(* makes the safety properties of Subscription inductive.                  *)
(***************************************************************************)
EXTENDS Subscription

\* The job is between the gateway's answer and its last call for job.user.
Working == job.pc \in {"record", "renew", "expire"}

\* The users the job has listed and is not through with.
Pending == job.todo \cup (IF Working THEN {job.user} ELSE {})

-----------------------------------------------------------------------------
(* Whatever overlaps or fails. *)

\* A handler that works, works for a user, and has a subscription to write back.
HandlersOK ==
  /\ Working => job.user \in Users
  /\ \A u \in Pending : job.list[u].plan # "NONE"
  /\ \A t \in Tasks : task[t].pc = "save" => task[t].user \in Users /\ task[t].save.plan # "NONE"

\* The job is ahead of its books by the user it works for, and by nobody else.
BooksOK ==
  \A u \in Users :
    /\ renewed[u] + (IF job.pc = "renew" /\ job.user = u THEN 1 ELSE 0) <= recorded[u]
    /\ recorded[u] + (IF job.pc = "record" /\ job.user = u THEN 1 ELSE 0) <= captured[u]

\* Rows, and the copies handlers hold of them, have one date.
DatesOK == /\ \A u \in Users : sub[u].next = sub[u].ends /\ job.list[u].next = job.list[u].ends
           /\ \A t \in Tasks : task[t].save.next = task[t].save.ends

IInv == TypeOK /\ HandlersOK /\ BooksOK /\ DatesOK

-----------------------------------------------------------------------------
(* When requests and the job run one at a time. *)

Alone == /\ \A t1, t2 \in Tasks : task[t1].pc = "save" /\ task[t2].pc = "save" => t1 = t2
         /\ job.pc \notin {"idle", "due"} => NoTasks
         /\ job.pc \in {"idle", "due"} => job.todo = {}

\* What the job has listed and not dealt with is still so.
ListIsFresh == /\ \A u \in Pending : job.list[u] = sub[u] /\ IsDue(sub[u])
               /\ Working => job.user \notin job.todo

\* Who has cancelled is not on any list.
StoppedIsInactive == \A u \in Users : stopped[u] => sub[u].status # "ACTIVE"

\* What is not a new period is the row as it is, but for its status.
WritesBack == \A t \in Tasks : /\ task[t].pc = "save"
                               /\ task[t].save.status # "ACTIVE"
                               => task[t].save.ends = sub[task[t].user].ends

SerialInv == Alone /\ ListIsFresh /\ StoppedIsInactive /\ WritesBack

-----------------------------------------------------------------------------
(* When, besides, nothing fails. *)

\* Before the job of the day is through with it, a period may have ended since
\* yesterday's job; afterwards it ends today or later.
Lasts(s) == s.ends > midnight

LastedYesterday(s) == s.ends + Day > midnight

UpToDate ==
  /\ \A u \in Users : sub[u].status = "ACTIVE" =>
       IF job.pc = "due" \/ u \in Pending THEN LastedYesterday(sub[u]) ELSE Lasts(sub[u])
  /\ \A t \in Tasks : task[t].pc = "save" /\ task[t].save.status = "ACTIVE" =>
       IF job.pc = "due" THEN LastedYesterday(task[t].save) ELSE Lasts(task[t].save)

\* The books lack the renewal that is being recorded, and no other.
Recorded == \A u \in Users :
  captured[u] = recorded[u] + (IF job.pc = "record" /\ job.user = u THEN 1 ELSE 0)
=============================================================================
