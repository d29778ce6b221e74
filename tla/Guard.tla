-------------------------------- MODULE Guard --------------------------------
(***************************************************************************)
(* IpAccessGuard, which judges every request, for one visitor id: what it  *)
(* reads from Redis and from the tables, what it caches, and the requests  *)
(* that change what it reads (registration, first inquiry, block and       *)
(* unblock by a manager, expiry of the cached entries, DELETE /redis).     *)
(*                                                                         *)
(* A manager is let in by a one-time code and then, for an hour, by the    *)
(* session that code has opened.  Tokens, cookies and the digits of codes  *)
(* are left out: a request carries the visitor id it claims.               *)
(***************************************************************************)
EXTENDS Requests

CONSTANT Ips      \* the addresses requests come from

ASSUME GuardAssumption == {"missing", "0.0.0.0"} \cap Ips = {}

VARIABLES
  row,        \* the visitor's row: there or not, and its address
  block,      \* the visitor's Block row
  blocked,    \* Redis user-blocked:id
  savedIp,    \* Redis user-ip:id
  session,    \* Redis manager:session:code, the session a manager's code opened
  verdict     \* the last calm request judged

guardVars == <<row, block, blocked, savedIp, session, verdict>>

Missing == "missing"      \* no row, no entry
Unbound == "0.0.0.0"      \* InfraUserMapper's address of a row without one

Active == {"forever", "hours"}
IsBlocked == block \in Active

GuardInit == /\ row \in {Missing, Unbound}
             /\ block = "none"
             /\ blocked = Missing
             /\ savedIp = Missing
             /\ session = FALSE
             /\ verdict = [ip |-> Missing, pass |-> TRUE]

Judged(ip, pass) == verdict' = IF calm THEN [ip |-> ip, pass |-> pass] ELSE verdict
\* A request the guard has let in so far; `cached' and `saved' are what it has read.
Guarded(op, ip, e, cached, saved) ==
  [op |-> op, ip |-> ip, errand |-> e, cached |-> cached, saved |-> saved]

\* It goes on to the step op with what it has read.
GoesOn(s, op, cached, saved) ==
  Then(s, Guarded(op, task[s].ip, task[s].errand, cached, saved))

Refused(s) == Judged(task[s].ip, FALSE) /\ Ends(s)

Errands == {"visit", "register", "inquire"}

\* What follows when the guard lets the request through.
Admitted(s) == /\ Judged(task[s].ip, TRUE)
               /\ IF task[s].errand = "visit"
                    THEN Ends(s)
                    ELSE GoesOn(s, task[s].errand, task[s].cached, task[s].saved)

----------------------------------------------------------------------------
\* canActivate, one await at a time.

Enters(s) ==
  /\ Arrives(s)
  /\ \E ip \in Ips, e \in Errands :
       IF blocked = "true"
         THEN Judged(ip, FALSE) /\ UNCHANGED task
         ELSE /\ Then(s, Guarded("address", ip, e, blocked, Missing))
              /\ UNCHANGED verdict
  /\ UNCHANGED <<row, block, blocked, savedIp, session>>

NeedsLookup_AddressOnly(saved, cached) == saved = Missing
NeedsLookup(saved, cached) == saved = Missing \/ cached = Missing

ReadsAddress(s) ==
  /\ At(s, "address")
  /\ GoesOn(s, IF NeedsLookup(savedIp, task[s].cached) THEN "lookup" ELSE "judge",
            task[s].cached, savedIp)
  /\ UNCHANGED guardVars

FindsUser(s) ==
  /\ At(s, "lookup")
  /\ IF row = Missing THEN GoesOn(s, "judge", task[s].cached, task[s].saved)
                      ELSE GoesOn(s, "block", task[s].cached, row)
  /\ UNCHANGED guardVars

FindsBlock(s) ==
  /\ At(s, "block")
  /\ GoesOn(s, "remember", IF IsBlocked THEN "true" ELSE "false", task[s].saved)
  /\ UNCHANGED guardVars

Remembers(s) ==
  /\ At(s, "remember")
  /\ blocked' = task[s].cached
  /\ GoesOn(s, "judge", task[s].cached, task[s].saved)
  /\ UNCHANGED <<row, block, savedIp, session, verdict>>

Judges(s) ==
  /\ At(s, "judge")
  /\ LET t == task[s] IN
       CASE t.cached = "true" -> Refused(s)
         [] t.cached # "true" /\ t.saved = Unbound ->
              GoesOn(s, "bind", t.cached, t.saved) /\ UNCHANGED verdict
         [] t.cached # "true" /\ t.saved \in {Missing, t.ip} -> Admitted(s)
         [] OTHER -> Refused(s)
  /\ UNCHANGED <<row, block, blocked, savedIp, session>>

Binds(s) ==
  /\ At(s, "bind")
  /\ row' = task[s].ip
  /\ GoesOn(s, "note", task[s].cached, task[s].saved)
  /\ UNCHANGED <<block, blocked, savedIp, session, verdict>>

Notes(s) ==
  /\ At(s, "note")
  /\ savedIp' = task[s].ip
  /\ Admitted(s)
  /\ UNCHANGED <<row, block, blocked, session>>

----------------------------------------------------------------------------
\* Requests behind the guard that write what it reads.

\* Registration notes the address first; the insert throws when there is a row.
RegisterNotes(s) ==
  /\ At(s, "register")
  /\ savedIp' = task[s].ip
  /\ GoesOn(s, "insert", task[s].cached, task[s].saved)
  /\ UNCHANGED <<row, block, blocked, session, verdict>>

RegisterInserts(s) ==
  /\ At(s, "insert")
  /\ row' = IF row = Missing THEN task[s].ip ELSE row
  /\ Ends(s)
  /\ UNCHANGED <<block, blocked, savedIp, session, verdict>>

\* The first inquiry of a visitor without a row creates one.
Inquires(s) ==
  /\ At(s, "inquire")
  /\ row' = IF row = Missing THEN task[s].ip ELSE row
  /\ Ends(s)
  /\ UNCHANGED <<block, blocked, savedIp, session, verdict>>

----------------------------------------------------------------------------
\* The manager, let in by validateMasterKey: a code that is right for the
\* moment (within a step of thirty seconds) opens a session for an hour.

EntersCode == /\ ~session
              /\ session' = TRUE
              /\ Outside
              /\ UNCHANGED <<row, block, blocked, savedIp, verdict>>

BlockUser(s) ==
  /\ Arrives(s)
  /\ session
  /\ row # Missing
  /\ \E b \in Active : block' = b
  /\ Then(s, [op |-> "cache", value |-> "true"])
  /\ UNCHANGED <<row, blocked, savedIp, session, verdict>>

UnblockUser(s) ==
  /\ Arrives(s)
  /\ session
  /\ row # Missing
  /\ block' = "none"
  /\ Then(s, [op |-> "cache", value |-> "false"])
  /\ UNCHANGED <<row, blocked, savedIp, session, verdict>>

CachesBlock(s) ==
  /\ At(s, "cache")
  /\ blocked' = task[s].value
  /\ Ends(s)
  /\ UNCHANGED <<row, block, savedIp, session, verdict>>

\* Everything in Redis is dropped, the manager's session too.
ResetCurrentDatabase(s) ==
  /\ Arrives(s)
  /\ session
  /\ blocked' = Missing /\ savedIp' = Missing /\ session' = FALSE
  /\ UNCHANGED <<row, block, verdict, task>>

----------------------------------------------------------------------------
\* Time.

\* Some hours pass, not while a calm request is served.
BlockLapses == /\ block = "hours"
               /\ calm => AllFree
               /\ block' = "over"
               /\ Outside
               /\ UNCHANGED <<row, blocked, savedIp, session, verdict>>

\* The entries a cached verdict lives in have a time to live of seven days.
Lives_WithoutEnd(v) == v = "false"
Lives(v) == v # Missing

BlockedExpires == /\ Lives(blocked)
                  /\ blocked' = Missing
                  /\ Outside
                  /\ UNCHANGED <<row, block, savedIp, session, verdict>>

AddressExpires == /\ savedIp # Missing
                  /\ savedIp' = Missing
                  /\ Outside
                  /\ UNCHANGED <<row, block, blocked, session, verdict>>

SessionExpires == /\ session
                  /\ session' = FALSE
                  /\ Outside
                  /\ UNCHANGED <<row, block, blocked, savedIp, verdict>>

----------------------------------------------------------------------------
GuardStep(s) ==
  \/ Enters(s) \/ ReadsAddress(s) \/ FindsUser(s) \/ FindsBlock(s)
  \/ Remembers(s) \/ Judges(s) \/ Binds(s) \/ Notes(s)
  \/ RegisterNotes(s) \/ RegisterInserts(s) \/ Inquires(s)
  \/ BlockUser(s) \/ UnblockUser(s) \/ CachesBlock(s) \/ ResetCurrentDatabase(s)

GuardNext ==
  /\ part = "guard"
  /\ \/ \E s \in Slots : GuardStep(s)
     \/ BlockLapses \/ BlockedExpires \/ AddressExpires 
     \/ EntersCode \/ SessionExpires

GuardFairness == WF_<<requestVars, guardVars>>(part = "guard" /\ BlockedExpires)

----------------------------------------------------------------------------
\* Rows, cached entries and verdicts have their types.
GuardTypeOK == /\ row \in Ips \cup {Missing, Unbound}
               /\ block \in Active \cup {"none", "over"}
               /\ blocked \in {Missing, "true", "false"}
               /\ savedIp \in Ips \cup {Missing}

\* One request after the other, the guard judges by what is true and not by
\* what it cached: it admits nobody whose block is in force or whose row has
\* another address, and it refuses only those, and for up to seven days the
\* visitor whose block of some hours has run out in the meantime.
VerdictIsRight ==
  [][calm /\ verdict' # verdict =>
       IF verdict'.pass
         THEN ~IsBlocked /\ row' \in {Missing, verdict'.ip}
         ELSE \/ IsBlocked
              \/ row \notin {Missing, Unbound, verdict'.ip}
              \/ block = "over" /\ blocked = "true"]_<<requestVars, guardVars>>

\* Whatever requests overlap, a visitor who is not blocked any more is not
\* taken for a blocked one for ever.
FreedInTheEnd == ~IsBlocked ~> (IsBlocked \/ blocked # "true")
=============================================================================
