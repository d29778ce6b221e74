------------------------------- MODULE Access -------------------------------
(***************************************************************************)
(* Who gets into the site: the accounts of AuthService and the guard every *)
(* request passes.  The two share no state (the guard judges the id a      *)
(* request claims, not its tokens), so a behaviour is about one of them.   *)
(***************************************************************************)
EXTENDS Account, Guard

Init == RequestsInit /\ AccountInit /\ GuardInit

Next == \/ AccountNext /\ UNCHANGED guardVars
        \/ GuardNext /\ UNCHANGED accountVars

vars == <<requestVars, accountVars, guardVars>>

Spec == Init /\ [][Next]_vars /\ GuardFairness

\* Type correctness of both parts.
TypeOK == AccountTypeOK /\ GuardTypeOK
=============================================================================
