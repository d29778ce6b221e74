------------------------------ MODULE MCAccess ------------------------------
(* Access on a small instance: two rows, an address to sign up with, two   *)
(* addresses to come from, two requests at a time.                         *)
EXTENDS AccessInvariant

CalmOps == [logins |-> 8, accounts |-> 8, guard |-> 5]
OverlappingOps == [logins |-> 7, accounts |-> 6, guard |-> 4]
=============================================================================
