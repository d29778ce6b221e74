---------------------------- MODULE MCCommunity ----------------------------
(* Community on a small instance: two of everything that can be confused,  *)
(* two requests at a time.                                                 *)
EXTENDS CommunityInvariant

CalmOps == [board |-> 4, attachments |-> 6, words |-> 6]
OverlappingOps == [board |-> 4, attachments |-> 6, words |-> 4]
=============================================================================
