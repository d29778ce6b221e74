------------------------------ MODULE Requests ------------------------------
(***************************************************************************)
(* Request handlers of the web server, as the modules of its parts use     *)
(* them.  A handler runs from one await to the next; between two awaits    *)
(* other handlers run.  A slot holds one handler at a time: the name of    *)
(* its request, of the step it is at, and what it has read so far.         *)
(*                                                                         *)
(* The parts of the site that share no state are explored one at a time:   *)
(* a behaviour is about one part.  A calm behaviour serves one request     *)
(* after the other, in any other one requests overlap.                     *)
(***************************************************************************)
EXTENDS Naturals, FiniteSets

CONSTANTS
  Parts,        \* the parts of the site this instance explores
  Slots,        \* handlers that can be in flight at the same time
  MaxOps,       \* bound, by part: requests in a calm behaviour
  MaxOverlaps   \* bound, by part: requests in an overlapping behaviour

ASSUME RequestsAssumption == /\ MaxOps \in [Parts -> Nat]
                             /\ MaxOverlaps \in [Parts -> Nat]
                             /\ Slots # {} /\ IsFiniteSet(Slots)

VARIABLES
  part,    \* the part this behaviour is about
  calm,    \* whether requests wait for each other
  task,    \* the handler in each slot
  begun    \* requests served or in flight

requestVars == <<part, calm, task, begun>>

Nothing == [op |-> "nothing"]

IsFree(s) == task[s] = Nothing

AllFree == \A s \in Slots : IsFree(s)

RequestsInit == /\ part \in Parts
                /\ calm \in BOOLEAN
                /\ task = [s \in Slots |-> Nothing]
                /\ begun = 0

\* The server takes one more request; calm ones all use the same slot.
Arrives(s) == /\ IsFree(s)
              /\ calm => s = CHOOSE x \in Slots : TRUE
              /\ begun < IF calm THEN MaxOps[part] ELSE MaxOverlaps[part]
              /\ begun' = begun + 1
              /\ UNCHANGED <<part, calm>>

\* The handler in slot s is at a step and runs to its next await.
At(s, op) == /\ task[s].op = op
             /\ UNCHANGED <<part, calm, begun>>

Then(s, t) == task' = [task EXCEPT ![s] = t]

Ends(s) == Then(s, Nothing)

\* Time passes, or somebody outside acts; no handler moves.
Outside == UNCHANGED requestVars
=============================================================================
