--------------------------- MODULE OperationGroup ---------------------------
(***************************************************************************)
(* What ASAsyncTransactionQueue promises a transaction: the operations of a *)
(* group run in any order, each exactly once, and the block given to        *)
(* notify() is dispatched when all of them have run, not before and not     *)
(* later.  ASAsyncTransactionQueue implements this module, and the module   *)
(* ASAsyncTransaction is written on top of it.                              *)
(***************************************************************************)
EXTENDS Integers

CONSTANTS Op, Group

VARIABLES
  owner,     \* the group each operation is for, unknown until it is scheduled
  phase,     \* idle, scheduled, executed, done
  held,      \* how many enter() calls wait for their leave()
  notified   \* of the block given to notify(): none, armed, fired

groupVars == <<owner, phase, held, notified>>

GInit == /\ owner \in [Op -> Group]
         /\ phase = [o \in Op |-> "idle"]
         /\ held = [g \in Group |-> 0]
         /\ notified = [g \in Group |-> "none"]

Settled(g) == /\ held[g] = 0
              /\ \A o \in Op : owner[o] = g => phase[o] \in {"idle", "done"}

(* The notify block is dispatched by the step that settles the group. *)
FireIfSettled(g) ==
  notified' = [notified EXCEPT ![g] = IF @ = "armed" /\ Settled(g)' THEN "fired" ELSE @]

Submit(o) == /\ phase[o] = "idle" /\ notified[owner[o]] = "none"
             /\ phase' = [phase EXCEPT ![o] = "scheduled"]
             /\ UNCHANGED <<owner, held, notified>>

Arm(g) == /\ notified[g] = "none"
          /\ notified' = [notified EXCEPT ![g] = IF Settled(g) THEN "fired" ELSE "armed"]
          /\ UNCHANGED <<owner, phase, held>>

Execute(o) == /\ phase[o] = "scheduled"
              /\ phase' = [phase EXCEPT ![o] = "executed"]
              /\ UNCHANGED <<owner, held, notified>>

Finish(o) == /\ phase[o] = "executed"
             /\ phase' = [phase EXCEPT ![o] = "done"]
             /\ UNCHANGED <<owner, held>>
             /\ FireIfSettled(owner[o])

Hold(g) == /\ held' = [held EXCEPT ![g] = @ + 1]
           /\ UNCHANGED <<owner, phase, notified>>

Unhold(g) == /\ held[g] > 0
             /\ held' = [held EXCEPT ![g] = @ - 1]
             /\ UNCHANGED <<owner, phase>>
             /\ FireIfSettled(g)

GNext == \/ \E o \in Op : Submit(o) \/ Execute(o) \/ Finish(o)
         \/ \E g \in Group : Arm(g) \/ Hold(g) \/ Unhold(g)

GSpec == GInit /\ [][GNext]_groupVars
GFairSpec == GSpec /\ \A o \in Op : WF_groupVars(Execute(o)) /\ WF_groupVars(Finish(o))
=============================================================================
