---------------------------- MODULE RecursiveLock ----------------------------
(***************************************************************************)
(* What a recursive lock promises (ASRecursiveUnfairLock.h): a thread may   *)
(* take a lock again that it has, and no other may take it before each      *)
(* taking was undone.                                                       *)
(***************************************************************************)
EXTENDS Naturals

CONSTANTS Thread, Lock

VARIABLE holds  \* how often each thread has taken each lock

Init == holds = [t \in Thread |-> [l \in Lock |-> 0]]

(* ASRecursiveUnfairLockLock, or TryLock when it returns YES.               *)
Take(t, l) ==
  /\ \A u \in Thread \ {t} : holds[u][l] = 0
  /\ holds' = [holds EXCEPT ![t][l] = @ + 1]

(* ASRecursiveUnfairLockUnlock.                                             *)
Undo(t, l) ==
  /\ holds[t][l] > 0
  /\ holds' = [holds EXCEPT ![t][l] = @ - 1]

Next == \E t \in Thread, l \in Lock : Take(t, l) \/ Undo(t, l)

Spec == Init /\ [][Next]_holds
=============================================================================
