----------------------------- MODULE MapSequence -----------------------------
(***************************************************************************)
(* What ASDataController promises of its two maps: the maps are made one    *)
(* after the other, and the view goes through all of them in that order.    *)
(* It may not skip one, since a batch update tells it the difference from   *)
(* the map before.                                                          *)
(***************************************************************************)
EXTENDS Naturals

VARIABLES pendingMap, visibleMap  \* the numbers of the maps

maps == <<pendingMap, visibleMap>>

Init == pendingMap = 0 /\ visibleMap = 0

(* updateWithChangeSet: makes a map ...                                     *)
Make == pendingMap' = pendingMap + 1 /\ UNCHANGED visibleMap

(* ... that the view shows later.                                           *)
Show ==
  /\ visibleMap < pendingMap
  /\ visibleMap' = visibleMap + 1
  /\ UNCHANGED pendingMap

(* A relayout and clearData make a map that the view shows at once.         *)
Replace ==
  /\ visibleMap = pendingMap
  /\ pendingMap' = pendingMap + 1 /\ visibleMap' = pendingMap + 1

Next == Make \/ Show \/ Replace

Spec == Init /\ [][Next]_maps
=============================================================================
