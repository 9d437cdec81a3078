----------------------------- MODULE ASIntegerMap -----------------------------
(***************************************************************************)
(* ASIntegerMap.mm: where the indexes of a list are after an update that    *)
(* deletes some of the old ones and inserts some new ones. Lists are        *)
(* numbered from 1, and NotFound stands for NSNotFound.                     *)
(***************************************************************************)
EXTENDS Integers, SequencesExt

CONSTANT MaxIndex \* no index is greater

NotFound == 0

identityMap == [i \in 1 .. MaxIndex |-> i]
emptyMap == <<>>

(* shiftIndexesStartingAtIndex:by: of NSMutableIndexSet. A range is shifted *)
(* index by index: what is shifted to the left overwrites what was there.   *)
shiftLeft(indexes, d) ==
  {i \in indexes : i < d} \cup {i - 1 : i \in {j \in indexes : j > d}}

shiftRight(indexes, k) ==
  {i \in indexes : i < k} \cup {i + 1 : i \in {j \in indexes : j >= k}}

(* Op for one index after the other, from the last to the first or from the *)
(* first to the last.                                                       *)
inDescending(Op(_, _), base, indexes) ==
  MapThenFoldSet(LAMBDA i, x : Op(x, i), base, LAMBDA i : i, Min, indexes)

inAscending(Op(_, _), base, indexes) ==
  MapThenFoldSet(LAMBDA i, x : Op(x, i), base, LAMBDA i : i, Max, indexes)

shiftAllLeft(indexes, deletions) == inDescending(shiftLeft, indexes, deletions)

(* Mutated: the insertions are taken in descending order, too.              *)
shiftAllRightBackwards(indexes, insertions) == inDescending(shiftRight, indexes, insertions)

shiftAllRight(indexes, insertions) == inAscending(shiftRight, indexes, insertions)

newIndexes(oldCount, deletions, insertions) ==
  shiftAllRight(shiftAllLeft(1 .. oldCount, deletions), insertions)

position(i, indexes) == Cardinality({j \in indexes : j <= i})

(* The next old index that is not deleted gets the next new index.          *)
mapForUpdate(oldCount, deletions, insertions) ==
  IF oldCount = 0 THEN emptyMap
  ELSE IF deletions = {} /\ insertions = {} THEN identityMap
  ELSE LET old == (1 .. oldCount) \ deletions
           new == newIndexes(oldCount, deletions, insertions)
       IN  [i \in old |-> CHOOSE j \in new : position(j, new) = position(i, old)]

integerForKey(map, key) == IF key \in DOMAIN map THEN map[key] ELSE NotFound

inverseMap(map) == AntiFunction(map)
=============================================================================
