------------------------- MODULE ASHierarchyChangeSet -------------------------
(***************************************************************************)
(* _ASHierarchyChangeSet.mm: what the application says it has done to its   *)
(* data between beginUpdates and endUpdates, validated against the counts   *)
(* of the data source before and after, and applied by ASDataController.mm  *)
(* to the map of sections and elements. Indexes begin with 1; an index path *)
(* is <<section, item>>. Of an element, the model keeps for which path it   *)
(* was made, before or in this update, and the node it has from before: an  *)
(* old path. Builds with assertions are modelled, in which whatever is      *)
(* wrong raises an exception and the application ends.                      *)
(***************************************************************************)
EXTENDS ASIntegerMap

CONSTANTS
  MaxSections, MaxItems, \* bounds on the data
  MaxChanges,            \* bound on the changes of a set
  Repeats,               \* a set may change the same item twice in one way
  UpdatesAfterClear      \* the application may go on without reloadData when
                         \* data source and delegate were nil for a while

ASSUME ChangeSetBounds ==
  /\ MaxSections \in Nat /\ MaxItems \in Nat /\ MaxChanges \in Nat
  /\ MaxIndex \in Nat /\ MaxIndex >= MaxSections /\ MaxIndex >= MaxItems
ASSUME EnvironmentAssumption == Repeats \in BOOLEAN /\ UpdatesAfterClear \in BOOLEAN

Change == {"delete", "insert", "reload"}
Section == 1 .. MaxSections
Path == Section \X (1 .. MaxItems)
Counts == UNION {[1 .. n -> 0 .. MaxItems] : n \in 0 .. MaxSections}

VARIABLES
  phase,           \* "none", "open", "changed" (the data), "applied" or "raised"
  oldItemCounts, newItemCounts,
  items,           \* the index paths of each kind of change
  sections,        \* the sections of each kind of change
  includesReloadData,
  sectionMapping,  \* from old to new sections
  itemMappings,    \* of each old section
  itemCounts,      \* _itemCountsFromDataSource
  countsAreValid,  \* _itemCountsFromDataSourceAreValid
  loadedOnce,      \* _initialReloadDataHasBeenCalled
  elementMap       \* its sections, their items and one header of each

mappingVars == <<sectionMapping, itemMappings>>
changeVars == <<oldItemCounts, newItemCounts, items, sections, includesReloadData, mappingVars>>
cacheVars == <<itemCounts, countsAreValid>>
countVars == <<oldItemCounts, newItemCounts, itemCounts, countsAreValid>>
changeSetVars == <<phase, changeVars, cacheVars, loadedOnce, elementMap>>

NoPath == <<NotFound, NotFound>>
oldElement(p) == [path |-> p, new |-> FALSE, node |-> p]
oldSection(s) == [section |-> s, new |-> FALSE]
newSection(t) == [section |-> t, new |-> TRUE]

emptyElementMap == [sections |-> <<>>, items |-> <<>>, headers |-> <<>>]
NoItems == [c \in Change |-> EmptyBag]
NoSections == [c \in Change |-> {}]

ChangeSetInit ==
  /\ phase = "none" /\ oldItemCounts = <<>> /\ newItemCounts = <<>>
  /\ items = NoItems /\ sections = NoSections /\ includesReloadData = FALSE
  /\ sectionMapping = emptyMap /\ itemMappings = <<>>
  /\ itemCounts = <<>> /\ countsAreValid = FALSE
  /\ loadedOnce = FALSE /\ elementMap = emptyElementMap

-----------------------------------------------------------------------------
(* The mappings are made from the changes as the application gave them,     *)
(* without the deletes and inserts that reloads will be turned into.        *)
in(section, bag) == {p[2] : p \in {q \in DOMAIN bag : q[1] = section}}

makeSectionMapping ==
  sectionMapping' = mapForUpdate(Len(oldItemCounts), sections["delete"], sections["insert"])

makeItemMappings ==
  itemMappings' =
    [s \in IF includesReloadData THEN {} ELSE DOMAIN oldItemCounts |->
       LET t == integerForKey(sectionMapping', s)
       IN  IF t = NotFound THEN emptyMap
           ELSE mapForUpdate(oldItemCounts[s], in(s, items["delete"]), in(t, items["insert"]))]

newSectionForOldSection(s) == integerForKey(sectionMapping, s)
oldSectionForNewSection(t) == integerForKey(inverseMap(sectionMapping), t)

itemMappingInSection(s) == IF s \in DOMAIN itemMappings THEN itemMappings[s] ELSE emptyMap

newIndexPathForOldIndexPath(p) ==
  LET t == newSectionForOldSection(p[1])
      i == integerForKey(itemMappingInSection(p[1]), p[2])
  IN  IF t = NotFound \/ i = NotFound THEN NoPath ELSE <<t, i>>

oldIndexPathForNewIndexPath(p) ==
  LET s == oldSectionForNewSection(p[1])
      j == integerForKey(inverseMap(itemMappingInSection(s)), p[2])
  IN  IF s = NotFound \/ j = NotFound THEN NoPath ELSE <<s, j>>

-----------------------------------------------------------------------------
(* sortAndCoalesceChangeArrays: a reload is a delete and an insert. Changes *)
(* of items in sections that are deleted, inserted or reloaded are ignored. *)
deletedSections == sections["delete"] \cup sections["reload"]
insertedSections ==
  sections["insert"] \cup {newSectionForOldSection(s) : s \in sections["reload"]}

outside(ignored, bag) == Restrict(bag, {p \in DOMAIN bag : p[1] \notin ignored})
moved(bag) ==
  [p \in {newIndexPathForOldIndexPath(q) : q \in DOMAIN bag} |-> bag[oldIndexPathForNewIndexPath(p)]]

deleteItemChanges == outside(deletedSections, items["delete"] (+) items["reload"])
insertItemChanges == outside(insertedSections, items["insert"] (+) moved(items["reload"]))

(* "Request to reload and delete same section", and a change without items: *)
(* calls have one item each, so that a reloaded item that is gone is one.   *)
ReloadsAreLeft ==
  /\ \A s \in sections["reload"] : newSectionForOldSection(s) # NotFound
  /\ \A p \in DOMAIN items["reload"] : newIndexPathForOldIndexPath(p) # NoPath

(* validateUpdate, in its order.                                            *)
SectionsAreRight ==
  /\ Len(newItemCounts)
       = Len(oldItemCounts) + Cardinality(insertedSections) - Cardinality(deletedSections)
  /\ deletedSections \subseteq DOMAIN oldItemCounts
  /\ insertedSections \subseteq DOMAIN newItemCounts

within(bag, counts) == \A p \in DOMAIN bag : p[1] \in DOMAIN counts /\ p[2] <= counts[p[1]]

ItemsOfSectionAreRight(s) ==
  LET t == newSectionForOldSection(s)
  IN  t # NotFound =>
        /\ in(s, items["delete"]) \cap in(s, items["reload"]) = {}
        /\ newItemCounts[t] = oldItemCounts[s] + Cardinality(in(t, items["insert"]))
                                               - Cardinality(in(s, items["delete"]))

(* Mutated: sections that are reloaded have to account for their items.     *)
AllItemsAreRight == \A s \in DOMAIN oldItemCounts : ItemsOfSectionAreRight(s)

ItemsAreRight ==
  \A s \in DOMAIN oldItemCounts \ sections["reload"] : ItemsOfSectionAreRight(s)

UpdateIsValid ==
  /\ ReloadsAreLeft /\ SectionsAreRight
  /\ within(deleteItemChanges, oldItemCounts) /\ within(insertItemChanges, newItemCounts)
  /\ ItemsAreRight

-----------------------------------------------------------------------------
(* A new element may update the node that its path had before.              *)
newElement(previousMap, p) ==
  LET q == oldIndexPathForNewIndexPath(p)
      known == ~includesReloadData /\ q[1] \in DOMAIN previousMap.items
                 /\ q[2] \in DOMAIN previousMap.items[q[1]]
  IN  [path |-> p, new |-> TRUE, node |-> IF known THEN q ELSE NoPath]

elementsOfSection(previousMap, t) ==
  [i \in 1 .. newItemCounts[t] |-> newElement(previousMap, <<t, i>>)]

(* A bag says how often an index is named: those named several times stay.  *)
removeObject(list, i, times) ==
  IF i \in DOMAIN list THEN SubSeq(list, 1, i - 1) \o SubSeq(list, i + times, Len(list)) ELSE list
insertObject(list, i, times, new) ==
  SubSeq(list, 1, i - 1) \o [n \in 1 .. times |-> new] \o SubSeq(list, i, Len(list))

removeObjects(list, bag) ==
  inDescending(LAMBDA l, i : removeObject(l, i, bag[i]), list, DOMAIN bag)
insertObjects(list, bag, new) ==
  inAscending(LAMBDA l, i : insertObject(l, i, bag[i], new[i]), list, DOMAIN bag)

itemsIn(section, bag) == [i \in in(section, bag) |-> bag[<<section, i>>]]

updateItems(previousMap) ==
  LET withoutItems == [s \in DOMAIN previousMap.items |->
        removeObjects(previousMap.items[s], itemsIn(s, deleteItemChanges))]
      withSections == insertObjects(
        removeObjects(withoutItems, SetToBag(deletedSections)), SetToBag(insertedSections),
        [t \in insertedSections |-> elementsOfSection(previousMap, t)])
      newItems(t) == [i \in in(t, insertItemChanges) |-> newElement(previousMap, <<t, i>>)]
  IN  [t \in DOMAIN withSections |->
         insertObjects(withSections[t], itemsIn(t, insertItemChanges), newItems(t))]

updateSections(previousMap) ==
  insertObjects(removeObjects(previousMap.sections, SetToBag(deletedSections)),
                SetToBag(insertedSections), [t \in insertedSections |-> newSection(t)])

(* Headers move with their sections, and those of sections that change are  *)
(* made again.                                                              *)
updateHeaders(previousMap) ==
  LET kept == Restrict(sectionMapping, DOMAIN sectionMapping \cap DOMAIN previousMap.headers)
      changed == insertedSections
        \cup {newSectionForOldSection(p[1]) : p \in DOMAIN deleteItemChanges}
        \cup {p[1] : p \in DOMAIN insertItemChanges}
  IN  [t \in Range(kept) \cup changed |->
         IF t \in changed THEN newSection(t) ELSE previousMap.headers[inverseMap(kept)[t]]]

mapOfNewData(previousMap) ==
  LET all == [t \in DOMAIN newItemCounts |-> newSection(t)]
  IN  [sections |-> all, headers |-> all,
       items |-> [t \in DOMAIN newItemCounts |-> elementsOfSection(previousMap, t)]]

updatedMap(previousMap) ==
  IF includesReloadData THEN mapOfNewData(previousMap)
  ELSE [sections |-> updateSections(previousMap),
        items |-> updateItems(previousMap), headers |-> updateHeaders(previousMap)]

-----------------------------------------------------------------------------
(* What was new in the last update is old in the next.                      *)
Aged(map) ==
  [sections |-> [s \in DOMAIN map.sections |-> oldSection(s)],
   headers |-> [s \in DOMAIN map.headers |-> oldSection(s)],
   items |-> [s \in DOMAIN map.items |-> [i \in DOMAIN map.items[s] |-> oldElement(<<s, i>>)]]]

Closed == phase \in {"none", "applied"}

(* itemCountsFromDataSource asks the data source if the counts are invalid. *)
beginUpdates ==
  /\ Closed /\ phase' = "open"
  /\ \E counts \in IF countsAreValid THEN {itemCounts} ELSE Counts :
       oldItemCounts' = counts /\ itemCounts' = counts
  /\ countsAreValid' = TRUE
  /\ newItemCounts' = <<>> /\ items' = NoItems /\ sections' = NoSections /\ includesReloadData' = FALSE
  /\ sectionMapping' = emptyMap /\ itemMappings' = <<>>
  /\ elementMap' = Aged(elementMap)
  /\ UNCHANGED loadedOnce

NumberOfChanges ==
  LET number(c) == BagCardinality(items[c]) + Cardinality(sections[c])
  IN  number("delete") + number("insert") + number("reload")

Open(n) == phase = "open" /\ NumberOfChanges + n <= MaxChanges
Fresh(c, p) == Repeats \/ ~BagIn(p, items[c])

changeItem(c, p) ==
  /\ Open(1) /\ Fresh(c, p)
  /\ items' = [items EXCEPT ![c] = @ (+) SetToBag({p})]
  /\ UNCHANGED <<phase, countVars, mappingVars, sections, includesReloadData, loadedOnce, elementMap>>

changeSection(c, s) ==
  /\ Open(1)
  /\ sections' = [sections EXCEPT ![c] = @ \cup {s}]
  /\ UNCHANGED <<phase, countVars, mappingVars, items, includesReloadData, loadedOnce, elementMap>>

moveItem(p, q) ==
  /\ Open(2) /\ Fresh("delete", p) /\ Fresh("insert", q)
  /\ items' = [items EXCEPT !["delete"] = @ (+) SetToBag({p}), !["insert"] = @ (+) SetToBag({q})]
  /\ UNCHANGED <<phase, countVars, mappingVars, sections, includesReloadData, loadedOnce, elementMap>>

moveSection(s, t) ==
  /\ Open(2)
  /\ sections' = [sections EXCEPT !["delete"] = @ \cup {s}, !["insert"] = @ \cup {t}]
  /\ UNCHANGED <<phase, countVars, mappingVars, items, includesReloadData, loadedOnce, elementMap>>

reloadData ==
  /\ phase = "open" /\ ~includesReloadData
  /\ includesReloadData' = TRUE
  /\ UNCHANGED <<phase, countVars, mappingVars, items, sections, loadedOnce, elementMap>>

-----------------------------------------------------------------------------
(* endUpdates, with updateWithChangeSet: before the first load, only the    *)
(* completion handler is called.                                            *)
completeUnloaded ==
  /\ phase = "open" /\ ~loadedOnce /\ ~includesReloadData
  /\ phase' = "none"
  /\ UNCHANGED <<changeVars, cacheVars, loadedOnce, elementMap>>

Cleared == elementMap = emptyElementMap /\ oldItemCounts # <<>>

(* The data source has its new data before the update ends, when the set is *)
(* asked for its mappings.                                                  *)
dataChanges ==
  /\ phase = "open" /\ phase' = "changed"
  /\ includesReloadData \/ (loadedOnce /\ (Cleared => UpdatesAfterClear))
  /\ \E counts \in Counts : newItemCounts' = counts
  /\ makeSectionMapping /\ makeItemMappings
  /\ UNCHANGED <<oldItemCounts, items, sections, includesReloadData, cacheVars, loadedOnce, elementMap>>

(* The set is marked completed with the counts of the data source, which    *)
(* are kept, and validated.                                                 *)
markCompleted ==
  /\ phase = "changed"
  /\ itemCounts' = newItemCounts
  /\ UNCHANGED <<changeVars, countsAreValid>>

apply ==
  /\ markCompleted /\ (includesReloadData \/ UpdateIsValid)
  /\ phase' = "applied" /\ loadedOnce' = TRUE
  /\ elementMap' = updatedMap(elementMap)

raise ==
  /\ markCompleted /\ ~includesReloadData /\ ~UpdateIsValid
  /\ phase' = "raised"
  /\ UNCHANGED <<loadedOnce, elementMap>>

(* clearData: the counts stay.                                              *)
clearData ==
  /\ Closed /\ loadedOnce
  /\ phase' = "none" /\ elementMap' = emptyElementMap
  /\ UNCHANGED <<changeVars, cacheVars, loadedOnce>>

ChangeSetNext ==
  \/ beginUpdates \/ reloadData \/ completeUnloaded \/ dataChanges \/ apply \/ raise \/ clearData
  \/ \E c \in Change, p \in Path : changeItem(c, p)
  \/ \E c \in Change, s \in Section : changeSection(c, s)
  \/ \E p, q \in Path : moveItem(p, q)
  \/ \E s, t \in Section : moveSection(s, t)

ChangeSetSpec == ChangeSetInit /\ [][ChangeSetNext]_changeSetVars

-----------------------------------------------------------------------------
(* The reference: the k-th section or item that is left is the k-th that    *)
(* was not inserted.                                                        *)
Matches(s, deleted, t, inserted) ==
  /\ s \notin deleted /\ t \notin inserted
  /\ Cardinality((1 .. s) \ deleted) = Cardinality((1 .. t) \ inserted)

Paths(counts) == {p \in Path : p[1] \in DOMAIN counts /\ p[2] <= counts[p[1]]}

SectionMatches(s, t) == Matches(s, sections["delete"], t, sections["insert"])
ItemMatches(q, p) ==
  /\ SectionMatches(q[1], p[1])
  /\ Matches(q[2], in(q[1], items["delete"]), p[2], in(p[1], items["insert"]))

KeptSections ==
  IF includesReloadData THEN {} ELSE DOMAIN oldItemCounts \ deletedSections
KeptItems ==
  {q \in Paths(oldItemCounts) :
     q[1] \in KeptSections /\ ~BagIn(q, items["delete"]) /\ ~BagIn(q, items["reload"])}

HasCounts(map) ==
  /\ DOMAIN map.sections = DOMAIN newItemCounts /\ DOMAIN map.headers = DOMAIN newItemCounts
  /\ [t \in DOMAIN map.items |-> Len(map.items[t])] = newItemCounts

KeptIsThere ==
  /\ \A s \in KeptSections : \E t \in DOMAIN newItemCounts : SectionMatches(s, t)
  /\ \A q \in KeptItems : \E p \in Paths(newItemCounts) : ItemMatches(q, p)

SectionsAreKept(map) ==
  \A t \in DOMAIN newItemCounts :
    LET kept == {s \in KeptSections : SectionMatches(s, t)}
    IN  /\ map.sections[t] \in IF kept = {} THEN {newSection(t)} ELSE {oldSection(s) : s \in kept}
        /\ map.headers[t] \in {newSection(t)} \cup {oldSection(s) : s \in kept}

ItemsAreKept(map) ==
  \A p \in Paths(newItemCounts) :
    LET element == map.items[p[1]][p[2]]
        kept == {q \in KeptItems : ItemMatches(q, p)}
    IN  IF kept = {} THEN element.new /\ element.path = p ELSE element \in {oldElement(q) : q \in kept}

NodesAreKept(map) ==
  LET node(p) == map.items[p[1]][p[2]].node
  IN  /\ \A p \in Paths(newItemCounts) : node(p) # NoPath => ItemMatches(node(p), p)
      /\ \A p, r \in Paths(newItemCounts) : p # r /\ node(p) = node(r) => node(p) = NoPath

(* An update that is accepted leaves a map with as many sections and items  *)
(* as the data source has, in which what was neither deleted nor reloaded   *)
(* is where counting puts it, everything else is made for the place where   *)
(* it is, and no node of a cell is used twice, nor for another item.        *)
AcceptedMapIsRight ==
  phase = "applied" =>
    /\ HasCounts(elementMap) /\ KeptIsThere
    /\ SectionsAreKept(elementMap) /\ ItemsAreKept(elementMap) /\ NodesAreKept(elementMap)

(* The application tells the truth: the counts before and after are those   *)
(* of the data, and what it names was, or is now, there.                    *)
Happened ==
  /\ sections["delete"] \cup sections["reload"] \subseteq DOMAIN oldItemCounts
  /\ sections["delete"] \cap sections["reload"] = {}
  /\ sections["insert"] \subseteq DOMAIN newItemCounts
  /\ Cardinality(DOMAIN oldItemCounts \ sections["delete"])
       = Cardinality(DOMAIN newItemCounts \ sections["insert"])
  /\ DOMAIN items["delete"] \cup DOMAIN items["reload"] \subseteq Paths(oldItemCounts)
  /\ DOMAIN items["insert"] \subseteq Paths(newItemCounts)
  /\ \A p \in DOMAIN items["reload"] : p[1] \notin sections["delete"] /\ ~BagIn(p, items["delete"])
  /\ \A s \in DOMAIN oldItemCounts \ sections["reload"], t \in DOMAIN newItemCounts :
       SectionMatches(s, t) =>
         Cardinality((1 .. oldItemCounts[s]) \ in(s, items["delete"]))
           = Cardinality((1 .. newItemCounts[t]) \ in(t, items["insert"]))

(* What the application truly did is never refused: reloads that move,      *)
(* items in sections that are reloaded, changes at either end.              *)
AcceptsWhatHappened == phase = "raised" => ~Happened
=============================================================================
