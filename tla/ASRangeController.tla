-------------------------- MODULE ASRangeController --------------------------
(***************************************************************************)
(* ASRangeController (Details/ASRangeController.mm) in a collection view    *)
(* (ASCollectionView.mm) of one section that is not nested in another: which *)
(* cells are to preload, to display and to be visible, as the user scrolls, *)
(* data changes, the view enters and leaves its window and the application  *)
(* goes to the background.  All of it happens on the main thread; what      *)
(* interleaves are the moments at which UIKit, the application and the      *)
(* blocks of the main queue call.                                           *)
(*                                                                         *)
(* Cells are as high as the view.  The view is at the cell number offset,   *)
(* and a buffer is a number of cells, the same on both sides.               *)
(***************************************************************************)
EXTENDS Sequences, FiniteSets, Integers, SequencesExt

CONSTANTS
  Node,        \* cell nodes there will ever be
  InitialMap,  \* the cells of the first load
  Buffer,      \* tuning parameters of each range mode
  SetModes,    \* range modes that view controllers set
  Modes,       \* what ASCATransactionQueueGet().enabled may be
  MaxEvents    \* bound on what users, application and system do

RangeModes == {"Minimum", "Full", "VisibleOnly", "LowMemory"}
Ranges == {"Preload", "Display", "Visible"}
Offsets == {1} \cup 1..Len(InitialMap)

ASSUME MapAssumption == InitialMap \in Seq(Node) /\ IsInjective(InitialMap)
ASSUME BufferAssumption == Buffer \in [RangeModes -> [display : Nat, preload : Nat]]
ASSUME SetModesAssumption == SetModes \subseteq RangeModes
ASSUME ModesAssumption == Modes \subseteq BOOLEAN
ASSUME EventsAssumption == MaxEvents \in Nat

VARIABLES
  coalescing,         \* ASCATransactionQueueGet().enabled, which never changes
  map,                \* visibleMap of the data controller
  offset,             \* where the view has scrolled to
  displayed,          \* _visibleElements of the collection view
  pendingLoad,        \* _superIsPendingDataLoad
  inWindow, background,
  pending,            \* pendingInterfaceState of each node
  applied,            \* interfaceState of each node
  currentRangeMode, preserveCurrentRangeMode, contentHasBeenScrolled,
  rangeIsValid, needsRangeUpdate,
  allPreviousIndexPaths, visibleNodes,
  didRegister,        \* _didRegisterForNodeDisplayNotifications
  blockPending,       \* a block of setNeedsUpdate is in the main queue
  used,               \* nodes that have been in the map
  events              \* counts towards MaxEvents

nodeVars == <<pending, applied, visibleNodes>>
modeVars == <<currentRangeMode, preserveCurrentRangeMode>>
rangeVars == <<rangeIsValid, allPreviousIndexPaths, didRegister>>
updateVars == <<nodeVars, modeVars, rangeVars, needsRangeUpdate>>
viewVars == <<map, offset, displayed, pendingLoad, inWindow, background, used>>
controllerVars == <<coalescing, viewVars, updateVars, contentHasBeenScrolled, blockPending, events>>

RangeInit ==
  /\ coalescing \in Modes
  /\ map = InitialMap /\ used = Range(InitialMap)
  /\ offset = 1 /\ displayed = {} /\ pendingLoad = TRUE
  /\ inWindow \in BOOLEAN /\ background = FALSE
  /\ pending = [n \in Node |-> {}] /\ applied = pending
  /\ currentRangeMode = "Unspecified"
  /\ preserveCurrentRangeMode = FALSE /\ contentHasBeenScrolled = FALSE
  /\ rangeIsValid = FALSE /\ needsRangeUpdate = FALSE
  /\ allPreviousIndexPaths = {} /\ visibleNodes = {}
  /\ didRegister = FALSE /\ blockPending = FALSE
  /\ events = 0

-----------------------------------------------------------------------------
(* What the layout and the collection view answer, after the step.          *)
IndexPaths == DOMAIN map'
IndexPathsOf(nodes) == {i \in IndexPaths : map'[i] \in nodes}
Around(buffer) == {i \in IndexPaths : offset' - buffer <= i /\ i <= offset' + buffer}

interfaceState(isInWindow, isInBackground) ==
  IF ~isInWindow THEN {} ELSE IF isInBackground THEN {"Display"} ELSE {"Visible", "Display"}

DisplayIndexPaths(mode) ==
  CASE mode = "LowMemory" -> {}
    [] mode # "LowMemory" /\ Buffer[mode].display = 0 -> IndexPathsOf(displayed')
    [] OTHER -> Around(Buffer[mode].display)

PreloadIndexPaths(mode) ==
  CASE Buffer[mode].preload = Buffer[mode].display -> DisplayIndexPaths(mode)
    [] Buffer[mode].preload = 0 /\ Buffer[mode].display # 0 -> IndexPathsOf(displayed')
    [] OTHER -> Around(Buffer[mode].preload)

-----------------------------------------------------------------------------
(* An update of the ranges.                                                 *)
rangeModeForInterfaceState(isVisible, mode) ==
  IF ~isVisible \/ mode = "Unspecified" THEN "Minimum" ELSE "Full"

NextRangeMode(isVisible, mode, preserved) ==
  IF (~preserved /\ contentHasBeenScrolled /\ isVisible) \/ mode = "Unspecified"
  THEN rangeModeForInterfaceState(isVisible, mode) ELSE mode

(* The state of the cell at i, by the index paths in each range. *)
InterfaceState(i, isVisible, mode, visible, display, preload) ==
  IF isVisible
  THEN IF i \in visible THEN Ranges
       ELSE {r \in {"Preload", "Display"} : i \in (IF r = "Preload" THEN preload ELSE display)}
  ELSE IF i \in visible THEN IF mode = "LowMemory" THEN {"Preload"} ELSE {"Preload", "Display"}
       ELSE IF i \in display THEN {"Preload"} ELSE {}

(* Nodes that are visible no more leave the visible range, whether or not   *)
(* they are in the map still; the other ranges stay as they are applied.    *)
setVisibleNodes(newVisibleNodes, toPending, toApplied) ==
  LET exits == {n \in visibleNodes \ newVisibleNodes : "Visible" \in toApplied[n]}
  IN  /\ pending' = [n \in Node |-> IF n \in exits THEN toApplied[n] \ {"Visible"} ELSE toPending[n]]
      /\ applied' = IF coalescing THEN toApplied ELSE pending'
      /\ visibleNodes' = newVisibleNodes

(* Mutated: what was in range before is not looked at again. *)
VisitedInRange(current, valid) == IF valid THEN current ELSE current \cup IndexPaths

Visited(current, valid) ==
  (current \cup allPreviousIndexPaths \cup IF valid THEN {} ELSE IndexPaths) \cap IndexPaths

(* Cells take their new states; when the display of one has to be waited    *)
(* for, the controller registers for the end of it.                         *)
takeStates(state, isVisible, mode) ==
  \E toPending \in {[n \in Node |-> IF \E i \in DOMAIN state : map'[i] = n
                                    THEN state[CHOOSE i \in DOMAIN state : map'[i] = n] ELSE pending[n]]} :
    /\ setVisibleNodes({map'[i] : i \in {j \in DOMAIN state : "Visible" \in state[j]}},
                       toPending, IF coalescing THEN applied ELSE toPending)
    /\ didRegister' = \/ didRegister
                      \/ /\ mode # "Full" /\ rangeModeForInterfaceState(isVisible, mode) # mode
                         /\ \E n \in Node : /\ toPending[n] # pending[n]
                                           /\ "Display" \in toPending[n] \ applied[n]

updateNodes(isVisible, mode, valid) ==
  \E visible \in {IndexPathsOf(displayed')}, display \in {DisplayIndexPaths(mode)},
     preload \in {PreloadIndexPaths(mode)} :
  \E current \in {visible \cup display \cup preload} : \E visited \in {Visited(current, valid)} :
    /\ takeStates([i \in visited |-> InterfaceState(i, isVisible, mode, visible, display, preload)],
                  isVisible, mode)
    /\ currentRangeMode' = mode /\ preserveCurrentRangeMode' = FALSE
    /\ allPreviousIndexPaths' = current /\ rangeIsValid' = TRUE

updateRange(mode, preserved, valid) ==
  \E isVisible \in BOOLEAN :
    /\ isVisible <=> "Visible" \in interfaceState(inWindow', background')
    /\ updateNodes(isVisible, NextRangeMode(isVisible, mode, preserved), valid)

(* While UIKit displays no cell at all, nodes that are in the view by the   *)
(* layout stay as they are, and the range stays invalid.                    *)
updateRanges(mode, preserved, valid) ==
  /\ needsRangeUpdate' = FALSE
  /\ IF displayed' = {}
     THEN /\ setVisibleNodes({map'[i] : i \in Around(0)}, pending, applied)
          /\ currentRangeMode' = mode /\ preserveCurrentRangeMode' = preserved /\ rangeIsValid' = valid
          /\ UNCHANGED <<allPreviousIndexPaths, didRegister>>
     ELSE updateRange(mode, preserved, valid)

updateIfNeeded(needed, mode, preserved, valid) ==
  IF needed THEN updateRanges(mode, preserved, valid)
  ELSE /\ needsRangeUpdate' = FALSE
       /\ currentRangeMode' = mode /\ preserveCurrentRangeMode' = preserved /\ rangeIsValid' = valid
       /\ UNCHANGED <<nodeVars, allPreviousIndexPaths, didRegister>>

(* A block is dispatched when an update was not needed before. *)
Dispatched(needed) == blockPending' = (blockPending \/ (needed /\ ~needsRangeUpdate))

setNeedsUpdate == needsRangeUpdate' = TRUE /\ Dispatched(TRUE)

-----------------------------------------------------------------------------
(* Events of the user, the application and the system.                      *)
Event == events < MaxEvents /\ events' = events + 1

scrollViewWillBeginDragging ==
  /\ inWindow /\ ~background /\ Event
  /\ contentHasBeenScrolled' = TRUE
  /\ preserveCurrentRangeMode' = TRUE /\ currentRangeMode' = "Full"
  /\ IF currentRangeMode # "Full" THEN setNeedsUpdate ELSE UNCHANGED <<needsRangeUpdate, blockPending>>
  /\ UNCHANGED <<coalescing, viewVars, nodeVars, rangeVars>>

(* Of a view controller, by how deep it is in its navigation. *)
updateCurrentRangeWithMode(mode) ==
  /\ ~background /\ Event
  /\ preserveCurrentRangeMode' = TRUE /\ currentRangeMode' = mode
  /\ IF currentRangeMode # mode THEN setNeedsUpdate ELSE UNCHANGED <<needsRangeUpdate, blockPending>>
  /\ UNCHANGED <<coalescing, viewVars, nodeVars, rangeVars, contentHasBeenScrolled>>

scroll(to) ==
  /\ ~pendingLoad /\ to # offset /\ Event
  /\ offset' = to
  /\ UNCHANGED <<coalescing, map, displayed, pendingLoad, inWindow, background, used, updateVars,
                 contentHasBeenScrolled, blockPending>>

(* A change set without a reload is submitted.  With                        *)
(* ASExperimentalRangeUpdateOnChangesetUpdate it asks for an update.        *)
updateWithChangeSet(newMap) ==
  /\ ~background /\ Event
  /\ map' = newMap /\ used' = used \cup Range(newMap)
  /\ UNCHANGED <<offset, displayed, pendingLoad, inWindow, background>>
  /\ \E asks \in BOOLEAN :
       LET needed == needsRangeUpdate \/ asks
       IN  IF pendingLoad
           THEN /\ ~asks /\ rangeIsValid' = FALSE
                /\ UNCHANGED <<nodeVars, modeVars, needsRangeUpdate, allPreviousIndexPaths, didRegister, blockPending>>
           ELSE /\ Dispatched(needed)
                /\ updateIfNeeded(needed, currentRangeMode, preserveCurrentRangeMode, FALSE)
  /\ UNCHANGED <<coalescing, contentHasBeenScrolled>>

insert(n) ==
  /\ n \notin used
  /\ \E i \in 1..(Len(map) + 1) : updateWithChangeSet(InsertAt(map, i, n))

delete(n) == \E i \in DOMAIN map : map[i] = n /\ updateWithChangeSet(RemoveAt(map, i))

(* A change set with a reload: every cell is a new one.  UIKit may take the *)
(* cells it displays away at once.                                          *)
reloadData(n) ==
  /\ n \notin used /\ ~background /\ Event
  /\ map' = <<n>> /\ used' = used \cup {n}
  /\ setVisibleNodes({}, pending, applied) /\ rangeIsValid' = FALSE
  /\ pendingLoad' = TRUE
  /\ \/ UNCHANGED <<displayed, needsRangeUpdate, blockPending>>
     \/ ~pendingLoad /\ displayed # {} /\ displayed' = {} /\ setNeedsUpdate
  /\ UNCHANGED <<coalescing, offset, inWindow, background, modeVars, allPreviousIndexPaths, didRegister, contentHasBeenScrolled>>

(* Mutated: the update is left to the next layout. *)
moveToWindowLater(b) ==
  /\ b # inWindow /\ ~background /\ Event
  /\ inWindow' = b
  /\ UNCHANGED <<map, offset, displayed, pendingLoad, background, used>>
  /\ setNeedsUpdate
  /\ UNCHANGED <<coalescing, nodeVars, modeVars, rangeVars, contentHasBeenScrolled>>

didMoveToWindow(b) ==
  /\ b # inWindow /\ ~background /\ Event
  /\ inWindow' = b
  /\ UNCHANGED <<map, offset, displayed, pendingLoad, background, used>>
  /\ updateRanges(currentRangeMode, preserveCurrentRangeMode, rangeIsValid)
  /\ UNCHANGED <<coalescing, contentHasBeenScrolled, blockPending>>

(* Sets a range mode and updates at once, if it is another one. *)
changeMode(mode, isInBackground) ==
  LET needed == needsRangeUpdate \/ currentRangeMode # mode
  IN  /\ background' = isInBackground
      /\ UNCHANGED <<map, offset, displayed, pendingLoad, inWindow, used>>
      /\ Dispatched(needed)
      /\ updateIfNeeded(needed, mode, TRUE, rangeIsValid)
      /\ UNCHANGED <<coalescing, contentHasBeenScrolled>>

didReceiveMemoryWarning ==
  Event /\ changeMode(IF inWindow THEN "VisibleOnly" ELSE "LowMemory", background)

didEnterBackground ==
  ~background /\ Event /\ changeMode(IF inWindow THEN "VisibleOnly" ELSE "LowMemory", TRUE)

(* Mutated: the range mode of the background is kept. *)
resumeInMode == background /\ Event /\ changeMode(currentRangeMode, FALSE)

willEnterForeground ==
  background /\ Event /\ changeMode(IF inWindow THEN "Minimum" ELSE "VisibleOnly", FALSE)

(* clearContents and clearPreloadedData of the collection node, called by   *)
(* its owner while it is off screen.                                        *)
clear(range) ==
  LET cleared == {n \in Range(map) : range \in applied[n]}
      final == [n \in Node |-> IF n \in cleared THEN applied[n] \ {range} ELSE pending[n]]
  IN  /\ ~inWindow /\ cleared # {} /\ Event
      /\ pending' = final
      /\ applied' = IF coalescing THEN applied ELSE final
      /\ UNCHANGED <<coalescing, viewVars, visibleNodes, modeVars, rangeVars, needsRangeUpdate, contentHasBeenScrolled, blockPending>>

-----------------------------------------------------------------------------
(* What follows by itself.                                                  *)

(* UIKit asks for the cells in view, tells of those that appear and those   *)
(* that are gone, and lets cells that were deleted animate away.            *)
Shown == {map[i] : i \in {j \in DOMAIN map : j = offset}}

layoutSubviews ==
  /\ Shown # displayed \/ pendingLoad \/ needsRangeUpdate
  /\ displayed' \in {Shown, Shown \cup (displayed \ Range(map))}
  /\ pendingLoad' = FALSE
  /\ UNCHANGED <<map, offset, inWindow, background, used>>
  /\ LET needed == needsRangeUpdate \/ pendingLoad \/ displayed' # displayed
     IN  /\ Dispatched(needed)
         /\ IF inWindow
            THEN updateIfNeeded(needed, currentRangeMode, preserveCurrentRangeMode, rangeIsValid)
            ELSE needsRangeUpdate' = needed /\ UNCHANGED <<nodeVars, modeVars, rangeVars>>
  /\ UNCHANGED <<coalescing, contentHasBeenScrolled, events>>

(* The block of setNeedsUpdate. *)
runBlock ==
  /\ blockPending /\ blockPending' = FALSE
  /\ UNCHANGED viewVars
  /\ updateIfNeeded(needsRangeUpdate, currentRangeMode, preserveCurrentRangeMode, rangeIsValid)
  /\ UNCHANGED <<coalescing, contentHasBeenScrolled, events>>

(* The rendering engine has displayed what was scheduled. *)
scheduledNodesDidDisplay ==
  /\ didRegister /\ didRegister' = FALSE
  /\ setNeedsUpdate
  /\ UNCHANGED <<coalescing, viewVars, nodeVars, modeVars, rangeIsValid, allPreviousIndexPaths,
                 contentHasBeenScrolled, events>>

(* The transaction queue applies what is pending. *)
commit ==
  /\ coalescing /\ applied # pending
  /\ applied' = pending
  /\ UNCHANGED <<coalescing, viewVars, pending, visibleNodes, modeVars, rangeVars, needsRangeUpdate,
                 contentHasBeenScrolled, blockPending, events>>

Events ==
  \/ scrollViewWillBeginDragging \/ didReceiveMemoryWarning \/ didEnterBackground \/ willEnterForeground
  \/ \E mode \in SetModes : updateCurrentRangeWithMode(mode)
  \/ \E to \in Offsets : scroll(to)
  \/ \E n \in Node : insert(n) \/ delete(n) \/ reloadData(n)
  \/ \E b \in BOOLEAN : didMoveToWindow(b)
  \/ \E range \in {"Preload", "Display"} : clear(range)

RangeNext == Events \/ layoutSubviews \/ runBlock \/ scheduledNodesDidDisplay \/ commit

RangeSpec == RangeInit /\ [][RangeNext]_controllerVars

(* UIKit lays out what has changed and the main queue is served. *)
RangeFairSpec ==
  /\ RangeSpec
  /\ WF_controllerVars(layoutSubviews) /\ WF_controllerVars(runBlock) /\ WF_controllerVars(commit)

-----------------------------------------------------------------------------
RangeTypeOK ==
  /\ coalescing \in Modes
  /\ map \in Seq(Node) /\ IsInjective(map) /\ Range(map) \subseteq used
  /\ offset \in Offsets /\ events \in 0..MaxEvents
  /\ UNION {displayed, visibleNodes, used} \subseteq Node
  /\ {pendingLoad, inWindow, background, preserveCurrentRangeMode, contentHasBeenScrolled, rangeIsValid,
      needsRangeUpdate, didRegister, blockPending} \subseteq BOOLEAN
  /\ pending \in [Node -> SUBSET Ranges] /\ applied \in [Node -> SUBSET Ranges]
  /\ currentRangeMode \in RangeModes \cup {"Unspecified"}
  /\ allPreviousIndexPaths \subseteq Nat

(* "Add anything we had applied interfaceState to in the last update, but   *)
(* is no longer in range, so we can clear any range flags it still has      *)
(* enabled": a cell out of range is in none.                                *)
OutOfRangeIsCleared ==
  rangeIsValid => \A i \in DOMAIN map \ allPreviousIndexPaths : pending[map[i]] = {}

(* Where states are applied at once it is so, however positions shift and   *)
(* modes change.                                                            *)
NothingOutOfRange == ~coalescing => OutOfRangeIsCleared

(* "DO NOT set Visible: our overall container object is not yet, or no      *)
(* longer, visible": without a window no node is visible, deleted ones      *)
(* included.                                                                *)
OffscreenIsInvisible == ~coalescing /\ ~inWindow => \A n \in Node : "Visible" \notin pending[n]

(* Once no update is wanted the cells on screen are visible and, where      *)
(* states are applied at once, nothing else is, not even a deleted node.    *)
SettledIsRight ==
  inWindow /\ ~background /\ ~needsRangeUpdate =>
    \A n \in Node : /\ n \in displayed \cap Range(map) => "Visible" \in pending[n]
                    /\ ~coalescing /\ "Visible" \in pending[n] => n \in displayed

(* Whatever happens, a view on screen goes on telling its cells that they   *)
(* are visible.                                                             *)
CellsOnScreenBecomeVisible ==
  []<>(inWindow /\ ~background => \A n \in Shown : "Visible" \in applied[n])

-----------------------------------------------------------------------------
(* What ASRangeController.mm says of the background: "pretend to be         *)
(* invisible so that we inform each cell it is no longer being viewed".     *)
BackgroundIsInvisible == background => \A n \in Node : "Visible" \notin pending[n]
=============================================================================
