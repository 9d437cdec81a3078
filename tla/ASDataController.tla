--------------------------- MODULE ASDataController ---------------------------
(***************************************************************************)
(* ASDataController.mm: a change set makes a new map on the main thread,    *)
(* its nodes are prepared on the editing queue, and a block of the main     *)
(* serial queue hands it to the view (ASCollectionView.mm), which consumes  *)
(* it and calls the completion handler now or when the animation ends.      *)
(* What is in a map is left out: maps are numbered as they are made.        *)
(***************************************************************************)
EXTENDS ASMainSerialQueue, FiniteSets

CONSTANTS
  MaxChangeSets, \* bound on the change sets of the application
  MaxCalls,      \* bound on its other calls
  Block,         \* blocks given to onDidFinishSynchronizing:
  HandlersUpdate \* a completion handler may start an update although a
                 \* relayout or clearData is waiting for the one that completes

ASSUME BoundAssumption == MaxChangeSets \in Nat /\ MaxCalls \in Nat
ASSUME HandlerAssumption == HandlersUpdate \in BOOLEAN

Kind == {"reload", "edit", "empty"}

VARIABLES
  optimizePipeline,  \* ASExperimentalOptimizeDataControllerPipeline
  pendingMap, visibleMap,
  changeSets,        \* the kinds of the change sets so far
  completed,         \* those whose completion handler was called
  loaded,            \* _initialReloadDataHasBeenCalled
  editing,           \* _editingTransactionQueue; its head is running
  pushed,            \* the running block has filled the serial queue
  dispatched,        \* and has had it run
  groupCount,        \* _editingTransactionGroupCount
  synchronized,      \* _synchronized
  syncBlocks,        \* _onDidFinishSynchronizingBlocks
  dataSource,        \* the view has an asyncDataSource
  pendingDataLoad,   \* _superIsPendingDataLoad
  animating,         \* change sets whose completion UIKit will call
  calls              \* other calls of the application so far

mapVars == <<pendingMap, visibleMap>>
setVars == <<changeSets, completed, loaded>>
editVars == <<editing, pushed, dispatched, groupCount>>
syncVars == <<synchronized, syncBlocks>>
viewVars == <<dataSource, pendingDataLoad, animating>>
vars == <<serialVars, optimizePipeline, mapVars, setVars, editVars, syncVars, viewVars, calls>>

Init ==
  /\ SerialInit /\ optimizePipeline \in BOOLEAN
  /\ pendingMap = 0 /\ visibleMap = 0
  /\ changeSets = <<>> /\ completed = {} /\ loaded = FALSE
  /\ editing = <<>> /\ pushed = FALSE /\ dispatched = FALSE /\ groupCount = 0
  /\ synchronized = TRUE /\ syncBlocks = {}
  /\ dataSource = TRUE /\ pendingDataLoad = FALSE /\ animating = {}
  /\ calls = 0

(* Mutated: what waits in the main serial queue is forgotten.               *)
isPreparing == groupCount > 0

isProcessingUpdates == blocks # <<>> \/ groupCount > 0

(* dispatch_group_wait returns.                                             *)
GroupIsEmpty == \A i \in DOMAIN editing : editing[i].do # "deliver"

retry == [do |-> "finishProcessing"]
app == [do |-> "app"]
waitThen(block) == [do |-> "wait", block |-> block]
nothing == [do |-> "nothing"]

-----------------------------------------------------------------------------
(* The application calls on the main thread, between two turns or from a    *)
(* completion handler.                                                      *)
AppRuns == main # <<>> => Head(main).do = "app"

(* A relayout or clearData waits in the queue or below on the stack.        *)
Replacing ==
  \/ \E i \in DOMAIN blocks : blocks[i].do = "relayout"
  \/ \E i \in DOMAIN main : main[i].do = "clear"

call(frames) ==
  /\ AppRuns /\ calls < MaxCalls /\ calls' = calls + 1
  /\ Calls(frames)
  /\ UNCHANGED <<blocks, mainQueue, optimizePipeline, mapVars, setVars, editVars, viewVars>>

(* endUpdatesAnimated:completion: and the first part of updateWithChangeSet: *)
submit(kind, sync) ==
  /\ AppRuns /\ (Replacing => HandlersUpdate) /\ Len(changeSets) < MaxChangeSets
  /\ changeSets' = Append(changeSets, kind)
  /\ loaded' = (loaded \/ kind = "reload")
  /\ synchronized' = FALSE
  /\ Calls(<<[do |-> "update", set |-> Len(changeSets) + 1, sync |-> sync]>>)
  /\ UNCHANGED <<blocks, mainQueue, optimizePipeline, mapVars, completed, editVars, syncBlocks, viewVars, calls>>

(* The rest of it, when the editing group is empty.                         *)
latch ==
  /\ Top("update") /\ loaded /\ (optimizePipeline \/ GroupIsEmpty)
  /\ \E frame \in {Head(main)} :
     \E newMap \in {pendingMap + IF changeSets[frame.set] = "empty" THEN 0 ELSE 1} :
       /\ pendingMap' = newMap
       /\ editing' = Append(editing, [do |-> "deliver", set |-> frame.set, map |-> newMap])
       /\ Becomes(IF frame.sync THEN <<waitThen(nothing)>> ELSE <<>>)
  /\ groupCount' = groupCount + 1
  /\ UNCHANGED <<blocks, mainQueue, optimizePipeline, visibleMap, setVars, pushed, dispatched, syncVars, viewVars, calls>>

skipUnloaded ==
  /\ Top("update") /\ ~loaded
  /\ Becomes(<<[do |-> "complete", set |-> Head(main).set]>>)
  /\ UNCHANGED <<blocks, mainQueue, optimizePipeline, mapVars, setVars, editVars, syncVars, viewVars, calls>>

waitUntilAllUpdatesAreProcessed == call(<<waitThen(nothing)>>) /\ UNCHANGED syncVars

relayoutAllNodes == loaded /\ call(<<waitThen([do |-> "relayout"])>>) /\ UNCHANGED syncVars

onDidFinishSynchronizing(block) ==
  /\ call(<<>>)
  /\ syncBlocks' = IF synchronized THEN syncBlocks ELSE syncBlocks \cup {block}
  /\ UNCHANGED synchronized

(* The data source and the delegate are set to nil, or set again.           *)
setDataSource(new) ==
  /\ AppRuns /\ calls < MaxCalls /\ calls' = calls + 1
  /\ dataSource' = new /\ dataSource # new
  /\ Calls(IF ~new /\ loaded THEN <<waitThen(nothing), [do |-> "clear"]>> ELSE <<>>)
  /\ UNCHANGED <<blocks, mainQueue, optimizePipeline, mapVars, setVars, editVars, syncVars, pendingDataLoad, animating>>

Application ==
  \/ \E kind \in Kind, sync \in BOOLEAN : submit(kind, sync)
  \/ waitUntilAllUpdatesAreProcessed \/ relayoutAllNodes
  \/ \E block \in Block : onDidFinishSynchronizing(block)
  \/ \E new \in BOOLEAN : setDataSource(new)

-----------------------------------------------------------------------------
(* The editing queue, on a thread of its own.                               *)
Running(what) == editing # <<>> /\ Head(editing).do = what

prepare ==
  /\ Running("deliver") /\ ~pushed
  /\ pushFromOutside(Head(editing))
  /\ pushed' = TRUE
  /\ UNCHANGED <<optimizePipeline, mapVars, setVars, editing, dispatched, groupCount, syncVars, viewVars, calls>>

dispatch ==
  /\ Running("deliver") /\ pushed /\ ~dispatched
  /\ dispatchRunBlocks
  /\ dispatched' = TRUE
  /\ UNCHANGED <<optimizePipeline, mapVars, setVars, editing, pushed, groupCount, syncVars, viewVars, calls>>

leaveGroup ==
  /\ Running("deliver") /\ dispatched
  /\ groupCount' = groupCount - 1
  /\ editing' = Tail(editing) /\ pushed' = FALSE /\ dispatched' = FALSE
  /\ UNCHANGED <<serialVars, optimizePipeline, mapVars, setVars, syncVars, viewVars, calls>>

dispatchRetry ==
  /\ Running("finishProcessing")
  /\ editing' = Tail(editing)
  /\ mainQueue' = Append(mainQueue, retry)
  /\ UNCHANGED <<blocks, main, optimizePipeline, mapVars, setVars, pushed, dispatched, groupCount, syncVars, viewVars, calls>>

EditingQueue == prepare \/ dispatch \/ leaveGroup \/ dispatchRetry

-----------------------------------------------------------------------------
(* The main thread goes on with what it is in the middle of.                *)
SerialQueue ==
  /\ runBlock \/ finishRunBlocks \/ runMainQueue
  /\ UNCHANGED <<optimizePipeline, mapVars, setVars, editVars, syncVars, viewVars, calls>>

(* _scheduleBlockOnMainSerialQueue: when the editing group is empty.        *)
scheduleBlock ==
  /\ Top("wait") /\ GroupIsEmpty
  /\ performBlock(Head(main).block)
  /\ UNCHANGED <<optimizePipeline, mapVars, setVars, editVars, syncVars, viewVars, calls>>

doNothing ==
  /\ Top("nothing") /\ Becomes(<<>>)
  /\ UNCHANGED <<blocks, mainQueue, optimizePipeline, mapVars, setVars, editVars, syncVars, viewVars, calls>>

(* Both maps are replaced by a new one.                                     *)
replaceMaps ==
  /\ Top("relayout") \/ Top("clear")
  /\ pendingMap' = pendingMap + 1 /\ visibleMap' = pendingMap + 1
  /\ Becomes(<<>>)
  /\ UNCHANGED <<blocks, mainQueue, optimizePipeline, setVars, editVars, syncVars, viewVars, calls>>

(* rangeController:updateWithChangeSet:updates: of the view; the updates    *)
(* block deploys the map.                                                   *)
Completion == <<[do |-> "complete", set |-> Head(main).set]>>
Ready == dataSource /\ ~pendingDataLoad

deploy(then) ==
  /\ Top("deliver")
  /\ visibleMap' = Head(main).map
  /\ Becomes(then)
  /\ UNCHANGED <<blocks, mainQueue, optimizePipeline, pendingMap, setVars, editVars, syncVars, dataSource, calls>>

(* Mutated: nobody is told of an update that the view is not ready for.     *)
deliverSilently == deploy(<<>>) /\ ~Ready /\ UNCHANGED <<pendingDataLoad, animating>>

deliverUnready == deploy(Completion) /\ ~Ready /\ UNCHANGED <<pendingDataLoad, animating>>

deliverReload ==
  /\ deploy(Completion) /\ Ready /\ changeSets[Head(main).set] = "reload"
  /\ pendingDataLoad' = TRUE
  /\ UNCHANGED animating

(* The batch update is complete when its animation ends, or at once where   *)
(* the cell layout mode asks for a reload instead.                          *)
deliverBatch ==
  /\ Top("deliver") /\ Ready /\ changeSets[Head(main).set] # "reload"
  /\ \/ deploy(Completion) /\ UNCHANGED animating
     \/ deploy(<<>>) /\ animating' = animating \cup {Head(main).set}
  /\ UNCHANGED pendingDataLoad

deliver == deliverUnready \/ deliverReload \/ deliverBatch

(* executeCompletionHandlerWithFinished: first the handler of the           *)
(* application, then that of updateWithChangeSet:                           *)
complete ==
  /\ Top("complete")
  /\ completed' = completed \cup {Head(main).set}
  /\ Becomes(<<app, [do |-> "synchronize"]>>)
  /\ UNCHANGED <<blocks, mainQueue, optimizePipeline, mapVars, changeSets, loaded, editVars, syncVars, viewVars, calls>>

returnFromApp ==
  /\ Top("app") /\ Becomes(<<>>)
  /\ UNCHANGED <<blocks, mainQueue, optimizePipeline, mapVars, setVars, editVars, syncVars, viewVars, calls>>

synchronize ==
  /\ Top("synchronize")
  /\ synchronized' = TRUE
  /\ Becomes(<<retry>>)
  /\ UNCHANGED <<blocks, mainQueue, optimizePipeline, mapVars, setVars, editVars, syncBlocks, viewVars, calls>>

(* Mutated: the block is dropped while updates are processed.               *)
giveUp ==
  /\ Top("finishProcessing") /\ isProcessingUpdates
  /\ Becomes(<<>>)
  /\ UNCHANGED <<blocks, mainQueue, optimizePipeline, mapVars, setVars, editVars, syncVars, viewVars, calls>>

(* onDidFinishProcessingUpdates: with the block that ends synchronizing.    *)
tryAgain ==
  /\ Top("finishProcessing") /\ isProcessingUpdates
  /\ editing' = Append(editing, retry)
  /\ Becomes(<<>>)
  /\ UNCHANGED <<blocks, mainQueue, optimizePipeline, mapVars, setVars, pushed, dispatched, groupCount, syncVars, viewVars, calls>>

announce ==
  /\ Top("finishProcessing") /\ ~isProcessingUpdates
  /\ syncBlocks' = IF synchronized THEN {} ELSE syncBlocks
  /\ Becomes(<<>>)
  /\ UNCHANGED <<blocks, mainQueue, optimizePipeline, mapVars, setVars, editVars, synchronized, viewVars, calls>>

MainThread ==
  \/ SerialQueue \/ latch \/ skipUnloaded \/ scheduleBlock \/ doNothing \/ replaceMaps
  \/ deliver \/ complete \/ returnFromApp \/ synchronize \/ tryAgain \/ announce

-----------------------------------------------------------------------------
(* UIKit between two turns: an animation ends, the view asks for its data.  *)
endAnimation(c) ==
  /\ main = <<>> /\ c \in animating
  /\ animating' = animating \ {c}
  /\ Calls(<<[do |-> "complete", set |-> c]>>)
  /\ UNCHANGED <<blocks, mainQueue, optimizePipeline, mapVars, setVars, editVars, syncVars, dataSource, pendingDataLoad, calls>>

numberOfSections ==
  /\ main = <<>> /\ pendingDataLoad
  /\ pendingDataLoad' = FALSE
  /\ UNCHANGED <<serialVars, optimizePipeline, mapVars, setVars, editVars, syncVars, dataSource, animating, calls>>

Next ==
  \/ Application \/ EditingQueue \/ MainThread \/ numberOfSections
  \/ \E c \in 1 .. MaxChangeSets : endAnimation(c)

Spec == Init /\ [][Next]_vars

(* Threads that can run do, callbacks of the application return, and        *)
(* animations end.                                                          *)
FairSpec ==
  /\ Spec
  /\ WF_vars(EditingQueue) /\ WF_vars(MainThread)
  /\ \A c \in 1 .. MaxChangeSets : SF_vars(endAnimation(c))

-----------------------------------------------------------------------------
M == INSTANCE MapSequence

(* "Returns NO if ASCollectionNode is fully synchronized ... it is safe to  *)
(* compare UIKit values with your app's data source": whenever the          *)
(* application runs or synchronization blocks are called and                *)
(* isProcessingUpdates says NO, the view has the last map, although the     *)
(* count is kept by another thread and a block leaves the serial queue      *)
(* before it is run.                                                        *)
SafeToCompare ==
  (AppRuns \/ Top("finishProcessing")) /\ ~isProcessingUpdates => visibleMap = pendingMap

(* The view goes through all maps in the order in which they were made, and *)
(* a relayout or clearData find no map on its way.                          *)
IsMapSequence == M!Spec

(* Every change set is completed, however updates, completion handlers and  *)
(* waits nest.                                                              *)
EveryUpdateCompletes ==
  \A c \in 1 .. MaxChangeSets : c <= Len(changeSets) ~> c \in completed

(* Who waits for the view to be synchronized is told.                       *)
SynchronizationIsAnnounced == \A block \in Block : block \in syncBlocks ~> block \notin syncBlocks
=============================================================================
