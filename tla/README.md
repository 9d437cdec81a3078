# A verification of Texture's asynchronous core

Texture moves layout, drawing and data loading of a user interface off the
main thread, and hands the results back to UIKit at moments that UIKit, the
user and the run loop choose. What is hard in it is seldom a computation: it
is the order in which threads, run loop observers, blocks of the main queue,
callbacks of the application and calls of UIKit meet. This directory models
that part in TLA+, checks it with TLC and proves the central invariants of it
with TLAPS. Paths below are relative to `src/Source` unless they begin with
`src/`.

How to run it:

    tlc -config TransactionQueue.cfg ASAsyncTransactionQueue.tla
    tlapm ASAsyncTransactionQueueProofs.tla

Each `.cfg` belongs to the module that PROJECT.json names for the run.

## 1. The system

### How the parts interact

    application, UIKit, Core Animation
        |  interface state            |  setNeedsDisplay         |  change sets
        v                             v                          v
    nodes (ASDisplayNode) ----> layers: transactions        data controller
        ^   |                    |   container, group            |
        |   | coalesced          v                               v
        |   +-> CATransaction  transaction queue            range controller
        |       queue          (thread pool)                     |
        +--------------------------------------------------------+
    render queue, deallocation queue (ASRunLoopQueue): both filled by nodes

* The **range controller** of a table or collection decides which cells are to
  preload, display and be visible, and calls `enterInterfaceState:`,
  `exitInterfaceState:` and `recursivelySetInterfaceState:` of their nodes.
* A **node** applies a change of its interface state at once, or, with
  `ASExperimentalInterfaceStateCoalescing`, enqueues itself in the
  **CATransaction queue**, which calls it before Core Animation commits.
* A node that enters the display range goes into the **render queue**; its
  handler makes layers display, which adds operations to **transactions**.
* A transaction gives its operations to the **transaction queue**, a pool of
  threads per dispatch queue, and calls their completion blocks together on
  the main thread once the **main transaction group** has committed it.
* When the render queue drains it posts a notification, and the range
  controller then widens the ranges.
* The **data controller** turns a change set into new nodes on a background
  queue and into a batch update on the main one; the range controller and the
  view stand between it and UIKit. What comes to the main thread goes through
  the **main serial queue**.
* A layer's **display** is drawn by an operation of a transaction; a sentinel
  tells whether its result is still wanted when the transaction completes.
* **Layout transitions** measure on another thread, commit on the main one, and
  meet there the layout passes of Core Animation.
* An **image node** asks its cache, then its downloader, when it enters the
  preload range, and gives up what is under way when it leaves it.
* All of them use one **recursive lock** per object, and take several locks in
  a sequence that backs off.

### Inventory

What each component keeps, does, and what makes it correct. The last column
names the module or says that there is none yet.

| component | state | operations | hard behaviour | what makes it correct | module |
|---|---|---|---|---|---|
| Transaction queue (`Details/Transactions/_ASAsyncTransaction.mm`, upper half) | one mutex; per dispatch queue an entry with an operation list, a map from priority to list, a thread count; per group pending count, notify list, condition | `schedule`, `notify`, `release`, `enter`, `leave`, `wait`; the worker's loop | a worker unlocks twice per operation; entries are erased and created again; a group may be deleted while workers leave it | no operation without a thread, the two lists agree, a notify block runs exactly when the group is settled, no group is used after its deletion | `ASAsyncTransactionQueue` |
| Transactions, containers, main group (`_ASAsyncTransaction.mm`, lower half; `_ASAsyncTransactionContainer.mm`; `_ASAsyncTransactionGroup.mm`) | a transaction's state, operations and group; a layer's current transaction and all its transactions; the containers to commit | `asyncTransaction`, add, `commit`, `cancel`, `completeTransaction`, `waitUntilComplete`, the run loop observer | completion blocks and the container's hook call back into all of these; waiting, cancelling and the main queue race to complete | every transaction completes once, its completion blocks run in order and after all operations | `ASAsyncTransaction` |
| Run loop queue (`ASRunLoopQueue.mm` up to line 247; `ASDisplayNodeExtras.mm`; the render queue of `ASDisplayNode.mm`) | weak or strong pointer array, run loop source | `enqueue:`, `processQueue`, handler; handing over for deallocation | any thread enqueues; objects die in the queue; the handler runs unlocked | no lost request or wake-up, the queue drains, objects die on the main thread | `ASRunLoopQueue` |
| CATransaction queue (`ASRunLoopQueue.mm` from line 249) | buffer, hash table, batch buffer, observer | `enqueue:`, the observer's loop, `processQueue` | the observer reads the queue without its lock; nodes enqueue while they are called | no node is lost, the run loop does not sleep on nodes | `ASCATransactionQueue` |
| Interface state (`ASDisplayNode.mm` 2600-3090, 3263-3278) | applied, pending and pre-exiting state, hierarchy and suspension flags | `setInterfaceState:`, enter and exit, apply, entering and leaving the hierarchy, clearing contents | callbacks in the middle of a change may change it again; blocks that run a turn later act on what was true before | callbacks alternate and end with the truth, the last request is applied | `ASInterfaceState` |
| Range controller (`Details/ASRangeController.mm`, with `ASCollectionView.mm` and `ASAbstractLayoutController.mm`) | range mode, validity, index paths of the last update, visible nodes, flags for updates | scroll, layout, change sets, reload, window, background, memory warning, mode changes, notification of the render queue | positions shift under it; deleted cells are in no map; updates are due but skipped; states lag behind when coalesced | what is out of range is in none, what is on screen is visible, nothing else is | `ASRangeController` |
| Data controller and main serial queue (`Details/ASDataController.mm`, `Details/ASMainSerialQueue.mm`) | pending and visible map, editing group, serial queue, synchronization blocks | `updateWithChangeSet:`, relayout, clear, waiting, synchronization | overlapping updates; blocks that nest when they enqueue; maps deployed when UIKit pleases | maps are deployed in order; "not processing" is true when it is said; every update completes | `ASMainSerialQueue`, `ASDataController`, `MapSequence` |
| Locks (`Details/ASThread.h`, `Details/ASRecursiveUnfairLock.mm`, `ASLocking.h`, users such as `ASNodeController+Beta.mm`) | an unfair lock, its thread and count; the locks a sequence has taken so far | lock, try, unlock; scopes and sequences | the owner is read without the lock and with relaxed ordering; two threads lock the same objects in opposite orders | a recursive lock, no thread waits for ever | `ASRecursiveUnfairLock`, `ASLocking`, `RecursiveLock` |
| Change sets, element maps (`Private/_ASHierarchyChangeSet.mm`, `Details/ASIntegerMap.mm`, `Details/ASElementMap.mm`, `Private/ASMutableElementMap.mm`) | changes, counts before and after, mappings | sorting, coalescing, validating, mapping, applying | off-by-one at the ends, reloads turned into deletes and inserts | mappings agree with counting; an accepted set leads to the map of the new data; a set that says what happened is accepted | `ASIntegerMap`, `ASHierarchyChangeSet` |
| Asynchronous display (`Private/ASDisplayNode+AsyncDisplay.mm`, `Details/_ASDisplayLayer.mm`) | display sentinel, layer contents, suspension, pending displays of a node and its supernode | display, display at once, suspend, resume, clear, cancel, complete | a display is superseded while it is drawn or waits for its transaction | contents never go back to an older display; what was cancelled is replaced | `ASAsyncDisplay` |
| Layout and transitions (`ASDisplayNode+Layout.mm`, `Private/ASLayoutTransition.mm`) | layout version, pending and calculated layout, transition ids, subnodes | measure ahead, lay out, invalidate, transition, cancel, complete | measured in the background while the node changes; animations that end after another layout | a layout of an old version is not taken for a new one; subnodes are those of the layout | `ASLayoutTransition` |
| Network images (`ASNetworkImageNode.mm`, `Details/ASBasicImageDownloader.mm`) | URL, download identifier, cache sentinel, image; shared requests per URL | set URL, preload range, cache answers, download answers, retry | late answers, identifiers stored after the call, users sharing a request | the image is that of the URL or the default; a node that stays in range gets it; every callback is called | `ASBasicImageDownloader`, `ASNetworkImageNode` |
| Multiplex images (`ASMultiplexImageNode.mm`) | identifiers, loaded and loading ones, download identifier | load next, answers, reload | late answers of worse images | quality never goes down | not modelled |
| Batch fetching (`Private/ASBatchFetching.mm`, `Details/ASBatchContext.mm`) | fetching, cancelled, completed | decide, begin, complete, cancel | many triggers for one fetch | at most one fetch in flight | not modelled |
| Hierarchy and pending view state (`ASDisplayNode.mm`, `Private/ASPendingStateController.mm`, `Private/_ASPendingState.mm`) | supernode, subnodes, properties set before loading | insert, remove, load, flush | nodes loaded while others set properties | what is set before is on the view after | not modelled |
| Tables and collections, delegate proxies, controllers, IGListKit | UIKit's | forwarding | UIKit's order of calls | — | as inputs of the range controller only |
| Layout specs, text, drawing, video, photos, Yoga, TextKit, configuration, logging, tips, debugging | — | — | — | — | not modelled, section 8 |

PROJECT.json has one entry per component with its files and the reason where
nothing is modelled, and a list of hazards: the lines at which this code can
go wrong in a way a unit test would hardly reach, each with the properties
that would show it.

## 2. The modules

    OperationGroup <--refines-- ASAsyncTransactionQueue <-- ASAsyncTransactionQueueProofs
         ^ INSTANCE
    ASAsyncTransaction <-- ASAsyncTransactionProofs --> ASAsyncDisplay <-- MCASAsyncDisplay

    ASCATransactionQueue <-- ASInterfaceState <-- MCASInterfaceState
                                  ^--- ASInterfaceStateProofs

    ASRunLoopQueue <-- ASRangeControllerProofs --> ASRangeController <-- MCASRangeController

    RecursiveLock <--refines-- ASRecursiveUnfairLock <-- ASLocking <-- MCASLocking
                                                             ^--- ASLockingProofs

    MapSequence <--refines-- ASDataController --> ASMainSerialQueue
                                   ^--- ASDataControllerProofs
                                                    v
                    ASIntegerMap <-- ASHierarchyChangeSet

    ASBasicImageDownloader <-- ASNetworkImageNode <-- MCASNetworkImageNode
                                     ^--- ASNetworkImageNodeProofs

    ASLayoutTransition <-- ASLayoutTransitionProofs

An arrow with no label points to the module that is extended. Three proof modules
are about two components each: transactions and the displays that use them,
ranges and the queue of nodes to draw, the pipeline of maps and the change sets
that make them. MC modules hold nothing but values for constants. A definition
named like a mutation (the comment above it says `Mutated`) is a plausible bug
next to the definition it would replace; no specification uses one.

### ASAsyncTransactionQueue

The upper half of `_ASAsyncTransaction.mm`. One action per locked region of
the code: `schedule`, `notifyGroup`, `release`, `enter`, `leaveManually`,
`wait`, and for a worker `take`, `runBlock`, `finish`, `exit`. Between `take`
and `finish` the code holds no lock, and neither does the model. A dispatched
block is identified with the operation whose `schedule` dispatched it. An
entry is its set of queued operations plus a set per priority; tickets give
the order. `respectPriority` is decided per worker as the code does. The
thread limit depends on the run loop mode, so any `schedule` may find it
lowered. Groups go from absent to live, released and deleted; `wait` is the
main thread in a condition variable.

### OperationGroup and ASAsyncTransaction

`OperationGroup` is what the queue promises to one transaction: operations of
a group run once each, in any order, and the notify block is dispatched by the
step that settles the group. The refinement mapping forgets entries, threads
and lists. `ASAsyncTransaction` uses it with one group per transaction, so the
transactions are checked against the promise and not against the pool.

The main thread is a stack: `commitContainers`, `cancel`, `wait`, completion
blocks and hooks push and pop what they are in the middle of, and whatever is
on top moves. The application may call `asyncTransaction`, add an operation,
cancel or wait at the bottom of the stack and from callbacks (`MaxDepth`
bounds the nesting). `HookReenters` says whether a callback may use a layer that
is just being cancelled or waited for, or wait for an open transaction while
others are being committed or cancelled: the run excludes both (section 5).

### ASRunLoopQueue

A queue slot is a number, `added` says what was put into it, and the pointer
array is the set `internalQueue` of slots in use; weak slots of dead objects
are NULL. `processQueue` takes a batch, compacts as the code does and re-adds
the NULL when it must; `callConsumer` makes one call of the handler unlocked;
`finishProcessing` signals the source again if something is left. `release`
and `enqueue` may happen between any two of these. `performMainThreadDeallocation`
is the handing over of an object whose last reference may be the caller's.
Whether a queue retains its objects, keeps each only once and has a handler is
chosen in `Init`, so that one run has all the queues of the library.

### ASCATransactionQueue and ASInterfaceState

`ASCATransactionQueue` has the buffer with its hash table, the batch buffer
and the observer's loop: `beforeWaiting` looks at the buffer without the lock,
so `raced` marks an enqueue that the look may have missed. `ASInterfaceState`
extends it with nodes. Applying a state is two parts, as in the code: what
happens under the lock, and the list of callbacks that follows, made one at a
time by `notify`, between which the application may change the state again
(`Reenters`) and which are therefore frames of a stack. Blocks dispatched to
the main queue (clearing contents, taking visibility back after an exit) run
in later turns.

### ASRangeController

All on the main thread; the actions are what UIKit, the user, the system and
the main queue call. An update is `updateRanges`, written from
`_updateVisibleNodeIndexPaths` line by line in its effects, and every action
contains the update that the code makes in it. `coalescing` chooses whether
the nodes apply states at once or at the next `commit`. Cells are as high as
the view, so that the view shows one cell when it rests, and a tuning parameter
is a number of cells. The composed behaviour of nodes (`ASInterfaceState`) is
reduced to `pending` and `applied`.

### ASRecursiveUnfairLock, ASLocking and RecursiveLock

`ASRecursiveUnfairLock` has one action per access to what threads share: the
relaxed read of `_thread`, the unfair lock, the write of `_thread`, the count.
A relaxed read returns any member of `seen[t][l]`, the values written since the
reader last wrote or took the lock. `LockSpec` lets any program call the
functions. `ASLocking` is such a program: scopes that wait for one lock after
the other and sequences that try and give everything back. `RecursiveLock`
promises an owner and a depth, and forgets how either is kept.

### ASMainSerialQueue, ASDataController and MapSequence

The main thread is again a stack of records. `ASMainSerialQueue` gives its
frame `runBlocks`: a block is out of the queue while it runs, and one that
adds a block empties the queue before it returns. `ASDataController` adds
what the blocks do: `submit` and `latch` are `updateWithChangeSet:` around its
wait for the editing group; `prepare`, `dispatch`, `leaveGroup` are the block on
the editing queue; `deliver...` is the collection view, which deploys the map
and calls the completion handler at once or at the end of an animation;
`synchronize`, `tryAgain`, `announce` are the handler's own work. A map is its
number. `MapSequence` is the promise: the view goes through all maps in order,
and a relayout replaces both maps only when they are the same.

### ASIntegerMap and ASHierarchyChangeSet

`ASIntegerMap` is the pure part: index sets shifted as `NSMutableIndexSet` does
and the mapping of old indexes to new ones that is read off them. Whatever the
code does in descending or ascending order is a fold in that order. `ASHierarchyChangeSet` is one collection and its change sets, one after
the other: `beginUpdates` takes the counts the data controller has cached, the
calls of the application add changes, `dataChanges` gives the data source any
new counts and makes the mappings that the set is asked for, and `endUpdates` is `apply`, `raise` or
`completeUnloaded`. Coalescing,
validation and the update of the map are operators in the order of the code:
reloads become deletes and inserts, items are deleted before sections are, in
descending order, and sections inserted before items, in ascending order. What
is deleted or inserted is a bag, since an index path may be named twice. An element remembers for which index path
it was made, whether in this update, and which old node it may have taken over;
that is what the properties compare with counting (`Matches`): the k-th section
or item that is left is the k-th that was not inserted.

### ASBasicImageDownloader and ASNetworkImageNode

The downloader's module stands for two: one that shares a context between all
downloads of a URL (`ASBasicImageDownloader`) and one that gives each download
an identifier (`ASPINRemoteImageDownloader`), by `sharesRequests`. The node's
module has the main thread (`setURL`, `enterPreload`, `exitPreload`, the load
that follows), cache lookups and `_downloadImageWithCompletion:` on other
threads (`callDownloader`, `storeIdentifier`, `cancelAndReattempt` are its
locked regions), and `finished`, the completion of either, which may come before
the identifier is stored. `droppedEarly` is a history variable: it records which
downloads answered that early, and only a property reads it.

### ASAsyncDisplay

A drawing is a record with the sentinel it began with and the version of the
node it shows. `display` starts one, or displays at once where the layer is
not asynchronous; `draw` is the worker, `complete` the completion block in the
transaction. Everything that cancels increments the sentinel. The account of
pending displays in a node and its supernode (`WillStart`, `DidFinish`) is in
the same actions as in the code.

### ASLayoutTransition

A layout is a set of subnodes with the configuration and the version it was
made from. `transitionLayout` and the steps of its block (`begin`, `measure`,
`dispatch`, `commit` or `dropCancelled`) meet layout passes (`layout`),
measuring ahead (`layoutThatFits`), `setNeedsLayout`, `cancelLayoutTransition`
and ends of animations. `Interferes` says whether `setNeedsLayout` may come
during a transition, `Overlaps` whether the layout may change during an
animation.

## 3. The runs

| run | instance | distinct states | shows |
|---|---|---|---|
| TransactionQueue | 3 operations of 2 priorities, 1 dispatch queue, 1 group, 2 threads, 1 manual enter | 195 000 | no operation without a thread, equal priorities start in order, no use of a deleted group, the queue implements `OperationGroup` with its liveness |
| Transactions | 2 operations, 2 transactions, 2 layers, callbacks nested 2 deep | 117 000 | order and time of completion blocks, completion exactly once, cancel and wait, every transaction completes |
| RunLoopQueues | 3 objects, 4 requests, batch size 2, every combination of the flags | 447 000 | draining, service of each request, death on the main thread |
| InterfaceState | a managed and an unmanaged node, 5 requests, both modes | 142 000 | nothing asked for is lost or left, callbacks alternate and end with the truth, thrash is silent |
| RangeController | 4 cells of which 3 are loaded first, 3 events, both modes | 306 000 | ranges are cleared, invisible off screen, right when settled, visible again and again |
| Locking | 2 threads, a controller and its node, 2 tasks each of 3 kinds | 19 000 | the lock is a recursive lock, every task ends |
| DataController | 2 change sets of 3 kinds, 2 other calls, 1 synchronization block, both pipelines | 142 000 | maps in order, "not processing" is true, updates complete, synchronization is announced |
| ChangeSets | 2 sections of up to 2 items, 3 changes, any counts before and after | 1 250 000 | an accepted set makes the right map, a truthful one is accepted |
| NetworkImages | 1 node, 2 URLs, 1 failure, 1 other user; 3 events with identifiers, 2 with shared requests | 904 000 | the image is that of the URL, none out of range, a node that stays gets it unless its download answered too early, every callback is called |
| AsyncDisplay | a node and its subnode, 3 events | 169 000 | contents only advance, displays settle |
| Layout | 2 possible subnodes, 2 changes of the configuration | 177 000 | the layout only advances, subnodes match it, everything settles |
| LayoutOrphans | the same with `Overlaps` | violation | finding 1 |

### Bounds

* Transaction queue: three operations are the least for which a worker takes
  over what another left while a third is scheduled; two threads are the least
  that let one thread respect priorities and the other not. One manual enter
  lets a group wait for what is not an operation. One group and one queue: what
  several of either would add is in the proofs, which have none of these bounds.
* Transactions: two transactions are enough for one to be completed within the
  callback of the other, in one layer or in two, and two operations for their
  order. Depth two lets a callback of a callback act.
* Run loop queue: with batches of two, three objects leave one behind, and four
  requests make one object be requested again while it is handled and another
  die in a slot that is then NULL.
* Interface state: the second node shows that a node waits for another in the
  commit queue, and is unmanaged so that both kinds meet. Five requests are
  enough for a node to leave, come back and be asked for two more states.
* Ranges: three cells with buffers 1 and 2 (`Full`), 0 and 1 (`Minimum`) and 0
  make all of visible, display, preload and none occur at once; the fourth can
  be inserted or be the one that replaces all. Three events are scroll, edit and
  a change of window, mode or background in any order; layout, the main queue's
  block, the notification and the commit come in addition and are not counted.

* Locks: two locks and two threads are a cycle; a task that takes one lock
  twice shows the recursion; a second task meets what the first one left in
  `seen`. The proofs have no bounds.
* Data controller: two change sets overlap in every stage of the pipeline, and
  two other calls put a wait, a relayout, a block or a change of data source
  before, between or within them.
* Change sets: three changes are a move and a reload, or a delete, an insert and
  a reload, in the same section or in others; two sections can change places,
  and two items too. Indexes beyond the ends are among them. It also passes with
  2 sections of 3 items (7.5 million states), and with 3 sections of 1 item and
  4 changes (6.8 million). `MaxIndex` only cuts off the identity map, above every
  index in use.
* Network images: three events are enough to leave the range and come back, or
  to change the URL and change it back, while a download is started; up to two
  calls of `_downloadImageWithCompletion:` are under way before an event, and
  each may be reattempted. With shared requests another user downloads or
  cancels once. Nodes meet only in the shared downloader, where the other user
  stands for them. The proofs have any number of nodes, URLs and events.
* Display: three events let a display be superseded, suspended and resumed; it
  also passes with four (1.55 million states).
* Layout: two changes of the configuration let one transition, pass or
  measurement be overtaken by another; with two subnodes they may add, remove
  and swap.

`MaxEvents`, `MaxChanges`, `MaxAdded`, `MaxEnter`, `MaxDepth`, `MaxTasks`,
`MaxChangeSets`, `MaxCalls`, `MaxFailures`, `MaxOthers`,
`MaxSections`, `MaxItems` and `MaxLoading` are bounds of the environment only,
never of the code.

### Deadlock

Runs in which a bounded number of requests leaves nothing to do have
`CHECK_DEADLOCK FALSE`. In the run loop queue and the interface state the run
loop always has a next step, and deadlock is checked.

### Fairness

* Transaction queue: `WF` of each worker's step and of waking a signalled
  waiter: GCD runs every dispatched block and blocks end. No client has to do
  anything.
* Transactions: `WF` of the main thread, `WF` of what the pool does for each
  operation, and `SF` for steps the main thread takes time and again among
  others: callbacks return, blocks of the main queue are served, and the
  observer runs before the run loop sleeps. A busy application could otherwise
  keep the main thread from them for ever, which no run loop does.
* Run loop queue: `WF` of the main thread. No enqueue and no other event is
  fair: a lost wake-up must not be repaired by chance.
* Interface state: the same, `WF` of other wake-ups only while the main queue
  has a block (dispatching one wakes the run loop up), and `SF` of running it.
* Ranges: `WF` of layout, of the block in the main queue and of the commit. No
  event of the user is fair, nor is the notification of the render queue:
  it may fail to come (section 5).
* Locks: `WF` of each thread's steps, and `SF` of taking an unfair lock: it
  wakes a waiter when it is given back, and whoever backs off calls
  `sched_yield`. Nobody has to begin a task.
* Data controller: `WF` of the editing queue and of the main thread, whose
  callbacks return, and `SF` of the end of each animation, which UIKit delivers
  between two turns.
* Network images: `WF` of what the main thread has to do, of the threads of the
  global queue and of the session. Nobody has to call a node; failures and
  others' cancelling are not fair.
* Display: `WF` of Core Animation, the workers and the transactions of each node.
* Layout: `WF` of the main thread, of layout passes, of each transition's block
  and of the end of each animation. Measuring ahead, UIKit's own requests for
  layout and the application are not fair.

## 4. What the properties say

Each names the hazard it is for. Types are part of the invariants that are
proved.

* *Transaction queue.* `QueueHasWorker`: an operation in a queue has a worker
  that will look again. `SamePriorityInOrder`, `NoDanglingGroup`; `PromiseKept`
  and `FairPromiseKept` are the refinement of `OperationGroup`, without and with
  its liveness. That a worker's entry outlives it (`EntryOutlivesWorkers`) and
  that a notify block is dispatched exactly when its group is settled
  (`NotifyIsExact`) is proved and not run.
* *Transactions.* `CalledInOrder`, `CalledWhenAllRan`, `CompletesOnce` (who
  skipped an operation says so to its completion block), `WaitCompletes`,
  `EveryTransactionCompletes`.
* *Run loop queue.* `QueueDrains`, `EveryRequestIsServed`, `DiesOnMainThread`.
  `NoLostWakeup` and `NoLostRequest` are proved and not run.
* *Interface state.* `NoLostChange`, `CallbacksAlternate`, `LastWordIsTrue`,
  `NoLeftoverContents`, `ThrashIsSilent`, `ChangesAreApplied`.
* *Ranges.* `NothingOutOfRange`, `OffscreenIsInvisible`, `SettledIsRight`,
  `CellsOnScreenBecomeVisible`. The first two and half of the third are stated for states applied at once: with coalescing they fail,
  all because an exit overwrites the pending state (section 5).
* *Locks.* `IsRecursiveLock`: the functions refine `RecursiveLock`;
  `EveryTaskEnds`: no deadlock and no endless backing off, although scopes and
  sequences take the same locks in opposite orders. The assertions of the
  code (`AssertionsHold`) are proved for every program and not run.
* *Data controller.* `SafeToCompare`: whenever the application can ask and is
  told that nothing is processed, the view has the last map. `IsMapSequence`
  is the refinement of `MapSequence`. `EveryUpdateCompletes`,
  `SynchronizationIsAnnounced`.
* *Change sets.* `AcceptedMapIsRight`: after an accepted update the map has the
  sections and items of the data source, kept ones where counting puts them,
  new ones made for their place, and no two cells share a node.
  `AcceptsWhatHappened`: validation, which counts only what is not hidden by
  changes of sections, refuses no set that says what happened.
* *Network images.* `ImageMatchesURL` (where answers name their download),
  `NoImageOutOfPreload`, `EveryDownloadAnswers`, and `SettledIsLoaded`: whoever
  stays in the preload range gets the image, unless it is left with the
  identifier of a download that answered before that was stored (section 5).
* *Display.* `ContentsOnlyAdvance`: no late drawing takes contents back or puts
  them on a suspended node; `DisplaySettles`: whatever was cancelled is
  replaced, and nobody waits for a display that never comes.
* *Layout.* `LayoutOnlyAdvances`, `SubnodesMatchLayout`, `LayoutSettles`.

## 5. Findings

1. **Subnodes that no layout has** (`LayoutOrphans`). The completion of an
   animation removes the subnodes of the transition that the node has by then
   (`ASDisplayNode+Layout.mm:916`), which a layout pass or a later transition
   has replaced. What the first one removed stays; `_assertSubnodeState`
   (line 965), which would remove it, is compiled only with Yoga.

Seen while modelling, without a run of their own. Where a constant or a bound
shows one, TLC finds the property violated when the run's configuration is
changed so:

* Transactions, `HookReenters = TRUE`, `CalledWhenAllRan`: a completion block
  before its operation. `waitUntilComplete` waits first and commits the group
  afterwards; the commit calls hooks, and what a hook adds to the transaction
  that is waited for is not waited for. With `MaxDepth = 3` also `CompletesOnce`:
  a hook that cancels once more the layer which is being cancelled commits its
  transaction again ("You cannot double-commit", `_ASAsyncTransaction.mm:382`). A
  callback of a commit that waits for an open transaction of another layer finds
  the group's containers taken, and the transaction stays open ("should not be
  open after committing group", line 434).
* Run loop queue, two objects and batch size 1, `DoneIsPosted`: draining is
  reported through a call for the last object, and there is none when only NULL
  slots are left.
* Interface state, `Reenters = TRUE`, applied at once, `EnterMeansVisible`:
  `didEnterVisibleState` of a node that is not visible, since a callback that
  changes its own node's state is overtaken by the rest of the outer change.
* Ranges, applied at once, `BackgroundIsInvisible`: an update is made only when
  the range mode changes; a view in mode VisibleOnly does not tell its cells.
* Ranges, `Modes` only TRUE (coalesced), `OutOfRangeIsCleared`: an update sets a
  cell that has left every range to no state; then `_setVisibleNodes:`
  (`ASRangeController.mm:195`) calls `exitInterfaceState:` of it, which computes
  from the applied state (`ASDisplayNode.mm:2912`) and overwrites the pending one.
  The cell keeps preload and display, and no later update visits it, although
  lines 314-315 say "so we can clear any range flags it still has enabled".
* Change sets, `Repeats = TRUE`, `AcceptedMapIsRight`: an index path that comes
  twice counts once in the validation, which uses index sets, but stays twice in
  the coalesced changes (`_ASHierarchyChangeSet.mm:929`). An item inserted twice
  leaves a map with one item too many; an item reloaded twice removes the one
  after it, and both new cells may take over the same node.
* Change sets, `UpdatesAfterClear = TRUE`, `AcceptedMapIsRight`: `clearData`
  (`ASDataController.mm:955`) empties the maps, but `_itemCountsFromDataSource`
  stays valid, so an update that comes before the next `reloadData` is validated
  against counts that the map does not have, and accepted.
* Data controller, `HandlersUpdate = TRUE`, `IsMapSequence`: a completion
  handler that starts an update while a relayout waits in the serial queue makes
  the assertion of `ASDataController.mm:902` fail.
* Network images, `ChangesInLookups = TRUE`, `ImageMatchesURL`: with no
  identifier yet, `setURL:` does not count the cache sentinel up
  (`ASNetworkImageNode.mm:602`), so that an answer which passes the check of line
  875 before the change is shown after it (801).
* Network images, `SettledIsLoaded` without its exception: the download is
  started without the lock (`ASNetworkImageNode.mm:659-680`), and its answer may
  come before the identifier is stored. It is then dropped as that of another
  download (804), the identifier of a download that is over is stored all the
  same (687), and as long as the node stays as it is line 724 loads nothing
  more. `ASImageProtocols.h:88-107` promises no order of the two, and the code
  does not ask for one. TLC finds it in ten states; the property names these
  downloads by the history variable `droppedEarly`, so that an identifier left
  behind in any other way still violates it.
* Network images, `Shares = {TRUE}`, `LoadsIfItStays`: the basic downloader
  cancels the request of everybody who shares it
  (`ASBasicImageDownloader.mm:315`), and a callback that is added to a cancelled
  context is never called (`ASImageProtocols.h:98`: "The block to be invoked when
  the download has completed, or has failed").
* Layout, `Interferes = TRUE`, `LayoutSettles` and `SubnodesMatchLayout`: a
  transition that began before `setNeedsLayout` commits its older layout over
  the request. A disabled test says so:
  `src/Tests/ASLayoutEngineTests.mm:236-239`, "Correct behavior, we end up at
  fixture 4 since it's newer. Current incorrect behavior, we end up at fixture 2".

And by reading alone:

* Reloading an item of a section that is deleted in the same set fails an
  assertion ("Request to create _ASHierarchyItemChange with no items!",
  `_ASHierarchyChangeSet.mm:850`), although changes of items in deleted sections
  are ignored. `AcceptsWhatHappened` does not count it as something that happened.
* `asyncdisplaykit_asyncTransaction`, called from the hook while the
  transactions of the layer are cancelled, returns a transaction that is
  committed already (`_ASAsyncTransactionContainer.mm:40`; the header, line 58,
  says it can be added to).
* `waitUntilComplete` of an open transaction without operations returns without
  completing it (`_ASAsyncTransaction.mm:424`; header line 66).
* The notification of the render queue carries a timestamp taken after the
  display (`ASDisplayNode.mm:1299`), which the range controller compares with
  one taken before (`ASRangeController.mm:455`).
* A node that is asked for while it is called is called again in the same
  commit (`ASRunLoopQueue.mm:319`; `ASRunLoopQueue.h:57` speaks of one call).
* `_preExitingInterfaceState` outlives the turn if the commit finds nothing to
  apply (`ASDisplayNode.mm:2978`; the comment at 2865 has it the other way).
* The completion of one change set declares the data synchronized although
  another has begun (`ASDataController.mm:549`), and synchronization blocks are
  enumerated from the live set (552-555).
* `setURL:nil` before the background block reads the URL passes nil to the
  downloader. With the basic downloader, which passes no identifiers, a late
  answer for the old URL passes line 804, and a late cancellation error ends
  the download that has replaced it. A file URL sets its image without
  asking for the preload range (730-775).
* `displayImmediately` (`_ASDisplayLayer.mm:158`) does not cancel a display that
  is under way and ignores suspension (`_ASDisplayLayer.h:56-60`). A resumed
  subnode with empty bounds stays pending in its supernode.
* `cancelLayoutTransition`, "Can be called on any thread" (`ASDisplayNode.h:945`),
  leaves subnodes in layout pending state when it comes before the transition
  has marked them. A transition started from the measurement completion of
  another is wiped out by the outer one (`ASDisplayNode+Layout.mm:756`).
  `completeTransition:NO` "will set the original layout as the new layout"
  (`ASContextTransitioning.h:66`), but the value is ignored
  (`ASDisplayNode.mm:1143`).

## 6. Proofs

All for every value of the constants, from the assumptions named in the
modules (finite sets of operations and priorities, at least two threads, a
batch size of at least one, some URL, `None` that is no thread, bounds that are
numbers, a `MaxIndex` that is no less than the bounds of sections and items, the
types of the flags) and nothing else. Where a theorem assumes
values of the flags of the environment, its statement says so.

### ASAsyncTransactionQueueProofs

None of the checked invariants is inductive. Their common strengthening `IInv`
says: tickets are unique and ahead of `nextTicket` (`Tickets`); both lists of
an entry hold exactly its queued operations (`Queues`); a busy worker is alone
with its operation (`Workers`); the code's two counters count what they are for
(`ThreadCounts`, `PendingCounts`, as cardinalities); an entry exists exactly
as long as it has threads, and has one while it has operations (`Entries`); at
most one worker ignores priorities (`OneFifo`); and what the life of a group
says of its pending operations (`Groups`). The two counting parts carry the
argument: `exit` may erase an entry because the count is zero, and the count is
zero because no worker is alive. They need lemmas on how cardinalities
change when one element comes or goes.

`Invariance` proves `[]IInv`; `QueueSafety`, `QueueOrder`, `GroupLifetime` and
`GroupNotification` draw the run's invariants from it. `Implementation` proves
that each step is a step of `OperationGroup` or leaves its variables alone,
using `IInv` to show that the step which brings the pending count to zero is
the one that settles the group.

### ASAsyncTransactionProofs

Transactions, from `~HookReenters`, for any number of transactions, layers and
operations and any `MaxDepth`. Which operation runs when is the affair of
`OperationGroup`; here it is the stack that has to be understood. `GroupInv`
and `LifeInv` tie the state of a transaction to its group, its container and
what was called: it has completed exactly if it is complete, or committed
without operations, and is in the container until then. `LayerInv`: an open
transaction is the current one of its layer, and its container waits for the
commit or is in a commit on the stack. `CallInv` ties completion blocks to the
state and to frames. `StackInv` has four parts: what each frame knows
(`FramesAreRight`), what can be above what (`OrderIsRight`: no commit within a
commit or a cancel, no transaction completed while it is being completed), which
frames are on top or have the one they rely on above them (`PlacesAreRight`: a
wait that has committed the group finds its transaction committed, because the
commit is above it until it is done), and that nothing is being committed while
an open transaction is waited for (`WaitIsRight`). The stack becomes another one
by taking away and putting on a few frames (`Follows`), so each action says only
what is new. `CompletionBlocksAreInOrder`, `CompletionBlocksAreLate`,
`TransactionsCompleteOnce` and `WaitingCompletes` are read off it; for the
second, `SettledInv` remembers that a group which is settled stays so.

Displays, for any number of nodes. `DisplayInv`: sentinels of drawings are past
or current (`SentinelsArePast`), a drawing that is not cancelled is of the newest
version of a node that is not suspended (`CurrentAreRight`), contents are of a
past version (`ContentsArePast`). `ContentsAdvance` follows step by step.

### ASRangeControllerProofs

The run loop queue: `IInv` adds to the properties that no batch outlives a call
(`Idle`), that whoever enqueues into a queue that was drained has signalled
(`Signalled`: `NoLostWakeup` speaks only of a sleeping run loop and says nothing
of the time before), and that what was handed over has no other owner
(`HandedOver`). `NeverSleepsOnWork`, `RequestsAreKept`, `DeallocatesOnMainThread`
follow, and two more facts that no run checks: an exclusive queue holds an object
at most once (`MembershipIsExclusive`), and objects are called in the order they
came (`OrderIsKept`).

Ranges, for any number of cells, events and any tuning parameters, both modes.
`RangeInv` has the types of what the view has (`ViewInv`); what an update keeps
or restores (`NodesAreRight`); and `BackgroundInv`: in the background the mode is
one that coming to the foreground replaces, so that the update which is due
then is made although nothing else has changed. The part that is not obvious is
`VisibleInv`: where states are applied at once, a node that is visible is among
`_visibleNodes`, there is a window, and something is on screen. Without it
`OffscreenIsInvisible` is not inductive, since `_setVisibleNodes:` only tells
nodes that are in the set, and an update without visible index paths returns
early. The proof follows the calls of the code: `TakeStatesStep` (states of the
index paths visited), `UpdateNodesStep`, `UpdateRangesStep`,
`UpdateIfNeededStep`, then one lemma for each action, with `Inserted` and
`Removed` for what an edit does to positions and `QuietStep` for what no
update sees. `OutOfRangeIsOut`, `OffscreenCellsAreInvisible` and
`SettledCellsAreRight` are parts of it.

### ASInterfaceStateProofs

About the queue and the nodes together. `RacedIsSignalled` is the strengthening
that matters: an enqueue which the unlocked look may have missed has woken the
run loop up, for the buffer was empty. With it `NeverSleepsOnNodes`, with the
exact hash table (`HashSetIsExact`) `ChangesAreKept`: no request is lost,
for any number of nodes, any nesting of callbacks, coalescing or not,
re-entrant or not.

What nodes are told is proved from `~Reenters`, as the runs assume it: a
callback may change the state of any node but its own. `TellInv` keeps an
account for each node: what is left on the stack to tell it is the notices of
some set of ranges, and in just these what it was told differs from what is
applied (`Owes`); nobody is on the stack twice, and who is not on it is owed
nothing. The account is opened by `ApplyTells`, paid one range at a time by
`NotifyTells`, and settled by `ReturnTells`. `CallbacksAlternateAlways` and
`LastWordStands` read it off, and since the display range is in it,
`NothingIsLeftOver` follows: contents out of range are cleared by a callback
still to come or by a block of the main queue. Sequences of notices are taken
apart once, in `NoticesOfFacts`.

`ReturnIsSilent` needs no such assumption. A managed node that has just left
visible has kept its visibility (`KeepsVisible`): with coalescing in
`preExitingInterfaceState`, which every application clears, else in the state
itself, since the block that takes it back ends the turn.

### ASLockingProofs

`LockInv` says who has an unfair lock (`HoldersHaveIt`, `WaitersDoNot`), what
the count is (`CountIsRight`), what was last written to `_thread`
(`ThreadIsRight`), and what can still be read (`SeenIsRight`). The last part
carries the argument for the relaxed read: only thread `t` writes `t`, and
its own later write of `None` is the oldest value that it can read afterwards;
so it reads its own name only while it has the lock. All is proved for
`LockSpec`, which is any program, and `ASLocking` refines it: `LockTypeCorrect`,
`RelaxedIsEnough` (the assertions of the code), `TasksKeepAssertions`,
`MutualExclusion`, and `Implementation`, the refinement of `RecursiveLock`.

### ASDataControllerProofs

From `~HandlersUpdate`. `IsMapSequence` and `SafeToCompare` speak of two
numbers; what makes them true is where the maps on their way are: in the
delivery on top of the stack, then in the blocks of the serial queue, then in
the editing queue. `WayInv` says that these are in order, that none is older
than the visible or newer than the pending map, and that none between the two
is missing; so the one delivered is the next, or the same again for an empty
change set (`DeliveredIsNext`). `StackInv` says what can be below the top of the
stack: nothing that delivers, and a clear only under what it waits for.
`EditingInv` makes the count of the group that of the deliveries in the editing
queue. `QuietInv` says that once a relayout or a clear is past its wait, no
delivery sets out, so that both maps are the same when they are replaced
(`AllAreShown`). The proof takes one lemma for each step; steps that move no map
share `MainBecomes`, `MainCalls` and `NothingMoves`. `ViewFollowsMaps` is the
refinement, `ViewHasLastMap` the promise of `isProcessingUpdates`.

The second half is about `ASHierarchyChangeSet`, for data of any size and any
number of changes. What the code computes there, it computes by going through
sets of indexes one by one, and what is to be shown speaks of counting. In
between is `Free(i, S)`, how many indexes up to `i` are not in `S`: it grows by
one or not at all (`FreeSteps`, `FreeGrows`), and every count is taken by one
index that is free (`FreeFound`, `FreeIsUnique`). The argument goes

* from one step of a loop to all of it: `LeftFold`, `RightFold`,
  `RemoveFold`, `InsertFold` give the function of partial results, and
  `SubsetInduction` goes along it. The induction theorems of the library take an
  operator and cannot be used; this one takes a set of subsets instead and
  follows from the well-foundedness of `<` (`NatInductionBySets`);
* to what the loop computes: shifting to the left and to the right leaves exactly
  the indexes of the new list (`LeftShape`, `RightShape`), removing and inserting
  moves every object by what was removed and inserted before it
  (`ObjectsRemoved`, `ObjectsInserted`). So `MapForUpdate`: the mapping is what
  counting says; and `ListUpdated`: so is the list;
* to reloads: what is deleted and inserted for them disturbs no match of anything
  else (`Reloaded`), in sections and in the items of each section;
* to change sets: what happened passes each check of the validation
  (`HappenedIsValid`), and what passes the validation has room for the update
  (`SectionsAccepted`, `ItemsAccepted`), so that sections, headers and the
  items of each section are what they should be (`SectionsUpdated`,
  `HeadersUpdated`, `ItemsUpdated`, `UpdatedMapIsRight`).

`ChangesInv` is inductive and says that the mappings are made of the changes
(`MappingsAreOfTheChanges`);
`WhatHappenedIsAccepted` follows from it without any assumption. `AcceptedMaps`
needs `ElementMapInv`, that the map has been what the cached counts say ever
since the last update, and assumes `~Repeats` and `~UpdatesAfterClear`, the two
flags for what section 5 shows to break it.

### ASNetworkImageNodeProofs

`NothingOutOfPreload` needs little: only a node in the preload range takes an
image, and whoever leaves is cleared before the main thread does anything else.
`ImagesMatchURLs` (`~ChangesInLookups`, downloads with identifiers) needs
`UrlInv`: contexts keep their URLs and requests their contexts (`Grows`), and
answers, lookups, loads and the identifier of each node are those of its URL,
or of the context that they name. An answer that passes the check of line 804
names the identifier's context, so its image is that of the URL.

### ASLayoutTransitionProofs

`VersionInv` holds whatever interferes: no layout is newer than the node; a
layout of the node's version is of its configuration, once the change has been
told; and the layout that a running transition has measured is not older than
the calculated one, since nobody replaces that during a transition
(`CurrentIsNewer`). From it `LayoutAdvances`. `SubnodesMatch` assumes
`~Interferes` and `~Overlaps`; it adds that the version stays during a
transition, the layout during an animation, and that what an animation will
remove is what the node still has too many (`RemovalsWait`). `LayoutOrphans`
shows that it fails without the second assumption.

### Not proved

Every safety property and every refinement without fairness that a run checks
has its theorem. Liveness and everything about ENABLED are model-checked only,
for the prover has no rule for them: `FairPromiseKept`,
`EveryTransactionCompletes`, `QueueDrains`, `EveryRequestIsServed`,
`ChangesAreApplied`, `CellsOnScreenBecomeVisible`, `EveryTaskEnds`,
`EveryUpdateCompletes`, `SynchronizationIsAnnounced`, `SettledIsLoaded`,
`EveryDownloadAnswers`, `DisplaySettles` and `LayoutSettles`.

## 7. Assumptions of the models

* A locked region is one step, and so is what the main thread does between two
  points at which others can act or the application is called.
* Transactions: layers outlive their transactions, so the weak reference in
  the completion block is never nil; the hook for a transaction that begins,
  which does nothing unless overridden, is left out; nobody waits for a transaction from one of
  its own completion blocks.
* Interface state: a cell with its subnodes is one node, since
  `recursivelySetInterfaceState:` gives all the same state; visibility
  notifications are never disabled; in the passing run no callback changes its own
  node's state where states are applied at once (section 5), nor moves a node in
  or out of a hierarchy while its state is applied. `node.interfaceState |= s`
  (`ASDisplayNode.mm:2902`) reads and writes under the lock each by itself and
  is one step here: on the main thread nobody comes in between, and what another
  thread may take back by writing an older state is left out.
* Ranges: one section, a collection that is not within a range-managed node;
  symmetric buffers; the first load is part of the initial state; data, window
  and range mode do not change while the application is in the background; the
  owner clears a collection only off screen; tuning parameters do not change;
  UIKit does not lay out between invalidating the range and the updates block.
  Several blocks of `setNeedsUpdate` in the main queue count as one, since all
  but the first find nothing to do. The timestamp of the notification is left out.
* Locks: a sequence is not begun by a thread that has one of its locks already
  (`ASLocking.h:100-102`), and no sequence takes more locks than the set can hold
  (`TaskAssumption`). The debug fields of `AS::Mutex` mirror the lock and are
  left out.
* Data controller: what is in a map is left out. UIKit runs the updates block
  within `performBatchUpdates` and calls nobody in between; synchronization
  blocks do not call back; completion handlers start no update while a relayout
  or clearing waits (`HandlersUpdate`, section 5).
* Change sets: builds with assertions, in which a set that is refused raises an
  exception and ends the application; one call names one item or section (a
  reload of several raises only if all of them are gone,
  `_ASHierarchyChangeSet.mm:500`, `850`); no
  index path twice in one kind of change (`Repeats`), and `reloadData` first after
  the data was cleared (`UpdatesAfterClear`, both section 5); one header in each
  section, of a size that is not zero; the data source is there during an
  update. Waiting for the editing queue is in the
  data controller's module, and what UIKit is told is left out. Indexes begin with 1.
* Network images: the URL changes on the main thread with its reset, while no
  cache lookup is under way (`ChangesInLookups`, section 5), and to nil only
  when no download is being started. A session task that is through may report
  to be running until its delegate is called. Reading the URL and calling the downloader is one
  step, and so are the two locked regions of `cancel`. Left out: images set from
  outside, progress images, file URLs, `resetToDefault:NO`, deallocation.
* Display: nodes draw, are loaded and outlive their drawings; what is drawn is
  captured on the main thread; transactions of a layer complete in any order.
  Changed content is displayed immediately only while no current drawing is
  under way (section 5). Left out: rasterized subtrees, placeholders,
  `cancelAsyncTransactions`, the recursive variant of the account of pending
  displays (an experiment).
* Layout: beginning a transition, the invalidation, the new id and the marking of
  the subnodes (`ASDisplayNode+Layout.mm:647-662`), is one step: a block that comes
  in between belongs to a transition that is cancelled. One loaded node with a
  size that stays, subnodes without layouts of
  their own, whose order is left out; the configuration is changed on the main
  thread, which says so before anything else; a transition is cancelled on the
  main thread and followed by `setNeedsLayout`; the callbacks of a transition
  make no layout calls. The passing run and `SubnodesMatch` have `Interferes` and
  `Overlaps` FALSE; `LayoutAdvances` is proved for either.

## 8. Not modelled

* Layout specs and layout geometry: floating-point arithmetic, and one call
  that runs to its end.
* Text, drawing, animated images, video, maps: the system's frameworks compute
  them, behind locks held for a whole call.
* Tables, collections and controllers beyond what they tell the range
  controller: their behaviour is UIKit's, which is not in this repository.
* Yoga, IGListKit, PINRemoteImage: compiled only with libraries that are not in
  this repository.
* Dispatch helpers: a block that runs on the main thread, at once or later, is
  part of the actions that have it run.
* Multiplex images and batch fetching: no module yet (section 9).
* Deallocation of nodes, view loading and the pending state of views: bridging
  of properties, within one lock or on one thread.
* Configuration, logging, tips, debugging: diagnostics.

A remark on coverage: the implementation is in `.mm` files; headers mostly
declare and document. The definitions map to the lines of code, and to a header
only where it holds code (`ASThread.h`, `ASLocking.h`, `ASDisplayNodeLayout.h`). A
count of header lines that are mapped says therefore little.

## 9. Plan

Done: transactions, run loop queues, interface state and ranges (the path from
scrolling to pixels); locks; the data controller with its main serial queue;
change sets and integer maps; network images; asynchronous display; layout
transitions; proofs of all safety properties of these.

What is left, in order of use:

1. *Multiplex images*: the ladder of identifiers with late answers; quality
   never goes down.
2. *Batch fetching*: one fetch in flight, however many triggers.
3. *Proofs*: safety arguments that liveness rests on, such as that whoever
   waits for something has somebody who will do it, as far as they are not
   among the invariants already.

Runs are kept few: a module shares the run of another where they ask the same
question, what is proved is run only where the run shows more than the proof,
and a violation run goes when a stronger one shows its cause.
