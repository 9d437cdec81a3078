-------------------------- MODULE ASRunLoopQueue --------------------------
(***************************************************************************)
(* ASRunLoopQueue (ASRunLoopQueue.mm): objects that any thread enqueues     *)
(* and that the run loop of the main thread takes out, a batch each time    *)
(* it is about to sleep.  A queue is created with any of its flags; two     *)
(* exist: the render queue of ASDisplayNode.mm (weak, exclusive, a handler  *)
(* that displays) and the queue of ASPerformMainThreadDeallocation (strong, *)
(* no handler: to be taken out is to be released).                          *)
(*                                                                         *)
(* A slot of the queue is the number of the call of enqueue that filled it, *)
(* so that the order of the slots of a set is that of the queue.            *)
(***************************************************************************)
EXTENDS Sequences, FiniteSets, Integers

CONSTANTS
  Object,    \* what is enqueued
  BatchSize, \* batchSize
  MaxAdded   \* bound on the slots that are ever filled

ASSUME BatchAssumption == BatchSize \in Nat \ {0}
ASSUME BoundAssumption == MaxAdded \in Nat

VARIABLES
  retainsObjects, ensureExclusiveMembership, \* the flags of the queue,
  hasHandler,     \* and whether there is a queueConsumer; they never change
  added,          \* the object of each slot ever filled
  internalQueue,  \* _internalQueue
  itemsToProcess, \* of the call of processQueue that is going on
  isQueueDrained, \* of that call
  loop,           \* events, processing, displaying (in the handler) or waiting
  wokenUp,        \* CFRunLoopWakeUp was called since the loop last woke up
  owned,          \* objects the rest of the program refers to
  requested,      \* objects enqueued and not handled since
  posted,         \* the handler has just posted that scheduled nodes are displayed
  diedElsewhere   \* objects released for the last time outside of the main loop

queueKind == <<retainsObjects, ensureExclusiveMembership, hasHandler>>
queueVars == <<added, internalQueue>>
batchVars == <<itemsToProcess, isQueueDrained>>
vars == <<queueKind, queueVars, batchVars, loop, wokenUp, owned, requested, posted, diedElsewhere>>

Items(slots) == {added[i] : i \in slots}

(* A weak slot whose object was deallocated reads as NULL. *)
Alive(o) == \/ o \in owned
            \/ o \in Items(itemsToProcess)
            \/ retainsObjects /\ o \in Items(internalQueue)
LiveSlots == {i \in internalQueue : Alive(added[i])}

Init ==
  /\ retainsObjects \in BOOLEAN /\ ensureExclusiveMembership \in BOOLEAN /\ hasHandler \in BOOLEAN
  /\ added = <<>> /\ internalQueue = {}
  /\ itemsToProcess = {} /\ isQueueDrained = TRUE
  /\ loop = "events" /\ wokenUp = FALSE
  /\ owned = Object
  /\ requested = {} /\ posted = FALSE /\ diedElsewhere = {}

-----------------------------------------------------------------------------
(* Any thread, in the critical section of _internalQueueLock.               *)
IsMember(o) == o \in Items(internalQueue)

fill(o) ==
  /\ Len(added) < MaxAdded
  /\ added' = Append(added, o)
  /\ internalQueue' = internalQueue \cup {Len(added) + 1}

addUnless(foundObject, o, signals) ==
  /\ requested' = requested \cup {o}
  /\ IF foundObject THEN UNCHANGED <<queueVars, wokenUp>>
     ELSE fill(o) /\ wokenUp' = (wokenUp \/ signals)

IsFirst == internalQueue = {}

(* Mutated: only the first object ever wakes the run loop up. *)
addSignalingOnce(o) == addUnless(ensureExclusiveMembership /\ IsMember(o), o, added = <<>>)

add(o) == addUnless(ensureExclusiveMembership /\ IsMember(o), o, IsFirst)

(* The item that the handler is called with next or right now. *)
IsNext(i) == i \in itemsToProcess /\ \A j \in itemsToProcess : i <= j

(* The handler may enqueue the very object it is called with. *)
enqueue(o) ==
  /\ hasHandler
  /\ \/ o \in owned
     \/ loop = "displaying" /\ \E i \in itemsToProcess : IsNext(i) /\ o = added[i]
  /\ add(o)
  /\ posted' = FALSE
  /\ UNCHANGED <<batchVars, loop, owned, diedElsewhere>>

(* The rest of the program drops its last reference. *)
release(o) ==
  /\ o \in owned
  /\ owned' = owned \ {o}
  /\ diedElsewhere' = IF o \in Items(itemsToProcess) \/ (retainsObjects /\ IsMember(o))
                      THEN diedElsewhere ELSE diedElsewhere \cup {o}
  /\ posted' = FALSE
  /\ UNCHANGED <<queueVars, batchVars, loop, wokenUp, requested>>

(* Mutated: the reference is dropped later, outside of the lock. *)
enqueueThenRelease(o) ==
  /\ o \in owned /\ ~hasHandler
  /\ add(o)
  /\ posted' = FALSE
  /\ UNCHANGED <<batchVars, loop, owned, diedElsewhere>>

(* The caller's reference is exchanged for that of the queue, which is      *)
(* locked meanwhile.                                                        *)
performMainThreadDeallocation(o) ==
  /\ o \in owned /\ ~hasHandler
  /\ add(o)
  /\ owned' = owned \ {o}
  /\ diedElsewhere' = IF retainsObjects THEN diedElsewhere ELSE diedElsewhere \cup {o}
  /\ posted' = FALSE
  /\ UNCHANGED <<batchVars, loop>>

-----------------------------------------------------------------------------
(* The main thread.                                                         *)
takeBatch(taken, left) ==
  /\ loop = "events"
  /\ internalQueue' = left
  /\ isQueueDrained' = (left = {})
  /\ itemsToProcess' = IF hasHandler THEN taken ELSE {}
  /\ requested' = IF hasHandler THEN requested ELSE requested \ Items(taken)
  /\ loop' = "processing" /\ posted' = FALSE
  /\ UNCHANGED <<added, wokenUp, owned, diedElsewhere>>

(* The first objects that are alive. *)
Batch == {i \in LiveSlots : Cardinality({j \in LiveSlots : j < i}) < BatchSize}

(* Mutated: no NULL is added, so that compact does nothing. *)
processCompactingTaken == takeBatch(Batch, IF Batch = {} THEN internalQueue ELSE LiveSlots \ Batch)

(* The run loop is about to sleep: takes the next objects that are alive    *)
(* and compacts the queue.  An empty queue is drained, and nothing follows. *)
processQueue == takeBatch(Batch, LiveSlots \ Batch)

callConsumer ==
  /\ loop = "processing"
  /\ \E i \in itemsToProcess : IsNext(i) /\ requested' = requested \ {added[i]}
  /\ loop' = "displaying" /\ posted' = FALSE
  /\ UNCHANGED <<queueVars, batchVars, wokenUp, owned, diedElsewhere>>

(* Having displayed the last object of a drained queue, the handler posts   *)
(* ASRenderingEngineDidDisplayScheduledNodes.                               *)
returnFromConsumer ==
  /\ loop = "displaying"
  /\ \E i \in itemsToProcess : IsNext(i) /\ itemsToProcess' = itemsToProcess \ {i}
  /\ posted' = (isQueueDrained /\ itemsToProcess' = {})
  /\ loop' = "processing"
  /\ UNCHANGED <<queueVars, isQueueDrained, wokenUp, owned, requested, diedElsewhere>>

finishProcessing ==
  /\ loop = "processing" /\ itemsToProcess = {}
  /\ wokenUp' = (wokenUp \/ ~isQueueDrained)
  /\ loop' = "waiting" /\ posted' = FALSE
  /\ UNCHANGED <<queueVars, batchVars, owned, requested, diedElsewhere>>

(* The run loop, of the system: wakes up when told to, and for events of    *)
(* others.                                                                  *)
wakeUp ==
  /\ loop = "waiting" /\ wokenUp
  /\ loop' = "events" /\ wokenUp' = FALSE /\ posted' = FALSE
  /\ UNCHANGED <<queueVars, batchVars, owned, requested, diedElsewhere>>

otherEvent ==
  /\ loop = "waiting" /\ ~wokenUp
  /\ loop' = "events" /\ posted' = FALSE
  /\ UNCHANGED <<queueVars, batchVars, wokenUp, owned, requested, diedElsewhere>>

Program(o) == enqueue(o) \/ release(o) \/ performMainThreadDeallocation(o)
MainThread == processQueue \/ callConsumer \/ returnFromConsumer \/ finishProcessing \/ wakeUp

Next ==
  /\ MainThread \/ otherEvent \/ \E o \in Object : Program(o)
  /\ UNCHANGED queueKind

Spec == Init /\ [][Next]_vars

(* The main thread keeps running; nobody has to enqueue anything and no     *)
(* other event has to come.                                                 *)
FairSpec == Spec /\ WF_vars(MainThread /\ UNCHANGED queueKind)

-----------------------------------------------------------------------------
TypeOK ==
  /\ retainsObjects \in BOOLEAN /\ ensureExclusiveMembership \in BOOLEAN /\ hasHandler \in BOOLEAN
  /\ added \in Seq(Object)
  /\ internalQueue \subseteq DOMAIN added /\ itemsToProcess \subseteq DOMAIN added
  /\ isQueueDrained \in BOOLEAN /\ wokenUp \in BOOLEAN /\ posted \in BOOLEAN
  /\ loop \in {"events", "processing", "displaying", "waiting"}
  /\ owned \subseteq Object /\ requested \subseteq Object /\ diedElsewhere \subseteq Object

(* The run loop never sleeps on a queue that has something in it, although  *)
(* only the call that finds the queue empty wakes it up: a batch that       *)
(* leaves objects behind does, and so did whoever came first.               *)
NoLostWakeup == loop = "waiting" /\ internalQueue # {} => wokenUp

(* What enqueue leaves out because it is there already is going to be       *)
(* handled: between being taken and being handled an object can be          *)
(* enqueued again.                                                          *)
NoLostRequest ==
  \A o \in requested :
    Alive(o) => \/ IsMember(o)
                \/ loop = "processing" /\ o \in Items(itemsToProcess)
                \/ loop = "displaying" /\ o \in Items({i \in itemsToProcess : ~IsNext(i)})

(* A second request for a display while the first waits costs nothing.      *)
ExclusiveMembership ==
  ensureExclusiveMembership => \A i, j \in internalQueue : added[i] = added[j] => i = j

(* Objects are handled in the order they came: what is taken came before    *)
(* all that stays.                                                          *)
FirstComeFirstServed == \A i \in itemsToProcess : \A j \in internalQueue : i < j

(* What is handed over for deallocation dies on the main thread, whatever   *)
(* the queue and its caller do at the same time.                            *)
DiesOnMainThread ==
  retainsObjects /\ ~hasHandler => \A i \in DOMAIN added : added[i] \notin diedElsewhere

(* The queue empties, also of objects that died in it (the NULL that        *)
(* processQueue adds).                                                      *)
QueueDrains == internalQueue # {} ~> internalQueue = {}

(* Each object that is enqueued is handled unless it dies first.            *)
EveryRequestIsServed == \A o \in Object : o \in requested ~> (o \notin requested \/ ~Alive(o))

-----------------------------------------------------------------------------
(* What ASRangeController.mm says of the notification and the queue does    *)
(* not do.                                                                  *)

(* "as soon as all the currently-scheduled rendering is done" a change of   *)
(* range mode is scheduled, for which it waits for the notification.        *)
DoneIsPosted == hasHandler /\ internalQueue # {} ~> posted
=============================================================================
