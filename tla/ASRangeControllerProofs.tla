------------------------ MODULE ASRangeControllerProofs ------------------------
(***************************************************************************)
(* Proofs about ASRangeController, for any cells, buffers and range modes  *)
(* and any number of events, and about ASRunLoopQueue, whose notification  *)
(* it waits for, for any objects, batch size and flags.                    *)
(***************************************************************************)
EXTENDS ASRangeController, ASRunLoopQueue, FiniteSetTheorems, SequenceTheorems, TLAPS

-----------------------------------------------------------------------------
(* The run loop queue                                                       *)

(* Outside of a call of processQueue nothing is left of its batch. *)
Idle == loop \in {"events", "waiting"} => itemsToProcess = {}

(* While a drained batch is handled, whoever finds the queue empty wakes    *)
(* the run loop up.                                                         *)
Signalled == loop # "events" /\ isQueueDrained /\ internalQueue # {} => wokenUp

(* What is handed over has no other reference, and what died had none. *)
HandedOver ==
  ~hasHandler =>
    /\ \A i \in DOMAIN added : added[i] \notin owned
    /\ diedElsewhere \cap owned = {}
    /\ retainsObjects => \A i \in DOMAIN added : added[i] \notin diedElsewhere

IInv ==
  /\ TypeOK /\ Idle /\ Signalled /\ HandedOver
  /\ NoLostWakeup /\ NoLostRequest /\ ExclusiveMembership /\ FirstComeFirstServed

-----------------------------------------------------------------------------
(* The operators of the model                                               *)

(* A batch is taken from the live slots and leaves none of them out. *)
LEMMA BatchIsLive == Batch \subseteq LiveSlots /\ LiveSlots \subseteq internalQueue
BY DEF Batch, LiveSlots

(* What a batch takes came before what it leaves. *)
LEMMA BatchIsFirst ==
  ASSUME TypeOK, NEW i \in Batch, NEW j \in LiveSlots \ Batch
  PROVE  i < j
<1> DEFINE Before(k) == {l \in LiveSlots : l < k}
<1>1. LiveSlots \subseteq 1..Len(added) /\ Len(added) \in Nat
  BY DEF TypeOK, LiveSlots
<1>2. IsFiniteSet(1..Len(added))
  BY <1>1, FS_Interval
<1>3. \A k : IsFiniteSet(Before(k)) /\ Cardinality(Before(k)) \in Nat
  <2>1. \A k : Before(k) \subseteq 1..Len(added)
    BY <1>1
  <2> QED
    BY <1>2, <2>1, FS_Subset, FS_CardinalityType
<1>4. Cardinality(Before(i)) < BatchSize /\ ~(Cardinality(Before(j)) < BatchSize)
  BY DEF Batch
<1>5. i \in Nat /\ j \in Nat /\ BatchSize \in Nat
  BY <1>1, BatchAssumption DEF Batch
<1>6. ASSUME ~(i < j) PROVE FALSE
  <2>1. \A l \in Nat : l < j => l < i
    BY <1>5, <1>6
  <2>2. LiveSlots \subseteq Nat
    BY <1>1
  <2>3. Before(j) \subseteq Before(i)
    BY <2>1, <2>2
  <2>4. Cardinality(Before(j)) <= Cardinality(Before(i))
    BY <1>3, <2>3, FS_Subset
  <2> HIDE DEF Before
  <2> QED
    BY <1>3, <1>4, <1>5, <2>4
<1> QED
  BY <1>6

(* A filled slot is the last one; the others keep their objects. *)
LEMMA FillFacts ==
  ASSUME TypeOK, NEW o \in Object, fill(o)
  PROVE  /\ added' \in Seq(Object) /\ Len(added') = Len(added) + 1
         /\ DOMAIN added' = DOMAIN added \cup {Len(added) + 1}
         /\ \A i \in DOMAIN added : added'[i] = added[i]
         /\ added'[Len(added) + 1] = o
         /\ internalQueue' = internalQueue \cup {Len(added) + 1}
         /\ Len(added) + 1 \notin DOMAIN added
         /\ \A i \in DOMAIN added : i < Len(added) + 1
BY DEF TypeOK, fill

-----------------------------------------------------------------------------
LEMMA InitIInv == Init => IInv
<1> SUFFICES ASSUME Init PROVE IInv
  OBVIOUS
<1>1. TypeOK
  <2>1. added \in Seq(Object) /\ internalQueue \subseteq DOMAIN added /\ itemsToProcess \subseteq DOMAIN added
    BY SMT DEF Init
  <2>2. /\ isQueueDrained \in BOOLEAN /\ wokenUp \in BOOLEAN /\ posted \in BOOLEAN
        /\ retainsObjects \in BOOLEAN /\ ensureExclusiveMembership \in BOOLEAN /\ hasHandler \in BOOLEAN
    BY Zenon DEF Init
  <2>3. /\ loop \in {"events", "processing", "displaying", "waiting"}
        /\ owned \subseteq Object /\ requested \subseteq Object /\ diedElsewhere \subseteq Object
    BY DEF Init
  <2> QED
    BY <2>1, <2>2, <2>3 DEF TypeOK
<1>2. Idle /\ Signalled /\ HandedOver
  BY DEF Init, Idle, Signalled, HandedOver, DiesOnMainThread
<1>3. NoLostWakeup /\ NoLostRequest /\ ExclusiveMembership /\ FirstComeFirstServed
  BY DEF Init, NoLostWakeup, NoLostRequest, ExclusiveMembership, FirstComeFirstServed
<1> QED
  BY <1>1, <1>2, <1>3 DEF IInv

-----------------------------------------------------------------------------
(* What any thread adds in the critical section of the queue, whatever      *)
(* becomes of its own reference.                                            *)
LEMMA AddKeeps ==
  ASSUME IInv, NEW o \in Object, add(o), UNCHANGED <<batchVars, loop>>, owned' \subseteq owned,
         UNCHANGED <<retainsObjects, ensureExclusiveMembership, hasHandler>>, posted' \in BOOLEAN, diedElsewhere' \subseteq Object
  PROVE  /\ TypeOK' /\ Idle' /\ Signalled'
         /\ NoLostWakeup' /\ NoLostRequest' /\ ExclusiveMembership' /\ FirstComeFirstServed'
         /\ \A i \in DOMAIN added' : (i \in DOMAIN added /\ added'[i] = added[i]) \/ added'[i] = o
<1> DEFINE found == ensureExclusiveMembership /\ IsMember(o)
           new == Len(added) + 1
<1>1. IInv /\ requested' = requested \cup {o} /\ UNCHANGED <<itemsToProcess, isQueueDrained, loop>>
  BY DEF add, addUnless, batchVars
<1>2. CASE found
  <2>1. UNCHANGED <<added, internalQueue, wokenUp>> /\ IsMember(o)
    BY <1>2 DEF add, addUnless, queueVars
  <2>2. TypeOK'
    BY <1>1, <2>1 DEF IInv, TypeOK
  <2>3. Idle' /\ Signalled' /\ NoLostWakeup' /\ ExclusiveMembership' /\ FirstComeFirstServed'
    BY <1>1, <2>1 DEF IInv, Idle, Signalled, NoLostWakeup, ExclusiveMembership, FirstComeFirstServed
  <2>4. NoLostRequest'
    <3> SUFFICES ASSUME NEW r \in requested', Alive(r)'
                 PROVE  \/ IsMember(r)'
                        \/ loop' = "processing" /\ r \in Items(itemsToProcess)'
                        \/ loop' = "displaying" /\ r \in Items({i \in itemsToProcess : ~IsNext(i)})'
      BY DEF NoLostRequest
    <3>1. IsMember(o)'
      BY <2>1 DEF IsMember, Items
    <3>2. Alive(r)
      BY <1>1, <2>1 DEF Alive, Items
    <3>3. CASE r # o
      <4>1. r \in requested
        BY <1>1, <3>3
      <4> QED
        BY <1>1, <2>1, <3>2, <4>1 DEF IInv, NoLostRequest, IsMember, Items, IsNext
    <3> QED
      BY <3>1, <3>3
  <2>5. \A i \in DOMAIN added' : i \in DOMAIN added /\ added'[i] = added[i]
    BY <2>1
  <2> QED
    BY <2>2, <2>3, <2>4, <2>5
<1>3. CASE ~found
  <2>1. fill(o) /\ wokenUp' = (wokenUp \/ internalQueue = {})
    BY <1>3 DEF add, addUnless, IsFirst
  <2>2. /\ added' \in Seq(Object) /\ DOMAIN added' = DOMAIN added \cup {new}
        /\ \A i \in DOMAIN added : added'[i] = added[i]
        /\ added'[new] = o
        /\ internalQueue' = internalQueue \cup {new}
        /\ new \notin DOMAIN added
        /\ \A i \in DOMAIN added : i < new
    BY <2>1, FillFacts DEF IInv
  <2>3. internalQueue \subseteq DOMAIN added /\ itemsToProcess \subseteq DOMAIN added
    BY DEF IInv, TypeOK
  <2> HIDE DEF new
  <2>4. TypeOK'
    <3>1. wokenUp' \in BOOLEAN
      BY <2>1 DEF IInv, TypeOK
    <3> QED
      BY <1>1, <2>2, <3>1 DEF IInv, TypeOK
  <2>5. Idle' /\ Signalled' /\ NoLostWakeup'
    BY <1>1, <2>1 DEF IInv, Idle, Signalled, NoLostWakeup
  <2>6. ExclusiveMembership'
    <3> SUFFICES ASSUME ensureExclusiveMembership, NEW i \in internalQueue', NEW j \in internalQueue',
                        added'[i] = added'[j]
                 PROVE  i = j
      BY DEF ExclusiveMembership
    <3>1. \A k \in internalQueue : added[k] # o
      BY <1>3 DEF IsMember, Items
    <3> QED
      BY <2>2, <2>3, <3>1 DEF IInv, ExclusiveMembership
  <2>7. FirstComeFirstServed'
    BY <1>1, <2>2, <2>3 DEF IInv, FirstComeFirstServed
  <2>8. NoLostRequest'
    <3> SUFFICES ASSUME NEW r \in requested', Alive(r)'
                 PROVE  \/ IsMember(r)'
                        \/ loop' = "processing" /\ r \in Items(itemsToProcess)'
                        \/ loop' = "displaying" /\ r \in Items({i \in itemsToProcess : ~IsNext(i)})'
      BY DEF NoLostRequest
    <3>1. IsMember(o)'
      BY <2>2 DEF IsMember, Items
    <3>2. CASE r # o
      <4>1. r \in requested
        BY <1>1, <3>2
      <4>2. Alive(r)
        BY <1>1, <2>2, <2>3, <3>2 DEF Alive, Items
      <4>3. \/ IsMember(r)
            \/ loop = "processing" /\ r \in Items(itemsToProcess)
            \/ loop = "displaying" /\ r \in Items({i \in itemsToProcess : ~IsNext(i)})
        BY <4>1, <4>2 DEF IInv, NoLostRequest
      <4> QED
        BY <1>1, <2>2, <2>3, <4>3 DEF IsMember, Items, IsNext
    <3> QED
      BY <3>1, <3>2
  <2> QED
    BY <2>2, <2>4, <2>5, <2>6, <2>7, <2>8
<1> QED
  BY <1>2, <1>3

LEMMA EnqueueStep ==
  ASSUME IInv, NEW o \in Object, enqueue(o),
         UNCHANGED <<retainsObjects, ensureExclusiveMembership, hasHandler>>
  PROVE  IInv'
<1>1. /\ hasHandler /\ add(o) /\ UNCHANGED <<batchVars, loop>> /\ owned' \subseteq owned
      /\ posted' = FALSE /\ UNCHANGED diedElsewhere
  BY DEF enqueue
<1>2. posted' \in BOOLEAN /\ diedElsewhere' \subseteq Object
  BY <1>1 DEF IInv, TypeOK
<1>3. /\ TypeOK' /\ Idle' /\ Signalled'
      /\ NoLostWakeup' /\ NoLostRequest' /\ ExclusiveMembership' /\ FirstComeFirstServed'
  BY <1>1, <1>2, AddKeeps
<1>4. HandedOver'
  BY <1>1 DEF HandedOver
<1> QED
  BY <1>3, <1>4 DEF IInv

LEMMA PerformMainThreadDeallocationStep ==
  ASSUME IInv, NEW o \in Object, performMainThreadDeallocation(o),
         UNCHANGED <<retainsObjects, ensureExclusiveMembership, hasHandler>>
  PROVE  IInv'
<1>1. /\ ~hasHandler /\ add(o) /\ UNCHANGED <<batchVars, loop>>
      /\ owned' = owned \ {o} /\ posted' = FALSE
      /\ diedElsewhere' = IF retainsObjects THEN diedElsewhere ELSE diedElsewhere \cup {o}
      /\ o \in owned
  BY DEF performMainThreadDeallocation
<1>2. posted' \in BOOLEAN /\ diedElsewhere' \subseteq Object
  BY <1>1 DEF IInv, TypeOK
<1>3. /\ TypeOK' /\ Idle' /\ Signalled'
      /\ NoLostWakeup' /\ NoLostRequest' /\ ExclusiveMembership' /\ FirstComeFirstServed'
      /\ \A i \in DOMAIN added' : (i \in DOMAIN added /\ added'[i] = added[i]) \/ added'[i] = o
  BY <1>1, <1>2, AddKeeps
<1>4. HandedOver'
  BY <1>1, <1>3 DEF IInv, HandedOver, DiesOnMainThread
<1> QED
  BY <1>3, <1>4 DEF IInv

-----------------------------------------------------------------------------
(* The steps that leave the slots alone.  What is alive after them was      *)
(* alive before.                                                            *)
LEMMA ReleaseStep ==
  ASSUME IInv, NEW o \in Object, release(o),
         UNCHANGED <<retainsObjects, ensureExclusiveMembership, hasHandler>>
  PROVE  IInv'
<1>1. /\ owned' = owned \ {o} /\ posted' = FALSE /\ o \in owned
      /\ diedElsewhere' \subseteq diedElsewhere \cup {o}
      /\ UNCHANGED <<added, internalQueue, itemsToProcess, isQueueDrained, loop, wokenUp, requested>>
  BY DEF release, queueVars, batchVars
<1>2. TypeOK'
  BY <1>1 DEF IInv, TypeOK
<1>3. Idle' /\ Signalled' /\ NoLostWakeup' /\ ExclusiveMembership' /\ FirstComeFirstServed'
  BY <1>1 DEF IInv, Idle, Signalled, NoLostWakeup, ExclusiveMembership, FirstComeFirstServed
<1>4. HandedOver'
  BY <1>1 DEF IInv, HandedOver, DiesOnMainThread
<1>5. \A r : Alive(r)' => Alive(r)
  BY <1>1 DEF Alive, Items
<1>6. NoLostRequest'
  BY <1>1, <1>5 DEF IInv, NoLostRequest, IsMember, Items, IsNext
<1> QED
  BY <1>2, <1>3, <1>4, <1>6 DEF IInv

LEMMA ProcessQueueStep ==
  ASSUME IInv, processQueue,
         UNCHANGED <<retainsObjects, ensureExclusiveMembership, hasHandler>>
  PROVE  IInv'
<1>1. /\ loop = "events" /\ loop' = "processing" /\ posted' = FALSE
      /\ internalQueue' = LiveSlots \ Batch
      /\ isQueueDrained' = (internalQueue' = {})
      /\ itemsToProcess' = IF hasHandler THEN Batch ELSE {}
      /\ requested' = IF hasHandler THEN requested ELSE requested \ Items(Batch)
      /\ UNCHANGED <<added, wokenUp, owned, diedElsewhere>>
  BY DEF processQueue, takeBatch
<1>2. itemsToProcess' \subseteq Batch /\ Batch \subseteq LiveSlots /\ LiveSlots \subseteq internalQueue
  BY <1>1, BatchIsLive
<1>3. TypeOK'
  <2>1. isQueueDrained' \in BOOLEAN /\ posted' \in BOOLEAN
    BY <1>1
  <2>2. requested' \subseteq requested
    BY <1>1
  <2> QED
    BY <1>1, <1>2, <2>1, <2>2 DEF IInv, TypeOK
<1>4. Idle' /\ NoLostWakeup' /\ Signalled' /\ HandedOver'
  BY <1>1 DEF IInv, Idle, NoLostWakeup, Signalled, HandedOver, DiesOnMainThread
<1>5. ExclusiveMembership'
  BY <1>1, <1>2 DEF IInv, ExclusiveMembership
<1>6. FirstComeFirstServed'
  BY <1>1, <1>2, BatchIsFirst DEF IInv, FirstComeFirstServed
<1>7. NoLostRequest'
  <2> SUFFICES ASSUME NEW r \in requested', Alive(r)'
               PROVE  IsMember(r)' \/ (loop' = "processing" /\ r \in Items(itemsToProcess)')
    BY DEF NoLostRequest
  <2>1. r \in requested
    BY <1>1
  <2>2. Alive(r)
    <3>1. \A i \in LiveSlots : Alive(added[i])
      BY DEF LiveSlots
    <3> QED
      BY <1>1, <1>2, <3>1 DEF Alive, Items
  <2>3. IsMember(r)
    BY <1>1, <2>1, <2>2 DEF IInv, NoLostRequest
  <2>4. PICK i \in LiveSlots : added[i] = r
    BY <2>2, <2>3 DEF IsMember, Items, LiveSlots
  <2>5. CASE i \notin Batch
    BY <1>1, <2>4, <2>5 DEF IsMember, Items
  <2>6. CASE i \in Batch
    <3>1. r \in Items(Batch)
      BY <2>4, <2>6 DEF Items
    <3>2. hasHandler
      BY <1>1, <3>1
    <3>3. r \in Items(itemsToProcess)'
      BY <1>1, <2>4, <2>6, <3>2 DEF Items
    <3> QED
      BY <1>1, <3>3
  <2> QED
    BY <2>5, <2>6
<1> QED
  BY <1>3, <1>4, <1>5, <1>6, <1>7 DEF IInv

LEMMA CallConsumerStep ==
  ASSUME IInv, callConsumer,
         UNCHANGED <<retainsObjects, ensureExclusiveMembership, hasHandler>>
  PROVE  IInv'
<1>1. PICK i \in itemsToProcess : IsNext(i) /\ requested' = requested \ {added[i]}
  BY DEF callConsumer
<1>2. /\ loop = "processing" /\ loop' = "displaying" /\ posted' = FALSE
      /\ UNCHANGED <<added, internalQueue, itemsToProcess, isQueueDrained, wokenUp, owned, diedElsewhere>>
  BY DEF callConsumer, queueVars, batchVars
<1>3. TypeOK'
  BY <1>1, <1>2 DEF IInv, TypeOK
<1>4. Idle' /\ Signalled' /\ NoLostWakeup' /\ ExclusiveMembership' /\ FirstComeFirstServed' /\ HandedOver'
  BY <1>2 DEF IInv, Idle, Signalled, NoLostWakeup, ExclusiveMembership, FirstComeFirstServed, HandedOver,
                 DiesOnMainThread
<1>5. NoLostRequest'
  <2> SUFFICES ASSUME NEW r \in requested', Alive(r)'
               PROVE  IsMember(r)' \/ (loop' = "displaying" /\ r \in Items({k \in itemsToProcess : ~IsNext(k)})')
    BY DEF NoLostRequest
  <2>1. Alive(r) /\ r \in requested /\ r # added[i]
    BY <1>1, <1>2 DEF Alive, Items
  <2>2. CASE IsMember(r)
    BY <1>2, <2>2 DEF IsMember, Items
  <2>3. CASE r \in Items(itemsToProcess)
    <3>1. PICK k \in itemsToProcess : added[k] = r
      BY <2>3 DEF Items
    <3>2. i \in Nat /\ k \in Nat
      BY DEF IInv, TypeOK
    <3>3. ~IsNext(k)
      BY <1>1, <2>1, <3>1, <3>2 DEF IsNext
    <3> QED
      BY <1>2, <3>1, <3>3 DEF Items, IsNext
  <2> QED
    BY <1>2, <2>1, <2>2, <2>3 DEF IInv, NoLostRequest
<1> QED
  BY <1>3, <1>4, <1>5 DEF IInv

LEMMA ReturnFromConsumerStep ==
  ASSUME IInv, returnFromConsumer,
         UNCHANGED <<retainsObjects, ensureExclusiveMembership, hasHandler>>
  PROVE  IInv'
<1>1. PICK i \in itemsToProcess : IsNext(i) /\ itemsToProcess' = itemsToProcess \ {i}
  BY DEF returnFromConsumer
<1>2. /\ loop = "displaying" /\ loop' = "processing"
      /\ posted' = (isQueueDrained /\ itemsToProcess' = {})
      /\ UNCHANGED <<added, internalQueue, isQueueDrained, wokenUp, owned, requested, diedElsewhere>>
  BY DEF returnFromConsumer, queueVars
<1>3. TypeOK'
  <2>1. posted' \in BOOLEAN
    BY <1>2
  <2> QED
    BY <1>1, <1>2, <2>1 DEF IInv, TypeOK
<1>4. Idle' /\ Signalled' /\ NoLostWakeup' /\ ExclusiveMembership' /\ FirstComeFirstServed' /\ HandedOver'
  BY <1>1, <1>2 DEF IInv, Idle, Signalled, NoLostWakeup, ExclusiveMembership, FirstComeFirstServed, HandedOver,
                 DiesOnMainThread
<1>5. NoLostRequest'
  <2> SUFFICES ASSUME NEW r \in requested', Alive(r)'
               PROVE  IsMember(r)' \/ (loop' = "processing" /\ r \in Items(itemsToProcess)')
    BY DEF NoLostRequest
  <2>1. Alive(r) /\ r \in requested
    BY <1>1, <1>2 DEF Alive, Items
  <2>2. CASE IsMember(r)
    BY <1>2, <2>2 DEF IsMember, Items
  <2>3. CASE r \in Items({k \in itemsToProcess : ~IsNext(k)})
    <3>1. PICK k \in itemsToProcess : ~IsNext(k) /\ added[k] = r
      BY <2>3 DEF Items
    <3>2. k \in itemsToProcess'
      BY <1>1, <3>1
    <3> QED
      BY <1>2, <3>1, <3>2 DEF Items
  <2> QED
    BY <1>2, <2>1, <2>2, <2>3 DEF IInv, NoLostRequest
<1> QED
  BY <1>3, <1>4, <1>5 DEF IInv

(* The run loop goes to sleep and wakes up. *)
LEMMA RunLoopStep ==
  ASSUME IInv, finishProcessing \/ wakeUp \/ otherEvent,
         UNCHANGED <<retainsObjects, ensureExclusiveMembership, hasHandler>>
  PROVE  IInv'
<1>1. /\ UNCHANGED <<added, internalQueue, itemsToProcess, isQueueDrained, owned, requested, diedElsewhere>>
      /\ itemsToProcess = {} /\ posted' = FALSE
      /\ \/ loop = "processing" /\ loop' = "waiting" /\ wokenUp' = (wokenUp \/ ~isQueueDrained)
         \/ loop = "waiting" /\ loop' = "events" /\ wokenUp' = FALSE
  BY DEF finishProcessing, wakeUp, otherEvent, queueVars, batchVars, IInv, Idle, TypeOK
<1>2. TypeOK'
  <2>1. wokenUp' \in BOOLEAN
    BY <1>1 DEF IInv, TypeOK
  <2>2. loop' \in {"events", "processing", "displaying", "waiting"}
    BY <1>1
  <2> QED
    BY <1>1, <2>1, <2>2 DEF IInv, TypeOK
<1>3. Idle' /\ ExclusiveMembership' /\ FirstComeFirstServed' /\ HandedOver'
  BY <1>1 DEF IInv, Idle, ExclusiveMembership, FirstComeFirstServed, HandedOver, DiesOnMainThread
<1>4. Signalled' /\ NoLostWakeup'
  BY <1>1 DEF IInv, TypeOK, Signalled, NoLostWakeup
<1>5. NoLostRequest'
  BY <1>1 DEF IInv, NoLostRequest, Alive, IsMember, Items, IsNext
<1> QED
  BY <1>2, <1>3, <1>4, <1>5 DEF IInv

LEMMA NextIInv == IInv /\ [Next]_vars => IInv'
<1> SUFFICES ASSUME IInv, [Next]_vars PROVE IInv'
  OBVIOUS
<1> DEFINE KindKept == UNCHANGED <<retainsObjects, ensureExclusiveMembership, hasHandler>>
<1>1. CASE UNCHANGED vars
  BY <1>1 DEF vars, queueKind, queueVars, batchVars, IInv, TypeOK, Idle, Signalled, HandedOver, DiesOnMainThread, NoLostWakeup, NoLostRequest,
              ExclusiveMembership, FirstComeFirstServed, Alive, IsMember, Items, IsNext
<1>2. CASE (MainThread \/ otherEvent) /\ KindKept
  BY <1>2, ProcessQueueStep, CallConsumerStep, ReturnFromConsumerStep, RunLoopStep DEF MainThread
<1>3. ASSUME NEW o \in Object, Program(o), KindKept PROVE IInv'
  BY <1>3, EnqueueStep, ReleaseStep, PerformMainThreadDeallocationStep DEF Program
<1>4. \/ UNCHANGED vars
      \/ (MainThread \/ otherEvent) /\ KindKept
      \/ \E o \in Object : Program(o) /\ KindKept
  BY DEF Next, queueKind
<1> QED
  BY <1>1, <1>2, <1>3, <1>4

LEMMA Invariance == Spec => []IInv
<1> QED
  BY InitIInv, NextIInv, PTL DEF Spec

-----------------------------------------------------------------------------
(* Variables of the queue and of the run loop have their types, and slots   *)
(* of the queue are slots that were filled.                                 *)
THEOREM TypeCorrect == Spec => []TypeOK
<1>1. IInv => TypeOK
  BY DEF IInv
<1> QED
  BY Invariance, <1>1, PTL

(* The run loop never sleeps on a queue that has something in it.           *)
THEOREM NeverSleepsOnWork == Spec => []NoLostWakeup
<1>1. IInv => NoLostWakeup
  BY DEF IInv
<1> QED
  BY Invariance, <1>1, PTL

(* A request for an object that is alive is either in the queue or in what  *)
(* is left of the batch, whenever it was made and whoever made it.          *)
THEOREM RequestsAreKept == Spec => []NoLostRequest
<1>1. IInv => NoLostRequest
  BY DEF IInv
<1> QED
  BY Invariance, <1>1, PTL

(* In a strong queue without a handler, what is handed over for             *)
(* deallocation dies on the main thread.                                    *)
THEOREM DeallocatesOnMainThread == Spec => []DiesOnMainThread
<1>1. IInv => DiesOnMainThread
  BY DEF IInv, HandedOver, DiesOnMainThread
<1> QED
  BY Invariance, <1>1, PTL

(* An object is in the queue at most once, if that is asked for.            *)
THEOREM MembershipIsExclusive == Spec => []ExclusiveMembership
<1>1. IInv => ExclusiveMembership
  BY DEF IInv
<1> QED
  BY Invariance, <1>1, PTL

(* Batches are taken in the order in which their objects came.              *)
THEOREM OrderIsKept == Spec => []FirstComeFirstServed
<1>1. IInv => FirstComeFirstServed
  BY DEF IInv
<1> QED
  BY Invariance, <1>1, PTL

-----------------------------------------------------------------------------
(* The range controller                                                     *)

(* The view, its map and what the program does to them.                     *)
ViewInv ==
  /\ coalescing \in Modes
  /\ map \in Seq(Node) /\ IsInjective(map) /\ Range(map) \subseteq used
  /\ offset \in Offsets /\ events \in 0..MaxEvents
  /\ used \subseteq Node /\ displayed \subseteq used
  /\ pendingLoad \in BOOLEAN /\ inWindow \in BOOLEAN /\ background \in BOOLEAN
  /\ contentHasBeenScrolled \in BOOLEAN /\ blockPending \in BOOLEAN

(* What the controller keeps, and the states of nodes.                      *)
NodeInv ==
  /\ pending \in [Node -> SUBSET Ranges] /\ applied \in [Node -> SUBSET Ranges]
  /\ visibleNodes \subseteq used
  /\ currentRangeMode \in RangeModes \cup {"Unspecified"}
  /\ preserveCurrentRangeMode \in BOOLEAN /\ rangeIsValid \in BOOLEAN
  /\ needsRangeUpdate \in BOOLEAN /\ didRegister \in BOOLEAN
  /\ allPreviousIndexPaths \subseteq Nat

(* Where states are applied at once, a node that is visible can be made     *)
(* invisible: it is among the visible nodes, and there is something on      *)
(* screen that has the next update made.                                    *)
VisibleInv ==
  ~coalescing => /\ applied = pending
                 /\ \A n \in Node : "Visible" \in pending[n] =>
                      n \in visibleNodes /\ inWindow /\ displayed # {}

(* In the background the mode is one of those that willEnterForeground      *)
(* replaces, so that the update is made.                                    *)
BackgroundInv == background => currentRangeMode = IF inWindow THEN "VisibleOnly" ELSE "LowMemory"

(* What an update keeps or restores.                                        *)
NodesAreRight == NodeInv /\ VisibleInv /\ NothingOutOfRange /\ SettledIsRight

RangeInv == ViewInv /\ NodesAreRight /\ BackgroundInv

-----------------------------------------------------------------------------
(* The operators of an update.                                              *)

LEMMA NextModes ==
  ASSUME NEW isVisible \in BOOLEAN, NEW mode \in RangeModes \cup {"Unspecified"}, NEW preserved
  PROVE  /\ NextRangeMode(isVisible, mode, preserved) \in RangeModes
         /\ ~isVisible /\ mode # "Unspecified" => NextRangeMode(isVisible, mode, preserved) = mode
BY DEF NextRangeMode, rangeModeForInterfaceState, RangeModes

LEMMA StatesOfCells ==
  ASSUME NEW i, NEW isVisible \in BOOLEAN, NEW mode, NEW visible, NEW display, NEW preload,
         NEW s, s = InterfaceState(i, isVisible, mode, visible, display, preload)
  PROVE  /\ s \in SUBSET Ranges
         /\ "Visible" \in s => isVisible /\ i \in visible
         /\ isVisible /\ i \in visible => "Visible" \in s
         /\ i \notin (visible \cup display \cup preload) => s = {}
BY DEF InterfaceState, Ranges

LEMMA ScreenState == "Visible" \in interfaceState(inWindow', background') <=> inWindow' /\ ~background'
BY DEF interfaceState

(* Cells are told apart by their nodes: what is looked up is their state.   *)
LEMMA LookedUp ==
  ASSUME NEW m, IsInjective(m), NEW visited \in SUBSET DOMAIN m, NEW state, NEW i \in visited
  PROVE  state[CHOOSE j \in visited : m[j] = m[i]] = state[i]
<1>1. \A j \in visited : m[j] = m[i] => j = i
  BY DEF IsInjective
<1>2. (CHOOSE j \in visited : m[j] = m[i]) = i
  BY <1>1
<1> QED
  BY <1>2

(* States of some cells, and the nodes that are left as they are.           *)
LEMMA TakeStatesStep ==
  ASSUME RangeInv, ViewInv', coalescing' = coalescing, NEW state, NEW isVisible, NEW mode,
         DOMAIN state \subseteq DOMAIN map', \A i \in DOMAIN state : state[i] \in SUBSET Ranges,
         takeStates(state, isVisible, mode)
  PROVE  /\ pending' \in [Node -> SUBSET Ranges] /\ applied' \in [Node -> SUBSET Ranges]
         /\ visibleNodes' = {map'[i] : i \in {j \in DOMAIN state : "Visible" \in state[j]}}
         /\ didRegister' \in BOOLEAN
         /\ ~coalescing => applied' = pending'
         /\ \A i \in DOMAIN state : "Visible" \in state[i] => pending'[map'[i]] = state[i]
         /\ ~coalescing => \A i \in DOMAIN state : pending'[map'[i]] = state[i]
         /\ ~coalescing => \A n \in Node :
              (\A i \in DOMAIN state : map'[i] # n) => pending'[n] = pending[n] \ {"Visible"}
<1>1. PICK toPending \in {[n \in Node |-> IF \E i \in DOMAIN state : map'[i] = n
                                          THEN state[CHOOSE i \in DOMAIN state : map'[i] = n] ELSE pending[n]]} :
        /\ setVisibleNodes({map'[i] : i \in {j \in DOMAIN state : "Visible" \in state[j]}},
                           toPending, IF coalescing THEN applied ELSE toPending)
        /\ didRegister' = \/ didRegister
                          \/ /\ mode # "Full" /\ rangeModeForInterfaceState(isVisible, mode) # mode
                             /\ \E n \in Node : /\ toPending[n] # pending[n]
                                               /\ "Display" \in toPending[n] \ applied[n]
  BY Zenon DEF takeStates
<1>2. didRegister' \in BOOLEAN
  BY <1>1 DEF RangeInv, NodesAreRight, NodeInv
<1>3. PICK new : new = {map'[i] : i \in {j \in DOMAIN state : "Visible" \in state[j]}}
  OBVIOUS
<1>4. PICK current : current = IF coalescing THEN applied ELSE toPending
  OBVIOUS
<1>5. setVisibleNodes(new, toPending, current)
  BY <1>1, <1>3, <1>4
<1>6. /\ IsInjective(map') /\ \A i \in DOMAIN map' : map'[i] \in Node
  BY DEF ViewInv
<1>7. \A i \in DOMAIN state : toPending[map'[i]] = state[i]
  <2> TAKE i \in DOMAIN state
  <2>1. PICK m, visited : m = map' /\ visited = DOMAIN state
    OBVIOUS
  <2>2. state[CHOOSE j \in visited : m[j] = m[i]] = state[i]
    BY <1>6, <2>1, LookedUp
  <2> QED
    BY <2>1, <2>2, <1>6
<1>8. \A n \in Node : (\A i \in DOMAIN state : map'[i] # n) => toPending[n] = pending[n]
  OBVIOUS
<1>9. toPending \in [Node -> SUBSET Ranges]
  <2>1. \A n \in Node : toPending[n] \in SUBSET Ranges
    BY <1>7, <1>8 DEF RangeInv, NodesAreRight, NodeInv
  <2> QED
    BY <2>1
<1> HIDE <1>1
<1>10. PICK exits : exits = {n \in visibleNodes \ new : "Visible" \in current[n]}
  OBVIOUS
<1>11. /\ pending' = [n \in Node |-> IF n \in exits THEN current[n] \ {"Visible"} ELSE toPending[n]]
       /\ applied' = IF coalescing THEN current ELSE pending'
       /\ visibleNodes' = new
  BY <1>5, <1>10 DEF setVisibleNodes
<1>12. current \in [Node -> SUBSET Ranges]
  BY <1>4, <1>9 DEF RangeInv, NodesAreRight, NodeInv
<1>13. pending' \in [Node -> SUBSET Ranges] /\ applied' \in [Node -> SUBSET Ranges]
  BY <1>11, <1>12, <1>9
<1>14. ASSUME NEW i \in DOMAIN state, "Visible" \in state[i] \/ ~coalescing
       PROVE  pending'[map'[i]] = state[i]
  <2>1. map'[i] \in Node
    BY <1>6
  <2>2. CASE "Visible" \in state[i]
    BY <2>1, <2>2, <1>3, <1>7, <1>10, <1>11
  <2>3. CASE "Visible" \notin state[i] /\ ~coalescing
    BY <2>1, <2>3, <1>4, <1>7, <1>10, <1>11
  <2> QED
    BY <1>14, <2>2, <2>3
<1>15. ASSUME ~coalescing, NEW n \in Node, \A i \in DOMAIN state : map'[i] # n
       PROVE  pending'[n] = pending[n] \ {"Visible"}
  <2>1. current[n] = pending[n] /\ toPending[n] = pending[n] /\ n \notin new
    BY <1>15, <1>3, <1>4, <1>8
  <2>2. "Visible" \in pending[n] => n \in visibleNodes
    BY <1>15 DEF RangeInv, NodesAreRight, VisibleInv
  <2> QED
    BY <2>1, <2>2, <1>10, <1>11
<1> QED
  BY <1>2, <1>3, <1>11, <1>13, <1>14, <1>15

(* An update leaves nothing in a range that it is not in, nothing visible   *)
(* that is not on screen, and everything on screen visible.                 *)
LEMMA UpdateNodesStep ==
  ASSUME RangeInv, ViewInv', coalescing' = coalescing,
         NEW isVisible \in BOOLEAN, isVisible <=> inWindow' /\ ~background',
         NEW mode \in RangeModes, NEW valid \in BOOLEAN,
         valid => rangeIsValid /\ map' = map,
         updateNodes(isVisible, mode, valid), needsRangeUpdate' = FALSE
  PROVE  NodesAreRight' /\ currentRangeMode' = mode
<1>1. PICK visible \in {IndexPathsOf(displayed')}, display \in {DisplayIndexPaths(mode)},
           preload \in {PreloadIndexPaths(mode)} :
      \E current \in {visible \cup display \cup preload} : \E visited \in {Visited(current, valid)} :
        /\ takeStates([i \in visited |-> InterfaceState(i, isVisible, mode, visible, display, preload)],
                      isVisible, mode)
        /\ currentRangeMode' = mode /\ preserveCurrentRangeMode' = FALSE
        /\ allPreviousIndexPaths' = current /\ rangeIsValid' = TRUE
  BY Zenon DEF updateNodes
<1>2. PICK current \in {visible \cup display \cup preload} : \E visited \in {Visited(current, valid)} :
        /\ takeStates([i \in visited |-> InterfaceState(i, isVisible, mode, visible, display, preload)],
                      isVisible, mode)
        /\ currentRangeMode' = mode /\ preserveCurrentRangeMode' = FALSE
        /\ allPreviousIndexPaths' = current /\ rangeIsValid' = TRUE
  BY Zenon, <1>1
<1>3. PICK visited \in {Visited(current, valid)} :
        /\ takeStates([i \in visited |-> InterfaceState(i, isVisible, mode, visible, display, preload)],
                      isVisible, mode)
        /\ currentRangeMode' = mode /\ preserveCurrentRangeMode' = FALSE
        /\ allPreviousIndexPaths' = current /\ rangeIsValid' = TRUE
  BY Zenon, <1>2
<1>4. PICK state : state = [i \in visited |-> InterfaceState(i, isVisible, mode, visible, display, preload)]
  OBVIOUS
<1>5. takeStates(state, isVisible, mode)
  BY <1>3, <1>4
<1>6. /\ visible \subseteq DOMAIN map' /\ display \subseteq DOMAIN map' /\ preload \subseteq DOMAIN map'
      /\ \A i \in DOMAIN map' : i \in visible <=> map'[i] \in displayed'
  BY DEF DisplayIndexPaths, PreloadIndexPaths, IndexPathsOf, Around, IndexPaths
<1>7. /\ current \subseteq visited /\ visited \subseteq DOMAIN map' /\ visible \subseteq current
      /\ \A i \in DOMAIN map' \ visited : i \notin allPreviousIndexPaths /\ valid
  BY <1>6 DEF Visited, IndexPaths
<1>8. /\ IsInjective(map') /\ DOMAIN map' \subseteq Nat
      /\ \A i \in DOMAIN map' : map'[i] \in Node /\ map'[i] \in used' /\ map'[i] \in Range(map')
      /\ \A n \in Range(map') : \E i \in DOMAIN map' : map'[i] = n
  BY DEF ViewInv, Range
<1>9. /\ DOMAIN state = visited
      /\ \A i \in visited : state[i] = InterfaceState(i, isVisible, mode, visible, display, preload)
  BY <1>4
<1>10. \A i \in visited : /\ state[i] \in SUBSET Ranges
                          /\ "Visible" \in state[i] => isVisible /\ i \in visible
                          /\ isVisible /\ i \in visible => "Visible" \in state[i]
                          /\ i \notin current => state[i] = {}
  BY <1>9, StatesOfCells
<1>11. /\ pending' \in [Node -> SUBSET Ranges] /\ applied' \in [Node -> SUBSET Ranges]
       /\ visibleNodes' = {map'[i] : i \in {j \in visited : "Visible" \in state[j]}}
       /\ didRegister' \in BOOLEAN
       /\ ~coalescing => applied' = pending'
       /\ \A i \in visited : "Visible" \in state[i] => pending'[map'[i]] = state[i]
       /\ ~coalescing => \A i \in visited : pending'[map'[i]] = state[i]
       /\ ~coalescing => \A n \in Node :
            (\A i \in visited : map'[i] # n) => pending'[n] = pending[n] \ {"Visible"}
  <2>1. DOMAIN state \subseteq DOMAIN map' /\ \A i \in DOMAIN state : state[i] \in SUBSET Ranges
    BY <1>7, <1>9, <1>10
  <2> QED
    BY <1>5, <1>9, <2>1, TakeStatesStep
<1> HIDE <1>4
<1>12. NodeInv'
  <2>1. visibleNodes' \subseteq used'
    BY <1>7, <1>8, <1>11
  <2>2. allPreviousIndexPaths' \subseteq Nat
    BY <1>3, <1>7, <1>8
  <2> QED
    BY <1>3, <1>11, <2>1, <2>2 DEF NodeInv
<1>13. ASSUME ~coalescing, NEW n \in Node, "Visible" \in pending'[n]
       PROVE  n \in visibleNodes' /\ isVisible /\ n \in displayed'
  <2>1. PICK i \in visited : map'[i] = n /\ "Visible" \in state[i]
    BY <1>11, <1>13
  <2> QED
    BY <2>1, <1>6, <1>7, <1>10, <1>11
<1>14. VisibleInv'
  BY <1>11, <1>13 DEF VisibleInv
<1>15. NothingOutOfRange'
  <2>1. ASSUME ~coalescing, NEW i \in DOMAIN map', i \notin current
        PROVE  pending'[map'[i]] = {}
    <3>1. CASE i \in visited
      BY <2>1, <3>1, <1>10, <1>11
    <3>2. CASE i \notin visited
      <4>1. i \notin allPreviousIndexPaths /\ rangeIsValid /\ map' = map
        BY <3>2, <1>7
      <4>2. pending[map[i]] = {}
        BY <2>1, <4>1 DEF RangeInv, NodesAreRight, NothingOutOfRange, OutOfRangeIsCleared
      <4>3. \A j \in visited : map'[j] # map'[i]
        BY <3>2, <1>7, <1>8 DEF IsInjective
      <4> QED
        BY <2>1, <4>1, <4>2, <4>3, <1>8, <1>11
    <3> QED
      BY <3>1, <3>2
  <2> QED
    BY <1>3, <2>1 DEF NothingOutOfRange, OutOfRangeIsCleared
<1>16. SettledIsRight'
  <2>1. ASSUME isVisible, NEW n \in Node, n \in displayed' \cap Range(map')
        PROVE  "Visible" \in pending'[n]
    <3>1. PICK i \in DOMAIN map' : map'[i] = n
      BY <2>1, <1>8
    <3> QED
      BY <2>1, <3>1, <1>6, <1>7, <1>10, <1>11
  <2> QED
    BY <1>13, <2>1 DEF SettledIsRight
<1> QED
  BY <1>3, <1>12, <1>14, <1>15, <1>16 DEF NodesAreRight

(* While nothing is displayed the update has nothing to make visible.       *)
LEMMA UpdateRangesStep ==
  ASSUME RangeInv, ViewInv', coalescing' = coalescing,
         NEW mode \in RangeModes \cup {"Unspecified"}, NEW preserved \in BOOLEAN, NEW valid \in BOOLEAN,
         valid => rangeIsValid /\ map' = map,
         displayed' = {} => displayed = {} \/ Around(0) = {},
         updateRanges(mode, preserved, valid)
  PROVE  /\ NodesAreRight' /\ needsRangeUpdate' = FALSE
         /\ background' /\ mode # "Unspecified" => currentRangeMode' = mode
<1>1. CASE displayed' # {}
  <2>1. needsRangeUpdate' = FALSE /\ updateRange(mode, preserved, valid)
    BY <1>1 DEF updateRanges
  <2>2. PICK isVisible \in BOOLEAN :
          /\ isVisible <=> "Visible" \in interfaceState(inWindow', background')
          /\ updateNodes(isVisible, NextRangeMode(isVisible, mode, preserved), valid)
    BY <2>1, Zenon DEF updateRange
  <2>3. isVisible <=> inWindow' /\ ~background'
    BY <2>2, ScreenState
  <2>4. PICK to : to = NextRangeMode(isVisible, mode, preserved)
    OBVIOUS
  <2>5. to \in RangeModes /\ (~isVisible /\ mode # "Unspecified" => to = mode)
    BY <2>3, <2>4, NextModes
  <2>6. NodesAreRight' /\ currentRangeMode' = to
    BY <2>1, <2>2, <2>3, <2>4, <2>5, UpdateNodesStep
  <2> QED
    BY <2>1, <2>3, <2>5, <2>6
<1>2. CASE displayed' = {}
  <2>1. PICK new : new = {map'[i] : i \in Around(0)}
    OBVIOUS
  <2>2. /\ setVisibleNodes(new, pending, applied)
        /\ currentRangeMode' = mode /\ preserveCurrentRangeMode' = preserved /\ rangeIsValid' = valid
        /\ UNCHANGED <<allPreviousIndexPaths, didRegister>> /\ needsRangeUpdate' = FALSE
    BY <1>2, <2>1 DEF updateRanges
  <2>3. new \subseteq used'
    BY <2>1 DEF Around, IndexPaths, ViewInv, Range
  <2>4. ASSUME ~coalescing
        PROVE  /\ applied' = pending'
               /\ \A n \in Node : "Visible" \notin pending'[n] /\ pending'[n] \subseteq pending[n]
    <3>1. PICK exits : exits = {n \in visibleNodes \ new : "Visible" \in applied[n]}
      OBVIOUS
    <3>2. /\ pending' = [n \in Node |-> IF n \in exits THEN applied[n] \ {"Visible"} ELSE pending[n]]
          /\ applied' = pending'
      BY <2>2, <2>4, <3>1 DEF setVisibleNodes
    <3>3. \A n \in Node : "Visible" \in pending[n] => n \in exits
      BY <2>1, <2>4, <1>2, <3>1 DEF RangeInv, NodesAreRight, VisibleInv
    <3>4. applied = pending
      BY <2>4 DEF RangeInv, NodesAreRight, VisibleInv
    <3> QED
      BY <3>2, <3>3, <3>4
  <2>5. NodeInv'
    <3>1. /\ pending' \in [Node -> SUBSET Ranges] /\ applied' \in [Node -> SUBSET Ranges]
          /\ visibleNodes' = new
      BY <2>2 DEF setVisibleNodes, RangeInv, NodesAreRight, NodeInv
    <3> QED
      BY <2>2, <2>3, <3>1 DEF RangeInv, NodesAreRight, NodeInv
  <2>6. VisibleInv'
    BY <2>4 DEF VisibleInv
  <2>7. NothingOutOfRange'
    <3>1. ASSUME ~coalescing, valid, NEW i \in DOMAIN map', i \notin allPreviousIndexPaths'
          PROVE  pending'[map'[i]] = {}
      <4>1. pending[map[i]] = {} /\ map' = map
        BY <2>2, <3>1 DEF RangeInv, NodesAreRight, NothingOutOfRange, OutOfRangeIsCleared
      <4>2. map'[i] \in Node
        BY <3>1 DEF ViewInv
      <4> QED
        BY <2>4, <3>1, <4>1, <4>2
    <3> QED
      BY <2>2, <3>1 DEF NothingOutOfRange, OutOfRangeIsCleared
  <2>8. SettledIsRight'
    BY <1>2, <2>4 DEF SettledIsRight
  <2> QED
    BY <2>2, <2>5, <2>6, <2>7, <2>8 DEF NodesAreRight
<1> QED
  BY <1>1, <1>2

(* An update that is not needed is not missed.                              *)
LEMMA UpdateIfNeededStep ==
  ASSUME RangeInv, ViewInv', coalescing' = coalescing, NEW needed \in BOOLEAN,
         NEW mode \in RangeModes \cup {"Unspecified"}, NEW preserved \in BOOLEAN, NEW valid \in BOOLEAN,
         valid => rangeIsValid /\ map' = map,
         displayed' = {} => displayed = {} \/ Around(0) = {},
         ~needed => /\ ~needsRangeUpdate /\ UNCHANGED <<displayed, inWindow>> /\ used \subseteq used'
                    /\ inWindow' /\ ~background' => ~background
                    /\ displayed \cap Range(map') \subseteq Range(map),
         updateIfNeeded(needed, mode, preserved, valid)
  PROVE  /\ NodesAreRight' /\ needsRangeUpdate' = FALSE
         /\ background' /\ mode # "Unspecified" => currentRangeMode' = mode
<1>1. CASE needed
  BY <1>1, UpdateRangesStep DEF updateIfNeeded
<1>2. CASE ~needed
  <2>1. /\ needsRangeUpdate' = FALSE
        /\ currentRangeMode' = mode /\ preserveCurrentRangeMode' = preserved /\ rangeIsValid' = valid
        /\ UNCHANGED <<nodeVars, allPreviousIndexPaths, didRegister>>
    BY <1>2, Zenon DEF updateIfNeeded
  <2>2. UNCHANGED <<pending, applied, visibleNodes, allPreviousIndexPaths, didRegister>>
    BY <2>1 DEF nodeVars
  <2>3. NodeInv'
    BY <1>2, <2>1, <2>2 DEF RangeInv, NodesAreRight, NodeInv
  <2>4. VisibleInv'
    BY <1>2, <2>1, <2>2 DEF RangeInv, NodesAreRight, VisibleInv
  <2>5. NothingOutOfRange'
    BY <2>1, <2>2 DEF RangeInv, NodesAreRight, NothingOutOfRange, OutOfRangeIsCleared
  <2>6. SettledIsRight'
    BY <1>2, <2>1, <2>2 DEF RangeInv, NodesAreRight, SettledIsRight
  <2> QED
    BY <2>1, <2>3, <2>4, <2>5, <2>6 DEF NodesAreRight
<1> QED
  BY <1>1, <1>2

-----------------------------------------------------------------------------
(* The actions: what each leaves of the invariant as it was.                *)

LEMMA InitIsRight == RangeInit => RangeInv
<1> SUFFICES ASSUME RangeInit PROVE RangeInv
  OBVIOUS
<1>1. ViewInv
  <2>1. Range(InitialMap) \subseteq Node
    BY MapAssumption DEF Range
  <2>2. 0 \in 0..MaxEvents /\ 1 \in Offsets
    BY EventsAssumption DEF Offsets
  <2> QED
    BY <2>1, <2>2, MapAssumption DEF RangeInit, ViewInv
<1>2. NodeInv
  BY DEF RangeInit, NodeInv
<1> QED
  BY <1>1, <1>2 DEF RangeInit, RangeInv, NodesAreRight, VisibleInv, NothingOutOfRange, OutOfRangeIsCleared,
                    SettledIsRight, BackgroundInv

(* Nothing is changed but what an update would look at.                     *)
LEMMA QuietStep ==
  ASSUME RangeInv, ViewInv', coalescing' = coalescing,
         UNCHANGED <<pending, applied, visibleNodes, rangeIsValid, allPreviousIndexPaths>>,
         UNCHANGED <<map, displayed, inWindow, background, used>>,
         currentRangeMode' \in RangeModes \cup {"Unspecified"}, preserveCurrentRangeMode' \in BOOLEAN,
         needsRangeUpdate' \in BOOLEAN, didRegister' \in BOOLEAN,
         needsRangeUpdate => needsRangeUpdate',
         background => currentRangeMode' = currentRangeMode
  PROVE  RangeInv'
<1>2. NodeInv'
  BY DEF RangeInv, NodesAreRight, NodeInv
<1>3. VisibleInv'
  BY DEF RangeInv, NodesAreRight, VisibleInv
<1>4. NothingOutOfRange'
  BY DEF RangeInv, NodesAreRight, NothingOutOfRange, OutOfRangeIsCleared
<1>5. SettledIsRight'
  BY DEF RangeInv, NodesAreRight, SettledIsRight, NodeInv
<1>6. BackgroundInv'
  BY DEF RangeInv, BackgroundInv
<1> QED
  BY <1>2, <1>3, <1>4, <1>5, <1>6 DEF RangeInv, NodesAreRight

(* A block that is dispatched is one more.                                  *)
LEMMA DispatchStep ==
  ASSUME RangeInv, NEW needed \in BOOLEAN, Dispatched(needed) \/ UNCHANGED blockPending
  PROVE  blockPending' \in BOOLEAN
BY DEF Dispatched, RangeInv, ViewInv, NodesAreRight, NodeInv

LEMMA EventsAreBounded == ASSUME RangeInv, Event PROVE events' \in 0..MaxEvents
BY EventsAssumption DEF Event, RangeInv, ViewInv

LEMMA ModeStep ==
  ASSUME RangeInv, scrollViewWillBeginDragging \/ \E mode \in SetModes : updateCurrentRangeWithMode(mode)
  PROVE  RangeInv'
<1>1. /\ UNCHANGED <<coalescing, viewVars, nodeVars, rangeVars>> /\ ~background /\ Event
      /\ contentHasBeenScrolled' = TRUE \/ UNCHANGED contentHasBeenScrolled
      /\ currentRangeMode' \in RangeModes /\ preserveCurrentRangeMode' = TRUE
      /\ setNeedsUpdate \/ UNCHANGED <<needsRangeUpdate, blockPending>>
  BY SetModesAssumption DEF scrollViewWillBeginDragging, updateCurrentRangeWithMode, RangeModes
<1>2. /\ needsRangeUpdate' = TRUE \/ needsRangeUpdate' = needsRangeUpdate
      /\ Dispatched(TRUE) \/ UNCHANGED blockPending
  BY <1>1 DEF setNeedsUpdate
<1>3. blockPending' \in BOOLEAN
  BY <1>2, DispatchStep
<1>4. events' \in 0..MaxEvents
  BY <1>1, EventsAreBounded
<1>5. /\ UNCHANGED <<map, displayed, inWindow, background, used, offset, pendingLoad>>
      /\ UNCHANGED <<pending, applied, visibleNodes, rangeIsValid, allPreviousIndexPaths>>
      /\ UNCHANGED didRegister
  BY <1>1 DEF viewVars, nodeVars, rangeVars
<1>6. ViewInv'
  BY <1>1, <1>3, <1>4, <1>5 DEF RangeInv, ViewInv
<1>7. needsRangeUpdate' \in BOOLEAN /\ didRegister' \in BOOLEAN
  BY <1>2, <1>5 DEF RangeInv, NodesAreRight, NodeInv
<1>8. needsRangeUpdate => needsRangeUpdate'
  BY <1>2
<1> QED
  BY <1>1, <1>5, <1>6, <1>7, <1>8, QuietStep

LEMMA ScrollStep ==
  ASSUME RangeInv, NEW to \in Offsets, scroll(to)
  PROVE  RangeInv'
<1>1. /\ UNCHANGED <<coalescing, map, displayed, pendingLoad, inWindow, background, used, updateVars,
                     contentHasBeenScrolled, blockPending>>
      /\ offset' = to /\ Event
  BY DEF scroll
<1>2. events' \in 0..MaxEvents
  BY <1>1, EventsAreBounded
<1>3. ViewInv'
  BY <1>1, <1>2 DEF RangeInv, ViewInv
<1>4. /\ UNCHANGED <<pending, applied, visibleNodes, rangeIsValid, allPreviousIndexPaths>>
      /\ UNCHANGED <<currentRangeMode, preserveCurrentRangeMode, needsRangeUpdate, didRegister>>
  BY <1>1 DEF updateVars, modeVars, rangeVars, nodeVars
<1> QED
  BY <1>1, <1>3, <1>4, QuietStep DEF RangeInv, NodesAreRight, NodeInv

(* What change sets make of the map.                                        *)
LEMMA Inserted ==
  ASSUME NEW m \in Seq(Node), IsInjective(m), NEW n \in Node, n \notin Range(m), NEW i \in 1..(Len(m) + 1)
  PROVE  /\ InsertAt(m, i, n) \in Seq(Node) /\ IsInjective(InsertAt(m, i, n))
         /\ Range(InsertAt(m, i, n)) \subseteq Range(m) \cup {n}
<1>1. /\ SubSeq(m, 1, i - 1) \in Seq(Node) /\ Len(SubSeq(m, 1, i - 1)) = i - 1
      /\ \A j \in 1..(i - 1) : SubSeq(m, 1, i - 1)[j] = m[j]
  OBVIOUS
<1>2. /\ SubSeq(m, i, Len(m)) \in Seq(Node) /\ Len(SubSeq(m, i, Len(m))) = Len(m) + 1 - i
      /\ \A j \in 1..(Len(m) + 1 - i) : SubSeq(m, i, Len(m))[j] = m[i + j - 1]
  OBVIOUS
<1>3. PICK a, b : a = SubSeq(m, 1, i - 1) /\ b = SubSeq(m, i, Len(m))
  OBVIOUS
<1>4. PICK t : t = InsertAt(m, i, n)
  OBVIOUS
<1>5. /\ t = a \o <<n>> \o b
      /\ a \in Seq(Node) /\ Len(a) = i - 1 /\ \A j \in 1..(i - 1) : a[j] = m[j]
      /\ b \in Seq(Node) /\ Len(b) = Len(m) + 1 - i /\ \A j \in 1..(Len(m) + 1 - i) : b[j] = m[i + j - 1]
  BY <1>1, <1>2, <1>3, <1>4 DEF InsertAt
<1>6. /\ t \in Seq(Node) /\ Len(t) = Len(m) + 1 /\ t[i] = n
      /\ \A j \in 1..(i - 1) : t[j] = m[j]
      /\ \A j \in (i + 1)..(Len(m) + 1) : t[j] = m[j - 1]
  <2>1. PICK c, e : c = a \o e /\ e = <<n>>
    OBVIOUS
  <2>2. e \in Seq(Node) /\ Len(e) = 1 /\ e[1] = n /\ t = c \o b
    BY <1>5, <2>1
  <2>3. /\ c \in Seq(Node) /\ Len(c) = i /\ c[i] = n
        /\ \A j \in 1..(i - 1) : c[j] = m[j]
    <3>1. /\ c \in Seq(Node) /\ Len(c) = Len(a) + Len(e)
          /\ \A j \in 1..(Len(a) + Len(e)) : c[j] = IF j <= Len(a) THEN a[j] ELSE e[j - Len(a)]
      BY <1>5, <2>1, <2>2, ConcatProperties
    <3> QED
      BY <1>5, <2>2, <3>1
  <2>4. /\ t \in Seq(Node) /\ Len(t) = Len(c) + Len(b)
        /\ \A j \in 1..(Len(c) + Len(b)) : t[j] = IF j <= Len(c) THEN c[j] ELSE b[j - Len(c)]
    <3>1. b \in Seq(Node)
      BY <1>5
    <3> QED
      BY <2>2, <2>3, <3>1, ConcatProperties
  <2>5. \A j \in (i + 1)..(Len(m) + 1) : b[j - i] = m[j - 1]
    <3> TAKE j \in (i + 1)..(Len(m) + 1)
    <3>1. j - i \in 1..(Len(m) + 1 - i) /\ i + (j - i) - 1 = j - 1
      OBVIOUS
    <3> QED
      BY <1>5, <3>1
  <2> QED
    BY <1>5, <2>3, <2>4, <2>5
<1>7. \A j \in 1..Len(m) : m[j] # n
  BY DEF Range
<1>8. \A j \in 1..(Len(m) + 1) : j # i => \E x \in 1..Len(m) : t[j] = m[x] /\ x = IF j < i THEN j ELSE j - 1
  BY <1>6
<1>9. IsInjective(t)
  <2>1. SUFFICES ASSUME NEW j \in 1..(Len(m) + 1), NEW k \in 1..(Len(m) + 1), t[j] = t[k] PROVE j = k
    BY <1>6 DEF IsInjective
  <2>2. \A x \in 1..Len(m), y \in 1..Len(m) : m[x] = m[y] => x = y
    BY DEF IsInjective
  <2>3. CASE j = i \/ k = i
    BY <1>6, <1>7, <1>8, <2>1, <2>3
  <2>4. CASE j # i /\ k # i
    <3>1. PICK x \in 1..Len(m) : t[j] = m[x] /\ x = IF j < i THEN j ELSE j - 1
      BY <1>8, <2>4
    <3>2. PICK y \in 1..Len(m) : t[k] = m[y] /\ y = IF k < i THEN k ELSE k - 1
      BY <1>8, <2>4
    <3>3. x = y
      BY <2>1, <2>2, <3>1, <3>2
    <3> QED
      BY <2>4, <3>1, <3>2, <3>3
  <2> QED
    BY <2>3, <2>4
<1>10. Range(t) \subseteq Range(m) \cup {n}
  <2>1. SUFFICES ASSUME NEW j \in 1..(Len(m) + 1) PROVE t[j] \in Range(m) \cup {n}
    BY <1>6 DEF Range
  <2> QED
    BY <1>6, <1>8 DEF Range
<1> QED
  BY <1>4, <1>6, <1>9, <1>10

LEMMA Removed ==
  ASSUME NEW m \in Seq(Node), IsInjective(m), NEW i \in DOMAIN m
  PROVE  /\ RemoveAt(m, i) \in Seq(Node) /\ IsInjective(RemoveAt(m, i))
         /\ Range(RemoveAt(m, i)) \subseteq Range(m)
<1>1. /\ SubSeq(m, 1, i - 1) \in Seq(Node) /\ Len(SubSeq(m, 1, i - 1)) = i - 1
      /\ \A j \in 1..(i - 1) : SubSeq(m, 1, i - 1)[j] = m[j]
  OBVIOUS
<1>2. /\ SubSeq(m, i + 1, Len(m)) \in Seq(Node) /\ Len(SubSeq(m, i + 1, Len(m))) = Len(m) - i
      /\ \A j \in 1..(Len(m) - i) : SubSeq(m, i + 1, Len(m))[j] = m[i + j]
  OBVIOUS
<1>3. PICK a, b : a = SubSeq(m, 1, i - 1) /\ b = SubSeq(m, i + 1, Len(m))
  OBVIOUS
<1>4. PICK t : t = RemoveAt(m, i)
  OBVIOUS
<1>5. i \in 1..Len(m)
  OBVIOUS
<1>6. /\ t = a \o b
      /\ a \in Seq(Node) /\ Len(a) = i - 1 /\ \A j \in 1..(i - 1) : a[j] = m[j]
      /\ b \in Seq(Node) /\ Len(b) = Len(m) - i /\ \A j \in 1..(Len(m) - i) : b[j] = m[i + j]
  BY <1>1, <1>2, <1>3, <1>4 DEF RemoveAt
<1>7. /\ t \in Seq(Node) /\ Len(t) = Len(m) - 1
      /\ \A j \in 1..(i - 1) : t[j] = m[j]
      /\ \A j \in i..(Len(m) - 1) : t[j] = m[j + 1]
  <2>1. /\ t \in Seq(Node) /\ Len(t) = Len(a) + Len(b)
        /\ \A j \in 1..(Len(a) + Len(b)) : t[j] = IF j <= Len(a) THEN a[j] ELSE b[j - Len(a)]
    BY <1>6, ConcatProperties
  <2>2. \A j \in i..(Len(m) - 1) : b[j - (i - 1)] = m[j + 1]
    <3> TAKE j \in i..(Len(m) - 1)
    <3>1. j - (i - 1) \in 1..(Len(m) - i) /\ i + (j - (i - 1)) = j + 1
      BY <1>5
    <3> QED
      BY <1>6, <3>1
  <2>3. Len(a) = i - 1 /\ Len(b) = Len(m) - i /\ Len(a) + Len(b) = Len(m) - 1
    BY <1>5, <1>6
  <2>4. \A j \in 1..(i - 1) : t[j] = m[j]
    <3> TAKE j \in 1..(i - 1)
    <3>1. j \in 1..(Len(a) + Len(b)) /\ j <= Len(a)
      BY <1>5, <2>3
    <3> QED
      BY <1>6, <2>1, <3>1
  <2>5. \A j \in i..(Len(m) - 1) : t[j] = m[j + 1]
    <3> TAKE j \in i..(Len(m) - 1)
    <3>1. j \in 1..(Len(a) + Len(b)) /\ ~(j <= Len(a)) /\ j - Len(a) = j - (i - 1)
      BY <1>5, <2>3
    <3>2. b[j - (i - 1)] = m[j + 1]
      BY <2>2
    <3> QED
      BY <2>1, <3>1, <3>2
  <2>6. t \in Seq(Node) /\ Len(t) = Len(m) - 1
    BY <2>1, <2>3
  <2> QED
    BY <2>4, <2>5, <2>6
<1>8. \A j \in 1..(Len(m) - 1) : \E x \in 1..Len(m) : t[j] = m[x] /\ x = IF j < i THEN j ELSE j + 1
  BY <1>5, <1>7
<1>9. IsInjective(t)
  <2>1. SUFFICES ASSUME NEW j \in 1..(Len(m) - 1), NEW k \in 1..(Len(m) - 1), t[j] = t[k] PROVE j = k
    BY <1>7 DEF IsInjective
  <2>2. \A x \in 1..Len(m), y \in 1..Len(m) : m[x] = m[y] => x = y
    BY DEF IsInjective
  <2>3. PICK x \in 1..Len(m) : t[j] = m[x] /\ x = IF j < i THEN j ELSE j + 1
    BY <1>8
  <2>4. PICK y \in 1..Len(m) : t[k] = m[y] /\ y = IF k < i THEN k ELSE k + 1
    BY <1>8
  <2>5. x = y
    BY <2>1, <2>2, <2>3, <2>4
  <2> QED
    BY <1>5, <2>3, <2>4, <2>5
<1>10. Range(t) \subseteq Range(m)
  BY <1>7, <1>8 DEF Range
<1> QED
  BY <1>4, <1>7, <1>9, <1>10

(* A change set makes the range invalid, since its positions have shifted.  *)
LEMMA ChangeSetStep ==
  ASSUME RangeInv, NEW newMap \in Seq(Node), IsInjective(newMap),
         Range(newMap) \cap used \subseteq Range(map), updateWithChangeSet(newMap)
  PROVE  RangeInv'
<1>1. /\ ~background /\ Event /\ map' = newMap /\ used' = used \cup Range(newMap)
      /\ UNCHANGED <<coalescing, offset, displayed, pendingLoad, inWindow, background, contentHasBeenScrolled>>
  BY DEF updateWithChangeSet
<1>2. Range(newMap) \subseteq Node
  BY DEF Range
<1>3. displayed \cap Range(map') \subseteq Range(map)
  BY <1>1 DEF RangeInv, ViewInv
<1>4. events' \in 0..MaxEvents
  BY <1>1, EventsAreBounded
<1>5. blockPending' \in BOOLEAN => ViewInv'
  BY <1>1, <1>2, <1>4 DEF RangeInv, ViewInv
<1>6. ~background'
  BY <1>1
<1>7. CASE pendingLoad
  <2>1. UNCHANGED <<nodeVars, modeVars, needsRangeUpdate, allPreviousIndexPaths, didRegister, blockPending>>
    BY <1>7 DEF updateWithChangeSet
  <2>2. rangeIsValid' = FALSE
    BY <1>7 DEF updateWithChangeSet
  <2>3. /\ UNCHANGED <<pending, applied, visibleNodes, currentRangeMode, preserveCurrentRangeMode>>
        /\ UNCHANGED <<needsRangeUpdate, allPreviousIndexPaths, didRegister, blockPending>>
    BY <2>1 DEF nodeVars, modeVars
  <2>4. ViewInv'
    BY <1>5, <2>3 DEF RangeInv, ViewInv
  <2>5. NodeInv'
    BY <1>1, <2>2, <2>3 DEF RangeInv, NodesAreRight, NodeInv
  <2>6. VisibleInv'
    BY <1>1, <2>3 DEF RangeInv, NodesAreRight, VisibleInv
  <2>7. NothingOutOfRange'
    BY <2>2 DEF NothingOutOfRange, OutOfRangeIsCleared
  <2>8. SettledIsRight'
    BY <1>1, <1>3, <2>3 DEF RangeInv, NodesAreRight, SettledIsRight
  <2> QED
    BY <1>6, <2>4, <2>5, <2>6, <2>7, <2>8 DEF RangeInv, NodesAreRight, BackgroundInv
<1>8. CASE ~pendingLoad
  <2>1. PICK asks \in BOOLEAN :
          /\ Dispatched(needsRangeUpdate \/ asks)
          /\ updateIfNeeded(needsRangeUpdate \/ asks, currentRangeMode, preserveCurrentRangeMode, FALSE)
    BY <1>8, Zenon DEF updateWithChangeSet
  <2>2. PICK needed \in BOOLEAN : needed = (needsRangeUpdate \/ asks)
    OBVIOUS
  <2>3. /\ Dispatched(needed) /\ (~needed => ~needsRangeUpdate)
        /\ updateIfNeeded(needed, currentRangeMode, preserveCurrentRangeMode, FALSE)
    BY <2>1, <2>2
  <2>4. ViewInv'
    BY <1>5, <2>3, DispatchStep
  <2>5. /\ currentRangeMode \in RangeModes \cup {"Unspecified"} /\ preserveCurrentRangeMode \in BOOLEAN
    BY DEF RangeInv, NodesAreRight, NodeInv
  <2>6. NodesAreRight'
    BY <1>1, <1>3, <2>3, <2>4, <2>5, UpdateIfNeededStep
  <2> QED
    BY <1>6, <2>4, <2>6 DEF RangeInv, BackgroundInv
<1> QED
  BY <1>7, <1>8 DEF RangeInv, ViewInv

LEMMA EditStep ==
  ASSUME RangeInv, NEW n \in Node, insert(n) \/ delete(n)
  PROVE  RangeInv'
<1>1. map \in Seq(Node) /\ IsInjective(map) /\ Range(map) \subseteq used
  BY DEF RangeInv, ViewInv
<1>2. CASE insert(n)
  <2>1. PICK i \in 1..(Len(map) + 1) : updateWithChangeSet(InsertAt(map, i, n))
    BY <1>2 DEF insert
  <2>2. n \notin used
    BY <1>2 DEF insert
  <2>3. PICK m, new : m = map /\ new = InsertAt(m, i, n)
    OBVIOUS
  <2>4. new \in Seq(Node) /\ IsInjective(new) /\ Range(new) \subseteq Range(map) \cup {n}
    BY <1>1, <2>2, <2>3, Inserted
  <2> QED
    BY <2>1, <2>2, <2>3, <2>4, ChangeSetStep
<1>3. CASE delete(n)
  <2>1. PICK i \in DOMAIN map : updateWithChangeSet(RemoveAt(map, i))
    BY <1>3 DEF delete
  <2>2. PICK m, new : m = map /\ new = RemoveAt(m, i)
    OBVIOUS
  <2>3. new \in Seq(Node) /\ IsInjective(new) /\ Range(new) \subseteq Range(map)
    BY <1>1, <2>2, Removed
  <2> QED
    BY <2>1, <2>2, <2>3, ChangeSetStep
<1> QED
  BY <1>2, <1>3

(* A reload: what was visible is made invisible, as it is in no map again.  *)
LEMMA ReloadStep ==
  ASSUME RangeInv, NEW n \in Node, reloadData(n)
  PROVE  RangeInv'
<1>1. /\ n \notin used /\ ~background /\ Event /\ map' = <<n>> /\ used' = used \cup {n}
      /\ setVisibleNodes({}, pending, applied) /\ rangeIsValid' = FALSE /\ pendingLoad' = TRUE
      /\ displayed' = displayed \/ displayed' = {}
      /\ UNCHANGED <<coalescing, offset, inWindow, background, modeVars, allPreviousIndexPaths>>
      /\ UNCHANGED <<didRegister, contentHasBeenScrolled>>
  BY DEF reloadData
<1>2. /\ needsRangeUpdate' = TRUE \/ needsRangeUpdate' = needsRangeUpdate
      /\ Dispatched(TRUE) \/ UNCHANGED blockPending
  BY DEF reloadData, setNeedsUpdate
<1>3. events' \in 0..MaxEvents /\ blockPending' \in BOOLEAN
  BY <1>1, <1>2, EventsAreBounded, DispatchStep
<1>4. /\ map' \in Seq(Node) /\ IsInjective(map') /\ Range(map') = {n}
  <2>1. DOMAIN <<n>> = {1} /\ <<n>>[1] = n /\ <<n>> \in Seq(Node)
    OBVIOUS
  <2> QED
    BY <1>1, <2>1 DEF IsInjective, Range
<1>5. ViewInv'
  BY <1>1, <1>3, <1>4 DEF RangeInv, ViewInv
<1>6. PICK exits : exits = {m \in visibleNodes : "Visible" \in applied[m]}
  OBVIOUS
<1>7. /\ pending' = [m \in Node |-> IF m \in exits THEN applied[m] \ {"Visible"} ELSE pending[m]]
      /\ applied' = IF coalescing THEN applied ELSE pending'
      /\ visibleNodes' = {}
  BY <1>1, <1>6 DEF setVisibleNodes
<1>8. pending' \in [Node -> SUBSET Ranges] /\ applied' \in [Node -> SUBSET Ranges]
  BY <1>7 DEF RangeInv, NodesAreRight, NodeInv
<1>9. NodeInv'
  BY <1>1, <1>2, <1>7, <1>8 DEF RangeInv, NodesAreRight, NodeInv, modeVars
<1>10. ASSUME ~coalescing PROVE applied' = pending' /\ \A m \in Node : "Visible" \notin pending'[m]
  <2>1. \A m \in Node : "Visible" \in pending[m] => m \in exits
    BY <1>6, <1>10 DEF RangeInv, NodesAreRight, VisibleInv
  <2> QED
    BY <1>7, <1>10, <2>1
<1>11. VisibleInv'
  BY <1>1, <1>10 DEF VisibleInv
<1>12. NothingOutOfRange'
  BY <1>1 DEF NothingOutOfRange, OutOfRangeIsCleared
<1>13. SettledIsRight'
  <2>1. displayed' \cap Range(map') = {}
    BY <1>1, <1>4 DEF RangeInv, ViewInv
  <2> QED
    BY <1>1, <1>10, <2>1 DEF SettledIsRight
<1> QED
  BY <1>1, <1>5, <1>9, <1>11, <1>12, <1>13 DEF RangeInv, NodesAreRight, BackgroundInv

LEMMA WindowStep ==
  ASSUME RangeInv, NEW b \in BOOLEAN, didMoveToWindow(b)
  PROVE  RangeInv'
<1>1. /\ ~background /\ Event /\ inWindow' = b
      /\ UNCHANGED <<map, offset, displayed, pendingLoad, background, used>>
      /\ updateRanges(currentRangeMode, preserveCurrentRangeMode, rangeIsValid)
      /\ UNCHANGED <<coalescing, contentHasBeenScrolled, blockPending>>
  BY DEF didMoveToWindow
<1>2. events' \in 0..MaxEvents
  BY <1>1, EventsAreBounded
<1>3. ViewInv'
  BY <1>1, <1>2 DEF RangeInv, ViewInv
<1>4. /\ currentRangeMode \in RangeModes \cup {"Unspecified"} /\ preserveCurrentRangeMode \in BOOLEAN
      /\ rangeIsValid \in BOOLEAN
  BY DEF RangeInv, NodesAreRight, NodeInv
<1>5. NodesAreRight'
  BY <1>1, <1>3, <1>4, UpdateRangesStep
<1> QED
  BY <1>1, <1>3, <1>5 DEF RangeInv, BackgroundInv

(* The mode of the foreground is not one of the background, so that coming  *)
(* back always makes an update.                                             *)
LEMMA ChangeModeStep ==
  ASSUME RangeInv, Event, NEW mode \in RangeModes, NEW isInBackground \in BOOLEAN,
         isInBackground => mode = IF inWindow THEN "VisibleOnly" ELSE "LowMemory",
         background /\ ~isInBackground /\ inWindow => mode # "VisibleOnly",
         changeMode(mode, isInBackground)
  PROVE  RangeInv'
<1>1. PICK needed \in BOOLEAN : needed = (needsRangeUpdate \/ currentRangeMode # mode)
  OBVIOUS
<1>2. /\ Dispatched(needsRangeUpdate \/ currentRangeMode # mode)
      /\ updateIfNeeded(needsRangeUpdate \/ currentRangeMode # mode, mode, TRUE, rangeIsValid)
      /\ background' = isInBackground
      /\ UNCHANGED <<map, offset, displayed, pendingLoad, inWindow, used>>
      /\ UNCHANGED <<coalescing, contentHasBeenScrolled>>
  BY DEF changeMode
<1>3. Dispatched(needed) /\ updateIfNeeded(needed, mode, TRUE, rangeIsValid)
  BY <1>1, <1>2
<1>4. ~needed => ~needsRangeUpdate /\ currentRangeMode = mode
  BY <1>1
<1>5. events' \in 0..MaxEvents /\ blockPending' \in BOOLEAN
  BY <1>3, EventsAreBounded, DispatchStep
<1>6. ViewInv'
  BY <1>2, <1>5 DEF RangeInv, ViewInv
<1>7. inWindow' /\ ~background' /\ ~needed => ~background
  BY <1>2, <1>4 DEF RangeInv, BackgroundInv
<1>8. rangeIsValid \in BOOLEAN /\ mode \in RangeModes \cup {"Unspecified"} /\ mode # "Unspecified"
  BY DEF RangeInv, NodesAreRight, NodeInv, RangeModes
<1>9. NodesAreRight' /\ (background' /\ mode # "Unspecified" => currentRangeMode' = mode)
  BY <1>2, <1>3, <1>4, <1>6, <1>7, <1>8, UpdateIfNeededStep
<1> QED
  BY <1>2, <1>6, <1>8, <1>9 DEF RangeInv, BackgroundInv

LEMMA ApplicationStep ==
  ASSUME RangeInv, didReceiveMemoryWarning \/ didEnterBackground \/ willEnterForeground
  PROVE  RangeInv'
<1>1. background \in BOOLEAN /\ inWindow \in BOOLEAN /\ {"VisibleOnly", "LowMemory", "Minimum"} \subseteq RangeModes
  BY DEF RangeInv, ViewInv, RangeModes
<1>2. PICK low \in RangeModes : low = IF inWindow THEN "VisibleOnly" ELSE "LowMemory"
  BY <1>1
<1>3. CASE didReceiveMemoryWarning
  <2>1. Event /\ changeMode(low, background)
    BY <1>2, <1>3 DEF didReceiveMemoryWarning
  <2> QED
    BY <1>1, <1>2, <2>1, ChangeModeStep
<1>4. CASE didEnterBackground
  <2>1. Event /\ changeMode(low, TRUE)
    BY <1>2, <1>4 DEF didEnterBackground
  <2> QED
    BY <1>2, <2>1, ChangeModeStep
<1>5. CASE willEnterForeground
  <2>1. PICK high \in RangeModes : high = IF inWindow THEN "Minimum" ELSE "VisibleOnly"
    BY <1>1
  <2>2. Event /\ changeMode(high, FALSE)
    BY <1>5, <2>1 DEF willEnterForeground
  <2> QED
    BY <2>1, <2>2, ChangeModeStep
<1> QED
  BY <1>3, <1>4, <1>5

LEMMA ClearStep ==
  ASSUME RangeInv, NEW range \in {"Preload", "Display"}, clear(range)
  PROVE  RangeInv'
<1>1. PICK cleared : cleared = {n \in Range(map) : range \in applied[n]}
  OBVIOUS
<1>2. PICK final : final = [n \in Node |-> IF n \in cleared THEN applied[n] \ {range} ELSE pending[n]]
  OBVIOUS
<1>3. /\ ~inWindow /\ Event /\ pending' = final
      /\ applied' = IF coalescing THEN applied ELSE final
      /\ UNCHANGED <<coalescing, viewVars, visibleNodes, modeVars, rangeVars>>
      /\ UNCHANGED <<needsRangeUpdate, contentHasBeenScrolled, blockPending>>
  BY <1>1, <1>2 DEF clear
<1>4. /\ UNCHANGED <<map, offset, displayed, pendingLoad, inWindow, background, used>>
      /\ UNCHANGED <<currentRangeMode, preserveCurrentRangeMode>>
      /\ UNCHANGED <<rangeIsValid, allPreviousIndexPaths, didRegister>>
  BY <1>3 DEF viewVars, modeVars, rangeVars
<1>5. events' \in 0..MaxEvents
  BY <1>3, EventsAreBounded
<1>6. ViewInv'
  BY <1>3, <1>4, <1>5 DEF RangeInv, ViewInv
<1>7. final \in [Node -> SUBSET Ranges]
  BY <1>2 DEF RangeInv, NodesAreRight, NodeInv
<1>8. NodeInv'
  BY <1>3, <1>4, <1>7 DEF RangeInv, NodesAreRight, NodeInv
<1>9. ~coalescing => applied = pending /\ \A n \in Node : final[n] \subseteq pending[n]
  BY <1>2 DEF RangeInv, NodesAreRight, VisibleInv
<1>10. VisibleInv'
  BY <1>3, <1>4, <1>9 DEF RangeInv, NodesAreRight, VisibleInv
<1>11. NothingOutOfRange'
  <2>1. \A i \in DOMAIN map : map[i] \in Node
    BY DEF RangeInv, ViewInv
  <2> QED
    BY <1>3, <1>4, <1>9, <2>1 DEF RangeInv, NodesAreRight, NothingOutOfRange, OutOfRangeIsCleared
<1>12. SettledIsRight' /\ BackgroundInv'
  BY <1>3, <1>4 DEF SettledIsRight, RangeInv, BackgroundInv
<1> QED
  BY <1>6, <1>8, <1>10, <1>11, <1>12 DEF RangeInv, NodesAreRight

(* Where cells go away from the screen an update is made, unless the view   *)
(* has no window and none of them is visible.                               *)
LEMMA LayoutStep ==
  ASSUME RangeInv, layoutSubviews
  PROVE  RangeInv'
<1>1. /\ displayed' \in {Shown, Shown \cup (displayed \ Range(map))}
      /\ pendingLoad' = FALSE
      /\ UNCHANGED <<map, offset, inWindow, background, used>>
      /\ UNCHANGED <<coalescing, contentHasBeenScrolled, events>>
  BY DEF layoutSubviews
<1>2. PICK needed \in BOOLEAN : needed = (needsRangeUpdate \/ pendingLoad \/ displayed' # displayed)
  OBVIOUS
<1>3. /\ Dispatched(needed)
      /\ IF inWindow
         THEN updateIfNeeded(needed, currentRangeMode, preserveCurrentRangeMode, rangeIsValid)
         ELSE needsRangeUpdate' = needed /\ UNCHANGED <<nodeVars, modeVars, rangeVars>>
  BY <1>2 DEF layoutSubviews
<1>4. ~needed => ~needsRangeUpdate /\ displayed' = displayed
  BY <1>2
<1>5. Shown \subseteq Range(map)
  BY DEF Shown, Range
<1>6. displayed' \subseteq used'
  BY <1>1, <1>5 DEF RangeInv, ViewInv
<1>7. blockPending' \in BOOLEAN
  BY <1>3, DispatchStep
<1>8. ViewInv'
  BY <1>1, <1>6, <1>7 DEF RangeInv, ViewInv
<1>9. displayed' = {} => Around(0) = {}
  <2>1. SUFFICES ASSUME displayed' = {}, NEW i \in DOMAIN map, offset - 0 <= i, i <= offset + 0 PROVE FALSE
    BY <1>1 DEF Around, IndexPaths
  <2>2. i = offset
    BY <2>1 DEF RangeInv, ViewInv, Offsets
  <2> QED
    BY <1>1, <2>1, <2>2 DEF Shown
<1>10. /\ currentRangeMode \in RangeModes \cup {"Unspecified"} /\ preserveCurrentRangeMode \in BOOLEAN
       /\ rangeIsValid \in BOOLEAN
  BY DEF RangeInv, NodesAreRight, NodeInv
<1>11. CASE inWindow
  <2>1. updateIfNeeded(needed, currentRangeMode, preserveCurrentRangeMode, rangeIsValid)
    BY <1>3, <1>11
  <2>2. NodesAreRight' /\ (background' /\ currentRangeMode # "Unspecified" => currentRangeMode' = currentRangeMode)
    BY <1>1, <1>4, <1>8, <1>9, <1>10, <2>1, UpdateIfNeededStep
  <2> QED
    BY <1>1, <1>8, <2>2 DEF RangeInv, BackgroundInv
<1>12. CASE ~inWindow
  <2>1. /\ needsRangeUpdate' = needed /\ UNCHANGED <<pending, applied, visibleNodes>>
        /\ UNCHANGED <<currentRangeMode, preserveCurrentRangeMode>>
        /\ UNCHANGED <<rangeIsValid, allPreviousIndexPaths, didRegister>>
    BY <1>3, <1>12 DEF nodeVars, modeVars, rangeVars
  <2>2. NodeInv'
    BY <1>1, <2>1 DEF RangeInv, NodesAreRight, NodeInv
  <2>3. VisibleInv'
    BY <1>1, <1>12, <2>1 DEF RangeInv, NodesAreRight, VisibleInv
  <2>4. NothingOutOfRange'
    BY <1>1, <2>1 DEF RangeInv, NodesAreRight, NothingOutOfRange, OutOfRangeIsCleared
  <2>5. SettledIsRight' /\ BackgroundInv'
    BY <1>1, <1>12, <2>1 DEF SettledIsRight, RangeInv, BackgroundInv
  <2> QED
    BY <1>8, <2>2, <2>3, <2>4, <2>5 DEF RangeInv, NodesAreRight
<1> QED
  BY <1>11, <1>12 DEF RangeInv, ViewInv

LEMMA BlockStep ==
  ASSUME RangeInv, runBlock
  PROVE  RangeInv'
<1>1. /\ blockPending' = FALSE /\ UNCHANGED viewVars /\ UNCHANGED <<coalescing, contentHasBeenScrolled, events>>
      /\ updateIfNeeded(needsRangeUpdate, currentRangeMode, preserveCurrentRangeMode, rangeIsValid)
  BY DEF runBlock
<1>2. UNCHANGED <<map, offset, displayed, pendingLoad, inWindow, background, used>>
  BY <1>1 DEF viewVars
<1>3. ViewInv'
  BY <1>1, <1>2 DEF RangeInv, ViewInv
<1>4. /\ currentRangeMode \in RangeModes \cup {"Unspecified"} /\ preserveCurrentRangeMode \in BOOLEAN
      /\ rangeIsValid \in BOOLEAN /\ needsRangeUpdate \in BOOLEAN
  BY DEF RangeInv, NodesAreRight, NodeInv
<1>5. NodesAreRight' /\ (background' /\ currentRangeMode # "Unspecified" => currentRangeMode' = currentRangeMode)
  BY <1>1, <1>2, <1>3, <1>4, UpdateIfNeededStep
<1> QED
  BY <1>2, <1>3, <1>5 DEF RangeInv, BackgroundInv

LEMMA DidDisplayStep ==
  ASSUME RangeInv, scheduledNodesDidDisplay
  PROVE  RangeInv'
<1>1. /\ didRegister' = FALSE /\ needsRangeUpdate' = TRUE /\ Dispatched(TRUE)
      /\ UNCHANGED <<coalescing, viewVars, nodeVars, modeVars, rangeIsValid, allPreviousIndexPaths>>
      /\ UNCHANGED <<contentHasBeenScrolled, events>>
  BY DEF scheduledNodesDidDisplay, setNeedsUpdate
<1>2. /\ UNCHANGED <<map, offset, displayed, pendingLoad, inWindow, background, used>>
      /\ UNCHANGED <<pending, applied, visibleNodes, currentRangeMode, preserveCurrentRangeMode>>
  BY <1>1 DEF viewVars, nodeVars, modeVars
<1>3. blockPending' \in BOOLEAN
  BY <1>1, DispatchStep
<1>4. ViewInv'
  BY <1>1, <1>2, <1>3 DEF RangeInv, ViewInv
<1> QED
  BY <1>1, <1>2, <1>4, QuietStep DEF RangeInv, NodesAreRight, NodeInv

LEMMA CommitStep ==
  ASSUME RangeInv, commit
  PROVE  RangeInv'
<1>1. /\ coalescing /\ applied' = pending
      /\ UNCHANGED <<coalescing, viewVars, pending, visibleNodes, modeVars, rangeVars, needsRangeUpdate>>
      /\ UNCHANGED <<contentHasBeenScrolled, blockPending, events>>
  BY DEF commit
<1>2. /\ UNCHANGED <<map, offset, displayed, pendingLoad, inWindow, background, used>>
      /\ UNCHANGED <<currentRangeMode, preserveCurrentRangeMode>>
      /\ UNCHANGED <<rangeIsValid, allPreviousIndexPaths, didRegister>>
  BY <1>1 DEF viewVars, modeVars, rangeVars
<1>3. ViewInv'
  BY <1>1, <1>2 DEF RangeInv, ViewInv
<1>4. NodeInv'
  BY <1>1, <1>2 DEF RangeInv, NodesAreRight, NodeInv
<1>5. VisibleInv' /\ NothingOutOfRange'
  BY <1>1 DEF VisibleInv, NothingOutOfRange
<1>6. SettledIsRight'
  BY <1>1, <1>2 DEF RangeInv, NodesAreRight, SettledIsRight
<1>7. BackgroundInv'
  BY <1>2 DEF RangeInv, BackgroundInv
<1> QED
  BY <1>3, <1>4, <1>5, <1>6, <1>7 DEF RangeInv, NodesAreRight

LEMMA RangeStep == RangeInv /\ [RangeNext]_controllerVars => RangeInv'
<1> SUFFICES ASSUME RangeInv, [RangeNext]_controllerVars PROVE RangeInv'
  OBVIOUS
<1>1. CASE Events
  BY <1>1, ModeStep, ScrollStep, EditStep, ReloadStep, WindowStep, ApplicationStep, ClearStep DEF Events
<1>2. CASE layoutSubviews
  BY <1>2, LayoutStep
<1>3. CASE runBlock
  BY <1>3, BlockStep
<1>4. CASE scheduledNodesDidDisplay
  BY <1>4, DidDisplayStep
<1>5. CASE commit
  BY <1>5, CommitStep
<1>6. CASE UNCHANGED controllerVars
  <2>1. /\ UNCHANGED <<coalescing, map, offset, displayed, pendingLoad, inWindow, background, used>>
        /\ UNCHANGED <<pending, applied, visibleNodes, currentRangeMode, preserveCurrentRangeMode>>
        /\ UNCHANGED <<rangeIsValid, allPreviousIndexPaths, didRegister, needsRangeUpdate>>
        /\ UNCHANGED <<contentHasBeenScrolled, blockPending, events>>
    BY <1>6 DEF controllerVars, viewVars, updateVars, nodeVars, modeVars, rangeVars
  <2>2. ViewInv'
    BY <2>1 DEF RangeInv, ViewInv
  <2> QED
    BY <2>1, <2>2, QuietStep DEF RangeInv, NodesAreRight, NodeInv
<1> QED
  BY <1>1, <1>2, <1>3, <1>4, <1>5, <1>6 DEF RangeNext

LEMMA RangeInvariance == RangeSpec => []RangeInv
BY InitIsRight, RangeStep, PTL DEF RangeSpec

(* The state of the range controller and of the nodes it tells keeps its    *)
(* type, although updates are left out and change sets shift positions.     *)
THEOREM RangesAreTyped == RangeSpec => []RangeTypeOK
<1>1. ASSUME RangeInv PROVE RangeTypeOK
  <2>1. UNION {displayed, visibleNodes, used} \subseteq Node
    BY <1>1 DEF RangeInv, ViewInv, NodesAreRight, NodeInv
  <2>2. {pendingLoad, inWindow, background, preserveCurrentRangeMode, contentHasBeenScrolled, rangeIsValid,
         needsRangeUpdate, didRegister, blockPending} \subseteq BOOLEAN
    BY <1>1 DEF RangeInv, ViewInv, NodesAreRight, NodeInv
  <2> QED
    BY <1>1, <2>1, <2>2 DEF RangeInv, ViewInv, NodesAreRight, NodeInv, RangeTypeOK
<1> QED
  BY <1>1, RangeInvariance, PTL

(* Where states are applied at once, a cell that is out of every range is   *)
(* in none: _updateVisibleNodeIndexPaths visits what was in range at its    *)
(* old position, or everything once a change set has shifted positions.     *)
THEOREM OutOfRangeIsOut == RangeSpec => []NothingOutOfRange
<1>1. RangeInv => NothingOutOfRange
  BY DEF RangeInv, NodesAreRight
<1> QED
  BY <1>1, RangeInvariance, PTL

(* Without a window no node is visible, deleted ones included: every node   *)
(* that is visible is among _visibleNodes, and didMoveToWindow makes the    *)
(* update at once.                                                          *)
THEOREM OffscreenCellsAreInvisible == RangeSpec => []OffscreenIsInvisible
<1>1. RangeInv => OffscreenIsInvisible
  BY DEF RangeInv, NodesAreRight, VisibleInv, OffscreenIsInvisible
<1> QED
  BY <1>1, RangeInvariance, PTL

(* Once no update is wanted, what is visible is what is on screen, whatever *)
(* order of change sets, layouts, range modes, background and foreground    *)
(* led there and whichever updates updateIfNeeded has left out.             *)
THEOREM SettledCellsAreRight == RangeSpec => []SettledIsRight
<1>1. RangeInv => SettledIsRight
  BY DEF RangeInv, NodesAreRight
<1> QED
  BY <1>1, RangeInvariance, PTL
=============================================================================
