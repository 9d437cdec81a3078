------------------------ MODULE ASInterfaceStateProofs ------------------------
(***************************************************************************)
(* Proofs about ASInterfaceState and the ASCATransactionQueue below it, for *)
(* any set of nodes, managed or not, coalescing or not, with callbacks that *)
(* change the state of their own node or not, and any bounds.  Only what    *)
(* nodes are told assumes that callbacks leave their own node alone.        *)
(***************************************************************************)
EXTENDS ASInterfaceState, SequenceTheorems, TLAPS

(* An enqueue that the main thread may have missed has signalled. *)
RacedIsSignalled == raced => wokenUp

QInv == QueueTypeOK /\ HashSetMatches /\ NoLostWakeup /\ RacedIsSignalled

Frame == [node : Node, from : SUBSET Ranges, to : SUBSET Ranges, todo : Seq(Ranges \cup {"changed"})]
Block == [kind : {"clear", "exit"}, node : Node]

StateTypes ==
  /\ interfaceState \in [Node -> SUBSET Ranges]
  /\ pendingInterfaceState \in [Node -> SUBSET Ranges]
  /\ preExitingInterfaceState \in [Node -> SUBSET Ranges]

(* What setInterfaceState keeps, ... *)
StateInv == QInv /\ StateTypes /\ stack \in Seq(Frame) /\ NoLostChange

(* ... and what it leaves alone. *)
RestInv ==
  /\ told \in [Node -> SUBSET Ranges] /\ reported \in [Node -> SUBSET Ranges]
  /\ isInHierarchy \subseteq Node /\ displaySuspended \subseteq Node /\ contents \subseteq Node
  /\ mainQueue \in Seq(Block)
  /\ changes \in 0..MaxChanges

IInv == StateInv /\ RestInv

-----------------------------------------------------------------------------
(* Sequences                                                                *)

LEMMA AppendFacts ==
  ASSUME NEW S, NEW s \in Seq(S), NEW e \in S
  PROVE  /\ Append(s, e) \in Seq(S) /\ Append(s, e) # <<>>
         /\ Len(Append(s, e)) = Len(s) + 1
         /\ Range(Append(s, e)) = Range(s) \cup {e}
         /\ IsInjective(s) /\ e \notin Range(s) => IsInjective(Append(s, e))
<1> DEFINE t == Append(s, e)
<1>1. /\ t \in Seq(S) /\ Len(t) = Len(s) + 1 /\ Len(s) \in Nat
      /\ \A i \in 1..Len(s) : t[i] = s[i]
      /\ t[Len(s) + 1] = e
  BY AppendProperties
<1>2. DOMAIN s = 1..Len(s) /\ DOMAIN t = DOMAIN s \cup {Len(s) + 1}
  BY <1>1
<1>3. t # <<>>
  BY <1>1
<1> HIDE DEF t
<1>4. Range(t) = Range(s) \cup {e}
  BY <1>1, <1>2 DEF Range
<1>5. IsInjective(s) /\ e \notin Range(s) => IsInjective(t)
  BY <1>1, <1>2 DEF Range, IsInjective
<1> QED
  BY <1>1, <1>3, <1>4, <1>5 DEF t

LEMMA HeadTailFacts ==
  ASSUME NEW S, NEW s \in Seq(S), s # <<>>
  PROVE  /\ Head(s) \in S /\ Tail(s) \in Seq(S)
         /\ Range(s) = {Head(s)} \cup Range(Tail(s))
<1>1. /\ Head(s) \in S /\ Tail(s) \in Seq(S) /\ Len(Tail(s)) = Len(s) - 1 /\ Len(s) \in Nat \ {0}
      /\ \A i \in 1..Len(Tail(s)) : Tail(s)[i] = s[i + 1]
      /\ Head(s) = s[1]
  BY HeadTailProperties, EmptySeq
<1>2. Range(s) = {s[i] : i \in 1..Len(s)} /\ Range(Tail(s)) = {Tail(s)[i] : i \in 1..Len(Tail(s))}
  BY <1>1, RangeEquality
<1>3. \A i \in 1..Len(s) : i = 1 \/ (i - 1 \in 1..Len(Tail(s)) /\ Tail(s)[i - 1] = s[i])
  BY <1>1
<1>4. \A i \in 1..Len(Tail(s)) : i + 1 \in 1..Len(s)
  BY <1>1
<1>5. 1 \in 1..Len(s)
  BY <1>1
<1>6. ASSUME NEW x \in Range(s) PROVE x = Head(s) \/ x \in Range(Tail(s))
  <2>1. PICK i \in 1..Len(s) : s[i] = x
    BY <1>2, <1>6
  <2> QED
    BY <1>1, <1>2, <1>3, <2>1
<1>7. Head(s) \in Range(s)
  BY <1>1, <1>2, <1>5
<1>8. ASSUME NEW x \in Range(Tail(s)) PROVE x \in Range(s)
  <2>1. PICK i \in 1..Len(Tail(s)) : Tail(s)[i] = x
    BY <1>2, <1>8
  <2> QED
    BY <1>1, <1>2, <1>4, <2>1
<1> QED
  BY <1>1, <1>6, <1>7, <1>8

LEMMA EmptyFacts == Range(<<>>) = {} /\ IsInjective(<<>>)
BY DEF Range, IsInjective

-----------------------------------------------------------------------------
(* The queue                                                                *)

(* Whoever asks for a node is sure that it is in the queue. *)
LEMMA EnqueueKeeps ==
  ASSUME QInv, NEW n \in Node, NEW onMain \in BOOLEAN, enqueue(n, onMain)
  PROVE  /\ QInv'
         /\ Range(internalQueue') = Range(internalQueue) \cup {n}
         /\ UNCHANGED <<enabled, batchBuffer>>
<1>1. /\ raced' = (~onMain /\ (raced \/ internalQueue = <<>>))
      /\ UNCHANGED <<enabled, batchBuffer, loop, calls>>
  BY DEF enqueue
<1>2. internalQueue \in Seq(Node)
  BY DEF QInv, QueueTypeOK
<1>3. CASE n \in internalQueueHashSet
  <2>1. UNCHANGED <<internalQueue, internalQueueHashSet, wokenUp>>
    BY <1>3 DEF enqueue
  <2>2. internalQueue # <<>>
    BY <1>3, EmptyFacts DEF QInv, HashSetMatches
  <2>3. raced' \in BOOLEAN /\ (raced' => raced)
    BY <1>1, <2>2 DEF QInv, QueueTypeOK
  <2>4. QInv'
    BY <1>1, <2>1, <2>3 DEF QInv, QueueTypeOK, HashSetMatches, NoLostWakeup, RacedIsSignalled, IsInjective
  <2> QED
    BY <1>1, <1>3, <2>1, <2>4 DEF QInv, HashSetMatches
<1>4. CASE n \notin internalQueueHashSet
  <2>1. /\ internalQueueHashSet' = internalQueueHashSet \cup {n}
        /\ internalQueue' = Append(internalQueue, n)
        /\ wokenUp' = (wokenUp \/ Len(internalQueue') = 1)
    BY <1>4 DEF enqueue
  <2>2. n \notin Range(internalQueue) /\ IsInjective(internalQueue)
    BY <1>4 DEF QInv, HashSetMatches
  <2>3. /\ internalQueue' \in Seq(Node) /\ internalQueue' # <<>>
        /\ Range(internalQueue') = Range(internalQueue) \cup {n}
        /\ IsInjective(internalQueue')
        /\ internalQueue = <<>> => Len(internalQueue') = 1
    BY <1>2, <2>1, <2>2, AppendFacts
  <2>4. wokenUp' \in BOOLEAN /\ raced' \in BOOLEAN
    BY <1>1, <2>1 DEF QInv, QueueTypeOK
  <2>5. QueueTypeOK'
    BY <1>1, <2>1, <2>3, <2>4 DEF QInv, QueueTypeOK
  <2>6. HashSetMatches'
    BY <2>1, <2>3 DEF QInv, HashSetMatches
  <2>7. NoLostWakeup' /\ RacedIsSignalled'
    BY <1>1, <2>1, <2>3 DEF QInv, NoLostWakeup, RacedIsSignalled
  <2> QED
    BY <1>1, <2>3, <2>5, <2>6, <2>7 DEF QInv
<1> QED
  BY <1>3, <1>4

(* What the run loop does to the queue, the call of a node included.        *)
LEMMA LoopKeeps ==
  ASSUME QInv, beforeWaiting \/ swapBuffers \/ callNext \/ finishCommitting \/ wakeUp \/ otherEvent
  PROVE  QInv'
<1> USE DEF QInv, QueueTypeOK
<1>1. CASE beforeWaiting
  <2>1. calls' \in Seq(Node)
    BY <1>1 DEF beforeWaiting
  <2> QED
    BY <1>1, <2>1 DEF beforeWaiting, HashSetMatches, NoLostWakeup, RacedIsSignalled, IsInjective
<1>2. CASE swapBuffers
  <2>1. /\ internalQueue' = <<>> /\ internalQueueHashSet' = {} /\ batchBuffer' = internalQueue
        /\ raced' = FALSE /\ UNCHANGED <<enabled, loop, wokenUp, calls>>
    BY <1>2 DEF swapBuffers
  <2>2. internalQueue' \in Seq(Node)
    BY <2>1
  <2>3. HashSetMatches'
    BY <2>1, EmptyFacts DEF HashSetMatches
  <2> QED
    BY <2>1, <2>2, <2>3 DEF NoLostWakeup, RacedIsSignalled
<1>3. CASE callNext
  <2>1. batchBuffer' \in Seq(Node) /\ calls' \in Seq(Node)
    BY <1>3, HeadTailFacts, AppendFacts DEF callNext
  <2> QED
    BY <1>3, <2>1 DEF callNext, HashSetMatches, NoLostWakeup, RacedIsSignalled, IsInjective
<1>4. CASE finishCommitting
  BY <1>4 DEF finishCommitting, HashSetMatches, NoLostWakeup, RacedIsSignalled, IsInjective
<1>5. CASE wakeUp
  BY <1>5 DEF wakeUp, HashSetMatches, NoLostWakeup, RacedIsSignalled, IsInjective
<1>6. CASE otherEvent
  BY <1>6 DEF otherEvent, HashSetMatches, NoLostWakeup, RacedIsSignalled, IsInjective
<1> QED
  BY <1>1, <1>2, <1>3, <1>4, <1>5, <1>6

-----------------------------------------------------------------------------
(* A change of state                                                        *)

LEMMA NoticesType ==
  ASSUME NEW old, NEW new
  PROVE  Notices(old, new) \in Seq(Ranges \cup {"changed"})
<1> DEFINE T == Ranges \cup {"changed"}
           noticeOf(r) == IF r \in (old \cup new) \ (old \cap new) THEN <<r>> ELSE <<>>
<1>1. ASSUME NEW r \in T PROVE noticeOf(r) \in Seq(T)
  <2> HIDE DEF T
  <2>1. <<r>> \in Seq(T)
    OBVIOUS
  <2>2. <<>> \in Seq(T)
    OBVIOUS
  <2> QED
    BY <2>1, <2>2
<1>2. {"Preload", "Display", "Visible", "changed"} \subseteq T
  BY DEF Ranges
<1>3. <<"changed">> \in Seq(T)
  BY <1>2
<1> HIDE DEF T, noticeOf
<1>4. noticeOf("Preload") \o noticeOf("Display") \in Seq(T)
  BY <1>1, <1>2, ConcatProperties
<1>5. noticeOf("Preload") \o noticeOf("Display") \o noticeOf("Visible") \in Seq(T)
  BY <1>1, <1>2, <1>4, ConcatProperties
<1>6. noticeOf("Preload") \o noticeOf("Display") \o noticeOf("Visible") \o <<"changed">> \in Seq(T)
  BY <1>3, <1>5, ConcatProperties
<1> QED
  BY <1>6 DEF Notices, NoticesOf, T, noticeOf

(* Applying a state makes it the state of the node and leaves the others.   *)
LEMMA ApplyKeeps ==
  ASSUME StateTypes, stack \in Seq(Frame), NEW n \in Node, NEW new \in SUBSET Ranges,
         applyPendingInterfaceState(n, new)
  PROVE  /\ interfaceState' \in [Node -> SUBSET Ranges] /\ stack' \in Seq(Frame)
         /\ interfaceState'[n] = new
         /\ \A m \in Node \ {n} : interfaceState'[m] = interfaceState[m]
<1>1. CASE new = interfaceState[n]
  BY <1>1 DEF applyPendingInterfaceState, StateTypes
<1>2. CASE new # interfaceState[n]
  <2> DEFINE f == [node |-> n, from |-> interfaceState[n], to |-> new, todo |-> Notices(interfaceState[n], new)]
  <2>1. interfaceState' = [interfaceState EXCEPT ![n] = new] /\ stack' = <<f>> \o stack
    BY <1>2 DEF applyPendingInterfaceState
  <2>2. f \in Frame
    BY NoticesType DEF StateTypes, Frame
  <2> HIDE DEF f
  <2>3. <<f>> \in Seq(Frame)
    BY <2>2
  <2>4. stack' \in Seq(Frame)
    BY <2>1, <2>3, ConcatProperties
  <2> QED
    BY <2>1, <2>4 DEF StateTypes
<1> QED
  BY <1>1, <1>2

(* A node for which a state is set has it, or is in the queue.              *)
LEMMA SetInterfaceStateKeeps ==
  ASSUME StateInv, NEW n \in Node, NEW new \in SUBSET Ranges, NEW kept \in SUBSET Ranges,
         NEW onMain \in BOOLEAN, setInterfaceState(n, new, kept, onMain)
  PROVE  StateInv'
<1>1. /\ pendingInterfaceState' = [pendingInterfaceState EXCEPT ![n] = new]
      /\ setPreExiting(n, new, kept)
  BY DEF setInterfaceState
<1>2. preExitingInterfaceState' \in [Node -> SUBSET Ranges]
  BY <1>1 DEF setPreExiting, StateInv, StateTypes
<1>3. pendingInterfaceState' \in [Node -> SUBSET Ranges] /\ pendingInterfaceState'[n] = new
      /\ \A m \in Node \ {n} : pendingInterfaceState'[m] = pendingInterfaceState[m]
  BY <1>1 DEF StateInv, StateTypes
<1>4. CASE enabled
  <2>1. UNCHANGED <<interfaceState, stack>>
    BY <1>4 DEF setInterfaceState
  <2>2. CASE pendingInterfaceState[n] # new
    <3>1. enqueue(n, onMain)
      BY <1>4, <2>2 DEF setInterfaceState
    <3>2. /\ QInv' /\ Range(internalQueue') = Range(internalQueue) \cup {n}
          /\ UNCHANGED <<enabled, batchBuffer>>
      BY <3>1, EnqueueKeeps DEF StateInv
    <3>3. NoLostChange'
      BY <1>3, <1>4, <2>1, <3>2 DEF StateInv, NoLostChange
    <3> QED
      BY <1>2, <1>3, <2>1, <3>2, <3>3 DEF StateInv, StateTypes
  <2>3. CASE pendingInterfaceState[n] = new
    <3>1. UNCHANGED queueVars
      BY <1>4, <2>3 DEF setInterfaceState
    <3>2. QInv'
      BY <3>1 DEF StateInv, queueVars, QInv, QueueTypeOK, HashSetMatches, NoLostWakeup, RacedIsSignalled, IsInjective
    <3>3. NoLostChange'
      BY <1>3, <2>1, <2>3, <3>1 DEF queueVars, StateInv, NoLostChange
    <3> QED
      BY <1>2, <1>3, <2>1, <3>2, <3>3 DEF StateInv, StateTypes
  <2> QED
    BY <2>2, <2>3
<1>5. CASE ~enabled
  <2>1. applyPendingInterfaceState(n, new) /\ UNCHANGED queueVars
    BY <1>5 DEF setInterfaceState
  <2>2. /\ interfaceState' \in [Node -> SUBSET Ranges] /\ stack' \in Seq(Frame)
        /\ interfaceState'[n] = new
        /\ \A m \in Node \ {n} : interfaceState'[m] = interfaceState[m]
    BY <2>1, ApplyKeeps DEF StateInv
  <2>3. QInv'
    BY <2>1 DEF StateInv, queueVars, QInv, QueueTypeOK, HashSetMatches, NoLostWakeup, RacedIsSignalled, IsInjective
  <2>4. NoLostChange'
    BY <1>3, <2>1, <2>2 DEF queueVars, StateInv, NoLostChange
  <2> QED
    BY <1>2, <1>3, <2>2, <2>3, <2>4 DEF StateInv, StateTypes
<1> QED
  BY <1>4, <1>5

(* Steps that leave states, stack and queue alone. *)
LEMMA StateFrame ==
  ASSUME StateInv, UNCHANGED <<queueVars, stateVars, stack>>
  PROVE  StateInv'
BY DEF queueVars, stateVars, StateInv, StateTypes, NoLostChange, QInv, QueueTypeOK, HashSetMatches, NoLostWakeup,
       RacedIsSignalled, IsInjective

(* Steps that change nothing but what a node was asked for. *)
LEMMA RestFrame ==
  ASSUME RestInv, UNCHANGED <<callbackVars, mainQueue>>,
         isInHierarchy' \subseteq Node, changes' \in 0..MaxChanges
  PROVE  RestInv'
BY DEF RestInv, callbackVars

LEMMA MayChangeType ==
  ASSUME RestInv, NEW n, MayChange(n)
  PROVE  changes' \in 0..MaxChanges
BY BoundAssumption DEF RestInv, MayChange

-----------------------------------------------------------------------------
(* The initial states and the steps                                         *)

LEMMA InitIInv == Init => IInv
<1> SUFFICES ASSUME Init PROVE IInv
  OBVIOUS
<1>1. QueueTypeOK
  <2>1. internalQueue \in Seq(Node) /\ batchBuffer \in Seq(Node) /\ calls \in Seq(Node)
    BY SMT DEF Init, QueueInit
  <2>2. wokenUp \in BOOLEAN /\ raced \in BOOLEAN
    BY Zenon DEF Init, QueueInit
  <2> QED
    BY <2>1, <2>2 DEF Init, QueueInit, QueueTypeOK
<1>2. HashSetMatches /\ NoLostWakeup /\ RacedIsSignalled
  BY EmptyFacts DEF Init, QueueInit, HashSetMatches, NoLostWakeup, RacedIsSignalled
<1>3. StateTypes /\ NoLostChange
  BY DEF Init, StateTypes, NoLostChange
<1>4. stack \in Seq(Frame) /\ mainQueue \in Seq(Block)
  <2>1. stack = <<>> /\ mainQueue = <<>>
    BY DEF Init
  <2> QED
    BY <2>1, EmptySeq
<1>5. RestInv
  <2>1. changes \in 0..MaxChanges
    BY BoundAssumption DEF Init
  <2>2. told \in [Node -> SUBSET Ranges] /\ reported \in [Node -> SUBSET Ranges]
    BY DEF Init
  <2>3. isInHierarchy \subseteq Node /\ displaySuspended \subseteq Node /\ contents \subseteq Node
    BY DEF Init
  <2> QED
    BY <1>4, <2>1, <2>2, <2>3 DEF RestInv
<1> QED
  BY <1>1, <1>2, <1>3, <1>4, <1>5 DEF IInv, StateInv, QInv

LEMMA RangeControllerStep ==
  ASSUME IInv, NEW n \in Node,
         \/ \E s \in States : recursivelySetInterfaceState(n, s) \/ enterInterfaceState(n, s)
         \/ exitInterfaceState(n, "Visible") \/ exitInterfaceState(n, "Display")
  PROVE  IInv'
<1>1. /\ UNCHANGED <<isInHierarchy, callbackVars, mainQueue>> /\ MayChange(n)
      /\ \E new \in SUBSET Ranges : \E onMain \in BOOLEAN :
           setInterfaceState(n, new, preExitingInterfaceState[n], onMain)
  <2>1. interfaceState[n] \in SUBSET Ranges
    BY DEF IInv, StateInv, StateTypes
  <2>2. \A s \in States : s \in SUBSET Ranges /\ interfaceState[n] \cup s \in SUBSET Ranges
    BY <2>1, StatesAssumption
  <2>3. CASE \E s \in States : recursivelySetInterfaceState(n, s)
    BY <2>2, <2>3 DEF recursivelySetInterfaceState
  <2>4. CASE \E s \in States : enterInterfaceState(n, s)
    BY <2>2, <2>4 DEF enterInterfaceState
  <2>5. \A r : interfaceState[n] \ {r} \in SUBSET Ranges
    BY <2>1
  <2>6. CASE exitInterfaceState(n, "Visible")
    BY <2>5, <2>6 DEF exitInterfaceState
  <2>7. CASE exitInterfaceState(n, "Display")
    BY <2>5, <2>7 DEF exitInterfaceState
  <2> QED
    BY <2>3, <2>4, <2>6, <2>7
<1>2. preExitingInterfaceState[n] \in SUBSET Ranges
  BY DEF IInv, StateInv, StateTypes
<1>3. StateInv'
  BY <1>1, <1>2, SetInterfaceStateKeeps DEF IInv
<1>4. RestInv'
  BY <1>1, RestFrame, MayChangeType DEF IInv, RestInv
<1> QED
  BY <1>3, <1>4 DEF IInv

LEMMA EnterHierarchyStep ==
  ASSUME IInv, NEW n \in Node, enterHierarchy(n)
  PROVE  IInv'
<1>1. /\ isInHierarchy' = isInHierarchy \cup {n} /\ MayChange(n) /\ willEnterHierarchy(n)
      /\ UNCHANGED <<callbackVars, mainQueue>>
  BY DEF enterHierarchy
<1>2. preExitingInterfaceState[n] \in SUBSET Ranges /\ InHierarchy \in SUBSET Ranges /\ {} \in SUBSET Ranges
  BY DEF IInv, StateInv, StateTypes, InHierarchy
<1>3. \/ setInterfaceState(n, InHierarchy, preExitingInterfaceState[n], TRUE)
      \/ setInterfaceState(n, preExitingInterfaceState[n], {}, TRUE)
      \/ UNCHANGED <<queueVars, stateVars, stack>>
  BY <1>1 DEF willEnterHierarchy
<1>4. StateInv'
  BY <1>2, <1>3, SetInterfaceStateKeeps, StateFrame DEF IInv
<1>5. isInHierarchy' \subseteq Node
  BY <1>1 DEF IInv, RestInv
<1>6. RestInv'
  BY <1>1, <1>5, RestFrame, MayChangeType DEF IInv
<1> QED
  BY <1>4, <1>6 DEF IInv

LEMMA ExitVisibleKeeps ==
  ASSUME StateInv, NEW n \in Node, NEW b, exitVisibleInterfaceState(n, b)
  PROVE  StateInv'
<1>1. pendingInterfaceState[n] \in SUBSET Ranges
  BY DEF StateInv, StateTypes
<1>2. CASE setInterfaceState(n, pendingInterfaceState[n] \ {"Visible"}, pendingInterfaceState[n], TRUE)
  <2>1. pendingInterfaceState[n] \ {"Visible"} \in SUBSET Ranges
    BY <1>1
  <2> QED
    BY <1>1, <1>2, <2>1, SetInterfaceStateKeeps
<1>3. CASE /\ preExitingInterfaceState' = [preExitingInterfaceState EXCEPT ![n] = pendingInterfaceState[n]]
           /\ UNCHANGED <<queueVars, interfaceState, pendingInterfaceState, stack>>
  <2>1. preExitingInterfaceState' \in [Node -> SUBSET Ranges]
    BY <1>1, <1>3 DEF StateInv, StateTypes
  <2> QED
    BY <1>3, <2>1 DEF queueVars, StateInv, StateTypes, NoLostChange, QInv, QueueTypeOK, HashSetMatches,
                      NoLostWakeup, RacedIsSignalled, IsInjective
<1> QED
  BY <1>2, <1>3 DEF exitVisibleInterfaceState

LEMMA ExitHierarchyStep ==
  ASSUME IInv, NEW n \in Node, exitHierarchy(n)
  PROVE  IInv'
<1>1. /\ isInHierarchy' = isInHierarchy \ {n} /\ MayChange(n) /\ didExit(n) /\ UNCHANGED callbackVars
  BY DEF exitHierarchy
<1>2. preExitingInterfaceState[n] \in SUBSET Ranges /\ {} \in SUBSET Ranges
  BY DEF IInv, StateInv, StateTypes
<1>3. StateInv'
  <2>1. \/ setInterfaceState(n, {}, preExitingInterfaceState[n], TRUE)
        \/ UNCHANGED <<queueVars, stateVars, stack>>
        \/ exitVisibleInterfaceState(n, FALSE)
    BY <1>1 DEF didExit
  <2> QED
    BY <1>2, <2>1, SetInterfaceStateKeeps, StateFrame, ExitVisibleKeeps DEF IInv
<1>4. mainQueue' \in Seq(Block)
  <2>1. mainQueue \in Seq(Block) /\ [kind |-> "exit", node |-> n] \in Block
    BY DEF IInv, RestInv, Block
  <2>2. mainQueue' = mainQueue \/ mainQueue' = Append(mainQueue, [kind |-> "exit", node |-> n])
    BY <1>1 DEF didExit
  <2> HIDE DEF Block
  <2> QED
    BY <2>1, <2>2, AppendProperties
<1>5. changes' \in 0..MaxChanges
  BY <1>1, MayChangeType DEF IInv
<1>6. RestInv'
  BY <1>1, <1>4, <1>5 DEF IInv, RestInv, callbackVars
<1> QED
  BY <1>3, <1>6 DEF IInv

LEMMA PrepareForCATransactionCommitStep ==
  ASSUME IInv, prepareForCATransactionCommit
  PROVE  IInv'
<1> DEFINE n == Head(batchBuffer)
<1>1. batchBuffer \in Seq(Node) /\ batchBuffer # <<>> /\ batchBuffer' = Tail(batchBuffer)
      /\ UNCHANGED <<enabled, internalQueue>>
  BY DEF prepareForCATransactionCommit, callNext, IInv, StateInv, QInv, QueueTypeOK
<1>2. n \in Node /\ Range(batchBuffer) = {n} \cup Range(batchBuffer')
  BY <1>1, HeadTailFacts
<1>3. pendingInterfaceState[n] \in SUBSET Ranges
  BY <1>2 DEF IInv, StateInv, StateTypes
<1>4. QInv'
  BY LoopKeeps DEF prepareForCATransactionCommit, IInv, StateInv
<1>5. applyPendingInterfaceState(n, pendingInterfaceState[n]) /\ UNCHANGED pendingInterfaceState
  BY DEF prepareForCATransactionCommit
<1>6. preExitingInterfaceState' \in [Node -> SUBSET Ranges]
  BY DEF prepareForCATransactionCommit, IInv, StateInv, StateTypes
<1> HIDE DEF n
<1>7. /\ interfaceState' \in [Node -> SUBSET Ranges] /\ stack' \in Seq(Frame)
      /\ interfaceState'[n] = pendingInterfaceState[n]
      /\ \A m \in Node \ {n} : interfaceState'[m] = interfaceState[m]
  BY <1>2, <1>3, <1>5, ApplyKeeps DEF IInv, StateInv
<1>8. NoLostChange'
  BY <1>1, <1>2, <1>5, <1>7 DEF IInv, StateInv, NoLostChange
<1>9. RestInv'
  BY DEF prepareForCATransactionCommit, IInv, RestInv, callbackVars
<1> QED
  BY <1>4, <1>5, <1>6, <1>7, <1>8, <1>9 DEF IInv, StateInv, StateTypes

LEMMA NotifyStep ==
  ASSUME IInv, notify
  PROVE  IInv'
<1> DEFINE n == Top.node
           r == Head(Top.todo)
           block == [kind |-> "clear", node |-> n]
           frame == [Top EXCEPT !.todo = Tail(@)]
<1>1. stack \in Seq(Frame) /\ stack # <<>>
  BY DEF IInv, StateInv, notify
<1>2. Top \in Frame /\ Tail(stack) \in Seq(Frame)
  BY <1>1, HeadTailFacts DEF Top
<1>3. /\ n \in Node /\ Top.to \in SUBSET Ranges /\ Top.todo \in Seq(Ranges \cup {"changed"})
      /\ Top.todo # <<>>
  BY <1>2 DEF Frame, notify
<1>4. r \in Ranges \cup {"changed"} /\ Tail(Top.todo) \in Seq(Ranges \cup {"changed"})
  BY <1>3, HeadTailFacts
<1>5. stack' \in Seq(Frame)
  <2>1. frame \in Frame
    BY <1>2, <1>4 DEF Frame
  <2>2. stack' = <<frame>> \o Tail(stack)
    BY DEF notify
  <2> HIDE DEF frame
  <2>3. <<frame>> \in Seq(Frame)
    BY <2>1
  <2> QED
    BY <1>2, <2>2, <2>3, ConcatProperties
<1>6. told' \in [Node -> SUBSET Ranges]
  <2>1. told \in [Node -> SUBSET Ranges]
    BY DEF IInv, RestInv
  <2>2. CASE r = "changed"
    <3>1. told' = told
      BY <2>2 DEF notify
    <3> QED
      BY <2>1, <3>1
  <2>3. CASE r # "changed"
    <3>1. r \in Ranges
      BY <1>4, <2>3
    <3>2. \/ told' = [told EXCEPT ![n] = told[n] \cup {r}]
          \/ told' = [told EXCEPT ![n] = told[n] \ {r}]
          \/ told' = told
      BY <2>3 DEF notify
    <3>3. told[n] \cup {r} \in SUBSET Ranges /\ told[n] \ {r} \in SUBSET Ranges
      BY <1>3, <2>1, <3>1
    <3> HIDE DEF n, r
    <3> QED
      BY <2>1, <3>2, <3>3
  <2> QED
    BY <2>2, <2>3
<1>7. reported' \in [Node -> SUBSET Ranges]
  <2>1. reported' = reported \/ reported' = [reported EXCEPT ![n] = Top.to]
    BY DEF notify
  <2> HIDE DEF n
  <2> QED
    BY <1>3, <2>1 DEF IInv, RestInv
<1>8. displaySuspended' \subseteq Node /\ mainQueue' \in Seq(Block)
  <2>1. block \in Block
    BY <1>3 DEF Block
  <2>2. mainQueue' = mainQueue \/ mainQueue' = Append(mainQueue, block)
    BY DEF notify, displayChange
  <2>3. displaySuspended' \subseteq displaySuspended \cup {n}
    BY DEF notify, displayChange
  <2> HIDE DEF n, block, Block
  <2>4. mainQueue' \in Seq(Block)
    BY <2>1, <2>2, AppendProperties DEF IInv, RestInv
  <2> QED
    BY <1>3, <2>3, <2>4 DEF IInv, RestInv
<1>9. StateInv'
  BY <1>5 DEF notify, queueVars, stateVars, IInv, StateInv, StateTypes, NoLostChange, QInv, QueueTypeOK,
              HashSetMatches, NoLostWakeup, RacedIsSignalled, IsInjective
<1>10. RestInv'
  BY <1>6, <1>7, <1>8 DEF notify, IInv, RestInv
<1> QED
  BY <1>9, <1>10 DEF IInv

LEMMA ReturnStep ==
  ASSUME IInv, return
  PROVE  IInv'
<1>1. stack' \in Seq(Frame)
  BY HeadTailFacts DEF return, IInv, StateInv
<1>2. StateInv'
  BY <1>1 DEF return, queueVars, stateVars, IInv, StateInv, StateTypes, NoLostChange, QInv, QueueTypeOK,
              HashSetMatches, NoLostWakeup, RacedIsSignalled, IsInjective
<1>3. RestInv'
  BY DEF return, IInv, RestInv, callbackVars
<1> QED
  BY <1>2, <1>3 DEF IInv

LEMMA RunBlockStep ==
  ASSUME IInv, runBlock
  PROVE  IInv'
<1>1. mainQueue \in Seq(Block) /\ mainQueue # <<>> /\ mainQueue' = Tail(mainQueue)
  BY DEF IInv, RestInv, runBlock
<1>2. Head(mainQueue) \in Block /\ mainQueue' \in Seq(Block)
  BY <1>1, HeadTailFacts
<1>3. Head(mainQueue).node \in Node
  BY <1>2 DEF Block
<1>4. \/ exitVisibleInterfaceState(Head(mainQueue).node, Head(mainQueue).node \in isInHierarchy)
      \/ UNCHANGED <<queueVars, stateVars, stack>>
  BY DEF runBlock
<1>5. StateInv'
  BY <1>3, <1>4, ExitVisibleKeeps, StateFrame DEF IInv
<1>6. contents' \subseteq contents
  BY DEF runBlock, clearContents
<1>7. RestInv'
  BY <1>2, <1>6 DEF runBlock, IInv, RestInv
<1> QED
  BY <1>5, <1>7 DEF IInv

LEMMA DisplayStep ==
  ASSUME IInv, NEW n \in Node, display(n)
  PROVE  IInv'
<1>1. StateInv'
  BY StateFrame DEF display, IInv
<1>2. RestInv'
  BY DEF display, IInv, RestInv
<1> QED
  BY <1>1, <1>2 DEF IInv

LEMMA RunLoopStep ==
  ASSUME IInv, runLoop \/ otherWakeUp
  PROVE  IInv'
<1>1. /\ beforeWaiting \/ swapBuffers \/ finishCommitting \/ wakeUp \/ otherEvent
      /\ UNCHANGED <<stateVars, isInHierarchy, callbackVars, mainQueue, stack, changes>>
  BY DEF runLoop, otherWakeUp
<1>2. QInv'
  BY <1>1, LoopKeeps DEF IInv, StateInv
<1>3. enabled' = enabled
      /\ Range(internalQueue') \cup Range(batchBuffer') = Range(internalQueue) \cup Range(batchBuffer)
  <2>1. CASE swapBuffers
    BY <2>1, EmptyFacts DEF swapBuffers
  <2>2. CASE beforeWaiting \/ finishCommitting \/ wakeUp \/ otherEvent
    BY <2>2 DEF beforeWaiting, finishCommitting, wakeUp, otherEvent
  <2> QED
    BY <1>1, <2>1, <2>2
<1>4. NoLostChange'
  BY <1>1, <1>3 DEF IInv, StateInv, NoLostChange, stateVars
<1>5. StateInv'
  BY <1>1, <1>2, <1>4 DEF IInv, StateInv, StateTypes, stateVars
<1>6. RestInv'
  BY <1>1 DEF IInv, RestInv, callbackVars
<1> QED
  BY <1>5, <1>6 DEF IInv

LEMMA NextIInv == IInv /\ [Next]_vars => IInv'
<1> SUFFICES ASSUME IInv, [Next]_vars PROVE IInv'
  OBVIOUS
<1>1. CASE UNCHANGED vars
  <2>1. StateInv'
    BY <1>1, StateFrame DEF IInv, vars
  <2>2. RestInv'
    BY <1>1 DEF IInv, RestInv, vars, callbackVars
  <2> QED
    BY <2>1, <2>2 DEF IInv
<1>2. CASE MainThread \/ otherWakeUp
  BY <1>2, PrepareForCATransactionCommitStep, NotifyStep, ReturnStep, RunBlockStep, RunLoopStep DEF MainThread
<1>3. ASSUME NEW n \in Node, Program(n) PROVE IInv'
  BY <1>3, RangeControllerStep, EnterHierarchyStep, ExitHierarchyStep, DisplayStep DEF Program
<1> QED
  BY <1>1, <1>2, <1>3 DEF Next

LEMMA Invariance == Spec => []IInv
<1> QED
  BY InitIInv, NextIInv, PTL DEF Spec

-----------------------------------------------------------------------------
(* States are sets of ranges, and so is what nodes were told.               *)
THEOREM TypeCorrect == Spec => []TypeOK
<1>1. IInv => TypeOK
  BY DEF IInv, StateInv, StateTypes, RestInv, QInv, TypeOK
<1> QED
  BY Invariance, <1>1, PTL

(* A node whose state is still to be applied is in the queue or in the      *)
(* batch that is being called; without coalescing there is no such node.    *)
THEOREM ChangesAreKept == Spec => []NoLostChange
<1>1. IInv => NoLostChange
  BY DEF IInv, StateInv
<1> QED
  BY Invariance, <1>1, PTL

(* The hash table beside the queue always holds what the queue holds.       *)
THEOREM HashSetIsExact == Spec => []HashSetMatches
<1>1. IInv => HashSetMatches
  BY DEF IInv, StateInv, QInv
<1> QED
  BY Invariance, <1>1, PTL

(* The run loop never sleeps on nodes that wait for their call, although    *)
(* its observer reads the queue without the lock.                           *)
THEOREM NeverSleepsOnNodes == Spec => []NoLostWakeup
<1>1. IInv => NoLostWakeup
  BY DEF IInv, StateInv, QInv
<1> QED
  BY Invariance, <1>1, PTL

-----------------------------------------------------------------------------
(* What nodes are told, if no callback changes the state of its own node    *)

(* What is left to tell of the ranges in changed, when the node was last    *)
(* told that it is in from.                                                 *)
Owes(n, changed, from) ==
  /\ reported[n] = from
  /\ \A r \in Ranges :
       r # "Preload" \/ n \in Managed => (r \in told[n]) = ((r \in interfaceState[n]) # (r \in changed))
  /\ n \in displaySuspended /\ "Display" \in interfaceState[n] => "Display" \in changed

(* A state that is being applied is the applied one; what is still to tell  *)
(* is all that is owed.                                                     *)
FrameOK(f) ==
  /\ f.to = interfaceState[f.node]
  /\ \/ f.todo = <<>> /\ Owes(f.node, {}, f.to)
     \/ \E changed \in SUBSET Ranges : f.todo = NoticesOf(changed) /\ Owes(f.node, changed, f.from)

OneCallEach == \A i, j \in DOMAIN stack : stack[i].node = stack[j].node => i = j
CallsAreRight == \A i \in DOMAIN stack : FrameOK(stack[i])
OthersAreSettled == \A n \in Node : ~Applying(n) => Owes(n, {}, interfaceState[n])

TellInv ==
  /\ OneCallEach /\ CallsAreRight /\ OthersAreSettled /\ NoLeftoverContents
  /\ displaySuspended \subseteq Managed

(* What is told first, and what is left then. *)
LEMMA ConsFacts ==
  ASSUME NEW S, NEW e \in S, NEW s \in Seq(S)
  PROVE  LET t == <<e>> \o s
         IN  /\ t \in Seq(S) /\ t # <<>> /\ Head(t) = e /\ Tail(t) = s
             /\ Len(t) = Len(s) + 1 /\ t[1] = e /\ \A i \in 1..Len(s) : t[i + 1] = s[i]
             /\ Range(t) = {e} \cup Range(s)
<1> DEFINE t == <<e>> \o s
<1>1. <<e>> \in Seq(S) /\ Len(<<e>>) = 1 /\ <<e>>[1] = e /\ Len(s) \in Nat
  OBVIOUS
<1>2. /\ t \in Seq(S) /\ Len(t) = Len(s) + 1
      /\ \A i \in 1..(Len(s) + 1) : t[i] = IF i <= 1 THEN <<e>>[i] ELSE s[i - 1]
  BY <1>1, ConcatProperties
<1> HIDE DEF t
<1>3. t[1] = e /\ \A i \in 1..Len(s) : t[i + 1] = s[i]
  BY <1>1, <1>2
<1>4. t # <<>>
  BY <1>1, <1>2, EmptySeq
<1>5. Head(t) = e
  BY <1>2, <1>3, <1>4
<1>6. Tail(t) = s
  <2>1. Tail(t) \in Seq(S) /\ Len(Tail(t)) = Len(s) /\ \A i \in 1..Len(Tail(t)) : Tail(t)[i] = t[i + 1]
    BY <1>1, <1>2, <1>4, HeadTailProperties
  <2> QED
    BY <1>3, <2>1, SeqEqual
<1>7. Range(t) = {e} \cup Range(s)
  BY <1>2, <1>4, <1>5, <1>6, HeadTailFacts
<1> QED
  BY <1>2, <1>3, <1>4, <1>5, <1>6, <1>7 DEF t

LEMMA NoticesOfFacts ==
  ASSUME NEW changed \in SUBSET Ranges
  PROVE  LET s == NoticesOf(changed)
         IN  /\ s # <<>>
             /\ s \in Seq(Ranges \cup {"changed"})
             /\ Head(s) = "changed" => changed = {} /\ Tail(s) = <<>>
             /\ Head(s) # "changed" => Head(s) \in changed /\ Tail(s) = NoticesOf(changed \ {Head(s)})
             /\ Range(s) = changed \cup {"changed"}
<1> DEFINE T == Ranges \cup {"changed"}
           of(r, c) == IF r \in c THEN <<r>> ELSE <<>>
           v(c) == of("Visible", c) \o <<"changed">>
           d(c) == of("Display", c) \o v(c)
           p(c) == of("Preload", c) \o d(c)
<1>1. "Preload" \in T /\ "Display" \in T /\ "Visible" \in T /\ "changed" \in T
  BY DEF Ranges
<1>2. <<"changed">> \in Seq(T) /\ <<"changed">> # <<>> /\ Head(<<"changed">>) = "changed" /\ Tail(<<"changed">>) = <<>>
      /\ Range(<<"changed">>) = {"changed"}
  <2> DEFINE s == <<"changed">>
  <2> HIDE DEF T
  <2>1. s \in Seq(T) /\ Len(s) = 1
    BY <1>1
  <2>2. Head(s) = "changed"
    OBVIOUS
  <2>3. Tail(s) = <<>>
    OBVIOUS
  <2>4. s # <<>>
    OBVIOUS
  <2> HIDE DEF s
  <2>5. Range(s) = {Head(s)} \cup Range(Tail(s))
    BY <2>1, <2>4, HeadTailFacts
  <2> QED
    BY <2>1, <2>2, <2>3, <2>4, <2>5, EmptyFacts DEF s
<1>3. ASSUME NEW r \in T, NEW c PROVE of(r, c) \in Seq(T)
  <2> HIDE DEF T
  <2>1. <<r>> \in Seq(T) /\ <<>> \in Seq(T)
    OBVIOUS
  <2> QED
    BY <2>1
<1>4. ASSUME NEW c PROVE NoticesOf(c) = p(c) /\ v(c) \in Seq(T) /\ d(c) \in Seq(T) /\ p(c) \in Seq(T)
  <2> DEFINE P == of("Preload", c)
             D == of("Display", c)
             V == of("Visible", c)
  <2>1. NoticesOf(c) = ((P \o D) \o V) \o <<"changed">>
    BY DEF NoticesOf
  <2>2. P \in Seq(T) /\ D \in Seq(T) /\ V \in Seq(T)
    BY <1>1, <1>3
  <2> HIDE DEF T, of, P, D, V
  <2>3. P \o D \in Seq(T) /\ V \o <<"changed">> \in Seq(T) /\ D \o (V \o <<"changed">>) \in Seq(T)
        /\ P \o (D \o (V \o <<"changed">>)) \in Seq(T)
    BY <1>2, <2>2, ConcatProperties
  <2>4. NoticesOf(c) = (P \o D) \o (V \o <<"changed">>)
    BY <1>2, <2>1, <2>2, <2>3, ConcatAssociative
  <2>5. NoticesOf(c) = P \o (D \o (V \o <<"changed">>))
    BY <2>2, <2>3, <2>4, ConcatAssociative
  <2> QED
    BY <2>3, <2>5 DEF P, D, V
<1>5. ASSUME NEW c
      PROVE  /\ "Visible" \in c => /\ v(c) # <<>> /\ Head(v(c)) = "Visible" /\ Tail(v(c)) = <<"changed">>
                               /\ Range(v(c)) = {"Visible"} \cup Range(<<"changed">>)
             /\ "Visible" \notin c => v(c) = <<"changed">>
  <2>1. <<"changed">> \in Seq(T)
    BY <1>2
  <2>2. CASE "Visible" \in c
    <3> DEFINE w == <<"changed">>
    <3>1. v(c) = <<"Visible">> \o w
      BY <2>2
    <3>2. w \in Seq(T)
      BY <2>1
    <3> HIDE DEF T, of, v, w
    <3>3. /\ v(c) # <<>> /\ Head(v(c)) = "Visible" /\ Tail(v(c)) = w
          /\ Range(v(c)) = {"Visible"} \cup Range(w)
      BY <1>1, <3>1, <3>2, ConsFacts
    <3> QED
      BY <2>2, <3>3 DEF w
  <2>3. CASE "Visible" \notin c
    <3>1. v(c) = <<>> \o <<"changed">>
      BY <2>3
    <3> HIDE DEF T, of, v
    <3> QED
      BY <2>1, <2>3, <3>1, ConcatEmptySeq
  <2> QED
    BY <2>2, <2>3
<1>6. ASSUME NEW c
      PROVE  /\ "Display" \in c => /\ d(c) # <<>> /\ Head(d(c)) = "Display" /\ Tail(d(c)) = v(c)
                               /\ Range(d(c)) = {"Display"} \cup Range(v(c))
             /\ "Display" \notin c => d(c) = v(c)
  <2>1. v(c) \in Seq(T)
    BY <1>4
  <2>2. CASE "Display" \in c
    <3>1. d(c) = <<"Display">> \o v(c)
      BY <2>2
    <3> HIDE DEF T, of, v, d
    <3> QED
      BY <1>1, <2>1, <2>2, <3>1, ConsFacts
  <2>3. CASE "Display" \notin c
    <3>1. d(c) = <<>> \o v(c)
      BY <2>3
    <3> HIDE DEF T, of, v, d
    <3> QED
      BY <2>1, <2>3, <3>1, ConcatEmptySeq
  <2> QED
    BY <2>2, <2>3
<1>7. ASSUME NEW c
      PROVE  /\ "Preload" \in c => /\ p(c) # <<>> /\ Head(p(c)) = "Preload" /\ Tail(p(c)) = d(c)
                               /\ Range(p(c)) = {"Preload"} \cup Range(d(c))
             /\ "Preload" \notin c => p(c) = d(c)
  <2>1. d(c) \in Seq(T)
    BY <1>4
  <2>2. CASE "Preload" \in c
    <3>1. p(c) = <<"Preload">> \o d(c)
      BY <2>2
    <3> HIDE DEF T, of, v, d, p
    <3> QED
      BY <1>1, <2>1, <2>2, <3>1, ConsFacts
  <2>3. CASE "Preload" \notin c
    <3>1. p(c) = <<>> \o d(c)
      BY <2>3
    <3> HIDE DEF T, of, v, d, p
    <3> QED
      BY <2>1, <2>3, <3>1, ConcatEmptySeq
  <2> QED
    BY <2>2, <2>3
<1>8. NoticesOf(changed) \in Seq(Ranges \cup {"changed"})
  BY <1>4
<1>9. \A r : r \in changed => r \in {"Preload", "Display", "Visible"}
  BY DEF Ranges
<1>10. CASE "Preload" \in changed
  <2> DEFINE c == changed \ {"Preload"}
  <2>1. v(c) = v(changed)
    OBVIOUS
  <2>2. d(c) = d(changed)
    BY <2>1
  <2>3. p(c) = d(c)
    BY <1>7
  <2> HIDE DEF v, d, p, of, T
  <2>4. Range(p(changed)) = changed \cup {"changed"}
    <3>1. Range(v(changed)) = (changed \cap {"Visible"}) \cup {"changed"}
      BY <1>2, <1>5
    <3>2. Range(d(changed)) = (changed \cap {"Display", "Visible"}) \cup {"changed"}
      BY <1>6, <3>1
    <3>3. Range(p(changed)) = {"Preload"} \cup Range(d(changed))
      BY <1>7, <1>10
    <3> QED
      BY <1>9, <1>10, <3>2, <3>3
  <2>5. Head(p(changed)) = "Preload" /\ Tail(p(changed)) = p(c) /\ p(changed) # <<>>
    BY <1>7, <1>10, <2>2, <2>3
  <2> QED
    BY <1>4, <1>8, <1>10, <2>4, <2>5
<1>11. CASE "Preload" \notin changed /\ "Display" \in changed
  <2> DEFINE c == changed \ {"Display"}
  <2>1. v(c) = v(changed)
    OBVIOUS
  <2>2. d(c) = v(c)
    BY <1>6
  <2>3. p(c) = d(c)
    BY <1>7, <1>11
  <2> HIDE DEF v, d, p, of, T
  <2>4. Range(p(changed)) = changed \cup {"changed"}
    <3>1. Range(v(changed)) = (changed \cap {"Visible"}) \cup {"changed"}
      BY <1>2, <1>5
    <3>2. p(changed) = d(changed) /\ Range(d(changed)) = {"Display"} \cup Range(v(changed))
      BY <1>6, <1>7, <1>11
    <3> QED
      BY <1>9, <1>11, <3>1, <3>2
  <2>5. Head(p(changed)) = "Display" /\ Tail(p(changed)) = p(c) /\ p(changed) # <<>>
    BY <1>6, <1>7, <1>11, <2>1, <2>2, <2>3
  <2> QED
    BY <1>4, <1>8, <1>11, <2>4, <2>5
<1>12. CASE "Preload" \notin changed /\ "Display" \notin changed /\ "Visible" \in changed
  <2> DEFINE c == changed \ {"Visible"}
  <2>1. v(c) = <<"changed">>
    BY <1>5
  <2>2. p(c) = v(c)
    BY <1>6, <1>7, <1>12
  <2> HIDE DEF v, d, p, of, T
  <2>3. p(changed) = v(changed)
    BY <1>6, <1>7, <1>12
  <2>4. Range(p(changed)) = changed \cup {"changed"}
    BY <1>2, <1>5, <1>9, <1>12, <2>3
  <2>5. Head(p(changed)) = "Visible" /\ Tail(p(changed)) = p(c) /\ p(changed) # <<>>
    BY <1>5, <1>12, <2>1, <2>2, <2>3
  <2> QED
    BY <1>4, <1>8, <1>12, <2>4, <2>5
<1>13. CASE changed = {}
  <2> HIDE DEF v, d, p, of, T
  <2>1. p(changed) = <<"changed">>
    BY <1>5, <1>6, <1>7, <1>13
  <2> QED
    BY <1>2, <1>4, <1>8, <1>13, <2>1
<1>14. changed = {} \/ "Preload" \in changed \/ "Display" \in changed \/ "Visible" \in changed
  BY <1>9
<1> QED
  BY <1>10, <1>11, <1>12, <1>13, <1>14

(* Contents that were about to be cleared are still. *)
ToBeCleared(n) == \E i \in DOMAIN mainQueue : mainQueue[i] = [kind |-> "clear", node |-> n]
ClearsStay == \A n \in contents : ToBeCleared(n) => ToBeCleared(n)'

(* The third disjunct of NoLeftoverContents. *)
Leaving(n) == \E i \in DOMAIN stack : stack[i].node = n /\ "Display" \in Range(stack[i].todo)

LEMMA LeftoverForm ==
  /\ NoLeftoverContents <=>
       \A n \in contents : "Display" \in interfaceState[n] \/ ToBeCleared(n) \/ Leaving(n)
  /\ NoLeftoverContents' <=>
       \A n \in contents' : "Display" \in interfaceState'[n] \/ ToBeCleared(n)' \/ Leaving(n)'
BY DEF NoLeftoverContents, ToBeCleared, Leaving

(* Steps that apply nothing and tell nothing. *)
LEMMA TellFrame ==
  ASSUME TellInv, UNCHANGED <<interfaceState, stack, told, reported, displaySuspended>>,
         contents' \subseteq contents, ClearsStay
  PROVE  TellInv'
<1>1. OneCallEach' /\ OthersAreSettled' /\ displaySuspended' \subseteq Managed
  BY DEF TellInv, OneCallEach, OthersAreSettled, Applying, Owes
<1>2. CallsAreRight'
  BY DEF TellInv, CallsAreRight, FrameOK, Owes
<1>3. \A n : Leaving(n)' = Leaving(n)
  BY DEF Leaving
<1>4. NoLeftoverContents'
  BY <1>3, LeftoverForm DEF TellInv, ClearsStay
<1> QED
  BY <1>1, <1>2, <1>4 DEF TellInv

(* A state that is applied to a node of which nothing is told at the time:  *)
(* what it owes is what has changed.                                        *)
LEMMA ApplyTells ==
  ASSUME IInv, TellInv, NEW n \in Node, NEW new \in SUBSET Ranges, ~Applying(n),
         applyPendingInterfaceState(n, new), UNCHANGED <<told, reported, displaySuspended, contents>>, ClearsStay
  PROVE  TellInv'
<1>1. CASE new = interfaceState[n]
  BY <1>1, TellFrame DEF applyPendingInterfaceState
<1>2. CASE new # interfaceState[n]
  <2>1. PICK old \in SUBSET Ranges, changed \in SUBSET Ranges :
          old = interfaceState[n] /\ changed = (old \cup new) \ (old \cap new)
    BY DEF IInv, StateInv, StateTypes
  <2>2. NoticesOf(changed) \in Seq(Ranges \cup {"changed"}) /\ Range(NoticesOf(changed)) = changed \cup {"changed"}
    BY NoticesOfFacts
  <2>3. PICK f \in Frame : f = [node |-> n, from |-> old, to |-> new, todo |-> NoticesOf(changed)]
    BY <2>2 DEF Frame
  <2>4. interfaceState' = [interfaceState EXCEPT ![n] = new] /\ stack' = <<f>> \o stack /\ stack \in Seq(Frame)
    BY <1>2, <2>1, <2>3 DEF applyPendingInterfaceState, Notices, IInv, StateInv
  <2>5. f.node = n /\ f.from = old /\ f.to = new /\ f.todo = NoticesOf(changed)
    BY <2>3
  <2>6. /\ interfaceState'[n] = new
        /\ \A m \in Node \ {n} : interfaceState'[m] = interfaceState[m]
    BY <2>4 DEF IInv, StateInv, StateTypes
  <2>7. Owes(n, {}, old)
    BY <2>1 DEF TellInv, OthersAreSettled
  <2>8. Owes(n, changed, old)'
    BY <2>1, <2>6, <2>7 DEF Owes
  <2>9. \A m \in Node \ {n} : \A c, from : Owes(m, c, from) => Owes(m, c, from)'
    BY <2>6 DEF Owes
  <2>10. /\ Len(stack) \in Nat /\ DOMAIN stack = 1..Len(stack)
         /\ Len(stack') = Len(stack) + 1 /\ DOMAIN stack' = 1..Len(stack')
         /\ stack'[1] = f /\ \A i \in 1..Len(stack) : stack'[i + 1] = stack[i]
    BY <2>4, ConsFacts
  <2>11. /\ 1 \in DOMAIN stack' /\ stack'[1] = f
         /\ \A i \in DOMAIN stack : i + 1 \in DOMAIN stack' /\ stack'[i + 1] = stack[i]
         /\ \A i \in DOMAIN stack' : i = 1 \/ (i - 1 \in DOMAIN stack /\ stack'[i] = stack[i - 1])
    BY <2>10
  <2>12. \A i \in DOMAIN stack : stack[i].node \in Node \ {n}
    <3>1. \A i \in DOMAIN stack : stack[i] \in Frame
      BY <2>4, <2>10
    <3> QED
      BY <3>1 DEF Applying, Frame
  <2>13. OneCallEach'
    <3> SUFFICES ASSUME NEW i \in DOMAIN stack', NEW j \in DOMAIN stack', stack'[i].node = stack'[j].node
                 PROVE  i = j
      BY DEF OneCallEach
    <3>1. CASE i = 1 \/ j = 1
      BY <3>1, <2>5, <2>11, <2>12
    <3>2. CASE i # 1 /\ j # 1
      <4>1. i - 1 = j - 1
        BY <3>2, <2>11 DEF TellInv, OneCallEach
      <4> QED
        BY <4>1, <2>10
    <3> QED
      BY <3>1, <3>2
  <2>14. FrameOK(f)'
    <3>1. f.to = interfaceState'[f.node] /\ f.todo = NoticesOf(changed) /\ Owes(f.node, changed, f.from)'
      BY <2>5, <2>6, <2>8
    <3> QED
      BY <3>1 DEF FrameOK
  <2>15. ASSUME NEW g \in Frame, g.node # n, FrameOK(g) PROVE FrameOK(g)'
    <3>1. g.to = interfaceState'[g.node] /\ \A c, from : Owes(g.node, c, from) => Owes(g.node, c, from)'
      BY <2>6, <2>9, <2>15 DEF FrameOK, Frame
    <3> QED
      BY <2>15, <3>1 DEF FrameOK
  <2>16. CallsAreRight'
    <3> SUFFICES ASSUME NEW i \in DOMAIN stack' PROVE FrameOK(stack[i])'
      BY DEF CallsAreRight
    <3>1. CASE i = 1
      <4>1. stack'[i] = f
        BY <2>11, <3>1
      <4> QED
        BY <2>14, <4>1 DEF FrameOK, Owes
    <3>2. CASE i # 1
      <4>1. i - 1 \in DOMAIN stack /\ stack'[i] = stack[i - 1]
        BY <2>11, <3>2
      <4>2. PICK g \in Frame : g = stack[i - 1]
        BY <2>4, <2>10, <4>1
      <4>3. FrameOK(g) /\ g.node # n
        BY <2>12, <4>1, <4>2 DEF TellInv, CallsAreRight
      <4>4. FrameOK(g)' /\ stack'[i] = g
        BY <2>15, <4>1, <4>2, <4>3
      <4> QED
        BY <4>4 DEF FrameOK, Owes
    <3> QED
      BY <3>1, <3>2
  <2>17. OthersAreSettled'
    <3> SUFFICES ASSUME NEW m \in Node, ~Applying(m)' PROVE Owes(m, {}, interfaceState[m])'
      BY DEF OthersAreSettled
    <3>1. m # n
      BY <2>5, <2>11 DEF Applying
    <3>2. ~Applying(m)
      BY <2>11 DEF Applying
    <3> QED
      BY <2>6, <2>9, <3>1, <3>2 DEF TellInv, OthersAreSettled
  <2>18. NoLeftoverContents'
    <3> SUFFICES ASSUME NEW m \in contents', "Display" \notin interfaceState'[m]
                 PROVE  ToBeCleared(m)' \/ Leaving(m)'
      BY LeftoverForm
    <3>1. m \in contents /\ m \in Node
      BY DEF IInv, RestInv
    <3>2. "Display" \in interfaceState[m] \/ ToBeCleared(m) \/ Leaving(m)
      BY <3>1, LeftoverForm DEF TellInv
    <3>3. CASE Leaving(m)
      BY <2>11, <3>3 DEF Leaving
    <3>4. CASE ToBeCleared(m)
      BY <3>1, <3>4 DEF ClearsStay
    <3>5. CASE "Display" \in interfaceState[m]
      <4>1. m = n
        BY <2>6, <3>1, <3>5
      <4>2. "Display" \in changed
        BY <2>1, <2>6, <3>5, <4>1
      <4> QED
        BY <2>2, <2>5, <2>11, <4>1, <4>2 DEF Leaving
    <3> QED
      BY <3>2, <3>3, <3>4, <3>5
  <2> QED
    BY <2>13, <2>16, <2>17, <2>18 DEF TellInv
<1> QED
  BY <1>1, <1>2

(* A state is set only of nodes of which nothing is told, or applied later. *)
LEMMA SetTells ==
  ASSUME IInv, TellInv, NEW n \in Node, NEW new \in SUBSET Ranges, NEW kept, NEW onMain,
         enabled \/ ~Applying(n), setInterfaceState(n, new, kept, onMain),
         UNCHANGED <<told, reported, displaySuspended, contents>>, ClearsStay
  PROVE  TellInv'
<1>1. CASE enabled
  BY <1>1, TellFrame DEF setInterfaceState
<1>2. CASE ~enabled
  BY <1>2, ApplyTells DEF setInterfaceState
<1> QED
  BY <1>1, <1>2

LEMMA ExitVisibleTells ==
  ASSUME IInv, TellInv, NEW n \in Node, NEW b, enabled \/ ~Applying(n), exitVisibleInterfaceState(n, b),
         UNCHANGED <<told, reported, displaySuspended, contents>>, ClearsStay
  PROVE  TellInv'
<1>1. pendingInterfaceState[n] \ {"Visible"} \in SUBSET Ranges
  BY DEF IInv, StateInv, StateTypes
<1>2. CASE setInterfaceState(n, pendingInterfaceState[n] \ {"Visible"}, pendingInterfaceState[n], TRUE)
  BY <1>1, <1>2, SetTells
<1>3. CASE UNCHANGED <<interfaceState, stack>>
  BY <1>3, TellFrame
<1> QED
  BY <1>2, <1>3 DEF exitVisibleInterfaceState

LEMMA SameQueueTells == UNCHANGED mainQueue => ClearsStay
BY DEF ClearsStay, ToBeCleared

LEMMA InitTells == Init => TellInv
<1> SUFFICES ASSUME Init PROVE TellInv
  OBVIOUS
<1>1. stack = <<>> /\ DOMAIN stack = {} /\ contents = {} /\ displaySuspended = {}
  BY DEF Init
<1>2. \A n \in Node : interfaceState[n] = {} /\ told[n] = {} /\ reported[n] = {}
  BY DEF Init
<1>3. OneCallEach /\ CallsAreRight
  BY <1>1 DEF OneCallEach, CallsAreRight
<1>4. OthersAreSettled
  <2>1. ASSUME NEW n \in Node PROVE Owes(n, {}, interfaceState[n])
    <3>1. reported[n] = interfaceState[n] /\ n \notin displaySuspended
      BY <1>1, <1>2
    <3>2. \A r : r \notin told[n] /\ r \notin interfaceState[n]
      BY <1>2
    <3> QED
      BY <3>1, <3>2 DEF Owes
  <2> QED
    BY <2>1 DEF OthersAreSettled
<1>5. NoLeftoverContents /\ displaySuspended \subseteq Managed
  BY <1>1 DEF NoLeftoverContents
<1> QED
  BY <1>3, <1>4, <1>5 DEF TellInv

LEMMA ChangeTells ==
  ASSUME IInv, TellInv, ~Reenters, NEW n \in Node,
         \/ \E s \in States : recursivelySetInterfaceState(n, s) \/ enterInterfaceState(n, s)
         \/ exitInterfaceState(n, "Visible") \/ exitInterfaceState(n, "Display")
         \/ enterHierarchy(n)
  PROVE  TellInv'
<1>1. enabled \/ ~Applying(n)
  BY DEF MayChange, recursivelySetInterfaceState, enterInterfaceState, exitInterfaceState, enterHierarchy
<1>2. UNCHANGED <<told, reported, displaySuspended, contents>> /\ ClearsStay
  BY SameQueueTells
     DEF recursivelySetInterfaceState, enterInterfaceState, exitInterfaceState, enterHierarchy, callbackVars
<1>3. interfaceState[n] \in SUBSET Ranges /\ preExitingInterfaceState[n] \in SUBSET Ranges
  BY DEF IInv, StateInv, StateTypes
<1>4. CASE \E s \in States : recursivelySetInterfaceState(n, s) \/ enterInterfaceState(n, s)
  <2>1. \A s \in States : s \in SUBSET Ranges /\ interfaceState[n] \cup s \in SUBSET Ranges
    BY <1>3, StatesAssumption
  <2> QED
    BY <1>1, <1>2, <1>4, <2>1, SetTells DEF recursivelySetInterfaceState, enterInterfaceState
<1>5. CASE exitInterfaceState(n, "Visible") \/ exitInterfaceState(n, "Display")
  <2>1. \A r : interfaceState[n] \ {r} \in SUBSET Ranges
    BY <1>3
  <2> QED
    BY <1>1, <1>2, <1>5, <2>1, SetTells DEF exitInterfaceState
<1>6. CASE enterHierarchy(n)
  <2>1. \/ setInterfaceState(n, InHierarchy, preExitingInterfaceState[n], TRUE)
        \/ setInterfaceState(n, preExitingInterfaceState[n], {}, TRUE)
        \/ UNCHANGED <<interfaceState, stack>>
    BY <1>6 DEF enterHierarchy, willEnterHierarchy, stateVars
  <2>2. InHierarchy \in SUBSET Ranges
    BY DEF InHierarchy
  <2> QED
    BY <1>1, <1>2, <1>3, <2>1, <2>2, SetTells, TellFrame
<1> QED
  BY <1>4, <1>5, <1>6

LEMMA ExitHierarchyTells ==
  ASSUME IInv, TellInv, NEW n \in Node, exitHierarchy(n)
  PROVE  TellInv'
<1>1. ~Applying(n) /\ UNCHANGED <<told, reported, displaySuspended, contents>> /\ didExit(n)
  BY DEF exitHierarchy, callbackVars
<1>2. CASE UNCHANGED mainQueue
  <2>1. \/ setInterfaceState(n, {}, preExitingInterfaceState[n], TRUE)
        \/ exitVisibleInterfaceState(n, FALSE)
        \/ UNCHANGED <<interfaceState, stack>>
    BY <1>1 DEF didExit, stateVars
  <2> QED
    BY <1>1, <1>2, <2>1, SetTells, ExitVisibleTells, TellFrame, SameQueueTells
<1>3. CASE /\ mainQueue' = Append(mainQueue, [kind |-> "exit", node |-> n])
           /\ UNCHANGED <<interfaceState, stack>>
  <2>1. mainQueue \in Seq(Block) /\ [kind |-> "exit", node |-> n] \in Block
    BY DEF IInv, RestInv, Block
  <2>2. \A i \in DOMAIN mainQueue : i \in DOMAIN mainQueue' /\ mainQueue'[i] = mainQueue[i]
    <3> DEFINE b == [kind |-> "exit", node |-> n]
    <3>1. b \in Block /\ mainQueue' = Append(mainQueue, b)
      BY <1>3, <2>1
    <3> HIDE DEF b
    <3>2. /\ Len(mainQueue') = Len(mainQueue) + 1 /\ mainQueue' \in Seq(Block)
          /\ \A i \in 1..Len(mainQueue) : mainQueue'[i] = mainQueue[i]
      BY <2>1, <3>1, AppendProperties
    <3> QED
      BY <2>1, <3>2
  <2>3. ClearsStay
    BY <2>2 DEF ClearsStay, ToBeCleared
  <2> QED
    BY <1>1, <1>3, <2>3, TellFrame
<1> QED
  BY <1>1, <1>2, <1>3 DEF didExit, stateVars

LEMMA PrepareTells ==
  ASSUME IInv, TellInv, prepareForCATransactionCommit
  PROVE  TellInv'
<1> DEFINE n == Head(batchBuffer)
<1>1. batchBuffer \in Seq(Node) /\ batchBuffer # <<>> /\ stack = <<>>
  BY DEF prepareForCATransactionCommit, callNext, IInv, StateInv, QInv, QueueTypeOK
<1>2. n \in Node
  BY <1>1, HeadTailFacts
<1>3. pendingInterfaceState[n] \in SUBSET Ranges /\ applyPendingInterfaceState(n, pendingInterfaceState[n])
      /\ UNCHANGED <<callbackVars, mainQueue>>
  BY <1>2 DEF prepareForCATransactionCommit, IInv, StateInv, StateTypes
<1>4. ~Applying(n)
  BY <1>1 DEF Applying
<1> HIDE DEF n
<1> QED
  BY <1>2, <1>3, <1>4, ApplyTells, SameQueueTells DEF callbackVars

LEMMA DisplayTells ==
  ASSUME IInv, TellInv, NEW n \in Node, display(n)
  PROVE  TellInv'
<1>1. contents' = contents \cup {n} /\ "Display" \in interfaceState[n]
      /\ UNCHANGED <<interfaceState, stack, told, reported, displaySuspended, mainQueue>>
  BY DEF display, stateVars
<1>2. OneCallEach' /\ OthersAreSettled' /\ displaySuspended' \subseteq Managed
  BY <1>1 DEF TellInv, OneCallEach, OthersAreSettled, Applying, Owes
<1>3. CallsAreRight'
  BY <1>1 DEF TellInv, CallsAreRight, FrameOK, Owes
<1>4. NoLeftoverContents'
  BY <1>1 DEF TellInv, NoLeftoverContents
<1> QED
  BY <1>2, <1>3, <1>4 DEF TellInv

LEMMA RunBlockTells ==
  ASSUME IInv, TellInv, runBlock
  PROVE  TellInv'
<1>1. PICK b \in Block : b = Head(mainQueue)
  BY HeadTailFacts DEF runBlock, IInv, RestInv
<1>2. /\ stack = <<>> /\ mainQueue \in Seq(Block) /\ mainQueue # <<>> /\ mainQueue' = Tail(mainQueue)
      /\ UNCHANGED <<told, reported, displaySuspended>>
  BY DEF runBlock, IInv, RestInv
<1>3. \A n : ~Applying(n)
  BY <1>2 DEF Applying
<1>4. b.node \in Node
  BY DEF Block
<1>5. \A i \in DOMAIN mainQueue : mainQueue[i] = b \/ \E j \in DOMAIN mainQueue' : mainQueue'[j] = mainQueue[i]
  <2>1. Range(mainQueue) = {b} \cup Range(mainQueue')
    BY <1>1, <1>2, HeadTailFacts
  <2> QED
    BY <2>1 DEF Range
<1>6. \A n : ToBeCleared(n) => b = [kind |-> "clear", node |-> n] \/ ToBeCleared(n)'
  BY <1>5 DEF ToBeCleared
<1>7. CASE b.kind = "exit"
  <2>1. exitVisibleInterfaceState(b.node, b.node \in isInHierarchy) /\ UNCHANGED contents
    BY <1>1, <1>7 DEF runBlock
  <2>2. ClearsStay
    BY <1>6, <1>7 DEF ClearsStay
  <2> QED
    BY <1>2, <1>3, <1>4, <2>1, <2>2, ExitVisibleTells
<1>8. CASE b.kind # "exit"
  <2>1. clearContents(b.node) /\ UNCHANGED <<interfaceState, stack>>
    BY <1>1, <1>8 DEF runBlock, stateVars
  <2>2. contents' \subseteq contents /\ (b.node \in contents' => "Display" \in interfaceState[b.node])
    BY <2>1 DEF clearContents
  <2>3. OneCallEach' /\ OthersAreSettled' /\ displaySuspended' \subseteq Managed
    BY <1>2, <2>1 DEF TellInv, OneCallEach, OthersAreSettled, Applying, Owes
  <2>4. CallsAreRight'
    BY <1>2, <2>1 DEF TellInv, CallsAreRight, FrameOK, Owes
  <2>5. NoLeftoverContents'
    <3> SUFFICES ASSUME NEW n \in contents', "Display" \notin interfaceState'[n]
                 PROVE  ToBeCleared(n)'
      BY LeftoverForm
    <3>1. n # b.node /\ n \in contents /\ ~Leaving(n)
      BY <1>2, <2>1, <2>2 DEF Leaving
    <3>2. ToBeCleared(n)
      BY <2>1, <3>1, LeftoverForm DEF TellInv
    <3> QED
      BY <1>6, <3>1, <3>2
  <2> QED
    BY <2>3, <2>4, <2>5 DEF TellInv
<1> QED
  BY <1>7, <1>8

(* The stack below the top. *)
LEMMA StackFacts ==
  ASSUME IInv, stack # <<>>
  PROVE  \E f \in Frame :
           /\ f = Top /\ stack[1] = f /\ 1 \in DOMAIN stack
           /\ Tail(stack) \in Seq(Frame)
           /\ \A i \in DOMAIN stack : i \in Nat /\ stack[i] \in Frame
           /\ \A i \in DOMAIN Tail(stack) : i + 1 \in DOMAIN stack /\ i # 0 /\ Tail(stack)[i] = stack[i + 1]
           /\ \A i \in DOMAIN stack : i = 1 \/ (i - 1 \in DOMAIN Tail(stack) /\ Tail(stack)[i - 1] = stack[i])
<1>1. stack \in Seq(Frame)
  BY DEF IInv, StateInv
<1>2. /\ Head(stack) \in Frame /\ Tail(stack) \in Seq(Frame) /\ Len(Tail(stack)) = Len(stack) - 1
      /\ Len(stack) \in Nat \ {0}
      /\ \A i \in 1..Len(Tail(stack)) : Tail(stack)[i] = stack[i + 1]
      /\ Head(stack) = stack[1]
  BY <1>1, HeadTailProperties, EmptySeq
<1>3. DOMAIN stack = 1..Len(stack) /\ DOMAIN Tail(stack) = 1..(Len(stack) - 1)
  BY <1>1, <1>2
<1> QED
  BY <1>1, <1>2, <1>3 DEF Top

(* Whoever has told everything owes nothing. *)
LEMMA ReturnTells ==
  ASSUME IInv, TellInv, return
  PROVE  TellInv'
<1>1. /\ stack # <<>> /\ stack' = Tail(stack)
      /\ UNCHANGED <<interfaceState, told, reported, displaySuspended, contents, mainQueue>>
  BY DEF return, stateVars, callbackVars
<1>2. PICK f \in Frame :
        /\ f = Top /\ stack[1] = f /\ 1 \in DOMAIN stack
        /\ \A i \in DOMAIN stack : i \in Nat /\ stack[i] \in Frame
        /\ \A i \in DOMAIN stack' : i + 1 \in DOMAIN stack /\ i # 0 /\ stack'[i] = stack[i + 1]
        /\ \A i \in DOMAIN stack : i = 1 \/ (i - 1 \in DOMAIN stack' /\ stack'[i - 1] = stack[i])
  BY <1>1, StackFacts
<1>3. f.todo = <<>> /\ FrameOK(f) /\ f.node \in Node
  BY <1>2 DEF return, TellInv, CallsAreRight, Frame
<1>4. Owes(f.node, {}, interfaceState[f.node])
  <2>1. \A changed \in SUBSET Ranges : f.todo # NoticesOf(changed)
    BY <1>3, NoticesOfFacts
  <2> QED
    BY <1>3, <2>1 DEF FrameOK
<1>5. \A m \in Node : \A c, from : Owes(m, c, from)' = Owes(m, c, from)
  BY <1>1 DEF Owes
<1>6. OneCallEach'
  <2> SUFFICES ASSUME NEW i \in DOMAIN stack', NEW j \in DOMAIN stack', stack'[i].node = stack'[j].node
               PROVE  i = j
    BY DEF OneCallEach
  <2>1. i \in Int /\ j \in Int
    <3>1. stack' \in Seq(Frame)
      BY <1>1, StackFacts
    <3> QED
      BY <3>1
  <2>2. i + 1 = j + 1
    BY <1>2 DEF TellInv, OneCallEach
  <2> QED
    BY <2>1, <2>2
<1>7. CallsAreRight'
  <2> SUFFICES ASSUME NEW i \in DOMAIN stack' PROVE FrameOK(stack[i])'
    BY DEF CallsAreRight
  <2>1. PICK g \in Frame : g = stack[i + 1] /\ g = stack'[i]
    BY <1>2
  <2>2. FrameOK(g)
    BY <1>2, <2>1 DEF TellInv, CallsAreRight
  <2> QED
    BY <1>1, <2>1, <2>2 DEF FrameOK, Owes
<1>8. OthersAreSettled'
  <2> SUFFICES ASSUME NEW m \in Node, ~Applying(m)' PROVE Owes(m, {}, interfaceState[m])'
    BY DEF OthersAreSettled
  <2>1. m = f.node \/ ~Applying(m)
    BY <1>2 DEF Applying
  <2>2. Owes(m, {}, interfaceState[m])
    BY <1>4, <2>1 DEF TellInv, OthersAreSettled
  <2> QED
    BY <1>1, <2>2 DEF Owes
<1>9. NoLeftoverContents'
  <2>1. \A m : Leaving(m) => Leaving(m)'
    BY <1>2, <1>3, EmptyFacts DEF Leaving
  <2>2. \A m : ToBeCleared(m)' = ToBeCleared(m)
    BY <1>1 DEF ToBeCleared
  <2> QED
    BY <1>1, <2>1, <2>2, LeftoverForm DEF TellInv
<1> QED
  BY <1>1, <1>6, <1>7, <1>8, <1>9 DEF TellInv

(* What is told next is in changed, and is not owed any more.               *)
LEMMA NotifyTells ==
  ASSUME IInv, TellInv, notify
  PROVE  TellInv'
<1>1. /\ stack # <<>> /\ Top.todo # <<>>
      /\ UNCHANGED <<interfaceState, contents>>
  BY DEF notify, stateVars
<1>2. PICK f \in Frame :
        /\ f = Top /\ stack[1] = f /\ 1 \in DOMAIN stack /\ Tail(stack) \in Seq(Frame)
        /\ \A i \in DOMAIN stack : i \in Nat /\ stack[i] \in Frame
        /\ \A i \in DOMAIN Tail(stack) : i + 1 \in DOMAIN stack /\ i # 0 /\ Tail(stack)[i] = stack[i + 1]
        /\ \A i \in DOMAIN stack : i = 1 \/ (i - 1 \in DOMAIN Tail(stack) /\ Tail(stack)[i - 1] = stack[i])
  BY <1>1, StackFacts
<1>3. FrameOK(f) /\ f.node \in Node /\ f.to = interfaceState[f.node]
  BY <1>2 DEF TellInv, CallsAreRight, FrameOK, Frame
<1>4. PICK changed \in SUBSET Ranges : f.todo = NoticesOf(changed) /\ Owes(f.node, changed, f.from)
  BY <1>1, <1>2, <1>3 DEF FrameOK
<1>5. PICK r, rest : r = Head(f.todo) /\ rest = Tail(f.todo)
  OBVIOUS
<1>6. /\ rest \in Seq(Ranges \cup {"changed"}) /\ r \in Ranges \cup {"changed"}
      /\ r = "changed" => changed = {} /\ rest = <<>>
      /\ r # "changed" => r \in changed /\ rest = NoticesOf(changed \ {r})
      /\ Range(f.todo) = changed \cup {"changed"}
  <2>1. f.todo # <<>> /\ f.todo \in Seq(Ranges \cup {"changed"})
    BY <1>4, NoticesOfFacts
  <2>2. r \in Ranges \cup {"changed"} /\ rest \in Seq(Ranges \cup {"changed"})
    BY <1>5, <2>1, HeadTailFacts
  <2> QED
    BY <1>4, <1>5, <2>2, NoticesOfFacts
<1>7. r # "changed" => r \in Ranges /\ changed \ {r} \in SUBSET Ranges /\ Range(rest) = (changed \ {r}) \cup {"changed"}
  BY <1>6, NoticesOfFacts
<1>8. PICK g \in Frame : g = [f EXCEPT !.todo = rest]
  BY <1>6 DEF Frame
<1>9. g.node = f.node /\ g.from = f.from /\ g.to = f.to /\ g.todo = rest
  BY <1>8 DEF Frame
<1>10. stack' = <<g>> \o Tail(stack)
  BY <1>2, <1>5, <1>8 DEF notify
<1>11. /\ DOMAIN stack' = DOMAIN stack
       /\ stack'[1] = g
       /\ \A i \in DOMAIN stack : i # 1 => stack'[i] = stack[i]
  <2>1. /\ Len(stack') = Len(Tail(stack)) + 1 /\ stack' \in Seq(Frame)
        /\ stack'[1] = g /\ \A i \in 1..Len(Tail(stack)) : stack'[i + 1] = Tail(stack)[i]
    BY <1>2, <1>10, ConsFacts
  <2>2. /\ stack \in Seq(Frame) /\ Len(stack) \in Nat \ {0}
        /\ Len(Tail(stack)) = Len(stack) - 1
        /\ \A i \in 1..(Len(stack) - 1) : Tail(stack)[i] = stack[i + 1]
    BY <1>1, HeadTailProperties, EmptySeq DEF IInv, StateInv
  <2>3. DOMAIN stack = 1..Len(stack) /\ DOMAIN stack' = 1..Len(stack)
    BY <2>1, <2>2
  <2>4. ASSUME NEW i \in 1..Len(stack), i # 1 PROVE stack'[i] = stack[i]
    <3>1. i - 1 \in 1..(Len(stack) - 1) /\ (i - 1) + 1 = i
      BY <2>2, <2>4
    <3> QED
      BY <2>1, <2>2, <3>1
  <2> QED
    BY <2>1, <2>3, <2>4
<1>12. /\ reported' = IF r = "changed" THEN [reported EXCEPT ![f.node] = f.to] ELSE reported
       /\ IF r = "Display" THEN displayChange(f.node, r \in f.to) ELSE UNCHANGED <<displaySuspended, mainQueue>>
       /\ r = "changed" => told' = told
       /\ r # "changed" /\ r \in f.to => told' = [told EXCEPT ![f.node] = told[f.node] \cup {r}]
       /\ r # "changed" /\ r \notin f.to /\ (r # "Preload" \/ f.node \in Managed)
            => told' = [told EXCEPT ![f.node] = told[f.node] \ {r}]
       /\ r # "changed" /\ r \notin f.to /\ ~(r # "Preload" \/ f.node \in Managed) => told' = told
  BY <1>2, <1>5 DEF notify
<1>13. told \in [Node -> SUBSET Ranges] /\ reported \in [Node -> SUBSET Ranges]
  BY DEF IInv, RestInv
<1>14. \A m \in Node \ {f.node} : told'[m] = told[m] /\ reported'[m] = reported[m]
  BY <1>3, <1>12, <1>13
<1>15. \A m \in Node \ {f.node} : (m \in displaySuspended') = (m \in displaySuspended)
  BY <1>12 DEF displayChange
<1>16. \A m \in Node \ {f.node} : \A c, from : Owes(m, c, from) => Owes(m, c, from)'
  BY <1>1, <1>14, <1>15 DEF Owes
<1>17. displaySuspended' \subseteq Managed
  BY <1>12 DEF displayChange, TellInv
<1>18. FrameOK(g)'
  <2>1. CASE r = "changed"
    <3>1. changed = {} /\ g.todo = <<>> /\ told' = told /\ displaySuspended' = displaySuspended
      BY <1>6, <1>9, <1>12, <2>1
    <3>2. reported'[f.node] = f.to
      BY <1>3, <1>12, <1>13, <2>1
    <3>3. Owes(g.node, {}, g.to)'
      BY <1>1, <1>4, <1>9, <3>1, <3>2 DEF Owes
    <3> QED
      BY <1>1, <1>3, <1>9, <3>1, <3>3 DEF FrameOK
  <2>2. CASE r # "changed"
    <3>1. reported'[f.node] = f.from
      BY <1>4, <1>12, <2>2 DEF Owes
    <3>2. r \in changed /\ r \in Ranges
      BY <1>6, <1>7, <2>2
    <3>3. /\ r \in f.to => told'[f.node] = told[f.node] \cup {r}
          /\ r \notin f.to /\ (r # "Preload" \/ f.node \in Managed) => told'[f.node] = told[f.node] \ {r}
          /\ r \notin f.to /\ ~(r # "Preload" \/ f.node \in Managed) => told'[f.node] = told[f.node]
      BY <1>3, <1>12, <1>13, <2>2
    <3>4. ASSUME NEW q \in Ranges, q # "Preload" \/ f.node \in Managed
          PROVE  (q \in told'[f.node]) = ((q \in interfaceState'[f.node]) # (q \in changed \ {r}))
      <4>1. (q \in told[f.node]) = ((q \in interfaceState[f.node]) # (q \in changed))
        BY <1>4, <3>4 DEF Owes
      <4>2. CASE q = r
        BY <1>1, <1>3, <3>3, <3>4, <4>2
      <4>3. CASE q # r
        BY <1>1, <3>3, <4>1, <4>3
      <4> QED
        BY <4>2, <4>3
    <3>5. f.node \in displaySuspended' /\ "Display" \in interfaceState'[f.node] => "Display" \in changed \ {r}
      <4>1. CASE r = "Display"
        <5>1. f.node \in Managed /\ "Display" \in f.to => f.node \notin displaySuspended'
          BY <1>12, <4>1 DEF displayChange
        <5> QED
          BY <1>1, <1>3, <1>17, <5>1
      <4>2. CASE r # "Display"
        BY <1>1, <1>4, <1>12, <4>2 DEF Owes
      <4> QED
        BY <4>1, <4>2
    <3>6. Owes(g.node, changed \ {r}, g.from)'
      BY <1>9, <3>1, <3>4, <3>5 DEF Owes
    <3>7. g.todo = NoticesOf(changed \ {r}) /\ changed \ {r} \in SUBSET Ranges
      BY <1>6, <1>7, <1>9, <2>2
    <3> QED
      BY <1>1, <1>3, <1>9, <3>6, <3>7 DEF FrameOK
  <2> QED
    BY <2>1, <2>2
<1>19. OneCallEach'
  <2>1. \A i \in DOMAIN stack : stack'[i].node = stack[i].node
    BY <1>2, <1>9, <1>11
  <2> QED
    BY <1>11, <2>1 DEF TellInv, OneCallEach
<1>20. CallsAreRight'
  <2> SUFFICES ASSUME NEW i \in DOMAIN stack PROVE FrameOK(stack[i])'
    BY <1>11 DEF CallsAreRight
  <2>1. CASE i = 1
    <3>1. stack'[i] = g
      BY <1>11, <2>1
    <3> QED
      BY <1>18, <3>1 DEF FrameOK, Owes
  <2>2. CASE i # 1
    <3>1. PICK h \in Frame : h = stack[i] /\ h = stack'[i]
      BY <1>2, <1>11, <2>2
    <3>2. FrameOK(h) /\ h.node # f.node /\ h.node \in Node
      BY <1>2, <2>2, <3>1 DEF TellInv, CallsAreRight, OneCallEach, Frame
    <3>3. FrameOK(h)'
      BY <1>1, <1>16, <3>2 DEF FrameOK
    <3> QED
      BY <3>1, <3>3 DEF FrameOK, Owes
  <2> QED
    BY <2>1, <2>2
<1>21. OthersAreSettled'
  <2> SUFFICES ASSUME NEW m \in Node, ~Applying(m)' PROVE Owes(m, {}, interfaceState[m])'
    BY DEF OthersAreSettled
  <2>1. m # f.node /\ ~Applying(m)
    BY <1>2, <1>9, <1>11 DEF Applying
  <2>2. Owes(m, {}, interfaceState[m])
    BY <2>1 DEF TellInv, OthersAreSettled
  <2>3. Owes(m, {}, interfaceState[m]) => reported[m] = interfaceState[m]
    BY DEF Owes
  <2> QED
    BY <1>1, <1>14, <1>15, <2>1, <2>2 DEF Owes
<1>22. \A m : ToBeCleared(m) => ToBeCleared(m)'
  <2>1. CASE mainQueue' = mainQueue
    BY <2>1 DEF ToBeCleared
  <2>2. PICK b \in Block : b = [kind |-> "clear", node |-> f.node]
    BY <1>3 DEF Block
  <2>3. CASE mainQueue' = Append(mainQueue, b)
    <3>1. /\ mainQueue \in Seq(Block) /\ Len(mainQueue') = Len(mainQueue) + 1 /\ mainQueue' \in Seq(Block)
          /\ \A i \in 1..Len(mainQueue) : mainQueue'[i] = mainQueue[i]
      BY <2>3, AppendProperties DEF IInv, RestInv
    <3>2. \A i \in DOMAIN mainQueue : i \in DOMAIN mainQueue' /\ mainQueue'[i] = mainQueue[i]
      BY <3>1
    <3> QED
      BY <3>2 DEF ToBeCleared
  <2> QED
    BY <1>12, <2>1, <2>2, <2>3 DEF displayChange
<1>23. r = "Display" /\ "Display" \notin f.to => ToBeCleared(f.node)'
  <2> SUFFICES ASSUME r = "Display", "Display" \notin f.to PROVE ToBeCleared(f.node)'
    OBVIOUS
  <2>1. PICK b \in Block : b = [kind |-> "clear", node |-> f.node]
    BY <1>3 DEF Block
  <2>2. mainQueue \in Seq(Block) /\ mainQueue' = Append(mainQueue, b)
    BY <1>12, <2>1 DEF displayChange, IInv, RestInv
  <2>3. mainQueue'[Len(mainQueue) + 1] = b /\ Len(mainQueue') = Len(mainQueue) + 1 /\ mainQueue' \in Seq(Block)
    BY <2>2, AppendProperties
  <2>4. Len(mainQueue) + 1 \in DOMAIN mainQueue'
    BY <2>2, <2>3
  <2> QED
    BY <2>1, <2>3, <2>4 DEF ToBeCleared
<1>24. NoLeftoverContents'
  <2> SUFFICES ASSUME NEW m \in contents', "Display" \notin interfaceState'[m], ~ToBeCleared(m)'
               PROVE  Leaving(m)'
    BY LeftoverForm
  <2>1. Leaving(m)
    BY <1>1, <1>22, LeftoverForm DEF TellInv
  <2>2. PICK i \in DOMAIN stack : stack[i].node = m /\ "Display" \in Range(stack[i].todo)
    BY <2>1 DEF Leaving
  <2>3. CASE i # 1
    <3>1. stack'[i] = stack[i] /\ i \in DOMAIN stack'
      BY <1>11, <2>3
    <3> QED
      BY <2>2, <3>1 DEF Leaving
  <2>4. CASE i = 1
    <3>1. m = f.node /\ "Display" \in changed
      BY <1>2, <1>6, <2>2, <2>4
    <3>2. r # "Display"
      BY <1>1, <1>3, <1>23, <3>1
    <3>3. r # "changed" /\ "Display" \in Range(rest)
      BY <1>6, <1>7, <3>1, <3>2
    <3> QED
      BY <1>2, <1>9, <1>11, <3>1, <3>3 DEF Leaving
  <2> QED
    BY <2>3, <2>4
<1> QED
  BY <1>17, <1>19, <1>20, <1>21, <1>24 DEF TellInv

LEMMA NextTells == ASSUME ~Reenters PROVE IInv /\ TellInv /\ [Next]_vars => TellInv'
<1> SUFFICES ASSUME IInv, TellInv, [Next]_vars PROVE TellInv'
  OBVIOUS
<1>1. CASE UNCHANGED vars
  BY <1>1, TellFrame, SameQueueTells DEF vars, stateVars, callbackVars
<1>2. CASE runLoop \/ otherWakeUp
  BY <1>2, TellFrame, SameQueueTells DEF runLoop, otherWakeUp, stateVars, callbackVars
<1>3. CASE MainThread \/ otherWakeUp
  BY <1>2, <1>3, PrepareTells, NotifyTells, ReturnTells, RunBlockTells DEF MainThread
<1>4. ASSUME NEW n \in Node, Program(n) PROVE TellInv'
  BY <1>4, ChangeTells, ExitHierarchyTells, DisplayTells DEF Program
<1> QED
  BY <1>1, <1>3, <1>4 DEF Next

LEMMA TellInvariance == ASSUME ~Reenters PROVE Spec => []TellInv
<1>1. Init => TellInv
  BY InitTells
<1>2. IInv /\ TellInv /\ [Next]_vars => TellInv'
  BY NextTells
<1> QED
  BY Invariance, <1>1, <1>2, PTL DEF Spec

(* A node is told to enter what it was not told to be in and to leave what  *)
(* it was, and interfaceStateDidChange starts from where the last one       *)
(* ended.                                                                   *)
THEOREM CallbacksAlternateAlways == ASSUME ~Reenters PROVE Spec => []CallbacksAlternate
<1>1. IInv /\ TellInv => CallbacksAlternate
  <2> SUFFICES ASSUME IInv, TellInv, NEW i \in DOMAIN stack, stack[i].todo # <<>>
               PROVE  LET f == stack[i]
                      IN  IF Head(f.todo) = "changed" THEN reported[f.node] = f.from
                          ELSE IF Head(f.todo) = "Preload" /\ f.node \notin Managed THEN TRUE
                          ELSE (Head(f.todo) \in told[f.node]) = (Head(f.todo) \notin f.to)
    BY DEF CallbacksAlternate
  <2>1. PICK f : f = stack[i]
    OBVIOUS
  <2>2. FrameOK(f)
    BY <2>1 DEF TellInv, CallsAreRight
  <2>3. PICK changed \in SUBSET Ranges : f.todo = NoticesOf(changed) /\ Owes(f.node, changed, f.from)
    BY <2>1, <2>2 DEF FrameOK
  <2>4. Head(f.todo) # "changed" => Head(f.todo) \in changed /\ Head(f.todo) \in Ranges
    BY <2>3, NoticesOfFacts
  <2>5. f.to = interfaceState[f.node]
    BY <2>2 DEF FrameOK
  <2> QED
    BY <2>1, <2>3, <2>4, <2>5 DEF Owes
<1> QED
  BY Invariance, TellInvariance, <1>1, PTL

(* Between two changes, what a node was told last is what is applied.       *)
THEOREM LastWordStands == ASSUME ~Reenters PROVE Spec => []LastWordIsTrue
<1>1. IInv /\ TellInv => LastWordIsTrue
  <2> SUFFICES ASSUME IInv, TellInv, NEW n \in Node, ~Applying(n)
               PROVE  /\ reported[n] = interfaceState[n]
                      /\ told[n] \ {"Preload"} = interfaceState[n] \ {"Preload"}
                      /\ n \in Managed => told[n] = interfaceState[n]
                      /\ n \in displaySuspended => "Display" \notin interfaceState[n]
    BY DEF LastWordIsTrue
  <2>1. Owes(n, {}, interfaceState[n])
    BY DEF TellInv, OthersAreSettled
  <2>2. told[n] \in SUBSET Ranges /\ interfaceState[n] \in SUBSET Ranges
    BY DEF IInv, StateInv, StateTypes, RestInv
  <2>3. \A r \in Ranges : r # "Preload" \/ n \in Managed => (r \in told[n] <=> r \in interfaceState[n])
    BY <2>1 DEF Owes
  <2>4. told[n] \ {"Preload"} = interfaceState[n] \ {"Preload"}
    BY <2>2, <2>3
  <2>5. n \in Managed => told[n] = interfaceState[n]
    BY <2>2, <2>3
  <2> QED
    BY <2>1, <2>4, <2>5 DEF Owes
<1> QED
  BY Invariance, TellInvariance, <1>1, PTL

(* Contents of a node that is out of the display range are about to be      *)
(* cleared.                                                                 *)
THEOREM NothingIsLeftOver == ASSUME ~Reenters PROVE Spec => []NoLeftoverContents
<1>1. TellInv => NoLeftoverContents
  BY DEF TellInv
<1> QED
  BY TellInvariance, <1>1, PTL

-----------------------------------------------------------------------------
(* Nodes that leave and come back                                           *)

(* A managed node that has just left visible has kept what makes it visible *)
(* when it is back: with coalescing the state that it was leaving, else the *)
(* state itself.                                                            *)
KeepsVisible ==
  \A n \in leftVisible :
    /\ n \notin isInHierarchy
    /\ n \in Managed => "Visible" \in IF enabled THEN preExitingInterfaceState[n] ELSE pendingInterfaceState[n]

(* What a state that is set does to the node and to the others.             *)
LEMMA SetStateFacts ==
  ASSUME IInv, NEW n \in Node, NEW new, NEW kept, NEW onMain, setInterfaceState(n, new, kept, onMain)
  PROVE  /\ pendingInterfaceState'[n] = new
         /\ enabled => preExitingInterfaceState'[n] = kept
         /\ \A m \in Node \ {n} : /\ pendingInterfaceState'[m] = pendingInterfaceState[m]
                                  /\ preExitingInterfaceState'[m] = preExitingInterfaceState[m]
         /\ enabled' = enabled
<1>1. pendingInterfaceState' = [pendingInterfaceState EXCEPT ![n] = new] /\ setPreExiting(n, new, kept)
  BY DEF setInterfaceState
<1>2. enabled' = enabled
  BY DEF setInterfaceState, enqueue, queueVars
<1> QED
  BY <1>1, <1>2 DEF setPreExiting, IInv, StateInv, StateTypes

LEMMA ExitVisibleFacts ==
  ASSUME IInv, NEW n \in Node, NEW b, exitVisibleInterfaceState(n, b)
  PROVE  /\ enabled => preExitingInterfaceState'[n] = pendingInterfaceState[n]
         /\ b => pendingInterfaceState'[n] = pendingInterfaceState[n]
         /\ \A m \in Node \ {n} : /\ pendingInterfaceState'[m] = pendingInterfaceState[m]
                                  /\ preExitingInterfaceState'[m] = preExitingInterfaceState[m]
         /\ enabled' = enabled
<1>1. CASE ~b /\ setInterfaceState(n, pendingInterfaceState[n] \ {"Visible"}, pendingInterfaceState[n], TRUE)
  BY <1>1, SetStateFacts
<1>2. CASE /\ preExitingInterfaceState' = [preExitingInterfaceState EXCEPT ![n] = pendingInterfaceState[n]]
           /\ UNCHANGED <<queueVars, pendingInterfaceState>>
  BY <1>2 DEF IInv, StateInv, StateTypes, queueVars
<1> QED
  BY <1>1, <1>2 DEF exitVisibleInterfaceState

(* The node that a step is about, and what it leaves of the others.         *)
OthersKeep(n) ==
  /\ \A m \in Node \ {n} : /\ pendingInterfaceState'[m] = pendingInterfaceState[m]
                           /\ preExitingInterfaceState'[m] = preExitingInterfaceState[m]
  /\ enabled' = enabled
  /\ leftVisible' \subseteq leftVisible \cup {n}
  /\ isInHierarchy' \subseteq isInHierarchy \cup {n}

Silent ==
  \A n \in isInHierarchy' :
    \/ n \in leftVisible \ isInHierarchy
    \/ n \in isInHierarchy /\ "Visible" \in pendingInterfaceState[n] /\ changes' = changes
    => "Visible" \in pendingInterfaceState'[n]

LeftInv == leftVisible \subseteq Node /\ KeepsVisible

LEMMA OthersKeepFacts ==
  ASSUME IInv, LeftInv, NEW n \in Node, OthersKeep(n)
  PROVE  /\ leftVisible' \subseteq Node
         /\ \A m \in leftVisible' \ {n} :
              /\ m \notin isInHierarchy'
              /\ m \in Managed =>
                   "Visible" \in IF enabled' THEN preExitingInterfaceState'[m] ELSE pendingInterfaceState'[m]
         /\ \A m \in isInHierarchy' \ {n} :
              \/ m \in leftVisible \ isInHierarchy
              \/ m \in isInHierarchy /\ "Visible" \in pendingInterfaceState[m] /\ changes' = changes
              => "Visible" \in pendingInterfaceState'[m]
BY DEF OthersKeep, LeftInv, KeepsVisible, IInv, RestInv

(* Steps that change the state of no node that has left.                    *)
LEMMA LeftFrame ==
  ASSUME LeftInv, leftVisible' \subseteq leftVisible, isInHierarchy' = isInHierarchy, enabled' = enabled,
         pendingInterfaceState' = pendingInterfaceState,
         \A n \in leftVisible' : preExitingInterfaceState'[n] = preExitingInterfaceState[n]
  PROVE  LeftInv' /\ Silent
BY DEF LeftInv, KeepsVisible, Silent

LEMMA RangeControllerLeft ==
  ASSUME IInv, LeftInv, NEW n \in Node,
         \/ \E s \in States : recursivelySetInterfaceState(n, s)
         \/ exitInterfaceState(n, "Visible") \/ exitInterfaceState(n, "Display")
  PROVE  LeftInv' /\ Silent
<1>1. /\ leftVisible' = leftVisible \ {n} /\ isInHierarchy' = isInHierarchy /\ changes' = changes + 1
      /\ \E new : setInterfaceState(n, new, preExitingInterfaceState[n], TRUE)
  BY DEF recursivelySetInterfaceState, exitInterfaceState, MayChange
<1>2. OthersKeep(n)
  BY <1>1, SetStateFacts DEF OthersKeep
<1>3. LeftInv'
  BY <1>1, <1>2, OthersKeepFacts DEF LeftInv, KeepsVisible
<1>4. changes' # changes
  BY <1>1 DEF IInv, RestInv
<1>5. Silent
  BY <1>1, <1>2, <1>4, OthersKeepFacts DEF Silent
<1> QED
  BY <1>3, <1>5

(* Without coalescing the applied state is what was asked for. *)
LEMMA EnterInterfaceStateLeft ==
  ASSUME IInv, LeftInv, NEW n \in Node, NEW s \in States, enterInterfaceState(n, s)
  PROVE  LeftInv' /\ Silent
<1>1. /\ leftVisible' = leftVisible /\ isInHierarchy' = isInHierarchy /\ changes' = changes + 1
      /\ \E onMain \in BOOLEAN :
           setInterfaceState(n, interfaceState[n] \cup s, preExitingInterfaceState[n], onMain)
  BY DEF enterInterfaceState, MayChange
<1>2. /\ OthersKeep(n) /\ pendingInterfaceState'[n] = interfaceState[n] \cup s
      /\ enabled => preExitingInterfaceState'[n] = preExitingInterfaceState[n]
  BY <1>1, SetStateFacts DEF OthersKeep
<1>3. ~enabled => pendingInterfaceState[n] = interfaceState[n]
  BY DEF IInv, StateInv, NoLostChange
<1>4. KeepsVisible'
  <2> SUFFICES ASSUME NEW m \in leftVisible'
               PROVE  /\ m \notin isInHierarchy'
                      /\ m \in Managed =>
                           "Visible" \in IF enabled' THEN preExitingInterfaceState'[m]
                                         ELSE pendingInterfaceState'[m]
    BY DEF KeepsVisible
  <2>1. CASE m = n
    BY <1>1, <1>2, <1>3, <2>1 DEF LeftInv, KeepsVisible, OthersKeep
  <2>2. CASE m # n
    BY <1>2, <2>2, OthersKeepFacts
  <2> QED
    BY <2>1, <2>2
<1>5. changes' # changes
  BY <1>1 DEF IInv, RestInv
<1>6. Silent
  BY <1>1, <1>2, <1>5, OthersKeepFacts DEF Silent
<1> QED
  BY <1>1, <1>4, <1>6 DEF LeftInv

LEMMA EnterHierarchyLeft ==
  ASSUME IInv, LeftInv, NEW n \in Node, enterHierarchy(n)
  PROVE  LeftInv' /\ Silent
<1>1. /\ leftVisible' = leftVisible \ {n} /\ isInHierarchy' = isInHierarchy \cup {n} /\ n \notin isInHierarchy
      /\ willEnterHierarchy(n)
  BY DEF enterHierarchy
<1>2. CASE setInterfaceState(n, InHierarchy, preExitingInterfaceState[n], TRUE)
  <2>1. OthersKeep(n) /\ pendingInterfaceState'[n] = InHierarchy
    BY <1>1, <1>2, SetStateFacts DEF OthersKeep
  <2>2. "Visible" \in pendingInterfaceState'[n]
    BY <2>1 DEF InHierarchy, Ranges
  <2> QED
    BY <1>1, <2>1, <2>2, OthersKeepFacts DEF LeftInv, KeepsVisible, Silent
<1>3. CASE n \in Managed /\ enabled /\ setInterfaceState(n, preExitingInterfaceState[n], {}, TRUE)
  <2>1. OthersKeep(n) /\ pendingInterfaceState'[n] = preExitingInterfaceState[n]
    BY <1>1, <1>3, SetStateFacts DEF OthersKeep
  <2>2. n \in leftVisible => "Visible" \in pendingInterfaceState'[n]
    BY <1>3, <2>1 DEF LeftInv, KeepsVisible
  <2> QED
    BY <1>1, <2>1, <2>2, OthersKeepFacts DEF LeftInv, KeepsVisible, Silent
<1>4. CASE /\ n \in Managed /\ ~(enabled /\ preExitingInterfaceState[n] # {})
           /\ UNCHANGED <<queueVars, stateVars>>
  <2>1. OthersKeep(n) /\ pendingInterfaceState' = pendingInterfaceState
    BY <1>1, <1>4 DEF OthersKeep, queueVars, stateVars
  <2>2. n \in leftVisible => "Visible" \in pendingInterfaceState'[n]
    BY <1>4, <2>1 DEF LeftInv, KeepsVisible
  <2> QED
    BY <1>1, <2>1, <2>2, OthersKeepFacts DEF LeftInv, KeepsVisible, Silent
<1> QED
  BY <1>1, <1>2, <1>3, <1>4 DEF willEnterHierarchy

LEMMA ExitHierarchyLeft ==
  ASSUME IInv, LeftInv, NEW n \in Node, exitHierarchy(n)
  PROVE  LeftInv' /\ Silent
<1>1. /\ isInHierarchy' = isInHierarchy \ {n} /\ n \in isInHierarchy /\ didExit(n)
      /\ leftVisible' = IF "Visible" \in pendingInterfaceState[n] THEN leftVisible \cup {n} ELSE leftVisible
  BY DEF exitHierarchy
<1>2. n \notin leftVisible
  BY <1>1 DEF LeftInv, KeepsVisible
<1>3. ASSUME OthersKeep(n),
             n \in Managed /\ "Visible" \in pendingInterfaceState[n] =>
               "Visible" \in IF enabled' THEN preExitingInterfaceState'[n] ELSE pendingInterfaceState'[n]
      PROVE  LeftInv' /\ Silent
  BY <1>1, <1>2, <1>3, OthersKeepFacts DEF LeftInv, KeepsVisible, Silent
<1>4. CASE n \notin Managed /\ setInterfaceState(n, {}, preExitingInterfaceState[n], TRUE)
  <2>1. OthersKeep(n)
    BY <1>1, <1>4, SetStateFacts DEF OthersKeep
  <2> QED
    BY <1>3, <1>4, <2>1
<1>5. CASE "Visible" \notin pendingInterfaceState[n] /\ UNCHANGED <<queueVars, stateVars>>
  <2>1. OthersKeep(n)
    BY <1>1, <1>5 DEF OthersKeep, queueVars, stateVars
  <2> QED
    BY <1>3, <1>5, <2>1
<1>6. CASE enabled /\ exitVisibleInterfaceState(n, FALSE)
  <2>1. OthersKeep(n) /\ preExitingInterfaceState'[n] = pendingInterfaceState[n]
    BY <1>1, <1>6, ExitVisibleFacts DEF OthersKeep
  <2> QED
    BY <1>3, <1>6, <2>1 DEF OthersKeep
<1>7. CASE ~enabled /\ UNCHANGED <<queueVars, stateVars>>
  <2>1. OthersKeep(n) /\ ~enabled' /\ pendingInterfaceState' = pendingInterfaceState
    BY <1>1, <1>7 DEF OthersKeep, queueVars, stateVars
  <2> QED
    BY <1>3, <1>7, <2>1
<1> QED
  BY <1>1, <1>4, <1>5, <1>6, <1>7 DEF didExit

LEMMA PrepareLeft ==
  ASSUME IInv, LeftInv, prepareForCATransactionCommit
  PROVE  LeftInv' /\ Silent
<1> DEFINE n == Head(batchBuffer)
<1>1. /\ pendingInterfaceState' = pendingInterfaceState /\ enabled' = enabled
      /\ isInHierarchy' = isInHierarchy /\ leftVisible' = leftVisible \ {n}
      /\ preExitingInterfaceState' =
           [preExitingInterfaceState EXCEPT ![n] = IF pendingInterfaceState[n] # interfaceState[n] THEN {} ELSE @]
  BY DEF prepareForCATransactionCommit, callNext
<1>2. preExitingInterfaceState \in [Node -> SUBSET Ranges] /\ leftVisible \subseteq Node
  BY DEF IInv, StateInv, StateTypes, LeftInv
<1> HIDE DEF n
<1> QED
  BY <1>1, <1>2, LeftFrame

LEMMA RunBlockLeft ==
  ASSUME IInv, LeftInv, runBlock
  PROVE  LeftInv' /\ Silent
<1>1. leftVisible' = {} /\ isInHierarchy' = isInHierarchy
  BY DEF runBlock
<1>2. LeftInv'
  BY <1>1 DEF LeftInv, KeepsVisible
<1>3. PICK b \in Block : b = Head(mainQueue)
  BY HeadTailFacts DEF runBlock, IInv, RestInv
<1>4. CASE exitVisibleInterfaceState(b.node, b.node \in isInHierarchy)
  <2>1. b.node \in Node
    BY DEF Block
  <2>2. /\ b.node \in isInHierarchy => pendingInterfaceState'[b.node] = pendingInterfaceState[b.node]
        /\ \A m \in Node \ {b.node} : pendingInterfaceState'[m] = pendingInterfaceState[m]
    BY <1>4, <2>1, ExitVisibleFacts
  <2>3. isInHierarchy \subseteq Node
    BY DEF IInv, RestInv
  <2> QED
    BY <1>1, <1>2, <2>2, <2>3 DEF Silent
<1>5. CASE pendingInterfaceState' = pendingInterfaceState
  BY <1>1, <1>2, <1>5 DEF Silent
<1> QED
  BY <1>3, <1>4, <1>5 DEF runBlock, stateVars

LEMMA NextLeft == IInv /\ LeftInv /\ [Next]_vars => LeftInv' /\ Silent
<1> SUFFICES ASSUME IInv, LeftInv, [Next]_vars PROVE LeftInv' /\ Silent
  OBVIOUS
<1>1. CASE UNCHANGED vars
  BY <1>1, LeftFrame DEF vars, stateVars, queueVars
<1>2. CASE notify \/ return \/ (\E n \in Node : display(n))
  <2>1. UNCHANGED <<queueVars, stateVars, isInHierarchy, leftVisible>> \/
        UNCHANGED <<queueVars, pendingInterfaceState, preExitingInterfaceState, isInHierarchy, leftVisible>>
    BY <1>2 DEF notify, return, display
  <2> QED
    BY <2>1, LeftFrame DEF stateVars, queueVars
<1>3. CASE runLoop \/ otherWakeUp
  <2>1. /\ UNCHANGED <<stateVars, isInHierarchy, enabled>>
        /\ leftVisible' \subseteq leftVisible
    BY <1>3 DEF runLoop, otherWakeUp, beforeWaiting, swapBuffers, finishCommitting, wakeUp, otherEvent
  <2> QED
    BY <2>1, LeftFrame DEF stateVars
<1>4. CASE MainThread \/ otherWakeUp
  BY <1>2, <1>3, <1>4, PrepareLeft, RunBlockLeft DEF MainThread
<1>5. ASSUME NEW n \in Node, Program(n) PROVE LeftInv' /\ Silent
  BY <1>2, <1>5, RangeControllerLeft, EnterInterfaceStateLeft, EnterHierarchyLeft, ExitHierarchyLeft DEF Program
<1> QED
  BY <1>1, <1>4, <1>5 DEF Next

(* A visible node that leaves its hierarchy and is back in the same turn is *)
(* visible still, and while it is in a hierarchy nobody but the range       *)
(* controller makes it invisible.                                           *)
THEOREM ReturnIsSilent == Spec => ThrashIsSilent
<1>1. Init => LeftInv
  BY DEF Init, LeftInv, KeepsVisible
<1>2. IInv /\ LeftInv /\ [Next]_vars => LeftInv'
  BY NextLeft
<1>3. IInv /\ LeftInv /\ [Next]_vars =>
        [\A n \in isInHierarchy' :
           \/ n \in leftVisible \ isInHierarchy
           \/ n \in isInHierarchy /\ "Visible" \in pendingInterfaceState[n] /\ changes' = changes
           => "Visible" \in pendingInterfaceState'[n]]_vars
  BY NextLeft DEF Silent
<1> QED
  BY Invariance, <1>1, <1>2, <1>3, PTL DEF Spec, ThrashIsSilent
=============================================================================
