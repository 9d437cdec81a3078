-------------------------- MODULE ASInterfaceState --------------------------
(***************************************************************************)
(* The interface state of nodes (ASDisplayNode.mm): what the range          *)
(* controller and the view hierarchy ask for, what is applied, and the      *)
(* callbacks that tell subclasses and delegates.  With                      *)
(* ASExperimentalInterfaceStateCoalescing (enabled) a change is applied     *)
(* when ASCATransactionQueue calls the node before the commit, else at      *)
(* once, on the main thread, from wherever it is asked for: also from a     *)
(* callback.                                                                *)
(***************************************************************************)
EXTENDS ASCATransactionQueue

CONSTANTS
  Managed,     \* range managed nodes; the others follow the view hierarchy
  States,      \* interface states the range controller asks for
  Reenters,    \* whether a callback changes the state of the node it is about
  MaxDepth,    \* bound on nested applications of a state
  MaxChanges   \* bound on what the rest of the program asks for

Ranges == {"Preload", "Display", "Visible"}
InHierarchy == Ranges

ASSUME ManagedAssumption == Managed \subseteq Node
ASSUME StatesAssumption ==
  \A s \in States : s \subseteq Ranges /\ ("Visible" \in s => "Display" \in s)
ASSUME ModeAssumption == Reenters \in BOOLEAN
ASSUME BoundAssumption == {MaxDepth, MaxChanges} \subseteq Nat

VARIABLES
  interfaceState,           \* _interfaceState
  pendingInterfaceState,    \* _pendingInterfaceState
  preExitingInterfaceState, \* _preExitingInterfaceState
  isInHierarchy,            \* _flags.isInHierarchy
  displaySuspended,         \* _flags.displaySuspended
  contents,                 \* nodes whose layer has contents
  mainQueue,                \* blocks dispatched to the main queue
  stack,                    \* states that are being applied, innermost first
  told,                     \* ranges each node was told to have entered and not to have left
  reported,                 \* state last given to interfaceStateDidChange
  leftVisible,              \* nodes that left their hierarchy visible in this turn and were not called since
  changes                   \* how often the program asked for something

stateVars == <<interfaceState, pendingInterfaceState, preExitingInterfaceState>>
callbackVars == <<displaySuspended, contents, told, reported>>
vars == <<queueVars, stateVars, isInHierarchy, callbackVars, mainQueue, stack, leftVisible, changes>>

Init ==
  /\ QueueInit
  /\ interfaceState = [n \in Node |-> {}]
  /\ pendingInterfaceState = [n \in Node |-> {}]
  /\ preExitingInterfaceState = [n \in Node |-> {}]
  /\ isInHierarchy = {} /\ displaySuspended = {} /\ contents = {}
  /\ mainQueue = <<>> /\ stack = <<>>
  /\ told = [n \in Node |-> {}]
  /\ reported = [n \in Node |-> {}]
  /\ leftVisible = {} /\ changes = 0

-----------------------------------------------------------------------------
(* Applying a state: the part under the lock, which also notes what is to   *)
(* be told.                                                                 *)
NoticesOf(set) ==
  LET noticeOf(r) == IF r \in set THEN <<r>> ELSE <<>>
  IN  noticeOf("Preload") \o noticeOf("Display") \o noticeOf("Visible") \o <<"changed">>

(* Mutated: all that the node is in now is told, not what has changed. *)
NoticesOfAll(old, new) == NoticesOf(old \cup new)

Notices(old, new) == NoticesOf((old \cup new) \ (old \cap new))

applyPendingInterfaceState(n, new) ==
  LET old == interfaceState[n]
  IN  IF new = old
      THEN UNCHANGED <<interfaceState, stack>>
      ELSE /\ interfaceState' = [interfaceState EXCEPT ![n] = new]
           /\ stack' = <<[node |-> n, from |-> old, to |-> new, todo |-> Notices(old, new)]>> \o stack

(* The rest of preExitingInterfaceState: kept is what it becomes if the     *)
(* state is not applied.                                                    *)
setPreExiting(n, new, kept) ==
  preExitingInterfaceState' =
    [preExitingInterfaceState EXCEPT ![n] = IF ~enabled /\ new # interfaceState[n] THEN {} ELSE kept]

Applying(n) == \E i \in DOMAIN stack : stack[i].node = n

(* Mutated: a node that is being called is not enqueued. *)
setUnlessApplying(n, new, kept, onMain) ==
  /\ pendingInterfaceState' = [pendingInterfaceState EXCEPT ![n] = new]
  /\ setPreExiting(n, new, kept)
  /\ IF enabled
     THEN /\ IF pendingInterfaceState[n] # new /\ ~Applying(n) THEN enqueue(n, onMain) ELSE UNCHANGED queueVars
          /\ UNCHANGED <<interfaceState, stack>>
     ELSE onMain /\ applyPendingInterfaceState(n, new) /\ UNCHANGED queueVars

setInterfaceState(n, new, kept, onMain) ==
  /\ pendingInterfaceState' = [pendingInterfaceState EXCEPT ![n] = new]
  /\ setPreExiting(n, new, kept)
  /\ IF enabled
     THEN /\ IF pendingInterfaceState[n] # new THEN enqueue(n, onMain) ELSE UNCHANGED queueVars
          /\ UNCHANGED <<interfaceState, stack>>
     ELSE onMain /\ applyPendingInterfaceState(n, new) /\ UNCHANGED queueVars

prepareForCATransactionCommit ==
  /\ stack = <<>> /\ callNext
  /\ LET n == Head(batchBuffer)
         new == pendingInterfaceState[n]
     IN  /\ applyPendingInterfaceState(n, new)
         /\ preExitingInterfaceState' =
              [preExitingInterfaceState EXCEPT ![n] = IF new # interfaceState[n] THEN {} ELSE @]
  /\ leftVisible' = leftVisible \ {Head(batchBuffer)}
  /\ UNCHANGED <<pendingInterfaceState, isInHierarchy, callbackVars, mainQueue, changes>>

-----------------------------------------------------------------------------
(* Applying a state: the callbacks, without the lock, one after the other.  *)
Top == Head(stack)

(* Mutated: the contents are forgotten. *)
displaySuspending(n, enters) ==
  /\ displaySuspended' = IF n \notin Managed THEN displaySuspended
                         ELSE IF enters THEN displaySuspended \ {n} ELSE displaySuspended \cup {n}
  /\ UNCHANGED mainQueue

(* Mutated: nodes are resumed by nobody. *)
displayClearing(n, enters) ==
  /\ displaySuspended' = IF n \in Managed /\ ~enters THEN displaySuspended \cup {n} ELSE displaySuspended
  /\ mainQueue' = IF enters THEN mainQueue ELSE Append(mainQueue, [kind |-> "clear", node |-> n])

displayChange(n, enters) ==
  /\ displaySuspended' = IF n \notin Managed THEN displaySuspended
                         ELSE IF enters THEN displaySuspended \ {n} ELSE displaySuspended \cup {n}
  /\ mainQueue' = IF enters THEN mainQueue ELSE Append(mainQueue, [kind |-> "clear", node |-> n])

notify ==
  /\ stack # <<>> /\ Top.todo # <<>>
  /\ LET n == Top.node
         r == Head(Top.todo)
         enters == r \in Top.to
     IN  /\ told' = CASE r = "changed" -> told
                      [] r # "changed" /\ enters -> [told EXCEPT ![n] = @ \cup {r}]
                      [] r # "changed" /\ ~enters /\ (r # "Preload" \/ n \in Managed)
                           -> [told EXCEPT ![n] = @ \ {r}]
                      [] OTHER -> told
         /\ reported' = IF r = "changed" THEN [reported EXCEPT ![n] = Top.to] ELSE reported
         /\ IF r = "Display" THEN displayChange(n, enters) ELSE UNCHANGED <<displaySuspended, mainQueue>>
  /\ stack' = <<[Top EXCEPT !.todo = Tail(@)]>> \o Tail(stack)
  /\ UNCHANGED <<queueVars, stateVars, isInHierarchy, contents, leftVisible, changes>>

return ==
  /\ stack # <<>> /\ Top.todo = <<>>
  /\ stack' = Tail(stack)
  /\ UNCHANGED <<queueVars, stateVars, isInHierarchy, callbackVars, mainQueue, leftVisible, changes>>

-----------------------------------------------------------------------------
(* What the rest of the program asks for, from the run loop or a callback.  *)
OnMain ==
  /\ loop = "events" \/ stack # <<>>
  /\ stack # <<>> => Len(Top.todo) < Len(Notices(Top.from, Top.to)) /\ Len(stack) < MaxDepth
MayChange(n) ==
  /\ Reenters \/ enabled \/ ~Applying(n)
  /\ changes < MaxChanges /\ changes' = changes + 1

(* recursivelySetInterfaceState of the range controller. *)
recursivelySetInterfaceState(n, s) ==
  /\ n \in Managed /\ OnMain /\ MayChange(n)
  /\ setInterfaceState(n, s, preExitingInterfaceState[n], TRUE)
  /\ leftVisible' = leftVisible \ {n}
  /\ UNCHANGED <<isInHierarchy, callbackVars, mainQueue>>

(* A node that becomes part of a managed tree gets the state of its         *)
(* supernode on top of what is applied of its own; with coalescing on any   *)
(* thread.                                                                  *)
enterInterfaceState(n, s) ==
  /\ n \in Managed /\ MayChange(n) /\ s # {}
  /\ \E onMain \in BOOLEAN :
       /\ onMain => OnMain
       /\ setInterfaceState(n, interfaceState[n] \cup s, preExitingInterfaceState[n], onMain)
  /\ UNCHANGED <<isInHierarchy, leftVisible, callbackVars, mainQueue>>

(* The range controller takes one range back, from what is applied.         *)
exitInterfaceState(n, r) ==
  /\ n \in Managed /\ OnMain /\ MayChange(n) /\ r \in interfaceState[n]
  /\ setInterfaceState(n, interfaceState[n] \ {r}, preExitingInterfaceState[n], TRUE)
  /\ leftVisible' = leftVisible \ {n}
  /\ UNCHANGED <<isInHierarchy, callbackVars, mainQueue>>

(* Mutated: a node that is back waits for the range controller. *)
willEnterUnmanaged(n) ==
  IF n \notin Managed THEN setInterfaceState(n, InHierarchy, preExitingInterfaceState[n], TRUE)
  ELSE UNCHANGED <<queueVars, stateVars, stack>>

(* A layer that leaves its hierarchy and is back before the commit is to    *)
(* find things as they were.                                                *)
willEnterHierarchy(n) ==
  IF n \notin Managed THEN setInterfaceState(n, InHierarchy, preExitingInterfaceState[n], TRUE)
  ELSE IF enabled /\ preExitingInterfaceState[n] # {}
  THEN setInterfaceState(n, preExitingInterfaceState[n], {}, TRUE)
  ELSE UNCHANGED <<queueVars, stateVars, stack>>

enterHierarchy(n) ==
  /\ n \notin isInHierarchy /\ OnMain /\ MayChange(n) /\ ~Applying(n)
  /\ isInHierarchy' = isInHierarchy \cup {n}
  /\ willEnterHierarchy(n)
  /\ leftVisible' = leftVisible \ {n}
  /\ UNCHANGED <<callbackVars, mainQueue>>

exitVisibleInterfaceState(n, isStillInHierarchy) ==
  LET pending == pendingInterfaceState[n]
  IN  IF ~isStillInHierarchy /\ "Visible" \in pending
      THEN setInterfaceState(n, pending \ {"Visible"}, pending, TRUE)
      ELSE /\ preExitingInterfaceState' = [preExitingInterfaceState EXCEPT ![n] = pending]
           /\ UNCHANGED <<queueVars, interfaceState, pendingInterfaceState, stack>>

didExit(n) ==
  IF n \notin Managed
  THEN setInterfaceState(n, {}, preExitingInterfaceState[n], TRUE) /\ UNCHANGED mainQueue
  ELSE IF "Visible" \notin pendingInterfaceState[n] THEN UNCHANGED <<queueVars, stateVars, stack, mainQueue>>
  ELSE IF enabled THEN exitVisibleInterfaceState(n, FALSE) /\ UNCHANGED mainQueue
  ELSE /\ mainQueue' = Append(mainQueue, [kind |-> "exit", node |-> n])
       /\ UNCHANGED <<queueVars, stateVars, stack>>

exitHierarchy(n) ==
  /\ n \in isInHierarchy /\ OnMain /\ MayChange(n) /\ ~Applying(n)
  /\ isInHierarchy' = isInHierarchy \ {n}
  /\ didExit(n)
  /\ leftVisible' = IF "Visible" \in pendingInterfaceState[n] THEN leftVisible \cup {n} ELSE leftVisible
  /\ UNCHANGED callbackVars

-----------------------------------------------------------------------------
(* The main queue and the screen.                                           *)

clearContents(n) == contents' = IF "Display" \in interfaceState[n] THEN contents ELSE contents \ {n}

runBlock ==
  /\ loop = "events" /\ stack = <<>> /\ mainQueue # <<>>
  /\ mainQueue' = Tail(mainQueue)
  /\ LET n == Head(mainQueue).node
     IN  IF Head(mainQueue).kind = "exit"
         THEN exitVisibleInterfaceState(n, n \in isInHierarchy) /\ UNCHANGED contents
         ELSE clearContents(n) /\ UNCHANGED <<queueVars, stateVars, stack>>
  /\ leftVisible' = {}
  /\ UNCHANGED <<isInHierarchy, displaySuspended, told, reported, changes>>

(* The layer of a node that is displayed gets contents.                     *)
display(n) ==
  /\ loop = "events" /\ stack = <<>>
  /\ "Display" \in interfaceState[n] /\ n \notin displaySuspended \cup contents
  /\ contents' = contents \cup {n}
  /\ UNCHANGED <<queueVars, stateVars, isInHierarchy, displaySuspended, told, reported, mainQueue,
                 stack, leftVisible, changes>>

runLoop ==
  /\ stack = <<>>
  /\ beforeWaiting \/ swapBuffers \/ finishCommitting \/ wakeUp
  /\ leftVisible' = IF loop' = "waiting" THEN {} ELSE leftVisible
  /\ UNCHANGED <<stateVars, isInHierarchy, callbackVars, mainQueue, stack, changes>>

(* The main queue wakes the run loop up too. *)
otherWakeUp ==
  /\ otherEvent
  /\ UNCHANGED <<stateVars, isInHierarchy, callbackVars, mainQueue, stack, leftVisible, changes>>

Program(n) ==
  \/ \E s \in States : recursivelySetInterfaceState(n, s) \/ enterInterfaceState(n, s)
  \/ exitInterfaceState(n, "Visible") \/ exitInterfaceState(n, "Display")
  \/ enterHierarchy(n) \/ exitHierarchy(n) \/ display(n)
MainThread == prepareForCATransactionCommit \/ notify \/ return \/ runBlock \/ runLoop

Next == MainThread \/ otherWakeUp \/ \E n \in Node : Program(n)

Spec == Init /\ [][Next]_vars

(* The main thread keeps running, and serves its queue time and again.      *)
FairSpec == /\ Spec /\ WF_vars(MainThread)
            /\ WF_vars(otherWakeUp /\ mainQueue # <<>>)
            /\ SF_vars(runBlock)

-----------------------------------------------------------------------------
TypeOK ==
  /\ QueueTypeOK
  /\ interfaceState \in [Node -> SUBSET Ranges]
  /\ pendingInterfaceState \in [Node -> SUBSET Ranges]
  /\ preExitingInterfaceState \in [Node -> SUBSET Ranges]
  /\ told \in [Node -> SUBSET Ranges] /\ reported \in [Node -> SUBSET Ranges]
  /\ UNION {isInHierarchy, displaySuspended, contents} \subseteq Node
  /\ changes \in 0..MaxChanges

(* A node whose state is still to be applied is in the queue.               *)
NoLostChange ==
  \A n \in Node :
    pendingInterfaceState[n] # interfaceState[n] =>
      enabled /\ n \in Range(internalQueue) \cup Range(batchBuffer)

(* Nodes are told to enter what they were not told to be in, and to leave   *)
(* what they were: "whenever the node becomes visible", "whenever the node  *)
(* is no longer visible" (ASDisplayNode+InterfaceState.h); and              *)
(* interfaceStateDidChange starts from where the last one ended.            *)
CallbacksAlternate ==
  \A i \in DOMAIN stack :
    LET f == stack[i]
    IN  f.todo # <<>> =>
          IF Head(f.todo) = "changed" THEN reported[f.node] = f.from
          ELSE IF Head(f.todo) = "Preload" /\ f.node \notin Managed THEN TRUE
          ELSE (Head(f.todo) \in told[f.node]) = (Head(f.todo) \notin f.to)

(* Between two changes a node was told just what is applied, and it is      *)
(* suspended only out of the display range.                                 *)
LastWordIsTrue ==
  \A n \in Node : ~Applying(n) =>
    /\ reported[n] = interfaceState[n]
    /\ told[n] \ {"Preload"} = interfaceState[n] \ {"Preload"}
    /\ n \in Managed => told[n] = interfaceState[n]
    /\ n \in displaySuspended => "Display" \notin interfaceState[n]

(* Contents of a node that is not displayed are about to be cleared.        *)
NoLeftoverContents ==
  \A n \in contents :
    \/ "Display" \in interfaceState[n]
    \/ \E i \in DOMAIN mainQueue : mainQueue[i] = [kind |-> "clear", node |-> n]
    \/ \E i \in DOMAIN stack : stack[i].node = n /\ "Display" \in Range(stack[i].todo)

(* "We should not send the call if we will be re-added in the same          *)
(* runloop": a visible node that leaves its hierarchy and is back in the    *)
(* same turn is visible still, and while it is in a hierarchy nobody but    *)
(* the range controller makes it invisible.                                 *)
ThrashIsSilent ==
  [][\A n \in isInHierarchy' :
       \/ n \in leftVisible \ isInHierarchy
       \/ n \in isInHierarchy /\ "Visible" \in pendingInterfaceState[n] /\ changes' = changes
       => "Visible" \in pendingInterfaceState'[n]]_vars

(* What is asked for last is applied.                                       *)
ChangesAreApplied ==
  \A n \in Node : pendingInterfaceState[n] # interfaceState[n] ~> pendingInterfaceState[n] = interfaceState[n]

-----------------------------------------------------------------------------
(* What ASDisplayNode+InterfaceState.h says of didEnterVisibleState:        *)
(* "called whenever the node becomes visible".                              *)
EnterMeansVisible ==
  stack # <<>> /\ Top.todo # <<>> /\ Head(Top.todo) = "Visible" /\ "Visible" \in Top.to
    => "Visible" \in interfaceState[Top.node]
=============================================================================
