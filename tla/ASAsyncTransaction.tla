------------------------- MODULE ASAsyncTransaction -------------------------
(***************************************************************************)
(* Transactions (_ASAsyncTransaction.mm), the layers that contain them      *)
(* (_ASAsyncTransactionContainer.mm) and the main transaction group that    *)
(* commits them when the main run loop is about to sleep                    *)
(* (_ASAsyncTransactionGroup.mm), on top of what OperationGroup says of     *)
(* ASAsyncTransactionQueue.                                                 *)
(*                                                                         *)
(* Everything but the execution of operations happens on the main thread.   *)
(* Completion blocks and the container's hook are callbacks, from which the *)
(* application may call back into the code, so the main thread is a stack   *)
(* of the calls it is in.  The application is assumed not to wait for a     *)
(* transaction from one of that transaction's own completion blocks.        *)
(***************************************************************************)
EXTENDS Sequences, FiniteSets, Integers

CONSTANTS
  Op, Txn, Layer,  \* the operations, transactions and layers there will ever be
  None,            \* no transaction
  MaxDepth,        \* bound on calls of the application nested in callbacks
  HookReenters     \* whether callbacks do what the code has no answer to (see MayUse, MayWait)

ASSUME NoneAssumption == None \notin Txn
ASSUME DepthAssumption == MaxDepth \in Nat
ASSUME HookAssumption == HookReenters \in BOOLEAN

VARIABLES
  owner, phase, held, notified,  \* of OperationGroup, with one group per transaction
  skipped,       \* operations whose block did not run
  state,         \* none, open, committed, canceled, complete
  operations,    \* _operations of each transaction
  layerOf,       \* the layer whose completion block the transaction carries
  current,       \* currentAsyncTransaction of each layer
  transactions,  \* asyncLayerTransactions of each layer
  containers,    \* _containers of the main group
  mainQueue,     \* completeTransaction blocks dispatched to the main queue
  stack,         \* what the main thread is doing, innermost call first
  called,        \* per transaction, the operations whose completion block was called
  completed      \* per transaction, the cancel flags its completion block was called with

groupVars == <<owner, phase, held, notified>>
layerVars == <<current, transactions, containers, layerOf>>
historyVars == <<called, completed>>
vars == <<groupVars, skipped, state, operations, layerVars, mainQueue, stack, historyVars>>

G == INSTANCE OperationGroup WITH Group <- Txn

Init ==
  /\ G!GInit
  /\ skipped = {}
  /\ state = [t \in Txn |-> "none"]
  /\ operations = [t \in Txn |-> <<>>]
  /\ layerOf \in [Txn -> Layer]
  /\ current = [l \in Layer |-> None]
  /\ transactions = [l \in Layer |-> {}]
  /\ containers = {}
  /\ mainQueue = <<>>
  /\ stack = <<>>
  /\ called = [t \in Txn |-> <<>>]
  /\ completed = [t \in Txn |-> <<>>]

-----------------------------------------------------------------------------
Top == Head(stack)
TopIs(kind) == stack # <<>> /\ Top.kind = kind
Completing(t) == [kind |-> "complete", txn |-> t, todo |-> operations[t],
                  isCanceled |-> state[t] = "canceled"]

(* The application runs between two events of the run loop and in callbacks. *)
InApplication ==
  \/ stack = <<>>
  \/ TopIs("hook")
  \/ TopIs("complete") /\ Top.todo # operations[Top.txn]
MayNest == InApplication /\ Len(stack) < MaxDepth
InUse(l) == \E i \in DOMAIN stack :
              \/ stack[i].kind = "cancel" /\ stack[i].layer = l
              \/ stack[i].kind = "waited" /\ layerOf[stack[i].txn] = l

(* A callback uses no layer that is being canceled or waited for, and waits *)
(* for no open transaction while others are being committed or canceled.    *)
MayUse(l) == HookReenters \/ ~InUse(l)
MayWait(t) ==
  HookReenters \/ ~(state[t] = "open" /\ \E i \in DOMAIN stack : stack[i].kind \in {"cancel", "commit"})

(* The block that asyncTransaction gave the transaction, then its hook. *)
completionBlock(t, canceled, rest) ==
  /\ transactions' = [transactions EXCEPT ![layerOf[t]] = @ \ {t}]
  /\ completed' = [completed EXCEPT ![t] = Append(@, canceled)]
  /\ stack' = <<[kind |-> "hook"]>> \o rest

(* Mutated: nothing is dispatched. *)
DispatchNothing(t) == UNCHANGED mainQueue

(* The main queue gets completeTransaction when the group's block is fired. *)
DispatchIfFired(t) ==
  mainQueue' = IF notified'[t] = "fired" /\ notified[t] # "fired"
               THEN Append(mainQueue, t) ELSE mainQueue

(* A transaction without operations completes at once. *)
commit(t, rest) ==
  /\ state' = [state EXCEPT ![t] = "committed"]
  /\ IF operations[t] = <<>>
     THEN completionBlock(t, FALSE, rest) /\ UNCHANGED <<groupVars, mainQueue>>
     ELSE /\ G!Arm(t) /\ DispatchIfFired(t)
          /\ stack' = rest
          /\ UNCHANGED <<transactions, completed>>

commitIfAny(t, rest) ==
  IF t = None
  THEN stack' = rest /\ UNCHANGED <<state, transactions, completed, groupVars, mainQueue>>
  ELSE commit(t, rest)

-----------------------------------------------------------------------------
(* Calls of the application.                                                *)

asyncTransaction(l) ==
  /\ InApplication /\ MayUse(l)
  /\ containers' = containers \cup {l}
  /\ IF current[l] = None
     THEN \E t \in Txn :
            /\ state[t] = "none" /\ layerOf[t] = l
            /\ state' = [state EXCEPT ![t] = "open"]
            /\ transactions' = [transactions EXCEPT ![l] = @ \cup {t}]
            /\ current' = [current EXCEPT ![l] = t]
     ELSE UNCHANGED <<state, transactions, current>>
  /\ UNCHANGED <<groupVars, skipped, operations, layerOf, mainQueue, stack, historyVars>>

addOperation(o) ==
  LET t == owner[o]
  IN  /\ InApplication /\ MayUse(layerOf[t])
      /\ current[layerOf[t]] = t /\ state[t] = "open"
      /\ G!Submit(o)
      /\ operations' = [operations EXCEPT ![t] = Append(@, o)]
      /\ UNCHANGED <<skipped, state, layerVars, mainQueue, stack, historyVars>>

(* First the open transaction is committed, which may call back; the rest   *)
(* is cancelLayer below.                                                    *)
cancelAsyncTransactions(l) ==
  /\ MayNest /\ MayUse(l)
  /\ commitIfAny(current[l], <<[kind |-> "cancel", layer |-> l]>> \o stack)
  /\ UNCHANGED <<skipped, operations, layerOf, current, containers, called>>

waitUntilComplete(t) ==
  /\ MayNest /\ MayWait(t)
  /\ t \in transactions[layerOf[t]]
  /\ \A i \in DOMAIN stack : stack[i].kind = "complete" => stack[i].txn # t
  /\ stack' = <<[kind |-> IF state[t] # "complete" /\ operations[t] # <<>> THEN "wait" ELSE "returning",
                 txn |-> t]>> \o stack
  /\ UNCHANGED <<groupVars, skipped, state, operations, layerVars, mainQueue, historyVars>>

-----------------------------------------------------------------------------
(* The continuations of those calls.                                        *)

cancelLayer ==
  /\ TopIs("cancel")
  /\ LET l == Top.layer
     IN  /\ current' = [current EXCEPT ![l] = None]
         /\ state' = [t \in Txn |-> IF t \in transactions[l] THEN "canceled" ELSE state[t]]
  /\ stack' = Tail(stack)
  /\ UNCHANGED <<groupVars, skipped, operations, layerOf, transactions, containers,
                 mainQueue, historyVars>>

(* The group commits its containers from the run loop observer and from     *)
(* waitUntilComplete.                                                       *)
commitContainers(rest) ==
  /\ containers' = {}
  /\ stack' = IF containers = {} THEN rest
              ELSE <<[kind |-> "commit", layers |-> containers]>> \o rest

(* Mutated: pending operations are not waited for. *)
stopWaitingEarly ==
  /\ TopIs("wait")
  /\ LET rest == <<[kind |-> "waited", txn |-> Top.txn]>> \o Tail(stack)
     IN  IF state[Top.txn] = "open" THEN commitContainers(rest)
         ELSE stack' = rest /\ UNCHANGED containers
  /\ UNCHANGED <<groupVars, skipped, state, operations, current, transactions, layerOf,
                 mainQueue, historyVars>>

stopWaiting ==
  /\ TopIs("wait") /\ G!Settled(Top.txn)
  /\ LET rest == <<[kind |-> "waited", txn |-> Top.txn]>> \o Tail(stack)
     IN  IF state[Top.txn] = "open" THEN commitContainers(rest)
         ELSE stack' = rest /\ UNCHANGED containers
  /\ UNCHANGED <<groupVars, skipped, state, operations, current, transactions, layerOf,
                 mainQueue, historyVars>>

(* Mutated: a canceled transaction is not completed. *)
completeUnlessCanceled ==
  /\ TopIs("waited")
  /\ LET t == Top.txn
         rest == <<[kind |-> "returning", txn |-> t]>> \o Tail(stack)
     IN  stack' = IF state[t] # "committed" THEN rest ELSE <<Completing(t)>> \o rest
  /\ UNCHANGED <<groupVars, skipped, state, operations, layerVars, mainQueue, historyVars>>

completeAfterWait ==
  /\ TopIs("waited")
  /\ LET t == Top.txn
         rest == <<[kind |-> "returning", txn |-> t]>> \o Tail(stack)
     IN  stack' = IF state[t] = "complete" THEN rest ELSE <<Completing(t)>> \o rest
  /\ UNCHANGED <<groupVars, skipped, state, operations, layerVars, mainQueue, historyVars>>

returnFromWait ==
  /\ TopIs("returning")
  /\ stack' = Tail(stack)
  /\ UNCHANGED <<groupVars, skipped, state, operations, layerVars, mainQueue, historyVars>>

commitContainer(l) ==
  /\ TopIs("commit") /\ l \in Top.layers
  /\ current' = [current EXCEPT ![l] = None]
  /\ LET left == Top.layers \ {l}
     IN  commitIfAny(current[l], IF left = {} THEN Tail(stack)
                                 ELSE <<[Top EXCEPT !.layers = left]>> \o Tail(stack))
  /\ UNCHANGED <<skipped, operations, layerOf, containers, called>>

(* Mutated: last added, first called. *)
callLastBlock ==
  /\ TopIs("complete") /\ Top.todo # <<>>
  /\ called' = [called EXCEPT ![Top.txn] = Append(@, Top.todo[Len(Top.todo)])]
  /\ stack' = <<[Top EXCEPT !.todo = SubSeq(@, 1, Len(@) - 1)]>> \o Tail(stack)
  /\ UNCHANGED <<groupVars, skipped, state, operations, layerVars, mainQueue, completed>>

callCompletionBlock ==
  /\ TopIs("complete") /\ Top.todo # <<>>
  /\ called' = [called EXCEPT ![Top.txn] = Append(@, Head(Top.todo))]
  /\ stack' = <<[Top EXCEPT !.todo = Tail(@)]>> \o Tail(stack)
  /\ UNCHANGED <<groupVars, skipped, state, operations, layerVars, mainQueue, completed>>

finishCompletion ==
  /\ TopIs("complete") /\ Top.todo = <<>>
  /\ state' = [state EXCEPT ![Top.txn] = "complete"]
  /\ completionBlock(Top.txn, Top.isCanceled, Tail(stack))
  /\ UNCHANGED <<groupVars, skipped, operations, current, containers, layerOf, mainQueue, called>>

returnFromHook ==
  /\ TopIs("hook")
  /\ stack' = Tail(stack)
  /\ UNCHANGED <<groupVars, skipped, state, operations, layerVars, mainQueue, historyVars>>

-----------------------------------------------------------------------------
(* The run loop and the threads of the queue.                               *)

beforeWaiting ==
  /\ stack = <<>> /\ containers # {}
  /\ commitContainers(<<>>)
  /\ UNCHANGED <<groupVars, skipped, state, operations, current, transactions, layerOf,
                 mainQueue, historyVars>>

(* Mutated: a transaction that is complete is completed again. *)
completeAgain ==
  /\ stack = <<>> /\ mainQueue # <<>>
  /\ stack' = <<Completing(Head(mainQueue))>>
  /\ mainQueue' = Tail(mainQueue)
  /\ UNCHANGED <<groupVars, skipped, state, operations, layerVars, historyVars>>

completeTransaction ==
  /\ stack = <<>> /\ mainQueue # <<>>
  /\ LET t == Head(mainQueue)
     IN  stack' = IF state[t] = "complete" THEN stack ELSE <<Completing(t)>>
  /\ mainQueue' = Tail(mainQueue)
  /\ UNCHANGED <<groupVars, skipped, state, operations, layerVars, historyVars>>

(* A thread looks at the state of the transaction just before the block. *)
execute(o) ==
  /\ G!Execute(o)
  /\ skipped' = IF state[owner[o]] = "canceled" THEN skipped \cup {o} ELSE skipped
  /\ UNCHANGED <<state, operations, layerVars, mainQueue, stack, historyVars>>

leaveGroup(o) ==
  /\ G!Finish(o)
  /\ DispatchIfFired(owner[o])
  /\ UNCHANGED <<skipped, state, operations, layerVars, stack, historyVars>>

Application == \/ \E l \in Layer : asyncTransaction(l) \/ cancelAsyncTransactions(l)
               \/ \E o \in Op : addOperation(o)
               \/ \E t \in Txn : waitUntilComplete(t)
MainThread == \/ cancelLayer \/ stopWaiting \/ completeAfterWait \/ returnFromWait
              \/ \E l \in Layer : commitContainer(l)
              \/ callCompletionBlock \/ finishCompletion \/ returnFromHook
              \/ beforeWaiting \/ completeTransaction
Pool(o) == execute(o) \/ leaveGroup(o)

Next == Application \/ MainThread \/ \E o \in Op : Pool(o)

Spec == Init /\ [][Next]_vars

(* Threads keep running.  However busy the application is, its callbacks    *)
(* return, and the run loop time and again serves the main queue and goes   *)
(* to sleep.                                                                *)
FairSpec == /\ Spec
            /\ WF_vars(MainThread)
            /\ SF_vars(callCompletionBlock \/ finishCompletion) /\ SF_vars(returnFromHook)
            /\ SF_vars(beforeWaiting) /\ SF_vars(completeTransaction)
            /\ \A o \in Op : WF_vars(Pool(o))

-----------------------------------------------------------------------------
TypeOK ==
  /\ owner \in [Op -> Txn]
  /\ phase \in [Op -> {"idle", "scheduled", "executed", "done"}]
  /\ notified \in [Txn -> {"none", "armed", "fired"}]
  /\ skipped \subseteq Op
  /\ state \in [Txn -> {"none", "open", "committed", "canceled", "complete"}]
  /\ current \in [Layer -> Txn \cup {None}]
  /\ transactions \in [Layer -> SUBSET Txn]
  /\ containers \subseteq Layer

(* Completion blocks of operations are called in the order the operations   *)
(* were added and each at most once, although waitUntilComplete completes a *)
(* transaction whose completion is also in the main queue.                  *)
CalledInOrder ==
  \A t \in Txn :
    /\ Len(called[t]) <= Len(operations[t])
    /\ called[t] = SubSeq(operations[t], 1, Len(called[t]))

(* And "when all of the operations in the transaction are completed"        *)
(* (_ASAsyncTransaction.h, on the completion block).                        *)
CalledWhenAllRan == \A t \in Txn : called[t] # <<>> => G!Settled(t)

(* A transaction completes once, after the completion blocks of all its     *)
(* operations, and is told that it was canceled if the block of one of them *)
(* did not run: canceling it, waiting for it and the main queue compete.    *)
CompletesOnce ==
  \A t \in Txn :
    /\ Len(completed[t]) <= 1
    /\ completed[t] # <<>> => called[t] = operations[t]
    /\ \A o \in skipped : owner[o] = t /\ completed[t] # <<>> => completed[t] = <<TRUE>>

(* waitUntilComplete returns with all callbacks called, for a transaction   *)
(* that has operations.                                                     *)
WaitCompletes ==
  TopIs("returning") /\ operations[Top.txn] # <<>> => completed[Top.txn] # <<>>

(* Every transaction that is opened completes, also when it is canceled.    *)
EveryTransactionCompletes == \A t \in Txn : state[t] = "open" ~> completed[t] # <<>>
=============================================================================
