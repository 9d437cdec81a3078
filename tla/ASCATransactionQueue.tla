------------------------ MODULE ASCATransactionQueue ------------------------
(***************************************************************************)
(* ASCATransactionQueue (ASRunLoopQueue.mm): nodes whose interface state is *)
(* to be applied before Core Animation commits.  Any thread enqueues; the   *)
(* observer on the main run loop swaps the buffers and calls                *)
(* prepareForCATransactionCommit of each node, again and again until the    *)
(* queue stays empty.  ASInterfaceState says what that call does.           *)
(***************************************************************************)
EXTENDS Sequences, FiniteSets, Integers, SequencesExt

CONSTANTS
  Node,
  Modes    \* what enabled may be

ASSUME ModesAssumption == Modes \subseteq BOOLEAN

VARIABLES
  enabled,              \* never changes
  internalQueue,        \* _internalQueue
  internalQueueHashSet, \* _internalQueueHashSet
  batchBuffer,          \* what is left of _batchBuffer
  loop,                 \* events, committing (in the observer) or waiting
  wokenUp,              \* CFRunLoopWakeUp was called since the loop last woke up
  raced,                \* another thread made the queue non-empty since the main thread locked it
  calls                 \* nodes called in this commit, in order

queueVars == <<enabled, internalQueue, internalQueueHashSet, batchBuffer, loop, wokenUp, raced, calls>>

QueueInit ==
  /\ enabled \in Modes
  /\ internalQueue = <<>> /\ internalQueueHashSet = {} /\ batchBuffer = <<>>
  /\ loop = "events" /\ wokenUp = FALSE /\ raced = FALSE /\ calls = <<>>

(* Mutated: the run loop is left asleep. *)
enqueueSilently(n, onMain) ==
  /\ IF n \in internalQueueHashSet
     THEN UNCHANGED <<internalQueue, internalQueueHashSet>>
     ELSE /\ internalQueueHashSet' = internalQueueHashSet \cup {n}
          /\ internalQueue' = Append(internalQueue, n)
  /\ raced' = (~onMain /\ (raced \/ internalQueue = <<>>))
  /\ UNCHANGED <<enabled, batchBuffer, loop, calls, wokenUp>>

enqueue(n, onMain) ==
  /\ IF n \in internalQueueHashSet
     THEN UNCHANGED <<internalQueue, internalQueueHashSet, wokenUp>>
     ELSE /\ internalQueueHashSet' = internalQueueHashSet \cup {n}
          /\ internalQueue' = Append(internalQueue, n)
          /\ wokenUp' = (wokenUp \/ Len(internalQueue') = 1)
  /\ raced' = (~onMain /\ (raced \/ internalQueue = <<>>))
  /\ UNCHANGED <<enabled, batchBuffer, loop, calls>>

beforeWaiting ==
  /\ loop = "events"
  /\ loop' = "committing" /\ calls' = <<>>
  /\ UNCHANGED <<enabled, internalQueue, internalQueueHashSet, batchBuffer, wokenUp, raced>>

swapBuffers ==
  /\ loop = "committing" /\ batchBuffer = <<>> /\ internalQueue # <<>>
  /\ batchBuffer' = internalQueue /\ internalQueue' = <<>>
  /\ internalQueueHashSet' = {} /\ raced' = FALSE
  /\ UNCHANGED <<enabled, loop, wokenUp, calls>>

(* The node that the observer calls next. *)
callNext ==
  /\ loop = "committing" /\ batchBuffer # <<>>
  /\ batchBuffer' = Tail(batchBuffer)
  /\ calls' = Append(calls, Head(batchBuffer))
  /\ UNCHANGED <<enabled, internalQueue, internalQueueHashSet, loop, wokenUp, raced>>

(* The queue is read without its lock: what another thread has just put     *)
(* into it may be missed.                                                   *)
finishCommitting ==
  /\ loop = "committing" /\ batchBuffer = <<>>
  /\ internalQueue = <<>> \/ raced
  /\ loop' = "waiting"
  /\ UNCHANGED <<enabled, internalQueue, internalQueueHashSet, batchBuffer, wokenUp, raced, calls>>

(* The run loop, of the system.  Who is woken up sees what the other thread *)
(* did before.                                                              *)
wakeUp ==
  /\ loop = "waiting" /\ wokenUp
  /\ loop' = "events" /\ wokenUp' = FALSE /\ raced' = FALSE
  /\ UNCHANGED <<enabled, internalQueue, internalQueueHashSet, batchBuffer, calls>>

otherEvent ==
  /\ loop = "waiting" /\ ~wokenUp
  /\ loop' = "events"
  /\ UNCHANGED <<enabled, internalQueue, internalQueueHashSet, batchBuffer, wokenUp, raced, calls>>

-----------------------------------------------------------------------------
QueueTypeOK ==
  /\ internalQueue \in Seq(Node) /\ batchBuffer \in Seq(Node) /\ calls \in Seq(Node)
  /\ internalQueueHashSet \subseteq Node /\ enabled \in Modes
  /\ loop \in {"events", "committing", "waiting"}
  /\ wokenUp \in BOOLEAN /\ raced \in BOOLEAN

(* The hash table holds what the buffer holds, each node once: a node left  *)
(* in the table is never called again, one that is missing is called twice. *)
HashSetMatches ==
  /\ internalQueueHashSet = Range(internalQueue)
  /\ IsInjective(internalQueue)

(* The run loop does not sleep on a queue that has something in it, even if *)
(* the unlocked read has just missed it.                                    *)
NoLostWakeup == loop = "waiting" /\ internalQueue # <<>> => wokenUp
=============================================================================
