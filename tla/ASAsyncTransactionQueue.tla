----------------------- MODULE ASAsyncTransactionQueue -----------------------
(***************************************************************************)
(* ASAsyncTransactionQueue (_ASAsyncTransaction.mm): the process-wide pool  *)
(* that runs the operations of all transactions on dispatch queues, and     *)
(* the groups that tell a transaction when its operations are done.         *)
(*                                                                         *)
(* Every action is one critical section of the global _mutex, or the        *)
(* execution of an operation's block, which happens with the mutex          *)
(* unlocked.  A std::list is a set ordered by the tickets that Schedule     *)
(* draws: the code only ever appends to its lists.                          *)
(*                                                                         *)
(* A worker is the block that schedule() dispatches to a dispatch queue.    *)
(* It is named after the operation whose schedule() call spawned it, which  *)
(* need not be an operation it ever executes.                               *)
(***************************************************************************)
EXTENDS Integers, FiniteSets

CONSTANTS
  Op,           \* the calls of schedule() there will ever be
  Group,        \* the groups there will ever be
  Queue,        \* the dispatch queues
  Priority,     \* the priorities
  MaxThreads,   \* activeProcessorCount * 2
  MaxEnter,     \* bound on the manual enter() calls outstanding in a group
  NoOp, NoGroup \* neither an operation nor a group

ASSUME OpAssumption == IsFiniteSet(Op) /\ NoOp \notin Op
ASSUME GroupAssumption == NoGroup \notin Group
ASSUME PriorityAssumption == Priority \subseteq Int /\ IsFiniteSet(Priority)
ASSUME MaxThreadsAssumption == MaxThreads \in Nat /\ MaxThreads >= 2
ASSUME MaxEnterAssumption == MaxEnter \in Nat

VARIABLES
  call,         \* the arguments of each call of schedule(), unknown until it happens
  status,       \* the progress of each operation
  ticket,       \* the order in which operations were scheduled, 0 before
  nextTicket,
  entries,      \* the keys of _entries
  queued,       \* _operationQueue of each entry
  mapKeys,      \* the keys of _operationPriorityMap of each entry
  bucket,       \* and its values
  threadCount,  \* _threadCount of each entry
  worker,       \* the dispatched blocks
  life,         \* of a group: absent, live, released (_releaseCalled), deleted
  pending,      \* _pendingOperations
  manual,       \* enter() calls whose leave() is still to come
  notify,       \* the one block of a _notifyList: none, listed, dispatched
  waiter        \* the main thread inside wait()

opVars == <<call, status, ticket, nextTicket>>
entryVars == <<entries, queued, mapKeys, bucket, threadCount, worker>>
groupVars == <<life, pending, manual, notify>>
vars == <<opVars, entryVars, groupVars, waiter>>

NotWaiting == [group |-> NoGroup, signalled |-> FALSE]

Init ==
  /\ call \in [Op -> [group : Group, queue : Queue, priority : Priority]]
  /\ status = [o \in Op |-> "idle"]
  /\ ticket = [o \in Op |-> 0]
  /\ nextTicket = 1
  /\ entries = {}
  /\ queued = [q \in Queue |-> {}]
  /\ mapKeys = [q \in Queue |-> {}]
  /\ bucket = [q \in Queue |-> [p \in Priority |-> {}]]
  /\ threadCount = [q \in Queue |-> 0]
  /\ worker = [w \in Op |-> [pc |-> "unborn", holds |-> NoOp, respectPriority |-> FALSE]]
  /\ life = [g \in Group |-> "absent"]
  /\ pending = [g \in Group |-> 0]
  /\ manual = [g \in Group |-> 0]
  /\ notify = [g \in Group |-> "none"]
  /\ waiter = NotWaiting

-----------------------------------------------------------------------------
(* The client.  A transaction calls these on the main thread, except        *)
(* release(), which runs wherever its last reference is dropped; it never   *)
(* adds an operation after commit, which is where it calls notify().        *)

MainIsFree == waiter = NotWaiting

createGroup(g) ==
  /\ MainIsFree
  /\ life[g] = "absent"
  /\ life' = [life EXCEPT ![g] = "live"]
  /\ UNCHANGED <<opVars, entryVars, pending, manual, notify, waiter>>

(* operator[] creates the entry on demand. *)
pushOperation(o, q, p) ==
  /\ entries' = entries \cup {q}
  /\ queued' = [queued EXCEPT ![q] = @ \cup {o}]
  /\ mapKeys' = [mapKeys EXCEPT ![q] = @ \cup {p}]
  /\ bucket' = [bucket EXCEPT ![q][p] = @ \cup {o}]

(* The thread limit is one lower while the main run loop tracks touches. *)
spawn(o, q) ==
  \E tracking \in {0, 1} :
    IF threadCount[q] < MaxThreads - tracking
    THEN /\ threadCount' = [threadCount EXCEPT ![q] = @ + 1]
         /\ worker' = [worker EXCEPT ![o] =
              [pc |-> "top", holds |-> NoOp, respectPriority |-> threadCount[q] > 0]]
    ELSE UNCHANGED <<threadCount, worker>>

schedule(o) ==
  LET g == call[o].group
      q == call[o].queue
  IN  /\ MainIsFree
      /\ status[o] = "idle" /\ life[g] = "live" /\ notify[g] = "none"
      /\ status' = [status EXCEPT ![o] = "queued"]
      /\ ticket' = [ticket EXCEPT ![o] = nextTicket]
      /\ nextTicket' = nextTicket + 1
      /\ pushOperation(o, q, call[o].priority)
      /\ pending' = [pending EXCEPT ![g] = @ + 1]
      /\ spawn(o, q)
      /\ UNCHANGED <<call, life, manual, notify, waiter>>

notifyGroup(g) ==
  /\ MainIsFree
  /\ life[g] = "live" /\ notify[g] = "none"
  /\ notify' = [notify EXCEPT ![g] = IF pending[g] = 0 THEN "dispatched" ELSE "listed"]
  /\ UNCHANGED <<opVars, entryVars, life, pending, manual, waiter>>

(* Mutated: the group is deleted although operations are pending. *)
releaseAtOnce(g) ==
  /\ life[g] = "live" /\ waiter.group # g
  /\ life' = [life EXCEPT ![g] = "deleted"]
  /\ UNCHANGED <<opVars, entryVars, pending, manual, notify, waiter>>

release(g) ==
  /\ life[g] = "live" /\ waiter.group # g
  /\ life' = [life EXCEPT ![g] = IF pending[g] = 0 THEN "deleted" ELSE "released"]
  /\ UNCHANGED <<opVars, entryVars, pending, manual, notify, waiter>>

enter(g) ==
  /\ life[g] = "live" /\ manual[g] < MaxEnter
  /\ pending' = [pending EXCEPT ![g] = @ + 1]
  /\ manual' = [manual EXCEPT ![g] = @ + 1]
  /\ UNCHANGED <<opVars, entryVars, life, notify, waiter>>

(* A pending count that reaches zero flushes the notify list, wakes the     *)
(* waiter and deletes a group whose release() came too early.               *)
leave(g) ==
  /\ pending' = [pending EXCEPT ![g] = @ - 1]
  /\ IF pending[g] = 1
     THEN /\ notify' = [notify EXCEPT ![g] = IF @ = "listed" THEN "dispatched" ELSE @]
          /\ waiter' = IF waiter.group = g THEN [waiter EXCEPT !.signalled = TRUE] ELSE waiter
          /\ life' = [life EXCEPT ![g] = IF @ = "released" THEN "deleted" ELSE @]
     ELSE UNCHANGED <<notify, waiter, life>>

leaveManually(g) ==
  /\ manual[g] > 0
  /\ manual' = [manual EXCEPT ![g] = @ - 1]
  /\ leave(g)
  /\ UNCHANGED <<opVars, entryVars>>

(* wait() returns at once when nothing is pending. *)
wait(g) ==
  /\ MainIsFree
  /\ life[g] = "live" /\ pending[g] > 0
  /\ waiter' = [group |-> g, signalled |-> FALSE]
  /\ UNCHANGED <<opVars, entryVars, groupVars>>

wakeUp ==
  /\ waiter.signalled
  /\ waiter' = IF pending[waiter.group] > 0 THEN [waiter EXCEPT !.signalled = FALSE]
                                            ELSE NotWaiting
  /\ UNCHANGED <<opVars, entryVars, groupVars>>

-----------------------------------------------------------------------------
(* The workers.                                                             *)

IsFront(o, S) == o \in S /\ \A x \in S : ticket[o] <= ticket[x]
IsHighestKey(p, q) == p \in mapKeys[q] /\ \A k \in mapKeys[q] : k <= p

popNewest(o, q, respectPriority) ==
  LET p == call[o].priority
  IN  /\ IF respectPriority
         THEN IsHighestKey(p, q) /\ \A x \in bucket[q][p] : ticket[o] >= ticket[x]
         ELSE IsFront(o, queued[q])
      /\ queued' = [queued EXCEPT ![q] = @ \ {o}]
      /\ bucket' = [bucket EXCEPT ![q][p] = @ \ {o}]
      /\ mapKeys' = [mapKeys EXCEPT ![q] = IF bucket[q][p] = {o} THEN @ \ {p} ELSE @]

popNextOperation(o, q, respectPriority) ==
  LET p == call[o].priority
  IN  /\ IF respectPriority
         THEN IsHighestKey(p, q) /\ IsFront(o, bucket[q][p])
         ELSE IsFront(o, queued[q])
      /\ queued' = [queued EXCEPT ![q] = @ \ {o}]
      /\ bucket' = [bucket EXCEPT ![q][p] = @ \ {o}]
      /\ mapKeys' = [mapKeys EXCEPT ![q] = IF bucket[q][p] = {o} THEN @ \ {p} ELSE @]

take(w) ==
  /\ worker[w].pc = "top"
  /\ \E o \in Op :
       /\ o \in queued[call[w].queue]
       /\ popNextOperation(o, call[w].queue, worker[w].respectPriority)
       /\ status' = [status EXCEPT ![o] = "running"]
       /\ worker' = [worker EXCEPT ![w].pc = "busy", ![w].holds = o]
  /\ UNCHANGED <<call, ticket, nextTicket, entries, threadCount, groupVars, waiter>>

runBlock(w) ==
  /\ worker[w].pc = "busy" /\ status[worker[w].holds] = "running"
  /\ status' = [status EXCEPT ![worker[w].holds] = "executed"]
  /\ UNCHANGED <<call, ticket, nextTicket, entryVars, groupVars, waiter>>

(* Mutated: the group is left before the block has run. *)
finishUnexecuted(w) ==
  LET o == worker[w].holds
  IN  /\ worker[w].pc = "busy" /\ status[o] = "running"
      /\ status' = [status EXCEPT ![o] = "left"]
      /\ leave(call[o].group)
      /\ worker' = [worker EXCEPT ![w].pc = "top", ![w].holds = NoOp]
      /\ UNCHANGED <<call, ticket, nextTicket, entries, queued, mapKeys, bucket,
                     threadCount, manual>>

finish(w) ==
  LET o == worker[w].holds
  IN  /\ worker[w].pc = "busy" /\ status[o] = "executed"
      /\ status' = [status EXCEPT ![o] = "left"]
      /\ leave(call[o].group)
      /\ worker' = [worker EXCEPT ![w].pc = "top", ![w].holds = NoOp]
      /\ UNCHANGED <<call, ticket, nextTicket, entries, queued, mapKeys, bucket,
                     threadCount, manual>>

(* Mutated: the queue is not looked at again. *)
exitWithoutLooking(w) ==
  LET q == call[w].queue
  IN  /\ worker[w].pc = "top"
      /\ worker' = [worker EXCEPT ![w].pc = "exited"]
      /\ threadCount' = [threadCount EXCEPT ![q] = @ - 1]
      /\ UNCHANGED <<opVars, entries, queued, mapKeys, bucket, groupVars, waiter>>

(* The last worker to go erases the entry. *)
exit(w) ==
  LET q == call[w].queue
  IN  /\ worker[w].pc = "top" /\ queued[q] = {}
      /\ worker' = [worker EXCEPT ![w].pc = "exited"]
      /\ threadCount' = [threadCount EXCEPT ![q] = @ - 1]
      /\ IF threadCount[q] = 1
         THEN /\ entries' = entries \ {q}
              /\ mapKeys' = [mapKeys EXCEPT ![q] = {}]
              /\ bucket' = [bucket EXCEPT ![q] = [p \in Priority |-> {}]]
         ELSE UNCHANGED <<entries, mapKeys, bucket>>
      /\ UNCHANGED <<opVars, queued, groupVars, waiter>>

-----------------------------------------------------------------------------
GroupStep(g) == \/ createGroup(g) \/ notifyGroup(g) \/ release(g)
                \/ enter(g) \/ leaveManually(g) \/ wait(g)
WorkerStep(w) == take(w) \/ runBlock(w) \/ finish(w) \/ exit(w)

Next == \/ \E g \in Group : GroupStep(g)
        \/ \E o \in Op : schedule(o) \/ WorkerStep(o)
        \/ wakeUp

Spec == Init /\ [][Next]_vars

(* GCD runs every dispatched block, blocks terminate, and a signalled       *)
(* condition variable wakes its waiter.  The client is under no obligation. *)
FairSpec == Spec /\ \A w \in Op : WF_vars(WorkerStep(w)) /\ WF_vars(wakeUp)

-----------------------------------------------------------------------------
Outstanding(o) == status[o] \in {"queued", "running", "executed"}
OutstandingIn(g) == {o \in Op : Outstanding(o) /\ call[o].group = g}
Alive(w) == worker[w].pc \in {"top", "busy"}
AliveOn(q) == {w \in Op : Alive(w) /\ call[w].queue = q}

TypeOK ==
  /\ call \in [Op -> [group : Group, queue : Queue, priority : Priority]]
  /\ status \in [Op -> {"idle", "queued", "running", "executed", "left"}]
  /\ ticket \in [Op -> Nat] /\ nextTicket \in Nat
  /\ entries \subseteq Queue
  /\ queued \in [Queue -> SUBSET Op]
  /\ mapKeys \in [Queue -> SUBSET Priority]
  /\ bucket \in [Queue -> [Priority -> SUBSET Op]]
  /\ threadCount \in [Queue -> 0 .. MaxThreads]
  /\ worker \in [Op -> [pc : {"unborn", "top", "busy", "exited"},
                        holds : Op \cup {NoOp}, respectPriority : BOOLEAN]]
  /\ life \in [Group -> {"absent", "live", "released", "deleted"}]
  /\ pending \in [Group -> Nat]
  /\ manual \in [Group -> 0 .. MaxEnter]
  /\ notify \in [Group -> {"none", "listed", "dispatched"}]
  /\ waiter \in [group : Group \cup {NoGroup}, signalled : BOOLEAN]

(* A group is only deleted once no worker will call leave() on it, no       *)
(* manual leave() is due and nobody sleeps on its condition variable,       *)
(* however release() races with the workers.                                *)
NoDanglingGroup ==
  \A g \in Group :
    OutstandingIn(g) # {} \/ manual[g] > 0 \/ waiter.group = g
      => life[g] \in {"live", "released"}

(* The entry a worker captured by reference is not erased before the worker *)
(* is done with it, although erasing is decided by a plain counter.         *)
EntryOutlivesWorkers == \A w \in Op : Alive(w) => call[w].queue \in entries

(* The assertion of the last worker: operations are never left behind in a  *)
(* queue that no worker will look at again.                                 *)
QueueHasWorker == \A q \in Queue : queued[q] # {} => AliveOn(q) # {}

(* The assertions of popNextOperation(): the map has a bucket for what is   *)
(* queued, and whichever way an operation is chosen it is at the front of   *)
(* its bucket and in the queue.                                             *)
PopConsistent ==
  \A q \in Queue :
    /\ (queued[q] = {}) <=> (mapKeys[q] = {})
    /\ \A p \in mapKeys[q] : bucket[q][p] # {}
    /\ \A o \in queued[q] : IsFront(o, queued[q]) => IsFront(o, bucket[q][call[o].priority])
    /\ \A p \in mapKeys[q] : \A o \in bucket[q][p] :
         IsHighestKey(p, q) /\ IsFront(o, bucket[q][p]) => o \in queued[q]

(* Operations of one priority start in the order they were scheduled,       *)
(* whatever mixture of threads serves the queue.                            *)
SamePriorityInOrder ==
  \A a, b \in Op :
    /\ status[a] = "queued" /\ status[b] \notin {"idle", "queued"}
    /\ call[a].queue = call[b].queue /\ call[a].priority = call[b].priority
    => ticket[b] < ticket[a]

(* A dispatch queue is never given more threads than allowed, and at most   *)
(* one of them serves operations regardless of priority.                    *)
ThreadLimits ==
  \A q \in Queue :
    /\ Cardinality(AliveOn(q)) <= MaxThreads
    /\ \A v, w \in AliveOn(q) :
         ~worker[v].respectPriority /\ ~worker[w].respectPriority => v = w

(* The notify block, which completes the transaction, is dispatched only    *)
(* once the block of every operation of the group has run, and it is not    *)
(* left in the list of a group with nothing pending.                        *)
NotifyIsExact ==
  \A g \in Group :
    /\ notify[g] = "dispatched" => \A o \in Op : call[o].group = g => ~Outstanding(o)
    /\ notify[g] = "listed" => pending[g] > 0

(* The main thread is never asleep on a group with nothing pending and no   *)
(* signal under way.                                                        *)
NoLostWakeup == waiter.group # NoGroup /\ ~waiter.signalled => pending[waiter.group] > 0

(* wait() returns: with a bounded client, nothing is pending for ever. *)
WaitReturns == waiter.group # NoGroup ~> waiter.group = NoGroup

(* How the state of the queue is seen through OperationGroup: threads,      *)
(* lists, priorities and the life cycle of groups do not show.              *)
PhaseOf(s) == CASE s = "idle"                 -> "idle"
                [] s \in {"queued", "running"} -> "scheduled"
                [] s = "executed"             -> "executed"
                [] s = "left"                 -> "done"
NotifiedOf(n) == CASE n = "none" -> "none" [] n = "listed" -> "armed" [] n = "dispatched" -> "fired"

Promise == INSTANCE OperationGroup WITH
  owner <- [o \in Op |-> call[o].group],
  phase <- [o \in Op |-> PhaseOf(status[o])],
  held <- manual,
  notified <- [g \in Group |-> NotifiedOf(notify[g])]

(* Every behaviour of the queue is one OperationGroup allows. *)
PromiseKept == Promise!GSpec

(* And the queue makes the progress OperationGroup promises: a scheduled    *)
(* operation is executed and leaves its group, whichever threads come and   *)
(* go.                                                                      *)
FairPromiseKept == Promise!GFairSpec
=============================================================================
