------------------------------ MODULE ASLocking ------------------------------
(***************************************************************************)
(* How locks of several objects are taken together: by ASLockScope one      *)
(* after the other, waiting for each, or by ASLockSequence (ASLocking.h),   *)
(* which tries, and gives all back when one of them is taken.  The paths    *)
(* are those of ASNodeController+Beta.mm: setNode: locks the controller and *)
(* then the node, lockPair the node and then the controller.                *)
(***************************************************************************)
EXTENDS ASRecursiveUnfairLock, Sequences

CONSTANTS
  Tasks,    \* records: the kind "scope" or "sequence", and the path of locks
  MaxTasks  \* bound on the tasks of each thread

kLockSetCapacity == 32

ASSUME TaskAssumption ==
  \A k \in Tasks : /\ k.kind \in {"scope", "sequence"} /\ k.path \in Seq(Lock)
                   /\ Len(k.path) \in 1 .. kLockSetCapacity
ASSUME BoundAssumption == MaxTasks \in Nat

NoTask == [kind |-> "none", path |-> <<>>]

VARIABLES
  task,    \* what a thread is doing
  phase,   \* take, taking (a lock), locked, giving back or backing off
  locks,   \* the locks it has taken for that, in order
  started  \* how many tasks it has begun

taskVars == <<task, phase, locks, started>>
vars == <<lockVars, taskVars>>

Init ==
  /\ LockInit
  /\ task = [t \in Thread |-> NoTask] /\ phase = [t \in Thread |-> "take"]
  /\ locks = [t \in Thread |-> <<>>] /\ started = [t \in Thread |-> 0]

-----------------------------------------------------------------------------
enter(t, where) == phase' = [phase EXCEPT ![t] = where]

start(t) ==
  /\ task[t] = NoTask /\ started[t] < MaxTasks
  /\ \E k \in Tasks : task' = [task EXCEPT ![t] = k]
  /\ started' = [started EXCEPT ![t] = @ + 1]
  /\ enter(t, "take")
  /\ UNCHANGED <<lockVars, locks>>

(* The next lock of the path.                                               *)
addLock(t) ==
  /\ phase[t] = "take" /\ Len(locks[t]) < Len(task[t].path)
  /\ \E l \in {task[t].path[Len(locks[t]) + 1]} :
       \/ task[t].kind = "scope" /\ callLock(t, l)
       \/ task[t].kind = "sequence" /\ callTryLock(t, l)
  /\ enter(t, "taking")
  /\ UNCHANGED <<task, locks, started>>

lockWasAdded(t) ==
  /\ phase[t] = "taking" /\ pc[t] = "out"
  /\ \E taken \in {Append(locks[t], arg[t])} :
       /\ locks' = [locks EXCEPT ![t] = taken]
       /\ enter(t, IF Len(taken) = Len(task[t].path) THEN "locked" ELSE "take")
  /\ UNCHANGED <<lockVars, task, started>>

(* Mutated: what was taken so far is kept while the rest is tried again.    *)
tryAgain(t) ==
  /\ phase[t] = "taking" /\ pc[t] = "failed"
  /\ enter(t, "take")
  /\ UNCHANGED <<lockVars, task, locks, started>>

(* The body returns NO.                                                     *)
lockWasNotAdded(t) ==
  /\ phase[t] = "taking" /\ pc[t] = "failed"
  /\ enter(t, "backoff")
  /\ UNCHANGED <<lockVars, task, locks, started>>

leave(t) ==
  /\ phase[t] = "locked"
  /\ enter(t, "giveBack")
  /\ UNCHANGED <<lockVars, task, locks, started>>

(* ASUnlockSet goes through the set from its start, scopes end in the       *)
(* opposite order of their beginning.                                       *)
ASUnlockSet(t) ==
  /\ phase[t] \in {"giveBack", "backoff"} /\ locks[t] # <<>>
  /\ \/ /\ task[t].kind = "sequence"
        /\ callUnlock(t, Head(locks[t]))
        /\ locks' = [locks EXCEPT ![t] = Tail(@)]
     \/ /\ task[t].kind = "scope"
        /\ callUnlock(t, locks[t][Len(locks[t])])
        /\ locks' = [locks EXCEPT ![t] = SubSeq(@, 1, Len(@) - 1)]
  /\ UNCHANGED <<task, phase, started>>

(* All is given back: the task ends, or the body is run again.              *)
retry(t) ==
  /\ phase[t] = "backoff" /\ locks[t] = <<>> /\ pc[t] \in Idle
  /\ enter(t, "take")
  /\ UNCHANGED <<lockVars, task, locks, started>>

finish(t) ==
  /\ phase[t] = "giveBack" /\ locks[t] = <<>> /\ pc[t] \in Idle
  /\ task' = [task EXCEPT ![t] = NoTask]
  /\ enter(t, "take")
  /\ UNCHANGED <<lockVars, locks, started>>

Step(t) ==
  \/ LockStep(t) /\ UNCHANGED taskVars
  \/ addLock(t) \/ lockWasAdded(t) \/ lockWasNotAdded(t) \/ leave(t)
  \/ ASUnlockSet(t) \/ retry(t) \/ finish(t)

Next == \E t \in Thread : Step(t) \/ start(t)

Spec == Init /\ [][Next]_vars

(* Every thread that can run does.  A lock that comes free again and again  *)
(* is got in the end: os_unfair_lock wakes a waiter when it is given back,  *)
(* and whoever backs off yields its processor (sched_yield).                *)
FairSpec ==
  /\ Spec
  /\ \A t \in Thread : WF_vars(Step(t)) /\ SF_vars(acquire(t) /\ UNCHANGED taskVars)

-----------------------------------------------------------------------------
TypeOK ==
  /\ LockTypeOK
  /\ task \in [Thread -> Tasks \cup {NoTask}]
  /\ phase \in [Thread -> {"take", "taking", "locked", "giveBack", "backoff"}]
  /\ locks \in [Thread -> Seq(Lock)] /\ started \in [Thread -> 0 .. MaxTasks]

(* "Take multiple locks simultaneously, avoiding deadlocks caused by lock   *)
(* ordering": no task waits for ever, although some take the same locks in  *)
(* the opposite order and wait for each.                                    *)
EveryTaskEnds == \A t \in Thread : task[t] # NoTask ~> task[t] = NoTask
=============================================================================
