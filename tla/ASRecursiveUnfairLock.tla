------------------------ MODULE ASRecursiveUnfairLock ------------------------
(***************************************************************************)
(* ASRecursiveUnfairLock.mm, the lock behind AS::RecursiveMutex and so      *)
(* behind every node: an os_unfair_lock, which is not recursive, the thread *)
(* that has it, and a count.  One action per access to what threads share.  *)
(*                                                                         *)
(* _thread is read without the lock and with memory_order_relaxed: a read   *)
(* returns any value that was written since the reader last wrote it or     *)
(* synchronised with the writers by taking the lock.                        *)
(***************************************************************************)
EXTENDS Integers

CONSTANTS Thread, Lock, None

ASSUME NoneAssumption == None \notin Thread

VARIABLES
  osLock,  \* who has _lock, or None
  thread,  \* _thread, the last value written
  seen,    \* the values of _thread that a thread can still read
  count,   \* _count
  pc,      \* where a thread is in the lock's functions
  arg,     \* and in those of which lock
  holds    \* how often each thread has taken each lock

lockVars == <<osLock, thread, seen, count, pc, arg, holds>>

Idle == {"out", "failed"}
PCs == Idle \cup {"lock", "tryLock", "block", "attempt", "own", "count", "unlock", "clear", "release"}

LockInit ==
  /\ osLock = [l \in Lock |-> None] /\ thread = [l \in Lock |-> None]
  /\ seen = [t \in Thread |-> [l \in Lock |-> {None}]]
  /\ count = [l \in Lock |-> 0]
  /\ pc = [t \in Thread |-> "out"] /\ arg \in [Thread -> Lock]
  /\ holds = [t \in Thread |-> [l \in Lock |-> 0]]

-----------------------------------------------------------------------------
(* The calls that AS::Mutex makes.                                          *)
call(t, l, function) ==
  /\ pc[t] \in Idle
  /\ pc' = [pc EXCEPT ![t] = function] /\ arg' = [arg EXCEPT ![t] = l]
  /\ UNCHANGED <<osLock, thread, seen, count, holds>>

callLock(t, l) == call(t, l, "lock")
callTryLock(t, l) == call(t, l, "tryLock")

(* Whoever unlocks has the lock; the header leaves the rest undefined.      *)
callUnlock(t, l) == holds[t][l] > 0 /\ call(t, l, "unlock")

goto(t, where) == pc' = [pc EXCEPT ![t] = where] /\ UNCHANGED arg

(* rul_get_thread: the lock is taken again if its thread is this one.       *)
readThread(t) ==
  /\ pc[t] \in {"lock", "tryLock"}
  /\ \E v \in seen[t][arg[t]] :
       goto(t, IF v = t THEN "count" ELSE IF pc[t] = "lock" THEN "block" ELSE "attempt")
  /\ UNCHANGED <<osLock, thread, seen, count, holds>>

(* os_unfair_lock_lock returns, or os_unfair_lock_trylock returns true.     *)
acquire(t) ==
  /\ pc[t] \in {"block", "attempt"} /\ osLock[arg[t]] = None
  /\ osLock' = [osLock EXCEPT ![arg[t]] = t]
  /\ seen' = [seen EXCEPT ![t][arg[t]] = {thread[arg[t]]}]
  /\ goto(t, "own")
  /\ UNCHANGED <<thread, count, holds>>

failToAcquire(t) ==
  /\ pc[t] = "attempt" /\ osLock[arg[t]] # None
  /\ goto(t, "failed")
  /\ UNCHANGED <<osLock, thread, seen, count, holds>>

(* rul_set_thread.                                                          *)
writeThread(t, l, v) ==
  /\ thread' = [thread EXCEPT ![l] = v]
  /\ seen' = [u \in Thread |->
                [seen[u] EXCEPT ![l] = IF u = t THEN {v} ELSE @ \cup {v}]]

didAcquire(t) ==
  /\ pc[t] = "own"
  /\ writeThread(t, arg[t], t)
  /\ goto(t, "count")
  /\ UNCHANGED <<osLock, count, holds>>

countUp(t) ==
  /\ pc[t] = "count"
  /\ count' = [count EXCEPT ![arg[t]] = @ + 1]
  /\ holds' = [holds EXCEPT ![t][arg[t]] = @ + 1]
  /\ goto(t, "out")
  /\ UNCHANGED <<osLock, thread, seen>>

leaveAtCount(t, last) ==
  /\ pc[t] = "unlock"
  /\ count' = [count EXCEPT ![arg[t]] = @ - 1]
  /\ holds' = [holds EXCEPT ![t][arg[t]] = @ - 1]
  /\ goto(t, IF count'[arg[t]] = last THEN "clear" ELSE "out")
  /\ UNCHANGED <<osLock, thread, seen>>

(* Mutated: the first unlock of a lock taken twice gives it back.           *)
countDownOnce(t) == leaveAtCount(t, 1) \/ leaveAtCount(t, 0)

countDown(t) == leaveAtCount(t, 0)

willRelease(t) ==
  /\ pc[t] = "clear"
  /\ writeThread(t, arg[t], None)
  /\ goto(t, "release")
  /\ UNCHANGED <<osLock, count, holds>>

release(t) ==
  /\ pc[t] = "release"
  /\ osLock' = [osLock EXCEPT ![arg[t]] = None]
  /\ goto(t, "out")
  /\ UNCHANGED <<thread, seen, count, holds>>

LockStep(t) ==
  \/ readThread(t) \/ acquire(t) \/ failToAcquire(t) \/ didAcquire(t)
  \/ countUp(t) \/ countDown(t) \/ willRelease(t) \/ release(t)

(* What any program can do with the locks.                                  *)
LockNext ==
  \E t \in Thread :
    \/ LockStep(t)
    \/ \E l \in Lock : callLock(t, l) \/ callTryLock(t, l) \/ callUnlock(t, l)

LockSpec == LockInit /\ [][LockNext]_lockVars

-----------------------------------------------------------------------------
LockTypeOK ==
  /\ osLock \in [Lock -> Thread \cup {None}] /\ thread \in [Lock -> Thread \cup {None}]
  /\ seen \in [Thread -> [Lock -> SUBSET (Thread \cup {None})]]
  /\ count \in [Lock -> Int] /\ holds \in [Thread -> [Lock -> Int]]
  /\ pc \in [Thread -> PCs] /\ arg \in [Thread -> Lock]

(* The assertions of the four inline functions: a relaxed read of _thread   *)
(* says "mine" only to the thread that has the lock and has counted itself, *)
(* whatever values of earlier owners are still around; whoever has just     *)
(* taken it finds it unowned; whoever gives it back finds itself.           *)
AssertionsHold ==
  \A t \in Thread :
    /\ pc[t] \in {"lock", "tryLock"} /\ t \in seen[t][arg[t]] =>
         seen[t][arg[t]] = {t} /\ osLock[arg[t]] = t /\ count[arg[t]] > 0
    /\ pc[t] = "own" => seen[t][arg[t]] = {None} /\ count[arg[t]] = 0
    /\ pc[t] = "unlock" => seen[t][arg[t]] = {t}
    /\ pc[t] = "clear" => seen[t][arg[t]] = {t} /\ count[arg[t]] = 0

RL == INSTANCE RecursiveLock

(* What the functions do together is to take and to undo a recursive lock.  *)
IsRecursiveLock == RL!Spec
=============================================================================
