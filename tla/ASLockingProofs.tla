--------------------------- MODULE ASLockingProofs ---------------------------
(***************************************************************************)
(* Proofs about ASRecursiveUnfairLock, for any number of threads and locks  *)
(* and whatever a program does with them, and what follows for ASLocking.   *)
(***************************************************************************)
EXTENDS ASLocking, SequenceTheorems, TLAPS

(* A thread is in the middle of taking or giving back lock l.               *)
At(t, l, where) == pc[t] \in where /\ arg[t] = l

(* Whoever counts or has counted has the os_unfair_lock.                    *)
HoldersHaveIt ==
  \A t \in Thread, l \in Lock :
    holds[t][l] > 0 \/ At(t, l, {"own", "count", "unlock", "clear", "release"}) => osLock[l] = t

(* Nobody waits for a lock that it has itself.                              *)
WaitersDoNot ==
  \A t \in Thread, l \in Lock : At(t, l, {"block", "attempt"}) => osLock[l] # t

(* _count is what its holder has taken, and zero while nobody has the lock. *)
CountIsRight ==
  \A l \in Lock :
    /\ osLock[l] = None => count[l] = 0
    /\ \A t \in Thread : osLock[l] = t => count[l] = holds[t][l]
    /\ \A t \in Thread : /\ holds[t][l] >= 0
                         /\ At(t, l, {"own", "clear", "release"}) => holds[t][l] = 0
                         /\ At(t, l, {"unlock"}) => holds[t][l] > 0
                         /\ osLock[l] = t /\ holds[t][l] = 0 =>
                              At(t, l, {"own", "count", "clear", "release"})

(* _thread names the holder, except right after taking the lock and right   *)
(* before giving it back.                                                   *)
ThreadIsRight ==
  \A l \in Lock :
    /\ osLock[l] = None => thread[l] = None
    /\ \A t \in Thread : osLock[l] = t =>
         thread[l] = IF At(t, l, {"own", "release"}) THEN None ELSE t

(* No thread can read its own name but from its own last write, and who has *)
(* the lock reads exactly what was written last.                            *)
SeenIsRight ==
  \A t \in Thread, l \in Lock :
    /\ t \in seen[t][l] => osLock[l] = t
    /\ osLock[l] = t => seen[t][l] = {thread[l]}

LockInv == LockTypeOK /\ HoldersHaveIt /\ WaitersDoNot /\ CountIsRight /\ ThreadIsRight /\ SeenIsRight

-----------------------------------------------------------------------------
LEMMA InitHolds == LockInit => LockInv
BY NoneAssumption DEF LockInit, LockInv, LockTypeOK, HoldersHaveIt, WaitersDoNot, CountIsRight, ThreadIsRight, SeenIsRight, At, PCs, Idle


LEMMA Keeps_call ==
  ASSUME LockInv, NEW t \in Thread, NEW l \in Lock, NEW function \in {"lock", "tryLock", "unlock"}, function = "unlock" => holds[t][l] > 0, call(t, l, function)
  PROVE  LockInv'
<1> USE NoneAssumption DEF LockInv, LockTypeOK, PCs, Idle, call
<1>1. LockTypeOK'
  BY DEF LockTypeOK
<1>2. HoldersHaveIt'
  BY DEF HoldersHaveIt, At
<1>3. WaitersDoNot'
  BY DEF WaitersDoNot, SeenIsRight, HoldersHaveIt, At
<1>4. CountIsRight'
  BY DEF CountIsRight, HoldersHaveIt, SeenIsRight, WaitersDoNot, At
<1>5. ThreadIsRight'
  BY DEF ThreadIsRight, HoldersHaveIt, At
<1>6. SeenIsRight'
  BY DEF SeenIsRight, ThreadIsRight, HoldersHaveIt, At
<1> QED BY <1>1, <1>2, <1>3, <1>4, <1>5, <1>6 DEF LockInv

LEMMA Keeps_readThread ==
  ASSUME LockInv, NEW t \in Thread, readThread(t)
  PROVE  LockInv'
<1> USE NoneAssumption DEF LockInv, LockTypeOK, PCs, Idle, readThread, goto
<1>1. LockTypeOK'
  BY DEF LockTypeOK
<1>2. HoldersHaveIt'
  BY DEF HoldersHaveIt, At, SeenIsRight
<1>3. WaitersDoNot'
  <2>1. PICK v \in seen[t][arg[t]] :
          goto(t, IF v = t THEN "count" ELSE IF pc[t] = "lock" THEN "block" ELSE "attempt")
    BY DEF readThread
  <2>2. osLock[arg[t]] = t => v = t
    <3>1. osLock[arg[t]] = t => seen[t][arg[t]] = {thread[arg[t]]}
      BY DEF SeenIsRight
    <3>2. osLock[arg[t]] = t => thread[arg[t]] = t
      BY DEF ThreadIsRight, At
    <3> QED BY <3>1, <3>2
  <2>3. pc'[t] \in {"block", "attempt"} => v # t
    BY <2>1
  <2>4. UNCHANGED <<arg, osLock>> /\ \A u \in Thread \ {t} : pc'[u] = pc[u]
    BY <2>1
  <2> QED BY <2>2, <2>3, <2>4 DEF WaitersDoNot, At
<1>4. CountIsRight'
  <2>1. /\ \A u \in Thread, l \in Lock, where \in SUBSET {"own", "unlock", "clear", "release"} :
              At(u, l, where)' <=> At(u, l, where)
        /\ \A u \in Thread, l \in Lock : At(u, l, {"own", "count", "clear", "release"}) =>
              At(u, l, {"own", "count", "clear", "release"})'
    BY DEF At
  <2> QED BY <2>1 DEF CountIsRight
<1>5. ThreadIsRight'
  BY DEF ThreadIsRight, HoldersHaveIt, At
<1>6. SeenIsRight'
  BY DEF SeenIsRight, ThreadIsRight, HoldersHaveIt, At
<1> QED BY <1>1, <1>2, <1>3, <1>4, <1>5, <1>6 DEF LockInv

LEMMA Keeps_acquire ==
  ASSUME LockInv, NEW t \in Thread, acquire(t)
  PROVE  LockInv'
<1> USE NoneAssumption DEF LockInv, LockTypeOK, PCs, Idle, acquire, goto
<1>1. LockTypeOK'
  BY DEF LockTypeOK
<1>2. HoldersHaveIt'
  BY DEF HoldersHaveIt, At
<1>3. WaitersDoNot'
  BY DEF WaitersDoNot, SeenIsRight, HoldersHaveIt, At
<1>4. CountIsRight'
  BY DEF CountIsRight, HoldersHaveIt, SeenIsRight, WaitersDoNot, At
<1>5. ThreadIsRight'
  BY DEF ThreadIsRight, HoldersHaveIt, At
<1>6. SeenIsRight'
  BY DEF SeenIsRight, ThreadIsRight, HoldersHaveIt, At
<1> QED BY <1>1, <1>2, <1>3, <1>4, <1>5, <1>6 DEF LockInv

LEMMA Keeps_failToAcquire ==
  ASSUME LockInv, NEW t \in Thread, failToAcquire(t)
  PROVE  LockInv'
<1> USE NoneAssumption DEF LockInv, LockTypeOK, PCs, Idle, failToAcquire, goto
<1>1. LockTypeOK'
  BY DEF LockTypeOK
<1>2. HoldersHaveIt'
  BY DEF HoldersHaveIt, At
<1>3. WaitersDoNot'
  BY DEF WaitersDoNot, SeenIsRight, HoldersHaveIt, At
<1>4. CountIsRight'
  BY DEF CountIsRight, HoldersHaveIt, SeenIsRight, WaitersDoNot, At
<1>5. ThreadIsRight'
  BY DEF ThreadIsRight, HoldersHaveIt, At
<1>6. SeenIsRight'
  BY DEF SeenIsRight, ThreadIsRight, HoldersHaveIt, At
<1> QED BY <1>1, <1>2, <1>3, <1>4, <1>5, <1>6 DEF LockInv

LEMMA Keeps_didAcquire ==
  ASSUME LockInv, NEW t \in Thread, didAcquire(t)
  PROVE  LockInv'
<1> USE NoneAssumption DEF LockInv, LockTypeOK, PCs, Idle, didAcquire, goto, writeThread
<1>1. LockTypeOK'
  BY DEF LockTypeOK
<1>2. HoldersHaveIt'
  BY DEF HoldersHaveIt, At
<1>3. WaitersDoNot'
  BY DEF WaitersDoNot, SeenIsRight, HoldersHaveIt, At
<1>4. CountIsRight'
  BY DEF CountIsRight, HoldersHaveIt, SeenIsRight, WaitersDoNot, At
<1>5. ThreadIsRight'
  BY DEF ThreadIsRight, HoldersHaveIt, At
<1>6. SeenIsRight'
  BY DEF SeenIsRight, ThreadIsRight, HoldersHaveIt, At
<1> QED BY <1>1, <1>2, <1>3, <1>4, <1>5, <1>6 DEF LockInv

LEMMA Keeps_countUp ==
  ASSUME LockInv, NEW t \in Thread, countUp(t)
  PROVE  LockInv'
<1> USE NoneAssumption DEF LockInv, LockTypeOK, PCs, Idle, countUp, goto
<1>1. LockTypeOK'
  BY DEF LockTypeOK
<1>2. HoldersHaveIt'
  BY DEF HoldersHaveIt, At
<1>3. WaitersDoNot'
  BY DEF WaitersDoNot, SeenIsRight, HoldersHaveIt, At
<1>4. CountIsRight'
  BY DEF CountIsRight, HoldersHaveIt, SeenIsRight, WaitersDoNot, At
<1>5. ThreadIsRight'
  BY DEF ThreadIsRight, HoldersHaveIt, At
<1>6. SeenIsRight'
  BY DEF SeenIsRight, ThreadIsRight, HoldersHaveIt, At
<1> QED BY <1>1, <1>2, <1>3, <1>4, <1>5, <1>6 DEF LockInv

LEMMA Keeps_countDown ==
  ASSUME LockInv, NEW t \in Thread, countDown(t)
  PROVE  LockInv'
<1> USE NoneAssumption DEF LockInv, LockTypeOK, PCs, Idle, countDown, leaveAtCount, goto
<1>1. LockTypeOK'
  BY DEF LockTypeOK
<1>2. HoldersHaveIt'
  BY DEF HoldersHaveIt, At
<1>3. WaitersDoNot'
  BY DEF WaitersDoNot, SeenIsRight, HoldersHaveIt, At
<1>4. CountIsRight'
  BY DEF CountIsRight, HoldersHaveIt, SeenIsRight, WaitersDoNot, At
<1>5. ThreadIsRight'
  BY DEF ThreadIsRight, HoldersHaveIt, At
<1>6. SeenIsRight'
  BY DEF SeenIsRight, ThreadIsRight, HoldersHaveIt, At
<1> QED BY <1>1, <1>2, <1>3, <1>4, <1>5, <1>6 DEF LockInv

LEMMA Keeps_willRelease ==
  ASSUME LockInv, NEW t \in Thread, willRelease(t)
  PROVE  LockInv'
<1> USE NoneAssumption DEF LockInv, LockTypeOK, PCs, Idle, willRelease, goto, writeThread
<1>1. LockTypeOK'
  BY DEF LockTypeOK
<1>2. HoldersHaveIt'
  BY DEF HoldersHaveIt, At
<1>3. WaitersDoNot'
  BY DEF WaitersDoNot, SeenIsRight, HoldersHaveIt, At
<1>4. CountIsRight'
  BY DEF CountIsRight, HoldersHaveIt, SeenIsRight, WaitersDoNot, At
<1>5. ThreadIsRight'
  BY DEF ThreadIsRight, HoldersHaveIt, At
<1>6. SeenIsRight'
  BY DEF SeenIsRight, ThreadIsRight, HoldersHaveIt, At
<1> QED BY <1>1, <1>2, <1>3, <1>4, <1>5, <1>6 DEF LockInv

LEMMA Keeps_release ==
  ASSUME LockInv, NEW t \in Thread, release(t)
  PROVE  LockInv'
<1> USE NoneAssumption DEF LockInv, LockTypeOK, PCs, Idle, release, goto
<1>1. LockTypeOK'
  BY DEF LockTypeOK
<1>2. HoldersHaveIt'
  BY DEF HoldersHaveIt, CountIsRight, At
<1>3. WaitersDoNot'
  BY DEF WaitersDoNot, SeenIsRight, HoldersHaveIt, At
<1>4. CountIsRight'
  BY DEF CountIsRight, HoldersHaveIt, SeenIsRight, WaitersDoNot, At
<1>5. ThreadIsRight'
  BY DEF ThreadIsRight, HoldersHaveIt, At
<1>6. SeenIsRight'
  BY DEF SeenIsRight, ThreadIsRight, HoldersHaveIt, At
<1> QED BY <1>1, <1>2, <1>3, <1>4, <1>5, <1>6 DEF LockInv

LEMMA StepHolds == LockInv /\ [LockNext]_lockVars => LockInv'
<1>1. ASSUME LockInv, LockNext PROVE LockInv'
  <2>1. PICK t \in Thread : \/ LockStep(t)
                           \/ \E l \in Lock : callLock(t, l) \/ callTryLock(t, l) \/ callUnlock(t, l)
    BY <1>1 DEF LockNext
  <2>2. CASE LockStep(t)
    BY <1>1, <2>2, Keeps_readThread, Keeps_acquire, Keeps_failToAcquire, Keeps_didAcquire,
       Keeps_countUp, Keeps_countDown, Keeps_willRelease, Keeps_release DEF LockStep
  <2>3. ASSUME NEW l \in Lock, callLock(t, l) \/ callTryLock(t, l) \/ callUnlock(t, l)
        PROVE  LockInv'
    BY <1>1, <2>3, Keeps_call DEF callLock, callTryLock, callUnlock
  <2> QED BY <2>1, <2>2, <2>3
<1>2. LockInv /\ UNCHANGED lockVars => LockInv'
  BY DEF LockInv, LockTypeOK, HoldersHaveIt, WaitersDoNot, CountIsRight, ThreadIsRight, SeenIsRight, At, lockVars
<1> QED BY <1>1, <1>2

(* The locks of a task are locks.                                           *)
TasksAreTyped ==
  /\ task \in [Thread -> Tasks \cup {NoTask}]
  /\ locks \in [Thread -> Seq(Lock)]
  /\ arg \in [Thread -> Lock]

(* What a task does to the locks any program may do.                        *)
LEMMA TaskStep ==
  TasksAreTyped /\ [Next]_vars => TasksAreTyped' /\ [LockNext]_lockVars
<1> SUFFICES ASSUME TasksAreTyped, [Next]_vars
             PROVE  TasksAreTyped' /\ [LockNext]_lockVars
  OBVIOUS
<1> USE TaskAssumption DEF TasksAreTyped
<1>1. ASSUME NEW t \in Thread, LockStep(t), UNCHANGED taskVars
      PROVE  TasksAreTyped' /\ LockNext
  <2>1. UNCHANGED arg
    BY <1>1 DEF LockStep, readThread, acquire, failToAcquire, didAcquire, countUp, countDown,
       leaveAtCount, willRelease, release, goto
  <2> QED BY <1>1, <2>1 DEF taskVars, LockNext
<1>2. ASSUME NEW t \in Thread, addLock(t)
      PROVE  TasksAreTyped' /\ LockNext
  <2>1. Len(locks[t]) \in Nat
    BY LenProperties
  <2>2. task[t] # NoTask /\ task[t].path[Len(locks[t]) + 1] \in Lock
    <3>1. Len(locks[t]) < Len(task[t].path)
      BY <1>2 DEF addLock
    <3>2. task[t] # NoTask
      BY <3>1, <2>1 DEF NoTask
    <3>3. task[t] \in Tasks
      BY <3>2
    <3>4. task[t].path \in Seq(Lock)
      BY <3>3
    <3> QED BY <3>1, <3>2, <3>4, <2>1, LenProperties, ElementOfSeq
  <2>3. PICK l \in Lock : callLock(t, l) \/ callTryLock(t, l)
    BY <1>2, <2>2 DEF addLock
  <2>4. arg' = [arg EXCEPT ![t] = l]
    BY <2>3 DEF callLock, callTryLock, call
  <2>5. UNCHANGED <<task, locks>>
    BY <1>2 DEF addLock
  <2> QED BY <2>3, <2>4, <2>5 DEF LockNext
<1>3. ASSUME NEW t \in Thread, lockWasAdded(t)
      PROVE  TasksAreTyped' /\ UNCHANGED lockVars
  <2>1. Append(locks[t], arg[t]) \in Seq(Lock)
    BY AppendProperties
  <2> QED BY <1>3, <2>1 DEF lockWasAdded, lockVars
<1>4. ASSUME NEW t \in Thread, ASUnlockSet(t)
      PROVE  TasksAreTyped' /\ LockNext
  <2>1. locks[t] \in Seq(Lock) /\ locks[t] # <<>>
    BY <1>4 DEF ASUnlockSet
  <2>2. PICK l, rest : /\ callUnlock(t, l) /\ locks' = [locks EXCEPT ![t] = rest]
                       /\ l \in Lock /\ rest \in Seq(Lock)
    <3>1. Head(locks[t]) \in Lock /\ Tail(locks[t]) \in Seq(Lock)
      BY <2>1, HeadTailProperties
    <3>2. locks[t][Len(locks[t])] \in Lock /\ SubSeq(locks[t], 1, Len(locks[t]) - 1) \in Seq(Lock)
      BY <2>1, EmptySeq, LenProperties, ElementOfSeq, SubSeqProperties
    <3>3. CASE /\ callUnlock(t, Head(locks[t]))
               /\ locks' = [locks EXCEPT ![t] = Tail(@)]
      BY <3>1, <3>3
    <3>4. CASE /\ callUnlock(t, locks[t][Len(locks[t])])
               /\ locks' = [locks EXCEPT ![t] = SubSeq(@, 1, Len(@) - 1)]
      BY <3>2, <3>4
    <3> QED BY <1>4, <3>3, <3>4 DEF ASUnlockSet
  <2>3. arg' = [arg EXCEPT ![t] = l]
    BY <2>2 DEF callUnlock, call
  <2>4. UNCHANGED task
    BY <1>4 DEF ASUnlockSet
  <2> QED BY <2>2, <2>3, <2>4 DEF LockNext
<1>5. ASSUME NEW t \in Thread,
             lockWasNotAdded(t) \/ leave(t) \/ retry(t) \/ finish(t) \/ start(t)
      PROVE  TasksAreTyped' /\ UNCHANGED lockVars
  BY <1>5 DEF lockWasNotAdded, leave, retry, finish, start, lockVars
<1>6. UNCHANGED vars => TasksAreTyped' /\ UNCHANGED lockVars
  BY DEF vars, lockVars, taskVars
<1> QED BY <1>1, <1>2, <1>3, <1>4, <1>5, <1>6 DEF Next, Step

LEMMA TasksStartTyped == Init => TasksAreTyped
BY DEF Init, LockInit, TasksAreTyped

LEMMA TasksUseLocks == Spec => LockSpec
<1>1. Init => LockInit
  BY DEF Init
<1> QED BY <1>1, TasksStartTyped, TaskStep, PTL DEF Spec, LockSpec

-----------------------------------------------------------------------------
LEMMA LocksAreRight == LockSpec => []LockInv
BY InitHolds, StepHolds, PTL DEF LockSpec

(* The state of the locks keeps its type, for any program.                  *)
THEOREM LockTypeCorrect == LockSpec => []LockTypeOK
BY LocksAreRight, PTL DEF LockInv

(* No assertion of the lock fails in any program that unlocks what it has   *)
(* locked: the relaxed accesses to _thread are enough.                      *)
THEOREM RelaxedIsEnough == LockSpec => []AssertionsHold
<1>1. LockInv => AssertionsHold
  <2> SUFFICES ASSUME LockInv, NEW t \in Thread
               PROVE  /\ pc[t] \in {"lock", "tryLock"} /\ t \in seen[t][arg[t]] =>
                           seen[t][arg[t]] = {t} /\ osLock[arg[t]] = t /\ count[arg[t]] > 0
                      /\ pc[t] = "own" => seen[t][arg[t]] = {None} /\ count[arg[t]] = 0
                      /\ pc[t] = "unlock" => seen[t][arg[t]] = {t}
                      /\ pc[t] = "clear" => seen[t][arg[t]] = {t} /\ count[arg[t]] = 0
    BY DEF AssertionsHold
  <2> PICK l \in Lock : arg[t] = l
    BY DEF LockInv, LockTypeOK
  <2>1. osLock[l] = t => /\ seen[t][l] = {thread[l]} /\ count[l] = holds[t][l]
                         /\ thread[l] = IF pc[t] \in {"own", "release"} THEN None ELSE t
    BY DEF LockInv, SeenIsRight, CountIsRight, ThreadIsRight, At
  <2>2. ASSUME pc[t] \in {"lock", "tryLock"}, t \in seen[t][l]
        PROVE  seen[t][l] = {t} /\ osLock[l] = t /\ count[l] > 0
    <3>1. osLock[l] = t
      BY <2>2 DEF LockInv, SeenIsRight
    <3>2. holds[t][l] \in Int /\ holds[t][l] >= 0 /\ holds[t][l] # 0
      BY <2>2, <3>1 DEF LockInv, LockTypeOK, CountIsRight, At
    <3> QED BY <2>1, <2>2, <3>1, <3>2
  <2>3. pc[t] \in {"own", "unlock", "clear"} => osLock[l] = t
    BY DEF LockInv, HoldersHaveIt, At
  <2>4. pc[t] \in {"own", "clear"} => holds[t][l] = 0
    BY DEF LockInv, CountIsRight, At
  <2> QED BY <2>1, <2>2, <2>3, <2>4
<1> QED BY <1>1, LocksAreRight, PTL

(* So it is for the tasks of ASLocking.                                     *)
THEOREM TasksKeepAssertions == Spec => []AssertionsHold
BY RelaxedIsEnough, TasksUseLocks, PTL

(* No two threads have a lock.                                              *)
THEOREM MutualExclusion ==
  LockSpec => [](\A t, u \in Thread, l \in Lock : holds[t][l] > 0 /\ holds[u][l] > 0 => t = u)
<1>1. LockInv => \A t, u \in Thread, l \in Lock : holds[t][l] > 0 /\ holds[u][l] > 0 => t = u
  BY DEF LockInv, HoldersHaveIt
<1> QED BY <1>1, LocksAreRight, PTL

(* The os_unfair_lock with its two words is a recursive lock: each call     *)
(* takes effect at once, between its beginning and its end.                 *)
THEOREM Implementation == Spec => IsRecursiveLock
<1>1. LockInit => RL!Init
  BY DEF LockInit, RL!Init
<1>2. LockInv /\ [LockNext]_lockVars => [RL!Next]_holds
  <2> SUFFICES ASSUME LockInv, LockNext
               PROVE  RL!Next \/ UNCHANGED holds
    BY DEF lockVars
  <2>1. PICK t \in Thread : \/ LockStep(t)
                           \/ \E l \in Lock : callLock(t, l) \/ callTryLock(t, l) \/ callUnlock(t, l)
    BY DEF LockNext
  <2>2. CASE countUp(t)
    <3>1. \A u \in Thread \ {t} : holds[u][arg[t]] = 0
      BY <2>2 DEF countUp, LockInv, LockTypeOK, HoldersHaveIt, CountIsRight, At
    <3>2. arg[t] \in Lock /\ holds' = [holds EXCEPT ![t][arg[t]] = @ + 1]
      BY <2>2 DEF countUp, LockInv, LockTypeOK
    <3> QED BY <3>1, <3>2 DEF RL!Next, RL!Take
  <2>3. CASE countDown(t)
    BY <2>3 DEF countDown, leaveAtCount, LockInv, LockTypeOK, CountIsRight, At, RL!Next, RL!Undo
  <2>4. CASE \/ readThread(t) \/ acquire(t) \/ failToAcquire(t) \/ didAcquire(t)
             \/ willRelease(t) \/ release(t)
    BY <2>4 DEF readThread, acquire, failToAcquire, didAcquire, willRelease, release
  <2>5. CASE \E l \in Lock : callLock(t, l) \/ callTryLock(t, l) \/ callUnlock(t, l)
    BY <2>5 DEF callLock, callTryLock, callUnlock, call
  <2> QED BY <2>1, <2>2, <2>3, <2>4, <2>5 DEF LockStep
<1> QED BY <1>1, <1>2, LocksAreRight, TasksUseLocks, PTL DEF LockSpec, IsRecursiveLock, RL!Spec
=============================================================================
