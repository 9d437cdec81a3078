-------------------- MODULE ASAsyncTransactionQueueProofs --------------------
(***************************************************************************)
(* Proofs about ASAsyncTransactionQueue for any number of operations,       *)
(* groups, queues, priorities and threads.                                  *)
(***************************************************************************)
EXTENDS ASAsyncTransactionQueue, FiniteSetTheorems, TLAPS

(* Tickets order the operations that were scheduled. *)
Tickets ==
  /\ \A o \in Op : ticket[o] < nextTicket
  /\ \A a, b \in Op : status[a] # "idle" /\ status[b] # "idle" /\ ticket[a] = ticket[b] => a = b

(* Both lists of an entry hold the queued operations of its dispatch queue. *)
Queues ==
  \A q \in Queue :
    /\ \A o \in Op : o \in queued[q] <=> status[o] = "queued" /\ call[o].queue = q
    /\ \A p \in Priority : \A o \in Op : o \in bucket[q][p] <=> o \in queued[q] /\ call[o].priority = p
    /\ \A p \in Priority : p \in mapKeys[q] <=> bucket[q][p] # {}

(* A busy worker is alone with its operation. *)
Workers ==
  /\ \A w \in Op : worker[w].pc # "unborn" => status[w] # "idle"
  /\ \A w \in Op : worker[w].pc = "busy" =>
       worker[w].holds \in Op /\ status[worker[w].holds] \in {"running", "executed"}
  /\ \A v, w \in Op :
       worker[v].pc = "busy" /\ worker[w].pc = "busy" /\ worker[v].holds = worker[w].holds => v = w

(* The two counters of the code count what they are meant to. *)
ThreadCounts == \A q \in Queue : threadCount[q] = Cardinality(AliveOn(q))
PendingCounts == \A g \in Group : pending[g] = Cardinality(OutstandingIn(g)) + manual[g]

(* An entry exists as long as it has threads, and it has a thread as long   *)
(* as it has operations.                                                    *)
Entries ==
  \A q \in Queue :
    /\ q \in entries <=> threadCount[q] > 0
    /\ queued[q] # {} => threadCount[q] > 0

OneFifo ==
  \A v, w \in Op :
    /\ Alive(v) /\ Alive(w) /\ call[v].queue = call[w].queue
    /\ ~worker[v].respectPriority /\ ~worker[w].respectPriority
    => v = w

(* What the life of a group says about its pending operations, its notify   *)
(* block and its waiter.                                                    *)
Groups ==
  /\ \A g \in Group :
       /\ life[g] \in {"absent", "deleted"} => pending[g] = 0
       /\ notify[g] = "listed" => pending[g] > 0
       /\ notify[g] = "dispatched" => OutstandingIn(g) = {}
       /\ waiter.group = g => life[g] = "live"
  /\ waiter.signalled => waiter.group \in Group
  /\ NoLostWakeup

IInv ==
  /\ TypeOK /\ Tickets /\ Queues /\ Workers /\ ThreadCounts /\ PendingCounts
  /\ Entries /\ OneFifo /\ Groups /\ SamePriorityInOrder

-----------------------------------------------------------------------------
(* Counting                                                                 *)

LEMMA Finite ==
  /\ \A q : IsFiniteSet(AliveOn(q)) /\ Cardinality(AliveOn(q)) \in Nat
  /\ \A g : IsFiniteSet(OutstandingIn(g)) /\ Cardinality(OutstandingIn(g)) \in Nat
<1>1. \A q : AliveOn(q) \in SUBSET Op
  BY DEF AliveOn
<1>2. \A g : OutstandingIn(g) \in SUBSET Op
  BY DEF OutstandingIn
<1> QED
  BY <1>1, <1>2, OpAssumption, FS_Subset, FS_CardinalityType

LEMMA FiniteNext ==
  /\ \A q : IsFiniteSet(AliveOn(q)') /\ Cardinality(AliveOn(q)') \in Nat
  /\ \A g : IsFiniteSet(OutstandingIn(g)') /\ Cardinality(OutstandingIn(g)') \in Nat
<1>1. \A q : AliveOn(q)' \in SUBSET Op
  BY DEF AliveOn
<1>2. \A g : OutstandingIn(g)' \in SUBSET Op
  BY DEF OutstandingIn
<1> QED
  BY <1>1, <1>2, OpAssumption, FS_Subset, FS_CardinalityType

-----------------------------------------------------------------------------
(* The initial states                                                       *)

LEMMA InitIInv == Init => IInv
<1> SUFFICES ASSUME Init PROVE IInv
  OBVIOUS
<1> USE DEF Init
<1>1. TypeOK
  BY MaxThreadsAssumption, MaxEnterAssumption DEF TypeOK, NotWaiting
<1>2. Tickets /\ Queues /\ Workers /\ Entries /\ OneFifo /\ SamePriorityInOrder
  BY DEF Tickets, Queues, Workers, Entries, OneFifo, Alive, SamePriorityInOrder
<1>3. \A q : AliveOn(q) = {}
  BY DEF AliveOn, Alive
<1>4. \A g : OutstandingIn(g) = {}
  BY DEF OutstandingIn, Outstanding
<1>5. Cardinality({}) = 0
  BY FS_EmptySet
<1>6. ThreadCounts
  BY <1>3, <1>5 DEF ThreadCounts
<1>7. PendingCounts
  <2>1. \A g \in Group : pending[g] = 0 /\ manual[g] = 0 /\ Cardinality(OutstandingIn(g)) = 0
    BY <1>4, <1>5
  <2>2. 0 = 0 + 0
    OBVIOUS
  <2> HIDE DEF Init
  <2> QED
    BY <2>1, <2>2 DEF PendingCounts
<1>8. Groups
  BY GroupAssumption DEF Groups, NotWaiting, NoLostWakeup
<1> QED
  BY <1>1, <1>2, <1>6, <1>7, <1>8 DEF IInv

-----------------------------------------------------------------------------
(* Steps of a client on a group leave the operations and the entries alone. *)

LEMMA GroupFrame ==
  ASSUME IInv, UNCHANGED <<opVars, entryVars>>
  PROVE  /\ Tickets' /\ Queues' /\ Workers' /\ ThreadCounts' /\ Entries' /\ OneFifo'
         /\ SamePriorityInOrder'
         /\ \A g : OutstandingIn(g)' = OutstandingIn(g)
<1> USE DEF IInv, opVars, entryVars
<1>1. Tickets' /\ SamePriorityInOrder'
  BY DEF Tickets, SamePriorityInOrder
<1>2. Queues' /\ Workers' /\ Entries'
  BY DEF Queues, Workers, Entries
<1>3. OneFifo'
  BY DEF OneFifo, Alive
<1>4. \A q : AliveOn(q)' = AliveOn(q)
  BY DEF AliveOn, Alive
<1>5. \A g : OutstandingIn(g)' = OutstandingIn(g)
  BY DEF OutstandingIn, Outstanding
<1>6. ThreadCounts'
  BY <1>4 DEF ThreadCounts
<1> QED
  BY <1>1, <1>2, <1>3, <1>5, <1>6

(* Nothing outstanding and nothing entered is nothing pending. *)
LEMMA PendingCount ==
  ASSUME IInv, NEW g \in Group
  PROVE  /\ pending[g] \in Nat /\ manual[g] \in Nat
         /\ manual[g] > 0 => pending[g] > 0
         /\ pending[g] = 0 => OutstandingIn(g) = {}
<1>1. pending[g] \in Nat /\ manual[g] \in Nat
  BY MaxEnterAssumption DEF IInv, TypeOK
<1>2. pending[g] = Cardinality(OutstandingIn(g)) + manual[g]
  BY DEF IInv, PendingCounts
<1>3. IsFiniteSet(OutstandingIn(g)) /\ Cardinality(OutstandingIn(g)) \in Nat
  BY Finite
<1>4. Cardinality(OutstandingIn(g)) = 0 => OutstandingIn(g) = {}
  BY <1>3, FS_EmptySet
<1> QED
  BY <1>1, <1>2, <1>3, <1>4

LEMMA createGroupStep == \A g \in Group : IInv /\ createGroup(g) => IInv'
<1> SUFFICES ASSUME NEW g \in Group, IInv, createGroup(g) PROVE IInv'
  OBVIOUS
<1> USE DEF createGroup, groupVars
<1>1. UNCHANGED <<opVars, entryVars>>
  OBVIOUS
<1>2. TypeOK'
  BY DEF IInv, TypeOK, opVars, entryVars
<1>3. PendingCounts'
  BY <1>1, GroupFrame DEF IInv, PendingCounts
<1>4. Groups'
  BY <1>1, GroupFrame DEF IInv, TypeOK, Groups, NoLostWakeup, MainIsFree, NotWaiting
<1> QED
  BY <1>1, <1>2, <1>3, <1>4, GroupFrame DEF IInv

LEMMA notifyGroupStep == \A g \in Group : IInv /\ notifyGroup(g) => IInv'
<1> SUFFICES ASSUME NEW g \in Group, IInv, notifyGroup(g) PROVE IInv'
  OBVIOUS
<1> USE DEF notifyGroup
<1>1. UNCHANGED <<opVars, entryVars>>
  OBVIOUS
<1>2. TypeOK'
  BY DEF IInv, TypeOK, opVars, entryVars
<1>3. PendingCounts'
  BY <1>1, GroupFrame DEF IInv, PendingCounts
<1>4. Groups'
  BY <1>1, GroupFrame, PendingCount DEF IInv, TypeOK, Groups, NoLostWakeup
<1> QED
  BY <1>1, <1>2, <1>3, <1>4, GroupFrame DEF IInv

LEMMA releaseStep == \A g \in Group : IInv /\ release(g) => IInv'
<1> SUFFICES ASSUME NEW g \in Group, IInv, release(g) PROVE IInv'
  OBVIOUS
<1> USE DEF release
<1>1. UNCHANGED <<opVars, entryVars>>
  OBVIOUS
<1>2. TypeOK'
  BY DEF IInv, TypeOK, opVars, entryVars
<1>3. PendingCounts'
  BY <1>1, GroupFrame DEF IInv, PendingCounts
<1>4. Groups'
  BY <1>1, GroupFrame DEF IInv, TypeOK, Groups, NoLostWakeup
<1> QED
  BY <1>1, <1>2, <1>3, <1>4, GroupFrame DEF IInv

LEMMA enterStep == \A g \in Group : IInv /\ enter(g) => IInv'
<1> SUFFICES ASSUME NEW g \in Group, IInv, enter(g) PROVE IInv'
  OBVIOUS
<1> USE DEF enter
<1>1. UNCHANGED <<opVars, entryVars>>
  OBVIOUS
<1>2. TypeOK'
  BY MaxEnterAssumption DEF IInv, TypeOK, opVars, entryVars
<1>3. PendingCounts'
  <2> SUFFICES ASSUME NEW h \in Group
               PROVE  pending'[h] = Cardinality(OutstandingIn(h)') + manual'[h]
    BY DEF PendingCounts
  <2>1. pending[h] = Cardinality(OutstandingIn(h)) + manual[h]
    BY DEF IInv, PendingCounts
  <2>2. OutstandingIn(h)' = OutstandingIn(h)
    BY <1>1, GroupFrame
  <2>3. Cardinality(OutstandingIn(h)) \in Nat
    BY Finite
  <2> QED
    BY <2>1, <2>2, <2>3, MaxEnterAssumption DEF IInv, TypeOK
<1>4. Groups'
  BY <1>1, GroupFrame, PendingCount DEF IInv, TypeOK, Groups, NoLostWakeup
<1> QED
  BY <1>1, <1>2, <1>3, <1>4, GroupFrame DEF IInv

LEMMA waitStep == \A g \in Group : IInv /\ wait(g) => IInv'
<1> SUFFICES ASSUME NEW g \in Group, IInv, wait(g) PROVE IInv'
  OBVIOUS
<1> USE DEF wait, groupVars
<1>1. UNCHANGED <<opVars, entryVars>>
  OBVIOUS
<1>2. TypeOK'
  BY DEF IInv, TypeOK, opVars, entryVars
<1>3. PendingCounts'
  BY <1>1, GroupFrame DEF IInv, PendingCounts
<1>4. Groups'
  BY <1>1, GroupFrame DEF IInv, TypeOK, Groups, NoLostWakeup
<1> QED
  BY <1>1, <1>2, <1>3, <1>4, GroupFrame DEF IInv

LEMMA wakeUpStep == IInv /\ wakeUp => IInv'
<1> SUFFICES ASSUME IInv, wakeUp PROVE IInv'
  OBVIOUS
<1> USE DEF wakeUp, groupVars
<1>1. UNCHANGED <<opVars, entryVars>>
  OBVIOUS
<1>2. TypeOK'
  BY DEF IInv, TypeOK, opVars, entryVars, NotWaiting
<1>3. PendingCounts'
  BY <1>1, GroupFrame DEF IInv, PendingCounts
<1>4. Groups'
  BY <1>1, GroupFrame, GroupAssumption DEF IInv, TypeOK, Groups, NoLostWakeup, NotWaiting
<1> QED
  BY <1>1, <1>2, <1>3, <1>4, GroupFrame DEF IInv

(* Leaving a group with something pending, whoever leaves. *)
LEMMA leaveGroups ==
  ASSUME IInv, NEW g \in Group, pending[g] > 0, leave(g),
         \A h \in Group : OutstandingIn(h)' \subseteq OutstandingIn(h),
         pending[g] = 1 => OutstandingIn(g)' = {}
  PROVE  Groups'
<1> USE DEF leave, IInv, TypeOK, Groups
<1>1. \A h \in Group : pending'[h] = IF h = g THEN pending[h] - 1 ELSE pending[h]
  OBVIOUS
<1>2. CASE pending[g] = 1
  <2>1. \A h \in Group : h # g => /\ life'[h] = life[h] /\ notify'[h] = notify[h]
                                  /\ waiter'.group = waiter.group
    BY <1>2
  <2>2. NoLostWakeup' /\ (waiter'.signalled => waiter'.group \in Group)
    <3>1. CASE waiter.group = g
      <4>1. waiter'.group = g /\ waiter'.signalled
        BY <1>2, <3>1
      <4> QED
        BY <4>1 DEF NoLostWakeup
    <3>2. CASE waiter.group # g
      <4>1. waiter' = waiter
        BY <1>2, <3>2
      <4> QED
        BY <1>1, <4>1, <3>2 DEF NoLostWakeup
    <3> QED
      BY <3>1, <3>2
  <2> QED
    BY <1>1, <1>2, <2>1, <2>2
<1>3. CASE pending[g] # 1
  <2>1. pending[g] - 1 > 0
    BY <1>3
  <2> QED
    BY <1>1, <1>3, <2>1 DEF NoLostWakeup
<1> QED
  BY <1>2, <1>3

LEMMA leaveTypes ==
  ASSUME TypeOK, NEW g \in Group, pending[g] > 0, leave(g)
  PROVE  /\ life' \in [Group -> {"absent", "live", "released", "deleted"}]
         /\ pending' \in [Group -> Nat]
         /\ notify' \in [Group -> {"none", "listed", "dispatched"}]
         /\ waiter' \in [group : Group \cup {NoGroup}, signalled : BOOLEAN]
<1> USE DEF leave, TypeOK
<1>1. pending' \in [Group -> Nat]
  OBVIOUS
<1>2. CASE pending[g] = 1
  BY <1>1, <1>2
<1>3. CASE pending[g] # 1
  BY <1>1, <1>3
<1> QED
  BY <1>2, <1>3

LEMMA leaveManuallyStep == \A g \in Group : IInv /\ leaveManually(g) => IInv'
<1> SUFFICES ASSUME NEW g \in Group, IInv, leaveManually(g) PROVE IInv'
  OBVIOUS
<1> USE DEF leaveManually
<1>1. UNCHANGED <<opVars, entryVars>>
  OBVIOUS
<1>2. pending[g] > 0 /\ pending[g] \in Nat
  BY PendingCount
<1>3. TypeOK'
  BY <1>2, leaveTypes, MaxEnterAssumption DEF IInv, TypeOK, opVars, entryVars
<1>4. PendingCounts'
  <2> SUFFICES ASSUME NEW h \in Group
               PROVE  pending'[h] = Cardinality(OutstandingIn(h)') + manual'[h]
    BY DEF PendingCounts
  <2>1. pending[h] = Cardinality(OutstandingIn(h)) + manual[h]
    BY DEF IInv, PendingCounts
  <2>2. OutstandingIn(h)' = OutstandingIn(h)
    BY <1>1, GroupFrame
  <2>3. Cardinality(OutstandingIn(h)) \in Nat
    BY Finite
  <2> QED
    BY <2>1, <2>2, <2>3, MaxEnterAssumption DEF IInv, TypeOK, leave
<1>5. pending[g] = 1 => OutstandingIn(g) = {}
  <2>1. pending[g] = Cardinality(OutstandingIn(g)) + manual[g]
    BY DEF IInv, PendingCounts
  <2>2. IsFiniteSet(OutstandingIn(g)) /\ Cardinality(OutstandingIn(g)) \in Nat /\ manual[g] \in Nat
    BY Finite, PendingCount
  <2>3. pending[g] = 1 => Cardinality(OutstandingIn(g)) = 0
    BY <2>1, <2>2
  <2> QED
    BY <2>2, <2>3, FS_EmptySet
<1>6. Groups'
  BY <1>1, <1>2, <1>5, GroupFrame, leaveGroups
<1> QED
  BY <1>1, <1>3, <1>4, <1>6, GroupFrame DEF IInv

-----------------------------------------------------------------------------
(* Scheduling an operation                                                  *)

LEMMA scheduleStep == \A o \in Op : IInv /\ schedule(o) => IInv'
<1> SUFFICES ASSUME NEW o \in Op, IInv, schedule(o) PROVE IInv'
  OBVIOUS
<1> DEFINE g == call[o].group
           q == call[o].queue
           p == call[o].priority
<1>1. g \in Group /\ q \in Queue /\ p \in Priority
  BY DEF IInv, TypeOK
<1>2. /\ status[o] = "idle" /\ life[g] = "live" /\ notify[g] = "none" /\ waiter = NotWaiting
      /\ status' = [status EXCEPT ![o] = "queued"]
      /\ ticket' = [ticket EXCEPT ![o] = nextTicket] /\ nextTicket' = nextTicket + 1
      /\ pending' = [pending EXCEPT ![g] = @ + 1]
      /\ UNCHANGED <<call, life, manual, notify, waiter>>
  BY DEF schedule, MainIsFree
<1>3. /\ entries' = entries \cup {q}
      /\ queued' = [queued EXCEPT ![q] = @ \cup {o}]
      /\ mapKeys' = [mapKeys EXCEPT ![q] = @ \cup {p}]
      /\ bucket' = [bucket EXCEPT ![q][p] = @ \cup {o}]
  BY DEF schedule, pushOperation
<1>4. PICK tracking \in {0, 1} :
        IF threadCount[q] < MaxThreads - tracking
        THEN /\ threadCount' = [threadCount EXCEPT ![q] = @ + 1]
             /\ worker' = [worker EXCEPT ![o] =
                  [pc |-> "top", holds |-> NoOp, respectPriority |-> threadCount[q] > 0]]
        ELSE UNCHANGED <<threadCount, worker>>
  BY DEF schedule, spawn
<1>5. worker[o].pc = "unborn"
  BY <1>2 DEF IInv, Workers
<1>spawned. /\ \A w \in Op : w # o => worker'[w] = worker[w]
            /\ worker'[o].pc \in {"unborn", "top"}
            /\ worker'[o].pc = "top" => worker'[o].respectPriority = (threadCount[q] > 0)
  <2>1. CASE threadCount[q] < MaxThreads - tracking
    BY <1>4, <2>1 DEF IInv, TypeOK
  <2>2. CASE ~(threadCount[q] < MaxThreads - tracking)
    BY <1>4, <1>5, <2>2 DEF IInv, TypeOK
  <2> QED
    BY <2>1, <2>2
<1>6. TypeOK'
  <2>1. /\ status' \in [Op -> {"idle", "queued", "running", "executed", "left"}]
        /\ ticket' \in [Op -> Nat] /\ nextTicket' \in Nat /\ pending' \in [Group -> Nat]
    BY <1>2 DEF IInv, TypeOK
  <2>2. /\ entries' \subseteq Queue /\ queued' \in [Queue -> SUBSET Op]
        /\ mapKeys' \in [Queue -> SUBSET Priority]
        /\ bucket' \in [Queue -> [Priority -> SUBSET Op]]
    BY <1>1, <1>3 DEF IInv, TypeOK
  <2>3. /\ threadCount' \in [Queue -> 0 .. MaxThreads]
        /\ worker' \in [Op -> [pc : {"unborn", "top", "busy", "exited"},
                               holds : Op \cup {NoOp}, respectPriority : BOOLEAN]]
    <3>1. threadCount[q] \in 0 .. MaxThreads
      BY <1>1 DEF IInv, TypeOK
    <3>2. CASE threadCount[q] < MaxThreads - tracking
      <4>1. threadCount[q] + 1 \in 0 .. MaxThreads
        BY <3>1, <3>2, MaxThreadsAssumption
      <4>2. threadCount' \in [Queue -> 0 .. MaxThreads]
        BY <1>4, <3>2, <4>1 DEF IInv, TypeOK
      <4>3. \A b \in BOOLEAN : worker' = [worker EXCEPT ![o] = [pc |-> "top", holds |-> NoOp, respectPriority |-> b]]
              => worker' \in [Op -> [pc : {"unborn", "top", "busy", "exited"},
                                     holds : Op \cup {NoOp}, respectPriority : BOOLEAN]]
        BY DEF IInv, TypeOK
      <4>4. worker' \in [Op -> [pc : {"unborn", "top", "busy", "exited"},
                                holds : Op \cup {NoOp}, respectPriority : BOOLEAN]]
        <5>1. worker' = [worker EXCEPT ![o] =
                [pc |-> "top", holds |-> NoOp, respectPriority |-> threadCount[q] > 0]]
          BY <1>4, <3>2
        <5>2. (threadCount[q] > 0) \in BOOLEAN
          OBVIOUS
        <5> HIDE DEF q
        <5> QED
          BY <4>3, <5>1, <5>2, Zenon
      <4> QED
        BY <4>2, <4>4
    <3>3. CASE ~(threadCount[q] < MaxThreads - tracking)
      BY <1>4, <3>3 DEF IInv, TypeOK
    <3> QED
      BY <3>2, <3>3
  <2> QED
    BY <1>2, <2>1, <2>2, <2>3 DEF IInv, TypeOK
<1>7. Tickets' /\ SamePriorityInOrder'
  BY <1>2 DEF IInv, TypeOK, Tickets, SamePriorityInOrder
<1>8. Queues'
  BY <1>1, <1>2, <1>3 DEF IInv, TypeOK, Queues
<1>9. Workers'
  <2>1. \A x \in Op : status'[x] = IF x = o THEN "queued" ELSE status[x]
    BY <1>2 DEF IInv, TypeOK
  <2>2. \A w \in Op : worker'[w].pc = "busy" => w # o /\ worker'[w] = worker[w]
    BY <1>spawned
  <2> QED
    BY <1>2, <1>spawned, <2>1, <2>2 DEF IInv, Workers
<1>10. threadCount[q] = 0 => threadCount'[q] = 1
  BY <1>1, <1>4, MaxThreadsAssumption DEF IInv, TypeOK
<1>11. ThreadCounts'
  <2> SUFFICES ASSUME NEW r \in Queue
               PROVE  threadCount'[r] = Cardinality(AliveOn(r)')
    BY DEF ThreadCounts
  <2>1. threadCount[r] = Cardinality(AliveOn(r))
    BY DEF IInv, ThreadCounts
  <2>2. CASE r = q /\ threadCount[q] < MaxThreads - tracking
    <3>1. AliveOn(r)' = AliveOn(r) \cup {o}
      BY <1>2, <1>4, <2>2 DEF AliveOn, Alive, IInv, TypeOK
    <3>2. o \notin AliveOn(r)
      BY <1>5 DEF AliveOn, Alive
    <3>3. Cardinality(AliveOn(r)') = Cardinality(AliveOn(r)) + 1
      BY <3>1, <3>2, Finite, FS_AddElement
    <3> QED
      BY <1>1, <1>4, <2>1, <2>2, <3>3 DEF IInv, TypeOK
  <2>3. CASE ~(r = q /\ threadCount[q] < MaxThreads - tracking)
    <3>1. AliveOn(r)' = AliveOn(r)
      BY <1>2, <1>4, <1>5, <2>3 DEF AliveOn, Alive, IInv, TypeOK
    <3>2. threadCount'[r] = threadCount[r]
      BY <1>1, <1>4, <2>3 DEF IInv, TypeOK
    <3> QED
      BY <2>1, <3>1, <3>2
  <2> QED
    BY <2>2, <2>3
<1>12. \A h \in Group : OutstandingIn(h)' = IF h = g THEN OutstandingIn(h) \cup {o}
                                                     ELSE OutstandingIn(h)
  BY <1>2 DEF OutstandingIn, Outstanding, IInv, TypeOK
<1>13. PendingCounts'
  <2> SUFFICES ASSUME NEW h \in Group
               PROVE  pending'[h] = Cardinality(OutstandingIn(h)') + manual'[h]
    BY DEF PendingCounts
  <2>1. pending[h] = Cardinality(OutstandingIn(h)) + manual[h] /\ manual[h] \in Nat
    BY PendingCount DEF IInv, PendingCounts
  <2>2. IsFiniteSet(OutstandingIn(h)) /\ Cardinality(OutstandingIn(h)) \in Nat
    BY Finite
  <2>3. CASE h = g
    <3>1. o \notin OutstandingIn(h)
      BY <1>2 DEF OutstandingIn, Outstanding
    <3>2. Cardinality(OutstandingIn(h)') = Cardinality(OutstandingIn(h)) + 1
      BY <1>12, <2>2, <2>3, <3>1, FS_AddElement
    <3>3. pending'[h] = pending[h] + 1 /\ manual'[h] = manual[h]
      BY <1>2, <2>3 DEF IInv, TypeOK
    <3> QED
      BY <2>1, <2>2, <3>2, <3>3
  <2>4. CASE h # g
    <3>1. pending'[h] = pending[h] /\ manual'[h] = manual[h]
      BY <1>2, <2>4 DEF IInv, TypeOK
    <3> QED
      BY <1>12, <2>1, <2>4, <3>1
  <2> QED
    BY <2>3, <2>4
<1>14. Entries'
  <2> SUFFICES ASSUME NEW r \in Queue
               PROVE  /\ r \in entries' <=> threadCount'[r] > 0
                      /\ queued'[r] # {} => threadCount'[r] > 0
    BY DEF Entries
  <2>1. r \in entries <=> threadCount[r] > 0
    BY DEF IInv, Entries
  <2>2. queued[r] # {} => threadCount[r] > 0
    BY DEF IInv, Entries
  <2>3. CASE r = q
    <3>1. threadCount'[r] > 0
      BY <1>1, <1>4, <1>10, <2>3 DEF IInv, TypeOK
    <3> QED
      BY <1>3, <2>3, <3>1
  <2>4. CASE r # q
    BY <1>3, <1>4, <2>1, <2>2, <2>4 DEF IInv, TypeOK
  <2> QED
    BY <2>3, <2>4
<1>15. OneFifo'
  <2>1. threadCount[q] = 0 => \A w \in Op : ~(Alive(w) /\ call[w].queue = q)
    <3>1. threadCount[q] = Cardinality(AliveOn(q))
      BY <1>1 DEF IInv, ThreadCounts
    <3>2. threadCount[q] = 0 => AliveOn(q) = {}
      BY <3>1, Finite, FS_EmptySet
    <3> QED
      BY <3>2 DEF AliveOn
  <2>2. threadCount[q] \in Nat
    BY <1>1 DEF IInv, TypeOK
  <2>3. \A w \in Op : /\ call'[w] = call[w]
                      /\ w # o => Alive(w)' = Alive(w) /\ worker'[w] = worker[w]
    BY <1>2, <1>spawned DEF Alive
  <2>4. Alive(o)' /\ ~worker'[o].respectPriority => threadCount[q] = 0
    <3>1. Alive(o)' => worker'[o].pc = "top"
      BY <1>spawned DEF Alive
    <3>2. Alive(o)' /\ ~worker'[o].respectPriority => ~(threadCount[q] > 0)
      BY <1>spawned, <3>1, Zenon
    <3> QED
      BY <2>2, <3>2
  <2> QED
    BY <2>1, <2>3, <2>4 DEF OneFifo, IInv
<1>16. Groups'
  <2>1. NoLostWakeup'
    BY <1>2 DEF NoLostWakeup, NotWaiting
  <2>2. \A h \in Group : h # g => pending'[h] = pending[h]
    BY <1>2 DEF IInv, TypeOK
  <2>3. pending'[g] > 0 
    BY <1>1, <1>2 DEF IInv, TypeOK
  <2> QED
    BY <1>1, <1>2, <1>12, <2>1, <2>2, <2>3, GroupAssumption DEF IInv, Groups, NotWaiting
<1> QED
  BY <1>6, <1>7, <1>8, <1>9, <1>11, <1>13, <1>14, <1>15, <1>16 DEF IInv

-----------------------------------------------------------------------------
(* Steps of a worker                                                        *)

LEMMA takeStep == \A w \in Op : IInv /\ take(w) => IInv'
<1> SUFFICES ASSUME NEW w \in Op, IInv, take(w) PROVE IInv'
  OBVIOUS
<1> DEFINE q == call[w].queue
<1>1. q \in Queue /\ worker[w].pc = "top"
  BY DEF IInv, TypeOK, take
<1>2. PICK o \in Op :
        /\ o \in queued[q]
        /\ popNextOperation(o, q, worker[w].respectPriority)
        /\ status' = [status EXCEPT ![o] = "running"]
        /\ worker' = [worker EXCEPT ![w].pc = "busy", ![w].holds = o]
  BY DEF take
<1> DEFINE p == call[o].priority
<1>3. UNCHANGED <<call, ticket, nextTicket, entries, threadCount, groupVars, waiter>>
  BY DEF take
<1>4. status[o] = "queued" /\ call[o].queue = q /\ p \in Priority
  BY <1>1, <1>2 DEF IInv, Queues, TypeOK
<1>5. /\ queued' = [queued EXCEPT ![q] = @ \ {o}]
      /\ bucket' = [bucket EXCEPT ![q][p] = @ \ {o}]
      /\ mapKeys' = [mapKeys EXCEPT ![q] = IF bucket[q][p] = {o} THEN @ \ {p} ELSE @]
  BY <1>2 DEF popNextOperation
<1>6. \A x \in Op : status'[x] = IF x = o THEN "running" ELSE status[x]
  BY <1>2 DEF IInv, TypeOK
<1>7. /\ \A v \in Op : v # w => worker'[v] = worker[v]
      /\ worker'[w].pc = "busy" /\ worker'[w].holds = o
      /\ worker'[w].respectPriority = worker[w].respectPriority
  BY <1>2 DEF IInv, TypeOK
<1>8. TypeOK'
  <2>1. /\ queued' \in [Queue -> SUBSET Op] /\ mapKeys' \in [Queue -> SUBSET Priority]
        /\ bucket' \in [Queue -> [Priority -> SUBSET Op]]
    BY <1>1, <1>4, <1>5 DEF IInv, TypeOK
  <2>2. status' \in [Op -> {"idle", "queued", "running", "executed", "left"}]
    BY <1>2 DEF IInv, TypeOK
  <2>3. worker' \in [Op -> [pc : {"unborn", "top", "busy", "exited"},
                            holds : Op \cup {NoOp}, respectPriority : BOOLEAN]]
    BY <1>2 DEF IInv, TypeOK
  <2> QED
    BY <1>3, <2>1, <2>2, <2>3 DEF IInv, TypeOK, groupVars
<1>9. Tickets'
  BY <1>3, <1>4, <1>6 DEF IInv, Tickets
<1>10. Queues'
  BY <1>1, <1>3, <1>4, <1>5, <1>6 DEF IInv, TypeOK, Queues
<1>11. Workers'
  BY <1>1, <1>4, <1>6, <1>7 DEF IInv, Workers
<1>12. \A v \in Op : Alive(v)' = Alive(v) /\ worker'[v].respectPriority = worker[v].respectPriority
  BY <1>1, <1>7 DEF Alive
<1>13. ThreadCounts'
  <2>1. \A r : AliveOn(r)' = AliveOn(r)
    BY <1>3, <1>12 DEF AliveOn
  <2> QED
    BY <1>3, <2>1 DEF IInv, ThreadCounts
<1>14. OneFifo'
  BY <1>3, <1>12 DEF IInv, OneFifo
<1>15. \A g : OutstandingIn(g)' = OutstandingIn(g)
  BY <1>3, <1>4, <1>6 DEF OutstandingIn, Outstanding
<1>16. PendingCounts' /\ Groups'
  BY <1>3, <1>15 DEF IInv, PendingCounts, Groups, groupVars, NoLostWakeup
<1>17. Entries'
  BY <1>1, <1>3, <1>5 DEF IInv, TypeOK, Entries
<1>18. \A a \in Op : /\ status[a] = "queued" /\ call[a].queue = q /\ call[a].priority = p /\ a # o
                     => ticket[o] < ticket[a]
  <2> SUFFICES ASSUME NEW a \in Op, status[a] = "queued", call[a].queue = q,
                      call[a].priority = p, a # o
               PROVE  ticket[o] < ticket[a]
    OBVIOUS
  <2>1. a \in queued[q] /\ a \in bucket[q][p]
    BY <1>1, <1>4 DEF IInv, Queues
  <2>2. ticket[o] <= ticket[a]
    BY <1>2, <2>1 DEF popNextOperation, IsFront
  <2>3. ticket[o] # ticket[a]
    BY <1>4 DEF IInv, Tickets
  <2>4. ticket[o] \in Nat /\ ticket[a] \in Nat
    BY DEF IInv, TypeOK
  <2> QED
    BY <2>2, <2>3, <2>4
<1>19. SamePriorityInOrder'
  BY <1>3, <1>4, <1>6, <1>18 DEF IInv, SamePriorityInOrder
<1> QED
  BY <1>8, <1>9, <1>10, <1>11, <1>13, <1>14, <1>16, <1>17, <1>19 DEF IInv

LEMMA runBlockStep == \A w \in Op : IInv /\ runBlock(w) => IInv'
<1> SUFFICES ASSUME NEW w \in Op, IInv, runBlock(w) PROVE IInv'
  OBVIOUS
<1> DEFINE o == worker[w].holds
<1>1. /\ worker[w].pc = "busy" /\ status[o] = "running"
      /\ status' = [status EXCEPT ![o] = "executed"]
      /\ UNCHANGED <<call, ticket, nextTicket, entryVars, groupVars, waiter>>
  BY DEF runBlock
<1>2. o \in Op
  BY <1>1 DEF IInv, Workers
<1>3. \A x \in Op : status'[x] = IF x = o THEN "executed" ELSE status[x]
  BY <1>1, <1>2 DEF IInv, TypeOK
<1>4. TypeOK'
  BY <1>1, <1>2 DEF IInv, TypeOK, entryVars, groupVars
<1>5. Tickets' /\ SamePriorityInOrder'
  BY <1>1, <1>2, <1>3 DEF IInv, Tickets, SamePriorityInOrder
<1>6. Queues' /\ Workers' /\ Entries'
  BY <1>1, <1>2, <1>3 DEF IInv, Queues, Workers, Entries, entryVars
<1>7. OneFifo'
  BY <1>1 DEF IInv, OneFifo, Alive, entryVars
<1>8. \A q : AliveOn(q)' = AliveOn(q)
  BY <1>1 DEF AliveOn, Alive, entryVars
<1>9. \A g : OutstandingIn(g)' = OutstandingIn(g)
  BY <1>1, <1>2, <1>3 DEF OutstandingIn, Outstanding
<1>10. ThreadCounts' /\ PendingCounts' /\ Groups'
  BY <1>1, <1>8, <1>9 DEF IInv, ThreadCounts, PendingCounts, Groups, NoLostWakeup, entryVars, groupVars
<1> QED
  BY <1>4, <1>5, <1>6, <1>7, <1>10 DEF IInv

LEMMA finishStep == \A w \in Op : IInv /\ finish(w) => IInv'
<1> SUFFICES ASSUME NEW w \in Op, IInv, finish(w) PROVE IInv'
  OBVIOUS
<1>o. PICK o \in Op : o = worker[w].holds
  BY DEF finish, IInv, Workers
<1>g. PICK g \in Group : g = call[o].group
  BY DEF IInv, TypeOK
<1>1. /\ worker[w].pc = "busy" /\ status[o] = "executed"
      /\ status' = [status EXCEPT ![o] = "left"]
      /\ leave(g)
      /\ worker' = [worker EXCEPT ![w].pc = "top", ![w].holds = NoOp]
      /\ UNCHANGED <<call, ticket, nextTicket, entries, queued, mapKeys, bucket, threadCount, manual>>
  BY <1>o, <1>g DEF finish
<1>2. worker[w].holds = o /\ call[o].group = g
  BY <1>o, <1>g
<1>3. \A x \in Op : status'[x] = IF x = o THEN "left" ELSE status[x]
  BY <1>1, <1>2 DEF IInv, TypeOK
<1>4. /\ \A v \in Op : v # w => worker'[v] = worker[v]
      /\ worker'[w].pc = "top" /\ worker'[w].respectPriority = worker[w].respectPriority
  BY <1>1 DEF IInv, TypeOK
<1>5. \A h : OutstandingIn(h)' = IF h = g THEN OutstandingIn(h) \ {o} ELSE OutstandingIn(h)
  BY <1>1, <1>2, <1>3 DEF OutstandingIn, Outstanding
<1>6. o \in OutstandingIn(g)
  BY <1>1, <1>2 DEF OutstandingIn, Outstanding
<1>7. /\ Cardinality(OutstandingIn(g)') = Cardinality(OutstandingIn(g)) - 1
      /\ Cardinality(OutstandingIn(g)) \in Nat /\ Cardinality(OutstandingIn(g)') \in Nat
  BY <1>5, <1>6, Finite, FiniteNext, FS_RemoveElement
<1>8. pending[g] = Cardinality(OutstandingIn(g)) + manual[g] /\ manual[g] \in Nat
  BY <1>2, PendingCount DEF IInv, PendingCounts
<1>9. pending[g] > 0
  BY <1>7, <1>8
<1>10. TypeOK'
  <2>1. status' \in [Op -> {"idle", "queued", "running", "executed", "left"}]
    BY <1>1, <1>2 DEF IInv, TypeOK
  <2>2. worker' \in [Op -> [pc : {"unborn", "top", "busy", "exited"},
                            holds : Op \cup {NoOp}, respectPriority : BOOLEAN]]
    <3> DEFINE r == [worker[w] EXCEPT !.pc = "top", !.holds = NoOp]
    <3>1. r \in [pc : {"unborn", "top", "busy", "exited"},
                holds : Op \cup {NoOp}, respectPriority : BOOLEAN]
      <4>1. worker[w] \in [pc : {"unborn", "top", "busy", "exited"},
                           holds : Op \cup {NoOp}, respectPriority : BOOLEAN]
        BY DEF IInv, TypeOK
      <4> QED
        BY <4>1
    <3>2. worker' = [worker EXCEPT ![w] = r]
      BY <1>1 DEF IInv, TypeOK
    <3> HIDE DEF r
    <3> QED
      BY <3>1, <3>2 DEF IInv, TypeOK
  <2> QED
    BY <1>1, <1>2, <1>9, <2>1, <2>2, leaveTypes DEF IInv, TypeOK
<1>11. Tickets' /\ SamePriorityInOrder'
  BY <1>1, <1>2, <1>3 DEF IInv, Tickets, SamePriorityInOrder
<1>12. Queues' /\ Entries'
  BY <1>1, <1>2, <1>3 DEF IInv, Queues, Entries
<1>13. Workers'
  <2>1. \A v \in Op : worker[v].pc = "busy" /\ v # w => worker[v].holds # o
    BY <1>1, <1>2 DEF IInv, Workers
  <2>2. \A v \in Op : worker'[v].pc = "busy" => v # w /\ worker'[v] = worker[v]
    BY <1>4
  <2>3. \A v \in Op : worker'[v].pc # "unborn" => worker[v].pc # "unborn"
    BY <1>1, <1>4
  <2> HIDE DEF Workers
  <2>4. \A v \in Op : worker'[v].pc # "unborn" => status'[v] # "idle"
    BY <1>3, <2>3 DEF IInv, Workers
  <2>5. \A v \in Op : worker'[v].pc = "busy" =>
          worker'[v].holds \in Op /\ status'[worker'[v].holds] \in {"running", "executed"}
    BY <1>3, <2>1, <2>2 DEF IInv, Workers
  <2>6. \A u, v \in Op :
          worker'[u].pc = "busy" /\ worker'[v].pc = "busy" /\ worker'[u].holds = worker'[v].holds => u = v
    BY <2>2 DEF IInv, Workers
  <2> QED
    BY <2>4, <2>5, <2>6 DEF Workers
<1>14. \A v \in Op : Alive(v)' = Alive(v) /\ worker'[v].respectPriority = worker[v].respectPriority
  <2>1. worker[w].pc = "busy"
    BY <1>1
  <2> QED
    BY <1>4, <2>1 DEF Alive
<1>15. OneFifo'
  BY <1>1, <1>14 DEF IInv, OneFifo
<1>16. ThreadCounts'
  <2>1. \A r : AliveOn(r)' = AliveOn(r)
    BY <1>1, <1>14 DEF AliveOn
  <2> QED
    BY <1>1, <2>1 DEF IInv, ThreadCounts
<1>17. PendingCounts'
  <2> SUFFICES ASSUME NEW h \in Group
               PROVE  pending'[h] = Cardinality(OutstandingIn(h)') + manual'[h]
    BY DEF PendingCounts
  <2>1. pending'[h] = IF h = g THEN pending[h] - 1 ELSE pending[h]
    BY <1>1 DEF IInv, TypeOK, leave
  <2>2. pending[h] = Cardinality(OutstandingIn(h)) + manual[h]
    BY DEF IInv, PendingCounts
  <2> QED
    BY <1>1, <1>5, <1>7, <1>8, <2>1, <2>2
<1>18. pending[g] = 1 => OutstandingIn(g)' = {}
  <2>1. pending[g] = 1 => Cardinality(OutstandingIn(g)') = 0
    BY <1>7, <1>8
  <2>2. IsFiniteSet(OutstandingIn(g)')
    BY FiniteNext
  <2> QED
    BY <2>1, <2>2, FS_EmptySet
<1>19. Groups'
  BY <1>1, <1>2, <1>5, <1>9, <1>18, leaveGroups
<1> QED
  BY <1>10, <1>11, <1>12, <1>13, <1>15, <1>16, <1>17, <1>19 DEF IInv

LEMMA exitStep == \A w \in Op : IInv /\ exit(w) => IInv'
<1> SUFFICES ASSUME NEW w \in Op, IInv, exit(w) PROVE IInv'
  OBVIOUS
<1>q. PICK q \in Queue : q = call[w].queue
  BY DEF IInv, TypeOK
<1>1. /\ worker[w].pc = "top" /\ queued[q] = {}
      /\ worker' = [worker EXCEPT ![w].pc = "exited"]
      /\ threadCount' = [threadCount EXCEPT ![q] = @ - 1]
      /\ UNCHANGED <<opVars, queued, groupVars, waiter>>
  BY <1>q DEF exit
<1>2. IF threadCount[q] = 1
      THEN /\ entries' = entries \ {q}
           /\ mapKeys' = [mapKeys EXCEPT ![q] = {}]
           /\ bucket' = [bucket EXCEPT ![q] = [p \in Priority |-> {}]]
      ELSE UNCHANGED <<entries, mapKeys, bucket>>
  BY <1>q DEF exit
<1>3. call[w].queue = q
  BY <1>q
<1>4. /\ \A v \in Op : v # w => worker'[v] = worker[v]
      /\ worker'[w].pc = "exited"
  BY <1>1 DEF IInv, TypeOK
<1>5. w \in AliveOn(q)
  BY <1>1, <1>3 DEF AliveOn, Alive
<1>6. \A r : AliveOn(r)' = IF r = q THEN AliveOn(r) \ {w} ELSE AliveOn(r)
  <2>1. worker[w].pc = "top" /\ call' = call
    BY <1>1 DEF opVars
  <2> QED
    BY <1>3, <1>4, <2>1 DEF AliveOn, Alive
<1>7. /\ Cardinality(AliveOn(q)') = Cardinality(AliveOn(q)) - 1
      /\ Cardinality(AliveOn(q)) \in Nat /\ Cardinality(AliveOn(q)') \in Nat
  BY <1>5, <1>6, Finite, FiniteNext, FS_RemoveElement
<1>8. threadCount[q] = Cardinality(AliveOn(q))
  BY <1>3 DEF IInv, ThreadCounts
<1>9. threadCount[q] \in 1 .. MaxThreads
  BY <1>3, <1>7, <1>8 DEF IInv, TypeOK
<1>10. TypeOK'
  <2>1. threadCount' \in [Queue -> 0 .. MaxThreads]
    BY <1>1, <1>3, <1>9, MaxThreadsAssumption DEF IInv, TypeOK
  <2>2. worker' \in [Op -> [pc : {"unborn", "top", "busy", "exited"},
                            holds : Op \cup {NoOp}, respectPriority : BOOLEAN]]
    BY <1>1 DEF IInv, TypeOK
  <2>3. /\ entries' \subseteq Queue /\ mapKeys' \in [Queue -> SUBSET Priority]
        /\ bucket' \in [Queue -> [Priority -> SUBSET Op]]
    <3>1. CASE threadCount[q] = 1
      <4>1. [p \in Priority |-> {}] \in [Priority -> SUBSET Op]
        OBVIOUS
      <4>2. bucket' \in [Queue -> [Priority -> SUBSET Op]]
        BY <1>2, <3>1, <4>1 DEF IInv, TypeOK
      <4>3. entries' \subseteq Queue /\ mapKeys' \in [Queue -> SUBSET Priority]
        BY <1>2, <3>1 DEF IInv, TypeOK
      <4> QED
        BY <4>2, <4>3
    <3>2. CASE threadCount[q] # 1
      BY <1>2, <3>2 DEF IInv, TypeOK
    <3> QED
      BY <3>1, <3>2
  <2> QED
    BY <1>1, <2>1, <2>2, <2>3 DEF IInv, TypeOK, opVars, groupVars
<1>11. Tickets' /\ SamePriorityInOrder'
  BY <1>1 DEF IInv, Tickets, SamePriorityInOrder, opVars
<1>12. Queues'
  <2>1. /\ queued' = queued /\ status' = status /\ call' = call
        /\ \A o \in Op : o \notin queued[q]
    BY <1>1 DEF opVars
  <2>2. CASE threadCount[q] # 1
    BY <1>2, <2>1, <2>2 DEF IInv, Queues
  <2>3. CASE threadCount[q] = 1
    <3>1. \A r \in Queue : r # q => mapKeys'[r] = mapKeys[r] /\ bucket'[r] = bucket[r]
      BY <1>2, <2>3 DEF IInv, TypeOK
    <3>2. mapKeys'[q] = {} /\ \A p \in Priority : bucket'[q][p] = {}
      BY <1>2, <2>3 DEF IInv, TypeOK
    <3> QED
      BY <2>1, <3>1, <3>2 DEF IInv, Queues
  <2> QED
    BY <2>2, <2>3
<1>13. Workers'
  BY <1>1, <1>4 DEF IInv, Workers, opVars
<1>14. ThreadCounts'
  <2> SUFFICES ASSUME NEW r \in Queue
               PROVE  threadCount'[r] = Cardinality(AliveOn(r)')
    BY DEF ThreadCounts
  <2>1. threadCount'[r] = IF r = q THEN threadCount[r] - 1 ELSE threadCount[r]
    BY <1>1 DEF IInv, TypeOK
  <2>2. threadCount[r] = Cardinality(AliveOn(r))
    BY DEF IInv, ThreadCounts
  <2> QED
    BY <1>6, <1>7, <2>1, <2>2
<1>15. OneFifo'
  <2>1. \A v \in Op : Alive(v)' => Alive(v) /\ worker'[v] = worker[v]
    BY <1>4 DEF Alive
  <2> QED
    BY <1>1, <2>1 DEF IInv, OneFifo, opVars
<1>16. \A g : OutstandingIn(g)' = OutstandingIn(g)
  BY <1>1 DEF OutstandingIn, Outstanding, opVars
<1>17. PendingCounts' /\ Groups'
  BY <1>1, <1>16 DEF IInv, PendingCounts, Groups, groupVars, NoLostWakeup
<1>18. Entries'
  <2> SUFFICES ASSUME NEW r \in Queue
               PROVE  /\ r \in entries' <=> threadCount'[r] > 0
                      /\ queued'[r] # {} => threadCount'[r] > 0
    BY DEF Entries
  <2>1. (r \in entries <=> threadCount[r] > 0) /\ (queued[r] # {} => threadCount[r] > 0)
    BY DEF IInv, Entries
  <2>2. threadCount'[r] = IF r = q THEN threadCount[r] - 1 ELSE threadCount[r]
    BY <1>1 DEF IInv, TypeOK
  <2> QED
    BY <1>1, <1>2, <1>9, <2>1, <2>2
<1> QED
  BY <1>10, <1>11, <1>12, <1>13, <1>14, <1>15, <1>17, <1>18 DEF IInv

-----------------------------------------------------------------------------
LEMMA StutterIInv == IInv /\ UNCHANGED vars => IInv'
<1> SUFFICES ASSUME IInv, UNCHANGED vars PROVE IInv'
  OBVIOUS
<1>1. UNCHANGED <<opVars, entryVars, groupVars, waiter>>
  BY DEF vars
<1>2. TypeOK'
  BY <1>1 DEF IInv, TypeOK, opVars, entryVars, groupVars
<1>3. PendingCounts' /\ Groups'
  BY <1>1, GroupFrame DEF IInv, PendingCounts, Groups, groupVars, NoLostWakeup
<1> QED
  BY <1>1, <1>2, <1>3, GroupFrame DEF IInv

(* IInv holds of every reachable state of the queue. *)
THEOREM Invariance == Spec => []IInv
<1>1. IInv /\ [Next]_vars => IInv'
  <2> SUFFICES ASSUME IInv, [Next]_vars PROVE IInv'
    OBVIOUS
  <2>1. CASE \E g \in Group : GroupStep(g)
    BY <2>1, createGroupStep, notifyGroupStep, releaseStep, enterStep, leaveManuallyStep, waitStep
       DEF GroupStep
  <2>2. CASE \E o \in Op : schedule(o) \/ WorkerStep(o)
    BY <2>2, scheduleStep, takeStep, runBlockStep, finishStep, exitStep DEF WorkerStep
  <2>3. CASE wakeUp
    BY <2>3, wakeUpStep
  <2>4. CASE UNCHANGED vars
    BY <2>4, StutterIInv
  <2> QED
    BY <2>1, <2>2, <2>3, <2>4 DEF Next
<1> QED
  BY InitIInv, <1>1, PTL DEF Spec

-----------------------------------------------------------------------------
(* What the invariant implies                                               *)

LEMMA NothingDangles == IInv => NoDanglingGroup
<1> SUFFICES ASSUME IInv, NEW g \in Group,
                    OutstandingIn(g) # {} \/ manual[g] > 0 \/ waiter.group = g
             PROVE  life[g] \in {"live", "released"}
  BY DEF NoDanglingGroup
<1>1. OutstandingIn(g) # {} \/ manual[g] > 0 => pending[g] # 0
  BY PendingCount
<1> QED
  BY <1>1 DEF IInv, TypeOK, Groups

LEMMA EntriesAreAlive == IInv => EntryOutlivesWorkers /\ QueueHasWorker
<1> SUFFICES ASSUME IInv PROVE EntryOutlivesWorkers /\ QueueHasWorker
  OBVIOUS
<1>1. \A q \in Queue : /\ threadCount[q] = Cardinality(AliveOn(q))
                       /\ threadCount[q] = 0 <=> AliveOn(q) = {}
                       /\ threadCount[q] \in Nat
  BY Finite, FS_EmptySet DEF IInv, ThreadCounts
<1>2. EntryOutlivesWorkers
  <2> SUFFICES ASSUME NEW w \in Op, Alive(w) PROVE call[w].queue \in entries
    BY DEF EntryOutlivesWorkers
  <2>1. call[w].queue \in Queue /\ AliveOn(call[w].queue) # {}
    BY DEF AliveOn, IInv, TypeOK
  <2> QED
    BY <1>1, <2>1 DEF IInv, Entries
<1>3. QueueHasWorker
  BY <1>1 DEF QueueHasWorker, IInv, Entries
<1> QED
  BY <1>2, <1>3

LEMMA ListsAgree == IInv => PopConsistent
<1> SUFFICES ASSUME IInv, NEW q \in Queue
             PROVE  /\ (queued[q] = {}) <=> (mapKeys[q] = {})
                    /\ \A p \in mapKeys[q] : bucket[q][p] # {}
                    /\ \A o \in queued[q] : IsFront(o, queued[q]) => IsFront(o, bucket[q][call[o].priority])
                    /\ \A p \in mapKeys[q] : \A o \in bucket[q][p] :
                         IsHighestKey(p, q) /\ IsFront(o, bucket[q][p]) => o \in queued[q]
  BY DEF PopConsistent
<1>1. /\ queued[q] \subseteq Op /\ mapKeys[q] \subseteq Priority
      /\ \A p \in Priority : bucket[q][p] \subseteq Op
      /\ \A o \in Op : call[o].priority \in Priority
  BY DEF IInv, TypeOK
<1>2. /\ \A p \in Priority : \A o \in Op : o \in bucket[q][p] <=> o \in queued[q] /\ call[o].priority = p
      /\ \A p \in Priority : p \in mapKeys[q] <=> bucket[q][p] # {}
  BY DEF IInv, Queues
<1>3. (queued[q] = {}) <=> (mapKeys[q] = {})
  BY <1>1, <1>2
<1>4. ASSUME NEW o \in queued[q], IsFront(o, queued[q])
      PROVE  IsFront(o, bucket[q][call[o].priority])
  BY <1>1, <1>2, <1>4 DEF IsFront
<1> QED
  BY <1>1, <1>2, <1>3, <1>4

LEMMA LimitsHold == IInv => ThreadLimits
<1> SUFFICES ASSUME IInv, NEW q \in Queue
             PROVE  /\ Cardinality(AliveOn(q)) <= MaxThreads
                    /\ \A v, w \in AliveOn(q) :
                         ~worker[v].respectPriority /\ ~worker[w].respectPriority => v = w
  BY DEF ThreadLimits
<1>1. Cardinality(AliveOn(q)) <= MaxThreads
  <2>1. threadCount[q] = Cardinality(AliveOn(q)) /\ threadCount[q] \in 0 .. MaxThreads
    BY DEF IInv, TypeOK, ThreadCounts
  <2> QED
    BY <2>1, MaxThreadsAssumption
<1>2. \A v, w \in AliveOn(q) :
        ~worker[v].respectPriority /\ ~worker[w].respectPriority => v = w
  BY DEF AliveOn, IInv, OneFifo
<1> QED
  BY <1>1, <1>2

LEMMA NotifiesExactly == IInv => NotifyIsExact /\ NoLostWakeup
BY DEF IInv, Groups, NotifyIsExact, NoLostWakeup, OutstandingIn

(* The queue keeps its lists, counters and threads in step: whatever the    *)
(* interleaving of workers and clients, the types are right, an entry lives *)
(* as long as its workers and no operation is left without one.             *)
THEOREM QueueSafety == Spec => [](TypeOK /\ EntryOutlivesWorkers /\ QueueHasWorker /\ PopConsistent)
<1>1. IInv => TypeOK /\ EntryOutlivesWorkers /\ QueueHasWorker /\ PopConsistent
  BY EntriesAreAlive, ListsAgree DEF IInv
<1> QED
  BY <1>1, Invariance, PTL

(* Operations of equal priority start in order, and threads are limited. *)
THEOREM QueueOrder == Spec => [](SamePriorityInOrder /\ ThreadLimits)
<1>1. IInv => SamePriorityInOrder /\ ThreadLimits
  BY LimitsHold DEF IInv
<1> QED
  BY <1>1, Invariance, PTL

(* A group is not deleted while anybody will still touch it. *)
THEOREM GroupLifetime == Spec => []NoDanglingGroup
BY NothingDangles, Invariance, PTL

(* The notify block is dispatched exactly when all operations have left the *)
(* group, and a main thread asleep in wait() is going to be woken.          *)
THEOREM GroupNotification == Spec => [](NotifyIsExact /\ NoLostWakeup)
BY NotifiesExactly, Invariance, PTL

-----------------------------------------------------------------------------
(* The queue implements OperationGroup                                      *)

LEMMA SettledIsNothingPending ==
  ASSUME IInv, NEW g \in Group
  PROVE  pending[g] = 0 <=> Promise!Settled(g)
<1>1. pending[g] = 0 <=> OutstandingIn(g) = {} /\ manual[g] = 0
  <2>1. pending[g] = Cardinality(OutstandingIn(g)) + manual[g] /\ manual[g] \in Nat
    BY PendingCount DEF IInv, PendingCounts
  <2>2. /\ Cardinality(OutstandingIn(g)) \in Nat
        /\ Cardinality(OutstandingIn(g)) = 0 <=> OutstandingIn(g) = {}
    BY Finite, FS_EmptySet
  <2> QED
    BY <2>1, <2>2
<1>2. \A o \in Op : Outstanding(o) <=> PhaseOf(status[o]) \notin {"idle", "done"}
  BY DEF Outstanding, PhaseOf, IInv, TypeOK
<1>3. OutstandingIn(g) = {} <=>
        \A o \in Op : call[o].group = g => PhaseOf(status[o]) \in {"idle", "done"}
  BY <1>2 DEF OutstandingIn
<1>4. Promise!Settled(g) <=>
        /\ manual[g] = 0
        /\ \A o \in Op : call[o].group = g => PhaseOf(status[o]) \in {"idle", "done"}
  BY DEF Promise!Settled
<1> QED
  BY <1>1, <1>3, <1>4

LEMMA SettledNext ==
  ASSUME IInv', NEW g \in Group
  PROVE  pending'[g] = 0 <=> Promise!Settled(g)'
<1>1. (pending[g] = 0 <=> Promise!Settled(g))'
  BY SettledIsNothingPending, PTL
<1> QED
  BY <1>1

(* The mapped variables. *)
ownerBar == [o \in Op |-> call[o].group]
phaseBar == [o \in Op |-> PhaseOf(status[o])]
notifiedBar == [g \in Group |-> NotifiedOf(notify[g])]

LEMMA Fires ==
  ASSUME IInv, IInv', NEW g \in Group, pending[g] > 0, leave(g)
  PROVE  Promise!FireIfSettled(g)
<1>1. pending'[g] = 0 <=> Promise!Settled(g)'
  BY SettledNext
<1>2. pending'[g] = 0 <=> pending[g] = 1
  BY DEF leave, IInv, TypeOK
<1>3. \A h \in Group : NotifiedOf(notify'[h]) =
        IF h = g /\ NotifiedOf(notify[g]) = "armed" /\ Promise!Settled(g)' THEN "fired"
        ELSE NotifiedOf(notify[h])
  <2>1. CASE pending[g] = 1
    <3>1. notify' = [notify EXCEPT ![g] = IF @ = "listed" THEN "dispatched" ELSE @]
      BY <2>1 DEF leave
    <3>2. Promise!Settled(g)'
      BY <1>1, <1>2, <2>1
    <3> QED
      BY <3>1, <3>2 DEF NotifiedOf, IInv, TypeOK
  <2>2. CASE pending[g] # 1
    <3>1. notify' = notify
      BY <2>2 DEF leave
    <3>2. ~Promise!Settled(g)'
      BY <1>1, <1>2, <2>2
    <3> QED
      BY <3>1, <3>2
  <2> QED
    BY <2>1, <2>2
<1>4. notifiedBar' = [notifiedBar EXCEPT ![g] =
        IF @ = "armed" /\ Promise!Settled(g)' THEN "fired" ELSE @]
  BY <1>3 DEF notifiedBar
<1> QED
  BY <1>4 DEF notifiedBar, Promise!FireIfSettled

(* A step that leaves the mapped variables alone is a stutter of the        *)
(* promise.                                                                 *)
LEMMA Stutters ==
  ASSUME call' = call, phaseBar' = phaseBar, manual' = manual, notify' = notify
  PROVE  UNCHANGED Promise!groupVars
BY DEF phaseBar, Promise!groupVars

LEMMA ClientSimulates ==
  ASSUME IInv, IInv', NEW g \in Group, GroupStep(g)
  PROVE  [Promise!GNext]_(Promise!groupVars)
<1>1. CASE createGroup(g) \/ release(g) \/ wait(g)
  <2>1. UNCHANGED <<call, status, manual, notify>>
    BY <1>1 DEF createGroup, release, wait, opVars, groupVars
  <2> QED
    BY <2>1, Stutters DEF phaseBar
<1>2. CASE notifyGroup(g)
  <2>1. /\ notify[g] = "none"
        /\ notify' = [notify EXCEPT ![g] = IF pending[g] = 0 THEN "dispatched" ELSE "listed"]
        /\ UNCHANGED <<call, status, manual>>
    BY <1>2 DEF notifyGroup, opVars
  <2>2. notifiedBar' = [notifiedBar EXCEPT ![g] = IF Promise!Settled(g) THEN "fired" ELSE "armed"]
    BY <2>1, SettledIsNothingPending DEF notifiedBar, NotifiedOf, IInv, TypeOK
  <2>3. Promise!Arm(g)
    BY <2>1, <2>2 DEF Promise!Arm, notifiedBar, NotifiedOf
  <2> QED
    BY <2>3 DEF Promise!GNext
<1>3. CASE enter(g)
  <2>1. Promise!Hold(g)
    BY <1>3 DEF enter, opVars, Promise!Hold
  <2> QED
    BY <2>1 DEF Promise!GNext
<1>4. CASE leaveManually(g)
  <2>1. Promise!FireIfSettled(g)
    BY <1>4, Fires, PendingCount DEF leaveManually
  <2>2. Promise!Unhold(g)
    BY <1>4, <2>1 DEF leaveManually, opVars, Promise!Unhold
  <2> QED
    BY <2>2 DEF Promise!GNext
<1> QED
  BY <1>1, <1>2, <1>3, <1>4 DEF GroupStep

LEMMA ScheduleSimulates ==
  ASSUME IInv, NEW o \in Op, schedule(o)
  PROVE  Promise!Submit(o)
<1>1. /\ status[o] = "idle" /\ notify[call[o].group] = "none" /\ call[o].group \in Group
      /\ status' = [status EXCEPT ![o] = "queued"]
      /\ UNCHANGED <<call, manual, notify>>
  BY DEF schedule, IInv, TypeOK
<1>2. phaseBar' = [phaseBar EXCEPT ![o] = "scheduled"]
  BY <1>1 DEF phaseBar, PhaseOf, IInv, TypeOK
<1>3. phaseBar[o] = "idle" /\ notifiedBar[ownerBar[o]] = "none"
  BY <1>1 DEF phaseBar, PhaseOf, notifiedBar, NotifiedOf, ownerBar
<1> QED
  BY <1>1, <1>2, <1>3 DEF phaseBar, notifiedBar, ownerBar, Promise!Submit

LEMMA WorkerSimulates ==
  ASSUME IInv, IInv', NEW w \in Op, WorkerStep(w)
  PROVE  [Promise!GNext]_(Promise!groupVars)
<1>1. CASE take(w)
  <2>1. PICK o \in Op : /\ o \in queued[call[w].queue]
                        /\ status' = [status EXCEPT ![o] = "running"]
    BY <1>1 DEF take
  <2>2. status[o] = "queued"
    BY <2>1 DEF IInv, Queues, TypeOK
  <2>3. phaseBar' = phaseBar
    BY <2>1, <2>2 DEF phaseBar, PhaseOf, IInv, TypeOK
  <2>4. UNCHANGED <<call, manual, notify>>
    BY <1>1 DEF take, groupVars
  <2> QED
    BY <2>3, <2>4, Stutters
<1>2. CASE runBlock(w)
  <2>1. PICK o \in Op : o = worker[w].holds
    BY <1>2 DEF runBlock, IInv, Workers
  <2>2. /\ status[o] = "running" /\ status' = [status EXCEPT ![o] = "executed"]
        /\ UNCHANGED <<call, manual, notify>>
    BY <1>2, <2>1 DEF runBlock, groupVars
  <2>3. phaseBar' = [phaseBar EXCEPT ![o] = "executed"] /\ phaseBar[o] = "scheduled"
    BY <2>2 DEF phaseBar, PhaseOf, IInv, TypeOK
  <2>4. Promise!Execute(o)
    BY <2>2, <2>3 DEF phaseBar, Promise!Execute
  <2> QED
    BY <2>4 DEF Promise!GNext
<1>3. CASE finish(w)
  <2>1. PICK o \in Op : o = worker[w].holds
    BY <1>3 DEF finish, IInv, Workers
  <2>2. PICK g \in Group : g = call[o].group
    BY DEF IInv, TypeOK
  <2>3. /\ status[o] = "executed" /\ status' = [status EXCEPT ![o] = "left"]
        /\ leave(g)
        /\ UNCHANGED <<call, manual>>
    BY <1>3, <2>1, <2>2 DEF finish
  <2>4. pending[g] > 0
    <3>1. o \in OutstandingIn(g)
      BY <2>2, <2>3 DEF OutstandingIn, Outstanding
    <3> QED
      BY <3>1, PendingCount
  <2>5. Promise!FireIfSettled(g)
    BY <2>3, <2>4, Fires
  <2>6. phaseBar' = [phaseBar EXCEPT ![o] = "done"] /\ phaseBar[o] = "executed"
    BY <2>3 DEF phaseBar, PhaseOf, IInv, TypeOK
  <2>7. ownerBar[o] = g
    BY <2>2 DEF ownerBar
  <2>8. Promise!Finish(o)
    BY <2>3, <2>5, <2>6, <2>7 DEF phaseBar, ownerBar, Promise!Finish
  <2> QED
    BY <2>8 DEF Promise!GNext
<1>4. CASE exit(w)
  <2>1. UNCHANGED <<call, status, manual, notify>>
    BY <1>4 DEF exit, opVars, groupVars
  <2> QED
    BY <2>1, Stutters DEF phaseBar
<1> QED
  BY <1>1, <1>2, <1>3, <1>4 DEF WorkerStep

(* Every behaviour of the queue is a behaviour of OperationGroup, which is  *)
(* what transactions are written on top of.                                 *)
THEOREM Implementation == Spec => PromiseKept
<1>1. Init => Promise!GInit
  <2> SUFFICES ASSUME Init PROVE Promise!GInit
    OBVIOUS
  <2>1. [o \in Op |-> call[o].group] \in [Op -> Group]
    BY DEF Init
  <2>2. [o \in Op |-> PhaseOf(status[o])] = [o \in Op |-> "idle"]
    BY DEF Init, PhaseOf
  <2>3. [g \in Group |-> NotifiedOf(notify[g])] = [g \in Group |-> "none"]
    BY DEF Init, NotifiedOf
  <2>4. manual = [g \in Group |-> 0]
    BY DEF Init
  <2> QED
    BY <2>1, <2>2, <2>3, <2>4 DEF Promise!GInit
<1>2. IInv /\ IInv' /\ [Next]_vars => [Promise!GNext]_(Promise!groupVars)
  <2> SUFFICES ASSUME IInv, IInv', [Next]_vars PROVE [Promise!GNext]_(Promise!groupVars)
    OBVIOUS
  <2>1. CASE \E g \in Group : GroupStep(g)
    BY <2>1, ClientSimulates
  <2>2. CASE \E o \in Op : schedule(o)
    BY <2>2, ScheduleSimulates DEF Promise!GNext
  <2>3. CASE \E w \in Op : WorkerStep(w)
    BY <2>3, WorkerSimulates
  <2>4. CASE wakeUp \/ UNCHANGED vars
    <3>1. UNCHANGED <<call, status, manual, notify>>
      BY <2>4 DEF wakeUp, vars, opVars, groupVars
    <3> QED
      BY <3>1, Stutters DEF phaseBar
  <2> QED
    BY <2>1, <2>2, <2>3, <2>4 DEF Next
<1> QED
  BY Invariance, <1>1, <1>2, PTL DEF Spec, PromiseKept, Promise!GSpec
=============================================================================
