SPECIFICATION FairSpec
CONSTANTS
  Op = {o1, o2, o3}
  Group = {g1}
  Queue = {q1}
  Priority = {0, 1}
  MaxThreads = 2
  MaxEnter = 1
  NoOp = NoOp
  NoGroup = NoGroup
INVARIANTS
  QueueHasWorker
  SamePriorityInOrder
  NoDanglingGroup
PROPERTIES
  PromiseKept
  FairPromiseKept
CHECK_DEADLOCK FALSE
