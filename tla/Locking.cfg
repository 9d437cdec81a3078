SPECIFICATION FairSpec
CONSTANTS
  controller = controller
  node = node
  None = None
  Thread = {t1, t2}
  Lock <- TwoLocks
  Tasks <- PairTasks
  MaxTasks = 2
PROPERTIES IsRecursiveLock EveryTaskEnds
CHECK_DEADLOCK FALSE
