SPECIFICATION FairSpec
CONSTANTS
  Op = {o1, o2}
  Txn = {t1, t2}
  Layer = {l1, l2}
  None = None
  MaxDepth = 2
  HookReenters = FALSE
INVARIANTS
  CalledInOrder
  CalledWhenAllRan
  CompletesOnce
  WaitCompletes
PROPERTIES
  EveryTransactionCompletes
CHECK_DEADLOCK FALSE
