SPECIFICATION FairSpec
CONSTANTS
  MaxChangeSets = 2
  MaxCalls = 2
  Block = {b}
  HandlersUpdate = FALSE
INVARIANT SafeToCompare
PROPERTIES IsMapSequence EveryUpdateCompletes SynchronizationIsAnnounced
CHECK_DEADLOCK FALSE
