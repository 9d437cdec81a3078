CHECK_DEADLOCK FALSE
SPECIFICATION ChangeSetSpec
CONSTANTS
  MaxIndex = 3
  MaxSections = 2
  MaxItems = 2
  MaxChanges = 3
  Repeats = FALSE
  UpdatesAfterClear = FALSE
INVARIANTS AcceptedMapIsRight AcceptsWhatHappened
