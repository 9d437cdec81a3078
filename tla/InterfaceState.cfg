SPECIFICATION FairSpec
CONSTANTS
  Node = {cell, other}
  Managed = {cell}
  States <- SomeStates
  Modes <- BothModes
  Reenters = FALSE
  MaxDepth = 2
  MaxChanges = 5
INVARIANTS NoLostChange CallbacksAlternate LastWordIsTrue NoLeftoverContents
PROPERTIES ThrashIsSilent ChangesAreApplied
