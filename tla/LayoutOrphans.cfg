SPECIFICATION FairSpec
CONSTANTS
  Node = {a, b}
  Interferes = FALSE
  Overlaps = TRUE
  MaxEvents = 2
INVARIANT SubnodesMatchLayout
CHECK_DEADLOCK FALSE
