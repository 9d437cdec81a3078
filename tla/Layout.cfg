SPECIFICATION FairSpec
CONSTANTS
  Node = {a, b}
  Interferes = FALSE
  Overlaps = FALSE
  MaxEvents = 2
INVARIANT SubnodesMatchLayout
PROPERTIES LayoutOnlyAdvances LayoutSettles
CHECK_DEADLOCK FALSE
