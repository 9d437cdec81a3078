SPECIFICATION RangeFairSpec
CONSTANTS
  n1 = n1
  n2 = n2
  n3 = n3
  n4 = n4
  Node <- FourNodes
  InitialMap <- ThreeLoaded
  Buffer <- Buffers
  SetModes <- DepthModes
  Modes <- BothModes
  MaxEvents = 3
INVARIANTS NothingOutOfRange OffscreenIsInvisible SettledIsRight
PROPERTIES CellsOnScreenBecomeVisible
CHECK_DEADLOCK FALSE
