SPECIFICATION DisplayFairSpec
CONSTANTS
  node = node
  subnode = subnode
  Node <- Pair
  Supernode <- SubnodeOfNode
  MaxEvents = 3
PROPERTIES ContentsOnlyAdvance DisplaySettles
CHECK_DEADLOCK FALSE
