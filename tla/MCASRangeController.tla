------------------------ MODULE MCASRangeController ------------------------
(* Four cells, three of which are loaded first.                             *)
EXTENDS ASRangeController

CONSTANTS n1, n2, n3, n4

FourNodes == {n1, n2, n3, n4}
ThreeLoaded == <<n1, n2, n3>>
Buffers ==
  [mode \in RangeModes |->
     CASE mode = "Full" -> [display |-> 1, preload |-> 2]
       [] mode = "Minimum" -> [display |-> 0, preload |-> 1]
       [] OTHER -> [display |-> 0, preload |-> 0]]
DepthModes == {"Minimum", "LowMemory"}
BothModes == BOOLEAN
=============================================================================
