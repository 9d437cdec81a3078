------------------------- MODULE MCASNetworkImageNode -------------------------
(* Bounds of ASNetworkImageNode by whether requests are shared.             *)
EXTENDS ASNetworkImageNode

Events == [shares \in BOOLEAN |-> IF shares THEN 2 ELSE 3]
LoadsBefore == [shares \in BOOLEAN |-> IF shares THEN 1 ELSE 2]
=============================================================================
