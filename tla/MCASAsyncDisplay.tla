-------------------------- MODULE MCASAsyncDisplay --------------------------
(* A node and its subnode. *)
EXTENDS ASAsyncDisplay, TLC

CONSTANTS node, subnode

Pair == {node, subnode}
SubnodeOfNode == subnode :> node
=============================================================================
