----------------------------- MODULE MCASLocking -----------------------------
(* A node controller and its node: setNode:, lockPair, and a method of the  *)
(* node that calls another one.                                             *)
EXTENDS ASLocking

CONSTANTS controller, node

TwoLocks == {controller, node}
PairTasks == {[kind |-> "scope", path |-> <<controller, node>>],
              [kind |-> "sequence", path |-> <<node, controller>>],
              [kind |-> "scope", path |-> <<node, node>>]}
=============================================================================
