-------------------------- MODULE ASLayoutTransition --------------------------
(***************************************************************************)
(* The layout of a node that manages its subnodes automatically             *)
(* (ASDisplayNode+Layout.mm, ASLayoutTransition.mm): layout passes of       *)
(* Core Animation on the main thread, measuring ahead on any thread, and    *)
(* layout transitions, which are measured on another thread, committed on   *)
(* the main thread and perhaps animated.                                    *)
(*                                                                         *)
(* A layout is the set of subnodes in it and the number of the              *)
(* configuration of the node that it was made from.  The node is loaded,    *)
(* has a size and keeps it; its subnodes have none of their own.            *)
(***************************************************************************)
EXTENDS Integers

CONSTANTS
  Node,       \* the nodes that may be subnodes
  Interferes, \* setNeedsLayout may come during a transition
  Overlaps,   \* the layout may change during an animation
  MaxEvents   \* bound on the changes of the configuration

ASSUME LayoutAssumption == Interferes \in BOOLEAN /\ Overlaps \in BOOLEAN /\ MaxEvents \in Nat

VARIABLES
  configuration,            \* what layoutSpecThatFits: goes by
  layoutVersion,            \* _layoutVersion
  calculated,               \* _calculatedDisplayNodeLayout
  pending,                  \* _pendingDisplayNodeLayout
  transitionID,             \* _transitionID, 0 when it is invalid
  lastTransitionID,         \* gNextTransitionID
  pendingTransitionID,      \* of each node, 0 if it is not in layout pending state
  pendingLayoutTransition,  \* _pendingLayoutTransition
  subnodes,
  transitions,              \* blocks of transitions that have not ended
  animations,               \* transitions whose animation has not ended
  needsLayout,              \* of the layer
  main                      \* what the main thread is in the middle of

layoutVars == <<layoutVersion, calculated, pending, needsLayout>>
transitionVars == <<transitionID, lastTransitionID, pendingTransitionID, transitions, animations>>
treeVars == <<subnodes, pendingLayoutTransition>>
vars == <<configuration, layoutVars, transitionVars, treeVars, main>>

Idle == [do |-> "nothing"]

NoLayout == [version |-> 0, number |-> 0, nodes |-> {}]

(* calculateLayoutThatFits:restrictedToSize:relativeToParentSize: with the  *)
(* version that the caller has read.                                        *)
Measured(version) ==
  [version |-> version, number |-> configuration.number, nodes |-> configuration.nodes]

isValid(layout) == layout.version >= layoutVersion

(* An ASLayoutTransition, as far as subnodes are concerned.                 *)
Difference(from, to) == [removed |-> from.nodes \ to.nodes, inserted |-> to.nodes \ from.nodes]
NoTransition == [removed |-> {}, inserted |-> {}]

Init ==
  /\ configuration \in [number : {1}, nodes : SUBSET Node]
  /\ layoutVersion = 1 /\ needsLayout = TRUE
  /\ calculated = NoLayout /\ pending = NoLayout
  /\ transitionID = 0 /\ lastTransitionID = 0 /\ pendingTransitionID = [n \in Node |-> 0]
  /\ transitions = {} /\ animations = {}
  /\ subnodes = {} /\ pendingLayoutTransition = NoTransition
  /\ main = Idle

IsCancelled(t) == transitionID # t.id

-----------------------------------------------------------------------------
(* The application changes what the node consists of and says so.           *)
change(then) ==
  /\ main = Idle /\ configuration.number <= MaxEvents
  /\ Overlaps \/ animations = {}
  /\ \E nodes \in SUBSET Node :
       configuration' = [number |-> configuration.number + 1, nodes |-> nodes]
  /\ main' = then
  /\ UNCHANGED <<layoutVars, transitionVars, treeVars>>

Application ==
  \/ (Interferes \/ transitionID = 0) /\ change([do |-> "setNeedsLayout"])
  \/ transitionID # 0 /\ change([do |-> "cancel"])
  \/ \E animated, async \in BOOLEAN :
       change([do |-> "transition", animated |-> animated, async |-> async])

setNeedsLayout ==
  /\ main.do = "setNeedsLayout"
  /\ layoutVersion' = layoutVersion + 1 /\ needsLayout' = TRUE
  /\ main' = Idle
  /\ UNCHANGED <<configuration, calculated, pending, transitionVars, treeVars>>

LeavePending(nodes) ==
  pendingTransitionID' = [n \in Node |-> IF n \in nodes THEN 0 ELSE pendingTransitionID[n]]

(* Whoever cancels wants a layout instead.                                  *)
cancelLayoutTransition ==
  /\ main.do = "cancel"
  /\ transitionID' = 0
  /\ IF transitionID # 0 THEN LeavePending(subnodes) ELSE UNCHANGED pendingTransitionID
  /\ main' = [do |-> "setNeedsLayout"]
  /\ UNCHANGED <<configuration, layoutVars, lastTransitionID, transitions, animations, treeVars>>

(* transitionLayoutWithSizeRange:..., up to the block: on a background      *)
(* thread, or on the main thread at once.                                   *)
transitionLayout ==
  /\ main.do = "transition"
  /\ layoutVersion' = layoutVersion + 1
  /\ lastTransitionID' = lastTransitionID + 1 /\ transitionID' = lastTransitionID'
  /\ pendingTransitionID' =
       [n \in Node |-> IF n \in subnodes THEN transitionID' ELSE pendingTransitionID[n]]
  /\ transitions' = transitions \cup
       {[id |-> transitionID', animated |-> main.animated, at |-> "start", layout |-> NoLayout]}
  /\ main' = IF main.async THEN Idle ELSE [do |-> "run", id |-> transitionID']
  /\ UNCHANGED <<configuration, calculated, pending, needsLayout, animations, treeVars>>

-----------------------------------------------------------------------------
(* The block of a transition.                                               *)
RunsOnMain(t) == main = [do |-> "run", id |-> t.id]
Ends(t) == transitions' = transitions \ {t} /\ main' = IF RunsOnMain(t) THEN Idle ELSE main
Goes(t, to) == transitions' = (transitions \ {t}) \cup {to} /\ UNCHANGED main

begin(t) ==
  /\ t.at = "start"
  /\ IF IsCancelled(t) THEN Ends(t)
     ELSE Goes(t, [t EXCEPT !.at = "measure", !.layout.version = layoutVersion])
  /\ UNCHANGED <<configuration, layoutVars, transitionID, lastTransitionID, pendingTransitionID,
                 animations, treeVars>>

measure(t) ==
  /\ t.at = "measure"
  /\ Goes(t, [t EXCEPT !.at = "measured", !.layout = Measured(t.layout.version)])
  /\ UNCHANGED <<configuration, layoutVars, transitionID, lastTransitionID, pendingTransitionID,
                 animations, treeVars>>

dispatch(t) ==
  /\ t.at = "measured"
  /\ IF IsCancelled(t) THEN Ends(t) ELSE Goes(t, [t EXCEPT !.at = "commit"])
  /\ UNCHANGED <<configuration, layoutVars, transitionID, lastTransitionID, pendingTransitionID,
                 animations, treeVars>>

(* What is removed leaves the layout pending state, as do all the others.   *)
commitLayout(t, difference) ==
  /\ Ends(t)
  /\ transitionID' = 0
  /\ calculated' = t.layout
  /\ LeavePending(subnodes)
  /\ IF t.animated
     THEN /\ subnodes' = subnodes \cup difference.inserted
          /\ pendingLayoutTransition' = difference
          /\ animations' = animations \cup {t.id}
     ELSE /\ subnodes' = (subnodes \cup difference.inserted) \ difference.removed
          /\ pendingLayoutTransition' = NoTransition
          /\ UNCHANGED animations
  /\ UNCHANGED <<configuration, layoutVersion, pending, needsLayout, lastTransitionID>>

Commits(t) == t.at = "commit" /\ (main = Idle \/ RunsOnMain(t))

dropCancelled(t) ==
  /\ Commits(t) /\ IsCancelled(t)
  /\ Ends(t)
  /\ UNCHANGED <<configuration, layoutVars, transitionID, lastTransitionID, pendingTransitionID,
                 animations, treeVars>>

(* Mutated: a transition is not checked again on the main thread.           *)
commitAnyway(t) ==
  /\ Commits(t)
  /\ commitLayout(t, Difference(calculated, t.layout))

(* Mutated: the difference is that from the pending layout.                 *)
commitFromPending(t) ==
  /\ Commits(t) /\ ~IsCancelled(t)
  /\ commitLayout(t, Difference(IF pending = NoLayout THEN calculated ELSE pending, t.layout))

commit(t) ==
  /\ Commits(t) /\ ~IsCancelled(t)
  /\ commitLayout(t, Difference(calculated, t.layout))

(* completeTransition: of the context when the animation has ended: it      *)
(* applies what the node has as its transition then.                        *)
endAnimation(id) ==
  /\ main = Idle /\ id \in animations
  /\ animations' = animations \ {id}
  /\ subnodes' = subnodes \ pendingLayoutTransition.removed
  /\ LeavePending(pendingLayoutTransition.removed)
  /\ pendingLayoutTransition' = NoTransition
  /\ UNCHANGED <<configuration, layoutVars, transitionID, lastTransitionID, transitions, main>>

-----------------------------------------------------------------------------
(* Layout passes and measuring ahead.                                       *)

(* A layout that was measured ahead is kept for the layout pass.            *)
layoutThatFits ==
  /\ ~isValid(calculated) /\ ~isValid(pending)
  /\ pending' = Measured(layoutVersion)
  /\ UNCHANGED <<configuration, layoutVersion, calculated, needsLayout, transitionVars, treeVars, main>>

(* UIKit has reasons of its own.                                            *)
viewNeedsLayout ==
  /\ main = Idle /\ ~needsLayout
  /\ needsLayout' = TRUE
  /\ UNCHANGED <<configuration, layoutVersion, calculated, pending, transitionVars, treeVars, main>>

PendingIsPreferred == isValid(pending) /\ pending.version > calculated.version

(* A layout with its subnodes replaces the calculated one.                  *)
apply(layout) ==
  /\ calculated' = layout
  /\ subnodes' = (subnodes \ Difference(calculated, layout).removed)
                   \cup Difference(calculated, layout).inserted
  /\ pendingLayoutTransition' = NoTransition
  /\ LeavePending(Difference(calculated, layout).removed)

(* Mutated: a layout is used whatever its version.                          *)
measureIfNone ==
  IF calculated # NoLayout
  THEN UNCHANGED <<calculated, pending, treeVars, pendingTransitionID>>
  ELSE apply(Measured(layoutVersion)) /\ pending' = NoLayout

measureNodeWithBoundsIfNecessary ==
  IF PendingIsPreferred THEN apply(pending) /\ UNCHANGED pending
  ELSE IF isValid(calculated) THEN UNCHANGED <<calculated, pending, treeVars, pendingTransitionID>>
  ELSE apply(Measured(layoutVersion)) /\ pending' = NoLayout

(* __layout, which leaves everything to a transition under way.             *)
layout ==
  /\ main = Idle /\ needsLayout
  /\ needsLayout' = FALSE
  /\ IF transitionID # 0 THEN UNCHANGED <<calculated, pending, treeVars, pendingTransitionID>>
     ELSE measureNodeWithBoundsIfNecessary
  /\ UNCHANGED <<configuration, layoutVersion, transitionID, lastTransitionID, transitions,
                 animations, main>>

-----------------------------------------------------------------------------
MainThread == setNeedsLayout \/ cancelLayoutTransition \/ transitionLayout
Block(t) == begin(t) \/ measure(t) \/ dispatch(t) \/ dropCancelled(t) \/ commit(t)
BlockOf(id) == \E t \in transitions : t.id = id /\ Block(t)

Next ==
  \/ Application \/ MainThread \/ layout \/ layoutThatFits \/ viewNeedsLayout
  \/ \E t \in transitions : Block(t)
  \/ \E id \in animations : endAnimation(id)

Spec == Init /\ [][Next]_vars

(* Threads go on, layers that need layout get it, animations end.  Nobody   *)
(* has to measure ahead, and UIKit need not ask for layout by itself.       *)
FairSpec ==
  /\ Spec
  /\ WF_vars(MainThread) /\ WF_vars(layout)
  /\ \A id \in 1 .. MaxEvents : WF_vars(BlockOf(id)) /\ WF_vars(endAnimation(id))

-----------------------------------------------------------------------------
(* The calculated layout never goes back to an older configuration, neither *)
(* by a transition that was superseded or cancelled while it was measured   *)
(* or waited for the main thread, nor by a layout that was measured ahead.  *)
LayoutOnlyAdvances == [][calculated'.number >= calculated.number]_vars

(* "The presence or absence of subnodes is completely determined in its     *)
(* layoutSpecThatFits: method": but for an animation under way, the         *)
(* subnodes are those of the calculated layout, whatever passes and         *)
(* transitions led to it.                                                   *)
SubnodesMatchLayout == animations = {} => subnodes = calculated.nodes

(* Once the application is done the node shows its last configuration, and  *)
(* no subnode is left in layout pending state, whichever transitions were   *)
(* superseded or cancelled on the way.                                      *)
LayoutSettles ==
  <>[](/\ calculated.number = configuration.number
       /\ subnodes = configuration.nodes
       /\ \A n \in Node : pendingTransitionID[n] = 0)
=============================================================================
