----------------------- MODULE ASLayoutTransitionProofs -----------------------
(***************************************************************************)
(* Proofs about ASLayoutTransition, for any set of possible subnodes and    *)
(* any number of changes: that the calculated layout only advances,         *)
(* whatever interferes with transitions, and that the subnodes match it     *)
(* where nothing does.                                                      *)
(***************************************************************************)
EXTENDS ASLayoutTransition, TLAPS

Layout == [version : Nat, number : Nat, nodes : SUBSET Node]

Place == {"start", "measure", "measured", "commit"}

Transition == [id : Nat \ {0}, animated : BOOLEAN, at : Place, layout : Layout]

Change == {"setNeedsLayout", "cancel", "transition"}

TypeInv ==
  /\ configuration \in [number : Nat, nodes : SUBSET Node]
  /\ layoutVersion \in Nat \ {0}
  /\ calculated \in Layout /\ pending \in Layout
  /\ transitionID \in Nat /\ lastTransitionID \in Nat
  /\ transitions \subseteq Transition
  /\ main.do \in Change \cup {"nothing", "run"}
  /\ main.do = "transition" => main.animated \in BOOLEAN

IsMeasured(t) == t.at \in {"measured", "commit"}

(* No layout is newer than the node, and a layout of the node's version is  *)
(* of its configuration, once a change of the configuration has been told.  *)
IsOfNode(lay) ==
  /\ lay.version <= layoutVersion /\ lay.number <= configuration.number
  /\ lay.version = layoutVersion => main.do \in Change \/ lay.number = configuration.number

LayoutsAreOfNode ==
  /\ IsOfNode(calculated) /\ IsOfNode(pending)
  /\ \A t \in transitions : IsMeasured(t) => IsOfNode(t.layout)

(* A transition goes by a version that it has read.                         *)
TransitionsAreStarted ==
  \A t \in transitions : t.id <= lastTransitionID /\ t.layout.version <= layoutVersion

(* Nobody replaces the calculated layout while a transition is under way.   *)
CurrentIsNewer ==
  /\ transitionID <= lastTransitionID
  /\ \A t \in transitions : ~IsCancelled(t) /\ IsMeasured(t) => t.layout.number >= calculated.number

VersionInv == TypeInv /\ LayoutsAreOfNode /\ TransitionsAreStarted /\ CurrentIsNewer

-----------------------------------------------------------------------------
(* Where nothing interferes: the version stays during a transition, ...     *)
VersionStays ==
  /\ main.do = "setNeedsLayout" => transitionID = 0
  /\ \A t \in transitions : ~IsCancelled(t) /\ t.at # "start" => t.layout.version = layoutVersion

(* ... and the layout during an animation, of which there is one.           *)
LayoutStays ==
  animations # {} => /\ transitionID = 0 /\ main.do \notin Change
                     /\ calculated.version = layoutVersion
                     /\ \A i, j \in animations : i = j

(* What an animation still shows is what its end removes.                   *)
RemovalsWait ==
  animations # {} => /\ subnodes = calculated.nodes \cup pendingLayoutTransition.removed
                     /\ calculated.nodes \cap pendingLayoutTransition.removed = {}

SettledInv == VersionStays /\ LayoutStays /\ RemovalsWait /\ SubnodesMatchLayout
-----------------------------------------------------------------------------
LEMMA MeasuredIsLayout ==
  ASSUME TypeInv, NEW v \in Nat
  PROVE  /\ Measured(v) \in Layout
         /\ Measured(v).version = v /\ Measured(v).number = configuration.number
         /\ Measured(v).nodes = configuration.nodes
BY DEF TypeInv, Measured, Layout

LEMMA InitVersion == Init => VersionInv
<1> SUFFICES ASSUME Init PROVE VersionInv
  OBVIOUS
<1>1. TypeInv
  BY DEF Init, TypeInv, Layout, NoLayout, Idle, Change
<1>2. LayoutsAreOfNode
  BY DEF Init, LayoutsAreOfNode, IsOfNode, NoLayout
<1>3. TransitionsAreStarted /\ CurrentIsNewer
  BY DEF Init, TransitionsAreStarted, CurrentIsNewer
<1> QED
  BY <1>1, <1>2, <1>3 DEF VersionInv

(* A step of a block that replaces its transition by another or ends it,    *)
(* and changes nothing else that matters here.                              *)
LEMMA BlockStep ==
  ASSUME VersionInv, NEW t \in transitions,
         UNCHANGED <<configuration, layoutVars, transitionID, lastTransitionID>>,
         \/ Ends(t)
         \/ \E to \in Transition :
              /\ Goes(t, to) /\ to.id = t.id
              /\ to.layout.version <= layoutVersion
              /\ IsMeasured(to) => \/ IsMeasured(t) /\ to.layout = t.layout
                                  \/ to.layout = Measured(to.layout.version)
  PROVE  VersionInv'
<1> USE DEF VersionInv, layoutVars
<1>1. UNCHANGED main \/ (main.do = "run" /\ main'.do = "nothing")
  BY DEF Ends, Goes, RunsOnMain, Idle
<1>2. \A s \in transitions' :
        \/ s \in transitions
        \/ /\ s \in Transition /\ s.id = t.id /\ s.layout.version <= layoutVersion
           /\ IsMeasured(s) => \/ IsMeasured(t) /\ s.layout = t.layout
                              \/ s.layout = Measured(s.layout.version)
  BY DEF Ends, Goes
<1>3. TypeInv'
  BY <1>1, <1>2 DEF TypeInv
<1>4. \A lay : IsOfNode(lay) => IsOfNode(lay)'
  BY <1>1 DEF IsOfNode, Change
<1>5. ASSUME NEW s \in Transition, s.layout = Measured(s.layout.version),
             s.layout.version <= layoutVersion
      PROVE  IsOfNode(s.layout) /\ s.layout.number >= calculated.number
  <2>1. s.layout.number = configuration.number
    BY <1>5 DEF Measured
  <2>2. configuration.number \in Nat /\ calculated.number <= configuration.number
    BY DEF TypeInv, LayoutsAreOfNode, IsOfNode
  <2> QED
    BY <2>1, <2>2, <1>5 DEF IsOfNode, TypeInv, Layout
<1>6. LayoutsAreOfNode'
  <2>1. ASSUME NEW s \in transitions', IsMeasured(s) PROVE IsOfNode(s.layout)
    BY <1>2, <1>5, <2>1 DEF LayoutsAreOfNode
  <2> QED
    BY <1>4, <2>1 DEF LayoutsAreOfNode, IsMeasured
<1>7. TransitionsAreStarted'
  BY <1>2 DEF TransitionsAreStarted
<1>8. CurrentIsNewer'
  BY <1>2, <1>5 DEF CurrentIsNewer, IsCancelled, IsMeasured
<1> QED
  BY <1>3, <1>6, <1>7, <1>8

LEMMA BlockVersion ==
  ASSUME VersionInv, NEW t \in transitions, begin(t) \/ measure(t) \/ dispatch(t) \/ dropCancelled(t)
  PROVE  VersionInv'
<1> USE DEF VersionInv
<1>1. t \in Transition /\ t.layout \in Layout /\ layoutVersion \in Nat /\ t.layout.version <= layoutVersion
  BY DEF TypeInv, Transition, TransitionsAreStarted
<1>2. CASE begin(t)
  <2> DEFINE to == [t EXCEPT !.at = "measure", !.layout.version = layoutVersion]
  <2>1. to \in Transition /\ to.id = t.id /\ to.layout.version = layoutVersion /\ ~IsMeasured(to)
    BY <1>1 DEF Transition, Layout, Place, IsMeasured
  <2>2. Ends(t) \/ Goes(t, to)
    BY <1>2 DEF begin
  <2>3. UNCHANGED <<configuration, layoutVars, transitionID, lastTransitionID>>
    BY <1>2 DEF begin
  <2> HIDE DEF to
  <2> QED
    BY <1>1, <2>1, <2>2, <2>3, BlockStep
<1>3. CASE measure(t)
  <2> DEFINE to == [t EXCEPT !.at = "measured", !.layout = Measured(t.layout.version)]
  <2>1. t.layout.version \in Nat
    BY <1>1 DEF Layout
  <2>2. /\ to \in Transition /\ to.id = t.id /\ to.layout.version = t.layout.version
        /\ to.layout = Measured(to.layout.version)
    BY <1>1, <2>1, MeasuredIsLayout DEF Transition, Place
  <2>3. Goes(t, to) /\ UNCHANGED <<configuration, layoutVars, transitionID, lastTransitionID>>
    BY <1>3 DEF measure
  <2> HIDE DEF to
  <2> QED
    BY <1>1, <2>2, <2>3, BlockStep
<1>4. CASE dispatch(t)
  <2> DEFINE to == [t EXCEPT !.at = "commit"]
  <2>1. to \in Transition /\ to.id = t.id /\ to.layout = t.layout /\ IsMeasured(t)
    BY <1>1, <1>4 DEF Transition, Place, dispatch, IsMeasured
  <2>2. Ends(t) \/ Goes(t, to)
    BY <1>4 DEF dispatch
  <2>3. UNCHANGED <<configuration, layoutVars, transitionID, lastTransitionID>>
    BY <1>4 DEF dispatch
  <2> HIDE DEF to
  <2> QED
    BY <1>1, <2>1, <2>2, <2>3, BlockStep
<1>5. CASE dropCancelled(t)
  BY <1>5, BlockStep DEF dropCancelled
<1> QED
  BY <1>2, <1>3, <1>4, <1>5

(* A step of the main thread that says that the layout has changed.         *)
LEMMA TellVersion ==
  ASSUME VersionInv, setNeedsLayout \/ cancelLayoutTransition \/ transitionLayout
  PROVE  VersionInv'
<1> USE DEF VersionInv
<1>1. CASE setNeedsLayout
  <2> USE <1>1 DEF setNeedsLayout, transitionVars
  <2>1. TypeInv'
    BY DEF TypeInv, Idle
  <2>2. \A lay \in Layout : IsOfNode(lay) => IsOfNode(lay)'
    BY DEF IsOfNode, TypeInv, Layout
  <2>3. LayoutsAreOfNode'
    BY <2>2 DEF LayoutsAreOfNode, TypeInv, Transition, IsMeasured
  <2>4. TransitionsAreStarted' /\ CurrentIsNewer'
    BY DEF TransitionsAreStarted, CurrentIsNewer, TypeInv, Transition, Layout, IsCancelled, IsMeasured
  <2> QED
    BY <2>1, <2>3, <2>4
<1>2. CASE cancelLayoutTransition
  <2> USE <1>2 DEF cancelLayoutTransition, layoutVars
  <2>1. TypeInv'
    BY DEF TypeInv, Change
  <2>2. LayoutsAreOfNode'
    BY DEF LayoutsAreOfNode, IsOfNode, Change, IsMeasured
  <2>3. TransitionsAreStarted'
    BY DEF TransitionsAreStarted
  <2>4. CurrentIsNewer'
    BY DEF CurrentIsNewer, TypeInv, Transition, IsCancelled
  <2> QED
    BY <2>1, <2>2, <2>3, <2>4
<1>3. CASE transitionLayout
  <2> DEFINE new == [id |-> transitionID', animated |-> main.animated, at |-> "start", layout |-> NoLayout]
  <2> USE <1>3 DEF transitionLayout
  <2>1. /\ layoutVersion' = layoutVersion + 1 /\ transitionID' = lastTransitionID + 1
        /\ lastTransitionID' = lastTransitionID + 1
        /\ transitions' = transitions \cup {new}
        /\ main'.do \in {"nothing", "run"}
        /\ UNCHANGED <<configuration, calculated, pending>>
    BY DEF Idle
  <2>2. new.id = lastTransitionID + 1 /\ new.layout = NoLayout /\ ~IsMeasured(new)
    BY <2>1 DEF IsMeasured
  <2>3. TypeInv'
    <3>1. new \in Transition
      BY <2>1 DEF TypeInv, Transition, Place, NoLayout, Layout
    <3> HIDE DEF new
    <3> QED
      BY <2>1, <3>1 DEF TypeInv
  <2> HIDE DEF new
  <2>4. \A lay \in Layout : IsOfNode(lay) => IsOfNode(lay)'
    BY <2>1 DEF IsOfNode, TypeInv, Layout, Change
  <2>5. LayoutsAreOfNode'
    BY <2>1, <2>2, <2>4 DEF LayoutsAreOfNode, TypeInv, Transition, IsMeasured
  <2>6. TransitionsAreStarted'
    <3>1. lastTransitionID \in Nat /\ layoutVersion \in Nat /\ NoLayout.version = 0
      BY DEF TypeInv, NoLayout
    <3>2. \A t \in transitions : t.id \in Nat /\ t.layout.version \in Nat
      BY DEF TypeInv, Transition, Layout
    <3> QED
      BY <2>1, <2>2, <3>1, <3>2 DEF TransitionsAreStarted
  <2>7. CurrentIsNewer'
    <3>1. lastTransitionID \in Nat /\ \A t \in transitions : t.id \in Nat /\ t.id <= lastTransitionID
      BY DEF TypeInv, Transition, TransitionsAreStarted
    <3> QED
      BY <2>1, <2>2, <3>1 DEF CurrentIsNewer, IsCancelled, IsMeasured
  <2> QED
    BY <2>3, <2>5, <2>6, <2>7
<1> QED
  BY <1>1, <1>2, <1>3

LEMMA ChangeVersion ==
  ASSUME VersionInv, Application
  PROVE  VersionInv'
<1> USE DEF VersionInv
<1>1. /\ main' \in {[do |-> "setNeedsLayout"], [do |-> "cancel"]}
                    \cup [do : {"transition"}, animated : BOOLEAN, async : BOOLEAN]
      /\ \E nodes \in SUBSET Node :
           configuration' = [number |-> configuration.number + 1, nodes |-> nodes]
      /\ UNCHANGED <<layoutVersion, calculated, pending, transitionID, lastTransitionID, transitions>>
  BY DEF Application, change, layoutVars, transitionVars
<1>2. main'.do \in Change /\ configuration'.number = configuration.number + 1
      /\ configuration.number \in Nat
  BY <1>1 DEF Change, TypeInv
<1>3. TypeInv'
  BY <1>1, <1>2 DEF TypeInv
<1>4. \A lay \in Layout : IsOfNode(lay) => IsOfNode(lay)'
  BY <1>1, <1>2 DEF IsOfNode, Layout
<1>5. LayoutsAreOfNode'
  BY <1>1, <1>4 DEF LayoutsAreOfNode, TypeInv, Transition, IsMeasured
<1>6. TransitionsAreStarted' /\ CurrentIsNewer'
  BY <1>1 DEF TransitionsAreStarted, CurrentIsNewer, IsCancelled, IsMeasured
<1> QED
  BY <1>3, <1>5, <1>6

(* What commits is of the transition under way, so nothing older.           *)
LEMMA CommitVersion ==
  ASSUME VersionInv, NEW t \in transitions, commit(t)
  PROVE  VersionInv' /\ calculated' = t.layout /\ calculated'.number >= calculated.number
<1> USE DEF VersionInv
<1>1. /\ Ends(t) /\ t.at = "commit" /\ ~IsCancelled(t)
      /\ transitionID' = 0 /\ calculated' = t.layout
      /\ UNCHANGED <<configuration, layoutVersion, pending, lastTransitionID>>
  BY DEF commit, commitLayout, Commits
<1>2. /\ UNCHANGED main \/ (main.do = "run" /\ main'.do = "nothing")
      /\ transitions' \subseteq transitions
  BY <1>1 DEF Ends, RunsOnMain, Idle
<1>3. t.layout \in Layout /\ IsOfNode(t.layout) /\ t.layout.number >= calculated.number
  BY <1>1 DEF TypeInv, Transition, LayoutsAreOfNode, CurrentIsNewer, IsMeasured
<1>4. TypeInv'
  BY <1>1, <1>2, <1>3 DEF TypeInv
<1>5. \A lay : IsOfNode(lay) => IsOfNode(lay)'
  BY <1>1, <1>2 DEF IsOfNode, Change
<1>6. LayoutsAreOfNode'
  BY <1>1, <1>2, <1>3, <1>5 DEF LayoutsAreOfNode, IsMeasured
<1>7. TransitionsAreStarted' /\ CurrentIsNewer'
  BY <1>1, <1>2 DEF TransitionsAreStarted, CurrentIsNewer, IsCancelled, TypeInv, Transition
<1> QED
  BY <1>1, <1>3, <1>4, <1>6, <1>7

(* A layout pass finds a pending layout of the node's version, or measures. *)
LEMMA PassVersion ==
  ASSUME VersionInv, layout
  PROVE  VersionInv' /\ calculated'.number >= calculated.number
<1> USE DEF VersionInv
<1>1. /\ main = Idle /\ main.do = "nothing"
      /\ UNCHANGED <<configuration, layoutVersion, transitionID, lastTransitionID, transitions, main>>
  BY DEF layout, Idle
<1>2. /\ configuration.number \in Nat /\ calculated.number \in Nat /\ layoutVersion \in Nat
      /\ calculated.number <= configuration.number
  BY DEF TypeInv, Layout, LayoutsAreOfNode, IsOfNode
<1>3. \/ UNCHANGED calculated
      \/ /\ transitionID = 0 /\ calculated' \in Layout /\ IsOfNode(calculated')
         /\ calculated'.number = configuration.number
  <2>1. CASE transitionID # 0
    BY <2>1 DEF layout
  <2>2. CASE transitionID = 0 /\ PendingIsPreferred
    <3>1. calculated' = pending
      BY <2>2 DEF layout, measureNodeWithBoundsIfNecessary, apply
    <3>2. IsOfNode(pending) /\ pending \in Layout /\ pending.version = layoutVersion
      BY <2>2 DEF PendingIsPreferred, isValid, LayoutsAreOfNode, IsOfNode, TypeInv, Layout
    <3> QED
      BY <1>1, <2>2, <3>1, <3>2 DEF IsOfNode, Change
  <2>3. CASE transitionID = 0 /\ ~PendingIsPreferred
    <3>1. UNCHANGED calculated \/ calculated' = Measured(layoutVersion)
      BY <2>3 DEF layout, measureNodeWithBoundsIfNecessary, apply
    <3> QED
      BY <1>2, <2>3, <3>1, MeasuredIsLayout DEF IsOfNode
  <2> QED
    BY <2>1, <2>2, <2>3
<1>4. pending' \in {pending, NoLayout}
  BY DEF layout, measureNodeWithBoundsIfNecessary
<1>5. TypeInv'
  BY <1>1, <1>3, <1>4 DEF TypeInv, NoLayout, Layout
<1>6. LayoutsAreOfNode'
  <2>1. \A lay : IsOfNode(lay)' = IsOfNode(lay)
    BY <1>1 DEF IsOfNode
  <2>2. IsOfNode(NoLayout)
    BY <1>2 DEF IsOfNode, NoLayout, TypeInv
  <2> QED
    BY <1>1, <1>3, <1>4, <2>1, <2>2 DEF LayoutsAreOfNode
<1>7. TransitionsAreStarted'
  BY <1>1 DEF TransitionsAreStarted
<1>8. CurrentIsNewer'
  BY <1>1, <1>3 DEF CurrentIsNewer, IsCancelled, TypeInv, Transition
<1> QED
  BY <1>2, <1>3, <1>5, <1>6, <1>7, <1>8

(* Measuring ahead, and what leaves layouts alone.                          *)
LEMMA OtherVersion ==
  ASSUME VersionInv,
         \/ layoutThatFits \/ viewNeedsLayout \/ \E id \in animations : endAnimation(id)
         \/ UNCHANGED vars
  PROVE  VersionInv'
<1> USE DEF VersionInv
<1>1. /\ UNCHANGED <<configuration, layoutVersion, calculated, transitionID, lastTransitionID, transitions, main>>
      /\ pending' \in {pending, Measured(layoutVersion)}
  BY DEF layoutThatFits, viewNeedsLayout, endAnimation, layoutVars, transitionVars, vars
<1>2. /\ Measured(layoutVersion) \in Layout
      /\ IsOfNode(Measured(layoutVersion))
  BY MeasuredIsLayout DEF IsOfNode, TypeInv
<1>3. TypeInv'
  BY <1>1, <1>2 DEF TypeInv
<1>4. LayoutsAreOfNode'
  BY <1>1, <1>2 DEF LayoutsAreOfNode, IsOfNode
<1> QED
  BY <1>1, <1>3, <1>4 DEF TransitionsAreStarted, CurrentIsNewer, IsCancelled

LEMMA StepVersion ==
  ASSUME VersionInv, [Next]_vars
  PROVE  VersionInv' /\ calculated'.number >= calculated.number
<1>1. CASE Application \/ MainThread
  <2>1. VersionInv'
    BY <1>1, ChangeVersion, TellVersion DEF MainThread
  <2>2. UNCHANGED calculated
    BY <1>1 DEF Application, change, MainThread, setNeedsLayout, cancelLayoutTransition,
                transitionLayout, layoutVars
  <2> QED
    BY <2>1, <2>2 DEF VersionInv, TypeInv, Layout
<1>2. CASE layout
  BY <1>2, PassVersion
<1>3. ASSUME NEW t \in transitions, Block(t) PROVE VersionInv' /\ calculated'.number >= calculated.number
  <2>1. CASE commit(t)
    BY <2>1, CommitVersion
  <2>2. CASE begin(t) \/ measure(t) \/ dispatch(t) \/ dropCancelled(t)
    <3>1. UNCHANGED calculated
      BY <2>2 DEF begin, measure, dispatch, dropCancelled, layoutVars
    <3> QED
      BY <2>2, <3>1, BlockVersion DEF VersionInv, TypeInv, Layout
  <2> QED
    BY <1>3, <2>1, <2>2 DEF Block
<1>4. CASE \/ layoutThatFits \/ viewNeedsLayout \/ \E id \in animations : endAnimation(id)
           \/ UNCHANGED vars
  <2>1. UNCHANGED calculated
    BY <1>4 DEF layoutThatFits, viewNeedsLayout, endAnimation, layoutVars, vars
  <2> QED
    BY <1>4, <2>1, OtherVersion DEF VersionInv, TypeInv, Layout
<1> QED
  BY <1>1, <1>2, <1>3, <1>4 DEF Next

(* However setNeedsLayout, layouts and transitions meet: no layout is newer *)
(* than the node, one of its version is of its configuration, and the one   *)
(* that a running transition has measured is no older than the calculated.  *)
THEOREM VersionsAreRight == Spec => []VersionInv
<1>1. VersionInv /\ [Next]_vars => VersionInv'
  BY StepVersion
<1> QED
  BY <1>1, InitVersion, PTL DEF Spec

(* The calculated layout never goes back to an older configuration, even    *)
(* where setNeedsLayout comes during transitions and layouts change during  *)
(* animations.                                                              *)
THEOREM LayoutAdvances == Spec => LayoutOnlyAdvances
<1>1. VersionInv /\ [Next]_vars => [calculated'.number >= calculated.number]_vars
  BY StepVersion
<1> QED
  BY <1>1, VersionsAreRight, PTL DEF Spec, LayoutOnlyAdvances

-----------------------------------------------------------------------------
(* Where nothing interferes with a transition.                              *)

LEMMA InitSettled == Init => SettledInv
BY DEF Init, SettledInv, VersionStays, LayoutStays, RemovalsWait, SubnodesMatchLayout, NoLayout, Idle

LEMMA TransitionIds ==
  ASSUME VersionInv
  PROVE  /\ \A t \in transitions : t.id \in Nat \ {0} /\ t.id <= lastTransitionID
         /\ lastTransitionID \in Nat
BY DEF VersionInv, TypeInv, Transition, TransitionsAreStarted

LEMMA MainSettled ==
  ASSUME ~Interferes, ~Overlaps, VersionInv, SettledInv, Application \/ MainThread
  PROVE  SettledInv'
<1> USE DEF SettledInv
<1>1. animations = {} /\ animations' = {} /\ subnodes' = subnodes /\ calculated' = calculated
  <2>1. CASE Application
    BY <2>1 DEF Application, change, transitionVars, treeVars, layoutVars
  <2>2. CASE MainThread
    BY <2>2 DEF MainThread, setNeedsLayout, cancelLayoutTransition, transitionLayout, LayoutStays,
                Change, transitionVars, treeVars, layoutVars
  <2> QED
    BY <2>1, <2>2
<1>2. LayoutStays' /\ RemovalsWait' /\ SubnodesMatchLayout'
  BY <1>1 DEF LayoutStays, RemovalsWait, SubnodesMatchLayout
<1>3. VersionStays'
  <2>1. CASE Application
    BY <2>1 DEF Application, change, VersionStays, IsCancelled, layoutVars, transitionVars
  <2>2. CASE setNeedsLayout
    BY <2>2, TransitionIds DEF setNeedsLayout, VersionStays, IsCancelled, Idle, transitionVars
  <2>3. CASE cancelLayoutTransition
    BY <2>3, TransitionIds DEF cancelLayoutTransition, VersionStays, IsCancelled
  <2>4. CASE transitionLayout
    <3>1. transitionID' = lastTransitionID + 1 /\ main'.do \in {"nothing", "run"}
      BY <2>4 DEF transitionLayout, Idle
    <3>2. \A t \in transitions' : t \in transitions \/ t.at = "start"
      BY <2>4 DEF transitionLayout
    <3> QED
      BY <3>1, <3>2, TransitionIds DEF VersionStays, IsCancelled
  <2> QED
    BY <1>1, <2>1, <2>2, <2>3, <2>4 DEF MainThread
<1> QED
  BY <1>2, <1>3

LEMMA BlockSettled ==
  ASSUME VersionInv, SettledInv, NEW t \in transitions,
         begin(t) \/ measure(t) \/ dispatch(t) \/ dropCancelled(t)
  PROVE  SettledInv'
<1> USE DEF SettledInv
<1>1. /\ UNCHANGED <<layoutVersion, calculated, transitionID, animations, subnodes, pendingLayoutTransition>>
      /\ UNCHANGED main \/ main' = Idle
  BY DEF begin, measure, dispatch, dropCancelled, Ends, Goes, layoutVars, treeVars
<1>2. LayoutStays' /\ RemovalsWait' /\ SubnodesMatchLayout'
  BY <1>1 DEF LayoutStays, RemovalsWait, SubnodesMatchLayout, Idle, Change
<1>3. \A s \in transitions' :
        \/ s \in transitions
        \/ /\ s.id = t.id
           /\ \/ s.layout.version = layoutVersion
              \/ t.at # "start" /\ s.layout.version = t.layout.version
  <2>1. t \in Transition /\ t.layout \in Layout
    BY DEF VersionInv, TypeInv, Transition
  <2>2. CASE Ends(t)
    BY <2>2 DEF Ends
  <2>3. CASE begin(t)
    <3> DEFINE to == [t EXCEPT !.at = "measure", !.layout.version = layoutVersion]
    <3>1. to.id = t.id /\ to.layout.version = layoutVersion
      BY <2>1 DEF Transition, Layout
    <3>2. Ends(t) \/ Goes(t, to)
      BY <2>3 DEF begin
    <3> HIDE DEF to
    <3> QED
      BY <2>2, <3>1, <3>2 DEF Goes
  <2>4. CASE measure(t)
    <3> DEFINE to == [t EXCEPT !.at = "measured", !.layout = Measured(t.layout.version)]
    <3>1. to.id = t.id /\ to.layout.version = t.layout.version /\ t.at # "start"
      BY <2>1, <2>4 DEF Transition, Measured, measure
    <3>2. Goes(t, to)
      BY <2>4 DEF measure
    <3> HIDE DEF to
    <3> QED
      BY <3>1, <3>2 DEF Goes
  <2>5. CASE dispatch(t) /\ ~Ends(t)
    BY <2>1, <2>5 DEF dispatch, Goes, Transition
  <2> QED
    BY <2>2, <2>3, <2>4, <2>5 DEF dropCancelled
<1>4. VersionStays'
  BY <1>1, <1>3 DEF VersionStays, IsCancelled, Idle
<1> QED
  BY <1>2, <1>4

LEMMA CommitSettled ==
  ASSUME VersionInv, SettledInv, NEW t \in transitions, commit(t)
  PROVE  SettledInv'
<1> USE DEF SettledInv
<1>1. transitionID = t.id /\ transitionID # 0 /\ t.at = "commit"
  BY TransitionIds DEF commit, Commits, IsCancelled
<1>2. animations = {} /\ subnodes = calculated.nodes /\ t.layout.version = layoutVersion
  BY <1>1 DEF LayoutStays, SubnodesMatchLayout, VersionStays, IsCancelled
<1>3. /\ transitionID' = 0 /\ calculated' = t.layout /\ layoutVersion' = layoutVersion
      /\ main'.do = "nothing" /\ transitions' \subseteq transitions
  BY DEF commit, commitLayout, Commits, Ends, Idle
<1>4. VersionStays'
  BY <1>3, TransitionIds DEF VersionStays, IsCancelled
<1> DEFINE difference == Difference(calculated, t.layout)
<1>5. /\ difference.removed = calculated.nodes \ t.layout.nodes
      /\ difference.inserted = t.layout.nodes \ calculated.nodes
  BY DEF Difference
<1> HIDE DEF difference
<1>6. CASE t.animated
  <2>1. /\ animations' = {t.id}
        /\ subnodes' = calculated.nodes \cup difference.inserted
        /\ pendingLayoutTransition' = difference
    BY <1>2, <1>6 DEF commit, commitLayout, difference
  <2>2. RemovalsWait' /\ SubnodesMatchLayout'
    BY <1>3, <1>5, <2>1 DEF RemovalsWait, SubnodesMatchLayout
  <2>3. LayoutStays'
    BY <1>2, <1>3, <2>1 DEF LayoutStays, Change
  <2> QED
    BY <1>4, <2>2, <2>3
<1>7. CASE ~t.animated
  <2>1. /\ animations' = {}
        /\ subnodes' = (calculated.nodes \cup difference.inserted) \ difference.removed
    BY <1>2, <1>7 DEF commit, commitLayout, difference
  <2>2. subnodes' = calculated'.nodes
    BY <1>3, <1>5, <2>1
  <2> QED
    BY <1>4, <2>1, <2>2 DEF LayoutStays, RemovalsWait, SubnodesMatchLayout
<1> QED
  BY <1>6, <1>7

LEMMA EndSettled ==
  ASSUME SettledInv, NEW id \in animations, endAnimation(id)
  PROVE  SettledInv'
<1> USE DEF SettledInv
<1>1. /\ animations' = {} /\ subnodes' = subnodes \ pendingLayoutTransition.removed
      /\ UNCHANGED <<layoutVersion, calculated, transitionID, transitions, main>>
  BY DEF endAnimation, LayoutStays, layoutVars
<1>2. subnodes' = calculated.nodes
  BY <1>1 DEF RemovalsWait
<1> QED
  BY <1>1, <1>2 DEF VersionStays, LayoutStays, RemovalsWait, SubnodesMatchLayout, IsCancelled

(* During an animation the calculated layout is valid and a layout pass     *)
(* uses it.                                                                 *)
LEMMA PassSettled ==
  ASSUME VersionInv, SettledInv, layout
  PROVE  SettledInv'
<1> USE DEF SettledInv
<1>1. UNCHANGED <<layoutVersion, transitionID, transitions, animations, main>>
  BY DEF layout
<1>2. VersionStays'
  BY <1>1 DEF VersionStays, IsCancelled
<1>3. CASE animations # {}
  <2>1. isValid(calculated) /\ ~PendingIsPreferred
    BY <1>3 DEF LayoutStays, isValid, PendingIsPreferred, VersionInv, LayoutsAreOfNode, IsOfNode,
                TypeInv, Layout
  <2>2. UNCHANGED <<calculated, subnodes, pendingLayoutTransition>>
    BY <2>1 DEF layout, measureNodeWithBoundsIfNecessary, treeVars
  <2> QED
    BY <1>1, <1>2, <2>2 DEF LayoutStays, RemovalsWait, SubnodesMatchLayout
<1>4. CASE animations = {}
  <2>1. \/ UNCHANGED <<calculated, subnodes>>
        \/ apply(pending) \/ apply(Measured(layoutVersion))
    BY DEF layout, measureNodeWithBoundsIfNecessary, treeVars
  <2>2. ASSUME NEW lay, apply(lay) PROVE subnodes' = calculated'.nodes
    BY <1>4, <2>2 DEF apply, Difference, SubnodesMatchLayout
  <2>3. subnodes' = calculated'.nodes
    BY <1>4, <2>1, <2>2 DEF SubnodesMatchLayout
  <2> QED
    BY <1>1, <1>2, <1>4, <2>3 DEF LayoutStays, RemovalsWait, SubnodesMatchLayout
<1> QED
  BY <1>3, <1>4

LEMMA StepSettled ==
  ASSUME ~Interferes, ~Overlaps, VersionInv, SettledInv, [Next]_vars
  PROVE  SettledInv'
<1>1. CASE layoutThatFits \/ viewNeedsLayout \/ UNCHANGED vars
  <2>1. UNCHANGED <<layoutVersion, calculated, transitionVars, treeVars, main>>
    BY <1>1 DEF layoutThatFits, viewNeedsLayout, layoutVars, vars
  <2> QED
    BY <2>1 DEF SettledInv, VersionStays, LayoutStays, RemovalsWait, SubnodesMatchLayout, IsCancelled,
                transitionVars, treeVars
<1>2. ASSUME NEW t \in transitions, Block(t) PROVE SettledInv'
  BY <1>2, BlockSettled, CommitSettled DEF Block
<1> QED
  BY <1>1, <1>2, MainSettled, PassSettled, EndSettled DEF Next

(* Where setNeedsLayout does not come during transitions nor changes during *)
(* animations, the subnodes are those of the calculated layout.             *)
THEOREM SubnodesMatch == ASSUME ~Interferes, ~Overlaps PROVE Spec => []SubnodesMatchLayout
<1>1. VersionInv /\ SettledInv /\ [Next]_vars => SettledInv'
  BY StepSettled
<1>2. SettledInv => SubnodesMatchLayout
  BY DEF SettledInv
<1> QED
  BY <1>1, <1>2, InitSettled, VersionsAreRight, PTL DEF Spec
=============================================================================
