--------------------------- MODULE ASAsyncDisplay ---------------------------
(***************************************************************************)
(* The display of nodes (_ASDisplayLayer.mm, ASDisplayNode+AsyncDisplay.mm *)
(* and the bookkeeping of pending displays in ASDisplayNode.mm).           *)
(*                                                                         *)
(* A layer that needs display is drawn on a worker or, synchronously, at   *)
(* once.  Nothing stops a drawing: setNeedsDisplay and suspension increment *)
(* a sentinel, and a drawing whose sentinel is no longer the current one   *)
(* is given up before it starts or dropped when it comes back.             *)
(*                                                                         *)
(* What is drawn is a version: the properties of the node as they were on  *)
(* the main thread when the display began.  Drawings are operations of     *)
(* transactions (ASAsyncTransaction): a worker runs each one, and its      *)
(* completion block is called on the main thread later.  Transactions of a *)
(* layer complete in any order, so the drawings do here.  Everything else  *)
(* happens on the main thread.                                             *)
(***************************************************************************)
EXTENDS Integers

CONSTANTS
  Node,       \* nodes that implement display, loaded, with layers of their own
  Supernode,  \* the supernode of those nodes that have one in Node
  MaxEvents   \* bound on what the program does to the nodes

VARIABLES
  needsDisplay,      \* the flag of the layer that Core Animation acts on
  displaySuspended,  \* of the layer, in step with that of the node
  displaySentinel,   \* _displaySentinel, incremented to cancel
  sized,             \* the bounds of the layer are not empty
  attempted,         \* _attemptedDisplayWhileZeroSized
  version,           \* how often what the node draws has changed
  contents,          \* the version on the layer, or Nothing
  drawings,          \* displays that were handed to a transaction
  pendingDisplayNodes,  \* _pendingDisplayNodes of each node
  events

displayLayerVars == <<needsDisplay, displaySuspended, sized, attempted>>
displayVars ==
  <<displayLayerVars, displaySentinel, version, contents, drawings, pendingDisplayNodes, events>>

Nothing == 0

\* The nodes that keep account of the displays of n: itself and its supernode.
Accountants(n) == {n} \cup {Supernode[m] : m \in DOMAIN Supernode \cap {n}}

DisplayInit ==
  /\ needsDisplay = [n \in Node |-> TRUE]
  /\ displaySuspended = [n \in Node |-> FALSE]
  /\ displaySentinel = [n \in Node |-> 0]
  /\ sized \in [Node -> BOOLEAN]
  /\ attempted = [n \in Node |-> FALSE]
  /\ version = [n \in Node |-> 1]
  /\ contents = [n \in Node |-> Nothing]
  /\ drawings = {}
  /\ pendingDisplayNodes = [n \in Node |-> {}]
  /\ events = 0

event == events < MaxEvents /\ events' = events + 1

WillStart(n, pending, who) == [m \in Node |-> IF m \in who THEN pending[m] \cup {n} ELSE pending[m]]

DidFinish(n, pending, who) == [m \in Node |-> IF m \in who THEN pending[m] \ {n} ELSE pending[m]]

-----------------------------------------------------------------------------
(* Invalidating and suspending, on the main thread. *)

cancelAsyncDisplay(n) == displaySentinel' = [displaySentinel EXCEPT ![n] = @ + 1]

\* -[_ASDisplayLayer setNeedsDisplay] of a layer that is, or is now, suspended or not.
layerSetNeedsDisplay(n, suspended) ==
  /\ cancelAsyncDisplay(n)
  /\ needsDisplay' = [needsDisplay EXCEPT ![n] = @ \/ ~suspended]

\* The program changes what the node draws and says so.
setNeedsDisplay(n) ==
  /\ event
  /\ version' = [version EXCEPT ![n] = @ + 1]
  /\ layerSetNeedsDisplay(n, displaySuspended[n])
  /\ UNCHANGED <<displaySuspended, sized, attempted, contents, drawings, pendingDisplayNodes>>

suspend(n) ==
  /\ ~displaySuspended[n]
  /\ displaySuspended' = [displaySuspended EXCEPT ![n] = TRUE]
  /\ cancelAsyncDisplay(n)
  /\ pendingDisplayNodes' = DidFinish(n, pendingDisplayNodes, Accountants(n) \ {n})
  /\ UNCHANGED needsDisplay

(* Mutated: resuming waits for somebody to ask for a display. *)
resumeSilently(n) ==
  /\ displaySuspended[n]
  /\ displaySuspended' = [displaySuspended EXCEPT ![n] = FALSE]
  /\ cancelAsyncDisplay(n)
  /\ pendingDisplayNodes' = WillStart(n, pendingDisplayNodes, Accountants(n) \ {n})
  /\ UNCHANGED needsDisplay

resume(n) ==
  /\ displaySuspended[n]
  /\ displaySuspended' = [displaySuspended EXCEPT ![n] = FALSE]
  /\ layerSetNeedsDisplay(n, FALSE)
  /\ pendingDisplayNodes' = WillStart(n, pendingDisplayNodes, Accountants(n) \ {n})

\* The node leaves the display range or enters it.
setDisplaySuspended(n) ==
  /\ event
  /\ suspend(n) \/ resume(n)
  /\ UNCHANGED <<sized, attempted, version, contents, drawings>>

\* The block sent when the node left the display range: it is still out of it.
clearContents(n) ==
  /\ displaySuspended[n]
  /\ contents[n] # Nothing
  /\ contents' = [contents EXCEPT ![n] = Nothing]
  /\ UNCHANGED <<displayLayerVars, displaySentinel, version, drawings, pendingDisplayNodes, events>>

\* Layout gives the layer a size or takes it.
setBounds(n) ==
  /\ event
  /\ sized' = [sized EXCEPT ![n] = ~@]
  /\ IF attempted[n] /\ sized'[n]
     THEN /\ attempted' = [attempted EXCEPT ![n] = FALSE]
          /\ layerSetNeedsDisplay(n, displaySuspended[n])
     ELSE UNCHANGED <<attempted, displaySentinel, needsDisplay>>
  /\ UNCHANGED <<displaySuspended, version, contents, drawings, pendingDisplayNodes>>

-----------------------------------------------------------------------------
(* Displaying. *)

attempt(n) == attempted' = [attempted EXCEPT ![n] = @ \/ ~sized[n]]

\* No display block is made for empty bounds, after the sentinel has been taken.
displayAsynchronously(n) ==
  /\ displaySentinel' = [displaySentinel EXCEPT ![n] = @ + 1]
  /\ IF sized[n]
     THEN /\ pendingDisplayNodes' = WillStart(n, pendingDisplayNodes, Accountants(n))
          /\ drawings' = drawings \cup
               {[node |-> n, sentinel |-> displaySentinel'[n], version |-> version[n],
                 drawn |-> FALSE, image |-> Nothing]}
     ELSE UNCHANGED <<pendingDisplayNodes, drawings>>
  /\ UNCHANGED contents

\* Drawn and put on the layer at once: it cannot be canceled.
displaySynchronously(n) ==
  /\ IF sized[n]
     THEN /\ contents' = [contents EXCEPT ![n] = version'[n]]
          /\ pendingDisplayNodes' = DidFinish(n, pendingDisplayNodes, Accountants(n))
     ELSE UNCHANGED <<contents, pendingDisplayNodes>>
  /\ UNCHANGED <<displaySentinel, drawings>>

\* Core Animation displays a layer that needs it.  A suspended one only loses the flag.
display(n) ==
  /\ needsDisplay[n]
  /\ needsDisplay' = [needsDisplay EXCEPT ![n] = FALSE]
  /\ UNCHANGED <<displaySuspended, sized, version, events>>
  /\ IF displaySuspended[n]
     THEN UNCHANGED <<attempted, contents, drawings, displaySentinel, pendingDisplayNodes>>
     ELSE /\ attempt(n)
          /\ displayAsynchronously(n) \/ displaySynchronously(n)

IsCancelled(d) == d.sentinel # displaySentinel[d.node]

\* The program displays the layer at once, suspended or not.  That does not cancel a drawing,
\* so what is drawn changes without setNeedsDisplay only while none is under way.
displayImmediately(n) ==
  /\ event
  /\ \/ UNCHANGED version
     \/ /\ \A d \in drawings : d.node = n => IsCancelled(d)
        /\ version' = [version EXCEPT ![n] = @ + 1]
  /\ attempt(n)
  /\ displaySynchronously(n)
  /\ UNCHANGED <<needsDisplay, displaySuspended, sized>>

\* A worker runs the display block, which gives no image if it is canceled.
draw(d) ==
  /\ ~d.drawn
  /\ drawings' = (drawings \ {d}) \cup
       {[d EXCEPT !.drawn = TRUE, !.image = IF IsCancelled(d) THEN Nothing ELSE d.version]}
  /\ UNCHANGED <<displayLayerVars, displaySentinel, version, contents, pendingDisplayNodes, events>>

(* Mutated: only what was canceled before it was drawn is dropped. *)
completeIfDrawn(d) ==
  /\ d.drawn
  /\ drawings' = drawings \ {d}
  /\ IF d.image = Nothing
     THEN UNCHANGED <<contents, pendingDisplayNodes>>
     ELSE /\ contents' = [contents EXCEPT ![d.node] = d.image]
          /\ pendingDisplayNodes' = DidFinish(d.node, pendingDisplayNodes, Accountants(d.node))
  /\ UNCHANGED <<displayLayerVars, displaySentinel, version, events>>

\* The transaction calls the completion block on the main thread.
complete(d) ==
  /\ d.drawn
  /\ drawings' = drawings \ {d}
  /\ IF IsCancelled(d)
     THEN UNCHANGED <<contents, pendingDisplayNodes>>
     ELSE /\ contents' = [contents EXCEPT ![d.node] = d.image]
          /\ pendingDisplayNodes' = DidFinish(d.node, pendingDisplayNodes, Accountants(d.node))
  /\ UNCHANGED <<displayLayerVars, displaySentinel, version, events>>

-----------------------------------------------------------------------------
DrawingsOf(n) == {d \in drawings : d.node = n}

Works(n) ==
  \/ display(n)
  \/ \E d \in DrawingsOf(n) : draw(d) \/ complete(d)

DisplayNext ==
  \E n \in Node :
    \/ setNeedsDisplay(n)
    \/ setDisplaySuspended(n)
    \/ clearContents(n)
    \/ setBounds(n)
    \/ displayImmediately(n)
    \/ Works(n)

DisplaySpec == DisplayInit /\ [][DisplayNext]_displayVars

\* Core Animation displays what needs it, workers run what they are given and transactions
\* complete (EveryTransactionCompletes of ASAsyncTransaction).
DisplayFairSpec == DisplaySpec /\ \A n \in Node : WF_displayVars(Works(n))

-----------------------------------------------------------------------------
(***************************************************************************)
(* What is on the layer of a displayed node never goes back to an older    *)
(* version and never disappears, and what was cleared while the node is    *)
(* suspended stays so unless the program itself displays it at once:       *)
(* neither a drawing that was superseded, nor one whose node left the      *)
(* display range, nor one that a worker gave up reaches the layer, in      *)
(* whatever order drawings come back.                                      *)
(***************************************************************************)
ContentsOnlyAdvance ==
  [][\A n \in Node : contents'[n] # contents[n] =>
       IF displaySuspended[n]
       THEN contents'[n] = Nothing \/ displayImmediately(n)
       ELSE contents'[n] > contents[n]]_displayVars

(***************************************************************************)
(* Once the program leaves them alone, nodes that are not suspended and    *)
(* have a size show their newest version, and no node still waits for a    *)
(* display in its hierarchy (hierarchyDisplayDidFinish is called, the      *)
(* placeholder goes away): whatever was canceled was replaced.             *)
(***************************************************************************)
Displayable(n) == ~displaySuspended[n] /\ sized[n]

DisplaySettles ==
  <>[](/\ \A n \in Node : Displayable(n) => contents[n] = version[n]
       /\ (\A n \in Node : Displayable(n)) => \A n \in Node : pendingDisplayNodes[n] = {})
=============================================================================
