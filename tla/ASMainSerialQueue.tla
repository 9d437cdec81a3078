-------------------------- MODULE ASMainSerialQueue --------------------------
(***************************************************************************)
(* ASMainSerialQueue.mm: blocks that any thread adds and the main thread    *)
(* runs one after the other.  A block is out of the queue while it runs, so *)
(* that one which adds a block itself runs all that are left before it      *)
(* returns.                                                                 *)
(*                                                                         *)
(* The main thread is the stack of what it is in the middle of, as records: *)
(* "do" says what, and the other fields are those of that activity.         *)
(***************************************************************************)
EXTENDS Sequences, Naturals

VARIABLES
  blocks,    \* _blocks
  main,      \* the stack of the main thread, its top first
  mainQueue  \* dispatch_get_main_queue()

serialVars == <<blocks, main, mainQueue>>

SerialInit == blocks = <<>> /\ main = <<>> /\ mainQueue = <<>>

runBlocks == [do |-> "runBlocks"]

Top(what) == main # <<>> /\ Head(main).do = what
Becomes(frames) == main' = frames \o Tail(main)
Calls(frames) == main' = frames \o main

push(block) == blocks' = Append(blocks, block)

(* performBlockOnMainThread: on the main thread.                            *)
performBlock(block) ==
  /\ push(block)
  /\ Becomes(<<runBlocks>>)
  /\ UNCHANGED mainQueue

(* On another thread; the two steps are one locked region and a dispatch.   *)
pushFromOutside(block) == push(block) /\ UNCHANGED <<main, mainQueue>>
dispatchRunBlocks == mainQueue' = Append(mainQueue, runBlocks) /\ UNCHANGED <<blocks, main>>

(* Mutated: the block that was added last is run first.                     *)
runLastBlock ==
  /\ Top("runBlocks") /\ blocks # <<>>
  /\ blocks' = SubSeq(blocks, 1, Len(blocks) - 1)
  /\ Calls(<<blocks[Len(blocks)]>>)
  /\ UNCHANGED mainQueue

(* One turn of the loop of runBlocks.                                       *)
runBlock ==
  /\ Top("runBlocks") /\ blocks # <<>>
  /\ blocks' = Tail(blocks)
  /\ Calls(<<Head(blocks)>>)
  /\ UNCHANGED mainQueue

finishRunBlocks ==
  /\ Top("runBlocks") /\ blocks = <<>>
  /\ Becomes(<<>>)
  /\ UNCHANGED <<blocks, mainQueue>>

(* The run loop takes a block of the main queue.                            *)
runMainQueue ==
  /\ main = <<>> /\ mainQueue # <<>>
  /\ mainQueue' = Tail(mainQueue)
  /\ Calls(<<Head(mainQueue)>>)
  /\ UNCHANGED blocks
=============================================================================
