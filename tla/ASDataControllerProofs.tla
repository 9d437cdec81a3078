------------------------ MODULE ASDataControllerProofs ------------------------
(***************************************************************************)
(* Proofs about ASDataController, for any number of change sets, calls and  *)
(* blocks: that the view goes through the maps as MapSequence says, and     *)
(* that it has the last one whenever isProcessingUpdates says NO. And about *)
(* ASHierarchyChangeSet, for data of any size and any number of changes:    *)
(* which updates are accepted, and what they make of the map.               *)
(***************************************************************************)
EXTENDS ASDataController, ASHierarchyChangeSet, SequenceTheorems, FiniteSetTheorems,
        WellFoundedInduction, TLAPS

Delivery == [do : {"deliver"}, set : Nat, map : Nat]
Other == [do : {"nothing", "relayout"}]
Piece == Delivery \cup Other
Edit == Delivery \cup {retry}

(* Only these are ever below the top of the stack.                          *)
Below == [do : {"app", "synchronize", "runBlocks", "clear"}]

Frame ==
  Piece \cup Below \cup {retry} \cup [do : {"wait"}, block : Other]
    \cup [do : {"update"}, set : Nat, sync : BOOLEAN] \cup [do : {"complete"}, set : Nat]

TypeInv ==
  /\ blocks \in Seq(Piece) /\ main \in Seq(Frame) /\ mainQueue \in Seq({runBlocks, retry})
  /\ editing \in Seq(Edit) /\ pushed \in BOOLEAN
  /\ pendingMap \in Nat /\ visibleMap \in Nat
  /\ changeSets \in Seq(Kind)

(* Whoever clears the data waits first: the stack has the wait, or what has *)
(* come of it, on top of the clear.                                         *)
StackInv ==
  \A i \in 2 .. Len(main) :
    /\ main[i] \in Below
    /\ main[i].do = "clear" => main[i - 1].do \in {"wait", "runBlocks"}

Delivering == {i \in DOMAIN editing : editing[i].do = "deliver"}

(* The group counts the deliveries that the editing queue has not left.     *)
EditingInv ==
  /\ pushed => editing # <<>> /\ Head(editing).do = "deliver"
  /\ dispatched => pushed
  /\ groupCount = Cardinality(Delivering)

-----------------------------------------------------------------------------
(* The maps on their way are in the delivery that runs, then in the blocks, *)
(* then in the editing queue.                                               *)
InBlocks(i) == i \in DOMAIN blocks /\ blocks[i].do = "deliver"
InEditing(i) == i \in Delivering /\ (i = 1 => ~pushed)

IsComing(m) ==
  \/ Top("deliver") /\ Head(main).map = m
  \/ \E i \in Nat : InBlocks(i) /\ blocks[i].map = m
  \/ \E i \in Nat : InEditing(i) /\ editing[i].map = m

NoneIsSkipped == \A m \in (visibleMap + 1) .. pendingMap : IsComing(m)
NoneIsStale ==
  /\ visibleMap <= pendingMap
  /\ \A m \in Nat : IsComing(m) => visibleMap <= m /\ m <= pendingMap
AllAreInOrder ==
  /\ \A i, j \in Nat : InBlocks(i) /\ InBlocks(j) /\ i < j => blocks[i].map <= blocks[j].map
  /\ \A i, j \in Nat : InEditing(i) /\ InEditing(j) /\ i < j => editing[i].map <= editing[j].map
  /\ \A i, j \in Nat : InBlocks(i) /\ InEditing(j) => blocks[i].map <= editing[j].map
  /\ Top("deliver") =>
       /\ \A i \in Nat : InBlocks(i) => Head(main).map <= blocks[i].map
       /\ \A i \in Nat : InEditing(i) => Head(main).map <= editing[i].map

WayInv == NoneIsSkipped /\ NoneIsStale /\ AllAreInOrder

(* The blocks that a clear waits for are being run.                         *)
ClearWaits == \E i \in 2 .. Len(main) : main[i].do = "clear" /\ main[i - 1].do = "runBlocks"

(* Once the maps are going to be replaced, nothing new sets out; and when   *)
(* they are, nothing is on its way.                                         *)
WillReplace ==
  \/ Top("relayout") \/ Top("clear")
  \/ \E i \in DOMAIN blocks : blocks[i].do = "relayout"
  \/ ClearWaits

QuietInv ==
  /\ WillReplace => GroupIsEmpty
  /\ Top("relayout") \/ Top("clear") => \A i \in Nat : ~InBlocks(i)
  /\ \A i, j \in DOMAIN blocks : blocks[i].do = "relayout" /\ i < j => ~InBlocks(j)
  /\ Top("update") => ~Replacing

Inv == TypeInv /\ StackInv /\ EditingInv /\ WayInv /\ QuietInv
-----------------------------------------------------------------------------
LEMMA FrameFacts ==
  /\ \A f \in Frame : f.do = "deliver" => f \in Delivery
  /\ \A f \in Frame : f.do = "wait" => f.block \in Other
  /\ \A f \in Frame : f.do = "update" => f.set \in Nat /\ f.sync \in BOOLEAN
  /\ \A f \in Frame : f.do = "complete" => f.set \in Nat
  /\ \A f \in Frame : f.do \in {"app", "synchronize", "runBlocks", "clear"} => f \in Below
  /\ Piece \subseteq Frame /\ Below \subseteq Frame /\ Other \subseteq Piece
  /\ retry \in Frame /\ app \in Below /\ runBlocks \in Below
BY DEF Frame, Piece, Below, Delivery, Other, retry, app, runBlocks

LEMMA HeadIsFirst ==
  ASSUME NEW S, NEW s \in Seq(S), s # <<>>
  PROVE  Head(s) = s[1] /\ s[1] \in S /\ 1 \in DOMAIN s
BY LenProperties, EmptySeq, ElementOfSeq

(* What takes the place of the top of the stack.                            *)
LEMMA StackBecomes ==
  ASSUME TypeInv, StackInv, main # <<>>, NEW frames \in Seq(Frame), Becomes(frames),
         \A i \in 2 .. Len(frames) : frames[i] \in Below /\ frames[i].do # "clear",
         Top("wait") => frames = <<runBlocks>>,
         Top("runBlocks") => frames = <<>>
  PROVE  /\ main' \in Seq(Frame) /\ StackInv'
         /\ frames # <<>> => main' # <<>> /\ Head(main') = frames[1]
         /\ frames = <<>> /\ main' # <<>> => Head(main') = main[2] /\ Head(main') \in Below
         /\ ClearWaits' => ClearWaits \/ Top("wait")
         /\ frames = <<>> /\ Top("clear")' => ClearWaits /\ Top("runBlocks")
<1> DEFINE n == Len(frames)
<1>1. /\ Tail(main) \in Seq(Frame) /\ Len(Tail(main)) = Len(main) - 1
      /\ \A i \in 1 .. Len(main) - 1 : Tail(main)[i] = main[i + 1]
      /\ Len(main) \in Nat \ {0} /\ n \in Nat /\ Head(main) = main[1]
      /\ frames # <<>> <=> n # 0
  BY HeadTailProperties, EmptySeq, HeadIsFirst DEF TypeInv
<1>2. /\ main' \in Seq(Frame) /\ Len(main') = n + Len(main) - 1
      /\ \A i \in 1 .. n + Len(main) - 1 :
           main'[i] = IF i <= n THEN frames[i] ELSE main[i - n + 1]
  <2> HIDE DEF n
  <2>1. /\ main' \in Seq(Frame) /\ Len(main') = n + (Len(main) - 1)
        /\ \A i \in 1 .. n + (Len(main) - 1) :
             main'[i] = IF i <= n THEN frames[i] ELSE Tail(main)[i - n]
    BY <1>1, ConcatProperties DEF Becomes, n
  <2> QED
    BY <1>1, <2>1
<1>3. \A i \in 2 .. Len(main) : main[i].do = "clear" /\ i = 2 => main[1].do \in {"wait", "runBlocks"}
  BY DEF StackInv
<1>4. n = 1 /\ main[1].do = "wait" => frames[1].do = "runBlocks"
  BY <1>1 DEF Top, runBlocks
<1>5. StackInv'
  <2> SUFFICES ASSUME NEW i \in 2 .. Len(main')
               PROVE  /\ main'[i] \in Below
                      /\ main'[i].do = "clear" => main'[i - 1].do \in {"wait", "runBlocks"}
    BY DEF StackInv
  <2>1. CASE i <= n
    BY <1>1, <1>2, <2>1
  <2>2. CASE i > n + 1
    <3>1. i - n + 1 \in 2 .. Len(main) /\ main'[i] = main[i - n + 1] /\ main'[i - 1] = main[i - n]
      BY <1>1, <1>2, <2>2
    <3> QED
      BY <1>1, <3>1 DEF StackInv
  <2>3. CASE i = n + 1
    <3>1. /\ 2 \in 2 .. Len(main) /\ main'[i] = main[2] /\ main'[i - 1] = frames[n]
          /\ n # 0
      BY <1>1, <1>2, <2>3
    <3>2. main[2] \in Below /\ (main[2].do = "clear" => main[1].do \in {"wait", "runBlocks"})
      BY <3>1 DEF StackInv
    <3>3. CASE main[1].do = "wait"
      BY <1>1, <1>4, <3>1, <3>2, <3>3 DEF Top
    <3> QED
      BY <1>1, <3>1, <3>2, <3>3 DEF Top
  <2> QED
    BY <1>1, <2>1, <2>2, <2>3
<1>6. frames # <<>> => main' # <<>> /\ Head(main') = frames[1]
  BY <1>1, <1>2, HeadIsFirst, EmptySeq
<1>7. frames = <<>> /\ main' # <<>> => Head(main') = main[2] /\ 2 \in 2 .. Len(main)
  BY <1>1, <1>2, HeadIsFirst, EmptySeq
<1>8. ClearWaits' => ClearWaits \/ Top("wait")
  <2> SUFFICES ASSUME NEW i \in 2 .. Len(main'), main'[i].do = "clear", main'[i - 1].do = "runBlocks",
                      ~Top("wait")
               PROVE  ClearWaits
    BY DEF ClearWaits
  <2>1. i > n
    BY <1>1, <1>2
  <2>2. CASE i > n + 1
    <3>1. i - n + 1 \in 2 .. Len(main) /\ main'[i] = main[i - n + 1] /\ main'[i - 1] = main[(i - n + 1) - 1]
      <4>1. /\ i \in Int /\ i - 1 > n /\ i <= n + Len(main) - 1 /\ i - 1 \in 1 .. n + Len(main) - 1
            /\ (i - 1) - n + 1 = (i - n + 1) - 1
        BY <1>1, <1>2, <2>2
      <4> QED
        BY <1>1, <1>2, <4>1
    <3> QED
      BY <3>1 DEF ClearWaits
  <2>3. CASE i = n + 1
    <3>1. 2 \in 2 .. Len(main) /\ main[2].do = "clear" /\ n # 0
      BY <1>1, <1>2, <2>3
    <3>2. main[1].do = "runBlocks"
      BY <1>1, <3>1 DEF StackInv, Top
    <3> QED
      BY <1>1, <3>1, <3>2 DEF Top
  <2> QED
    BY <1>1, <2>1, <2>2, <2>3
<1>9. frames = <<>> /\ Top("clear")' => ClearWaits /\ Top("runBlocks")
  <2> SUFFICES ASSUME frames = <<>>, Top("clear")'
               PROVE  ClearWaits /\ Top("runBlocks")
    OBVIOUS
  <2>1. main[2].do = "clear" /\ 2 \in 2 .. Len(main)
    BY <1>7 DEF Top
  <2>2. main[1].do \in {"wait", "runBlocks"}
    BY <2>1 DEF StackInv
  <2>3. ~Top("wait")
    BY <1>1
  <2> QED
    BY <1>1, <2>1, <2>2, <2>3 DEF ClearWaits, Top
<1> QED
  BY <1>2, <1>5, <1>6, <1>7, <1>8, <1>9 DEF StackInv

(* What is called from an empty stack, the application or the queue.        *)
LEMMA StackCalls ==
  ASSUME TypeInv, StackInv, NEW frames \in Seq(Frame), Calls(frames),
         main = <<>> \/ Top("app") \/ Top("runBlocks"),
         \A i \in 2 .. Len(frames) :
           frames[i] \in Below /\ (frames[i].do = "clear" => frames[i - 1].do = "wait")
  PROVE  /\ main' \in Seq(Frame) /\ StackInv'
         /\ frames # <<>> => main' # <<>> /\ Head(main') = frames[1]
         /\ frames = <<>> => main' = main
         /\ ClearWaits' => ClearWaits
         /\ \A i \in DOMAIN main' :
              \/ \E j \in DOMAIN frames : main'[i] = frames[j]
              \/ \E j \in DOMAIN main : main'[i] = main[j]
<1> DEFINE n == Len(frames)
<1>1. /\ main' \in Seq(Frame) /\ Len(main') = n + Len(main) /\ Len(main) \in Nat /\ n \in Nat
      /\ \A i \in 1 .. n + Len(main) : main'[i] = IF i <= n THEN frames[i] ELSE main[i - n]
      /\ frames # <<>> <=> n # 0
  BY ConcatProperties, EmptySeq, LenProperties DEF Calls, TypeInv
<1>2. Len(main) > 0 => main[1].do \in {"app", "runBlocks"} /\ main[1] \in Below
  <2>1. Len(main) > 0 => main # <<>> /\ Head(main) = main[1] /\ main[1] \in Frame
    BY <1>1, HeadIsFirst, EmptySeq DEF TypeInv
  <2> QED
    BY <2>1, FrameFacts DEF Top
<1>3. ASSUME NEW i \in 2 .. Len(main'), i > n
      PROVE  /\ main'[i] = main[i - n]
             /\ i > n + 1 => i - n \in 2 .. Len(main) /\ main'[i - 1] = main[i - n - 1]
             /\ i = n + 1 => main'[i].do # "clear" /\ main'[i] \in Below
  BY <1>1, <1>2, <1>3
<1>4. StackInv'
  <2> SUFFICES ASSUME NEW i \in 2 .. Len(main')
               PROVE  /\ main'[i] \in Below
                      /\ main'[i].do = "clear" => main'[i - 1].do \in {"wait", "runBlocks"}
    BY DEF StackInv
  <2>1. CASE i <= n
    BY <1>1, <2>1
  <2>2. CASE i > n + 1
    <3>1. i - n \in 2 .. Len(main) /\ main'[i] = main[i - n] /\ main'[i - 1] = main[(i - n) - 1]
      BY <1>1, <2>2
    <3> QED
      BY <3>1 DEF StackInv
  <2>3. CASE i = n + 1
    BY <1>1, <1>3, <2>3
  <2> QED
    BY <1>1, <2>1, <2>2, <2>3
<1>5. ClearWaits' => ClearWaits
  <2> SUFFICES ASSUME NEW i \in 2 .. Len(main'), main'[i].do = "clear", main'[i - 1].do = "runBlocks"
               PROVE  ClearWaits
    BY DEF ClearWaits
  <2>1. CASE i <= n
    <3>1. i \in 2 .. Len(frames) /\ main'[i] = frames[i] /\ main'[i - 1] = frames[i - 1]
      BY <1>1, <2>1
    <3>2. frames[i].do = "clear" => frames[i - 1].do = "wait"
      BY <3>1
    <3> QED
      BY <3>1, <3>2
  <2>2. CASE i > n
    <3>1. i - n \in 2 .. Len(main) /\ main'[i] = main[i - n] /\ main'[i - 1] = main[(i - n) - 1]
      BY <1>1, <1>3, <2>2
    <3> QED
      BY <3>1 DEF ClearWaits
  <2> QED
    BY <1>1, <2>1, <2>2
<1>6. frames # <<>> => main' # <<>> /\ Head(main') = frames[1]
  BY <1>1, HeadIsFirst, EmptySeq
<1>7. frames = <<>> => main' = main
  BY ConcatEmptySeq DEF Calls, TypeInv
<1>8. ASSUME NEW i \in DOMAIN main'
      PROVE  \/ \E j \in DOMAIN frames : main'[i] = frames[j]
             \/ \E j \in DOMAIN main : main'[i] = main[j]
  <2>1. /\ DOMAIN main' = 1 .. Len(main') /\ DOMAIN frames = 1 .. n /\ DOMAIN main = 1 .. Len(main)
    BY <1>1, LenProperties DEF TypeInv
  <2>2. CASE i <= n
    BY <1>1, <2>1, <2>2
  <2>3. CASE i > n
    <3>1. i - n \in 1 .. Len(main) /\ main'[i] = main[i - n]
      BY <1>1, <2>1, <2>3
    <3> QED
      BY <2>1, <3>1
  <2> QED
    BY <1>1, <2>1, <2>2, <2>3
<1> QED
  BY <1>1, <1>4, <1>5, <1>6, <1>7, <1>8
(* A step of the main thread that moves no map and no block.                *)
LEMMA MainMoves ==
  ASSUME Inv, UNCHANGED <<blocks, editing, pushed, dispatched, groupCount, pendingMap, visibleMap>>,
         main' \in Seq(Frame), StackInv', ClearWaits' => ClearWaits,
         mainQueue' \in Seq({runBlocks, retry}), changeSets' \in Seq(Kind),
         ~Top("deliver"), ~Top("deliver")', ~Top("relayout")',
         Top("clear")' => ClearWaits /\ blocks = <<>>,
         Top("update")' => ~Replacing'
  PROVE  Inv'
<1> USE DEF Inv
<1>1. TypeInv' /\ EditingInv'
  BY DEF TypeInv, EditingInv, Delivering
<1>2. \A i \in Nat : (InBlocks(i)' <=> InBlocks(i)) /\ (InEditing(i)' <=> InEditing(i))
  BY DEF InBlocks, InEditing, Delivering
<1>3. \A m \in Nat : IsComing(m)' <=> IsComing(m)
  BY <1>2 DEF IsComing
<1>4. WayInv'
  <2>1. NoneIsSkipped'
    BY <1>3 DEF WayInv, NoneIsSkipped, TypeInv
  <2>2. NoneIsStale'
    BY <1>3 DEF WayInv, NoneIsStale
  <2>3. AllAreInOrder'
    BY <1>2 DEF WayInv, AllAreInOrder
  <2> QED
    BY <2>1, <2>2, <2>3 DEF WayInv
<1>5. WillReplace' => GroupIsEmpty'
  BY DEF QuietInv, WillReplace, GroupIsEmpty
<1>6. Top("clear")' => \A i \in Nat : ~InBlocks(i)'
  BY <1>2 DEF InBlocks
<1>7. QuietInv'
  BY <1>5, <1>6 DEF QuietInv, InBlocks
<1> QED
  BY <1>1, <1>4, <1>7

Plain == {"complete", "app", "finishProcessing", "nothing", "wait", "runBlocks"}

LEMMA MainBecomes ==
  ASSUME Inv, UNCHANGED <<blocks, editing, pushed, dispatched, groupCount, pendingMap, visibleMap>>,
         main # <<>>, NEW frames \in Seq(Frame), Becomes(frames),
         \A i \in 2 .. Len(frames) : frames[i] \in Below /\ frames[i].do # "clear",
         frames # <<>> => frames[1].do \in Plain,
         ~Top("wait"), Top("runBlocks") => frames = <<>> /\ blocks = <<>>, ~Top("deliver"),
         mainQueue' \in Seq({runBlocks, retry}), changeSets' \in Seq(Kind)
  PROVE  Inv'
<1>1. /\ main' \in Seq(Frame) /\ StackInv'
      /\ frames # <<>> => main' # <<>> /\ Head(main') = frames[1]
      /\ frames = <<>> /\ main' # <<>> => Head(main') \in Below
      /\ ClearWaits' => ClearWaits \/ Top("wait")
      /\ frames = <<>> /\ Top("clear")' => ClearWaits /\ Top("runBlocks")
  <2>1. TypeInv /\ StackInv
    BY DEF Inv
  <2> QED
    BY <2>1, StackBecomes
<1>2. main' # <<>> => Head(main').do \in Plain \cup {"synchronize", "clear"}
  BY <1>1 DEF Below, Plain
<1>3. ~Top("deliver")' /\ ~Top("relayout")' /\ ~Top("update")'
  BY <1>2 DEF Top, Plain
<1>4. Top("clear")' => frames = <<>>
  BY <1>1 DEF Top, Plain
<1>5. Top("clear")' => ClearWaits /\ blocks = <<>>
  BY <1>1, <1>4
<1> QED
  BY <1>1, <1>3, <1>5, MainMoves

LEMMA MainCalls ==
  ASSUME Inv, UNCHANGED <<blocks, editing, pushed, dispatched, groupCount, pendingMap, visibleMap>>,
         main = <<>> \/ Top("app"), NEW frames \in Seq(Frame), Calls(frames),
         \A i \in 2 .. Len(frames) :
           frames[i] \in Below /\ (frames[i].do = "clear" => frames[i - 1].do = "wait"),
         frames # <<>> => frames[1].do \in Plain \/ (frames[1].do = "update" /\ ~Replacing'),
         mainQueue' \in Seq({runBlocks, retry}), changeSets' \in Seq(Kind)
  PROVE  Inv'
<1>1. /\ main' \in Seq(Frame) /\ StackInv'
      /\ frames # <<>> => main' # <<>> /\ Head(main') = frames[1]
      /\ frames = <<>> => main' = main
      /\ ClearWaits' => ClearWaits
  <2>1. TypeInv /\ StackInv
    BY DEF Inv
  <2> QED
    BY <2>1, StackCalls
<1>2. main' # <<>> => \/ Head(main').do \in Plain
                      \/ Head(main').do = "update" /\ ~Replacing'
  BY <1>1 DEF Top, Plain
<1>3. ~Top("deliver")' /\ ~Top("relayout")' /\ ~Top("clear")' /\ ~Top("deliver")
  BY <1>2 DEF Top, Plain
<1>4. Top("update")' => ~Replacing'
  BY <1>2 DEF Top, Plain
<1> QED
  BY <1>1, <1>3, <1>4, MainMoves
-----------------------------------------------------------------------------
LEMMA Frames ==
  /\ <<>> \in Seq(Frame)
  /\ \A f \in Frame : <<f>> \in Seq(Frame) /\ Len(<<f>>) = 1 /\ <<f>> # <<>> /\ <<f>>[1] = f
  /\ \A f, g \in Frame : /\ <<f, g>> \in Seq(Frame) /\ Len(<<f, g>>) = 2 /\ <<f, g>> # <<>>
                         /\ <<f, g>>[1] = f /\ <<f, g>>[2] = g
OBVIOUS

(* Nothing is put below the first frame.                                    *)
LEMMA NoneBelow ==
  ASSUME NEW frames, Len(frames) \in {0, 1}
  PROVE  \A i \in 2 .. Len(frames) :
           frames[i] \in Below /\ (frames[i].do = "clear" => frames[i - 1].do = "wait")
OBVIOUS

LEMMA SubmitKeeps ==
  ASSUME Inv, ~HandlersUpdate, NEW kind \in Kind, NEW sync \in BOOLEAN, submit(kind, sync)
  PROVE  Inv'
<1> DEFINE frame == [do |-> "update", set |-> Len(changeSets) + 1, sync |-> sync]
<1> DEFINE frames == <<frame>>
<1>1. frame \in Frame /\ frame.do = "update"
  BY LenProperties DEF Frame, Inv, TypeInv
<1>2. main = <<>> \/ Top("app")
  BY DEF submit, AppRuns, Top
<1>3. Calls(frames) /\ UNCHANGED <<blocks, mainQueue, editing, pushed, dispatched, groupCount, pendingMap, visibleMap>>
  BY DEF submit, mapVars, editVars
<1>4. changeSets' \in Seq(Kind) /\ mainQueue' \in Seq({runBlocks, retry})
  BY AppendProperties DEF submit, Inv, TypeInv
<1>5. frames \in Seq(Frame) /\ Len(frames) = 1 /\ frames[1] = frame
  BY <1>1, Frames
<1> HIDE DEF frame
<1>0. TypeInv /\ StackInv
  BY DEF Inv
<1>7. \A i \in 2 .. Len(frames) :
        frames[i] \in Below /\ (frames[i].do = "clear" => frames[i - 1].do = "wait")
  BY <1>5, NoneBelow
<1> HIDE DEF frames
<1>6. ~Replacing'
  <2>1. ~Replacing
    BY DEF submit
  <2>2. \A i \in DOMAIN main' :
          \/ \E j \in DOMAIN frames : main'[i] = frames[j]
          \/ \E j \in DOMAIN main : main'[i] = main[j]
    BY <1>0, <1>2, <1>3, <1>5, <1>7, StackCalls
  <2>3. \A j \in DOMAIN frames : frames[j] = frame
    BY <1>5
  <2> QED
    BY <1>1, <1>3, <2>1, <2>2, <2>3 DEF Replacing
<1> QED
  BY <1>1, <1>2, <1>3, <1>4, <1>5, <1>6, <1>7, MainCalls

LEMMA CallKeeps ==
  ASSUME Inv, NEW frames \in Seq(Frame), AppRuns, Calls(frames),
         UNCHANGED <<blocks, mainQueue, mapVars, setVars, editVars>>,
         frames # <<>> => frames[1].do \in Plain,
         \A i \in 2 .. Len(frames) :
           frames[i] \in Below /\ (frames[i].do = "clear" => frames[i - 1].do = "wait")
  PROVE  Inv'
<1>1. main = <<>> \/ Top("app")
  BY DEF AppRuns, Top
<1>2. UNCHANGED <<blocks, editing, pushed, dispatched, groupCount, pendingMap, visibleMap, mainQueue, changeSets>>
  BY DEF mapVars, setVars, editVars
<1>3. mainQueue' \in Seq({runBlocks, retry}) /\ changeSets' \in Seq(Kind)
  BY <1>2 DEF Inv, TypeInv
<1> QED
  BY <1>1, <1>2, <1>3, MainCalls

LEMMA ApplicationKeeps ==
  ASSUME Inv, ~HandlersUpdate, Application
  PROVE  Inv'
<1>1. ASSUME NEW kind \in Kind, NEW sync \in BOOLEAN, submit(kind, sync)
      PROVE  Inv'
  BY <1>1, SubmitKeeps
<1>2. \A block \in Other : /\ waitThen(block) \in Frame /\ waitThen(block).do = "wait"
  BY DEF waitThen, Frame
<1>3. nothing \in Other /\ [do |-> "relayout"] \in Other
  BY DEF nothing, Other
<1>4. ASSUME NEW block \in Other, call(<<waitThen(block)>>)
      PROVE  Inv'
  <2> DEFINE frames == <<waitThen(block)>>
  <2>1. frames \in Seq(Frame) /\ Len(frames) = 1 /\ frames[1].do \in Plain
    BY <1>2, Frames DEF Plain
  <2>2. AppRuns /\ Calls(frames) /\ UNCHANGED <<blocks, mainQueue, mapVars, setVars, editVars>>
    BY <1>4 DEF call
  <2>3. \A i \in 2 .. Len(frames) :
          frames[i] \in Below /\ (frames[i].do = "clear" => frames[i - 1].do = "wait")
    BY <2>1, NoneBelow
  <2> HIDE DEF frames
  <2> QED
    BY <2>1, <2>2, <2>3, CallKeeps
<1>5. ASSUME waitUntilAllUpdatesAreProcessed PROVE Inv'
  BY <1>3, <1>4, <1>5 DEF waitUntilAllUpdatesAreProcessed
<1>6. ASSUME relayoutAllNodes PROVE Inv'
  BY <1>3, <1>4, <1>6 DEF relayoutAllNodes
<1>9. ASSUME AppRuns, Calls(<<>>), UNCHANGED <<blocks, mainQueue, mapVars, setVars, editVars>>
      PROVE  Inv'
  <2> DEFINE frames == <<>>
  <2>1. Len(frames) = 0 /\ frames \in Seq(Frame) /\ frames = <<>> /\ Calls(frames)
    BY <1>9, Frames
  <2>2. \A i \in 2 .. Len(frames) :
          frames[i] \in Below /\ (frames[i].do = "clear" => frames[i - 1].do = "wait")
    BY <2>1, NoneBelow
  <2> HIDE DEF frames
  <2> QED
    BY <1>9, <2>1, <2>2, CallKeeps
<1>7. ASSUME NEW block \in Block, onDidFinishSynchronizing(block)
      PROVE  Inv'
  BY <1>7, <1>9 DEF onDidFinishSynchronizing, call
<1>8. ASSUME NEW new \in BOOLEAN, setDataSource(new)
      PROVE  Inv'
  <2> DEFINE clear == [do |-> "clear"]
  <2> DEFINE frames == IF ~new /\ loaded THEN <<waitThen(nothing), clear>> ELSE <<>>
  <2>1. clear \in Below /\ clear \in Frame
    BY FrameFacts DEF Below
  <2>2. CASE frames = <<>>
    <3>1. AppRuns /\ Calls(<<>>) /\ UNCHANGED <<blocks, mainQueue, mapVars, setVars, editVars>>
      BY <1>8, <2>2 DEF setDataSource
    <3> QED
      BY <1>9, <3>1
  <2>3. CASE frames = <<waitThen(nothing), clear>>
    <3> DEFINE both == <<waitThen(nothing), clear>>
    <3>1. AppRuns /\ Calls(both) /\ UNCHANGED <<blocks, mainQueue, mapVars, setVars, editVars>>
      BY <1>8, <2>3 DEF setDataSource
    <3>2. /\ both \in Seq(Frame) /\ Len(both) = 2
          /\ both[1] = waitThen(nothing) /\ both[2] = clear
      BY <1>2, <1>3, <2>1, Frames
    <3>3. both[1].do = "wait" /\ both[1].do \in Plain
      BY <1>2, <1>3, <3>2 DEF Plain
    <3>4. \A i \in 2 .. Len(both) :
            both[i] \in Below /\ (both[i].do = "clear" => both[i - 1].do = "wait")
      BY <2>1, <3>2, <3>3
    <3> HIDE DEF both
    <3> QED
      BY <3>1, <3>2, <3>3, <3>4, CallKeeps
  <2> QED
    BY <2>2, <2>3
<1> QED
  BY <1>1, <1>5, <1>6, <1>7, <1>8 DEF Application
-----------------------------------------------------------------------------
LEMMA NothingMoves ==
  ASSUME Inv, UNCHANGED <<blocks, main, editing, pushed, groupCount, pendingMap, visibleMap, changeSets>>,
         dispatched' => pushed, mainQueue' \in Seq({runBlocks, retry})
  PROVE  Inv'
<1> USE DEF Inv
<1>1. TypeInv' /\ StackInv' /\ EditingInv'
  BY DEF TypeInv, StackInv, EditingInv, Delivering
<1>2. WayInv'
  BY DEF WayInv, NoneIsSkipped, NoneIsStale, AllAreInOrder, IsComing, InBlocks, InEditing, Delivering, Top
<1>3. QuietInv'
  BY DEF QuietInv, WillReplace, ClearWaits, GroupIsEmpty, InBlocks, Replacing, Top
<1> QED
  BY <1>1, <1>2, <1>3

LEMMA PopKeeps ==
  ASSUME Inv, UNCHANGED <<blocks, mainQueue, mapVars, editVars, changeSets>>, main # <<>>, Becomes(<<>>),
         Head(main).do \notin {"wait", "deliver"}, Top("runBlocks") => blocks = <<>>
  PROVE  Inv'
<1> DEFINE frames == <<>>
<1>1. frames \in Seq(Frame) /\ Len(frames) = 0 /\ frames = <<>> /\ Becomes(frames)
  BY Frames
<1>2. UNCHANGED <<blocks, editing, pushed, dispatched, groupCount, pendingMap, visibleMap>>
  BY DEF mapVars, editVars
<1>3. \A i \in 2 .. Len(frames) : frames[i] \in Below /\ frames[i].do # "clear"
  BY <1>1
<1>4. mainQueue' \in Seq({runBlocks, retry}) /\ changeSets' \in Seq(Kind)
  BY DEF Inv, TypeInv
<1>5. ~Top("wait") /\ ~Top("deliver")
  BY DEF Top
<1> HIDE DEF frames
<1> QED
  BY <1>1, <1>2, <1>3, <1>4, <1>5, MainBecomes

LEMMA ReplaceTopKeeps ==
  ASSUME Inv, UNCHANGED <<blocks, mainQueue, mapVars, editVars, changeSets>>, main # <<>>,
         Head(main).do \notin {"wait", "deliver", "runBlocks"},
         NEW f \in Frame, f.do \in Plain, Becomes(<<f>>)
  PROVE  Inv'
<1> DEFINE frames == <<f>>
<1>1. frames \in Seq(Frame) /\ Len(frames) = 1 /\ frames[1] = f /\ Becomes(frames)
  BY Frames
<1>2. UNCHANGED <<blocks, editing, pushed, dispatched, groupCount, pendingMap, visibleMap>>
  BY DEF mapVars, editVars
<1>3. \A i \in 2 .. Len(frames) : frames[i] \in Below /\ frames[i].do # "clear"
  BY <1>1
<1>4. mainQueue' \in Seq({runBlocks, retry}) /\ changeSets' \in Seq(Kind)
  BY DEF Inv, TypeInv
<1>5. ~Top("wait") /\ ~Top("deliver") /\ ~Top("runBlocks")
  BY DEF Top
<1> HIDE DEF frames
<1> QED
  BY <1>1, <1>2, <1>3, <1>4, <1>5, MainBecomes

LEMMA CompleteKeeps ==
  ASSUME Inv, complete
  PROVE  Inv'
<1> DEFINE done == [do |-> "synchronize"]
<1> DEFINE frames == <<app, done>>
<1>1. app \in Frame /\ app.do \in Plain /\ done \in Below /\ done \in Frame /\ done.do # "clear"
  BY FrameFacts DEF app, Below, Plain
<1> HIDE DEF done
<1>2. /\ frames \in Seq(Frame) /\ Len(frames) = 2
      /\ frames[1] = app /\ frames[2] = done
  BY <1>1, Frames
<1>3. \A i \in 2 .. Len(frames) : frames[i] \in Below /\ frames[i].do # "clear"
  BY <1>1, <1>2
<1>4. Becomes(frames)
  BY DEF complete, done
<1> HIDE DEF frames
<1>5. UNCHANGED <<blocks, editing, pushed, dispatched, groupCount, pendingMap, visibleMap>>
  BY DEF complete, mapVars, editVars
<1>6. mainQueue' \in Seq({runBlocks, retry}) /\ changeSets' \in Seq(Kind)
  BY DEF Inv, TypeInv, complete
<1>7. main # <<>> /\ ~Top("wait") /\ ~Top("deliver") /\ ~Top("runBlocks")
  BY DEF Top, complete
<1> QED
  BY <1>1, <1>2, <1>3, <1>4, <1>5, <1>6, <1>7, MainBecomes

(* The steps of the main thread that move no map.                           *)
LEMMA TurnsKeep ==
  ASSUME Inv,
         \/ doNothing \/ skipUnloaded \/ complete \/ returnFromApp \/ synchronize \/ announce
         \/ SerialQueue /\ (finishRunBlocks \/ runMainQueue)
  PROVE  Inv'
<1> USE DEF Top
<1>1. ASSUME doNothing PROVE Inv'
  BY <1>1, PopKeeps DEF doNothing, setVars
<1>2. ASSUME returnFromApp PROVE Inv'
  BY <1>2, PopKeeps DEF returnFromApp, setVars
<1>3. ASSUME announce PROVE Inv'
  BY <1>3, PopKeeps DEF announce, setVars
<1>4. ASSUME SerialQueue, finishRunBlocks PROVE Inv'
  BY <1>4, PopKeeps DEF SerialQueue, finishRunBlocks, setVars
<1>5. ASSUME synchronize PROVE Inv'
  <2>1. retry \in Frame /\ retry.do \in Plain
    BY FrameFacts DEF retry, Plain
  <2> QED
    BY <1>5, <2>1, ReplaceTopKeeps DEF synchronize, setVars
<1>6. ASSUME skipUnloaded PROVE Inv'
  <2>1. Head(main) \in Frame /\ main # <<>> /\ Head(main).do = "update"
    BY <1>6, HeadIsFirst DEF skipUnloaded, Inv, TypeInv
  <2> DEFINE f == [do |-> "complete", set |-> Head(main).set]
  <2>2. f \in Frame /\ f.do \in Plain
    BY <2>1, FrameFacts DEF Frame, Plain
  <2> QED
    BY <1>6, <2>1, <2>2, ReplaceTopKeeps DEF skipUnloaded, setVars
<1>7. ASSUME SerialQueue, runMainQueue PROVE Inv'
  <2> DEFINE f == Head(mainQueue)
  <2> DEFINE frames == <<f>>
  <2>1. f \in {runBlocks, retry} /\ mainQueue' \in Seq({runBlocks, retry})
    BY <1>7, HeadTailProperties DEF runMainQueue, Inv, TypeInv
  <2>2. f \in Frame /\ f.do \in Plain
    BY <2>1, FrameFacts DEF retry, runBlocks, Plain
  <2> HIDE DEF f
  <2>3. frames \in Seq(Frame) /\ Len(frames) = 1 /\ frames[1] = f
    BY <2>2, Frames
  <2>4. \A i \in 2 .. Len(frames) :
          frames[i] \in Below /\ (frames[i].do = "clear" => frames[i - 1].do = "wait")
    BY <2>3, NoneBelow
  <2>5. main = <<>> /\ Calls(frames)
    BY <1>7 DEF runMainQueue, f
  <2> HIDE DEF frames
  <2>6. UNCHANGED <<blocks, editing, pushed, dispatched, groupCount, pendingMap, visibleMap, changeSets>>
    BY <1>7 DEF runMainQueue, SerialQueue, mapVars, editVars, setVars
  <2>7. changeSets' \in Seq(Kind)
    BY <2>6 DEF Inv, TypeInv
  <2> QED
    BY <2>1, <2>2, <2>3, <2>4, <2>5, <2>6, <2>7, MainCalls
<1> QED
  BY <1>1, <1>2, <1>3, <1>4, <1>5, <1>6, <1>7, CompleteKeeps

LEMMA UIKitKeeps ==
  ASSUME Inv, numberOfSections \/ \E c \in 1 .. MaxChangeSets : endAnimation(c)
  PROVE  Inv'
<1>1. ASSUME numberOfSections PROVE Inv'
  BY <1>1, NothingMoves
     DEF numberOfSections, serialVars, mapVars, setVars, editVars, Inv, TypeInv, EditingInv
<1>2. ASSUME NEW c \in 1 .. MaxChangeSets, endAnimation(c)
      PROVE  Inv'
  <2> DEFINE f == [do |-> "complete", set |-> c]
  <2> DEFINE frames == <<f>>
  <2>1. f \in Frame /\ f.do \in Plain
    BY DEF Frame, Plain
  <2>2. main = <<>> /\ AppRuns /\ Calls(frames) /\ UNCHANGED <<blocks, mainQueue, mapVars, setVars, editVars>>
    BY <1>2 DEF endAnimation, AppRuns
  <2> HIDE DEF f
  <2>3. frames \in Seq(Frame) /\ Len(frames) = 1 /\ frames[1] = f
    BY <2>1, Frames
  <2>4. \A i \in 2 .. Len(frames) :
          frames[i] \in Below /\ (frames[i].do = "clear" => frames[i - 1].do = "wait")
    BY <2>3, NoneBelow
  <2> HIDE DEF frames
  <2> QED
    BY <2>1, <2>2, <2>3, <2>4, CallKeeps
<1> QED
  BY <1>1, <1>2

LEMMA DispatchKeeps ==
  ASSUME Inv, dispatch
  PROVE  Inv'
<1>1. mainQueue' \in Seq({runBlocks, retry})
  BY AppendProperties DEF dispatch, dispatchRunBlocks, Inv, TypeInv
<1> QED
  BY <1>1, NothingMoves DEF dispatch, dispatchRunBlocks, mapVars, setVars
-----------------------------------------------------------------------------
LEMMA AppendFacts ==
  ASSUME NEW S, NEW s \in Seq(S), NEW e \in S
  PROVE  /\ Append(s, e) \in Seq(S) /\ Append(s, e) # <<>> /\ Len(s) \in Nat
         /\ DOMAIN s = 1 .. Len(s) /\ DOMAIN Append(s, e) = 1 .. Len(s) + 1
         /\ \A i \in 1 .. Len(s) : Append(s, e)[i] = s[i]
         /\ Append(s, e)[Len(s) + 1] = e
BY AppendProperties, LenProperties

LEMMA TailFacts ==
  ASSUME NEW S, NEW s \in Seq(S), s # <<>>
  PROVE  /\ Tail(s) \in Seq(S) /\ Len(s) \in Nat \ {0}
         /\ Head(s) = s[1] /\ s[1] \in S
         /\ DOMAIN s = 1 .. Len(s) /\ DOMAIN Tail(s) = 1 .. Len(s) - 1
         /\ \A i \in 1 .. Len(s) - 1 : Tail(s)[i] = s[i + 1]
<1>1. Tail(s) \in Seq(S) /\ Len(Tail(s)) = Len(s) - 1 /\ Len(s) \in Nat \ {0}
  BY HeadTailProperties, EmptySeq
<1>2. DOMAIN Tail(s) = 1 .. Len(Tail(s)) /\ DOMAIN s = 1 .. Len(s)
  BY <1>1, LenProperties
<1> QED
  BY <1>1, <1>2, HeadTailProperties, HeadIsFirst

LEMMA DeliveringIsFinite ==
  ASSUME editing \in Seq(Edit)
  PROVE  IsFiniteSet(Delivering) /\ Cardinality(Delivering) \in Nat
<1>1. Delivering \in SUBSET (1 .. Len(editing)) /\ Len(editing) \in Nat
  BY LenProperties DEF Delivering
<1>3. IsFiniteSet(1 .. Len(editing))
  BY <1>1, FS_Interval
<1>2. IsFiniteSet(Delivering)
  BY <1>1, <1>3, FS_Subset
<1> QED
  BY <1>2, FS_CardinalityType

(* The count is right when an edit is added, and when one is done.          *)
LEMMA CountOfAppended ==
  ASSUME TypeInv, EditingInv, NEW e \in Edit, editing' = Append(editing, e),
         UNCHANGED <<pushed, dispatched>>,
         groupCount' = IF e.do = "deliver" THEN groupCount + 1 ELSE groupCount
  PROVE  EditingInv' /\ editing' \in Seq(Edit)
<1>1. /\ editing' \in Seq(Edit) /\ editing' # <<>> /\ Len(editing) \in Nat
      /\ DOMAIN editing = 1 .. Len(editing) /\ DOMAIN editing' = 1 .. Len(editing) + 1
      /\ \A i \in 1 .. Len(editing) : editing'[i] = editing[i]
      /\ editing'[Len(editing) + 1] = e
  BY AppendFacts DEF TypeInv
<1>2. Delivering' = IF e.do = "deliver" THEN Delivering \cup {Len(editing) + 1} ELSE Delivering
  BY <1>1 DEF Delivering
<1>3. Len(editing) + 1 \notin Delivering
  BY <1>1 DEF Delivering
<1>4. groupCount' = Cardinality(Delivering')
  BY <1>2, <1>3, DeliveringIsFinite, FS_AddElement DEF EditingInv, TypeInv
<1>5. ASSUME editing # <<>> PROVE Head(editing') = Head(editing)
  BY <1>1, <1>5, HeadIsFirst, EmptySeq DEF TypeInv
<1> QED
  BY <1>1, <1>4, <1>5 DEF EditingInv

LEMMA CountOfTail ==
  ASSUME TypeInv, EditingInv, editing # <<>>, editing' = Tail(editing), ~pushed', ~dispatched',
         groupCount' = IF Head(editing).do = "deliver" THEN groupCount - 1 ELSE groupCount
  PROVE  EditingInv' /\ editing' \in Seq(Edit)
<1>1. /\ editing' \in Seq(Edit) /\ Len(editing) \in Nat \ {0} /\ Head(editing) = editing[1]
      /\ DOMAIN editing = 1 .. Len(editing) /\ DOMAIN editing' = 1 .. Len(editing) - 1
      /\ \A i \in 1 .. Len(editing) - 1 : editing'[i] = editing[i + 1]
  BY TailFacts DEF TypeInv
<1> DEFINE rest == Delivering \ {1}
<1>2. IsFiniteSet(rest) /\ Cardinality(rest) = groupCount'
  <2>1. IsFiniteSet(Delivering) /\ Cardinality(Delivering) \in Nat
    BY DeliveringIsFinite DEF TypeInv
  <2>2. 1 \in Delivering <=> Head(editing).do = "deliver"
    BY <1>1 DEF Delivering
  <2> QED
    BY <2>1, <2>2, FS_RemoveElement DEF EditingInv
<1>3. ExistsBijection(rest, Delivering')
  <2> DEFINE f == [i \in rest |-> i - 1]
  <2>1. f \in [rest -> Delivering']
    BY <1>1 DEF Delivering
  <2>2. \A i, j \in rest : f[i] = f[j] => i = j
    BY <1>1 DEF Delivering
  <2>3. \A k \in Delivering' : \E i \in rest : f[i] = k
    <3> SUFFICES ASSUME NEW k \in Delivering'
                 PROVE  \E i \in rest : f[i] = k
      OBVIOUS
    <3>1. k \in Nat /\ k + 1 \in rest
      BY <1>1 DEF Delivering
    <3>2. f[k + 1] = k
      BY <3>1
    <3> QED
      BY <3>1, <3>2
  <2> HIDE DEF f
  <2>4. f \in Bijection(rest, Delivering')
    BY <2>1, <2>2, <2>3 DEF Bijection, Injection, Surjection, IsInjective
  <2> QED
    BY <2>4 DEF ExistsBijection
<1>4. groupCount' = Cardinality(Delivering')
  BY <1>2, <1>3, FS_Bijection
<1> QED
  BY <1>1, <1>4 DEF EditingInv
-----------------------------------------------------------------------------
(* A step that leaves the deliveries on their way, perhaps one place        *)
(* further on in the editing queue.                                         *)
LEMMA WayKept ==
  ASSUME TypeInv, WayInv, UNCHANGED <<pendingMap, visibleMap>>, NEW d \in {0, 1},
         \A i \in Nat : InEditing(i) => i > d,
         \A i \in Nat : InEditing(i)' <=> InEditing(i + d),
         \A i \in Nat : InEditing(i)' => editing'[i].map = editing[i + d].map,
         \A i \in Nat : InBlocks(i)' <=> InBlocks(i),
         \A i \in Nat : InBlocks(i)' => blocks'[i].map = blocks[i].map,
         Top("deliver")' <=> Top("deliver"),
         Top("deliver") => Head(main').map = Head(main).map
  PROVE  WayInv'
<1>1. \A i \in Nat : InEditing(i) => /\ i - d \in Nat /\ InEditing(i - d)'
                                     /\ editing'[i - d].map = editing[i].map
  <2> SUFFICES ASSUME NEW i \in Nat, InEditing(i)
               PROVE  i - d \in Nat /\ InEditing(i - d)' /\ editing'[i - d].map = editing[i].map
    OBVIOUS
  <2>1. i - d \in Nat /\ (i - d) + d = i
    OBVIOUS
  <2> QED
    BY <2>1
<1>2. \A m \in Nat : IsComing(m)' <=> IsComing(m)
  <2> SUFFICES ASSUME NEW m \in Nat
               PROVE  IsComing(m)' <=> IsComing(m)
    OBVIOUS
  <2>1. (\E i \in Nat : InBlocks(i) /\ blocks[i].map = m)'
          <=> \E i \in Nat : InBlocks(i) /\ blocks[i].map = m
    OBVIOUS
  <2>2. ASSUME NEW i \in Nat, InEditing(i)', editing'[i].map = m
        PROVE  \E j \in Nat : InEditing(j) /\ editing[j].map = m
    BY <2>2, i + d \in Nat
  <2>3. ASSUME NEW i \in Nat, InEditing(i), editing[i].map = m
        PROVE  \E j \in Nat : InEditing(j)' /\ editing'[j].map = m
    BY <1>1, <2>3
  <2> QED
    BY <2>1, <2>2, <2>3 DEF IsComing
<1>3. NoneIsSkipped'
  BY <1>2 DEF WayInv, NoneIsSkipped, TypeInv
<1>4. NoneIsStale'
  BY <1>2 DEF WayInv, NoneIsStale
<1>5. AllAreInOrder'
  <2>1. ASSUME NEW i \in Nat, NEW j \in Nat, InEditing(i)', InEditing(j)', i < j
        PROVE  editing'[i].map <= editing'[j].map
    <3>1. i + d \in Nat /\ j + d \in Nat /\ i + d < j + d
      BY <2>1
    <3> QED
      BY <2>1, <3>1 DEF WayInv, AllAreInOrder
  <2>2. ASSUME NEW j \in Nat, InEditing(j)'
        PROVE  /\ \A i \in Nat : InBlocks(i)' => blocks'[i].map <= editing'[j].map
               /\ Top("deliver")' => Head(main').map <= editing'[j].map
    <3>1. j + d \in Nat /\ InEditing(j + d) /\ editing'[j].map = editing[j + d].map
      BY <2>2
    <3> QED
      BY <3>1 DEF WayInv, AllAreInOrder
  <2>3. /\ \A i, j \in Nat : InBlocks(i)' /\ InBlocks(j)' /\ i < j => blocks'[i].map <= blocks'[j].map
        /\ Top("deliver")' => \A i \in Nat : InBlocks(i)' => Head(main').map <= blocks'[i].map
    BY DEF WayInv, AllAreInOrder
  <2> QED
    BY <2>1, <2>2, <2>3 DEF AllAreInOrder
<1> QED
  BY <1>3, <1>4, <1>5 DEF WayInv

LEMMA TryAgainKeeps ==
  ASSUME Inv, tryAgain
  PROVE  Inv'
<1>0. TypeInv /\ StackInv /\ EditingInv /\ WayInv /\ QuietInv
  BY DEF Inv
<1> DEFINE frames == <<>>
<1>1. frames \in Seq(Frame) /\ Len(frames) = 0 /\ frames = <<>> /\ Becomes(frames)
  BY Frames DEF tryAgain
<1>2. main # <<>> /\ ~Top("wait") /\ ~Top("runBlocks") /\ ~Top("deliver")
  BY DEF tryAgain, Top
<1>3. \A i \in 2 .. Len(frames) : frames[i] \in Below /\ frames[i].do # "clear"
  BY <1>1
<1> HIDE DEF frames
<1>4. /\ main' \in Seq(Frame) /\ StackInv'
      /\ main' # <<>> => Head(main') \in Below
      /\ ClearWaits' => ClearWaits
      /\ ~Top("clear")'
  BY <1>0, <1>1, <1>2, <1>3, StackBecomes
<1>5. ~Top("deliver")' /\ ~Top("relayout")' /\ ~Top("update")'
  BY <1>4 DEF Top, Below
<1>6. retry \in Edit /\ retry.do # "deliver"
  BY DEF retry, Edit
<1>7. /\ editing' = Append(editing, retry)
      /\ UNCHANGED <<pushed, dispatched, groupCount, blocks, mainQueue, pendingMap, visibleMap, changeSets>>
  BY DEF tryAgain, mapVars, setVars
<1>8. EditingInv' /\ editing' \in Seq(Edit)
  BY <1>0, <1>6, <1>7, CountOfAppended
<1>9. TypeInv'
  BY <1>0, <1>4, <1>7, <1>8 DEF TypeInv
<1>10. /\ Len(editing) \in Nat
       /\ DOMAIN editing = 1 .. Len(editing) /\ DOMAIN editing' = 1 .. Len(editing) + 1
       /\ \A i \in 1 .. Len(editing) : editing'[i] = editing[i]
       /\ editing'[Len(editing) + 1] = retry
  BY <1>0, <1>6, <1>7, AppendFacts DEF TypeInv
<1>11. \A i \in Nat : /\ InEditing(i)' <=> InEditing(i + 0)
                      /\ InEditing(i)' => editing'[i].map = editing[i + 0].map
                      /\ InEditing(i) => i > 0
  BY <1>6, <1>7, <1>10 DEF InEditing, Delivering
<1>12. \A i \in Nat : /\ InBlocks(i)' <=> InBlocks(i)
                      /\ InBlocks(i)' => blocks'[i].map = blocks[i].map
  BY <1>7 DEF InBlocks
<1>13. WayInv'
  BY <1>0, <1>2, <1>5, <1>7, <1>11, <1>12, WayKept
<1>14. GroupIsEmpty => GroupIsEmpty'
  BY <1>6, <1>10 DEF GroupIsEmpty
<1>15. QuietInv'
  BY <1>0, <1>4, <1>5, <1>7, <1>12, <1>14 DEF QuietInv, WillReplace
<1> QED
  BY <1>4, <1>8, <1>9, <1>13, <1>15 DEF Inv
(* The editing queue is done with its first block.                          *)
LEMMA EditIsDone ==
  ASSUME Inv, editing # <<>>, editing' = Tail(editing), ~pushed', ~dispatched',
         pushed' \in BOOLEAN, Head(editing).do = "deliver" => pushed,
         groupCount' = IF Head(editing).do = "deliver" THEN groupCount - 1 ELSE groupCount,
         UNCHANGED <<blocks, main, pendingMap, visibleMap, changeSets>>,
         mainQueue' \in Seq({runBlocks, retry})
  PROVE  Inv'
<1>0. TypeInv /\ StackInv /\ EditingInv /\ WayInv /\ QuietInv
  BY DEF Inv
<1>1. EditingInv' /\ editing' \in Seq(Edit)
  BY <1>0, CountOfTail
<1>2. TypeInv'
  BY <1>0, <1>1 DEF TypeInv
<1>3. StackInv'
  BY <1>0 DEF StackInv
<1>4. /\ Len(editing) \in Nat \ {0} /\ Head(editing) = editing[1]
      /\ DOMAIN editing = 1 .. Len(editing) /\ DOMAIN editing' = 1 .. Len(editing) - 1
      /\ \A i \in 1 .. Len(editing) - 1 : editing'[i] = editing[i + 1]
  BY <1>0, TailFacts DEF TypeInv
<1>5. ~InEditing(1) /\ ~InEditing(0)
  BY <1>4 DEF InEditing, Delivering
<1>6. ASSUME NEW i \in Nat
      PROVE  /\ InEditing(i)' <=> InEditing(i + 1)
             /\ InEditing(i)' => editing'[i].map = editing[i + 1].map
             /\ InEditing(i) => i > 1
  <2>1. InEditing(i) => i > 1
    BY <1>5
  <2>2. CASE i = 0
    BY <1>4, <1>5, <2>1, <2>2 DEF InEditing, Delivering
  <2>3. CASE i > 0
    <3>1. i \in DOMAIN editing' <=> i + 1 \in DOMAIN editing
      BY <1>4, <2>3
    <3>2. i \in DOMAIN editing' => editing'[i] = editing[i + 1]
      BY <1>4
    <3>3. i + 1 # 1
      BY <2>3
    <3> QED
      BY <2>1, <3>1, <3>2, <3>3 DEF InEditing, Delivering
  <2>4. i = 0 \/ i > 0
    OBVIOUS
  <2> QED
    BY <2>2, <2>3, <2>4, Zenon
<1>7. \A i \in Nat : /\ InBlocks(i)' <=> InBlocks(i)
                     /\ InBlocks(i)' => blocks'[i].map = blocks[i].map
  BY DEF InBlocks
<1>8. \A what \in {"deliver", "relayout", "clear", "update"} : Top(what)' <=> Top(what)
  BY DEF Top
<1>9. WayInv'
  BY <1>0, <1>6, <1>7, <1>8, WayKept
<1>10. GroupIsEmpty => GroupIsEmpty'
  BY <1>4 DEF GroupIsEmpty
<1>11. WillReplace' => WillReplace
  BY <1>8 DEF WillReplace, ClearWaits
<1>12. Replacing' <=> Replacing
  BY DEF Replacing
<1>13. QuietInv'
  BY <1>0, <1>8, <1>10, <1>11, <1>12 DEF QuietInv, InBlocks
<1> QED
  BY <1>1, <1>2, <1>3, <1>9, <1>13 DEF Inv

LEMMA DispatchRetryKeeps ==
  ASSUME Inv, dispatchRetry
  PROVE  Inv'
<1>1. /\ editing # <<>> /\ Head(editing).do # "deliver" /\ editing' = Tail(editing)
      /\ UNCHANGED <<blocks, main, pushed, dispatched, groupCount, pendingMap, visibleMap, changeSets>>
  BY DEF dispatchRetry, Running, mapVars, setVars
<1>2. ~pushed /\ ~dispatched /\ pushed \in BOOLEAN
  BY <1>1 DEF Inv, EditingInv, TypeInv
<1>3. mainQueue' \in Seq({runBlocks, retry})
  BY AppendProperties DEF dispatchRetry, Inv, TypeInv
<1> QED
  BY <1>1, <1>2, <1>3, EditIsDone

LEMMA LeaveGroupKeeps ==
  ASSUME Inv, leaveGroup
  PROVE  Inv'
<1>1. /\ editing # <<>> /\ Head(editing).do = "deliver" /\ editing' = Tail(editing)
      /\ pushed' = FALSE /\ dispatched' = FALSE /\ groupCount' = groupCount - 1 /\ dispatched
      /\ UNCHANGED <<blocks, main, mainQueue, pendingMap, visibleMap, changeSets>>
  BY DEF leaveGroup, Running, serialVars, mapVars, setVars
<1>2. pushed /\ mainQueue' \in Seq({runBlocks, retry})
  BY <1>1 DEF Inv, EditingInv, TypeInv
<1> QED
  BY <1>1, <1>2, EditIsDone

-----------------------------------------------------------------------------
LEMMA ScheduleBlockKeeps ==
  ASSUME Inv, scheduleBlock
  PROVE  Inv'
<1>0. TypeInv /\ StackInv /\ EditingInv /\ WayInv /\ QuietInv
  BY DEF Inv
<1> DEFINE block == Head(main).block
<1> DEFINE frames == <<runBlocks>>
<1>1. main # <<>> /\ Head(main) \in Frame /\ Head(main).do = "wait"
  BY <1>0, HeadIsFirst DEF scheduleBlock, Top, TypeInv
<1>2. block \in Other /\ block \in Piece /\ block.do # "deliver"
  BY <1>1, FrameFacts DEF Other
<1>3. /\ GroupIsEmpty /\ blocks' = Append(blocks, block) /\ Becomes(frames)
      /\ UNCHANGED <<editing, pushed, dispatched, groupCount, mainQueue, pendingMap, visibleMap, changeSets>>
  BY DEF scheduleBlock, performBlock, push, mapVars, setVars, editVars
<1> HIDE DEF block
<1>4. /\ frames \in Seq(Frame) /\ Len(frames) = 1 /\ frames = <<runBlocks>>
      /\ frames[1] = runBlocks /\ frames # <<>>
  BY FrameFacts, Frames DEF runBlocks, Frame, Below
<1>5. \A i \in 2 .. Len(frames) : frames[i] \in Below /\ frames[i].do # "clear"
  BY <1>4
<1>6. ~Top("runBlocks") /\ ~Top("deliver")
  BY <1>1 DEF Top
<1> HIDE DEF frames
<1>7. main' \in Seq(Frame) /\ StackInv' /\ main' # <<>> /\ Head(main') = runBlocks
  BY <1>0, <1>1, <1>3, <1>4, <1>5, <1>6, StackBecomes
<1>8. /\ blocks' \in Seq(Piece) /\ Len(blocks) \in Nat
      /\ DOMAIN blocks = 1 .. Len(blocks) /\ DOMAIN blocks' = 1 .. Len(blocks) + 1
      /\ \A i \in 1 .. Len(blocks) : blocks'[i] = blocks[i]
      /\ blocks'[Len(blocks) + 1] = block
  BY <1>0, <1>2, <1>3, AppendFacts DEF TypeInv
<1>9. TypeInv' /\ EditingInv'
  BY <1>0, <1>3, <1>7, <1>8 DEF TypeInv, EditingInv, Delivering
<1>10. \A i \in Nat : /\ InBlocks(i)' <=> InBlocks(i)
                      /\ InBlocks(i)' => blocks'[i].map = blocks[i].map
  BY <1>2, <1>8 DEF InBlocks
<1>11. \A i \in Nat : /\ InEditing(i)' <=> InEditing(i + 0)
                      /\ InEditing(i)' => editing'[i].map = editing[i + 0].map
                      /\ InEditing(i) => i > 0
  BY <1>0, <1>3, LenProperties DEF InEditing, Delivering, TypeInv
<1>12. ~Top("deliver")' /\ ~Top("relayout")' /\ ~Top("clear")' /\ ~Top("update")'
  BY <1>7 DEF Top, runBlocks
<1>13. WayInv'
  BY <1>0, <1>3, <1>6, <1>10, <1>11, <1>12, WayKept
<1>14. \A i, j \in DOMAIN blocks' : blocks'[i].do = "relayout" /\ i < j => ~InBlocks(j)'
  <2> SUFFICES ASSUME NEW i \in DOMAIN blocks', NEW j \in DOMAIN blocks',
                      blocks'[i].do = "relayout", i < j, InBlocks(j)'
               PROVE  FALSE
    OBVIOUS
  <2>1. InBlocks(j) /\ j \in DOMAIN blocks
    BY <1>8, <1>10 DEF InBlocks
  <2>2. i \in DOMAIN blocks /\ blocks[i].do = "relayout"
    BY <1>8, <2>1
  <2> QED
    BY <1>0, <2>1, <2>2 DEF QuietInv
<1>15. GroupIsEmpty'
  BY <1>3 DEF GroupIsEmpty
<1>16. QuietInv'
  BY <1>12, <1>14, <1>15 DEF QuietInv
<1> QED
  BY <1>7, <1>9, <1>13, <1>16 DEF Inv

LEMMA PrepareKeeps ==
  ASSUME Inv, prepare
  PROVE  Inv'
<1>0. TypeInv /\ StackInv /\ EditingInv /\ WayInv /\ QuietInv
  BY DEF Inv
<1> DEFINE first == editing[1]
<1>1. /\ editing # <<>> /\ first = Head(editing) /\ first \in Edit /\ first.do = "deliver"
      /\ DOMAIN editing = 1 .. Len(editing) /\ Len(editing) \in Nat \ {0}
  BY <1>0, TailFacts DEF prepare, Running, TypeInv
<1>2. first \in Piece /\ first.map \in Nat
  BY <1>1 DEF Edit, Piece, Delivery, retry
<1>3. /\ blocks' = Append(blocks, first) /\ ~pushed /\ pushed' = TRUE
      /\ UNCHANGED <<editing, dispatched, groupCount, main, mainQueue, pendingMap, visibleMap, changeSets>>
  BY <1>1 DEF prepare, pushFromOutside, push, mapVars, setVars
<1>4. /\ blocks' \in Seq(Piece) /\ Len(blocks) \in Nat
      /\ DOMAIN blocks = 1 .. Len(blocks) /\ DOMAIN blocks' = 1 .. Len(blocks) + 1
      /\ \A i \in 1 .. Len(blocks) : blocks'[i] = blocks[i]
      /\ blocks'[Len(blocks) + 1] = first
  BY <1>0, <1>2, <1>3, AppendFacts DEF TypeInv
<1>18. PICK last \in Nat : last = Len(blocks) + 1
  BY <1>4
<1> HIDE DEF first
<1>5. TypeInv' /\ StackInv' /\ EditingInv'
  <2>1. TypeInv'
    BY <1>0, <1>3, <1>4 DEF TypeInv
  <2>2. StackInv'
    BY <1>0, <1>3 DEF StackInv
  <2>3. EditingInv'
    BY <1>0, <1>1, <1>3 DEF EditingInv, Delivering
  <2> QED
    BY <2>1, <2>2, <2>3
<1>6. /\ last \in Nat /\ InBlocks(last)' /\ blocks'[last].map = first.map
      /\ \A i \in Nat : InBlocks(i)' <=> InBlocks(i) \/ i = last
      /\ \A i \in Nat : InBlocks(i) => i < last /\ blocks'[i].map = blocks[i].map
  BY <1>1, <1>4, <1>18 DEF InBlocks
<1>7. /\ InEditing(1) /\ editing[1].map = first.map
      /\ \A i \in Nat : InEditing(i)' <=> InEditing(i) /\ i # 1
      /\ \A i \in Nat : InEditing(i) => i >= 1
  BY <1>1, <1>3 DEF InEditing, Delivering, first
<1>8. \A what \in {"deliver", "relayout", "clear", "update"} : Top(what)' <=> Top(what)
  BY <1>3 DEF Top
<1>9. \A m \in Nat : IsComing(m)' <=> IsComing(m)
  <2> SUFFICES ASSUME NEW m \in Nat
               PROVE  IsComing(m)' <=> IsComing(m)
    OBVIOUS
  <2>1. ASSUME NEW i \in Nat, InBlocks(i)', blocks'[i].map = m
        PROVE  IsComing(m)
    BY <1>6, <1>7, <2>1 DEF IsComing
  <2>2. ASSUME NEW i \in Nat, InBlocks(i), blocks[i].map = m
        PROVE  IsComing(m)'
    BY <1>6, <2>2 DEF IsComing
  <2>3. ASSUME NEW i \in Nat, InEditing(i)', editing'[i].map = m
        PROVE  IsComing(m)
    BY <1>3, <1>7, <2>3 DEF IsComing
  <2>4. ASSUME NEW i \in Nat, InEditing(i), editing[i].map = m
        PROVE  IsComing(m)'
    BY <1>3, <1>6, <1>7, <2>4 DEF IsComing
  <2>5. Top("deliver") /\ Head(main).map = m <=> Top("deliver")' /\ Head(main').map = m
    BY <1>3, <1>8
  <2> QED
    BY <2>1, <2>2, <2>3, <2>4, <2>5 DEF IsComing
<1>10. NoneIsSkipped'
  BY <1>0, <1>3, <1>9 DEF WayInv, NoneIsSkipped, TypeInv
<1>11. NoneIsStale'
  BY <1>0, <1>3, <1>9 DEF WayInv, NoneIsStale
<1>12. AllAreInOrder'
  <2> USE <1>0 DEF WayInv, AllAreInOrder
  <2>1. ASSUME NEW i \in Nat, NEW j \in Nat, InBlocks(i)', InBlocks(j)', i < j
        PROVE  blocks'[i].map <= blocks'[j].map
    BY <1>6, <1>7, <2>1
  <2>2. ASSUME NEW i \in Nat, NEW j \in Nat, InEditing(i)', InEditing(j)', i < j
        PROVE  editing'[i].map <= editing'[j].map
    BY <1>3, <1>7, <2>2
  <2>3. ASSUME NEW i \in Nat, NEW j \in Nat, InBlocks(i)', InEditing(j)'
        PROVE  blocks'[i].map <= editing'[j].map
    <3>1. InEditing(j) /\ 1 < j /\ editing'[j] = editing[j]
      BY <1>3, <1>7, <2>3
    <3> QED
      BY <1>6, <1>7, <2>3, <3>1
  <2>4. ASSUME Top("deliver"), NEW i \in Nat
        PROVE  /\ InBlocks(i)' => Head(main').map <= blocks'[i].map
               /\ InEditing(i)' => Head(main').map <= editing'[i].map
    BY <1>3, <1>6, <1>7, <2>4
  <2> QED
    BY <1>8, <2>1, <2>2, <2>3, <2>4
<1>13. ~WillReplace
  <2>1. ~GroupIsEmpty
    BY <1>1 DEF GroupIsEmpty, first
  <2> QED
    BY <1>0, <2>1 DEF QuietInv
<1>14. \A i \in DOMAIN blocks' : blocks'[i].do # "relayout"
  BY <1>1, <1>4, <1>13 DEF WillReplace
<1>15. ~WillReplace'
  BY <1>3, <1>8, <1>13, <1>14 DEF WillReplace, ClearWaits
<1>16. Top("update")' => ~Replacing'
  BY <1>0, <1>3, <1>8, <1>14 DEF QuietInv, Replacing
<1>17. QuietInv'
  BY <1>14, <1>15, <1>16 DEF QuietInv, WillReplace
<1> QED
  BY <1>5, <1>10, <1>11, <1>12, <1>17 DEF Inv, WayInv
-----------------------------------------------------------------------------
(* A block leaves the serial queue and is the top of the stack.             *)
LEMMA RunBlockKeeps ==
  ASSUME Inv, SerialQueue, runBlock
  PROVE  Inv'
<1>0. TypeInv /\ StackInv /\ EditingInv /\ WayInv /\ QuietInv
  BY DEF Inv
<1>1. PICK first : first = blocks[1]
  OBVIOUS
<1> DEFINE frames == <<first>>
<1>2. /\ blocks # <<>> /\ Top("runBlocks") /\ blocks' = Tail(blocks) /\ Head(blocks) = first
      /\ UNCHANGED <<editing, pushed, dispatched, groupCount, mainQueue, pendingMap, visibleMap, changeSets>>
  BY <1>0, <1>1, HeadIsFirst DEF SerialQueue, runBlock, mapVars, setVars, editVars, TypeInv
<1>3. /\ blocks' \in Seq(Piece) /\ Len(blocks) \in Nat \ {0} /\ first \in Piece
      /\ DOMAIN blocks = 1 .. Len(blocks) /\ DOMAIN blocks' = 1 .. Len(blocks) - 1
      /\ \A i \in 1 .. Len(blocks) - 1 : blocks'[i] = blocks[i + 1]
  BY <1>0, <1>1, <1>2, TailFacts DEF TypeInv
<1>4. first \in Frame /\ (first.do = "deliver" => first.map \in Nat)
      /\ first.do \in {"deliver", "nothing", "relayout"}
  BY <1>3, FrameFacts DEF Piece, Delivery, Other
<1>5. /\ frames \in Seq(Frame) /\ Len(frames) = 1
      /\ frames[1] = first /\ frames # <<>>
  BY <1>4, Frames
<1>6. \A i \in 2 .. Len(frames) :
        frames[i] \in Below /\ (frames[i].do = "clear" => frames[i - 1].do = "wait")
  BY <1>5, NoneBelow
<1>7. Calls(frames)
  BY <1>2 DEF runBlock
<1> HIDE DEF frames
<1>8. main' \in Seq(Frame) /\ StackInv' /\ main' # <<>> /\ Head(main') = first /\ (ClearWaits' => ClearWaits)
  BY <1>0, <1>2, <1>5, <1>6, <1>7, StackCalls
<1>9. TypeInv' /\ EditingInv'
  BY <1>0, <1>2, <1>3, <1>8 DEF TypeInv, EditingInv, Delivering
<1>10. ~Top("deliver") /\ ~Top("clear")' /\ ~Top("update")'
  BY <1>2, <1>4, <1>8 DEF Top
<1>11. /\ Top("deliver")' <=> first.do = "deliver"
       /\ Top("relayout")' <=> first.do = "relayout"
  BY <1>8 DEF Top
<1>12. \A i \in Nat : /\ InBlocks(i)' => InBlocks(i + 1) /\ blocks'[i] = blocks[i + 1] /\ i >= 1
                      /\ InBlocks(i + 1) /\ i >= 1 => InBlocks(i)'
                      /\ InBlocks(i) => i >= 1
  BY <1>3 DEF InBlocks
<1>13. \A i \in Nat : InEditing(i)' <=> InEditing(i)
  BY <1>2 DEF InEditing, Delivering
<1>14. InBlocks(1) <=> first.do = "deliver"
  BY <1>1, <1>3 DEF InBlocks
<1>15. \A m \in Nat : IsComing(m)' <=> IsComing(m)
  <2> SUFFICES ASSUME NEW m \in Nat
               PROVE  IsComing(m)' <=> IsComing(m)
    OBVIOUS
  <2>1. ASSUME NEW i \in Nat, InBlocks(i)', blocks'[i].map = m
        PROVE  IsComing(m)
    BY <1>12, <2>1, i + 1 \in Nat DEF IsComing
  <2>2. ASSUME NEW i \in Nat, InBlocks(i), blocks[i].map = m
        PROVE  IsComing(m)'
    <3>1. CASE i = 1
      BY <1>1, <1>8, <1>11, <1>14, <2>2, <3>1 DEF IsComing
    <3>2. CASE i > 1
      <4>1. i - 1 \in Nat /\ i - 1 >= 1 /\ (i - 1) + 1 = i
        BY <3>2
      <4>2. InBlocks(i - 1)' /\ blocks'[i - 1] = blocks[i]
        BY <1>12, <2>2, <4>1
      <4> QED
        BY <2>2, <4>1, <4>2 DEF IsComing
    <3> QED
      BY <1>12, <2>2, <3>1, <3>2
  <2>3. (\E i \in Nat : InEditing(i) /\ editing[i].map = m)'
          <=> \E i \in Nat : InEditing(i) /\ editing[i].map = m
    BY <1>2, <1>13
  <2>4. Top("deliver")' /\ Head(main').map = m => IsComing(m)
    BY <1>1, <1>8, <1>11, <1>14 DEF IsComing
  <2> QED
    BY <1>10, <2>1, <2>2, <2>3, <2>4 DEF IsComing
<1>16. NoneIsSkipped'
  BY <1>0, <1>2, <1>15 DEF WayInv, NoneIsSkipped, TypeInv
<1>17. NoneIsStale'
  BY <1>0, <1>2, <1>15 DEF WayInv, NoneIsStale
<1>18. AllAreInOrder'
  <2> USE <1>0 DEF WayInv, AllAreInOrder
  <2>1. ASSUME NEW i \in Nat, NEW j \in Nat, InBlocks(i)', InBlocks(j)', i < j
        PROVE  blocks'[i].map <= blocks'[j].map
    <3>1. i + 1 \in Nat /\ j + 1 \in Nat /\ i + 1 < j + 1
      BY <2>1
    <3> QED
      BY <1>12, <2>1, <3>1
  <2>2. ASSUME NEW i \in Nat, NEW j \in Nat, InEditing(i)', InEditing(j)', i < j
        PROVE  editing'[i].map <= editing'[j].map
    BY <1>2, <1>13, <2>2
  <2>3. ASSUME NEW i \in Nat, NEW j \in Nat, InBlocks(i)', InEditing(j)'
        PROVE  blocks'[i].map <= editing'[j].map
    BY <1>2, <1>12, <1>13, <2>3, i + 1 \in Nat
  <2>4. ASSUME Top("deliver")', NEW i \in Nat
        PROVE  /\ InBlocks(i)' => Head(main').map <= blocks'[i].map
               /\ InEditing(i)' => Head(main').map <= editing'[i].map
    <3>1. InBlocks(1) /\ Head(main').map = blocks[1].map
      BY <1>1, <1>8, <1>11, <1>14, <2>4
    <3>2. i + 1 \in Nat /\ (i >= 1 => 1 < i + 1)
      OBVIOUS
    <3> QED
      BY <1>2, <1>12, <1>13, <3>1, <3>2
  <2> QED
    BY <2>1, <2>2, <2>3, <2>4
<1>19. WillReplace' => WillReplace
  <2>1. first.do = "relayout" => WillReplace
    BY <1>1, <1>3 DEF WillReplace
  <2>2. ASSUME NEW i \in DOMAIN blocks', blocks'[i].do = "relayout"
        PROVE  WillReplace
    <3>1. i + 1 \in DOMAIN blocks /\ blocks[i + 1].do = "relayout"
      BY <1>3, <2>2
    <3> QED
      BY <3>1 DEF WillReplace
  <2> QED
    BY <1>8, <1>10, <1>11, <2>1, <2>2 DEF WillReplace
<1>20. GroupIsEmpty' <=> GroupIsEmpty
  BY <1>2 DEF GroupIsEmpty
<1>21. Top("relayout")' => \A i \in Nat : ~InBlocks(i)'
  <2> SUFFICES ASSUME first.do = "relayout", NEW i \in Nat, InBlocks(i)'
               PROVE  FALSE
    BY <1>11
  <2>1. /\ InBlocks(i + 1) /\ 1 \in DOMAIN blocks /\ i + 1 \in DOMAIN blocks
        /\ 1 < i + 1 /\ blocks[1].do = "relayout"
    BY <1>1, <1>3, <1>12 DEF InBlocks
  <2> QED
    BY <1>0, <2>1 DEF QuietInv
<1>22. \A i, j \in DOMAIN blocks' : blocks'[i].do = "relayout" /\ i < j => ~InBlocks(j)'
  <2> SUFFICES ASSUME NEW i \in DOMAIN blocks', NEW j \in DOMAIN blocks',
                      blocks'[i].do = "relayout", i < j, InBlocks(j)'
               PROVE  FALSE
    OBVIOUS
  <2>1. /\ i + 1 \in DOMAIN blocks /\ j + 1 \in DOMAIN blocks /\ i + 1 < j + 1
        /\ blocks[i + 1].do = "relayout"
    BY <1>3
  <2>2. InBlocks(j + 1)
    BY <1>3, <1>12
  <2> QED
    BY <1>0, <2>1, <2>2 DEF QuietInv
<1>23. QuietInv'
  BY <1>0, <1>10, <1>19, <1>20, <1>21, <1>22 DEF QuietInv
<1> QED
  BY <1>8, <1>9, <1>16, <1>17, <1>18, <1>23 DEF Inv, WayInv

(* The map that is delivered is the next, or again the same.                *)
LEMMA DeliveredIsNext ==
  ASSUME Inv, Top("deliver")
  PROVE  /\ Head(main).map \in Nat /\ Head(main).map <= pendingMap
         /\ Head(main).map \in {visibleMap, visibleMap + 1}
<1>0. TypeInv /\ WayInv
  BY DEF Inv
<1>1. PICK map \in Nat : map = Head(main).map
  <2>1. Head(main) \in Frame /\ Head(main).do = "deliver"
    BY <1>0, HeadIsFirst DEF Top, TypeInv
  <2> QED
    BY <2>1, FrameFacts DEF Delivery
<1>2. visibleMap <= map /\ map <= pendingMap
  BY <1>0, <1>1 DEF WayInv, NoneIsStale, IsComing
<1>3. visibleMap < pendingMap => map <= visibleMap + 1
  <2> SUFFICES ASSUME visibleMap < pendingMap
               PROVE  map <= visibleMap + 1
    OBVIOUS
  <2>1. IsComing(visibleMap + 1)
    BY <1>0 DEF WayInv, NoneIsSkipped, TypeInv
  <2>2. \A i \in Nat : /\ InBlocks(i) => map <= blocks[i].map
                       /\ InEditing(i) => map <= editing[i].map
    BY <1>0, <1>1 DEF WayInv, AllAreInOrder
  <2>3. map = visibleMap + 1 \/ \E i \in Nat : \/ InBlocks(i) /\ blocks[i].map = visibleMap + 1
                                               \/ InEditing(i) /\ editing[i].map = visibleMap + 1
    BY <1>1, <2>1 DEF IsComing
  <2> QED
    BY <1>0, <2>2, <2>3 DEF TypeInv
<1>4. visibleMap \in Nat /\ pendingMap \in Nat
  BY <1>0 DEF TypeInv
<1>5. map \in {visibleMap, visibleMap + 1}
  BY <1>2, <1>3, <1>4
<1> QED
  BY <1>1, <1>2, <1>5

LEMMA DeployKeeps ==
  ASSUME Inv, NEW frames \in Seq(Frame), deploy(frames), Len(frames) \in {0, 1},
         frames # <<>> => frames[1].do = "complete"
  PROVE  Inv'
<1>0. TypeInv /\ StackInv /\ EditingInv /\ WayInv /\ QuietInv
  BY DEF Inv
<1>1. PICK map \in Nat : map = Head(main).map
  BY DeliveredIsNext DEF deploy
<1>2. /\ Top("deliver") /\ visibleMap' = map /\ Becomes(frames)
      /\ UNCHANGED <<blocks, editing, pushed, dispatched, groupCount, mainQueue, pendingMap, changeSets>>
  BY <1>1 DEF deploy, setVars, editVars
<1>3. map <= pendingMap /\ map \in {visibleMap, visibleMap + 1}
  BY <1>1, <1>2, DeliveredIsNext
<1>4. \A i \in 2 .. Len(frames) : frames[i] \in Below /\ frames[i].do # "clear"
  OBVIOUS
<1>5. main # <<>> /\ ~Top("wait") /\ ~Top("runBlocks")
  BY <1>2 DEF Top
<1>6. /\ main' \in Seq(Frame) /\ StackInv' /\ (ClearWaits' => ClearWaits)
      /\ frames # <<>> => main' # <<>> /\ Head(main') = frames[1]
      /\ frames = <<>> /\ main' # <<>> => Head(main') \in Below
      /\ frames = <<>> => ~Top("clear")'
  BY <1>0, <1>2, <1>4, <1>5, StackBecomes
<1>7. ~Top("deliver")' /\ ~Top("relayout")' /\ ~Top("update")' /\ ~Top("clear")'
  BY <1>6 DEF Top, Below
<1>8. TypeInv' /\ EditingInv'
  BY <1>0, <1>2, <1>6 DEF TypeInv, EditingInv, Delivering
<1>9. \A i \in Nat : (InBlocks(i)' <=> InBlocks(i)) /\ (InEditing(i)' <=> InEditing(i))
  BY <1>2 DEF InBlocks, InEditing, Delivering
<1>10. \A m \in Nat : IsComing(m) <=> IsComing(m)' \/ m = map
  BY <1>1, <1>2, <1>7, <1>9 DEF IsComing
<1>11. NoneIsSkipped'
  <2> SUFFICES ASSUME NEW m \in (map + 1) .. pendingMap
               PROVE  IsComing(m)'
    BY <1>2 DEF NoneIsSkipped
  <2>1. m \in Nat /\ m # map /\ m \in (visibleMap + 1) .. pendingMap
    BY <1>0, <1>3 DEF TypeInv
  <2> QED
    BY <1>0, <1>10, <2>1 DEF WayInv, NoneIsSkipped
<1>12. NoneIsStale'
  <2> SUFFICES ASSUME NEW m \in Nat, IsComing(m)'
               PROVE  map <= m /\ m <= pendingMap
    BY <1>2, <1>3 DEF NoneIsStale
  <2>1. m <= pendingMap
    BY <1>0, <1>10 DEF WayInv, NoneIsStale
  <2>2. \A i \in Nat : /\ InBlocks(i) => map <= blocks[i].map
                       /\ InEditing(i) => map <= editing[i].map
    BY <1>0, <1>1, <1>2 DEF WayInv, AllAreInOrder
  <2> QED
    BY <1>2, <1>7, <1>9, <2>1, <2>2 DEF IsComing
<1>13. AllAreInOrder'
  BY <1>0, <1>2, <1>7, <1>9 DEF WayInv, AllAreInOrder
<1>14. WillReplace' => WillReplace
  BY <1>2, <1>6, <1>7 DEF WillReplace
<1>15. QuietInv'
  BY <1>0, <1>2, <1>7, <1>14 DEF QuietInv, InBlocks, GroupIsEmpty
<1> QED
  BY <1>6, <1>8, <1>11, <1>12, <1>13, <1>15 DEF Inv, WayInv
(* A relayout and clearData find all maps shown.                            *)
LEMMA AllAreShown ==
  ASSUME Inv, Top("relayout") \/ Top("clear")
  PROVE  visibleMap = pendingMap /\ \A m \in Nat : ~IsComing(m)
<1>0. TypeInv /\ WayInv /\ QuietInv
  BY DEF Inv
<1>1. GroupIsEmpty /\ (\A i \in Nat : ~InBlocks(i)) /\ ~Top("deliver")
  BY <1>0 DEF QuietInv, WillReplace, Top
<1>2. \A m \in Nat : ~IsComing(m)
  BY <1>1 DEF IsComing, GroupIsEmpty, InEditing, Delivering
<1>3. ~(visibleMap < pendingMap)
  BY <1>0, <1>2 DEF WayInv, NoneIsSkipped, TypeInv
<1> QED
  BY <1>0, <1>2, <1>3 DEF WayInv, NoneIsStale, TypeInv

LEMMA ReplaceMapsKeeps ==
  ASSUME Inv, replaceMaps
  PROVE  Inv'
<1>0. TypeInv /\ StackInv /\ EditingInv /\ WayInv /\ QuietInv
  BY DEF Inv
<1> DEFINE frames == <<>>
<1>1. frames \in Seq(Frame) /\ Len(frames) = 0 /\ frames = <<>> /\ Becomes(frames)
  BY Frames DEF replaceMaps
<1>2. /\ Top("relayout") \/ Top("clear")
      /\ pendingMap' = pendingMap + 1 /\ visibleMap' = pendingMap + 1
      /\ UNCHANGED <<blocks, editing, pushed, dispatched, groupCount, mainQueue, changeSets>>
  BY DEF replaceMaps, setVars, editVars
<1>3. main # <<>> /\ ~Top("wait") /\ ~Top("runBlocks")
  BY <1>2 DEF Top
<1>4. \A i \in 2 .. Len(frames) : frames[i] \in Below /\ frames[i].do # "clear"
  BY <1>1
<1> HIDE DEF frames
<1>5. /\ main' \in Seq(Frame) /\ StackInv' /\ (ClearWaits' => ClearWaits)
      /\ main' # <<>> => Head(main') \in Below
      /\ ~Top("clear")'
  BY <1>0, <1>1, <1>3, <1>4, StackBecomes
<1>6. ~Top("deliver")' /\ ~Top("relayout")' /\ ~Top("update")'
  BY <1>5 DEF Top, Below
<1>7. TypeInv' /\ EditingInv'
  BY <1>0, <1>2, <1>5 DEF TypeInv, EditingInv, Delivering
<1>8. \A i \in Nat : ~InBlocks(i)' /\ ~InEditing(i)'
  <2>1. GroupIsEmpty /\ \A i \in Nat : ~InBlocks(i)
    BY <1>0, <1>2 DEF QuietInv, WillReplace
  <2> QED
    BY <1>2, <2>1 DEF GroupIsEmpty, InBlocks, InEditing, Delivering
<1>9. \A m \in Nat : ~IsComing(m)'
  BY <1>6, <1>8 DEF IsComing
<1>10. WayInv'
  <2>1. NoneIsSkipped'
    BY <1>2, <1>7 DEF NoneIsSkipped, TypeInv
  <2>2. NoneIsStale'
    BY <1>2, <1>7, <1>9 DEF NoneIsStale, TypeInv
  <2>3. AllAreInOrder'
    BY <1>6, <1>8 DEF AllAreInOrder
  <2> QED
    BY <2>1, <2>2, <2>3 DEF WayInv
<1>11. WillReplace' => WillReplace
  BY <1>2, <1>5, <1>6 DEF WillReplace
<1>12. QuietInv'
  BY <1>0, <1>2, <1>5, <1>6, <1>11 DEF QuietInv, InBlocks, GroupIsEmpty
<1> QED
  BY <1>5, <1>7, <1>10, <1>12 DEF Inv

LEMMA LatchKeeps ==
  ASSUME Inv, latch
  PROVE  Inv'
<1>0. TypeInv /\ StackInv /\ EditingInv /\ WayInv /\ QuietInv
  BY DEF Inv
<1>1. PICK frame : frame = Head(main)
  OBVIOUS
<1>2. PICK newMap : newMap = pendingMap + IF changeSets[frame.set] = "empty" THEN 0 ELSE 1
  OBVIOUS
<1>3. PICK edit : edit = [do |-> "deliver", set |-> frame.set, map |-> newMap]
  OBVIOUS
<1>4. PICK frames : frames = IF frame.sync THEN <<waitThen(nothing)>> ELSE <<>>
  OBVIOUS
<1>5. /\ Top("update") /\ pendingMap' = newMap /\ editing' = Append(editing, edit) /\ Becomes(frames)
      /\ groupCount' = groupCount + 1
      /\ UNCHANGED <<blocks, mainQueue, visibleMap, pushed, dispatched, changeSets>>
  BY <1>1, <1>2, <1>3, <1>4 DEF latch, setVars
<1>6. main # <<>> /\ frame.set \in Nat
  BY <1>0, <1>1, <1>5, HeadIsFirst, FrameFacts DEF Top, TypeInv
<1>7. newMap \in Nat /\ newMap \in {pendingMap, pendingMap + 1}
  BY <1>0, <1>2 DEF TypeInv
<1>8. edit \in Edit /\ edit.do = "deliver" /\ edit.map = newMap
  BY <1>3, <1>6, <1>7 DEF Edit, Delivery
<1>9. /\ frames \in Seq(Frame) /\ Len(frames) \in {0, 1}
      /\ frames # <<>> => frames[1].do = "wait"
  <2>1. waitThen(nothing) \in Frame /\ waitThen(nothing).do = "wait"
    BY DEF waitThen, nothing, Frame, Other
  <2> QED
    BY <1>4, <2>1, Frames
<1>10. \A i \in 2 .. Len(frames) : frames[i] \in Below /\ frames[i].do # "clear"
  BY <1>9
<1>11. ~Top("wait") /\ ~Top("runBlocks") /\ ~Top("deliver") /\ ~Top("relayout") /\ ~Top("clear")
  BY <1>5 DEF Top
<1>12. /\ main' \in Seq(Frame) /\ StackInv' /\ (ClearWaits' => ClearWaits)
       /\ frames # <<>> => main' # <<>> /\ Head(main') = frames[1]
       /\ frames = <<>> /\ main' # <<>> => Head(main') \in Below
       /\ frames = <<>> => ~Top("clear")'
  BY <1>0, <1>5, <1>6, <1>9, <1>10, <1>11, StackBecomes
<1>13. ~Top("deliver")' /\ ~Top("relayout")' /\ ~Top("update")' /\ ~Top("clear")'
  BY <1>9, <1>12 DEF Top, Below
<1>14. EditingInv' /\ editing' \in Seq(Edit)
  BY <1>0, <1>5, <1>8, CountOfAppended
<1>15. TypeInv'
  BY <1>0, <1>5, <1>7, <1>12, <1>14 DEF TypeInv
<1>16. /\ Len(editing) \in Nat
       /\ DOMAIN editing = 1 .. Len(editing) /\ DOMAIN editing' = 1 .. Len(editing) + 1
       /\ \A i \in 1 .. Len(editing) : editing'[i] = editing[i]
       /\ editing'[Len(editing) + 1] = edit
  BY <1>0, <1>5, <1>8, AppendFacts DEF TypeInv
<1>17. PICK last \in Nat : last = Len(editing) + 1
  BY <1>16
<1>18. /\ editing'[last] = edit
       /\ \A i \in Nat : InEditing(i) => i < last /\ editing'[i] = editing[i]
       /\ \A i \in Nat : InEditing(i)' => InEditing(i) \/ i = last
       /\ \A i \in Nat : InEditing(i) => InEditing(i)'
  BY <1>5, <1>16, <1>17 DEF InEditing, Delivering
<1>19. InEditing(last)'
  <2>1. pushed => last # 1
    BY <1>0, <1>16, <1>17, EmptySeq DEF EditingInv, TypeInv
  <2> QED
    BY <1>5, <1>8, <1>16, <1>17, <2>1 DEF InEditing, Delivering
<1>20. \A i \in Nat : InBlocks(i)' <=> InBlocks(i)
  BY <1>5 DEF InBlocks
<1>21. \A m \in Nat : IsComing(m)' <=> IsComing(m) \/ m = newMap
  <2>1. ASSUME NEW m \in Nat, NEW i \in Nat, InEditing(i)', editing'[i].map = m
        PROVE  IsComing(m) \/ m = newMap
    BY <1>8, <1>18, <2>1 DEF IsComing
  <2>2. ASSUME NEW m \in Nat, NEW i \in Nat, InEditing(i), editing[i].map = m
        PROVE  IsComing(m)'
    BY <1>18, <2>2 DEF IsComing
  <2>3. IsComing(newMap)'
    BY <1>8, <1>18, <1>19 DEF IsComing
  <2> QED
    BY <1>5, <1>11, <1>13, <1>20, <2>1, <2>2, <2>3 DEF IsComing
<1>22. NoneIsSkipped'
  <2> SUFFICES ASSUME NEW m \in (visibleMap + 1) .. newMap
               PROVE  IsComing(m)'
    BY <1>5 DEF NoneIsSkipped
  <2>1. m \in Nat /\ (m = newMap \/ m \in (visibleMap + 1) .. pendingMap)
    BY <1>0, <1>7 DEF TypeInv
  <2> QED
    BY <1>0, <1>21, <2>1 DEF WayInv, NoneIsSkipped
<1>23. NoneIsStale'
  <2>1. visibleMap <= newMap
    BY <1>0, <1>7 DEF WayInv, NoneIsStale, TypeInv
  <2>2. \A m \in Nat : IsComing(m) => visibleMap <= m /\ m <= newMap
    BY <1>0, <1>7 DEF WayInv, NoneIsStale, TypeInv
  <2> QED
    BY <1>5, <1>7, <1>21, <2>1, <2>2 DEF NoneIsStale
<1>24. AllAreInOrder'
  <2>1. /\ \A i \in Nat : InBlocks(i) => blocks[i].map <= newMap
        /\ \A i \in Nat : InEditing(i) => editing[i].map <= newMap
    <3>1. \A i \in Nat : InBlocks(i) => blocks[i].map \in Nat /\ IsComing(blocks[i].map)
      <4> SUFFICES ASSUME NEW i \in Nat, InBlocks(i)
                   PROVE  blocks[i].map \in Nat /\ IsComing(blocks[i].map)
        OBVIOUS
      <4>1. blocks[i] \in Frame /\ blocks[i].do = "deliver"
        BY <1>0, LenProperties, ElementOfSeq, FrameFacts DEF InBlocks, TypeInv
      <4> QED
        BY <4>1, FrameFacts DEF Delivery, IsComing
    <3>2. \A i \in Nat : InEditing(i) => editing[i].map \in Nat /\ IsComing(editing[i].map)
      <4> SUFFICES ASSUME NEW i \in Nat, InEditing(i)
                   PROVE  editing[i].map \in Nat /\ IsComing(editing[i].map)
        OBVIOUS
      <4>1. editing[i] \in Edit /\ editing[i].do = "deliver"
        BY <1>0, LenProperties, ElementOfSeq DEF InEditing, Delivering, TypeInv
      <4> QED
        BY <4>1 DEF Edit, retry, Delivery, IsComing
    <3>3. \A m \in Nat : IsComing(m) => m <= newMap
      BY <1>0, <1>7 DEF WayInv, NoneIsStale, TypeInv
    <3> QED
      BY <3>1, <3>2, <3>3
  <2>2. ASSUME NEW i \in Nat, NEW j \in Nat, InEditing(i)', InEditing(j)', i < j
        PROVE  editing'[i].map <= editing'[j].map
    <3>1. InEditing(i) /\ editing'[i] = editing[i]
      BY <1>18, <2>2
    <3>2. CASE InEditing(j)
      BY <1>0, <1>18, <2>2, <3>1, <3>2 DEF WayInv, AllAreInOrder
    <3>3. CASE j = last
      BY <1>8, <1>18, <2>1, <3>1, <3>3
    <3> QED
      BY <1>18, <2>2, <3>2, <3>3
  <2>3. ASSUME NEW i \in Nat, NEW j \in Nat, InBlocks(i)', InEditing(j)'
        PROVE  blocks'[i].map <= editing'[j].map
    <3>1. CASE InEditing(j)
      BY <1>0, <1>5, <1>18, <1>20, <2>3, <3>1 DEF WayInv, AllAreInOrder
    <3>2. CASE j = last
      BY <1>5, <1>8, <1>18, <1>20, <2>1, <2>3, <3>2
    <3> QED
      BY <1>18, <2>3, <3>1, <3>2
  <2>4. \A i, j \in Nat : InBlocks(i)' /\ InBlocks(j)' /\ i < j => blocks'[i].map <= blocks'[j].map
    BY <1>0, <1>5, <1>20 DEF WayInv, AllAreInOrder
  <2> QED
    BY <1>13, <2>2, <2>3, <2>4 DEF AllAreInOrder
<1>25. ~WillReplace'
  <2>1. ~Replacing
    BY <1>0, <1>5 DEF QuietInv
  <2>2. ~ClearWaits
    <3>1. \A i \in 2 .. Len(main) : i \in DOMAIN main
      BY <1>0, LenProperties DEF TypeInv
    <3> QED
      BY <2>1, <3>1 DEF ClearWaits, Replacing
  <2> QED
    BY <1>5, <1>12, <1>13, <2>1, <2>2 DEF WillReplace, Replacing
<1>26. QuietInv'
  BY <1>0, <1>5, <1>13, <1>25 DEF QuietInv, InBlocks
<1> QED
  BY <1>12, <1>14, <1>15, <1>22, <1>23, <1>24, <1>26 DEF Inv, WayInv
-----------------------------------------------------------------------------
LEMMA InitInv == Init => Inv
<1> SUFFICES ASSUME Init PROVE Inv
  OBVIOUS
<1> USE DEF Init, SerialInit
<1>1. TypeInv
  <2>1. \A S : <<>> \in Seq(S)
    BY EmptySeq
  <2> QED
    BY <2>1 DEF TypeInv
<1>2. StackInv
  BY DEF StackInv
<1>3. Delivering = {}
  BY DEF Delivering
<1>4. EditingInv
  BY <1>3, FS_EmptySet DEF EditingInv
<1>5. ~Top("deliver") /\ ~Top("relayout") /\ ~Top("clear") /\ ~Top("update")
  BY DEF Top
<1>6. \A i \in Nat : ~InBlocks(i) /\ ~InEditing(i)
  BY <1>3 DEF InBlocks, InEditing
<1>7. WayInv
  BY <1>5, <1>6 DEF WayInv, NoneIsSkipped, NoneIsStale, AllAreInOrder, IsComing
<1>8. QuietInv
  BY <1>5, <1>6 DEF QuietInv, WillReplace, ClearWaits
<1> QED
  BY <1>1, <1>2, <1>4, <1>7, <1>8 DEF Inv

LEMMA DeliverDeploys ==
  ASSUME Inv, deliver
  PROVE  \E frames \in {<<>>, Completion} : deploy(frames)
BY DEF deliver, deliverUnready, deliverReload, deliverBatch

LEMMA DeliverKeeps ==
  ASSUME Inv, deliver
  PROVE  Inv'
<1>1. PICK frames : frames \in {<<>>, Completion} /\ deploy(frames)
  BY DeliverDeploys
<1>2. Head(main) \in Frame /\ Head(main).do = "deliver"
  BY <1>1, HeadIsFirst DEF deploy, Top, Inv, TypeInv
<1> DEFINE f == [do |-> "complete", set |-> Head(main).set]
<1>3. f \in Frame /\ f.do = "complete" /\ Completion = <<f>>
  BY <1>2, FrameFacts DEF Delivery, Frame, Completion
<1> HIDE DEF f
<1>4. /\ frames \in Seq(Frame) /\ Len(frames) \in {0, 1}
      /\ frames # <<>> => frames[1].do = "complete"
  BY <1>1, <1>3, Frames
<1> QED
  BY <1>1, <1>4, DeployKeeps

LEMMA NextKeeps ==
  ASSUME Inv, ~HandlersUpdate, Next
  PROVE  Inv'
<1>1. ASSUME EditingQueue PROVE Inv'
  BY <1>1, PrepareKeeps, DispatchKeeps, LeaveGroupKeeps, DispatchRetryKeeps DEF EditingQueue
<1>2. ASSUME SerialQueue PROVE Inv'
  <2>1. CASE runBlock
    BY <1>2, <2>1, RunBlockKeeps
  <2>2. CASE finishRunBlocks \/ runMainQueue
    BY <1>2, <2>2, TurnsKeep
  <2> QED
    BY <1>2, <2>1, <2>2 DEF SerialQueue
<1>3. ASSUME MainThread, ~SerialQueue PROVE Inv'
  BY <1>3, LatchKeeps, ScheduleBlockKeeps, ReplaceMapsKeeps, DeliverKeeps, TryAgainKeeps, TurnsKeep
     DEF MainThread
<1> QED
  BY <1>1, <1>2, <1>3, ApplicationKeeps, UIKitKeeps DEF Next, MainThread

LEMMA StutterKeeps ==
  ASSUME Inv, UNCHANGED vars
  PROVE  Inv'
BY NothingMoves DEF vars, serialVars, mapVars, setVars, editVars, Inv, TypeInv, EditingInv

(* The invariant that the next two theorems need: where the maps on their   *)
(* way are, in which order, and that none is when they are replaced.        *)
THEOREM MapsOnTheirWay ==
  ASSUME ~HandlersUpdate
  PROVE  Spec => []Inv
<1>1. Inv /\ [Next]_vars => Inv'
  BY NextKeeps, StutterKeeps
<1> QED
  BY <1>1, InitInv, PTL DEF Spec

(* For any number of change sets and calls, and whatever the serial queue   *)
(* nests: whenever isProcessingUpdates says NO to the application or to     *)
(* onDidFinishProcessingUpdates, the view has the last map.                 *)
THEOREM ViewHasLastMap ==
  ASSUME ~HandlersUpdate
  PROVE  Spec => []SafeToCompare
<1>1. Inv => SafeToCompare
  <2> SUFFICES ASSUME Inv, AppRuns \/ Top("finishProcessing"), ~isProcessingUpdates
               PROVE  visibleMap = pendingMap
    BY DEF SafeToCompare
  <2>0. TypeInv /\ EditingInv /\ WayInv
    BY DEF Inv
  <2>1. ~Top("deliver")
    BY DEF AppRuns, Top
  <2>2. blocks = <<>> /\ Cardinality(Delivering) = 0
    BY <2>0, DeliveringIsFinite DEF isProcessingUpdates, EditingInv, TypeInv
  <2>3. Delivering = {}
    BY <2>0, <2>2, DeliveringIsFinite, FS_EmptySet DEF TypeInv
  <2>4. \A m \in Nat : ~IsComing(m)
    BY <2>1, <2>2, <2>3 DEF IsComing, InBlocks, InEditing
  <2>5. ~(visibleMap < pendingMap)
    BY <2>0, <2>4 DEF WayInv, NoneIsSkipped, TypeInv
  <2> QED
    BY <2>0, <2>5 DEF WayInv, NoneIsStale, TypeInv
<1> QED
  BY <1>1, MapsOnTheirWay, PTL

(* A step is one of MapSequence or changes no map.                          *)
LEMMA StepIsInSequence ==
  ASSUME Inv, ~HandlersUpdate, [Next]_vars
  PROVE  [M!Next]_M!maps
<1> USE DEF M!maps, mapVars
<1>1. ASSUME latch PROVE M!Make \/ UNCHANGED mapVars
  BY <1>1 DEF latch, M!Make, Inv, TypeInv
<1>2. ASSUME deliver PROVE M!Show \/ UNCHANGED mapVars
  <2>1. Top("deliver") /\ visibleMap' = Head(main).map /\ pendingMap' = pendingMap
    BY <1>2, DeliverDeploys DEF deploy
  <2> QED
    BY <2>1, DeliveredIsNext DEF M!Show, Inv, TypeInv
<1>3. ASSUME replaceMaps PROVE M!Replace
  BY <1>3, AllAreShown DEF replaceMaps, M!Replace
<1>4. ASSUME Application PROVE UNCHANGED mapVars
  BY <1>4 DEF Application, submit, waitUntilAllUpdatesAreProcessed, relayoutAllNodes,
              onDidFinishSynchronizing, setDataSource, call
<1>5. ASSUME EditingQueue PROVE UNCHANGED mapVars
  BY <1>5 DEF EditingQueue, prepare, dispatch, leaveGroup, dispatchRetry
<1>6. ASSUME MainThread PROVE latch \/ deliver \/ replaceMaps \/ UNCHANGED mapVars
  BY <1>6 DEF MainThread, SerialQueue, skipUnloaded, scheduleBlock, doNothing, complete,
              returnFromApp, synchronize, tryAgain, announce
<1>7. ASSUME numberOfSections \/ \E c \in 1 .. MaxChangeSets : endAnimation(c)
      PROVE  UNCHANGED mapVars
  BY <1>7 DEF numberOfSections, endAnimation
<1>8. UNCHANGED vars => UNCHANGED mapVars
  BY DEF vars
<1> QED
  BY <1>1, <1>2, <1>3, <1>4, <1>5, <1>6, <1>7, <1>8 DEF Next, M!Next

(* ASDataController keeps the promise of MapSequence: the view goes through *)
(* all maps in order, and none is on its way when both are replaced.        *)
THEOREM ViewFollowsMaps ==
  ASSUME ~HandlersUpdate
  PROVE  Spec => IsMapSequence
<1>1. Init => M!Init
  BY DEF Init, M!Init
<1>2. Inv /\ [Next]_vars => [M!Next]_M!maps
  BY StepIsInSequence
<1> QED
  BY <1>1, <1>2, MapsOnTheirWay, PTL DEF Spec, IsMapSequence, M!Spec

-----------------------------------------------------------------------------
(***************************************************************************)
(* The change sets that make the maps, in ASHierarchyChangeSet: what it     *)
(* accepts and what it does to the sections and elements. The folds over    *)
(* sets of indexes and paths are taken apart by induction on subsets.       *)
(***************************************************************************)
LEMMA Least ==
  ASSUME NEW S \in SUBSET Nat, S # {}
  PROVE  \E n \in S : \A m \in S : n <= m
<1> DEFINE R == {ss \in Nat \X Nat : ss[1] < ss[2]}
<1>1. IsWellFoundedOn(R, Nat)
  BY NatLessThanWellFounded DEF OpToRel
<1>2. PICK n \in S : \A m \in S : <<m, n>> \notin R
  <2> HIDE DEF R
  <2> QED
    BY <1>1, WFMin
<1>3. \A m \in S : m \in Nat /\ n \in Nat /\ ~(m < n)
  BY <1>2
<1> QED
  BY <1>3

(* Induction with a set for what is to be shown: the theorems of the library*)
(* take an operator, these take its extension.                              *)
LEMMA NatInductionBySets ==
  ASSUME NEW T, 0 \in T, \A n \in Nat : n \in T => n + 1 \in T
  PROVE  Nat \subseteq T
<1> SUFFICES ASSUME Nat \ T # {} PROVE FALSE
  OBVIOUS
<1>1. PICK n \in Nat \ T : \A m \in Nat \ T : n <= m
  <2> DEFINE S == Nat \ T
  <2>1. S \in SUBSET Nat /\ S # {}
    OBVIOUS
  <2> QED
    BY <2>1, Least
<1>2. n # 0 /\ n - 1 \in Nat /\ n - 1 \in T /\ (n - 1) + 1 = n
  BY <1>1
<1> QED
  BY <1>1, <1>2

LEMMA SubsetInduction ==
  ASSUME NEW S, IsFiniteSet(S), NEW T, {} \in T,
         \A s \in SUBSET S : s # {} /\ (\A x \in s : s \ {x} \in T) => s \in T
  PROVE  SUBSET S \subseteq T
<1> DEFINE N == {n \in Nat : \A s \in SUBSET S : Cardinality(s) = n => s \in T}
<1>1. \A s \in SUBSET S : IsFiniteSet(s) /\ Cardinality(s) \in Nat
  BY FS_Subset, FS_CardinalityType
<1>2. 0 \in N
  BY <1>1, FS_EmptySet
<1>3. ASSUME NEW n \in Nat, n \in N PROVE n + 1 \in N
  <2>1. ASSUME NEW s \in SUBSET S, Cardinality(s) = n + 1 PROVE s \in T
    <3>1. s # {}
      BY <1>1, <2>1, FS_EmptySet, n + 1 # 0
    <3>2. \A x \in s : s \ {x} \in SUBSET S /\ Cardinality(s \ {x}) = n
      BY <1>1, <2>1, FS_RemoveElement
    <3> QED
      BY <1>3, <3>1, <3>2
  <2> QED
    BY <2>1
<1>4. Nat \subseteq N
  <2> HIDE DEF N
  <2> QED
    BY <1>2, <1>3, NatInductionBySets
<1> QED
  BY <1>1, <1>4
(* The least and the greatest of a set are among it.                        *)
LEMMA MinFacts ==
  ASSUME NEW s \in SUBSET Nat, s # {}
  PROVE  Min(s) \in s /\ \A x \in s : Min(s) <= x
BY Least DEF Min

LEMMA MaxFacts ==
  ASSUME NEW s \in SUBSET Nat, s # {}, IsFiniteSet(s)
  PROVE  Max(s) \in s /\ \A x \in s : x <= Max(s)
<1> DEFINE T == {t \in SUBSET s : t # {} => \E x \in t : \A y \in t : y <= x}
<1>1. \A t \in SUBSET s : t # {} /\ (\A x \in t : t \ {x} \in T) => t \in T
  <2> SUFFICES ASSUME NEW t \in SUBSET s, t # {}, \A x \in t : t \ {x} \in T
               PROVE  \E x \in t : \A y \in t : y <= x
    OBVIOUS
  <2>1. PICK x \in t : TRUE
    OBVIOUS
  <2>2. CASE t \ {x} = {}
    <3>1. \A y \in t : y = x /\ x \in Nat
      BY <2>2
    <3> QED
      BY <3>1
  <2>3. CASE t \ {x} # {}
    <3>1. PICK y \in t \ {x} : \A z \in t \ {x} : z <= y
      BY <2>3
    <3>2. x \in Nat /\ y \in Nat /\ t \subseteq Nat
      OBVIOUS
    <3> QED
      BY <3>1, <3>2
  <2> QED
    BY <2>2, <2>3
<1>2. SUBSET s \subseteq T
  <2>1. {} \in T
    OBVIOUS
  <2> HIDE DEF T
  <2> QED
    BY <1>1, <2>1, SubsetInduction
<1>3. PICK x \in s : \A y \in s : y <= x
  BY <1>2
<1> QED
  BY <1>3 DEF Max

(* Partial results of the folds, by set. Shifting to the left ...           *)
IsLeftFold(g, base, S) ==
  /\ shiftAllLeft(base, S) = g[S] /\ g[{}] = base
  /\ \A s \in SUBSET S : s # {} => g[s] = shiftLeft(g[s \ {Min(s)}], Min(s))

LEMMA LeftFold ==
  ASSUME NEW base, NEW S \in SUBSET Nat, IsFiniteSet(S)
  PROVE  \E g : IsLeftFold(g, base, S)
<1> DEFINE Part(n) == {s \in SUBSET S : Cardinality(s) <= n}
           Is(g, n) == g = [s \in Part(n) |-> IF s = {} THEN base ELSE shiftLeft(g[s \ {Min(s)}], Min(s))]
           N == {n \in Nat : \E g : Is(g, n)}
<1>1. \A s \in SUBSET S : IsFiniteSet(s) /\ Cardinality(s) \in Nat
  BY FS_Subset, FS_CardinalityType
<1>2. \A s \in SUBSET S : s # {} => Min(s) \in s
  BY <1>1, MinFacts
<1>3. 0 \in N
  <2> DEFINE h == [s \in Part(0) |-> base]
  <2>1. \A s \in Part(0) : s = {}
    BY <1>1, FS_EmptySet
  <2>2. Is(h, 0)
    BY <2>1
  <2> QED
    BY <2>2
<1>4. ASSUME NEW n \in Nat, n \in N PROVE n + 1 \in N
  <2>1. PICK g : Is(g, n)
    BY <1>4
  <2> DEFINE h == [s \in Part(n + 1) |-> IF s = {} THEN base ELSE shiftLeft(g[s \ {Min(s)}], Min(s))]
  <2>a. \A s \in Part(n) : s \in Part(n + 1)
    BY <1>1
  <2>2. \A s \in Part(n) : s \in Part(n + 1) /\ h[s] = g[s]
    <3> HIDE DEF Part
    <3> QED
      BY <2>a, <2>1
  <2>3. ASSUME NEW s \in Part(n + 1), s # {} PROVE s \ {Min(s)} \in Part(n)
    <3>1. Min(s) \in s
      BY <1>2, <2>3
    <3>2. Cardinality(s \ {Min(s)}) = Cardinality(s) - 1 /\ Cardinality(s) \in Nat
      BY <1>1, <3>1, FS_RemoveElement
    <3>3. s \in SUBSET S /\ Cardinality(s) <= n + 1
      OBVIOUS
    <3>4. Cardinality(s \ {Min(s)}) <= n
      <4> HIDE DEF Part
      <4> QED
        BY <3>2, <3>3
    <3>5. s \ {Min(s)} \in SUBSET S
      BY <3>3
    <3> QED
      BY <3>4, <3>5
  <2>4. \A s \in Part(n + 1) : s # {} => h[s \ {Min(s)}] = g[s \ {Min(s)}]
    BY <2>2, <2>3
  <2>5. h = [s \in Part(n + 1) |-> IF s = {} THEN base ELSE shiftLeft(h[s \ {Min(s)}], Min(s))]
    BY <2>4
  <2>6. Is(h, n + 1)
    <3> HIDE DEF h, Part
    <3> QED
      BY <2>5
  <2> HIDE DEF Is
  <2> QED
    BY <2>6
<1>5. Cardinality(S) \in N
  <2> HIDE DEF N
  <2> QED
    BY <1>1, <1>3, <1>4, NatInductionBySets
<1>6. Part(Cardinality(S)) = SUBSET S
  BY <1>1, FS_Subset
<1>7. PICK g : Is(g, Cardinality(S))
  BY <1>5
<1> DEFINE f == CHOOSE g1 : g1 = [s \in SUBSET S |-> IF s = {} THEN base ELSE shiftLeft(g1[s \ {Min(s)}], Min(s))]
<1>8. shiftAllLeft(base, S) = f[S]
  BY DEF shiftAllLeft, inDescending, MapThenFoldSet
<1>9. g = [s \in SUBSET S |-> IF s = {} THEN base ELSE shiftLeft(g[s \ {Min(s)}], Min(s))]
  BY <1>6, <1>7
<1>10. f = [s \in SUBSET S |-> IF s = {} THEN base ELSE shiftLeft(f[s \ {Min(s)}], Min(s))]
  BY <1>9
<1> HIDE DEF f
<1>11. IsLeftFold(f, base, S)
  BY <1>8, <1>10 DEF IsLeftFold
<1> QED
  BY <1>11

(* ... and to the right, removing ...                                       *)
IsRightFold(g, base, S) ==
  /\ shiftAllRight(base, S) = g[S] /\ g[{}] = base
  /\ \A s \in SUBSET S : s # {} => g[s] = shiftRight(g[s \ {Max(s)}], Max(s))

LEMMA RightFold ==
  ASSUME NEW base, NEW S \in SUBSET Nat, IsFiniteSet(S)
  PROVE  \E g : IsRightFold(g, base, S)
<1> DEFINE Part(n) == {s \in SUBSET S : Cardinality(s) <= n}
           Is(g, n) == g = [s \in Part(n) |-> IF s = {} THEN base ELSE shiftRight(g[s \ {Max(s)}], Max(s))]
           N == {n \in Nat : \E g : Is(g, n)}
<1>1. \A s \in SUBSET S : IsFiniteSet(s) /\ Cardinality(s) \in Nat
  BY FS_Subset, FS_CardinalityType
<1>2. \A s \in SUBSET S : s # {} => Max(s) \in s
  BY <1>1, MaxFacts
<1>3. 0 \in N
  <2> DEFINE h == [s \in Part(0) |-> base]
  <2>1. \A s \in Part(0) : s = {}
    BY <1>1, FS_EmptySet
  <2>2. Is(h, 0)
    BY <2>1
  <2> QED
    BY <2>2
<1>4. ASSUME NEW n \in Nat, n \in N PROVE n + 1 \in N
  <2>1. PICK g : Is(g, n)
    BY <1>4
  <2> DEFINE h == [s \in Part(n + 1) |-> IF s = {} THEN base ELSE shiftRight(g[s \ {Max(s)}], Max(s))]
  <2>a. \A s \in Part(n) : s \in Part(n + 1)
    BY <1>1
  <2>2. \A s \in Part(n) : s \in Part(n + 1) /\ h[s] = g[s]
    <3> HIDE DEF Part
    <3> QED
      BY <2>a, <2>1
  <2>3. ASSUME NEW s \in Part(n + 1), s # {} PROVE s \ {Max(s)} \in Part(n)
    <3>1. Max(s) \in s
      BY <1>2, <2>3
    <3>2. Cardinality(s \ {Max(s)}) = Cardinality(s) - 1 /\ Cardinality(s) \in Nat
      BY <1>1, <3>1, FS_RemoveElement
    <3>3. s \in SUBSET S /\ Cardinality(s) <= n + 1
      OBVIOUS
    <3>4. Cardinality(s \ {Max(s)}) <= n
      <4> HIDE DEF Part
      <4> QED
        BY <3>2, <3>3
    <3>5. s \ {Max(s)} \in SUBSET S
      BY <3>3
    <3> QED
      BY <3>4, <3>5
  <2>4. \A s \in Part(n + 1) : s # {} => h[s \ {Max(s)}] = g[s \ {Max(s)}]
    BY <2>2, <2>3
  <2>5. h = [s \in Part(n + 1) |-> IF s = {} THEN base ELSE shiftRight(h[s \ {Max(s)}], Max(s))]
    BY <2>4
  <2>6. Is(h, n + 1)
    <3> HIDE DEF h, Part
    <3> QED
      BY <2>5
  <2> HIDE DEF Is
  <2> QED
    BY <2>6
<1>5. Cardinality(S) \in N
  <2> HIDE DEF N
  <2> QED
    BY <1>1, <1>3, <1>4, NatInductionBySets
<1>6. Part(Cardinality(S)) = SUBSET S
  BY <1>1, FS_Subset
<1>7. PICK g : Is(g, Cardinality(S))
  BY <1>5
<1> DEFINE f == CHOOSE g1 : g1 = [s \in SUBSET S |-> IF s = {} THEN base ELSE shiftRight(g1[s \ {Max(s)}], Max(s))]
<1>8. shiftAllRight(base, S) = f[S]
  BY DEF shiftAllRight, inAscending, MapThenFoldSet
<1>9. g = [s \in SUBSET S |-> IF s = {} THEN base ELSE shiftRight(g[s \ {Max(s)}], Max(s))]
  BY <1>6, <1>7
<1>10. f = [s \in SUBSET S |-> IF s = {} THEN base ELSE shiftRight(f[s \ {Max(s)}], Max(s))]
  BY <1>9
<1> HIDE DEF f
<1>11. IsRightFold(f, base, S)
  BY <1>8, <1>10 DEF IsRightFold
<1> QED
  BY <1>11

(* (each object as often as the bag says)                                   *)
IsRemoveFold(g, bag, base, S) ==
  /\ removeObjects(base, bag) = g[S] /\ g[{}] = base
  /\ \A s \in SUBSET S : s # {} => g[s] = removeObject(g[s \ {Min(s)}], Min(s), bag[Min(s)])

LEMMA RemoveFold ==
  ASSUME NEW bag, NEW base, NEW S \in SUBSET Nat, IsFiniteSet(S), DOMAIN bag = S
  PROVE  \E g : IsRemoveFold(g, bag, base, S)
<1> DEFINE Part(n) == {s \in SUBSET S : Cardinality(s) <= n}
           Is(g, n) == g = [s \in Part(n) |-> IF s = {} THEN base ELSE removeObject(g[s \ {Min(s)}], Min(s), bag[Min(s)])]
           N == {n \in Nat : \E g : Is(g, n)}
<1>1. \A s \in SUBSET S : IsFiniteSet(s) /\ Cardinality(s) \in Nat
  BY FS_Subset, FS_CardinalityType
<1>2. \A s \in SUBSET S : s # {} => Min(s) \in s
  BY <1>1, MinFacts
<1>3. 0 \in N
  <2> DEFINE h == [s \in Part(0) |-> base]
  <2>1. \A s \in Part(0) : s = {}
    BY <1>1, FS_EmptySet
  <2>2. Is(h, 0)
    BY <2>1
  <2> QED
    BY <2>2
<1>4. ASSUME NEW n \in Nat, n \in N PROVE n + 1 \in N
  <2>1. PICK g : Is(g, n)
    BY <1>4
  <2> DEFINE h == [s \in Part(n + 1) |-> IF s = {} THEN base ELSE removeObject(g[s \ {Min(s)}], Min(s), bag[Min(s)])]
  <2>a. \A s \in Part(n) : s \in Part(n + 1)
    BY <1>1
  <2>2. \A s \in Part(n) : s \in Part(n + 1) /\ h[s] = g[s]
    <3> HIDE DEF Part
    <3> QED
      BY <2>a, <2>1
  <2>3. ASSUME NEW s \in Part(n + 1), s # {} PROVE s \ {Min(s)} \in Part(n)
    <3>1. Min(s) \in s
      BY <1>2, <2>3
    <3>2. Cardinality(s \ {Min(s)}) = Cardinality(s) - 1 /\ Cardinality(s) \in Nat
      BY <1>1, <3>1, FS_RemoveElement
    <3>3. s \in SUBSET S /\ Cardinality(s) <= n + 1
      OBVIOUS
    <3>4. Cardinality(s \ {Min(s)}) <= n
      <4> HIDE DEF Part
      <4> QED
        BY <3>2, <3>3
    <3>5. s \ {Min(s)} \in SUBSET S
      BY <3>3
    <3> QED
      BY <3>4, <3>5
  <2>4. \A s \in Part(n + 1) : s # {} => h[s \ {Min(s)}] = g[s \ {Min(s)}]
    BY <2>2, <2>3
  <2>5. h = [s \in Part(n + 1) |-> IF s = {} THEN base ELSE removeObject(h[s \ {Min(s)}], Min(s), bag[Min(s)])]
    BY <2>4
  <2>6. Is(h, n + 1)
    <3> HIDE DEF h, Part
    <3> QED
      BY <2>5
  <2> HIDE DEF Is
  <2> QED
    BY <2>6
<1>5. Cardinality(S) \in N
  <2> HIDE DEF N
  <2> QED
    BY <1>1, <1>3, <1>4, NatInductionBySets
<1>6. Part(Cardinality(S)) = SUBSET S
  BY <1>1, FS_Subset
<1>7. PICK g : Is(g, Cardinality(S))
  BY <1>5
<1> DEFINE f == CHOOSE g1 : g1 = [s \in SUBSET S |-> IF s = {} THEN base ELSE removeObject(g1[s \ {Min(s)}], Min(s), bag[Min(s)])]
<1>8. removeObjects(base, bag) = f[S]
  BY DEF removeObjects, inDescending, MapThenFoldSet
<1>9. g = [s \in SUBSET S |-> IF s = {} THEN base ELSE removeObject(g[s \ {Min(s)}], Min(s), bag[Min(s)])]
  BY <1>6, <1>7
<1>10. f = [s \in SUBSET S |-> IF s = {} THEN base ELSE removeObject(f[s \ {Min(s)}], Min(s), bag[Min(s)])]
  BY <1>9
<1> HIDE DEF f
<1>11. IsRemoveFold(f, bag, base, S)
  BY <1>8, <1>10 DEF IsRemoveFold
<1> QED
  BY <1>11

(* ... and inserting.                                                       *)
IsInsertFold(g, bag, new, base, S) ==
  /\ insertObjects(base, bag, new) = g[S] /\ g[{}] = base
  /\ \A s \in SUBSET S : s # {} => g[s] = insertObject(g[s \ {Max(s)}], Max(s), bag[Max(s)], new[Max(s)])

LEMMA InsertFold ==
  ASSUME NEW bag, NEW new, NEW base, NEW S \in SUBSET Nat, IsFiniteSet(S), DOMAIN bag = S
  PROVE  \E g : IsInsertFold(g, bag, new, base, S)
<1> DEFINE Part(n) == {s \in SUBSET S : Cardinality(s) <= n}
           Is(g, n) == g = [s \in Part(n) |-> IF s = {} THEN base ELSE insertObject(g[s \ {Max(s)}], Max(s), bag[Max(s)], new[Max(s)])]
           N == {n \in Nat : \E g : Is(g, n)}
<1>1. \A s \in SUBSET S : IsFiniteSet(s) /\ Cardinality(s) \in Nat
  BY FS_Subset, FS_CardinalityType
<1>2. \A s \in SUBSET S : s # {} => Max(s) \in s
  BY <1>1, MaxFacts
<1>3. 0 \in N
  <2> DEFINE h == [s \in Part(0) |-> base]
  <2>1. \A s \in Part(0) : s = {}
    BY <1>1, FS_EmptySet
  <2>2. Is(h, 0)
    BY <2>1
  <2> QED
    BY <2>2
<1>4. ASSUME NEW n \in Nat, n \in N PROVE n + 1 \in N
  <2>1. PICK g : Is(g, n)
    BY <1>4
  <2> DEFINE h == [s \in Part(n + 1) |-> IF s = {} THEN base ELSE insertObject(g[s \ {Max(s)}], Max(s), bag[Max(s)], new[Max(s)])]
  <2>a. \A s \in Part(n) : s \in Part(n + 1)
    BY <1>1
  <2>2. \A s \in Part(n) : s \in Part(n + 1) /\ h[s] = g[s]
    <3> HIDE DEF Part
    <3> QED
      BY <2>a, <2>1
  <2>3. ASSUME NEW s \in Part(n + 1), s # {} PROVE s \ {Max(s)} \in Part(n)
    <3>1. Max(s) \in s
      BY <1>2, <2>3
    <3>2. Cardinality(s \ {Max(s)}) = Cardinality(s) - 1 /\ Cardinality(s) \in Nat
      BY <1>1, <3>1, FS_RemoveElement
    <3>3. s \in SUBSET S /\ Cardinality(s) <= n + 1
      OBVIOUS
    <3>4. Cardinality(s \ {Max(s)}) <= n
      <4> HIDE DEF Part
      <4> QED
        BY <3>2, <3>3
    <3>5. s \ {Max(s)} \in SUBSET S
      BY <3>3
    <3> QED
      BY <3>4, <3>5
  <2>4. \A s \in Part(n + 1) : s # {} => h[s \ {Max(s)}] = g[s \ {Max(s)}]
    BY <2>2, <2>3
  <2>5. h = [s \in Part(n + 1) |-> IF s = {} THEN base ELSE insertObject(h[s \ {Max(s)}], Max(s), bag[Max(s)], new[Max(s)])]
    BY <2>4
  <2>6. Is(h, n + 1)
    <3> HIDE DEF h, Part
    <3> QED
      BY <2>5
  <2> HIDE DEF Is
  <2> QED
    BY <2>6
<1>5. Cardinality(S) \in N
  <2> HIDE DEF N
  <2> QED
    BY <1>1, <1>3, <1>4, NatInductionBySets
<1>6. Part(Cardinality(S)) = SUBSET S
  BY <1>1, FS_Subset
<1>7. PICK g : Is(g, Cardinality(S))
  BY <1>5
<1> DEFINE f == CHOOSE g1 : g1 = [s \in SUBSET S |-> IF s = {} THEN base ELSE insertObject(g1[s \ {Max(s)}], Max(s), bag[Max(s)], new[Max(s)])]
<1>8. insertObjects(base, bag, new) = f[S]
  BY DEF insertObjects, inAscending, MapThenFoldSet
<1>9. g = [s \in SUBSET S |-> IF s = {} THEN base ELSE insertObject(g[s \ {Max(s)}], Max(s), bag[Max(s)], new[Max(s)])]
  BY <1>6, <1>7
<1>10. f = [s \in SUBSET S |-> IF s = {} THEN base ELSE insertObject(f[s \ {Max(s)}], Max(s), bag[Max(s)], new[Max(s)])]
  BY <1>9
<1> HIDE DEF f
<1>11. IsInsertFold(f, bag, new, base, S)
  BY <1>8, <1>10 DEF IsInsertFold
<1> QED
  BY <1>11

-----------------------------------------------------------------------------
(* How many indexes up to i are not in S: what Matches compares.            *)
Free(i, S) == Cardinality((1 .. i) \ S)

LEMMA FreeSteps ==
  ASSUME NEW S, NEW i \in Nat
  PROVE  /\ IsFiniteSet((1 .. i) \ S) /\ Free(i, S) \in Nat /\ Free(i, S) <= i
         /\ Free(0, S) = 0
         /\ Free(i + 1, S) = IF i + 1 \in S THEN Free(i, S) ELSE Free(i, S) + 1
<1>1. IsFiniteSet(1 .. i) /\ Cardinality(1 .. i) = i
  BY FS_Interval
<1>2. IsFiniteSet((1 .. i) \ S) /\ Cardinality((1 .. i) \ S) <= i
  BY <1>1, FS_Subset
<1>3. Cardinality((1 .. i) \ S) \in Nat
  BY <1>2, FS_CardinalityType
<1>4. Free(0, S) = 0
  <2>1. (1 .. 0) \ S = {}
    OBVIOUS
  <2> QED
    BY <2>1, FS_EmptySet DEF Free
<1>5. Free(i + 1, S) = IF i + 1 \in S THEN Free(i, S) ELSE Free(i, S) + 1
  <2>1. CASE i + 1 \in S
    <3>1. (1 .. (i + 1)) \ S = (1 .. i) \ S
      BY <2>1
    <3> QED
      BY <2>1, <3>1 DEF Free
  <2>2. CASE i + 1 \notin S
    <3>1. (1 .. (i + 1)) \ S = ((1 .. i) \ S) \cup {i + 1} /\ i + 1 \notin (1 .. i) \ S
      BY <2>2
    <3> QED
      BY <1>2, <2>2, <3>1, FS_AddElement DEF Free
  <2> QED
    BY <2>1, <2>2
<1> QED
  BY <1>2, <1>3, <1>4, <1>5 DEF Free

LEMMA FreePositive ==
  ASSUME NEW S, NEW i \in Nat \ {0}
  PROVE  /\ Free(i - 1, S) \in Nat /\ Free(i, S) = IF i \in S THEN Free(i - 1, S) ELSE Free(i - 1, S) + 1
         /\ i \notin S => Free(i, S) \in Nat \ {0}
<1>1. PICK k \in Nat : k = i - 1 /\ k + 1 = i
  OBVIOUS
<1>2. Free(k, S) \in Nat /\ Free(k + 1, S) = IF k + 1 \in S THEN Free(k, S) ELSE Free(k, S) + 1
  BY FreeSteps
<1>3. Free(k, S) \in Nat /\ Free(i, S) = IF i \in S THEN Free(k, S) ELSE Free(k, S) + 1
  BY <1>1, <1>2
<1> QED
  BY <1>1, <1>3

LEMMA FreeGrows ==
  ASSUME NEW S, NEW i \in Nat, NEW j \in Nat, i <= j
  PROVE  /\ Free(i, S) <= Free(j, S) /\ Free(j, S) <= Free(i, S) + (j - i)
         /\ i < j /\ j \notin S => Free(i, S) < Free(j, S)
<1> DEFINE A == (1 .. i) \ S
           B == (1 .. j) \ S
           D == (i + 1) .. j
<1>1. /\ IsFiniteSet(A) /\ IsFiniteSet(B) /\ Cardinality(A) \in Nat /\ Cardinality(B) \in Nat
      /\ Cardinality(A) = Free(i, S) /\ Cardinality(B) = Free(j, S)
  BY FreeSteps DEF Free
<1>2. IsFiniteSet(D) /\ Cardinality(D) = j - i
  <2>1. i + 1 \in Int /\ j \in Int /\ (IF i + 1 > j THEN 0 ELSE j - (i + 1) + 1) = j - i
    OBVIOUS
  <2> QED
    BY <2>1, FS_Interval
<1>3. A \subseteq B /\ B \subseteq A \cup D /\ A \cap D = {}
  OBVIOUS
<1>4. i < j /\ j \notin S => j \in B /\ j \notin A
  OBVIOUS
<1> HIDE DEF A, B, D
<1>5. IsFiniteSet(A \cup D) /\ Cardinality(A \cup D) = Cardinality(A) + (j - i)
  <2>1. Cardinality(A \cap D) = 0
    BY <1>3, FS_EmptySet
  <2>2. /\ IsFiniteSet(A \cup D)
        /\ Cardinality(A \cup D) = Cardinality(A) + Cardinality(D) - Cardinality(A \cap D)
    BY <1>1, <1>2, FS_Union, Zenon
  <2> QED
    BY <1>1, <1>2, <2>1, <2>2
<1>6. Cardinality(A) <= Cardinality(B) /\ (Cardinality(A) = Cardinality(B) => A = B)
  BY <1>1, <1>3, FS_Subset
<1>7. Cardinality(B) <= Cardinality(A \cup D)
  BY <1>3, <1>5, FS_Subset
<1>8. i < j /\ j \notin S => Cardinality(A) # Cardinality(B)
  BY <1>4, <1>6
<1> QED
  BY <1>1, <1>5, <1>6, <1>7, <1>8

LEMMA FreeIsUnique ==
  ASSUME NEW S, NEW i \in Nat, NEW j \in Nat, i \notin S, j \notin S, Free(i, S) = Free(j, S)
  PROVE  i = j
<1>1. Free(i, S) \in Nat /\ Free(j, S) \in Nat
  BY FreeSteps
<1>2. i < j => Free(i, S) < Free(j, S)
  BY FreeGrows
<1>3. j < i => Free(j, S) < Free(i, S)
  BY FreeGrows
<1> QED
  BY <1>1, <1>2, <1>3

LEMMA FreeOutside ==
  ASSUME NEW S, NEW i \in Nat, S \cap (1 .. i) = {}
  PROVE  Free(i, S) = i
<1>1. (1 .. i) \ S = 1 .. i
  OBVIOUS
<1>2. Cardinality(1 .. i) = i
  BY FS_Interval
<1> QED
  BY <1>1, <1>2 DEF Free

LEMMA FreeWithin ==
  ASSUME NEW i \in Nat, NEW S \in SUBSET (1 .. i)
  PROVE  IsFiniteSet(S) /\ Cardinality(S) \in Nat /\ Free(i, S) = i - Cardinality(S)
<1>1. IsFiniteSet(1 .. i) /\ Cardinality(1 .. i) = i
  BY FS_Interval
<1>2. (1 .. i) \cap S = S
  OBVIOUS
<1>3. IsFiniteSet(S)
  BY <1>1, FS_Subset
<1>4. Cardinality(S) \in Nat
  BY <1>3, FS_CardinalityType
<1>5. Free(i, S) = i - Cardinality(S)
  <2>1. Cardinality((1 .. i) \ S) = Cardinality(1 .. i) - Cardinality((1 .. i) \cap S)
    BY <1>1, FS_Difference
  <2> QED
    BY <1>1, <1>2, <2>1 DEF Free
<1> QED
  BY <1>3, <1>4, <1>5

LEMMA FreeAdded ==
  ASSUME NEW S, NEW i \in Nat, NEW d \in Nat \ {0}, d \notin S
  PROVE  Free(i, S \cup {d}) = IF d <= i THEN Free(i, S) - 1 ELSE Free(i, S)
<1> DEFINE A == (1 .. i) \ S
<1>1. IsFiniteSet(A) /\ Cardinality(A) = Free(i, S)
  BY FreeSteps DEF Free
<1>2. (1 .. i) \ (S \cup {d}) = A \ {d} /\ (d \in A <=> d <= i)
  OBVIOUS
<1> HIDE DEF A
<1> QED
  BY <1>1, <1>2, FS_RemoveElement DEF Free

LEMMA FreeFound ==
  ASSUME NEW S, IsFiniteSet(S), NEW k \in Nat \ {0}
  PROVE  \E j \in Nat \ {0} : j \notin S /\ Free(j, S) = k
<1> DEFINE T == {j \in Nat : Free(j, S) >= k}
<1>1. Cardinality(S) \in Nat
  BY FS_CardinalityType
<1>2. k + Cardinality(S) \in T
  <2> DEFINE m == k + Cardinality(S)
  <2>0. m \in Nat /\ m \in Int /\ (IF 1 > m THEN 0 ELSE m - 1 + 1) = m
    BY <1>1
  <2> HIDE DEF m
  <2>1. m \in Nat /\ IsFiniteSet(1 .. m) /\ Cardinality(1 .. m) = m
    BY <2>0, FS_Interval
  <2>2. Cardinality((1 .. m) \cap S) <= Cardinality(S) /\ Cardinality((1 .. m) \cap S) \in Nat
    BY <2>1, FS_Intersection, FS_CardinalityType
  <2>3. Free(m, S) = m - Cardinality((1 .. m) \cap S)
    BY <2>1, FS_Difference DEF Free
  <2>4. m = k + Cardinality(S)
    BY DEF m
  <2> QED
    BY <1>1, <2>1, <2>2, <2>3, <2>4
<1>3. PICK j \in T : \A i \in T : j <= i
  <2>1. T \in SUBSET Nat /\ T # {}
    BY <1>2
  <2> HIDE DEF T
  <2> QED
    BY <2>1, Least
<1>4. j # 0
  <2>1. Free(0, S) = 0 /\ j \in Nat /\ Free(j, S) >= k
    BY <1>3, FreeSteps
  <2> QED
    BY <2>1
<1>5. j - 1 \in Nat /\ (j - 1) + 1 = j /\ j - 1 \notin T
  BY <1>3, <1>4
<1>6. Free(j - 1, S) \in Nat /\ Free(j, S) \in Nat
  BY <1>3, <1>5, FreeSteps
<1>7. Free(j - 1, S) < k /\ Free(j, S) >= k
  BY <1>3, <1>5, <1>6
<1>8. Free((j - 1) + 1, S) = IF (j - 1) + 1 \in S THEN Free(j - 1, S) ELSE Free(j - 1, S) + 1
  BY <1>5, FreeSteps
<1>9. j \notin S /\ Free(j, S) = k
  BY <1>5, <1>6, <1>7, <1>8
<1> QED
  BY <1>3, <1>4, <1>9

-----------------------------------------------------------------------------
(* Shifting to the left leaves one index for each that was not deleted, and *)
(* shifting to the right makes room for those inserted.                     *)
LEMMA LeftShape ==
  ASSUME NEW n \in Nat, NEW D \in SUBSET (Nat \ {0}), IsFiniteSet(D)
  PROVE  shiftAllLeft(1 .. n, D) = 1 .. Free(n, D)
<1>1. PICK g : IsLeftFold(g, 1 .. n, D)
  <2>1. D \in SUBSET Nat
    OBVIOUS
  <2> QED
    BY <2>1, LeftFold
<1> DEFINE T == {s \in SUBSET D : g[s] = 1 .. Free(n, s)}
<1>2. {} \in T
  <2>1. Free(n, {}) = n
    BY FreeOutside
  <2>2. g[{}] = 1 .. n
    BY <1>1 DEF IsLeftFold
  <2> QED
    BY <2>1, <2>2
<1>3. ASSUME NEW s \in SUBSET D, s # {}, \A x \in s : s \ {x} \in T PROVE s \in T
  <2>1. PICK d, r : d = Min(s) /\ r = s \ {d}
    OBVIOUS
  <2>2. d \in s /\ d \in Nat \ {0} /\ \A x \in r : x > d
    <3>1. s \in SUBSET Nat
      OBVIOUS
    <3>2. d \in s /\ \A x \in s : d <= x
      BY <1>3, <2>1, <3>1, MinFacts
    <3> QED
      BY <2>1, <3>2
  <2>3. g[r] = 1 .. Free(n, r) /\ g[s] = shiftLeft(g[r], d)
    BY <1>1, <1>3, <2>1, <2>2 DEF IsLeftFold
  <2>4. d \notin r /\ s = r \cup {d}
    BY <2>1, <2>2
  <2>5. Free(n, s) = IF d <= n THEN Free(n, r) - 1 ELSE Free(n, r)
    BY <2>2, <2>4, FreeAdded
  <2>6. Free(n, r) \in Nat /\ Free(n, r) <= n
    BY FreeSteps
  <2>7. d <= n => d <= Free(n, r)
    <3>1. r \cap (1 .. d) = {}
      BY <2>2
    <3>2. Free(d, r) = d
      BY <2>2, <3>1, FreeOutside
    <3>3. d <= n => Free(d, r) <= Free(n, r)
      BY <2>2, FreeGrows
    <3> QED
      BY <3>2, <3>3
  <2>8. PICK c : c = Free(n, r)
    OBVIOUS
  <2>9. c \in Nat /\ (d <= n => d <= c) /\ (~(d <= n) => d > c) /\ d \in Nat \ {0}
    BY <2>2, <2>6, <2>7, <2>8
  <2>10. CASE d <= n
    <3>1. shiftLeft(1 .. c, d) = 1 .. (c - 1)
      <4>1. d <= c
        BY <2>9, <2>10
      <4>2. ASSUME NEW x \in shiftLeft(1 .. c, d) PROVE x \in 1 .. (c - 1)
        BY <2>9, <4>1 DEF shiftLeft
      <4>3. ASSUME NEW x \in 1 .. (c - 1) PROVE x \in shiftLeft(1 .. c, d)
        <5>1. CASE x < d
          BY <2>9, <5>1 DEF shiftLeft
        <5>2. CASE ~(x < d)
          <6>1. x + 1 \in {j \in 1 .. c : j > d} /\ x = (x + 1) - 1
            BY <2>9, <5>2
          <6> QED
            BY <6>1 DEF shiftLeft
        <5> QED
          BY <5>1, <5>2
      <4> QED
        BY <4>2, <4>3
    <3> QED
      BY <2>3, <2>5, <2>8, <2>10, <3>1
  <2>11. CASE ~(d <= n)
    <3>1. shiftLeft(1 .. c, d) = 1 .. c
      BY <2>9, <2>11 DEF shiftLeft
    <3> QED
      BY <2>3, <2>5, <2>8, <2>11, <3>1
  <2> QED
    BY <2>10, <2>11
<1>4. SUBSET D \subseteq T
  <2> HIDE DEF T
  <2> QED
    BY <1>2, <1>3, SubsetInduction
<1> QED
  BY <1>1, <1>4 DEF IsLeftFold

(* The indexes of a list of c old objects once the indexes of I are         *)
(* inserted.                                                                *)
Remaining(c, I) == {j \in Nat \ {0} : j \notin I /\ Free(j, I) <= c}

LEMMA RightShape ==
  ASSUME NEW c \in Nat, NEW I \in SUBSET (Nat \ {0}), IsFiniteSet(I)
  PROVE  shiftAllRight(1 .. c, I) = Remaining(c, I)
<1>1. PICK g : IsRightFold(g, 1 .. c, I)
  <2>1. I \in SUBSET Nat
    OBVIOUS
  <2> QED
    BY <2>1, RightFold
<1> DEFINE T == {s \in SUBSET I : g[s] = Remaining(c, s)}
<1>2. {} \in T
  <2>1. \A j \in Nat : Free(j, {}) = j
    BY FreeOutside
  <2>2. g[{}] = 1 .. c
    BY <1>1 DEF IsRightFold
  <2>3. Remaining(c, {}) = 1 .. c
    BY <2>1 DEF Remaining
  <2> QED
    BY <2>2, <2>3
<1>3. ASSUME NEW s \in SUBSET I, s # {}, \A x \in s : s \ {x} \in T PROVE s \in T
  <2>1. PICK k, r : k = Max(s) /\ r = s \ {k}
    OBVIOUS
  <2>2. k \in s /\ k \in Nat \ {0} /\ \A x \in r : x < k
    <3>1. s \in SUBSET Nat /\ IsFiniteSet(s)
      BY FS_Subset
    <3>2. k \in s /\ \A x \in s : x <= k
      BY <1>3, <2>1, <3>1, MaxFacts
    <3> QED
      BY <2>1, <3>2
  <2>3. g[r] = Remaining(c, r) /\ g[s] = shiftRight(g[r], k)
    BY <1>1, <1>3, <2>1, <2>2 DEF IsRightFold
  <2>4. k \notin r /\ s = r \cup {k}
    BY <2>1, <2>2
  <2>5. \A j \in Nat : /\ Free(j, s) = (IF k <= j THEN Free(j, r) - 1 ELSE Free(j, r))
                       /\ Free(j, r) \in Nat
    BY <2>2, <2>4, FreeAdded, FreeSteps
  <2>6. \A j \in Nat : j > k => /\ j - 1 \in Nat \ {0} /\ j - 1 >= k /\ j - 1 \notin r /\ j \notin s /\ j \notin r
                                /\ Free(j, s) = Free(j - 1, r)
    <3> SUFFICES ASSUME NEW j \in Nat, j > k
                 PROVE  /\ j - 1 \in Nat \ {0} /\ j - 1 >= k /\ j - 1 \notin r /\ j \notin s /\ j \notin r
                        /\ Free(j, s) = Free(j - 1, r)
      BY Zenon
    <3>1. j - 1 \in Nat \ {0} /\ j - 1 >= k /\ (j - 1) + 1 = j
      BY <2>2
    <3>2. j - 1 \notin r /\ j \notin r /\ j \notin s
      BY <2>2, <2>4, <3>1
    <3>3. Free(j, r) = Free(j - 1, r) + 1 /\ Free(j - 1, r) \in Nat
      <4>1. /\ Free((j - 1) + 1, r) = IF (j - 1) + 1 \in r THEN Free(j - 1, r) ELSE Free(j - 1, r) + 1
            /\ Free(j - 1, r) \in Nat
        BY <3>1, FreeSteps
      <4> QED
        BY <3>1, <3>2, <4>1
    <3>4. Free(j, s) = Free(j, r) - 1
      BY <2>2, <2>5, <3>1
    <3>5. Free(j, s) = Free(j - 1, r)
      BY <3>3, <3>4
    <3> QED
      BY <3>1, <3>2, <3>5
  <2>7. ASSUME NEW x \in Remaining(c, s) PROVE x \in shiftRight(Remaining(c, r), k)
    <3>1. x \in Nat \ {0} /\ x \notin s /\ Free(x, s) <= c /\ x # k
      BY <2>2 DEF Remaining
    <3>2. CASE x < k
      <4>1. x \in Remaining(c, r)
        BY <2>2, <2>4, <2>5, <3>1, <3>2 DEF Remaining
      <4> QED
        BY <3>2, <4>1 DEF shiftRight
    <3>3. CASE x > k
      <4>1. x - 1 \in {j \in Remaining(c, r) : j >= k} /\ x = (x - 1) + 1
        BY <2>6, <3>1, <3>3 DEF Remaining
      <4> QED
        BY <4>1 DEF shiftRight
    <3> QED
      BY <2>2, <3>1, <3>2, <3>3
  <2>8. ASSUME NEW x \in shiftRight(Remaining(c, r), k) PROVE x \in Remaining(c, s)
    <3>1. CASE x \in Remaining(c, r) /\ x < k
      <4>1. x \in Nat \ {0} /\ x \notin r /\ Free(x, r) <= c /\ ~(k <= x)
        BY <2>2, <3>1 DEF Remaining
      <4>2. x \notin s /\ Free(x, s) = Free(x, r)
        BY <2>2, <2>4, <2>5, <4>1
      <4> QED
        BY <4>1, <4>2 DEF Remaining
    <3>2. CASE \E j \in Remaining(c, r) : j >= k /\ x = j + 1
      <4>1. PICK j \in Remaining(c, r) : j >= k /\ x = j + 1
        BY <3>2
      <4>2. j \in Nat /\ x \in Nat /\ x > k /\ x - 1 = j /\ Free(j, r) <= c
        BY <2>2, <4>1 DEF Remaining
      <4>3. x \notin s /\ Free(x, s) = Free(j, r)
        BY <2>6, <4>2
      <4>4. Free(x, s) <= c /\ x \in Nat \ {0}
        BY <2>2, <4>2, <4>3
      <4> QED
        BY <4>3, <4>4 DEF Remaining
    <3> QED
      BY <3>1, <3>2 DEF shiftRight
  <2> QED
    BY <2>3, <2>7, <2>8
<1>4. SUBSET I \subseteq T
  <2> HIDE DEF T
  <2> QED
    BY <1>2, <1>3, SubsetInduction
<1> QED
  BY <1>1, <1>4 DEF IsRightFold

-----------------------------------------------------------------------------
(* What a mapping says: every index that is not deleted has a new one, and  *)
(* it is where counting puts it.                                            *)
IsMapping(m, n, D, I) ==
  /\ DOMAIN m \subseteq Nat \ {0} /\ (1 .. n) \ D \subseteq DOMAIN m
  /\ \A i \in DOMAIN m : m[i] \in Nat \ {0} /\ Matches(i, D, m[i], I)

LEMMA MatchesIsFree ==
  ASSUME NEW i, NEW D, NEW j, NEW I
  PROVE  Matches(i, D, j, I) <=> i \notin D /\ j \notin I /\ Free(i, D) = Free(j, I)
BY DEF Matches, Free

(* The place of an index among the old and among the new ones is its count. *)
LEMMA PositionInOld ==
  ASSUME NEW n \in Nat, NEW i \in 1 .. n, NEW D
  PROVE  position(i, (1 .. n) \ D) = Free(i, D)
<1>1. {j \in (1 .. n) \ D : j <= i} = (1 .. i) \ D
  OBVIOUS
<1> QED
  BY <1>1 DEF position, Free

LEMMA PositionInNew ==
  ASSUME NEW c \in Nat, NEW I \in SUBSET (Nat \ {0}), NEW j \in Remaining(c, I)
  PROVE  position(j, Remaining(c, I)) = Free(j, I)
<1>1. j \in Nat \ {0} /\ Free(j, I) <= c /\ Free(j, I) \in Nat
  BY FreeSteps DEF Remaining
<1>2. ASSUME NEW x \in (1 .. j) \ I PROVE x \in Remaining(c, I)
  <2>1. x \in Nat \ {0} /\ x <= j /\ x \notin I
    BY <1>1
  <2>2. Free(x, I) <= Free(j, I) /\ Free(x, I) \in Nat
    BY <1>1, <2>1, FreeGrows, FreeSteps
  <2>3. Free(x, I) <= c
    BY <1>1, <2>2
  <2> QED
    BY <2>1, <2>3 DEF Remaining
<1>3. {x \in Remaining(c, I) : x <= j} = (1 .. j) \ I
  <2>1. \A x \in Remaining(c, I) : x \in Nat \ {0} /\ x \notin I
    BY DEF Remaining
  <2>2. \A x \in (1 .. j) \ I : x <= j
    BY <1>1
  <2>3. \A x \in Remaining(c, I) : x <= j => x \in (1 .. j) \ I
    BY <1>1, <2>1
  <2> QED
    BY <1>2, <2>2, <2>3, Zenon
<1> QED
  BY <1>3 DEF position, Free

(* mapForUpdateWithOldCount:deleted:inserted: maps every old index that is  *)
(* not deleted, and maps it to the index that it has after the update,      *)
(* whatever the indexes that are deleted and inserted: what it does with    *)
(* ranges and shifts agrees with counting.                                  *)
THEOREM MapForUpdate ==
  ASSUME MaxIndex \in Nat, NEW n \in Nat, n <= MaxIndex,
         NEW D \in SUBSET (Nat \ {0}), IsFiniteSet(D), NEW I \in SUBSET (Nat \ {0}), IsFiniteSet(I)
  PROVE  IsMapping(mapForUpdate(n, D, I), n, D, I)
<1>1. CASE n = 0
  <2>1. mapForUpdate(n, D, I) = <<>> /\ DOMAIN <<>> = {} /\ (1 .. n) \ D = {}
    BY <1>1 DEF mapForUpdate, emptyMap
  <2> QED
    BY <2>1 DEF IsMapping
<1>2. CASE n # 0 /\ D = {} /\ I = {}
  <2>1. PICK m : m = mapForUpdate(n, D, I)
    OBVIOUS
  <2>2. m = [i \in 1 .. MaxIndex |-> i]
    BY <1>2, <2>1 DEF mapForUpdate, identityMap
  <2>3. \A i \in 1 .. MaxIndex : Matches(i, D, i, I)
    BY <1>2, MatchesIsFree
  <2>4. IsMapping(m, n, D, I)
    BY <2>2, <2>3 DEF IsMapping
  <2> QED
    BY <2>1, <2>4
<1>3. CASE n # 0 /\ ~(D = {} /\ I = {})
  <2>1. PICK m, c, old, new :
             /\ m = mapForUpdate(n, D, I) /\ c = Free(n, D)
             /\ old = (1 .. n) \ D /\ new = newIndexes(n, D, I)
    OBVIOUS
  <2>2. m = [i \in old |-> CHOOSE j \in new : position(j, new) = position(i, old)]
    BY <1>3, <2>1 DEF mapForUpdate
  <2>3. c \in Nat
    BY <2>1, FreeSteps
  <2>4. new = Remaining(c, I)
    BY <2>1, <2>3, LeftShape, RightShape DEF newIndexes
  <2>5. ASSUME NEW i \in old
        PROVE  i \in Nat \ {0} /\ m[i] \in Nat \ {0} /\ Matches(i, D, m[i], I)
    <3>1. i \in 1 .. n /\ i \in Nat \ {0} /\ i \notin D
      BY <2>1
    <3>2. position(i, old) = Free(i, D)
      BY <2>1, <3>1, PositionInOld
    <3>3. Free(i, D) \in Nat /\ Free(i, D) <= c
      <4>1. i \in Nat /\ i <= n
        BY <3>1
      <4>2. Free(i, D) \in Nat /\ Free(i, D) <= Free(n, D)
        BY <4>1, FreeGrows, FreeSteps
      <4> QED
        BY <2>1, <4>2
    <3>4. Free(i, D) # 0
      BY <3>1, FreePositive
    <3>5. PICK j \in Nat \ {0} : j \notin I /\ Free(j, I) = Free(i, D)
      BY <3>3, <3>4, FreeFound
    <3>6. j \in new
      BY <2>4, <3>3, <3>5 DEF Remaining
    <3>7. position(j, new) = Free(j, I)
      BY <2>3, <2>4, <3>6, PositionInNew
    <3>8. m[i] \in new /\ position(m[i], new) = position(i, old)
      BY <2>2, <3>2, <3>5, <3>6, <3>7
    <3>9. m[i] \in Nat \ {0} /\ m[i] \notin I
      BY <2>4, <3>8 DEF Remaining
    <3>10. position(m[i], new) = Free(m[i], I)
      BY <2>3, <2>4, <3>8, PositionInNew
    <3> QED
      BY <3>1, <3>2, <3>8, <3>9, <3>10, MatchesIsFree
  <2>6. IsMapping(m, n, D, I)
    BY <2>1, <2>2, <2>5 DEF IsMapping
  <2> QED
    BY <2>1, <2>6
<1> QED
  BY <1>1, <1>2, <1>3

(* No two old indexes match the same new one, nor does one match two.       *)
LEMMA MatchesIsOneToOne ==
  ASSUME NEW D, NEW I, NEW i \in Nat, NEW j \in Nat, NEW k \in Nat, NEW l \in Nat,
         Matches(i, D, j, I), Matches(k, D, l, I)
  PROVE  (i = k <=> j = l) /\ (i < k <=> j < l)
<1>1. /\ i \notin D /\ k \notin D /\ j \notin I /\ l \notin I
      /\ Free(i, D) = Free(j, I) /\ Free(k, D) = Free(l, I)
  BY MatchesIsFree
<1>2. Free(i, D) \in Nat /\ Free(k, D) \in Nat
  BY FreeSteps
<1>3. (i = k <=> Free(i, D) = Free(k, D)) /\ (j = l <=> Free(j, I) = Free(l, I))
  BY <1>1, FreeIsUnique
<1>4. (i < k => Free(i, D) < Free(k, D)) /\ (k < i => Free(k, D) < Free(i, D))
  BY <1>1, FreeGrows
<1>5. (j < l => Free(j, I) < Free(l, I)) /\ (l < j => Free(l, I) < Free(j, I))
  BY <1>1, FreeGrows
<1> QED
  BY <1>1, <1>2, <1>3, <1>4, <1>5

(* Taken backwards, a mapping gives what it was made from.                  *)
LEMMA InverseMap ==
  ASSUME NEW m, NEW n \in Nat, NEW D, NEW I, IsMapping(m, n, D, I), NEW j \in Nat \ {0}
  PROVE  /\ \A i \in DOMAIN m : m[i] = j => integerForKey(inverseMap(m), j) = i
         /\ (\A i \in DOMAIN m : m[i] # j) => integerForKey(inverseMap(m), j) = NotFound
<1>1. PICK v : v = inverseMap(m)
  OBVIOUS
<1>2. DOMAIN v = {m[i] : i \in DOMAIN m}
  BY <1>1 DEF inverseMap, AntiFunction, Inverse, Range
<1>3. ASSUME NEW i \in DOMAIN m, m[i] = j PROVE v[j] = i /\ j \in DOMAIN v
  <2>1. v[j] = CHOOSE s \in DOMAIN m : j \in {m[x] : x \in DOMAIN m} => m[s] = j
    BY <1>1, <1>2, <1>3 DEF inverseMap, AntiFunction, Inverse, Range
  <2>2. v[j] \in DOMAIN m /\ m[v[j]] = j
    BY <1>3, <2>1
  <2>3. /\ i \in Nat /\ v[j] \in Nat
        /\ Matches(i, D, j, I) /\ Matches(v[j], D, j, I)
    BY <1>3, <2>2 DEF IsMapping
  <2> QED
    BY <1>2, <1>3, <2>3, MatchesIsOneToOne
<1> QED
  BY <1>1, <1>2, <1>3 DEF integerForKey

-----------------------------------------------------------------------------
(* One object removed or inserted.                                          *)
LEMMA ObjectRemoved ==
  ASSUME NEW V, NEW m \in Seq(V), NEW i \in 1 .. Len(m), NEW t, t = removeObject(m, i, 1)
  PROVE  /\ t \in Seq(V) /\ Len(t) = Len(m) - 1
         /\ \A j \in 1 .. (i - 1) : t[j] = m[j]
         /\ \A j \in i .. (Len(m) - 1) : t[j] = m[j + 1]
<1>1. /\ SubSeq(m, 1, i - 1) \in Seq(V) /\ Len(SubSeq(m, 1, i - 1)) = i - 1
      /\ \A j \in 1 .. (i - 1) : SubSeq(m, 1, i - 1)[j] = m[j]
  OBVIOUS
<1>2. /\ SubSeq(m, i + 1, Len(m)) \in Seq(V) /\ Len(SubSeq(m, i + 1, Len(m))) = Len(m) - i
      /\ \A j \in 1 .. (Len(m) - i) : SubSeq(m, i + 1, Len(m))[j] = m[i + j]
  OBVIOUS
<1>3. PICK a, b : a = SubSeq(m, 1, i - 1) /\ b = SubSeq(m, i + 1, Len(m))
  OBVIOUS
<1>4. i \in DOMAIN m
  OBVIOUS
<1>5. /\ t = a \o b
      /\ a \in Seq(V) /\ Len(a) = i - 1 /\ \A j \in 1 .. (i - 1) : a[j] = m[j]
      /\ b \in Seq(V) /\ Len(b) = Len(m) - i /\ \A j \in 1 .. (Len(m) - i) : b[j] = m[i + j]
  BY <1>1, <1>2, <1>3, <1>4 DEF removeObject
<1>6. /\ t \in Seq(V) /\ Len(t) = Len(a) + Len(b)
      /\ \A j \in 1 .. (Len(a) + Len(b)) : t[j] = IF j <= Len(a) THEN a[j] ELSE b[j - Len(a)]
  <2>1. a \in Seq(V) /\ b \in Seq(V) /\ t = a \o b
    BY <1>5
  <2> QED
    BY <2>1, ConcatProperties
<1>7. Len(a) = i - 1 /\ Len(b) = Len(m) - i /\ Len(a) + Len(b) = Len(m) - 1
  BY <1>5
<1>8. \A j \in 1 .. (i - 1) : t[j] = m[j]
  <2> TAKE j \in 1 .. (i - 1)
  <2>1. j \in 1 .. (Len(a) + Len(b)) /\ j <= Len(a)
    BY <1>7
  <2> QED
    BY <1>5, <1>6, <2>1
<1>9. \A j \in i .. (Len(m) - 1) : t[j] = m[j + 1]
  <2> TAKE j \in i .. (Len(m) - 1)
  <2>1. j \in 1 .. (Len(a) + Len(b)) /\ ~(j <= Len(a)) /\ j - Len(a) = j - (i - 1)
    BY <1>7
  <2>2. j - (i - 1) \in 1 .. (Len(m) - i) /\ i + (j - (i - 1)) = j + 1
    OBVIOUS
  <2>3. b[j - (i - 1)] = m[j + 1]
    BY <1>5, <2>2
  <2> QED
    BY <1>6, <2>1, <2>3
<1> QED
  BY <1>6, <1>7, <1>8, <1>9

LEMMA ObjectInserted ==
  ASSUME NEW V, NEW m \in Seq(V), NEW i \in 1 .. (Len(m) + 1), NEW n \in V,
         NEW t, t = insertObject(m, i, 1, n)
  PROVE  /\ t \in Seq(V) /\ Len(t) = Len(m) + 1 /\ t[i] = n
         /\ \A j \in 1 .. (i - 1) : t[j] = m[j]
         /\ \A j \in 1 .. (Len(m) + 1) : i < j => t[j] = m[j - 1]
<1>1. /\ SubSeq(m, 1, i - 1) \in Seq(V) /\ Len(SubSeq(m, 1, i - 1)) = i - 1
      /\ \A j \in 1 .. (i - 1) : SubSeq(m, 1, i - 1)[j] = m[j]
  OBVIOUS
<1>2. /\ SubSeq(m, i, Len(m)) \in Seq(V) /\ Len(SubSeq(m, i, Len(m))) = Len(m) + 1 - i
      /\ \A j \in 1 .. (Len(m) + 1 - i) : SubSeq(m, i, Len(m))[j] = m[i + j - 1]
  OBVIOUS
<1>3. PICK a, b, c, e : /\ a = SubSeq(m, 1, i - 1) /\ b = SubSeq(m, i, Len(m))
                        /\ e = [k \in 1 .. 1 |-> n] /\ c = a \o e
  OBVIOUS
<1>4. e \in Seq(V) /\ Len(e) = 1 /\ e[1] = n
  BY <1>3
<1>5. /\ t = c \o b
      /\ a \in Seq(V) /\ Len(a) = i - 1 /\ \A j \in 1 .. (i - 1) : a[j] = m[j]
      /\ b \in Seq(V) /\ Len(b) = Len(m) + 1 - i /\ \A j \in 1 .. (Len(m) + 1 - i) : b[j] = m[i + j - 1]
  BY <1>1, <1>2, <1>3 DEF insertObject
<1>6. /\ c \in Seq(V) /\ Len(c) = i /\ c[i] = n
      /\ \A j \in 1 .. (i - 1) : c[j] = m[j]
  <2>1. /\ c \in Seq(V) /\ Len(c) = Len(a) + Len(e)
        /\ \A j \in 1 .. (Len(a) + Len(e)) : c[j] = IF j <= Len(a) THEN a[j] ELSE e[j - Len(a)]
    BY <1>3, <1>4, <1>5, ConcatProperties
  <2> QED
    BY <1>4, <1>5, <2>1
<1>7. /\ t \in Seq(V) /\ Len(t) = Len(c) + Len(b)
      /\ \A j \in 1 .. (Len(c) + Len(b)) : t[j] = IF j <= Len(c) THEN c[j] ELSE b[j - Len(c)]
  <2>1. c \in Seq(V) /\ b \in Seq(V) /\ t = c \o b
    BY <1>5, <1>6
  <2> QED
    BY <2>1, ConcatProperties
<1>8. \A j \in (i + 1) .. (Len(m) + 1) : b[j - i] = m[j - 1]
  <2> TAKE j \in (i + 1) .. (Len(m) + 1)
  <2>1. j - i \in 1 .. (Len(m) + 1 - i) /\ i + (j - i) - 1 = j - 1
    OBVIOUS
  <2> QED
    BY <1>5, <2>1
<1> QED
  BY <1>5, <1>6, <1>7, <1>8

(* Each index of S, once.                                                   *)
Once(bag, S) == DOMAIN bag = S /\ \A i \in S : bag[i] = 1

(* All objects of D removed: what is left moves to where it counts.         *)
LEMMA ObjectsRemoved ==
  ASSUME NEW V, NEW list \in Seq(V), NEW n, n = Len(list), NEW D \in SUBSET (1 .. n), NEW bag, Once(bag, D),
         NEW t, t = removeObjects(list, bag)
  PROVE  /\ t \in Seq(V) /\ Len(t) = Free(n, D)
         /\ \A i \in (1 .. n) \ D : t[Free(i, D)] = list[i]
<1>1. n \in Nat /\ IsFiniteSet(D) /\ D \in SUBSET Nat /\ DOMAIN bag = D
  BY FreeWithin DEF Once
<1>2. PICK g : IsRemoveFold(g, bag, list, D)
  BY <1>1, RemoveFold
<1> DEFINE T == {s \in SUBSET D : /\ g[s] \in Seq(V) /\ Len(g[s]) = Free(n, s)
                                  /\ \A i \in (1 .. n) \ s : g[s][Free(i, s)] = list[i]}
<1>3. {} \in T
  <2>1. \A i \in Nat : Free(i, {}) = i
    BY FreeOutside
  <2>2. g[{}] = list
    BY <1>2 DEF IsRemoveFold
  <2> QED
    BY <1>1, <2>1, <2>2
<1>4. ASSUME NEW s \in SUBSET D, s # {}, \A x \in s : s \ {x} \in T PROVE s \in T
  <2>1. PICK d, r : d = Min(s) /\ r = s \ {d}
    OBVIOUS
  <2>2. d \in s /\ d \in 1 .. n /\ d \in Nat \ {0} /\ \A x \in r : x > d /\ x \in Nat
    <3>1. s \in SUBSET Nat
      BY <1>1
    <3>2. d \in s /\ \A x \in s : d <= x
      BY <1>4, <2>1, <3>1, MinFacts
    <3> QED
      BY <1>1, <2>1, <3>2
  <2>3. d \notin r /\ s = r \cup {d} /\ r \in T
    BY <1>4, <2>1, <2>2
  <2>4. PICK l, u : l = g[r] /\ u = g[s]
    OBVIOUS
  <2>5. u = removeObject(l, d, 1)
    <3>1. g[s] = removeObject(g[s \ {Min(s)}], Min(s), bag[Min(s)])
      BY <1>2, <1>4 DEF IsRemoveFold
    <3>2. bag[d] = 1
      BY <2>2 DEF Once
    <3> QED
      BY <2>1, <2>4, <3>1, <3>2
  <2>6. l \in Seq(V) /\ Len(l) = Free(n, r) /\ \A i \in (1 .. n) \ r : l[Free(i, r)] = list[i]
    BY <2>3, <2>4
  <2>7. d \in 1 .. Len(l)
    <3>1. r \cap (1 .. d) = {}
      BY <2>2
    <3>2. Free(d, r) = d /\ Free(d, r) <= Free(n, r)
      BY <1>1, <2>2, <3>1, FreeGrows, FreeOutside
    <3> QED
      BY <2>2, <2>6, <3>2
  <2>8. /\ u \in Seq(V) /\ Len(u) = Len(l) - 1
        /\ \A j \in 1 .. (d - 1) : u[j] = l[j]
        /\ \A j \in d .. (Len(l) - 1) : u[j] = l[j + 1]
    BY <2>5, <2>6, <2>7, ObjectRemoved
  <2>9. Len(u) = Free(n, s)
    <3>1. Free(n, s) = Free(n, r) - 1
      BY <1>1, <2>2, <2>3, FreeAdded
    <3> QED
      BY <2>6, <2>8, <3>1
  <2>10. ASSUME NEW i \in (1 .. n) \ s PROVE u[Free(i, s)] = list[i]
    <3>1. /\ i \in Nat \ {0} /\ i <= n /\ i \notin s /\ i \notin r /\ i # d
          /\ l[Free(i, r)] = list[i]
      BY <1>1, <2>2, <2>3, <2>6
    <3>2. CASE i < d
      <4>1. Free(i, s) = Free(i, r) /\ r \cap (1 .. i) = {}
        BY <2>2, <2>3, <3>1, <3>2, FreeAdded
      <4>2. Free(i, s) = i /\ Free(i, r) = i
        BY <3>1, <4>1, FreeOutside
      <4>3. i \in 1 .. (d - 1)
        BY <2>2, <3>1, <3>2
      <4> QED
        BY <2>8, <3>1, <4>2, <4>3
    <3>3. CASE d < i
      <4>1. Free(i, s) = Free(i, r) - 1 /\ Free(i, r) \in Nat
        <5>1. d <= i /\ i \in Nat
          BY <2>2, <3>1, <3>3
        <5> QED
          BY <2>2, <2>3, <5>1, FreeAdded, FreeSteps
      <4>2. d < Free(i, r)
        <5>1. Free(d, r) < Free(i, r)
          BY <2>2, <3>1, <3>3, FreeGrows
        <5>2. r \cap (1 .. d) = {}
          BY <2>2
        <5>3. Free(d, r) = d
          BY <2>2, <5>2, FreeOutside
        <5> QED
          BY <5>1, <5>3
      <4>3. Free(i, r) <= Len(l)
        BY <1>1, <2>6, <3>1, FreeGrows
      <4>4. Len(l) \in Nat /\ d \in Nat
        BY <2>2, <2>6
      <4>5. Free(i, s) \in d .. (Len(l) - 1) /\ Free(i, s) + 1 = Free(i, r)
        BY <4>1, <4>2, <4>3, <4>4
      <4> QED
        BY <2>8, <3>1, <4>5
    <3> QED
      BY <2>2, <3>1, <3>2, <3>3
  <2> QED
    BY <2>4, <2>8, <2>9, <2>10
<1>5. \A s \in SUBSET D : s # {} /\ (\A x \in s : s \ {x} \in T) => s \in T
  <2> HIDE DEF T
  <2> QED
    BY <1>4
<1>6. SUBSET D \subseteq T
  <2> HIDE DEF T
  <2>1. IsFiniteSet(D)
    BY <1>1
  <2> QED
    BY <1>3, <1>5, <2>1, SubsetInduction
<1>7. D \in T
  <2> HIDE DEF T
  <2> QED
    BY <1>6
<1> QED
  BY <1>2, <1>7 DEF IsRemoveFold

(* All objects of I inserted: what was there moves to where it counts.      *)
LEMMA ObjectsInserted ==
  ASSUME NEW V, NEW list \in Seq(V), NEW m \in Nat, NEW I \in SUBSET (1 .. m), Free(m, I) = Len(list),
         NEW bag, Once(bag, I), NEW new, \A i \in I : new[i] \in V,
         NEW t, t = insertObjects(list, bag, new)
  PROVE  /\ t \in Seq(V) /\ Len(t) = m
         /\ \A i \in I : t[i] = new[i]
         /\ \A j \in (1 .. m) \ I : t[j] = list[Free(j, I)]
<1>1. /\ Len(list) \in Nat /\ IsFiniteSet(I) /\ I \in SUBSET Nat /\ DOMAIN bag = I
      /\ Cardinality(I) \in Nat /\ m = Len(list) + Cardinality(I)
  <2>1. /\ Len(list) \in Nat /\ IsFiniteSet(I) /\ I \in SUBSET Nat /\ DOMAIN bag = I
        /\ Cardinality(I) \in Nat /\ Free(m, I) = m - Cardinality(I)
    BY FreeWithin DEF Once
  <2> QED
    BY <2>1
<1>2. PICK g : IsInsertFold(g, bag, new, list, I)
  BY <1>1, InsertFold
<1>3. PICK c : c = Len(list)
  OBVIOUS
<1> DEFINE R(s, l) == /\ l \in Seq(V) /\ Len(l) = c + Cardinality(s)
                      /\ \A i \in s : l[i] = new[i]
                      /\ \A j \in (1 .. (c + Cardinality(s))) \ s : l[j] = list[Free(j, s)]
           T == {s \in SUBSET I : (\A j \in s : Free(j, s) <= c) => R(s, g[s])}
<1>4. {} \in T
  <2>1. \A i \in Nat : Free(i, {}) = i
    BY FreeOutside
  <2>2. g[{}] = list /\ Cardinality({}) = 0
    BY <1>2, FS_EmptySet DEF IsInsertFold
  <2>3. R({}, list)
    BY <1>1, <1>3, <2>1, <2>2
  <2> QED
    BY <2>2, <2>3
<1>5. ASSUME NEW s \in SUBSET I, s # {}, \A x \in s : s \ {x} \in T, \A j \in s : Free(j, s) <= c
      PROVE  R(s, g[s])
  <2>1. PICK k, r : k = Max(s) /\ r = s \ {k}
    OBVIOUS
  <2>2. k \in s /\ k \in 1 .. m /\ k \in Nat \ {0} /\ \A x \in r : x < k /\ x \in Nat
    <3>1. s \in SUBSET Nat /\ IsFiniteSet(s)
      BY <1>1, FS_Subset
    <3>2. k \in s /\ \A x \in s : x <= k
      BY <1>5, <2>1, <3>1, MaxFacts
    <3> QED
      BY <1>1, <2>1, <3>2
  <2>3. k \notin r /\ s = r \cup {k} /\ r \in T /\ IsFiniteSet(s) /\ IsFiniteSet(r)
    BY <1>1, <1>5, <2>1, <2>2, FS_Subset
  <2>4. Cardinality(r) \in Nat /\ Cardinality(s) = Cardinality(r) + 1
    BY <2>3, FS_AddElement, FS_CardinalityType
  <2>5. \A j \in Nat : /\ Free(j, s) = (IF k <= j THEN Free(j, r) - 1 ELSE Free(j, r))
                       /\ Free(j, r) \in Nat
    BY <2>2, <2>3, FreeAdded, FreeSteps
  <2>6. \A j \in r : Free(j, r) <= c
    <3> TAKE j \in r
    <3>1. j \in s /\ j \in Nat /\ ~(k <= j)
      BY <2>2, <2>3
    <3> QED
      BY <1>5, <2>5, <3>1
  <2>7. PICK l, u, e : l = g[r] /\ u = g[s] /\ e = c + Cardinality(r)
    OBVIOUS
  <2>8. /\ l \in Seq(V) /\ Len(l) = e /\ e \in Nat
        /\ \A i \in r : l[i] = new[i]
        /\ \A j \in (1 .. e) \ r : l[j] = list[Free(j, r)]
    BY <1>1, <1>3, <2>3, <2>4, <2>6, <2>7
  <2>9. u = insertObject(l, k, 1, new[k])
    <3>1. g[s] = insertObject(g[s \ {Max(s)}], Max(s), bag[Max(s)], new[Max(s)])
      BY <1>2, <1>5 DEF IsInsertFold
    <3>2. bag[k] = 1
      BY <2>2 DEF Once
    <3> QED
      BY <2>1, <2>7, <3>1, <3>2
  <2>10. k \in 1 .. (e + 1) /\ new[k] \in V
    <3>1. s \in SUBSET (1 .. k)
      <4>1. \A x \in s : x \in 1 .. m
        OBVIOUS
      <4>2. \A x \in s : x = k \/ x < k
        BY <2>2, <2>3
      <4> QED
        BY <2>2, <4>1, <4>2
    <3>2. Free(k, s) = k - Cardinality(s) /\ Free(k, s) <= c
      BY <1>5, <2>2, <3>1, FreeWithin
    <3> QED
      BY <1>1, <1>3, <2>2, <2>4, <2>7, <3>2
  <2>11. /\ u \in Seq(V) /\ Len(u) = e + 1 /\ u[k] = new[k]
         /\ \A j \in 1 .. (k - 1) : u[j] = l[j]
         /\ \A j \in 1 .. (e + 1) : k < j => u[j] = l[j - 1]
    <3>1. l \in Seq(V) /\ k \in 1 .. (Len(l) + 1) /\ new[k] \in V /\ u = insertObject(l, k, 1, new[k])
      BY <2>8, <2>9, <2>10
    <3>2. /\ u \in Seq(V) /\ Len(u) = Len(l) + 1 /\ u[k] = new[k]
          /\ \A j \in 1 .. (k - 1) : u[j] = l[j]
          /\ \A j \in 1 .. (Len(l) + 1) : k < j => u[j] = l[j - 1]
      <4>1. PICK x \in V : x = new[k]
        BY <3>1
      <4>2. u = insertObject(l, k, 1, x)
        BY <3>1, <4>1
      <4>3. /\ u \in Seq(V) /\ Len(u) = Len(l) + 1 /\ u[k] = x
            /\ \A j \in 1 .. (k - 1) : u[j] = l[j]
            /\ \A j \in 1 .. (Len(l) + 1) : k < j => u[j] = l[j - 1]
        <5>1. l \in Seq(V) /\ k \in 1 .. (Len(l) + 1)
          BY <3>1
        <5> QED
          BY <4>2, <5>1, ObjectInserted
      <4> QED
        BY <4>1, <4>3
    <3> QED
      BY <2>8, <3>2
  <2>12. c + Cardinality(s) = e + 1
    BY <1>1, <1>3, <2>4, <2>7
  <2>13. ASSUME NEW i \in s PROVE u[i] = new[i]
    <3>1. CASE i = k
      BY <2>11, <3>1
    <3>2. CASE i \in r
      <4>1. i \in 1 .. (k - 1)
        BY <1>1, <2>2, <2>3, <3>2
      <4> QED
        BY <2>8, <2>11, <3>2, <4>1
    <3> QED
      BY <2>3, <3>1, <3>2
  <2>14. ASSUME NEW j \in (1 .. (e + 1)) \ s PROVE u[j] = list[Free(j, s)]
    <3>1. j \in Nat \ {0} /\ j <= e + 1 /\ j \notin r /\ j # k
      BY <2>3, <2>8
    <3>2. CASE j < k
      <4>1. j \in 1 .. (k - 1) /\ j \in (1 .. e) \ r /\ ~(k <= j)
        BY <2>2, <2>8, <2>10, <3>1, <3>2
      <4>2. Free(j, s) = Free(j, r)
        BY <2>5, <3>1, <4>1
      <4> QED
        BY <2>8, <2>11, <4>1, <4>2
    <3>3. CASE k < j
      <4>1. /\ j \in 1 .. (e + 1) /\ j - 1 \in Nat \ {0} /\ j - 1 >= k /\ (j - 1) + 1 = j /\ k <= j
            /\ j - 1 \in 1 .. e
        BY <2>2, <2>8, <3>1, <3>3
      <4>2. j - 1 \notin r
        BY <2>2, <4>1
      <4>3. Free(j, r) = Free(j - 1, r) + 1 /\ Free(j - 1, r) \in Nat
        <5>1. /\ Free((j - 1) + 1, r) = IF (j - 1) + 1 \in r THEN Free(j - 1, r) ELSE Free(j - 1, r) + 1
              /\ Free(j - 1, r) \in Nat
          BY <4>1, FreeSteps
        <5> QED
          BY <3>1, <4>1, <5>1
      <4>4. Free(j, s) = Free(j - 1, r)
        <5>1. Free(j, s) = Free(j, r) - 1
          BY <2>5, <3>1, <4>1
        <5> QED
          BY <4>3, <5>1
      <4>5. u[j] = l[j - 1] /\ l[j - 1] = list[Free(j - 1, r)]
        <5>1. u[j] = l[j - 1]
          BY <2>11, <3>3, <4>1
        <5>2. PICK i : i = j - 1
          OBVIOUS
        <5>3. i \in (1 .. e) \ r
          BY <4>1, <4>2, <5>2
        <5>4. l[i] = list[Free(i, r)]
          BY <2>8, <5>3
        <5> QED
          BY <5>1, <5>2, <5>4
      <4> QED
        BY <4>4, <4>5
    <3> QED
      BY <2>2, <3>1, <3>2, <3>3
  <2> QED
    BY <2>7, <2>11, <2>12, <2>13, <2>14
<1>6. \A s \in SUBSET I : s # {} /\ (\A x \in s : s \ {x} \in T) => s \in T
  <2> HIDE DEF R
  <2> SUFFICES ASSUME NEW s \in SUBSET I, s # {}, \A x \in s : s \ {x} \in T, \A j \in s : Free(j, s) <= c
               PROVE  R(s, g[s])
    OBVIOUS
  <2> HIDE DEF T
  <2> QED
    BY <1>5
<1>7. SUBSET I \subseteq T
  <2> HIDE DEF T
  <2>1. IsFiniteSet(I)
    BY <1>1
  <2> QED
    BY <1>4, <1>6, <2>1, SubsetInduction
<1>8. \A j \in I : Free(j, I) <= c
  <2> TAKE j \in I
  <2>1. j \in Nat /\ j <= m
    OBVIOUS
  <2> QED
    BY <1>3, <2>1, FreeGrows
<1>9. R(I, g[I])
  <2>1. I \in T
    <3> HIDE DEF T
    <3> QED
      BY <1>7
  <2> QED
    BY <1>8, <2>1
<1>10. c + Cardinality(I) = m /\ t = g[I]
  BY <1>1, <1>2, <1>3 DEF IsInsertFold
<1> QED
  BY <1>9, <1>10

(* A list whose objects at the indexes D are removed and into which new ones*)
(* are then inserted at I, index by index as the code does, has the new     *)
(* objects at I and at every other index the old object that matches it:    *)
(* order and indexes agree, if as many are left as the new list has room    *)
(* for.                                                                     *)
THEOREM ListUpdated ==
  ASSUME NEW V, NEW list \in Seq(V), NEW D \in SUBSET (1 .. Len(list)),
         NEW m \in Nat, NEW I \in SUBSET (1 .. m), Free(m, I) = Free(Len(list), D),
         NEW dels, Once(dels, D), NEW inss, Once(inss, I), NEW new, \A i \in I : new[i] \in V,
         NEW t, t = insertObjects(removeObjects(list, dels), inss, new)
  PROVE  /\ t \in Seq(V) /\ Len(t) = m
         /\ \A i \in I : t[i] = new[i]
         /\ \A j \in (1 .. m) \ I : \E i \in 1 .. Len(list) : Matches(i, D, j, I) /\ t[j] = list[i]
<1>1. PICK n, u : n = Len(list) /\ n \in Nat /\ u = removeObjects(list, dels) /\ IsFiniteSet(D)
  BY FreeWithin
<1>2. /\ u \in Seq(V) /\ Len(u) = Free(n, D)
      /\ \A i \in (1 .. n) \ D : u[Free(i, D)] = list[i]
  BY <1>1, ObjectsRemoved
<1>3. /\ t \in Seq(V) /\ Len(t) = m
      /\ \A i \in I : t[i] = new[i]
      /\ \A j \in (1 .. m) \ I : t[j] = u[Free(j, I)]
  BY <1>1, <1>2, ObjectsInserted
<1>4. ASSUME NEW j \in (1 .. m) \ I
      PROVE  \E i \in 1 .. Len(list) : Matches(i, D, j, I) /\ t[j] = list[i]
  <2>1. j \in Nat \ {0} /\ j <= m /\ j \notin I
    OBVIOUS
  <2>2. Free(j, I) \in Nat \ {0} /\ Free(j, I) <= Free(n, D)
    <3>1. Free(j, I) \in Nat \ {0}
      BY <2>1, FreePositive
    <3>2. Free(j, I) <= Free(m, I)
      BY <2>1, FreeGrows
    <3> QED
      BY <1>1, <3>1, <3>2
  <2>3. PICK i \in Nat \ {0} : i \notin D /\ Free(i, D) = Free(j, I)
    BY <1>1, <2>2, FreeFound
  <2>4. i <= n
    <3>1. n < i => Free(n, D) < Free(i, D)
      BY <1>1, <2>3, FreeGrows
    <3>2. Free(n, D) \in Nat /\ Free(i, D) \in Nat
      BY <1>1, <2>3, FreeSteps
    <3> QED
      BY <1>1, <2>2, <2>3, <3>1, <3>2
  <2>5. i \in (1 .. n) \ D
    BY <1>1, <2>3, <2>4
  <2>6. Matches(i, D, j, I) /\ t[j] = list[i]
    BY <1>2, <1>3, <2>1, <2>3, <2>5, MatchesIsFree
  <2> QED
    BY <1>1, <2>5, <2>6
<1> QED
  BY <1>3, <1>4

-----------------------------------------------------------------------------
(* Matching indexes are both in the lists or both beyond their ends.        *)
LEMMA MatchesInRange ==
  ASSUME NEW D, NEW I, NEW n \in Nat, NEW m \in Nat, Free(n, D) = Free(m, I),
         NEW i \in Nat, NEW j \in Nat, Matches(i, D, j, I)
  PROVE  i <= n <=> j <= m
<1>1. i \notin D /\ j \notin I /\ Free(i, D) = Free(j, I)
  BY MatchesIsFree
<1>2. /\ Free(i, D) \in Nat /\ Free(j, I) \in Nat /\ Free(n, D) \in Nat /\ Free(m, I) \in Nat
  BY FreeSteps
<1>3. (i <= n => Free(i, D) <= Free(n, D)) /\ (n < i => Free(n, D) < Free(i, D))
  BY <1>1, FreeGrows
<1>4. (j <= m => Free(j, I) <= Free(m, I)) /\ (m < j => Free(m, I) < Free(j, I))
  BY <1>1, FreeGrows
<1> QED
  BY <1>1, <1>2, <1>3, <1>4

LEMMA MatchesFound ==
  ASSUME NEW D, IsFiniteSet(D), NEW I, NEW j \in Nat \ {0}, j \notin I
  PROVE  \E i \in Nat \ {0} : Matches(i, D, j, I)
<1>1. Free(j, I) \in Nat \ {0}
  BY FreePositive
<1>2. PICK i \in Nat \ {0} : i \notin D /\ Free(i, D) = Free(j, I)
  BY <1>1, FreeFound
<1> QED
  BY <1>2, MatchesIsFree

LEMMA MappingIsUnique ==
  ASSUME NEW m, NEW n \in Nat, NEW D, NEW I, IsMapping(m, n, D, I),
         NEW i \in 1 .. n, NEW j \in Nat, Matches(i, D, j, I)
  PROVE  i \in DOMAIN m /\ m[i] = j
<1>1. i \notin D /\ i \in Nat
  BY MatchesIsFree
<1>2. i \in DOMAIN m /\ m[i] \in Nat /\ Matches(i, D, m[i], I)
  BY <1>1 DEF IsMapping
<1>3. PICK k : k = m[i]
  OBVIOUS
<1>4. k = j
  BY <1>1, <1>2, <1>3, MatchesIsOneToOne
<1> QED
  BY <1>2, <1>3, <1>4

(* What is reloaded is deleted and inserted; all else matches as before.    *)
LEMMA ReloadedOne ==
  ASSUME NEW D, NEW I, NEW r \in Nat \ {0}, NEW q \in Nat \ {0}, Matches(r, D, q, I),
         NEW i \in Nat, NEW j \in Nat, i # r, Matches(i, D, j, I)
  PROVE  Matches(i, D \cup {r}, j, I \cup {q})
<1>1. r \notin D /\ q \notin I /\ Free(r, D) = Free(q, I)
  BY MatchesIsFree
<1>2. /\ Free(i, D \cup {r}) = IF r <= i THEN Free(i, D) - 1 ELSE Free(i, D)
      /\ Free(j, I \cup {q}) = IF q <= j THEN Free(j, I) - 1 ELSE Free(j, I)
  BY <1>1, FreeAdded
<1>3. i \notin D /\ j \notin I /\ Free(i, D) = Free(j, I)
  BY MatchesIsFree
<1>4. (i = r <=> j = q) /\ (i < r <=> j < q)
  BY MatchesIsOneToOne
<1>5. r <= i <=> q <= j
  BY <1>4
<1>6. Free(i, D \cup {r}) = Free(j, I \cup {q})
  BY <1>2, <1>3, <1>5
<1> QED
  BY <1>3, <1>4, <1>6, MatchesIsFree

LEMMA ReloadedWithin ==
  ASSUME NEW D, NEW I, NEW r \in Nat \ {0}, NEW q \in Nat \ {0}, Matches(r, D, q, I),
         NEW i \in Nat, NEW j \in Nat, r <= i, q <= j, Free(i, D) = Free(j, I)
  PROVE  Free(i, D \cup {r}) = Free(j, I \cup {q})
<1>1. r \notin D /\ q \notin I
  BY MatchesIsFree
<1> QED
  BY <1>1, FreeAdded

WithReloads(f, D, I, R, A, B) == A = D \cup R /\ B = I \cup {f[r] : r \in R}

ReloadsMatch(n, D, I, R, A, B) ==
  \A i \in 1 .. n, j \in Nat : Matches(i, A, j, B) <=> Matches(i, D, j, I) /\ i \notin R
ReloadsCount(n, D, I, A, B) ==
  \A m \in Nat : Free(n, D) = Free(m, I) => Free(n, A) = Free(m, B)

LEMMA Reloaded ==
  ASSUME NEW f, NEW n \in Nat, NEW D, NEW I, IsMapping(f, n, D, I),
         NEW R \in SUBSET (1 .. n), R \cap D = {}, NEW A, NEW B, WithReloads(f, D, I, R, A, B)
  PROVE  ReloadsMatch(n, D, I, R, A, B) /\ ReloadsCount(n, D, I, A, B)
<1>1. \A i \in (1 .. n) \ D : i \in DOMAIN f /\ f[i] \in Nat \ {0} /\ Matches(i, D, f[i], I)
  BY DEF IsMapping
<1>2. IsFiniteSet(R)
  BY FreeWithin
<1> DEFINE New(P) == {f[r] : r \in P}
           T == {P \in SUBSET R :
                   /\ \A i \in ((1 .. n) \ D) \ P : Matches(i, D \cup P, f[i], I \cup New(P))
                   /\ \A m \in Nat : Free(n, D) = Free(m, I) => Free(n, D \cup P) = Free(m, I \cup New(P))}
<1>3. {} \in T
  <2>1. D \cup {} = D /\ I \cup New({}) = I
    OBVIOUS
  <2> QED
    BY <1>1, <2>1
<1>4. ASSUME NEW P \in SUBSET R, P # {}, \A x \in P : P \ {x} \in T PROVE P \in T
  <2>1. PICK x \in P : TRUE
    BY <1>4
  <2>2. PICK Q, E, J, y : /\ Q = P \ {x} /\ E = D \cup Q /\ J = I \cup New(Q) /\ y = f[x]
    OBVIOUS
  <2>3. D \cup P = E \cup {x} /\ I \cup New(P) = J \cup {y}
    BY <2>1, <2>2
  <2>4. /\ \A i \in ((1 .. n) \ D) \ Q : Matches(i, E, f[i], J)
        /\ \A m \in Nat : Free(n, D) = Free(m, I) => Free(n, E) = Free(m, J)
    BY <1>4, <2>2
  <2>5. x \in (1 .. n) \ D /\ x \notin Q /\ x \in Nat \ {0} /\ y \in Nat \ {0}
    <3>1. x \in (1 .. n) \ D /\ x \notin Q
      BY <2>1, <2>2
    <3> QED
      BY <1>1, <2>2, <3>1
  <2>6. Matches(x, E, y, J) /\ Matches(x, D, y, I)
    BY <1>1, <2>2, <2>4, <2>5
  <2>7. ASSUME NEW i \in ((1 .. n) \ D) \ P PROVE Matches(i, E \cup {x}, f[i], J \cup {y})
    <3>1. PICK j : j = f[i]
      OBVIOUS
    <3>2. i \in Nat /\ j \in Nat /\ i # x /\ i \in ((1 .. n) \ D) \ Q
      BY <1>1, <2>1, <2>2, <3>1
    <3>3. Matches(i, E, j, J)
      BY <2>4, <3>1, <3>2
    <3>4. Matches(i, E \cup {x}, j, J \cup {y})
      BY <2>5, <2>6, <3>2, <3>3, ReloadedOne
    <3> QED
      BY <3>1, <3>4
  <2>8. ASSUME NEW m \in Nat, Free(n, D) = Free(m, I) PROVE Free(n, E \cup {x}) = Free(m, J \cup {y})
    <3>1. Free(n, E) = Free(m, J)
      BY <2>4, <2>8
    <3>2. x <= n
      BY <2>5
    <3>3. y <= m
      BY <2>5, <2>6, <2>8, <3>2, MatchesInRange
    <3>4. n \in Nat /\ m \in Nat /\ Matches(x, E, y, J)
      BY <2>6
    <3> QED
      BY <2>5, <3>1, <3>2, <3>3, <3>4, ReloadedWithin
  <2> QED
    BY <2>3, <2>7, <2>8
<1>5. \A P \in SUBSET R : P # {} /\ (\A x \in P : P \ {x} \in T) => P \in T
  <2> HIDE DEF T
  <2> QED
    BY <1>4
<1>6. R \in T
  <2> HIDE DEF T
  <2> QED
    BY <1>2, <1>3, <1>5, SubsetInduction
<1>7. /\ \A i \in ((1 .. n) \ D) \ R : Matches(i, A, f[i], B)
      /\ \A m \in Nat : Free(n, D) = Free(m, I) => Free(n, A) = Free(m, B)
  BY <1>6 DEF WithReloads
<1>8. ASSUME NEW i \in 1 .. n, NEW j \in Nat
      PROVE  Matches(i, A, j, B) <=> Matches(i, D, j, I) /\ i \notin R
  <2>1. ASSUME Matches(i, D, j, I), i \notin R PROVE Matches(i, A, j, B)
    <3>1. i \notin D /\ f[i] = j
      BY <2>1, MappingIsUnique, MatchesIsFree
    <3> QED
      BY <1>7, <2>1, <3>1
  <2>2. ASSUME Matches(i, A, j, B) PROVE Matches(i, D, j, I) /\ i \notin R
    <3>1. i \notin A /\ i \in ((1 .. n) \ D) \ R
      BY <2>2, MatchesIsFree DEF WithReloads
    <3>2. PICK k : k = f[i]
      OBVIOUS
    <3>3. k \in Nat /\ Matches(i, D, k, I) /\ Matches(i, A, k, B)
      BY <1>1, <1>7, <3>1, <3>2
    <3>4. k = j
      BY <2>2, <3>3, MatchesIsOneToOne
    <3> QED
      BY <3>1, <3>3, <3>4
  <2> QED
    BY <2>1, <2>2
<1> QED
  BY <1>7, <1>8 DEF ReloadsMatch, ReloadsCount

-----------------------------------------------------------------------------
ItemBag(bag) ==
  /\ DOMAIN bag \subseteq Path
  /\ \A p \in DOMAIN bag : bag[p] \in Nat \ {0} /\ (Repeats \/ bag[p] = 1)

ChangeSetTypes ==
  /\ phase \in {"none", "open", "changed", "applied", "raised"}
  /\ oldItemCounts \in Counts /\ newItemCounts \in Counts /\ itemCounts \in Counts
  /\ DOMAIN items = Change /\ \A c \in Change : ItemBag(items[c])
  /\ sections \in [Change -> SUBSET Section]
  /\ includesReloadData \in BOOLEAN /\ countsAreValid \in BOOLEAN /\ loadedOnce \in BOOLEAN

MappingsAreMade ==
  /\ sectionMapping = mapForUpdate(Len(oldItemCounts), sections["delete"], sections["insert"])
  /\ itemMappings =
       [s \in IF includesReloadData THEN {} ELSE DOMAIN oldItemCounts |->
          LET t == integerForKey(sectionMapping, s)
          IN  IF t = NotFound THEN emptyMap
              ELSE mapForUpdate(oldItemCounts[s], in(s, items["delete"]), in(t, items["insert"]))]

(* What the mappings say.                                                   *)
Mapped ==
  /\ IsMapping(sectionMapping, Len(oldItemCounts), sections["delete"], sections["insert"])
  /\ DOMAIN itemMappings = DOMAIN oldItemCounts
  /\ \A s \in DOMAIN oldItemCounts \ sections["delete"] :
       IsMapping(itemMappings[s], oldItemCounts[s],
                 in(s, items["delete"]), in(sectionMapping[s], items["insert"]))

(* What the lists of counts and the bags of index paths are made of.        *)
LEMMA CountsFacts ==
  ASSUME NEW c \in Counts
  PROVE  /\ c \in Seq(Nat) /\ Len(c) \in Nat /\ Len(c) <= MaxSections /\ DOMAIN c = 1 .. Len(c)
         /\ \A s \in DOMAIN c : s \in Nat \ {0} /\ c[s] \in Nat /\ c[s] <= MaxItems
<1>1. PICK n \in 0 .. MaxSections : c \in [1 .. n -> 0 .. MaxItems]
  BY DEF Counts
<1>2. n \in Nat /\ \A s \in 1 .. n : c[s] \in Nat /\ c[s] <= MaxItems
  BY <1>1, ChangeSetBounds
<1>3. c \in Seq(Nat) /\ Len(c) = n /\ DOMAIN c = 1 .. n
  BY <1>1, <1>2
<1>4. n <= MaxSections
  BY <1>1, ChangeSetBounds
<1> QED
  BY <1>2, <1>3, <1>4

LEMMA InFacts ==
  ASSUME NEW bag, DOMAIN bag \subseteq Path, NEW s
  PROVE  /\ \A i : i \in in(s, bag) <=> <<s, i>> \in DOMAIN bag
         /\ in(s, bag) \in SUBSET (1 .. MaxItems) /\ in(s, bag) \in SUBSET (Nat \ {0})
         /\ IsFiniteSet(in(s, bag))
<1>1. \A p \in DOMAIN bag : p = <<p[1], p[2]>> /\ p[2] \in 1 .. MaxItems
  BY DEF Path
<1>2. \A i : i \in in(s, bag) <=> <<s, i>> \in DOMAIN bag
  BY <1>1 DEF in
<1>3. in(s, bag) \in SUBSET (1 .. MaxItems)
  BY <1>1 DEF in
<1>4. MaxItems \in Nat
  BY ChangeSetBounds
<1> QED
  BY <1>2, <1>3, <1>4, FreeWithin

LEMMA SectionsAreFinite ==
  ASSUME ChangeSetTypes, NEW c \in Change
  PROVE  sections[c] \in SUBSET (Nat \ {0}) /\ IsFiniteSet(sections[c])
<1>1. sections[c] \in SUBSET (1 .. MaxSections) /\ MaxSections \in Nat
  BY ChangeSetBounds DEF ChangeSetTypes, Section
<1> QED
  BY <1>1, FreeWithin

(* The mappings that are made with the change set are mappings.             *)
LEMMA MadeIsMapped ==
  ASSUME ChangeSetTypes, MappingsAreMade, ~includesReloadData
  PROVE  Mapped
<1>1. /\ oldItemCounts \in Counts /\ MaxIndex \in Nat
      /\ Len(oldItemCounts) \in Nat /\ Len(oldItemCounts) <= MaxIndex /\ DOMAIN oldItemCounts = 1 .. Len(oldItemCounts)
      /\ \A s \in DOMAIN oldItemCounts : oldItemCounts[s] \in Nat /\ oldItemCounts[s] <= MaxIndex
  <2>1. oldItemCounts \in Counts
    BY DEF ChangeSetTypes
  <2>2. /\ Len(oldItemCounts) \in Nat /\ Len(oldItemCounts) <= MaxSections /\ DOMAIN oldItemCounts = 1 .. Len(oldItemCounts)
        /\ \A s \in DOMAIN oldItemCounts : oldItemCounts[s] \in Nat /\ oldItemCounts[s] <= MaxItems
    BY <2>1, CountsFacts
  <2> QED
    BY <2>1, <2>2, ChangeSetBounds
<1>2. IsMapping(sectionMapping, Len(oldItemCounts), sections["delete"], sections["insert"])
  <2>1. /\ sections["delete"] \in SUBSET (Nat \ {0}) /\ IsFiniteSet(sections["delete"])
        /\ sections["insert"] \in SUBSET (Nat \ {0}) /\ IsFiniteSet(sections["insert"])
    BY SectionsAreFinite DEF Change
  <2> QED
    BY <1>1, <2>1, MapForUpdate DEF MappingsAreMade
<1>3. DOMAIN itemMappings = DOMAIN oldItemCounts
  BY DEF MappingsAreMade
<1>4. ASSUME NEW s \in DOMAIN oldItemCounts \ sections["delete"]
      PROVE  IsMapping(itemMappings[s], oldItemCounts[s],
                       in(s, items["delete"]), in(sectionMapping[s], items["insert"]))
  <2>1. s \in DOMAIN sectionMapping /\ sectionMapping[s] # 0
    BY <1>1, <1>2 DEF IsMapping
  <2>2. integerForKey(sectionMapping, s) = sectionMapping[s] /\ sectionMapping[s] # NotFound
    BY <2>1 DEF integerForKey, NotFound
  <2>3. itemMappings[s] = mapForUpdate(oldItemCounts[s], in(s, items["delete"]), in(sectionMapping[s], items["insert"]))
    BY <2>2 DEF MappingsAreMade
  <2>4. DOMAIN items["delete"] \subseteq Path /\ DOMAIN items["insert"] \subseteq Path
    BY DEF ChangeSetTypes, ItemBag, Change
  <2>5. PICK D, I : D = in(s, items["delete"]) /\ I = in(sectionMapping[s], items["insert"])
    OBVIOUS
  <2>6. D \in SUBSET (Nat \ {0}) /\ IsFiniteSet(D) /\ I \in SUBSET (Nat \ {0}) /\ IsFiniteSet(I)
    BY <2>4, <2>5, InFacts
  <2>7. PICK n : n = oldItemCounts[s] /\ n \in Nat /\ n <= MaxIndex
    BY <1>1
  <2>8. IsMapping(mapForUpdate(n, D, I), n, D, I)
    BY <1>1, <2>6, <2>7, MapForUpdate
  <2> QED
    BY <2>3, <2>5, <2>7, <2>8
<1> QED
  BY <1>2, <1>3, <1>4 DEF Mapped

LEMMA NewSection ==
  ASSUME ChangeSetTypes, Mapped, NEW s \in DOMAIN oldItemCounts
  PROVE  /\ s \in sections["delete"] => newSectionForOldSection(s) = NotFound
         /\ s \notin sections["delete"] =>
              /\ newSectionForOldSection(s) = sectionMapping[s] /\ newSectionForOldSection(s) # NotFound
              /\ s \in DOMAIN sectionMapping /\ sectionMapping[s] \in Nat \ {0} /\ SectionMatches(s, sectionMapping[s])
<1>1. /\ \A i \in DOMAIN sectionMapping : /\ sectionMapping[i] \in Nat \ {0}
                                          /\ Matches(i, sections["delete"], sectionMapping[i], sections["insert"])
  BY DEF Mapped, IsMapping
<1>2. CASE s \in sections["delete"]
  <2>1. s \notin DOMAIN sectionMapping
    BY <1>1, <1>2, MatchesIsFree
  <2> QED
    BY <1>2, <2>1 DEF newSectionForOldSection, integerForKey
<1>3. CASE s \notin sections["delete"]
  <2>1. s \in DOMAIN sectionMapping
    <3>1. DOMAIN oldItemCounts = 1 .. Len(oldItemCounts)
      BY CountsFacts DEF ChangeSetTypes
    <3> QED
      BY <1>3, <3>1 DEF Mapped, IsMapping
  <2> QED
    BY <1>1, <1>3, <2>1 DEF newSectionForOldSection, integerForKey, NotFound, SectionMatches
<1> QED
  BY <1>2, <1>3

LEMMA NewItem ==
  ASSUME ChangeSetTypes, Mapped, NEW s \in DOMAIN oldItemCounts \ sections["delete"],
         NEW i \in 1 .. oldItemCounts[s], i \notin in(s, items["delete"]), NEW q, q[1] = s, q[2] = i
  PROVE  /\ newIndexPathForOldIndexPath(q) = <<sectionMapping[s], itemMappings[s][i]>>
         /\ newIndexPathForOldIndexPath(q) # NoPath
         /\ i \in DOMAIN itemMappings[s] /\ itemMappings[s][i] \in Nat \ {0}
         /\ Matches(i, in(s, items["delete"]), itemMappings[s][i], in(sectionMapping[s], items["insert"]))
<1>1. newSectionForOldSection(s) = sectionMapping[s] /\ newSectionForOldSection(s) # NotFound
  BY NewSection
<1>2. PICK g, D, I : /\ g = itemMappings[s] /\ D = in(s, items["delete"]) /\ I = in(sectionMapping[s], items["insert"])
                     /\ IsMapping(g, oldItemCounts[s], D, I) /\ s \in DOMAIN itemMappings
  BY DEF Mapped
<1>3. i \in DOMAIN g /\ g[i] \in Nat \ {0} /\ Matches(i, D, g[i], I)
  BY <1>2 DEF IsMapping
<1>4. integerForKey(itemMappingInSection(s), i) = g[i] /\ g[i] # NotFound
  BY <1>2, <1>3 DEF integerForKey, itemMappingInSection, NotFound
<1>5. newIndexPathForOldIndexPath(q) = <<sectionMapping[s], g[i]>>
  BY <1>1, <1>4 DEF newIndexPathForOldIndexPath
<1> QED
  BY <1>1, <1>2, <1>3, <1>4, <1>5 DEF NoPath

(* The sections that reloads insert, where all changes are to what is there.*)
LEMMA SectionsCounted ==
  ASSUME ChangeSetTypes, Mapped, Happened
  PROVE  SectionsAreRight /\ \A s \in DOMAIN oldItemCounts \ sections["delete"] : sectionMapping[s] \in DOMAIN newItemCounts
<1>0. PICK n \in Nat, m \in Nat : n = Len(oldItemCounts) /\ m = Len(newItemCounts)
  BY CountsFacts DEF ChangeSetTypes
<1>1. PICK D, I, R, f :
           /\ n = Len(oldItemCounts) /\ m = Len(newItemCounts) /\ f = sectionMapping
           /\ D = sections["delete"] /\ I = sections["insert"] /\ R = sections["reload"]
  BY <1>0, CountsFacts DEF ChangeSetTypes
<1>2. /\ n \in Nat /\ m \in Nat /\ DOMAIN oldItemCounts = 1 .. n /\ DOMAIN newItemCounts = 1 .. m
      /\ D \cup R \in SUBSET (1 .. n) /\ D \cap R = {} /\ I \in SUBSET (1 .. m)
      /\ Free(n, D) = Free(m, I)
  <2>1. oldItemCounts \in Counts /\ newItemCounts \in Counts
    BY DEF ChangeSetTypes
  <2>2. n \in Nat /\ m \in Nat /\ DOMAIN oldItemCounts = 1 .. n /\ DOMAIN newItemCounts = 1 .. m
    BY <1>1, <2>1, CountsFacts
  <2>3. /\ D \cup R \in SUBSET (1 .. n) /\ D \cap R = {} /\ I \in SUBSET (1 .. m)
        /\ Cardinality((1 .. n) \ D) = Cardinality((1 .. m) \ I)
    BY <1>1, <2>2 DEF Happened
  <2> QED
    BY <2>2, <2>3 DEF Free
<1>3. IsMapping(f, n, D, I)
  BY <1>1 DEF Mapped
<1>4. ASSUME NEW s \in (1 .. n) \ D PROVE f[s] \in 1 .. m
  <2>1. f[s] \in Nat \ {0} /\ Matches(s, D, f[s], I)
    BY <1>3 DEF IsMapping
  <2>2. PICK t \in Nat \ {0} : t = f[s] /\ Matches(s, D, t, I)
    BY <2>1
  <2>3. s \in Nat /\ s <= n
    OBVIOUS
  <2>4. t <= m
    BY <1>2, <2>2, <2>3, MatchesInRange
  <2> QED
    BY <1>2, <2>2, <2>4
<1>5. PICK A, B : A = D \cup R /\ B = I \cup {f[r] : r \in R}
  OBVIOUS
<1>6. deletedSections = A /\ insertedSections = B
  <2>1. \A s \in R : newSectionForOldSection(s) = f[s]
    BY <1>1, <1>2, NewSection
  <2> QED
    BY <1>1, <1>5, <2>1 DEF deletedSections, insertedSections
<1>7. A \in SUBSET (1 .. n) /\ B \in SUBSET (1 .. m)
  <2>1. \A r \in R : f[r] \in 1 .. m
    BY <1>2, <1>4
  <2> QED
    BY <1>2, <1>5, <2>1
<1>8. Free(n, A) = Free(m, B)
  <2>1. R \in SUBSET (1 .. n) /\ R \cap D = {} /\ n \in Nat /\ m \in Nat /\ Free(n, D) = Free(m, I)
    BY <1>2
  <2>2. WithReloads(f, D, I, R, A, B)
    BY <1>5 DEF WithReloads
  <2>3. ReloadsCount(n, D, I, A, B)
    BY <1>3, <2>1, <2>2, Reloaded
  <2> QED
    BY <2>1, <2>3 DEF ReloadsCount
<1>9. m = n + Cardinality(B) - Cardinality(A)
  <2>1. /\ Free(n, A) = n - Cardinality(A) /\ Cardinality(A) \in Nat
        /\ Free(m, B) = m - Cardinality(B) /\ Cardinality(B) \in Nat
    BY <1>2, <1>7, FreeWithin
  <2>2. PICK a \in Nat, b \in Nat : a = Cardinality(A) /\ b = Cardinality(B)
    BY <2>1
  <2>3. n \in Nat /\ m \in Nat /\ n - a = m - b
    BY <1>2, <1>8, <2>1, <2>2
  <2>4. m = n + b - a
    BY <2>3
  <2> QED
    BY <2>2, <2>4
<1>10. SectionsAreRight
  BY <1>1, <1>2, <1>6, <1>7, <1>9 DEF SectionsAreRight
<1> QED
  BY <1>1, <1>2, <1>4, <1>10

(* The changes of items, domains of bags that are sums and restrictions.    *)
LEMMA ItemChangesFacts ==
  ASSUME ChangeSetTypes
  PROVE  /\ DOMAIN deleteItemChanges
              = {p \in DOMAIN items["delete"] \cup DOMAIN items["reload"] : p[1] \notin deletedSections}
         /\ DOMAIN insertItemChanges
              = {p \in DOMAIN items["insert"] \cup {newIndexPathForOldIndexPath(q) : q \in DOMAIN items["reload"]} :
                   p[1] \notin insertedSections}
         /\ \A c \in Change : DOMAIN items[c] \subseteq Path
<1>1. DOMAIN moved(items["reload"]) = {newIndexPathForOldIndexPath(q) : q \in DOMAIN items["reload"]}
  BY DEF moved
<1>2. /\ DOMAIN (items["delete"] (+) items["reload"]) = DOMAIN items["delete"] \cup DOMAIN items["reload"]
      /\ DOMAIN (items["insert"] (+) moved(items["reload"])) = DOMAIN items["insert"] \cup DOMAIN moved(items["reload"])
  BY DEF (+)
<1>3. \A ignored, bag : DOMAIN outside(ignored, bag) = {p \in DOMAIN bag : p[1] \notin ignored}
  BY DEF outside, Restrict
<1>4. \A c \in Change : DOMAIN items[c] \subseteq Path
  BY DEF ChangeSetTypes, ItemBag
<1>5. PICK deleted, inserted :
           /\ deleted = items["delete"] (+) items["reload"]
           /\ inserted = items["insert"] (+) moved(items["reload"])
  OBVIOUS
<1>6. deleteItemChanges = outside(deletedSections, deleted) /\ insertItemChanges = outside(insertedSections, inserted)
  BY <1>5 DEF deleteItemChanges, insertItemChanges
<1>7. /\ DOMAIN deleteItemChanges = {p \in DOMAIN deleted : p[1] \notin deletedSections}
      /\ DOMAIN insertItemChanges = {p \in DOMAIN inserted : p[1] \notin insertedSections}
  BY <1>3, <1>6
<1> QED
  BY <1>1, <1>2, <1>4, <1>5, <1>7

LEMMA PathsFacts ==
  ASSUME NEW counts \in Counts
  PROVE  \A p \in Paths(counts) : /\ p \in Path /\ p = <<p[1], p[2]>> /\ p[1] \in DOMAIN counts
                                  /\ p[2] \in 1 .. counts[p[1]] /\ p[2] \in Nat /\ p[2] <= counts[p[1]]
<1> TAKE p \in Paths(counts)
<1>1. p \in Path /\ p[1] \in DOMAIN counts /\ p[2] <= counts[p[1]]
  BY DEF Paths
<1>2. p = <<p[1], p[2]>> /\ p[2] \in 1 .. MaxItems /\ MaxItems \in Nat
  BY <1>1, ChangeSetBounds DEF Path
<1>3. counts[p[1]] \in Nat
  BY <1>1, CountsFacts
<1> QED
  BY <1>1, <1>2, <1>3

LEMMA ItemsCounted ==
  ASSUME ChangeSetTypes, Mapped, Happened, NEW s \in DOMAIN oldItemCounts \ deletedSections,
         NEW t, t = sectionMapping[s]
  PROVE  /\ t \in DOMAIN newItemCounts
         /\ Free(oldItemCounts[s], in(s, items["delete"])) = Free(newItemCounts[t], in(t, items["insert"]))
<1>1. s \notin sections["delete"] /\ s \notin sections["reload"]
  BY DEF deletedSections
<1>2. t \in DOMAIN newItemCounts /\ SectionMatches(s, t)
  BY <1>1, NewSection, SectionsCounted
<1> QED
  BY <1>1, <1>2 DEF Happened, Free

(* What has happened passes the validation.                                 *)
LEMMA HappenedIsValid ==
  ASSUME ChangeSetTypes, Mapped, Happened
  PROVE  UpdateIsValid
<1>1. /\ oldItemCounts \in Counts /\ newItemCounts \in Counts
      /\ \A s \in DOMAIN oldItemCounts : oldItemCounts[s] \in Nat
      /\ \A t \in DOMAIN newItemCounts : newItemCounts[t] \in Nat
  <2>1. oldItemCounts \in Counts /\ newItemCounts \in Counts
    BY DEF ChangeSetTypes
  <2> QED
    BY <2>1, CountsFacts
<1>2. /\ \A s \in sections["reload"] : s \in DOMAIN oldItemCounts \ sections["delete"]
      /\ \A p \in DOMAIN items["reload"] : p \in Paths(oldItemCounts) /\ p[1] \notin sections["delete"] /\ p \notin DOMAIN items["delete"]
      /\ \A p \in DOMAIN items["delete"] : p \in Paths(oldItemCounts)
      /\ \A p \in DOMAIN items["insert"] : p \in Paths(newItemCounts)
  BY DEF Happened, BagIn, BagToSet
<1>3. /\ DOMAIN items["delete"] \subseteq Path /\ DOMAIN items["insert"] \subseteq Path /\ DOMAIN items["reload"] \subseteq Path
  BY DEF ChangeSetTypes, ItemBag, Change
<1>4. ASSUME NEW p \in DOMAIN items["reload"]
      PROVE  /\ p[1] \in DOMAIN oldItemCounts \ sections["delete"]
             /\ p[2] \in 1 .. oldItemCounts[p[1]] /\ p[2] \notin in(p[1], items["delete"])
  <2>1. p \in Paths(oldItemCounts) /\ p[1] \notin sections["delete"] /\ p \notin DOMAIN items["delete"]
    BY <1>2
  <2>2. p = <<p[1], p[2]>> /\ p[1] \in DOMAIN oldItemCounts /\ p[2] \in 1 .. oldItemCounts[p[1]]
    BY <1>1, <2>1, PathsFacts
  <2>3. p[2] \notin in(p[1], items["delete"])
    BY <1>3, <2>1, <2>2, InFacts
  <2> QED
    BY <2>1, <2>2, <2>3
<1>5. ReloadsAreLeft
  <2>1. \A s \in sections["reload"] : newSectionForOldSection(s) # NotFound
    BY <1>2, NewSection
  <2>2. \A p \in DOMAIN items["reload"] : newIndexPathForOldIndexPath(p) # NoPath
    BY <1>4, NewItem
  <2> QED
    BY <2>1, <2>2 DEF ReloadsAreLeft
<1>6. SectionsAreRight
  BY SectionsCounted
<1>7. within(deleteItemChanges, oldItemCounts)
  <2>1. \A p \in DOMAIN deleteItemChanges : p \in Paths(oldItemCounts)
    BY <1>2, ItemChangesFacts
  <2> QED
    BY <2>1 DEF within, Paths
<1>8. ASSUME NEW p \in DOMAIN insertItemChanges
      PROVE  p[1] \in DOMAIN newItemCounts /\ p[2] <= newItemCounts[p[1]]
  <2>1. p[1] \notin insertedSections
    BY ItemChangesFacts
  <2>2. CASE p \in DOMAIN items["insert"]
    BY <1>2, <2>2 DEF Paths
  <2>3. CASE \E q \in DOMAIN items["reload"] : p = newIndexPathForOldIndexPath(q)
    <3>1. PICK q \in DOMAIN items["reload"] : p = newIndexPathForOldIndexPath(q)
      BY <2>3
    <3>2. PICK s, i, t, j, D, I :
             /\ s = q[1] /\ i = q[2] /\ t = sectionMapping[s] /\ j = itemMappings[s][i]
             /\ D = in(s, items["delete"]) /\ I = in(t, items["insert"])
      OBVIOUS
    <3>3. s \in DOMAIN oldItemCounts \ sections["delete"] /\ i \in 1 .. oldItemCounts[s] /\ i \notin D
      BY <1>4, <3>2
    <3>4. p = <<t, j>> /\ j \in Nat \ {0} /\ Matches(i, D, j, I)
      BY <3>1, <3>2, <3>3, NewItem
    <3>5. s \notin deletedSections
      <4>1. newSectionForOldSection(s) = t
        BY <3>2, <3>3, NewSection
      <4>2. s \notin sections["reload"]
        BY <2>1, <3>4, <4>1 DEF insertedSections
      <4> QED
        BY <3>3, <4>2 DEF deletedSections
    <3>6. t \in DOMAIN newItemCounts /\ Free(oldItemCounts[s], D) = Free(newItemCounts[t], I)
      BY <3>2, <3>3, <3>5, ItemsCounted
    <3>7. PICK a \in Nat, b \in Nat : a = oldItemCounts[s] /\ b = newItemCounts[t]
      BY <1>1, <3>3, <3>6
    <3>8. i \in Nat /\ i <= a /\ Free(a, D) = Free(b, I)
      BY <3>3, <3>6, <3>7
    <3>9. j <= b
      BY <3>4, <3>8, MatchesInRange
    <3> QED
      BY <3>4, <3>6, <3>7, <3>9
  <2> QED
    BY <2>2, <2>3, ItemChangesFacts
<1>9. ASSUME NEW s \in DOMAIN oldItemCounts \ sections["reload"], newSectionForOldSection(s) # NotFound
      PROVE  ItemsOfSectionAreRight(s)
  <2>1. PICK t, D, I : t = newSectionForOldSection(s) /\ D = in(s, items["delete"]) /\ I = in(t, items["insert"])
    OBVIOUS
  <2>2. s \notin sections["delete"] /\ t = sectionMapping[s] /\ s \in DOMAIN oldItemCounts \ deletedSections
    BY <1>9, <2>1, NewSection DEF deletedSections
  <2>3. t \in DOMAIN newItemCounts /\ Free(oldItemCounts[s], D) = Free(newItemCounts[t], I)
    BY <2>1, <2>2, ItemsCounted
  <2>4. D \cap in(s, items["reload"]) = {}
    <3>1. \A i \in in(s, items["reload"]) : <<s, i>> \in DOMAIN items["reload"]
      BY <1>3, InFacts
    <3>2. \A i \in D : <<s, i>> \in DOMAIN items["delete"]
      BY <1>3, <2>1, InFacts
    <3> QED
      BY <1>2, <3>1, <3>2
  <2>5. PICK a \in Nat, b \in Nat : a = oldItemCounts[s] /\ b = newItemCounts[t]
    BY <1>1, <2>3
  <2>6. D \in SUBSET (1 .. a)
    <3>1. \A i \in D : <<s, i>> \in DOMAIN items["delete"]
      BY <1>3, <2>1, InFacts
    <3>2. \A i \in D : <<s, i>> \in Paths(oldItemCounts)
      BY <1>2, <3>1
    <3>3. \A i \in D : i \in 1 .. oldItemCounts[s]
      BY <1>1, <3>2, PathsFacts
    <3> QED
      BY <2>5, <3>3
  <2>7. I \in SUBSET (1 .. b)
    <3>1. \A i \in I : <<t, i>> \in DOMAIN items["insert"]
      BY <1>3, <2>1, InFacts
    <3>2. \A i \in I : <<t, i>> \in Paths(newItemCounts)
      BY <1>2, <3>1
    <3>3. \A i \in I : i \in 1 .. newItemCounts[t]
      BY <1>1, <3>2, PathsFacts
    <3> QED
      BY <2>5, <3>3
  <2>8. PICK d \in Nat, e \in Nat : /\ d = Cardinality(D) /\ e = Cardinality(I)
                                    /\ Free(a, D) = a - d /\ Free(b, I) = b - e
    BY <2>6, <2>7, FreeWithin
  <2>9. b = a + e - d
    <3>1. a - d = b - e
      BY <2>3, <2>5, <2>8
    <3> QED
      BY <3>1
  <2> QED
    BY <2>1, <2>4, <2>5, <2>8, <2>9 DEF ItemsOfSectionAreRight
<1>10. ItemsAreRight
  <2>1. \A s : newSectionForOldSection(s) = NotFound => ItemsOfSectionAreRight(s)
    BY DEF ItemsOfSectionAreRight
  <2> QED
    BY <1>9, <2>1 DEF ItemsAreRight
<1> QED
  BY <1>5, <1>6, <1>7, <1>8, <1>10 DEF UpdateIsValid, within

-----------------------------------------------------------------------------
(* The inductive invariant of the change sets: their types, that the        *)
(* mappings are made of the changes, and why an exception was raised.       *)
ChangesInv ==
  /\ ChangeSetTypes
  /\ phase \in {"changed", "applied", "raised"} => MappingsAreMade
  /\ phase = "raised" => ~includesReloadData /\ ~UpdateIsValid

LEMMA BagFacts ==
  /\ ItemBag(EmptyBag)
  /\ \A bag, p : ItemBag(bag) /\ p \in Path /\ (Repeats \/ ~BagIn(p, bag)) => ItemBag(bag (+) SetToBag({p}))
<1>1. ItemBag(EmptyBag)
  BY DEF ItemBag, EmptyBag, SetToBag
<1>2. ASSUME NEW bag, NEW p, ItemBag(bag), p \in Path, Repeats \/ ~BagIn(p, bag)
      PROVE  ItemBag(bag (+) SetToBag({p}))
  <2>1. PICK one, sum : one = SetToBag({p}) /\ sum = bag (+) one
    OBVIOUS
  <2>2. DOMAIN one = {p} /\ one[p] = 1
    BY <2>1 DEF SetToBag
  <2>3. /\ DOMAIN sum = DOMAIN bag \cup {p}
        /\ \A q \in DOMAIN sum : sum[q] = (IF q \in DOMAIN bag THEN bag[q] ELSE 0) + (IF q \in DOMAIN one THEN one[q] ELSE 0)
    BY <2>1, <2>2 DEF (+)
  <2>4. ASSUME NEW q \in DOMAIN sum PROVE sum[q] \in Nat \ {0} /\ (Repeats \/ sum[q] = 1)
    <3>1. CASE q \notin DOMAIN bag
      BY <2>2, <2>3, <3>1
    <3>2. CASE q \in DOMAIN bag /\ q # p
      BY <1>2, <2>2, <2>3, <3>2 DEF ItemBag
    <3>3. CASE q \in DOMAIN bag /\ q = p
      <4>1. Repeats
        BY <1>2, <3>3 DEF BagIn, BagToSet
      <4>2. bag[q] \in Nat \ {0} /\ sum[q] = bag[q] + 1
        BY <1>2, <2>2, <2>3, <3>3 DEF ItemBag
      <4> QED
        BY <4>1, <4>2
    <3> QED
      BY <3>1, <3>2, <3>3
  <2> QED
    BY <1>2, <2>1, <2>3, <2>4 DEF ItemBag
<1> QED
  BY <1>1, <1>2

LEMMA NoCounts == <<>> \in Counts
<1>1. 0 \in 0 .. MaxSections
  BY ChangeSetBounds
<1>2. <<>> \in [1 .. 0 -> 0 .. MaxItems]
  OBVIOUS
<1> QED
  BY <1>1, <1>2 DEF Counts

(* What is valid stays so as long as the change set does not change.        *)
LEMMA ValidityIsKept ==
  ASSUME UNCHANGED changeVars
  PROVE  UpdateIsValid' = UpdateIsValid /\ MappingsAreMade' = MappingsAreMade
BY DEF changeVars, mappingVars, UpdateIsValid, ReloadsAreLeft, SectionsAreRight, within, ItemsAreRight,
       ItemsOfSectionAreRight, deleteItemChanges, insertItemChanges, deletedSections, insertedSections,
       moved, outside, newIndexPathForOldIndexPath, oldIndexPathForNewIndexPath, itemMappingInSection,
       newSectionForOldSection, oldSectionForNewSection, MappingsAreMade

LEMMA ChangesInit == ChangeSetInit => ChangesInv
BY BagFacts, NoCounts DEF ChangeSetInit, ChangesInv, ChangeSetTypes, NoItems, NoSections, Change

LEMMA ChangesStep == ChangesInv /\ [ChangeSetNext]_changeSetVars => ChangesInv'
<1> SUFFICES ASSUME ChangesInv, [ChangeSetNext]_changeSetVars PROVE ChangesInv'
  OBVIOUS
<1> USE DEF ChangesInv
<1>1. CASE beginUpdates
  <2>1. oldItemCounts' \in Counts /\ itemCounts' \in Counts
    BY <1>1 DEF beginUpdates, ChangeSetTypes
  <2>2. DOMAIN items' = Change /\ \A c \in Change : ItemBag(items'[c])
    BY <1>1, BagFacts DEF beginUpdates, NoItems
  <2>3. sections' \in [Change -> SUBSET Section]
    BY <1>1 DEF beginUpdates, NoSections
  <2> QED
    BY <1>1, <2>1, <2>2, <2>3, NoCounts DEF beginUpdates, ChangeSetTypes
<1>2. CASE reloadData
  BY <1>2 DEF reloadData, ChangeSetTypes, countVars, mappingVars
<1>3. CASE completeUnloaded
  BY <1>3 DEF completeUnloaded, ChangeSetTypes, changeVars, cacheVars, mappingVars
<1>4. CASE dataChanges
  <2>1. ChangeSetTypes'
    BY <1>4 DEF dataChanges, ChangeSetTypes, cacheVars
  <2>2. MappingsAreMade'
    BY <1>4 DEF dataChanges, MappingsAreMade, makeSectionMapping, makeItemMappings
  <2> QED
    BY <1>4, <2>1, <2>2 DEF dataChanges
<1>5. CASE apply
  <2>1. ChangeSetTypes'
    BY <1>5 DEF apply, markCompleted, ChangeSetTypes, changeVars, mappingVars
  <2>2. MappingsAreMade'
    BY <1>5, ValidityIsKept DEF apply, markCompleted
  <2> QED
    BY <1>5, <2>1, <2>2 DEF apply
<1>6. CASE raise
  <2>1. ChangeSetTypes'
    BY <1>6 DEF raise, markCompleted, ChangeSetTypes, changeVars, mappingVars
  <2>2. MappingsAreMade' /\ ~includesReloadData' /\ ~UpdateIsValid'
    BY <1>6, ValidityIsKept DEF raise, markCompleted, changeVars
  <2> QED
    BY <1>6, <2>1, <2>2 DEF raise
<1>7. CASE clearData
  BY <1>7 DEF clearData, ChangeSetTypes, changeVars, cacheVars, mappingVars
<1>8. ASSUME NEW c \in Change, NEW p \in Path, changeItem(c, p) PROVE ChangesInv'
  <2>1. \A d \in Change : ItemBag(items'[d])
    BY <1>8, BagFacts DEF changeItem, Fresh, ChangeSetTypes
  <2> QED
    BY <1>8, <2>1 DEF changeItem, Open, ChangeSetTypes, countVars
<1>9. ASSUME NEW c \in Change, NEW s \in Section, changeSection(c, s) PROVE ChangesInv'
  BY <1>9 DEF changeSection, Open, ChangeSetTypes, countVars
<1>10. ASSUME NEW p \in Path, NEW q \in Path, moveItem(p, q) PROVE ChangesInv'
  <2>1. \A d \in Change : ItemBag(items'[d])
    <3>1. ItemBag(items["delete"] (+) SetToBag({p})) /\ ItemBag(items["insert"] (+) SetToBag({q}))
      BY <1>10, BagFacts DEF moveItem, Fresh, ChangeSetTypes, Change
    <3> QED
      BY <1>10, <3>1 DEF moveItem, ChangeSetTypes
  <2> QED
    BY <1>10, <2>1 DEF moveItem, Open, ChangeSetTypes, countVars
<1>11. ASSUME NEW s \in Section, NEW t \in Section, moveSection(s, t) PROVE ChangesInv'
  BY <1>11 DEF moveSection, Open, ChangeSetTypes, countVars
<1>12. CASE UNCHANGED changeSetVars
  <2>1. UNCHANGED changeVars
    BY <1>12 DEF changeSetVars
  <2> QED
    BY <1>12, <2>1, ValidityIsKept DEF changeSetVars, changeVars, mappingVars, cacheVars, ChangeSetTypes
<1> QED
  BY <1>1, <1>2, <1>3, <1>4, <1>5, <1>6, <1>7, <1>8, <1>9, <1>10, <1>11, <1>12 DEF ChangeSetNext

(* Whatever the application adds to a change set and however often it       *)
(* begins one: the mappings are made of all of its changes and of nothing   *)
(* else, bags and counts are what they are taken for, and an exception      *)
(* means that the set does not fit the counts.                              *)
THEOREM MappingsAreOfTheChanges == ChangeSetSpec => []ChangesInv
BY ChangesInit, ChangesStep, PTL DEF ChangeSetSpec

LEMMA ChangesAreRight == ChangesInv => AcceptsWhatHappened
BY MadeIsMapped, HappenedIsValid DEF ChangesInv, AcceptsWhatHappened

(* An update whose changes are what has happened to the data never raises an*)
(* exception: validateUpdate accepts it, with reloads, moves, whole sections*)
(* and repeated changes, for any data source of any size.                   *)
THEOREM WhatHappenedIsAccepted == ChangeSetSpec => []AcceptsWhatHappened
BY MappingsAreOfTheChanges, ChangesAreRight, PTL

-----------------------------------------------------------------------------
(* Sections of an update that is valid.                                     *)
SectionsFit ==
  /\ deletedSections \in SUBSET DOMAIN oldItemCounts /\ insertedSections \in SUBSET DOMAIN newItemCounts
  /\ Free(Len(oldItemCounts), deletedSections) = Free(Len(newItemCounts), insertedSections)

SectionsMatch ==
  \A s \in DOMAIN oldItemCounts, t \in Nat :
    Matches(s, deletedSections, t, insertedSections) <=> SectionMatches(s, t) /\ s \notin sections["reload"]

LEMMA SectionsAccepted ==
  ASSUME ChangeSetTypes, Mapped, UpdateIsValid
  PROVE  SectionsFit /\ SectionsMatch
<1>0. PICK n \in Nat, m \in Nat : n = Len(oldItemCounts) /\ m = Len(newItemCounts)
  BY CountsFacts DEF ChangeSetTypes
<1>1. PICK D, I, R, f :
           /\ n = Len(oldItemCounts) /\ m = Len(newItemCounts) /\ f = sectionMapping
           /\ DOMAIN oldItemCounts = 1 .. n /\ DOMAIN newItemCounts = 1 .. m
           /\ D = sections["delete"] /\ I = sections["insert"] /\ R = sections["reload"]
  BY <1>0, CountsFacts DEF ChangeSetTypes
<1>2. PICK A, B : A = deletedSections /\ B = insertedSections
  OBVIOUS
<1>3. /\ A \in SUBSET (1 .. n) /\ B \in SUBSET (1 .. m) /\ m = n + Cardinality(B) - Cardinality(A)
      /\ A = D \cup R
  BY <1>1, <1>2 DEF UpdateIsValid, SectionsAreRight, deletedSections
<1>4. R \in SUBSET (1 .. n) /\ R \cap D = {} /\ \A r \in R : newSectionForOldSection(r) = f[r]
  <2>1. R \in SUBSET (1 .. n) /\ \A r \in R : newSectionForOldSection(r) # NotFound
    BY <1>1, <1>3 DEF UpdateIsValid, ReloadsAreLeft
  <2> QED
    BY <1>1, <2>1, NewSection
<1>5. WithReloads(f, D, I, R, A, B)
  BY <1>1, <1>2, <1>3, <1>4 DEF WithReloads, insertedSections
<1>6. IsMapping(f, n, D, I)
  BY <1>1 DEF Mapped
<1>7. ReloadsMatch(n, D, I, R, A, B)
  BY <1>4, <1>5, <1>6, Reloaded
<1>8. Free(n, A) = Free(m, B)
  <2>1. PICK a \in Nat, b \in Nat : /\ a = Cardinality(A) /\ b = Cardinality(B)
                                    /\ Free(n, A) = n - a /\ Free(m, B) = m - b
    BY <1>3, FreeWithin
  <2>2. m = n + b - a
    BY <1>3, <2>1
  <2> QED
    BY <2>1, <2>2
<1> QED
  BY <1>1, <1>2, <1>3, <1>7, <1>8 DEF SectionsFit, SectionsMatch, SectionMatches, ReloadsMatch

LEMMA SectionKept ==
  ASSUME ChangeSetTypes, Mapped, UpdateIsValid, NEW s \in DOMAIN oldItemCounts \ deletedSections,
         NEW t, t = sectionMapping[s]
  PROVE  /\ s \in DOMAIN sectionMapping /\ s \in DOMAIN oldItemCounts \ sections["delete"]
         /\ newSectionForOldSection(s) = t /\ t # NotFound
         /\ t \in DOMAIN newItemCounts \ insertedSections
         /\ SectionMatches(s, t) /\ Matches(s, deletedSections, t, insertedSections)
<1>1. s \notin sections["delete"] /\ s \notin sections["reload"]
  BY DEF deletedSections
<1>2. /\ s \in DOMAIN sectionMapping /\ t \in Nat \ {0} /\ SectionMatches(s, t)
      /\ newSectionForOldSection(s) = t /\ t # NotFound
  BY <1>1, NewSection
<1>3. Matches(s, deletedSections, t, insertedSections)
  BY <1>1, <1>2, SectionsAccepted DEF SectionsMatch
<1>4. t \in DOMAIN newItemCounts \ insertedSections
  <2>1. PICK n \in Nat, m \in Nat :
             /\ n = Len(oldItemCounts) /\ m = Len(newItemCounts)
             /\ DOMAIN oldItemCounts = 1 .. n /\ DOMAIN newItemCounts = 1 .. m
    BY CountsFacts DEF ChangeSetTypes
  <2>2. Free(n, deletedSections) = Free(m, insertedSections) /\ s \in Nat /\ s <= n
    BY <2>1, SectionsAccepted DEF SectionsFit
  <2>3. t <= m
    BY <1>2, <1>3, <2>2, MatchesInRange
  <2>4. t \notin insertedSections
    BY <1>3, MatchesIsFree
  <2> QED
    BY <1>2, <2>1, <2>3, <2>4
<1> QED
  BY <1>1, <1>2, <1>3, <1>4

(* Each new section that is not inserted is an old one that is kept.        *)
LEMMA SectionFound ==
  ASSUME ChangeSetTypes, Mapped, UpdateIsValid, NEW t \in DOMAIN newItemCounts \ insertedSections
  PROVE  \E s \in DOMAIN oldItemCounts \ deletedSections : sectionMapping[s] = t
<1>1. PICK n \in Nat, m \in Nat :
           /\ n = Len(oldItemCounts) /\ m = Len(newItemCounts)
           /\ DOMAIN oldItemCounts = 1 .. n /\ DOMAIN newItemCounts = 1 .. m
  BY CountsFacts DEF ChangeSetTypes
<1>2. /\ Free(n, deletedSections) = Free(m, insertedSections) /\ deletedSections \in SUBSET (1 .. n)
      /\ t \in Nat \ {0} /\ t <= m
  BY <1>1, SectionsAccepted DEF SectionsFit
<1>3. PICK s \in Nat \ {0} : Matches(s, deletedSections, t, insertedSections)
  <2>1. IsFiniteSet(deletedSections)
    BY <1>2, FreeWithin
  <2> QED
    BY <1>2, <2>1, MatchesFound
<1>4. s <= n
  BY <1>2, <1>3, MatchesInRange
<1>5. s \in DOMAIN oldItemCounts /\ s \notin deletedSections
  BY <1>1, <1>3, <1>4, MatchesIsFree
<1>6. SectionMatches(s, t)
  BY <1>2, <1>3, <1>5, SectionsAccepted DEF SectionsMatch
<1>7. sectionMapping[s] = t
  <2>1. s \in 1 .. n /\ IsMapping(sectionMapping, n, sections["delete"], sections["insert"])
    BY <1>1, <1>5 DEF Mapped
  <2> QED
    BY <1>2, <1>6, <2>1, MappingIsUnique DEF SectionMatches
<1> QED
  BY <1>5, <1>7

(* oldIndexPathForNewIndexPath finds the item that matches.                 *)
LEMMA OldPathOf ==
  ASSUME ChangeSetTypes, Mapped, NEW s \in DOMAIN oldItemCounts \ sections["delete"],
         NEW i \in DOMAIN itemMappings[s], NEW p, p[1] = sectionMapping[s], p[2] = itemMappings[s][i]
  PROVE  oldIndexPathForNewIndexPath(p) = <<s, i>>
<1>1. PICK n \in Nat : n = Len(oldItemCounts) /\ DOMAIN oldItemCounts = 1 .. n
  BY CountsFacts DEF ChangeSetTypes
<1>2. PICK f, D, I : /\ f = sectionMapping /\ D = sections["delete"] /\ I = sections["insert"]
                     /\ IsMapping(f, n, D, I) /\ s \in DOMAIN f /\ f[s] \in Nat \ {0}
  BY <1>1, NewSection DEF Mapped
<1>3. PICK t \in Nat \ {0} : t = f[s]
  BY <1>2
<1>4. integerForKey(inverseMap(f), t) = s
  BY <1>2, <1>3, InverseMap
<1>0. PICK k \in Nat : k = oldItemCounts[s]
  BY CountsFacts DEF ChangeSetTypes
<1>5. PICK g, E, J :
           /\ k = oldItemCounts[s] /\ g = itemMappings[s]
           /\ IsMapping(g, k, E, J) /\ i \in DOMAIN g /\ g[i] \in Nat \ {0}
  <2>1. oldItemCounts[s] \in Nat
    BY CountsFacts DEF ChangeSetTypes
  <2>2. /\ IsMapping(itemMappings[s], oldItemCounts[s], in(s, items["delete"]), in(sectionMapping[s], items["insert"]))
    BY DEF Mapped
  <2>3. itemMappings[s][i] \in Nat \ {0}
    BY <2>2 DEF IsMapping
  <2> QED
    BY <1>0, <2>1, <2>2, <2>3
<1>6. PICK j \in Nat \ {0} : j = g[i]
  BY <1>5
<1>7. integerForKey(inverseMap(g), j) = i
  BY <1>5, <1>6, InverseMap
<1>8. oldSectionForNewSection(p[1]) = s /\ p[2] = j
  BY <1>2, <1>3, <1>4, <1>5, <1>6 DEF oldSectionForNewSection
<1>9. itemMappingInSection(s) = g
  BY <1>5 DEF itemMappingInSection, Mapped
<1>10. s # NotFound /\ i # NotFound
  <2>1. s # 0
    BY <1>1
  <2>2. i # 0
    BY <1>5 DEF IsMapping
  <2> QED
    BY <2>1, <2>2 DEF NotFound
<1> QED
  BY <1>7, <1>8, <1>9, <1>10 DEF oldIndexPathForNewIndexPath

LEMMA OldPathMatches ==
  ASSUME ChangeSetTypes, Mapped, NEW t \in Nat \ {0}, NEW j \in Nat \ {0}, NEW p, p[1] = t, p[2] = j,
         NEW q, q = oldIndexPathForNewIndexPath(p), q[1] \in DOMAIN oldItemCounts
  PROVE  /\ q[1] \in Nat \ {0} /\ q[2] \in Nat \ {0} /\ q = <<q[1], q[2]>>
         /\ sectionMapping[q[1]] = t /\ ItemMatches(q, p)
<1>1. PICK n \in Nat : n = Len(oldItemCounts) /\ DOMAIN oldItemCounts = 1 .. n
  BY CountsFacts DEF ChangeSetTypes
<1>2. PICK f, D, I : /\ f = sectionMapping /\ D = sections["delete"] /\ I = sections["insert"]
                     /\ IsMapping(f, n, D, I)
  BY <1>1 DEF Mapped
<1>3. PICK s, g, i : /\ s = oldSectionForNewSection(t) /\ g = itemMappingInSection(s)
                     /\ i = integerForKey(inverseMap(g), j)
  OBVIOUS
<1>4. s # NotFound /\ i # NotFound /\ q = <<s, i>>
  <2>1. q = IF s = NotFound \/ i = NotFound THEN NoPath ELSE <<s, i>>
    BY <1>3 DEF oldIndexPathForNewIndexPath
  <2>2. q # NoPath
    BY <1>1 DEF NoPath, NotFound
  <2> QED
    BY <2>1, <2>2
<1>5. s \in DOMAIN f /\ f[s] = t
  <2>1. s = integerForKey(inverseMap(f), t)
    BY <1>2, <1>3 DEF oldSectionForNewSection
  <2>2. PICK r \in DOMAIN f : f[r] = t
    BY <1>2, <1>4, <2>1, InverseMap
  <2>3. s = r
    BY <1>2, <2>1, <2>2, InverseMap
  <2> QED
    BY <2>2, <2>3
<1>6. s \in DOMAIN oldItemCounts \ D /\ Matches(s, D, t, I) /\ s \in Nat \ {0}
  BY <1>1, <1>2, <1>4, <1>5, MatchesIsFree DEF IsMapping
<1>0. PICK k \in Nat : k = oldItemCounts[s]
  BY <1>6, CountsFacts DEF ChangeSetTypes
<1>7. PICK E, J :
           /\ k = oldItemCounts[s] /\ E = in(s, items["delete"]) /\ J = in(t, items["insert"])
           /\ IsMapping(g, k, E, J)
  <2>1. oldItemCounts[s] \in Nat
    BY <1>6, CountsFacts DEF ChangeSetTypes
  <2>2. g = itemMappings[s]
    BY <1>3, <1>6 DEF itemMappingInSection, Mapped
  <2>3. IsMapping(itemMappings[s], oldItemCounts[s], in(s, items["delete"]), in(t, items["insert"]))
    BY <1>2, <1>5, <1>6 DEF Mapped
  <2> QED
    BY <1>0, <2>1, <2>2, <2>3
<1>8. i \in DOMAIN g /\ g[i] = j
  <2>1. PICK r \in DOMAIN g : g[r] = j
    BY <1>3, <1>4, <1>7, InverseMap
  <2>2. i = r
    BY <1>3, <1>7, <2>1, InverseMap
  <2> QED
    BY <2>1, <2>2
<1>9. Matches(i, E, j, J) /\ i \in Nat \ {0}
  BY <1>7, <1>8 DEF IsMapping
<1> QED
  BY <1>2, <1>4, <1>5, <1>6, <1>7, <1>9 DEF ItemMatches, SectionMatches

LEMMA ItemsInFacts ==
  ASSUME NEW bag, NEW s
  PROVE  Once(itemsIn(s, bag), in(s, bag)) <=> \A i \in in(s, bag) : bag[<<s, i>>] = 1
BY DEF Once, itemsIn

(* The items that are deleted from a section that is kept.                  *)
LEMMA ItemsDeleted ==
  ASSUME ChangeSetTypes, UpdateIsValid, ~Repeats, NEW s \in DOMAIN oldItemCounts \ deletedSections,
         newSectionForOldSection(s) # NotFound, NEW gone, gone = in(s, deleteItemChanges)
  PROVE  /\ gone = in(s, items["delete"]) \cup in(s, items["reload"])
         /\ in(s, items["delete"]) \cap in(s, items["reload"]) = {}
         /\ gone \in SUBSET (1 .. oldItemCounts[s])
         /\ Once(itemsIn(s, deleteItemChanges), gone)
<1>1. /\ DOMAIN items["delete"] \subseteq Path /\ DOMAIN items["reload"] \subseteq Path
      /\ DOMAIN deleteItemChanges
           = {p \in DOMAIN items["delete"] \cup DOMAIN items["reload"] : p[1] \notin deletedSections}
  BY ItemChangesFacts DEF Change
<1>2. DOMAIN deleteItemChanges \subseteq Path
  BY <1>1
<1>3. \A i : i \in gone <=> <<s, i>> \in DOMAIN items["delete"] \/ <<s, i>> \in DOMAIN items["reload"]
  <2>1. \A i : i \in gone <=> <<s, i>> \in DOMAIN deleteItemChanges
    BY <1>2, InFacts
  <2> QED
    BY <1>1, <2>1
<1>4. gone = in(s, items["delete"]) \cup in(s, items["reload"])
  <2>1. \A i : i \in in(s, items["delete"]) <=> <<s, i>> \in DOMAIN items["delete"]
    BY <1>1, InFacts
  <2>2. \A i : i \in in(s, items["reload"]) <=> <<s, i>> \in DOMAIN items["reload"]
    BY <1>1, InFacts
  <2> QED
    BY <1>3, <2>1, <2>2
<1>5. in(s, items["delete"]) \cap in(s, items["reload"]) = {}
  BY DEF UpdateIsValid, ItemsAreRight, ItemsOfSectionAreRight, deletedSections
<1>6. gone \in SUBSET (1 .. oldItemCounts[s])
  <2>1. gone \in SUBSET (1 .. MaxItems) /\ oldItemCounts[s] \in Nat /\ MaxItems \in Nat
    BY <1>2, InFacts, CountsFacts, ChangeSetBounds DEF ChangeSetTypes
  <2>2. \A i \in gone : i <= oldItemCounts[s]
    <3>1. \A i \in gone : <<s, i>> \in DOMAIN deleteItemChanges
      BY <1>2, InFacts
    <3> QED
      BY <3>1 DEF UpdateIsValid, within
  <2> QED
    BY <2>1, <2>2
<1>7. ASSUME NEW i \in gone PROVE deleteItemChanges[<<s, i>>] = 1
  <2>1. PICK p, deleted, reloaded, both :
             /\ p = <<s, i>> /\ deleted = items["delete"] /\ reloaded = items["reload"]
             /\ both = deleted (+) reloaded
    OBVIOUS
  <2>2. p \in DOMAIN deleted \/ p \in DOMAIN reloaded
    BY <1>3, <2>1
  <2>3. ~(p \in DOMAIN deleted /\ p \in DOMAIN reloaded)
    <3>1. i \in in(s, items["delete"]) <=> p \in DOMAIN deleted
      BY <1>1, <2>1, InFacts
    <3>2. i \in in(s, items["reload"]) <=> p \in DOMAIN reloaded
      BY <1>1, <2>1, InFacts
    <3> QED
      BY <1>5, <3>1, <3>2
  <2>4. (p \in DOMAIN deleted => deleted[p] = 1) /\ (p \in DOMAIN reloaded => reloaded[p] = 1)
    BY <2>1 DEF ChangeSetTypes, ItemBag, Change
  <2>5. both[p] = (IF p \in DOMAIN deleted THEN deleted[p] ELSE 0) + (IF p \in DOMAIN reloaded THEN reloaded[p] ELSE 0)
    BY <2>1, <2>2 DEF (+)
  <2>6. both[p] = 1
    BY <2>2, <2>3, <2>4, <2>5
  <2>7. p \in DOMAIN both /\ p[1] \notin deletedSections
    BY <2>1, <2>2 DEF (+)
  <2>8. deleteItemChanges[p] = both[p]
    BY <2>1, <2>7 DEF deleteItemChanges, outside, Restrict
  <2> QED
    BY <2>1, <2>6, <2>8
<1>8. Once(itemsIn(s, deleteItemChanges), gone)
  BY <1>7, ItemsInFacts
<1> QED
  BY <1>4, <1>5, <1>6, <1>8

(* And those inserted into it: what is reloaded is inserted where it will be.*)
LEMMA ReloadedItem ==
  ASSUME ChangeSetTypes, Mapped, UpdateIsValid, ~Repeats, NEW s \in DOMAIN oldItemCounts \ deletedSections,
         NEW i \in in(s, items["reload"])
  PROVE  /\ i \in 1 .. oldItemCounts[s] /\ i \notin in(s, items["delete"]) /\ i \in DOMAIN itemMappings[s]
         /\ newIndexPathForOldIndexPath(<<s, i>>) = <<sectionMapping[s], itemMappings[s][i]>>
         /\ itemMappings[s][i] \in Nat \ {0} /\ itemMappings[s][i] \notin in(sectionMapping[s], items["insert"])
<1>1. s \in DOMAIN oldItemCounts \ sections["delete"] /\ newSectionForOldSection(s) # NotFound
  BY SectionKept
<1>2. i \in 1 .. oldItemCounts[s] /\ i \notin in(s, items["delete"])
  <2>1. PICK gone : gone = in(s, deleteItemChanges)
    OBVIOUS
  <2>2. /\ gone = in(s, items["delete"]) \cup in(s, items["reload"]) /\ gone \in SUBSET (1 .. oldItemCounts[s])
        /\ in(s, items["delete"]) \cap in(s, items["reload"]) = {}
    BY <1>1, <2>1, ItemsDeleted
  <2> QED
    BY <2>2
<1>3. PICK q : q = <<s, i>>
  OBVIOUS
<1>4. /\ newIndexPathForOldIndexPath(q) = <<sectionMapping[s], itemMappings[s][i]>>
      /\ i \in DOMAIN itemMappings[s] /\ itemMappings[s][i] \in Nat \ {0}
      /\ Matches(i, in(s, items["delete"]), itemMappings[s][i], in(sectionMapping[s], items["insert"]))
  <2>1. q[1] = s /\ q[2] = i
    BY <1>3
  <2> QED
    BY <1>1, <1>2, <2>1, NewItem
<1> QED
  BY <1>2, <1>3, <1>4, MatchesIsFree

LEMMA ReloadedFrom ==
  ASSUME ChangeSetTypes, Mapped, UpdateIsValid, NEW s \in DOMAIN oldItemCounts \ deletedSections,
         NEW q \in DOMAIN items["reload"], NEW p, p = newIndexPathForOldIndexPath(q), p[1] = sectionMapping[s]
  PROVE  q[1] = s /\ q[2] \in in(s, items["reload"]) /\ q = <<s, q[2]>>
<1>1. q \in Path /\ q = <<q[1], q[2]>> /\ q[1] \in Nat
  <2>1. q \in Path /\ MaxSections \in Nat
    BY ChangeSetBounds DEF ChangeSetTypes, ItemBag, Change
  <2> QED
    BY <2>1 DEF Path, Section
<1>2. p # NoPath
  BY DEF UpdateIsValid, ReloadsAreLeft
<1>3. p[1] = newSectionForOldSection(q[1]) /\ newSectionForOldSection(q[1]) # NotFound
  BY <1>2 DEF newIndexPathForOldIndexPath
<1>0. PICK n \in Nat : n = Len(oldItemCounts)
  BY CountsFacts DEF ChangeSetTypes
<1>4. PICK f, D, I : /\ f = sectionMapping /\ IsMapping(f, n, D, I)
  BY <1>0, CountsFacts DEF Mapped, ChangeSetTypes
<1>5. q[1] \in DOMAIN f /\ f[q[1]] = f[s] /\ s \in DOMAIN f
  BY <1>3, <1>4, SectionKept DEF newSectionForOldSection, integerForKey
<1>6. PICK a, t : a = q[1] /\ t = f[s]
  OBVIOUS
<1>7. a \in Nat /\ s \in Nat /\ t \in Nat /\ Matches(a, D, t, I) /\ Matches(s, D, t, I)
  BY <1>4, <1>5, <1>6 DEF IsMapping
<1>8. a = s
  BY <1>7, MatchesIsOneToOne
<1>9. q = <<s, q[2]>>
  BY <1>1, <1>6, <1>8
<1>10. DOMAIN items["reload"] \subseteq Path
  BY DEF ChangeSetTypes, ItemBag, Change
<1> QED
  BY <1>6, <1>8, <1>9, <1>10, InFacts

LEMMA ItemsInserted ==
  ASSUME ChangeSetTypes, Mapped, UpdateIsValid, ~Repeats, NEW s \in DOMAIN oldItemCounts \ deletedSections,
         NEW t, t = sectionMapping[s], NEW come, come = in(t, insertItemChanges)
  PROVE  /\ come = in(t, items["insert"]) \cup {itemMappings[s][r] : r \in in(s, items["reload"])}
         /\ come \in SUBSET (1 .. newItemCounts[t])
         /\ Once(itemsIn(t, insertItemChanges), come)
<1>1. PICK inserted, reloaded, there, both :
           /\ inserted = items["insert"] /\ reloaded = items["reload"] /\ there = moved(reloaded)
           /\ both = inserted (+) there
  OBVIOUS
<1>2. /\ DOMAIN inserted \subseteq Path /\ DOMAIN reloaded \subseteq Path
      /\ DOMAIN there = {newIndexPathForOldIndexPath(q) : q \in DOMAIN reloaded}
      /\ DOMAIN both = DOMAIN inserted \cup DOMAIN there
      /\ DOMAIN insertItemChanges = {p \in DOMAIN both : p[1] \notin insertedSections}
  <2>1. DOMAIN inserted \subseteq Path /\ DOMAIN reloaded \subseteq Path
    BY <1>1 DEF ChangeSetTypes, ItemBag, Change
  <2>2. DOMAIN there = {newIndexPathForOldIndexPath(q) : q \in DOMAIN reloaded}
    BY <1>1 DEF moved
  <2>3. DOMAIN both = DOMAIN inserted \cup DOMAIN there
    BY <1>1 DEF (+)
  <2>4. insertItemChanges = outside(insertedSections, both)
    BY <1>1 DEF insertItemChanges
  <2>5. DOMAIN insertItemChanges = {p \in DOMAIN both : p[1] \notin insertedSections}
    BY <2>4 DEF outside, Restrict
  <2> QED
    BY <2>1, <2>2, <2>3, <2>5
<1>3. t \in DOMAIN newItemCounts /\ t \notin insertedSections /\ s \in DOMAIN oldItemCounts \ sections["delete"]
  BY SectionKept
<1>4. PICK g : g = itemMappings[s]
  OBVIOUS
<1>5. ASSUME NEW p \in DOMAIN both, p[1] = t
      PROVE  /\ p = <<t, p[2]>> /\ p[2] \in Nat \ {0} /\ both[p] = 1
             /\ p[2] \in in(t, inserted) \cup {g[r] : r \in in(s, reloaded)}
  <2>1. p \in DOMAIN inserted => p = <<t, p[2]>> /\ p[2] \in Nat \ {0} /\ p[2] \in in(t, inserted) /\ inserted[p] = 1
    <3> SUFFICES ASSUME p \in DOMAIN inserted
                 PROVE  p = <<t, p[2]>> /\ p[2] \in Nat \ {0} /\ p[2] \in in(t, inserted) /\ inserted[p] = 1
      OBVIOUS
    <3>1. p = <<t, p[2]>> /\ p[2] \in Nat \ {0}
      BY <1>2, <1>5, ChangeSetBounds DEF Path
    <3>2. p[2] \in in(t, inserted)
      BY <1>2, <3>1, InFacts
    <3>3. inserted[p] = 1
      BY <1>1 DEF ChangeSetTypes, ItemBag, Change
    <3> QED
      BY <3>1, <3>2, <3>3
  <2>2. p \in DOMAIN there => /\ p = <<t, p[2]>> /\ p[2] \in Nat \ {0} /\ p[2] \in {g[r] : r \in in(s, reloaded)}
                              /\ p \notin DOMAIN inserted /\ there[p] = 1
    <3> SUFFICES ASSUME p \in DOMAIN there
                 PROVE  /\ p = <<t, p[2]>> /\ p[2] \in Nat \ {0} /\ p[2] \in {g[r] : r \in in(s, reloaded)}
                        /\ p \notin DOMAIN inserted /\ there[p] = 1
      OBVIOUS
    <3>1. PICK q \in DOMAIN reloaded : p = newIndexPathForOldIndexPath(q)
      BY <1>2
    <3>2. PICK r : r = q[2] /\ r \in in(s, reloaded) /\ q = <<s, r>>
      BY <1>1, <1>5, <3>1, ReloadedFrom
    <3>3. /\ r \in DOMAIN g /\ p = <<t, g[r]>> /\ g[r] \in Nat \ {0} /\ g[r] \notin in(t, inserted)
      BY <1>1, <1>4, <3>1, <3>2, ReloadedItem
    <3>4. p[2] = g[r] /\ p \notin DOMAIN inserted
      BY <1>2, <3>3, InFacts
    <3>5. oldIndexPathForNewIndexPath(p) = q
      BY <1>3, <1>4, <1>5, <3>2, <3>3, <3>4, OldPathOf
    <3>6. there[p] = reloaded[q] /\ reloaded[q] = 1
      <4>1. there[p] = reloaded[oldIndexPathForNewIndexPath(p)]
        BY <1>1, <3>1 DEF moved
      <4>2. reloaded[q] = 1
        BY <1>1 DEF ChangeSetTypes, ItemBag, Change
      <4> QED
        BY <3>5, <4>1, <4>2
    <3> QED
      BY <3>2, <3>3, <3>4, <3>6
  <2>3. both[p] = (IF p \in DOMAIN inserted THEN inserted[p] ELSE 0) + (IF p \in DOMAIN there THEN there[p] ELSE 0)
    <3>1. p \in DOMAIN inserted \cup DOMAIN there
      BY <1>2
    <3> QED
      BY <1>1, <3>1 DEF (+)
  <2>4. both[p] = 1
    BY <1>2, <2>1, <2>2, <2>3
  <2> QED
    BY <1>2, <2>1, <2>2, <2>4
<1>6. come = {p[2] : p \in {q \in DOMAIN both : q[1] = t}}
  BY <1>2, <1>3 DEF in
<1>7. come = in(t, inserted) \cup {g[r] : r \in in(s, reloaded)}
  <2>1. ASSUME NEW j \in in(t, inserted) PROVE j \in come
    <3>1. <<t, j>> \in DOMAIN both
      BY <1>2, InFacts
    <3> QED
      BY <1>6, <3>1
  <2>2. ASSUME NEW r \in in(s, reloaded) PROVE g[r] \in come
    <3>1. <<s, r>> \in DOMAIN reloaded
      BY <1>2, InFacts
    <3>2. newIndexPathForOldIndexPath(<<s, r>>) = <<t, g[r]>>
      BY <1>1, <1>4, ReloadedItem
    <3>3. <<t, g[r]>> \in DOMAIN both
      BY <1>2, <3>1, <3>2
    <3> QED
      BY <1>6, <3>3
  <2>3. \A j \in come : j \in in(t, inserted) \cup {g[r] : r \in in(s, reloaded)}
    BY <1>5, <1>6
  <2> QED
    BY <2>1, <2>2, <2>3
<1>8. ASSUME NEW j \in come
      PROVE  /\ <<t, j>> \in DOMAIN insertItemChanges /\ insertItemChanges[<<t, j>>] = 1
             /\ j \in 1 .. newItemCounts[t]
  <2>1. PICK p \in DOMAIN both : p[1] = t /\ p[2] = j /\ p = <<t, j>> /\ j \in Nat \ {0} /\ both[p] = 1
    BY <1>5, <1>6
  <2>2. p \in DOMAIN insertItemChanges
    BY <1>2, <1>3, <2>1
  <2>3. insertItemChanges[p] = both[p]
    BY <1>1, <2>2, <1>2 DEF insertItemChanges, outside, Restrict
  <2>4. j <= newItemCounts[t]
    BY <2>1, <2>2 DEF UpdateIsValid, within
  <2>5. newItemCounts[t] \in Nat
    BY <1>3, CountsFacts DEF ChangeSetTypes
  <2> QED
    BY <2>1, <2>2, <2>3, <2>4, <2>5
<1>9. Once(itemsIn(t, insertItemChanges), come)
  BY <1>8, ItemsInFacts
<1> QED
  BY <1>1, <1>4, <1>7, <1>8, <1>9

(* The same for the items of a section that is kept: what is reloaded is    *)
(* deleted and inserted.                                                    *)
ItemsMatch(s, t, gone, come) ==
  \A i \in 1 .. oldItemCounts[s], j \in Nat :
    Matches(i, gone, j, come)
      <=> Matches(i, in(s, items["delete"]), j, in(t, items["insert"])) /\ i \notin in(s, items["reload"])

LEMMA ItemsAccepted ==
  ASSUME ChangeSetTypes, Mapped, UpdateIsValid, ~Repeats, NEW s \in DOMAIN oldItemCounts \ deletedSections,
         NEW t, t = sectionMapping[s],
         NEW gone, gone = in(s, deleteItemChanges), NEW come, come = in(t, insertItemChanges)
  PROVE  /\ Free(oldItemCounts[s], gone) = Free(newItemCounts[t], come)
         /\ ItemsMatch(s, t, gone, come)
<1>1. /\ s \in DOMAIN oldItemCounts \ sections["delete"] /\ newSectionForOldSection(s) = t /\ t # NotFound
      /\ t \in DOMAIN newItemCounts
  BY SectionKept
<1>0. PICK n \in Nat, m \in Nat : n = oldItemCounts[s] /\ m = newItemCounts[t]
  BY <1>1, CountsFacts DEF ChangeSetTypes
<1>2. PICK D, I, R, f :
           /\ n = oldItemCounts[s] /\ m = newItemCounts[t] /\ f = itemMappings[s]
           /\ D = in(s, items["delete"]) /\ I = in(t, items["insert"]) /\ R = in(s, items["reload"])
  BY <1>0, <1>1, CountsFacts DEF ChangeSetTypes
<1>3. gone = D \cup R /\ D \cap R = {} /\ gone \in SUBSET (1 .. n)
  BY <1>1, <1>2, ItemsDeleted
<1>4. come = I \cup {f[r] : r \in R} /\ come \in SUBSET (1 .. m)
  BY <1>2, ItemsInserted
<1>5. IsMapping(f, n, D, I)
  BY <1>1, <1>2 DEF Mapped
<1>6. WithReloads(f, D, I, R, gone, come) /\ R \in SUBSET (1 .. n) /\ R \cap D = {}
  BY <1>3, <1>4 DEF WithReloads
<1>7. ReloadsMatch(n, D, I, R, gone, come) /\ ReloadsCount(n, D, I, gone, come)
  BY <1>5, <1>6, Reloaded
<1>8. Free(n, D) = Free(m, I)
  <2>1. s \notin sections["reload"]
    BY DEF deletedSections
  <2>2. m = n + Cardinality(I) - Cardinality(D)
    BY <1>1, <1>2, <2>1 DEF UpdateIsValid, ItemsAreRight, ItemsOfSectionAreRight
  <2>3. D \in SUBSET (1 .. n) /\ I \in SUBSET (1 .. m)
    BY <1>3, <1>4
  <2>4. PICK d \in Nat, i \in Nat : /\ d = Cardinality(D) /\ i = Cardinality(I)
                                    /\ Free(n, D) = n - d /\ Free(m, I) = m - i
    BY <2>3, FreeWithin
  <2>5. m = n + i - d
    BY <2>2, <2>4
  <2> QED
    BY <2>4, <2>5
<1> QED
  BY <1>2, <1>7, <1>8 DEF ItemsMatch, ReloadsMatch, ReloadsCount

LEMMA ItemsIgnored ==
  ASSUME ChangeSetTypes
  PROVE  /\ \A s \in deletedSections : in(s, deleteItemChanges) = {}
         /\ \A t \in insertedSections : in(t, insertItemChanges) = {}
BY ItemChangesFacts DEF in

-----------------------------------------------------------------------------
(* The map as it is when the update begins.                                 *)
mapOf(counts) ==
  [sections |-> [s \in DOMAIN counts |-> oldSection(s)],
   headers |-> [s \in DOMAIN counts |-> oldSection(s)],
   items |-> [s \in DOMAIN counts |-> [i \in 1 .. counts[s] |-> oldElement(<<s, i>>)]]]

LEMMA OnceFacts == ASSUME NEW S PROVE Once(SetToBag(S), S)
BY DEF Once, SetToBag

(* The sections of the map, the items of all sections and the headers, after*)
(* the update.                                                              *)
LEMMA SectionsUpdated ==
  ASSUME ChangeSetTypes, Mapped, UpdateIsValid, NEW list, list = updateSections(mapOf(oldItemCounts))
  PROVE  /\ DOMAIN list = DOMAIN newItemCounts
         /\ \A t \in insertedSections : list[t] = newSection(t)
         /\ \A t \in DOMAIN newItemCounts \ insertedSections :
              \E s \in DOMAIN oldItemCounts : /\ Matches(s, deletedSections, t, insertedSections)
                                              /\ list[t] = oldSection(s)
<1>0. PICK n \in Nat, m \in Nat : n = Len(oldItemCounts) /\ m = Len(newItemCounts)
  BY CountsFacts DEF ChangeSetTypes
<1>1. PICK A, B :
           /\ n = Len(oldItemCounts) /\ m = Len(newItemCounts) /\ A = deletedSections /\ B = insertedSections
           /\ DOMAIN oldItemCounts = 1 .. n /\ DOMAIN newItemCounts = 1 .. m
  BY <1>0, CountsFacts DEF ChangeSetTypes
<1>2. A \in SUBSET (1 .. n) /\ B \in SUBSET (1 .. m) /\ Free(m, B) = Free(n, A)
  BY <1>1, SectionsAccepted DEF SectionsFit
<1>3. PICK V, old, dels, inss, new :
           /\ V = {oldSection(s) : s \in 1 .. n} \cup {newSection(t) : t \in 1 .. m}
           /\ old = [s \in 1 .. n |-> oldSection(s)]
           /\ dels = SetToBag(A) /\ inss = SetToBag(B)
           /\ new = [t \in B |-> newSection(t)]
  OBVIOUS
<1>4. old \in Seq(V) /\ Len(old) = n
  BY <1>3
<1>5. Once(dels, A) /\ Once(inss, B)
  BY <1>3, OnceFacts
<1>6. \A t \in B : new[t] \in V /\ new[t] = newSection(t)
  BY <1>2, <1>3
<1>7. list = insertObjects(removeObjects(old, dels), inss, new)
  BY <1>1, <1>3 DEF updateSections, mapOf
<1>8. /\ list \in Seq(V) /\ Len(list) = m
      /\ \A t \in B : list[t] = new[t]
      /\ \A t \in (1 .. m) \ B : \E s \in 1 .. Len(old) : Matches(s, A, t, B) /\ list[t] = old[s]
  <2>1. A \in SUBSET (1 .. Len(old)) /\ Free(m, B) = Free(Len(old), A) /\ \A t \in B : new[t] \in V
    BY <1>2, <1>4, <1>6
  <2> QED
    BY <1>2, <1>4, <1>5, <1>7, <2>1, ListUpdated
<1>9. ASSUME NEW t \in (1 .. m) \ B
      PROVE  \E s \in 1 .. n : Matches(s, A, t, B) /\ list[t] = oldSection(s)
  <2>1. PICK s \in 1 .. Len(old) : Matches(s, A, t, B) /\ list[t] = old[s]
    BY <1>8
  <2> QED
    BY <1>3, <1>4, <2>1
<1>10. DOMAIN list = 1 .. m
  BY <1>8
<1> QED
  BY <1>1, <1>6, <1>8, <1>9, <1>10

LEMMA NothingInserted ==
  ASSUME NEW list, NEW bag, DOMAIN bag = {}, NEW new
  PROVE  insertObjects(list, bag, new) = list
<1>1. PICK g : IsInsertFold(g, bag, new, list, {})
  <2>1. {} \in SUBSET Nat /\ IsFiniteSet({})
    BY FS_EmptySet
  <2> QED
    BY <2>1, InsertFold
<1> QED
  BY <1>1 DEF IsInsertFold

withoutItems(map) ==
  [s \in DOMAIN map.items |-> removeObjects(map.items[s], itemsIn(s, deleteItemChanges))]
withSections(map) ==
  insertObjects(removeObjects(withoutItems(map), SetToBag(deletedSections)), SetToBag(insertedSections),
                [t \in insertedSections |-> elementsOfSection(map, t)])
newItems(map, t) == [i \in in(t, insertItemChanges) |-> newElement(map, <<t, i>>)]

LEMMA SectionsOfItems ==
  ASSUME ChangeSetTypes, Mapped, UpdateIsValid, NEW map, DOMAIN map.items = DOMAIN oldItemCounts,
         NEW lists, lists = withSections(map)
  PROVE  /\ DOMAIN lists = DOMAIN newItemCounts
         /\ \A t \in insertedSections : lists[t] = elementsOfSection(map, t)
         /\ \A t \in DOMAIN newItemCounts \ insertedSections :
              \E s \in DOMAIN oldItemCounts : /\ Matches(s, deletedSections, t, insertedSections)
                                              /\ lists[t] = removeObjects(map.items[s], itemsIn(s, deleteItemChanges))
<1>0. PICK n \in Nat, m \in Nat : n = Len(oldItemCounts) /\ m = Len(newItemCounts)
  BY CountsFacts DEF ChangeSetTypes
<1>1. PICK A, B :
           /\ n = Len(oldItemCounts) /\ m = Len(newItemCounts) /\ A = deletedSections /\ B = insertedSections
           /\ DOMAIN oldItemCounts = 1 .. n /\ DOMAIN newItemCounts = 1 .. m
  BY <1>0, CountsFacts DEF ChangeSetTypes
<1>2. A \in SUBSET (1 .. n) /\ B \in SUBSET (1 .. m) /\ Free(m, B) = Free(n, A)
  BY <1>1, SectionsAccepted DEF SectionsFit
<1>3. PICK V, old, dels, inss, new :
           /\ V = {withoutItems(map)[s] : s \in 1 .. n} \cup {elementsOfSection(map, t) : t \in 1 .. m}
           /\ old = withoutItems(map)
           /\ dels = SetToBag(A) /\ inss = SetToBag(B)
           /\ new = [t \in B |-> elementsOfSection(map, t)]
  OBVIOUS
<1>4. /\ old \in Seq(V) /\ Len(old) = n
      /\ \A s \in 1 .. n : old[s] = removeObjects(map.items[s], itemsIn(s, deleteItemChanges))
  <2>1. old = [s \in 1 .. n |-> removeObjects(map.items[s], itemsIn(s, deleteItemChanges))]
    BY <1>1, <1>3 DEF withoutItems
  <2>2. \A s \in 1 .. n : old[s] \in V
    BY <1>3
  <2> QED
    BY <2>1, <2>2
<1>5. Once(dels, A) /\ Once(inss, B)
  BY <1>3, OnceFacts
<1>6. \A t \in B : new[t] \in V /\ new[t] = elementsOfSection(map, t)
  BY <1>2, <1>3
<1>7. lists = insertObjects(removeObjects(old, dels), inss, new)
  BY <1>1, <1>3 DEF withSections
<1>8. /\ lists \in Seq(V) /\ Len(lists) = m
      /\ \A t \in B : lists[t] = new[t]
      /\ \A t \in (1 .. m) \ B : \E s \in 1 .. Len(old) : Matches(s, A, t, B) /\ lists[t] = old[s]
  <2>1. A \in SUBSET (1 .. Len(old)) /\ Free(m, B) = Free(Len(old), A) /\ \A t \in B : new[t] \in V
    BY <1>2, <1>4, <1>6
  <2> QED
    BY <1>2, <1>4, <1>5, <1>7, <2>1, ListUpdated
<1>9. ASSUME NEW t \in (1 .. m) \ B
      PROVE  \E s \in 1 .. n : /\ Matches(s, A, t, B)
                               /\ lists[t] = removeObjects(map.items[s], itemsIn(s, deleteItemChanges))
  <2>1. PICK s \in 1 .. Len(old) : Matches(s, A, t, B) /\ lists[t] = old[s]
    BY <1>8
  <2> QED
    BY <1>4, <2>1
<1>10. DOMAIN lists = 1 .. m
  BY <1>8
<1> QED
  BY <1>1, <1>6, <1>8, <1>9, <1>10

(* The items of a section that is kept.                                     *)
ItemsAre(list, map, s, t) ==
  /\ DOMAIN list = 1 .. newItemCounts[t] /\ Len(list) = newItemCounts[t]
  /\ \A j \in 1 .. newItemCounts[t] :
       \/ j \in in(t, insertItemChanges) /\ list[j] = newElement(map, <<t, j>>)
       \/ /\ j \notin in(t, insertItemChanges)
          /\ \E i \in 1 .. oldItemCounts[s] : /\ Matches(i, in(s, deleteItemChanges), j, in(t, insertItemChanges))
                                              /\ list[j] = oldElement(<<s, i>>)

LEMMA ItemsOfSectionUpdated ==
  ASSUME ChangeSetTypes, Mapped, UpdateIsValid, ~Repeats, NEW map, map = mapOf(oldItemCounts),
         NEW s \in DOMAIN oldItemCounts \ deletedSections, NEW t, t = sectionMapping[s], NEW list,
         list = insertObjects(removeObjects(map.items[s], itemsIn(s, deleteItemChanges)),
                              itemsIn(t, insertItemChanges), newItems(map, t))
  PROVE  ItemsAre(list, map, s, t)
<1>1. /\ t \in DOMAIN newItemCounts /\ newSectionForOldSection(s) # NotFound
  BY SectionKept
<1>0. PICK n \in Nat, m \in Nat : n = oldItemCounts[s] /\ m = newItemCounts[t]
  BY <1>1, CountsFacts DEF ChangeSetTypes
<1>2. PICK D, I, dels, inss, new, old :
           /\ n = oldItemCounts[s] /\ m = newItemCounts[t]
           /\ D = in(s, deleteItemChanges) /\ I = in(t, insertItemChanges)
           /\ dels = itemsIn(s, deleteItemChanges) /\ inss = itemsIn(t, insertItemChanges)
           /\ new = newItems(map, t) /\ old = map.items[s]
  BY <1>0, <1>1, CountsFacts DEF ChangeSetTypes
<1>3. D \in SUBSET (1 .. n) /\ Once(dels, D)
  BY <1>1, <1>2, ItemsDeleted
<1>4. I \in SUBSET (1 .. m) /\ Once(inss, I)
  BY <1>2, ItemsInserted
<1>5. Free(m, I) = Free(n, D)
  BY <1>2, ItemsAccepted
<1>6. PICK V : V = {oldElement(<<s, i>>) : i \in 1 .. n} \cup {newElement(map, <<t, j>>) : j \in I}
  OBVIOUS
<1>7. old = [i \in 1 .. n |-> oldElement(<<s, i>>)]
  BY <1>2 DEF mapOf
<1>8. old \in Seq(V) /\ Len(old) = n /\ \A i \in 1 .. n : old[i] = oldElement(<<s, i>>)
  BY <1>6, <1>7
<1>9. \A j \in I : new[j] \in V /\ new[j] = newElement(map, <<t, j>>)
  BY <1>2, <1>6 DEF newItems
<1>10. list = insertObjects(removeObjects(old, dels), inss, new)
  BY <1>2
<1>11. /\ list \in Seq(V) /\ Len(list) = m
       /\ \A j \in I : list[j] = new[j]
       /\ \A j \in (1 .. m) \ I : \E i \in 1 .. Len(old) : Matches(i, D, j, I) /\ list[j] = old[i]
  <2>1. D \in SUBSET (1 .. Len(old)) /\ Free(m, I) = Free(Len(old), D) /\ \A j \in I : new[j] \in V
    BY <1>3, <1>5, <1>8, <1>9
  <2> QED
    BY <1>3, <1>4, <1>8, <1>10, <2>1, ListUpdated
<1>12. ASSUME NEW j \in 1 .. m
       PROVE  \/ j \in I /\ list[j] = newElement(map, <<t, j>>)
              \/ j \notin I /\ \E i \in 1 .. n : Matches(i, D, j, I) /\ list[j] = oldElement(<<s, i>>)
  <2>1. CASE j \in I
    BY <1>9, <1>11, <2>1
  <2>2. CASE j \notin I
    <3>1. PICK i \in 1 .. Len(old) : Matches(i, D, j, I) /\ list[j] = old[i]
      BY <1>11, <2>2
    <3> QED
      BY <1>8, <2>2, <3>1
  <2> QED
    BY <2>1, <2>2
<1>13. DOMAIN list = 1 .. m
  BY <1>11
<1>14. ASSUME NEW j \in 1 .. newItemCounts[t]
       PROVE  \/ j \in in(t, insertItemChanges) /\ list[j] = newElement(map, <<t, j>>)
              \/ /\ j \notin in(t, insertItemChanges)
                 /\ \E i \in 1 .. oldItemCounts[s] : /\ Matches(i, in(s, deleteItemChanges), j, in(t, insertItemChanges))
                                                     /\ list[j] = oldElement(<<s, i>>)
  <2>1. j \in 1 .. m
    BY <1>2
  <2>2. CASE j \in I
    BY <1>2, <1>12, <2>1, <2>2
  <2>3. CASE j \notin I
    <3>1. PICK i \in 1 .. n : Matches(i, D, j, I) /\ list[j] = oldElement(<<s, i>>)
      BY <1>12, <2>1, <2>3
    <3>2. i \in 1 .. oldItemCounts[s] /\ Matches(i, in(s, deleteItemChanges), j, in(t, insertItemChanges))
      BY <1>2, <3>1
    <3> QED
      BY <1>2, <2>3, <3>1, <3>2
  <2> QED
    BY <2>2, <2>3
<1> QED
  BY <1>2, <1>11, <1>13, <1>14 DEF ItemsAre

LEMMA ItemsUpdated ==
  ASSUME ChangeSetTypes, Mapped, UpdateIsValid, ~Repeats, NEW map, map = mapOf(oldItemCounts),
         NEW lists, lists = updateItems(map)
  PROVE  /\ DOMAIN lists = DOMAIN newItemCounts
         /\ \A t \in insertedSections : lists[t] = elementsOfSection(map, t)
         /\ \A t \in DOMAIN newItemCounts \ insertedSections :
              \E s \in DOMAIN oldItemCounts \ deletedSections :
                sectionMapping[s] = t /\ ItemsAre(lists[t], map, s, t)
<1>1. PICK with : with = withSections(map)
  OBVIOUS
<1>2. DOMAIN map.items = DOMAIN oldItemCounts
  BY DEF mapOf
<1>3. /\ DOMAIN with = DOMAIN newItemCounts
      /\ \A t \in insertedSections : with[t] = elementsOfSection(map, t)
      /\ \A t \in DOMAIN newItemCounts \ insertedSections :
           \E s \in DOMAIN oldItemCounts : /\ Matches(s, deletedSections, t, insertedSections)
                                           /\ with[t] = removeObjects(map.items[s], itemsIn(s, deleteItemChanges))
  BY <1>1, <1>2, SectionsOfItems
<1>4. lists = [t \in DOMAIN with |-> insertObjects(with[t], itemsIn(t, insertItemChanges), newItems(map, t))]
  BY <1>1 DEF updateItems, withoutItems, withSections, newItems
<1>5. insertedSections \in SUBSET DOMAIN newItemCounts
  BY SectionsAccepted DEF SectionsFit
<1>6. ASSUME NEW t \in insertedSections PROVE lists[t] = elementsOfSection(map, t)
  <2>1. DOMAIN itemsIn(t, insertItemChanges) = {}
    BY ItemsIgnored DEF itemsIn
  <2> QED
    BY <1>3, <1>4, <1>5, <2>1, NothingInserted
<1>7. ASSUME NEW t \in DOMAIN newItemCounts \ insertedSections
      PROVE  \E s \in DOMAIN oldItemCounts \ deletedSections :
               sectionMapping[s] = t /\ ItemsAre(lists[t], map, s, t)
  <2>1. PICK s \in DOMAIN oldItemCounts :
               /\ Matches(s, deletedSections, t, insertedSections)
               /\ with[t] = removeObjects(map.items[s], itemsIn(s, deleteItemChanges))
    BY <1>3
  <2>2. s \notin deletedSections /\ t \in Nat /\ s \in Nat
    BY <2>1, MatchesIsFree, CountsFacts DEF ChangeSetTypes
  <2>3. PICK u : u = sectionMapping[s]
    OBVIOUS
  <2>4. u \in DOMAIN newItemCounts /\ Matches(s, deletedSections, u, insertedSections)
    BY <2>2, <2>3, SectionKept
  <2>5. u = t
    <3>1. u \in Nat
      BY <2>4, CountsFacts DEF ChangeSetTypes
    <3> QED
      BY <2>1, <2>2, <2>4, <3>1, MatchesIsOneToOne
  <2>6. lists[t] = insertObjects(removeObjects(map.items[s], itemsIn(s, deleteItemChanges)),
                                 itemsIn(t, insertItemChanges), newItems(map, t))
    BY <1>3, <1>4, <2>1
  <2>7. ItemsAre(lists[t], map, s, t)
    BY <2>2, <2>3, <2>5, <2>6, ItemsOfSectionUpdated
  <2> QED
    BY <2>2, <2>3, <2>5, <2>7
<1> QED
  BY <1>3, <1>4, <1>6, <1>7

LEMMA HeadersUpdated ==
  ASSUME ChangeSetTypes, Mapped, UpdateIsValid, NEW headers, headers = updateHeaders(mapOf(oldItemCounts))
  PROVE  /\ DOMAIN headers = DOMAIN newItemCounts
         /\ \A t \in DOMAIN newItemCounts :
              \/ headers[t] = newSection(t)
              \/ \E s \in DOMAIN oldItemCounts \ deletedSections :
                   SectionMatches(s, t) /\ headers[t] = oldSection(s)
<1>0. PICK n \in Nat, m \in Nat : n = Len(oldItemCounts) /\ m = Len(newItemCounts)
  BY CountsFacts DEF ChangeSetTypes
<1>1. PICK A, B, D, I, f :
           /\ n = Len(oldItemCounts) /\ m = Len(newItemCounts) /\ A = deletedSections /\ B = insertedSections
           /\ DOMAIN oldItemCounts = 1 .. n /\ DOMAIN newItemCounts = 1 .. m
           /\ f = sectionMapping /\ D = sections["delete"] /\ I = sections["insert"]
  BY <1>0, CountsFacts DEF ChangeSetTypes
<1>2. A \in SUBSET (1 .. n) /\ B \in SUBSET (1 .. m) /\ IsMapping(f, n, D, I)
  BY <1>1, SectionsAccepted DEF SectionsFit, Mapped
<1>3. PICK map, kept, changed :
           /\ map = mapOf(oldItemCounts)
           /\ kept = Restrict(f, DOMAIN f \cap (1 .. n))
           /\ changed = B \cup {newSectionForOldSection(p[1]) : p \in DOMAIN deleteItemChanges}
                          \cup {p[1] : p \in DOMAIN insertItemChanges}
  OBVIOUS
<1>4. DOMAIN map.headers = 1 .. n /\ \A s \in 1 .. n : map.headers[s] = oldSection(s)
  BY <1>1, <1>3 DEF mapOf
<1>5. headers = [t \in Range(kept) \cup changed |-> IF t \in changed THEN newSection(t) ELSE map.headers[inverseMap(kept)[t]]]
  BY <1>1, <1>3, <1>4 DEF updateHeaders
<1>6. DOMAIN kept = DOMAIN f \cap (1 .. n) /\ \A s \in DOMAIN kept : kept[s] = f[s]
  BY <1>3 DEF Restrict
<1>7. IsMapping(kept, n, D, I)
  BY <1>2, <1>6 DEF IsMapping
<1>8. \A s \in (1 .. n) \ A : /\ s \in DOMAIN f /\ f[s] \in 1 .. m /\ newSectionForOldSection(s) = f[s]
                              /\ f[s] \notin B
  BY <1>1, SectionKept
<1>9. ASSUME NEW s \in DOMAIN kept PROVE f[s] \in 1 .. m /\ (s \in A => f[s] \in B)
  <2>1. CASE s \in A
    <3>1. s \notin D
      <4>1. Matches(s, D, f[s], I)
        BY <1>2, <1>6 DEF IsMapping
      <4> QED
        BY <4>1, MatchesIsFree
    <3>2. s \in sections["reload"]
      BY <1>1, <2>1, <3>1 DEF deletedSections
    <3>3. newSectionForOldSection(s) = f[s]
      BY <1>1, <1>6, <3>1, NewSection
    <3>4. f[s] \in B
      BY <1>1, <3>2, <3>3 DEF insertedSections
    <3> QED
      BY <1>2, <3>4
  <2>2. CASE s \notin A
    BY <1>6, <1>8, <2>2
  <2> QED
    BY <2>1, <2>2
<1>10. changed \in SUBSET (1 .. m)
  <2>1. ASSUME NEW p \in DOMAIN deleteItemChanges PROVE newSectionForOldSection(p[1]) \in 1 .. m
    <3>1. p[1] \in (1 .. n) \ A
      BY <1>1, ItemChangesFacts DEF UpdateIsValid, within
    <3> QED
      BY <1>8, <3>1
  <2>2. \A p \in DOMAIN insertItemChanges : p[1] \in 1 .. m
    BY <1>1 DEF UpdateIsValid, within
  <2> QED
    BY <1>2, <1>3, <2>1, <2>2
<1>11. Range(kept) = {f[s] : s \in DOMAIN kept}
  BY <1>6 DEF Range
<1>12. ASSUME NEW t \in (1 .. m) \ B PROVE \E s \in (1 .. n) \ A : s \in DOMAIN kept /\ f[s] = t
  <2>1. PICK s \in (1 .. n) \ A : f[s] = t
    BY <1>1, SectionFound
  <2> QED
    BY <1>6, <1>8, <2>1
<1>13. DOMAIN headers = 1 .. m
  <2>1. Range(kept) \subseteq 1 .. m
    BY <1>9, <1>11
  <2>2. 1 .. m \subseteq Range(kept) \cup changed
    BY <1>3, <1>11, <1>12
  <2> QED
    BY <1>5, <1>10, <2>1, <2>2
<1>14. ASSUME NEW t \in 1 .. m, t \notin changed
       PROVE  \E s \in (1 .. n) \ A : SectionMatches(s, t) /\ headers[t] = oldSection(s)
  <2>1. t \in (1 .. m) \ B
    BY <1>3, <1>14
  <2>2. PICK s \in (1 .. n) \ A : s \in DOMAIN kept /\ f[s] = t
    BY <1>12, <2>1
  <2>3. integerForKey(inverseMap(kept), t) = s
    <3>1. t \in Nat \ {0} /\ kept[s] = t
      BY <1>6, <2>2
    <3> QED
      BY <1>7, <2>2, <3>1, InverseMap
  <2>4. inverseMap(kept)[t] = s
    BY <2>2, <2>3 DEF integerForKey, NotFound
  <2>5. headers[t] = oldSection(s)
    BY <1>4, <1>5, <1>13, <1>14, <2>4
  <2>6. SectionMatches(s, t)
    BY <1>1, <2>2, SectionKept
  <2> QED
    BY <2>5, <2>6
<1>15. \A t \in changed : headers[t] = newSection(t)
  BY <1>5
<1> QED
  BY <1>1, <1>13, <1>14, <1>15

-----------------------------------------------------------------------------
(* An element of the updated map.                                           *)
ElementIsRight(element, p) ==
  \/ /\ element.new /\ element.path = p
     /\ ~(\E q \in KeptItems : ItemMatches(q, p))
     /\ element.node # NoPath => /\ element.node \in (Nat \X Nat) /\ ItemMatches(element.node, p)
  \/ \E q \in KeptItems : ItemMatches(q, p) /\ element = oldElement(q) /\ q \in (Nat \X Nat)

LEMMA KeptItemFacts ==
  ASSUME ChangeSetTypes, ~includesReloadData, NEW q
  PROVE  q \in KeptItems <=>
           /\ q \in Paths(oldItemCounts) /\ q[1] \in DOMAIN oldItemCounts \ deletedSections
           /\ q[2] \notin in(q[1], items["delete"]) /\ q[2] \notin in(q[1], items["reload"])
<1>1. DOMAIN items["delete"] \subseteq Path /\ DOMAIN items["reload"] \subseteq Path
  BY DEF ChangeSetTypes, ItemBag, Change
<1>2. ASSUME q \in Paths(oldItemCounts)
      PROVE  /\ q[2] \in in(q[1], items["delete"]) <=> BagIn(q, items["delete"])
             /\ q[2] \in in(q[1], items["reload"]) <=> BagIn(q, items["reload"])
  <2>1. q = <<q[1], q[2]>>
    BY <1>2, PathsFacts DEF ChangeSetTypes
  <2>2. /\ q[2] \in in(q[1], items["delete"]) <=> q \in DOMAIN items["delete"]
        /\ q[2] \in in(q[1], items["reload"]) <=> q \in DOMAIN items["reload"]
    BY <1>1, <2>1, InFacts
  <2> QED
    BY <2>2 DEF BagIn, BagToSet
<1> QED
  BY <1>2 DEF KeptItems, KeptSections

(* Of an item that is kept and one of the new, in sections that match.      *)
LEMMA KeptItem ==
  ASSUME ChangeSetTypes, Mapped, UpdateIsValid, ~Repeats, ~includesReloadData,
         NEW q \in KeptItems, NEW p \in Paths(newItemCounts), ItemMatches(q, p)
  PROVE  /\ q[1] \in DOMAIN oldItemCounts \ deletedSections /\ sectionMapping[q[1]] = p[1] /\ p[1] \notin insertedSections
         /\ Matches(q[2], in(q[1], deleteItemChanges), p[2], in(p[1], insertItemChanges))
<1>1. /\ q \in Paths(oldItemCounts) /\ q[1] \in DOMAIN oldItemCounts \ deletedSections
      /\ q[2] \notin in(q[1], items["delete"]) /\ q[2] \notin in(q[1], items["reload"])
  BY KeptItemFacts
<1>2. q[2] \in 1 .. oldItemCounts[q[1]] /\ p[1] \in DOMAIN newItemCounts /\ p[2] \in Nat /\ p[1] \in Nat /\ q[1] \in Nat
  BY <1>1, PathsFacts, CountsFacts DEF ChangeSetTypes
<1>3. PICK s, t, u, i, j : s = q[1] /\ t = p[1] /\ u = sectionMapping[s] /\ i = q[2] /\ j = p[2]
  OBVIOUS
<1>4. SectionMatches(s, t) /\ Matches(i, in(s, items["delete"]), j, in(t, items["insert"]))
  BY <1>3 DEF ItemMatches
<1>5. u \in DOMAIN newItemCounts \ insertedSections /\ SectionMatches(s, u)
  BY <1>1, <1>3, SectionKept
<1>6. u = t
  <2>1. u \in Nat /\ t \in Nat /\ s \in Nat
    BY <1>2, <1>3, <1>5, CountsFacts DEF ChangeSetTypes
  <2> QED
    BY <1>4, <1>5, <2>1, MatchesIsOneToOne DEF SectionMatches
<1>7. PICK gone, come : gone = in(s, deleteItemChanges) /\ come = in(t, insertItemChanges)
  OBVIOUS
<1>8. ItemsMatch(s, t, gone, come)
  BY <1>1, <1>3, <1>6, <1>7, ItemsAccepted
<1>9. Matches(i, gone, j, come)
  BY <1>1, <1>2, <1>3, <1>4, <1>8 DEF ItemsMatch
<1> QED
  BY <1>1, <1>3, <1>5, <1>6, <1>7, <1>9

(* The elements made for the update, and all elements of the new map.       *)
LEMMA NewElementFacts ==
  ASSUME ChangeSetTypes, Mapped, NEW p \in Paths(newItemCounts), NEW element,
         element = newElement(mapOf(oldItemCounts), p)
  PROVE  /\ element.new /\ element.path = p
         /\ element.node # NoPath => element.node \in (Nat \X Nat) /\ ItemMatches(element.node, p)
<1>1. p = <<p[1], p[2]>> /\ p[1] \in Nat \ {0} /\ p[2] \in Nat \ {0}
  BY PathsFacts, CountsFacts DEF ChangeSetTypes
<1>2. element.new /\ element.path = p
  BY DEF newElement
<1>3. ASSUME element.node # NoPath PROVE element.node \in (Nat \X Nat) /\ ItemMatches(element.node, p)
  <2>1. PICK q : q = oldIndexPathForNewIndexPath(p)
    OBVIOUS
  <2>2. element.node = q /\ q[1] \in DOMAIN oldItemCounts
    BY <1>3, <2>1 DEF newElement, mapOf
  <2>3. PICK t \in Nat \ {0}, j \in Nat \ {0} : p[1] = t /\ p[2] = j
    BY <1>1
  <2>4. q[1] \in Nat \ {0} /\ q[2] \in Nat \ {0} /\ q = <<q[1], q[2]>> /\ ItemMatches(q, p)
    BY <2>1, <2>2, <2>3, OldPathMatches
  <2>5. q \in (Nat \X Nat)
    BY <2>4
  <2> QED
    BY <2>2, <2>4, <2>5
<1> QED
  BY <1>2, <1>3

LEMMA ElementsUpdated ==
  ASSUME ChangeSetTypes, Mapped, UpdateIsValid, ~Repeats, ~includesReloadData,
         NEW lists, lists = updateItems(mapOf(oldItemCounts))
  PROVE  /\ \A t \in DOMAIN newItemCounts : DOMAIN lists[t] = 1 .. newItemCounts[t] /\ Len(lists[t]) = newItemCounts[t]
         /\ \A p \in Paths(newItemCounts) : ElementIsRight(lists[p[1]][p[2]], p)
<1>1. PICK map : map = mapOf(oldItemCounts)
  OBVIOUS
<1>2. /\ \A t \in insertedSections : lists[t] = elementsOfSection(map, t)
      /\ \A t \in DOMAIN newItemCounts \ insertedSections :
           \E s \in DOMAIN oldItemCounts \ deletedSections :
             sectionMapping[s] = t /\ ItemsAre(lists[t], map, s, t)
  BY <1>1, ItemsUpdated
<1>3. \A t \in DOMAIN newItemCounts : newItemCounts[t] \in Nat
  BY CountsFacts DEF ChangeSetTypes
<1>4. ASSUME NEW t \in DOMAIN newItemCounts
      PROVE  DOMAIN lists[t] = 1 .. newItemCounts[t] /\ Len(lists[t]) = newItemCounts[t]
  <2>1. CASE t \in insertedSections
    <3>1. lists[t] = [i \in 1 .. newItemCounts[t] |-> newElement(map, <<t, i>>)]
      BY <1>2, <2>1 DEF elementsOfSection
    <3>2. PICK n \in Nat : n = newItemCounts[t]
      BY <1>3
    <3>3. DOMAIN lists[t] = 1 .. n /\ Len(lists[t]) = n
      <4> DEFINE e(i) == newElement(map, <<t, i>>)
      <4>1. lists[t] = [i \in 1 .. n |-> e(i)]
        BY <3>1, <3>2
      <4> HIDE DEF e
      <4>2. DOMAIN lists[t] = 1 .. n
        BY <4>1
      <4>3. Len(lists[t]) = n
        BY <4>1
      <4> QED
        BY <4>2, <4>3
    <3> QED
      BY <3>2, <3>3
  <2>2. CASE t \notin insertedSections
    BY <1>2, <2>2 DEF ItemsAre
  <2> QED
    BY <2>1, <2>2
<1>5. ASSUME NEW p \in Paths(newItemCounts) PROVE ElementIsRight(lists[p[1]][p[2]], p)
  <2>1. PICK t, j, element : t = p[1] /\ j = p[2] /\ element = lists[t][j]
    OBVIOUS
  <2>2. /\ p = <<t, j>> /\ t \in DOMAIN newItemCounts /\ t \in Nat
        /\ j \in 1 .. newItemCounts[t] /\ j \in Nat
    BY <2>1, PathsFacts, CountsFacts DEF ChangeSetTypes
  <2> SUFFICES ElementIsRight(element, p)
    BY <2>1
  <2>3. ASSUME element = newElement(map, p), \A q \in KeptItems : ~ItemMatches(q, p)
        PROVE  ElementIsRight(element, p)
    BY <1>1, <2>3, NewElementFacts DEF ElementIsRight
  <2>4. CASE t \in insertedSections
    <3>1. element = newElement(map, p)
      <4> DEFINE e(i) == newElement(map, <<t, i>>)
      <4>1. lists[t] = [i \in 1 .. newItemCounts[t] |-> e(i)]
        BY <1>2, <2>4 DEF elementsOfSection
      <4>2. e(j) = newElement(map, p)
        BY <2>2
      <4> HIDE DEF e
      <4>3. element = e(j)
        BY <2>1, <2>2, <4>1
      <4> QED
        BY <4>2, <4>3
    <3>2. \A q \in KeptItems : ~ItemMatches(q, p)
      BY <2>1, <2>4, KeptItem
    <3> QED
      BY <2>3, <3>1, <3>2
  <2>5. CASE t \notin insertedSections
    <3>1. PICK s \in DOMAIN oldItemCounts \ deletedSections :
                 sectionMapping[s] = t /\ ItemsAre(lists[t], map, s, t)
      BY <1>2, <2>2, <2>5
    <3>2. PICK gone, come : gone = in(s, deleteItemChanges) /\ come = in(t, insertItemChanges)
      OBVIOUS
    <3>3. SectionMatches(s, t) /\ s \in Nat
      BY <3>1, SectionKept, CountsFacts DEF ChangeSetTypes
    <3>4. CASE j \in come /\ element = newElement(map, <<t, j>>)
      <4>1. ASSUME NEW q \in KeptItems, ItemMatches(q, p) PROVE FALSE
        <5>1. /\ q[1] \in DOMAIN oldItemCounts \ deletedSections /\ sectionMapping[q[1]] = t
              /\ Matches(q[2], in(q[1], deleteItemChanges), j, come)
          BY <2>1, <3>2, <4>1, KeptItem
        <5> QED
          BY <3>4, <5>1, MatchesIsFree
      <4> QED
        BY <2>2, <2>3, <3>4, <4>1
    <3>5. CASE /\ j \notin come
               /\ \E i \in 1 .. oldItemCounts[s] : Matches(i, gone, j, come) /\ element = oldElement(<<s, i>>)
      <4>1. PICK i \in 1 .. oldItemCounts[s] : Matches(i, gone, j, come) /\ element = oldElement(<<s, i>>)
        BY <3>5
      <4>2. ItemsMatch(s, t, gone, come)
        BY <3>1, <3>2, ItemsAccepted
      <4>3. Matches(i, in(s, items["delete"]), j, in(t, items["insert"])) /\ i \notin in(s, items["reload"])
        BY <2>2, <4>1, <4>2 DEF ItemsMatch
      <4>4. PICK q : q = <<s, i>>
        OBVIOUS
      <4>5. q[1] = s /\ q[2] = i /\ q \in (Nat \X Nat)
        BY <3>3, <4>1, <4>4
      <4>6. ItemMatches(q, p)
        BY <2>1, <3>3, <4>3, <4>5 DEF ItemMatches
      <4>7. q \in Paths(oldItemCounts)
        <5>1. /\ s \in 1 .. MaxSections /\ i \in 1 .. MaxItems /\ i <= oldItemCounts[s]
          <6>1. PICK n \in Nat : /\ n = Len(oldItemCounts) /\ DOMAIN oldItemCounts = 1 .. n /\ n <= MaxSections
            BY CountsFacts DEF ChangeSetTypes
          <6>2. oldItemCounts[s] \in Nat /\ oldItemCounts[s] <= MaxItems
            BY CountsFacts DEF ChangeSetTypes
          <6> QED
            BY <4>1, <6>1, <6>2, ChangeSetBounds
        <5> QED
          BY <4>4, <4>5, <5>1 DEF Paths, Path, Section
      <4>8. i \notin in(s, items["delete"])
        BY <4>3, MatchesIsFree
      <4>9. q \in KeptItems
        BY <4>3, <4>5, <4>7, <4>8, KeptItemFacts
      <4> QED
        BY <4>1, <4>4, <4>5, <4>6, <4>9 DEF ElementIsRight
    <3>6. \/ j \in come /\ element = newElement(map, <<t, j>>)
          \/ /\ j \notin come
             /\ \E i \in 1 .. oldItemCounts[s] : Matches(i, gone, j, come) /\ element = oldElement(<<s, i>>)
      BY <2>1, <2>2, <3>1, <3>2 DEF ItemsAre
    <3> QED
      BY <3>4, <3>5, <3>6
  <2> QED
    BY <2>1, <2>4, <2>5
<1> QED
  BY <1>4, <1>5

LEMMA KeptIsFound ==
  ASSUME ChangeSetTypes, Mapped, UpdateIsValid, ~Repeats, ~includesReloadData
  PROVE  KeptIsThere
<1>1. ASSUME NEW s \in KeptSections PROVE \E t \in DOMAIN newItemCounts : SectionMatches(s, t)
  <2>1. s \in DOMAIN oldItemCounts \ deletedSections
    BY DEF KeptSections
  <2> QED
    BY <2>1, SectionKept
<1>2. ASSUME NEW q \in KeptItems PROVE \E p \in Paths(newItemCounts) : ItemMatches(q, p)
  <2>1. PICK s, i, t, j : s = q[1] /\ i = q[2] /\ t = sectionMapping[s] /\ j = itemMappings[s][i]
    OBVIOUS
  <2>2. /\ s \in DOMAIN oldItemCounts \ deletedSections /\ i \in 1 .. oldItemCounts[s] /\ q \in Paths(oldItemCounts)
        /\ i \notin in(s, items["delete"]) /\ i \notin in(s, items["reload"])
    BY <2>1, KeptItemFacts, PathsFacts DEF ChangeSetTypes
  <2>3. s \in DOMAIN oldItemCounts \ sections["delete"] /\ t \in DOMAIN newItemCounts /\ SectionMatches(s, t)
    BY <2>1, <2>2, SectionKept
  <2>4. j \in Nat \ {0} /\ Matches(i, in(s, items["delete"]), j, in(t, items["insert"]))
    BY <2>1, <2>2, <2>3, NewItem
  <2>5. PICK gone, come : gone = in(s, deleteItemChanges) /\ come = in(t, insertItemChanges)
    OBVIOUS
  <2>6. Free(oldItemCounts[s], gone) = Free(newItemCounts[t], come) /\ ItemsMatch(s, t, gone, come)
    BY <2>1, <2>2, <2>5, ItemsAccepted
  <2>7. Matches(i, gone, j, come)
    BY <2>2, <2>4, <2>6 DEF ItemsMatch
  <2>8. PICK n \in Nat, m \in Nat : n = oldItemCounts[s] /\ m = newItemCounts[t] /\ m <= MaxItems
    BY <2>2, <2>3, CountsFacts DEF ChangeSetTypes
  <2>9. j <= m
    BY <2>2, <2>4, <2>6, <2>7, <2>8, MatchesInRange
  <2>10. PICK p : p = <<t, j>>
    OBVIOUS
  <2>11. p \in Paths(newItemCounts)
    <3>1. PICK k \in Nat : k = Len(newItemCounts) /\ DOMAIN newItemCounts = 1 .. k /\ k <= MaxSections
      BY CountsFacts DEF ChangeSetTypes
    <3>2. t \in 1 .. MaxSections /\ j \in 1 .. MaxItems
      BY <2>3, <2>4, <2>8, <2>9, <3>1, ChangeSetBounds
    <3> QED
      BY <2>3, <2>8, <2>9, <2>10, <3>2 DEF Paths, Path, Section
  <2>12. ItemMatches(q, p)
    BY <2>1, <2>3, <2>4, <2>10 DEF ItemMatches
  <2> QED
    BY <2>11, <2>12
<1> QED
  BY <1>1, <1>2 DEF KeptIsThere

MapIsRight(map) ==
  HasCounts(map) /\ KeptIsThere /\ SectionsAreKept(map) /\ ItemsAreKept(map) /\ NodesAreKept(map)

SectionIsRight(map, t) ==
  /\ \/ map.sections[t] = newSection(t) /\ ~(\E s \in KeptSections : SectionMatches(s, t))
     \/ \E s \in KeptSections : SectionMatches(s, t) /\ map.sections[t] = oldSection(s)
  /\ \/ map.headers[t] = newSection(t)
     \/ \E s \in KeptSections : SectionMatches(s, t) /\ map.headers[t] = oldSection(s)

(* A map all of whose parts are right is right, and an update makes such a  *)
(* map.                                                                     *)
LEMMA RightByParts ==
  ASSUME ChangeSetTypes, KeptIsThere, NEW map,
         DOMAIN map.sections = DOMAIN newItemCounts, DOMAIN map.headers = DOMAIN newItemCounts,
         DOMAIN map.items = DOMAIN newItemCounts,
         \A t \in DOMAIN newItemCounts : Len(map.items[t]) = newItemCounts[t] /\ SectionIsRight(map, t),
         \A p \in Paths(newItemCounts) : ElementIsRight(map.items[p[1]][p[2]], p)
  PROVE  MapIsRight(map)
<1>1. HasCounts(map)
  <2>1. [t \in DOMAIN map.items |-> Len(map.items[t])] = newItemCounts
    <3>1. newItemCounts = [t \in DOMAIN newItemCounts |-> newItemCounts[t]]
      BY DEF ChangeSetTypes, Counts
    <3> QED
      BY <3>1
  <2> QED
    BY <2>1 DEF HasCounts
<1>2. SectionsAreKept(map)
  <2> SUFFICES ASSUME NEW t \in DOMAIN newItemCounts,
                      NEW kept, kept = {s \in KeptSections : SectionMatches(s, t)}
               PROVE  /\ map.sections[t] \in IF kept = {} THEN {newSection(t)} ELSE {oldSection(s) : s \in kept}
                      /\ map.headers[t] \in {newSection(t)} \cup {oldSection(s) : s \in kept}
    BY DEF SectionsAreKept
  <2>1. SectionIsRight(map, t)
    OBVIOUS
  <2> QED
    BY <2>1 DEF SectionIsRight
<1>3. ItemsAreKept(map)
  <2> SUFFICES ASSUME NEW p \in Paths(newItemCounts), NEW element, element = map.items[p[1]][p[2]],
                      NEW kept, kept = {q \in KeptItems : ItemMatches(q, p)}
               PROVE  IF kept = {} THEN element.new /\ element.path = p ELSE element \in {oldElement(q) : q \in kept}
    BY DEF ItemsAreKept
  <2>1. ElementIsRight(element, p)
    OBVIOUS
  <2> QED
    BY <2>1 DEF ElementIsRight
<1>4. NodesAreKept(map)
  <2>1. ASSUME NEW p \in Paths(newItemCounts), map.items[p[1]][p[2]].node # NoPath
        PROVE  map.items[p[1]][p[2]].node \in (Nat \X Nat) /\ ItemMatches(map.items[p[1]][p[2]].node, p)
    <3>1. PICK element : element = map.items[p[1]][p[2]]
      OBVIOUS
    <3>2. ElementIsRight(element, p) /\ element.node # NoPath
      BY <2>1, <3>1
    <3>3. CASE \E q \in KeptItems : ItemMatches(q, p) /\ element = oldElement(q) /\ q \in (Nat \X Nat)
      BY <3>1, <3>3 DEF oldElement
    <3> QED
      BY <3>1, <3>2, <3>3 DEF ElementIsRight
  <2>2. ASSUME NEW p \in Paths(newItemCounts), NEW r \in Paths(newItemCounts),
               NEW q \in (Nat \X Nat), ItemMatches(q, p), ItemMatches(q, r)
        PROVE  p = r
    <3>1. PICK s \in Nat, i \in Nat : s = q[1] /\ i = q[2]
      OBVIOUS
    <3>2. PICK t \in Nat, j \in Nat : t = p[1] /\ j = p[2] /\ p = <<t, j>>
      BY PathsFacts, CountsFacts DEF ChangeSetTypes
    <3>3. PICK u \in Nat, k \in Nat : u = r[1] /\ k = r[2] /\ r = <<u, k>>
      BY PathsFacts, CountsFacts DEF ChangeSetTypes
    <3>4. t = u
      <4>1. Matches(s, sections["delete"], t, sections["insert"]) /\ Matches(s, sections["delete"], u, sections["insert"])
        BY <2>2, <3>1, <3>2, <3>3 DEF ItemMatches, SectionMatches
      <4> QED
        BY <4>1, MatchesIsOneToOne
    <3>5. j = k
      <4>1. PICK D, I : D = in(s, items["delete"]) /\ I = in(t, items["insert"])
        OBVIOUS
      <4>2. Matches(i, D, j, I) /\ Matches(i, D, k, I)
        BY <2>2, <3>1, <3>2, <3>3, <3>4, <4>1 DEF ItemMatches
      <4> QED
        BY <4>2, MatchesIsOneToOne
    <3> QED
      BY <3>2, <3>3, <3>4, <3>5
  <2> QED
    BY <2>1, <2>2 DEF NodesAreKept
<1> QED
  BY <1>1, <1>2, <1>3, <1>4 DEF MapIsRight

LEMMA UpdatedMapIsRight ==
  ASSUME ChangeSetTypes, ~Repeats, NEW previous, NEW map, map = updatedMap(previous),
         includesReloadData \/ (Mapped /\ UpdateIsValid /\ previous = mapOf(oldItemCounts))
  PROVE  MapIsRight(map) /\ Aged(map) = mapOf(newItemCounts)
<1>1. /\ KeptIsThere
      /\ DOMAIN map.sections = DOMAIN newItemCounts /\ DOMAIN map.headers = DOMAIN newItemCounts
      /\ DOMAIN map.items = DOMAIN newItemCounts
      /\ \A t \in DOMAIN newItemCounts : /\ DOMAIN map.items[t] = 1 .. newItemCounts[t]
                                         /\ Len(map.items[t]) = newItemCounts[t] /\ SectionIsRight(map, t)
      /\ \A p \in Paths(newItemCounts) : ElementIsRight(map.items[p[1]][p[2]], p)
  <2>1. CASE includesReloadData
    <3>1. KeptSections = {} /\ KeptItems = {}
      BY <2>1 DEF KeptSections, KeptItems
    <3>2. map = mapOfNewData(previous)
      BY <2>1 DEF updatedMap
    <3>3. /\ map.sections = [t \in DOMAIN newItemCounts |-> newSection(t)]
          /\ map.headers = [t \in DOMAIN newItemCounts |-> newSection(t)]
          /\ map.items = [t \in DOMAIN newItemCounts |-> elementsOfSection(previous, t)]
      BY <3>2 DEF mapOfNewData
    <3>4. \A p : newElement(previous, p) = [path |-> p, new |-> TRUE, node |-> NoPath]
      BY <2>1 DEF newElement
    <3>5. ASSUME NEW t \in DOMAIN newItemCounts
          PROVE  /\ DOMAIN map.items[t] = 1 .. newItemCounts[t] /\ Len(map.items[t]) = newItemCounts[t]
                 /\ \A i \in 1 .. newItemCounts[t] : map.items[t][i] = newElement(previous, <<t, i>>)
      <4>1. PICK n \in Nat : n = newItemCounts[t]
        BY CountsFacts DEF ChangeSetTypes
      <4> DEFINE e(i) == newElement(previous, <<t, i>>)
      <4>2. map.items[t] = [i \in 1 .. n |-> e(i)]
        BY <3>3, <4>1 DEF elementsOfSection
      <4> HIDE DEF e
      <4>3. DOMAIN map.items[t] = 1 .. n /\ Len(map.items[t]) = n /\ \A i \in 1 .. n : map.items[t][i] = e(i)
        BY <4>2
      <4> QED
        BY <4>1, <4>3 DEF e
    <3>6. \A t \in DOMAIN newItemCounts : SectionIsRight(map, t)
      BY <3>1, <3>3 DEF SectionIsRight
    <3>7. ASSUME NEW p \in Paths(newItemCounts) PROVE ElementIsRight(map.items[p[1]][p[2]], p)
      <4>1. p = <<p[1], p[2]>> /\ p[1] \in DOMAIN newItemCounts /\ p[2] \in 1 .. newItemCounts[p[1]]
        BY PathsFacts DEF ChangeSetTypes
      <4>2. map.items[p[1]][p[2]] = newElement(previous, p)
        BY <3>5, <4>1
      <4> QED
        BY <3>1, <3>4, <4>2 DEF ElementIsRight
    <3>8. KeptIsThere
      BY <3>1 DEF KeptIsThere
    <3> QED
      BY <3>3, <3>5, <3>6, <3>7, <3>8
  <2>2. CASE ~includesReloadData
    <3>1. Mapped /\ UpdateIsValid /\ previous = mapOf(oldItemCounts)
      BY <2>2
    <3>2. /\ map.sections = updateSections(previous) /\ map.headers = updateHeaders(previous)
          /\ map.items = updateItems(previous)
      BY <2>2 DEF updatedMap
    <3>3. PICK list, headers, lists : list = map.sections /\ headers = map.headers /\ lists = map.items
      OBVIOUS
    <3>4. /\ DOMAIN list = DOMAIN newItemCounts
          /\ \A t \in insertedSections : list[t] = newSection(t)
          /\ \A t \in DOMAIN newItemCounts \ insertedSections :
               \E s \in DOMAIN oldItemCounts : /\ Matches(s, deletedSections, t, insertedSections)
                                               /\ list[t] = oldSection(s)
      BY <3>1, <3>2, <3>3, SectionsUpdated
    <3>5. /\ DOMAIN headers = DOMAIN newItemCounts
          /\ \A t \in DOMAIN newItemCounts :
               \/ headers[t] = newSection(t)
               \/ \E s \in DOMAIN oldItemCounts \ deletedSections :
                    SectionMatches(s, t) /\ headers[t] = oldSection(s)
      BY <3>1, <3>2, <3>3, HeadersUpdated
    <3>6. DOMAIN lists = DOMAIN newItemCounts
      BY <3>1, <3>2, <3>3, ItemsUpdated
    <3>7. /\ \A t \in DOMAIN newItemCounts : DOMAIN lists[t] = 1 .. newItemCounts[t] /\ Len(lists[t]) = newItemCounts[t]
          /\ \A p \in Paths(newItemCounts) : ElementIsRight(lists[p[1]][p[2]], p)
      BY <2>2, <3>1, <3>2, <3>3, ElementsUpdated
    <3>8. KeptSections = DOMAIN oldItemCounts \ deletedSections
      BY <2>2 DEF KeptSections
    <3>9. ASSUME NEW t \in DOMAIN newItemCounts PROVE SectionIsRight(map, t)
      <4>1. t \in Nat
        BY CountsFacts DEF ChangeSetTypes
      <4>2. CASE t \in insertedSections
        <5>1. \A s \in KeptSections : ~SectionMatches(s, t)
          <6> SUFFICES ASSUME NEW s \in KeptSections, SectionMatches(s, t) PROVE FALSE
            OBVIOUS
          <6>1. s \in DOMAIN oldItemCounts /\ s \notin sections["reload"]
            BY <3>8 DEF deletedSections
          <6>2. Matches(s, deletedSections, t, insertedSections)
            BY <3>1, <4>1, <6>1, SectionsAccepted DEF SectionsMatch
          <6> QED
            BY <4>2, <6>2, MatchesIsFree
        <5>2. list[t] = newSection(t)
          BY <3>4, <4>2
        <5> QED
          BY <3>3, <3>5, <3>8, <5>1, <5>2 DEF SectionIsRight
      <4>3. CASE t \notin insertedSections
        <5>1. PICK s \in DOMAIN oldItemCounts : /\ Matches(s, deletedSections, t, insertedSections)
                                                /\ list[t] = oldSection(s)
          BY <3>4, <4>3
        <5>2. SectionMatches(s, t)
          BY <3>1, <4>1, <5>1, SectionsAccepted DEF SectionsMatch
        <5>3. s \in KeptSections
          BY <3>8, <5>1, MatchesIsFree
        <5> QED
          BY <3>3, <3>5, <3>8, <5>1, <5>2, <5>3 DEF SectionIsRight
      <4> QED
        BY <4>2, <4>3
    <3>10. KeptIsThere
      BY <2>2, <3>1, KeptIsFound
    <3> QED
      BY <3>3, <3>4, <3>5, <3>6, <3>7, <3>9, <3>10
  <2> QED
    BY <2>1, <2>2
<1>2. MapIsRight(map)
  BY <1>1, RightByParts
<1>3. Aged(map) = mapOf(newItemCounts)
  BY <1>1 DEF Aged, mapOf
<1> QED
  BY <1>2, <1>3

-----------------------------------------------------------------------------
(* Where the map of elements is what the counts say.                        *)
ElementMapInv ==
  /\ phase \in {"none", "applied"} =>
       elementMap = emptyElementMap \/ (countsAreValid /\ Aged(elementMap) = mapOf(itemCounts))
  /\ phase \in {"open", "changed"} =>
       /\ countsAreValid /\ itemCounts = oldItemCounts
       /\ elementMap = emptyElementMap \/ elementMap = mapOf(oldItemCounts)
  /\ phase = "changed" /\ ~includesReloadData => elementMap = mapOf(oldItemCounts)
  /\ AcceptedMapIsRight

(* The map is not changed between updates, and neither is what is right     *)
(* about it.                                                                *)
LEMMA AgedFacts ==
  /\ Aged(emptyElementMap) = emptyElementMap /\ mapOf(<<>>) = emptyElementMap
  /\ \A counts : Aged(mapOf(counts)) = mapOf(counts)
<1>1. Aged(emptyElementMap) = emptyElementMap /\ mapOf(<<>>) = emptyElementMap
  BY DEF Aged, mapOf, emptyElementMap
<1>2. ASSUME NEW counts PROVE Aged(mapOf(counts)) = mapOf(counts)
  BY DEF Aged, mapOf
<1> QED
  BY <1>1, <1>2

LEMMA RightIsKept ==
  ASSUME UNCHANGED changeVars, NEW map
  PROVE  MapIsRight(map) => MapIsRight(map)'
<1>1. /\ newItemCounts' = newItemCounts /\ oldItemCounts' = oldItemCounts /\ items' = items /\ sections' = sections
      /\ includesReloadData' = includesReloadData /\ sectionMapping' = sectionMapping
  BY DEF changeVars, mappingVars
<1>2. deletedSections' = deletedSections
  BY <1>1 DEF deletedSections
<1>3. KeptSections' = KeptSections
  BY <1>1, <1>2 DEF KeptSections
<1>4. KeptItems' = KeptItems
  BY <1>1, <1>3 DEF KeptItems
<1>5. /\ \A s, t : SectionMatches(s, t)' <=> SectionMatches(s, t)
      /\ \A q, p : ItemMatches(q, p)' <=> ItemMatches(q, p)
  BY <1>1 DEF SectionMatches, ItemMatches
<1>6. HasCounts(map) => HasCounts(map)'
  BY <1>1 DEF HasCounts
<1>7. KeptIsThere => KeptIsThere'
  BY <1>1, <1>3, <1>4, <1>5 DEF KeptIsThere
<1>8. SectionsAreKept(map) => SectionsAreKept(map)'
  BY <1>1, <1>3, <1>5 DEF SectionsAreKept
<1>9. ItemsAreKept(map) => ItemsAreKept(map)'
  BY <1>1, <1>4, <1>5 DEF ItemsAreKept
<1>10. NodesAreKept(map) => NodesAreKept(map)'
  BY <1>1, <1>5 DEF NodesAreKept
<1> QED
  BY <1>6, <1>7, <1>8, <1>9, <1>10 DEF MapIsRight

LEMMA RightElementMap ==
  ASSUME UNCHANGED changeVars, NEW map, MapIsRight(map), elementMap' = map
  PROVE  AcceptedMapIsRight'
<1>1. MapIsRight(map)'
  BY RightIsKept
<1>2. /\ HasCounts(map)' /\ KeptIsThere' /\ SectionsAreKept(map)' /\ ItemsAreKept(map)' /\ NodesAreKept(map)'
  BY <1>1 DEF MapIsRight
<1>3. HasCounts(elementMap)' /\ SectionsAreKept(elementMap)' /\ ItemsAreKept(elementMap)' /\ NodesAreKept(elementMap)'
  BY <1>2 DEF HasCounts, SectionsAreKept, ItemsAreKept, NodesAreKept
<1> QED
  BY <1>2, <1>3 DEF AcceptedMapIsRight

LEMMA ElementMapInit == ChangeSetInit => ElementMapInv
BY DEF ChangeSetInit, ElementMapInv, AcceptedMapIsRight

LEMMA ElementMapStep ==
  ASSUME ~Repeats, ~UpdatesAfterClear
  PROVE  ChangesInv /\ ElementMapInv /\ [ChangeSetNext]_changeSetVars => ElementMapInv'
<1> SUFFICES ASSUME ChangesInv, ElementMapInv, [ChangeSetNext]_changeSetVars PROVE ElementMapInv'
  OBVIOUS
<1>1. CASE beginUpdates
  <2>1. phase' = "open" /\ elementMap' = Aged(elementMap)
    BY <1>1 DEF beginUpdates
  <2>2. oldItemCounts' = itemCounts' /\ countsAreValid' /\ (countsAreValid => itemCounts' = itemCounts)
    BY <1>1 DEF beginUpdates
  <2>3. elementMap = emptyElementMap \/ (countsAreValid /\ Aged(elementMap) = mapOf(itemCounts))
    BY <1>1 DEF beginUpdates, Closed, ElementMapInv
  <2>4. elementMap' = emptyElementMap \/ elementMap' = mapOf(oldItemCounts)'
    <3>1. CASE elementMap = emptyElementMap
      BY <2>1, <3>1, AgedFacts
    <3>2. CASE countsAreValid /\ Aged(elementMap) = mapOf(itemCounts)
      BY <2>1, <2>2, <3>2
    <3> QED
      BY <2>3, <3>1, <3>2
  <2> QED
    BY <2>1, <2>2, <2>4 DEF ElementMapInv, AcceptedMapIsRight
<1>2. CASE phase = "open" /\ phase' = "open" /\ UNCHANGED <<oldItemCounts, itemCounts, countsAreValid, elementMap>>
  BY <1>2 DEF ElementMapInv, AcceptedMapIsRight
<1>3. CASE completeUnloaded
  <2>1. phase = "open" /\ phase' = "none" /\ UNCHANGED <<itemCounts, countsAreValid, elementMap>>
    BY <1>3 DEF completeUnloaded, cacheVars
  <2>2. countsAreValid /\ (elementMap = emptyElementMap \/ elementMap = mapOf(itemCounts))
    BY <2>1 DEF ElementMapInv
  <2>3. elementMap = emptyElementMap \/ Aged(elementMap) = mapOf(itemCounts)
    BY <2>2, AgedFacts
  <2> QED
    BY <2>1, <2>2, <2>3 DEF ElementMapInv, AcceptedMapIsRight
<1>4. CASE dataChanges
  <2>1. /\ phase = "open" /\ phase' = "changed"
        /\ UNCHANGED <<oldItemCounts, itemCounts, countsAreValid, includesReloadData, elementMap>>
        /\ includesReloadData \/ ~Cleared
    BY <1>4 DEF dataChanges, cacheVars
  <2>2. /\ countsAreValid /\ itemCounts = oldItemCounts
        /\ elementMap = emptyElementMap \/ elementMap = mapOf(oldItemCounts)
    BY <2>1 DEF ElementMapInv
  <2>3. ~includesReloadData => elementMap = mapOf(oldItemCounts)
    BY <2>1, <2>2, AgedFacts DEF Cleared
  <2>4. mapOf(oldItemCounts)' = mapOf(oldItemCounts)
    BY <2>1
  <2> QED
    BY <2>1, <2>2, <2>3, <2>4 DEF ElementMapInv, AcceptedMapIsRight
<1>5. CASE apply
  <2>1. /\ phase = "changed" /\ phase' = "applied" /\ itemCounts' = newItemCounts
        /\ UNCHANGED changeVars /\ countsAreValid' = countsAreValid
        /\ includesReloadData \/ UpdateIsValid
        /\ elementMap' = updatedMap(elementMap)
    BY <1>5 DEF apply, markCompleted
  <2>2. ChangeSetTypes /\ MappingsAreMade
    BY <2>1 DEF ChangesInv
  <2>3. includesReloadData \/ (Mapped /\ UpdateIsValid /\ elementMap = mapOf(oldItemCounts))
    BY <2>1, <2>2, MadeIsMapped DEF ElementMapInv
  <2>4. PICK previous, map : previous = elementMap /\ map = updatedMap(previous)
    OBVIOUS
  <2>5. MapIsRight(map) /\ Aged(map) = mapOf(newItemCounts)
    BY <2>2, <2>3, <2>4, UpdatedMapIsRight
  <2>6. elementMap' = map
    BY <2>1, <2>4
  <2>7. AcceptedMapIsRight'
    BY <2>1, <2>5, <2>6, RightElementMap
  <2>8. Aged(elementMap') = mapOf(itemCounts')
    BY <2>1, <2>5, <2>6
  <2>9. countsAreValid'
    BY <2>1 DEF ElementMapInv
  <2> QED
    BY <2>1, <2>7, <2>8, <2>9 DEF ElementMapInv
<1>6. CASE raise
  BY <1>6 DEF raise, ElementMapInv, AcceptedMapIsRight
<1>7. CASE clearData
  BY <1>7 DEF clearData, ElementMapInv, AcceptedMapIsRight
<1>8. CASE UNCHANGED changeSetVars
  <2>1. UNCHANGED <<phase, elementMap, includesReloadData, itemCounts, oldItemCounts, countsAreValid>> /\ UNCHANGED changeVars
    BY <1>8 DEF changeSetVars, changeVars, cacheVars
  <2>2. AcceptedMapIsRight'
    <3>1. PICK map : map = elementMap
      OBVIOUS
    <3>2. CASE phase = "applied"
      <4>1. MapIsRight(map)
        BY <3>1, <3>2 DEF ElementMapInv, AcceptedMapIsRight, MapIsRight
      <4> QED
        BY <2>1, <3>1, <4>1, RightElementMap
    <3>3. CASE phase # "applied"
      BY <2>1, <3>3 DEF AcceptedMapIsRight
    <3> QED
      BY <3>2, <3>3
  <2> QED
    BY <2>1, <2>2 DEF ElementMapInv
<1>9. CASE \/ reloadData
           \/ \E c \in Change, p \in Path : changeItem(c, p)
           \/ \E c \in Change, s \in Section : changeSection(c, s)
           \/ \E p, q \in Path : moveItem(p, q)
           \/ \E s, t \in Section : moveSection(s, t)
  <2>1. phase = "open" /\ phase' = "open" /\ UNCHANGED <<oldItemCounts, itemCounts, countsAreValid, elementMap>>
    BY <1>9 DEF reloadData, changeItem, changeSection, moveItem, moveSection, Open, countVars
  <2> QED
    BY <1>2, <2>1
<1> QED
  BY <1>1, <1>3, <1>4, <1>5, <1>6, <1>7, <1>8, <1>9 DEF ChangeSetNext

(* Whatever update is accepted, the map of elements then has the sections   *)
(* and the items that the data source counts, keeps every section and item  *)
(* that was neither deleted nor reloaded, at its new place and with its     *)
(* node, and has new ones elsewhere: if no item is changed twice in one way *)
(* and the application reloads after its data source was nil.               *)
THEOREM AcceptedMaps ==
  ASSUME ~Repeats, ~UpdatesAfterClear
  PROVE  ChangeSetSpec => []AcceptedMapIsRight
<1>1. ChangesInv /\ ElementMapInv /\ [ChangeSetNext]_changeSetVars => ElementMapInv'
  BY ElementMapStep
<1>2. ElementMapInv => AcceptedMapIsRight
  BY DEF ElementMapInv
<1> QED
  BY MappingsAreOfTheChanges, ElementMapInit, <1>1, <1>2, PTL DEF ChangeSetSpec
=============================================================================
