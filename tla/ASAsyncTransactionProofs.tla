------------------------ MODULE ASAsyncTransactionProofs ------------------------
(***************************************************************************)
(* Proofs about ASAsyncTransaction, for any transactions, operations,      *)
(* layers and depth of callbacks, and about ASAsyncDisplay, which draws    *)
(* through it, for any nodes in any hierarchy and any number of events.    *)
(***************************************************************************)
EXTENDS ASAsyncTransaction, ASAsyncDisplay, SequenceTheorems, TLAPS

Frame == UNION {
  [kind : {"hook"}], [kind : {"cancel"}, layer : Layer], [kind : {"commit"}, layers : SUBSET Layer],
  [kind : {"wait", "waited", "returning"}, txn : Txn],
  [kind : {"complete"}, txn : Txn, todo : Seq(Op), isCanceled : BOOLEAN]}

Outcomes == {<<>>, <<TRUE>>, <<FALSE>>}

TypeInv ==
  /\ TypeOK
  /\ operations \in [Txn -> Seq(Op)] /\ called \in [Txn -> Seq(Op)]
  /\ layerOf \in [Txn -> Layer] /\ held = [t \in Txn |-> 0]
  /\ mainQueue \in Seq(Txn) /\ stack \in Seq(Frame)
  /\ completed \in [Txn -> Outcomes]

(* The group's block is given to it by the commit of a transaction that has *)
(* operations, and dispatched once all of them have run.                    *)
GroupInv ==
  /\ \A t \in Txn : notified[t] = "none" <=> state[t] \in {"none", "open"} \/ operations[t] = <<>>
  /\ \A t \in Txn : notified[t] = "fired" => G!Settled(t)
  /\ \A i \in DOMAIN mainQueue : notified[mainQueue[i]] = "fired"
  /\ \A o \in Op : phase[o] # "idle" => operations[owner[o]] # <<>>

Finished(t) == state[t] = "complete" \/ (state[t] = "committed" /\ operations[t] = <<>>)

LifeInv ==
  /\ \A t \in Txn : state[t] = "none" => operations[t] = <<>>
  /\ \A t \in Txn : state[t] \in {"canceled", "complete"} => operations[t] # <<>>
  /\ \A t \in Txn : completed[t] # <<>> <=> Finished(t)
  /\ \A l \in Layer : transactions[l] = {t \in Txn : layerOf[t] = l /\ state[t] # "none" /\ ~Finished(t)}

Commits(i, l) == stack[i].kind = "commit" /\ l \in stack[i].layers
Cancels(i, l) == stack[i].kind = "cancel" /\ stack[i].layer = l
Completes(i, t) == stack[i].kind = "complete" /\ stack[i].txn = t

(* An open transaction is the current one of its layer and will be          *)
(* committed; a current one that is not open is being canceled.             *)
LayerInv ==
  /\ \A t \in Txn : state[t] = "open" =>
       /\ current[layerOf[t]] = t
       /\ layerOf[t] \in containers \/ \E i \in DOMAIN stack : Commits(i, layerOf[t])
  /\ \A l \in Layer : current[l] # None =>
       /\ layerOf[current[l]] = l
       /\ state[current[l]] = "open" \/ \E i \in DOMAIN stack : Cancels(i, l)

CallInv ==
  /\ \A t \in Txn : state[t] = "complete" => called[t] = operations[t]
  /\ \A t \in Txn : called[t] # <<>> => state[t] = "complete" \/ \E i \in DOMAIN stack : Completes(i, t)
  /\ \A o \in skipped : /\ phase[o] # "idle"
                        /\ state[owner[o]] = "canceled" \/ completed[owner[o]] = <<TRUE>>

(* What is true of a frame wherever it is in the stack. *)
FrameIsRight(f) ==
  /\ f.kind = "cancel" => \A t \in Txn : state[t] = "open" => layerOf[t] # f.layer
  /\ f.kind \in {"wait", "waited"} => operations[f.txn] # <<>> /\ state[f.txn] # "none"
  /\ f.kind = "waited" => G!Settled(f.txn)
  /\ f.kind = "complete" =>
       /\ state[f.txn] \in {"committed", "canceled"} /\ operations[f.txn] # <<>> /\ G!Settled(f.txn)
       /\ called[f.txn] \o f.todo = operations[f.txn]
       /\ ~f.isCanceled => \A o \in skipped : owner[o] # f.txn

FramesAreRight == \A i \in DOMAIN stack : \A f \in {stack[i]} : FrameIsRight(f)

(* What is above what: a group is not committed while one is, or while a    *)
(* layer is canceled, and a transaction is completed once at a time.        *)
MayBeAbove(f, g) ==
  /\ f.kind = "commit" => g.kind \notin {"commit", "cancel"}
  /\ f.kind \in {"wait", "waited", "complete"} /\ g.kind = "complete" => f.txn # g.txn

OrderIsRight ==
  \A i, j \in DOMAIN stack : i < j => \A f \in {stack[i]}, g \in {stack[j]} : MayBeAbove(f, g)

(* A call that can only be on top, and one that needs what is above it.     *)
MustBeTop(f) == f.kind = "wait" \/ (f.kind = "returning" /\ operations[f.txn] = <<>>)
NeedsHelp(f) ==
  \/ f.kind = "waited" /\ state[f.txn] = "open"
  \/ f.kind = "returning" /\ operations[f.txn] # <<>> /\ state[f.txn] # "complete"
Helps(f, g) ==
  \/ f.kind = "commit" /\ g.kind = "waited" /\ layerOf[g.txn] \in f.layers
  \/ f.kind = "complete" /\ g.kind = "returning" /\ f.txn = g.txn

PlacesAreRight ==
  \A i \in DOMAIN stack : \A f \in {stack[i]} :
    /\ MustBeTop(f) => i = 1
    /\ NeedsHelp(f) => \E j \in 1..(i - 1) : \E g \in {stack[j]} : Helps(g, f)

(* While a transaction that is open is waited for, nothing is committed.    *)
WaitIsRight ==
  \A j \in DOMAIN stack : stack[1].kind = "wait" /\ state[stack[1].txn] = "open" =>
                            stack[j].kind \notin {"commit", "cancel"}

StackInv == FramesAreRight /\ OrderIsRight /\ PlacesAreRight /\ WaitIsRight

IInv == TypeInv /\ GroupInv /\ LifeInv /\ LayerInv /\ CallInv /\ StackInv

-----------------------------------------------------------------------------
(* Sequences that the stack becomes: d frames go, p come.                   *)

Follows(t, p, s, d) ==
  /\ s \in Seq(Frame) /\ t \in Seq(Frame)
  /\ \A i \in DOMAIN t : i \in Nat \ {0} /\ (i > p => i - p + d \in DOMAIN s /\ t[i] = s[i - p + d])
  /\ \A i \in DOMAIN s : i \in Nat \ {0} /\ (i > d => i - d + p \in DOMAIN t /\ t[i - d + p] = s[i])
  /\ \A i \in 1..p : i \in DOMAIN t

LEMMA ConsFacts ==
  ASSUME NEW s \in Seq(Frame), NEW f \in Frame
  PROVE  /\ <<f>> \o s \in Seq(Frame) /\ Len(<<f>> \o s) = Len(s) + 1
         /\ (<<f>> \o s)[1] = f /\ \A i \in 1..Len(s) : (<<f>> \o s)[i + 1] = s[i]
<1> DEFINE t == <<f>> \o s
<1>1. <<f>> \in Seq(Frame) /\ Len(<<f>>) = 1 /\ <<f>>[1] = f /\ Len(s) \in Nat
  OBVIOUS
<1>2. /\ t \in Seq(Frame) /\ Len(t) = Len(s) + 1
      /\ \A i \in 1..(Len(s) + 1) : t[i] = IF i <= 1 THEN <<f>>[i] ELSE s[i - 1]
  BY <1>1, ConcatProperties
<1> HIDE DEF t
<1>3. t[1] = f /\ \A i \in 1..Len(s) : t[i + 1] = s[i]
  BY <1>1, <1>2
<1> QED
  BY <1>2, <1>3 DEF t

LEMMA TailFacts ==
  ASSUME NEW s \in Seq(Frame), s # <<>>
  PROVE  /\ Tail(s) \in Seq(Frame) /\ Len(s) = Len(Tail(s)) + 1
         /\ \A i \in 1..Len(Tail(s)) : Tail(s)[i] = s[i + 1]
         /\ Head(s) = s[1] /\ s[1] \in Frame /\ 1 \in DOMAIN s
BY HeadTailProperties, EmptySeq, LenProperties

(* From an equation in one direction to both that proofs need. *)
LEMMA FollowsIf ==
  ASSUME NEW s \in Seq(Frame), NEW t \in Seq(Frame), NEW p \in Nat, NEW d \in Nat, NEW n \in Nat,
         Len(s) = n + d, Len(t) = n + p, \A i \in 1..n : t[i + p] = s[i + d]
  PROVE  Follows(t, p, s, d)
<1>1. DOMAIN s = 1..(n + d) /\ DOMAIN t = 1..(n + p)
  BY LenProperties
<1>2. ASSUME NEW i \in DOMAIN t, i > p PROVE i - p + d \in DOMAIN s /\ t[i] = s[i - p + d]
  <2>1. i - p \in 1..n /\ (i - p) + p = i
    BY <1>1, <1>2
  <2>2. t[(i - p) + p] = s[(i - p) + d]
    BY <2>1
  <2> QED
    BY <1>1, <2>1, <2>2
<1>3. ASSUME NEW i \in DOMAIN s, i > d PROVE i - d + p \in DOMAIN t /\ t[i - d + p] = s[i]
  <2>1. i - d \in 1..n /\ (i - d) + d = i
    BY <1>1, <1>3
  <2>2. t[(i - d) + p] = s[(i - d) + d]
    BY <2>1
  <2> QED
    BY <1>1, <2>1, <2>2
<1> QED
  BY <1>1, <1>2, <1>3 DEF Follows

(* The shapes of stack' in the module. *)
LEMMA PushFollows ==
  ASSUME NEW s \in Seq(Frame), NEW f \in Frame
  PROVE  Follows(<<f>> \o s, 1, s, 0) /\ (<<f>> \o s)[1] = f
<1> DEFINE t == <<f>> \o s
           n == Len(s)
<1>1. /\ t \in Seq(Frame) /\ n \in Nat /\ Len(t) = n + 1 /\ Len(s) = n + 0
      /\ t[1] = f /\ \A i \in 1..n : t[i + 1] = s[i + 0]
  BY ConsFacts, LenProperties
<1> HIDE DEF t, n
<1>2. Follows(t, 1, s, 0)
  BY <1>1, FollowsIf
<1> QED
  BY <1>1, <1>2 DEF t

LEMMA PopFollows ==
  ASSUME NEW s \in Seq(Frame), s # <<>>
  PROVE  Follows(Tail(s), 0, s, 1)
<1> DEFINE t == Tail(s)
           n == Len(t)
<1>1. /\ t \in Seq(Frame) /\ n \in Nat /\ Len(t) = n + 0 /\ Len(s) = n + 1
      /\ \A i \in 1..n : t[i + 0] = s[i + 1]
  BY TailFacts, LenProperties
<1> HIDE DEF t, n
<1>2. Follows(t, 0, s, 1)
  BY <1>1, FollowsIf
<1> QED
  BY <1>2 DEF t

LEMMA Push2Follows ==
  ASSUME NEW s \in Seq(Frame), NEW f \in Frame, NEW g \in Frame
  PROVE  /\ Follows(<<f>> \o (<<g>> \o s), 2, s, 0)
         /\ (<<f>> \o (<<g>> \o s))[1] = f /\ (<<f>> \o (<<g>> \o s))[2] = g
<1> DEFINE t == <<g>> \o s
           u == <<f>> \o t
           n == Len(s)
<1>1. t \in Seq(Frame) /\ n \in Nat /\ Len(t) = n + 1 /\ t[1] = g /\ \A i \in 1..n : t[i + 1] = s[i]
  BY ConsFacts, LenProperties
<1> HIDE DEF t
<1>2. u \in Seq(Frame) /\ Len(u) = Len(t) + 1 /\ u[1] = f /\ \A i \in 1..Len(t) : u[i + 1] = t[i]
  BY <1>1, ConsFacts
<1> HIDE DEF u
<1>3. Len(s) = n + 0
  BY <1>1
<1> HIDE DEF n
<1>4. u[2] = g /\ Len(u) = n + 2
  BY <1>1, <1>2
<1>5. \A i \in 1..n : u[i + 2] = s[i + 0]
  <2>1. TAKE i \in 1..n
  <2>2. i + 1 \in 1..Len(t) /\ (i + 1) + 1 = i + 2 /\ i + 0 = i
    BY <1>1
  <2>3. u[(i + 1) + 1] = t[i + 1]
    BY <1>2, <2>2
  <2> QED
    BY <1>1, <2>2, <2>3
<1>6. Follows(u, 2, s, 0)
  BY <1>1, <1>2, <1>3, <1>4, <1>5, FollowsIf
<1> QED
  BY <1>2, <1>4, <1>6 DEF t, u

LEMMA ReplaceFollows ==
  ASSUME NEW s \in Seq(Frame), s # <<>>, NEW f \in Frame
  PROVE  Follows(<<f>> \o Tail(s), 1, s, 1) /\ (<<f>> \o Tail(s))[1] = f
<1> DEFINE r == Tail(s)
           t == <<f>> \o r
           n == Len(r)
<1>1. r \in Seq(Frame) /\ n \in Nat /\ Len(s) = n + 1 /\ \A i \in 1..n : r[i] = s[i + 1]
  BY TailFacts, LenProperties
<1> HIDE DEF r
<1>2. t \in Seq(Frame) /\ Len(t) = n + 1 /\ t[1] = f /\ \A i \in 1..n : t[i + 1] = r[i]
  BY <1>1, ConsFacts
<1> HIDE DEF t, n
<1>3. Follows(t, 1, s, 1)
  BY <1>1, <1>2, FollowsIf
<1> QED
  BY <1>2, <1>3 DEF t, r

LEMMA Replace2Follows ==
  ASSUME NEW s \in Seq(Frame), s # <<>>, NEW f \in Frame, NEW g \in Frame
  PROVE  /\ Follows(<<f>> \o (<<g>> \o Tail(s)), 2, s, 1)
         /\ (<<f>> \o (<<g>> \o Tail(s)))[1] = f /\ (<<f>> \o (<<g>> \o Tail(s)))[2] = g
<1> DEFINE r == Tail(s)
           t == <<g>> \o r
           u == <<f>> \o t
           n == Len(r)
<1>1. r \in Seq(Frame) /\ n \in Nat /\ Len(s) = n + 1 /\ \A i \in 1..n : r[i] = s[i + 1]
  BY TailFacts, LenProperties
<1> HIDE DEF r
<1>2. t \in Seq(Frame) /\ Len(t) = n + 1 /\ t[1] = g /\ \A i \in 1..n : t[i + 1] = r[i]
  BY <1>1, ConsFacts
<1> HIDE DEF t
<1>3. u \in Seq(Frame) /\ Len(u) = Len(t) + 1 /\ u[1] = f /\ \A i \in 1..Len(t) : u[i + 1] = t[i]
  BY <1>2, ConsFacts
<1> HIDE DEF u, n
<1>4. u[2] = g /\ Len(u) = n + 2
  BY <1>1, <1>2, <1>3
<1>5. \A i \in 1..n : u[i + 2] = s[i + 1]
  <2>1. TAKE i \in 1..n
  <2>2. i + 1 \in 1..Len(t) /\ (i + 1) + 1 = i + 2
    BY <1>1, <1>2
  <2>3. u[(i + 1) + 1] = t[i + 1]
    BY <1>3, <2>2
  <2> QED
    BY <1>1, <1>2, <2>2, <2>3
<1>6. Follows(u, 2, s, 1)
  BY <1>1, <1>3, <1>4, <1>5, FollowsIf
<1> QED
  BY <1>3, <1>4, <1>6 DEF r, t, u

-----------------------------------------------------------------------------
(* What a change of the stack must respect.                                 *)

Rest(d) == {stack[i] : i \in {j \in DOMAIN stack : j > d}}

FrameStays(f) ==
  /\ FrameIsRight(f) => FrameIsRight(f)'
  /\ NeedsHelp(f)' => NeedsHelp(f)
  /\ MustBeTop(f)' => MustBeTop(f)

LEMMA StackStep ==
  ASSUME FramesAreRight, OrderIsRight, PlacesAreRight, UNCHANGED layerOf,
         NEW p \in Nat, NEW d \in {0, 1}, Follows(stack', p, stack, d),
         \A f \in Rest(d) : FrameStays(f),
         \A i \in 1..p : \A f \in {stack'[i]} :
            /\ FrameIsRight(f)'
            /\ MustBeTop(f)' => i = 1
            /\ NeedsHelp(f)' => \E j \in 1..(i - 1) : \E g \in {stack'[j]} : Helps(g, f)'
            /\ \A j \in DOMAIN stack' : i < j => \A g \in {stack'[j]} : MayBeAbove(f, g),
         d = 0 /\ p > 0 /\ 1 \in DOMAIN stack => \A f \in {stack[1]} : ~MustBeTop(f),
         d = 1 => \A f \in Rest(1) : \A g \in {stack[1]} : Helps(g, f) /\ NeedsHelp(f)' =>
                    \E i \in 1..p : \E h \in {stack'[i]} : Helps(h, f)'
  PROVE  FramesAreRight' /\ OrderIsRight' /\ PlacesAreRight'
<1> DEFINE old(i) == i - p + d
<1>1. ASSUME NEW i \in DOMAIN stack', i > p
      PROVE  /\ i \in Nat /\ old(i) \in Nat /\ old(i) \in DOMAIN stack /\ old(i) > d
             /\ stack'[i] = stack[old(i)] /\ stack'[i] \in Rest(d)
  BY <1>1 DEF Follows, Rest
<1>2. ASSUME NEW j \in DOMAIN stack, j > d
      PROVE  j \in Nat /\ j - d + p \in DOMAIN stack' /\ j - d + p > p /\ stack'[j - d + p] = stack[j]
  BY <1>2 DEF Follows
<1>3. \A i \in DOMAIN stack' : i \in Nat /\ i > 0
  BY DEF Follows
<1> HIDE DEF old
<1>4. FramesAreRight'
  <2>1. SUFFICES ASSUME NEW i \in DOMAIN stack', NEW f \in {stack'[i]} PROVE FrameIsRight(f)'
    BY DEF FramesAreRight
  <2>2. CASE i <= p
    BY <1>3, <2>2
  <2>3. CASE i > p
    BY <1>1, <2>3 DEF FramesAreRight, FrameStays
  <2> QED
    BY <1>3, <2>2, <2>3
<1>5. OrderIsRight'
  <2>1. SUFFICES ASSUME NEW i \in DOMAIN stack', NEW j \in DOMAIN stack', i < j,
                        NEW f \in {stack'[i]}, NEW g \in {stack'[j]}
                 PROVE  MayBeAbove(f, g)
    BY DEF OrderIsRight, MayBeAbove
  <2>2. CASE i <= p
    BY <1>3, <2>1, <2>2
  <2>3. CASE i > p
    <3>1. old(i) < old(j)
      BY <1>1, <1>3, <2>1, <2>3 DEF old
    <3>2. /\ old(i) \in DOMAIN stack /\ f \in {stack[old(i)]}
          /\ old(j) \in DOMAIN stack /\ g \in {stack[old(j)]}
      BY <1>1, <1>3, <2>1, <2>3
    <3> QED
      BY <3>1, <3>2 DEF OrderIsRight
  <2> QED
    BY <1>3, <2>2, <2>3
<1>6. PlacesAreRight'
  <2>1. SUFFICES ASSUME NEW i \in DOMAIN stack', NEW f \in {stack'[i]}
                 PROVE  /\ MustBeTop(f)' => i = 1
                        /\ NeedsHelp(f)' => \E j \in 1..(i - 1) : \E g \in {stack'[j]} : Helps(g, f)'
    BY DEF PlacesAreRight
  <2>2. CASE i <= p
    BY <1>3, <2>2
  <2>3. CASE i > p
    <3>1. /\ i \in Nat /\ old(i) \in Nat /\ old(i) \in DOMAIN stack /\ old(i) > d
          /\ f \in {stack[old(i)]} /\ f \in Rest(d)
      BY <1>1, <2>3
    <3>2. (NeedsHelp(f)' => NeedsHelp(f)) /\ (MustBeTop(f)' => MustBeTop(f))
      BY <3>1 DEF FrameStays
    <3>3. /\ MustBeTop(f) => old(i) = 1
          /\ NeedsHelp(f) => \E j \in 1..(old(i) - 1) : \E g \in {stack[j]} : Helps(g, f)
      BY <3>1 DEF PlacesAreRight
    <3>4. MustBeTop(f)' => i = 1
      BY <3>1, <3>2, <3>3, <2>3 DEF old
    <3>5. ASSUME NeedsHelp(f)' PROVE \E j \in 1..(i - 1) : \E g \in {stack'[j]} : Helps(g, f)'
      <4>1. PICK j \in 1..(old(i) - 1) : \E g \in {stack[j]} : Helps(g, f)
        BY <3>2, <3>3, <3>5
      <4>2. j \in DOMAIN stack /\ j \in Nat
        BY <3>1 DEF Follows
      <4>3. CASE j > d
        <5>1. j - d + p \in DOMAIN stack' /\ stack'[j - d + p] = stack[j] /\ j - d + p \in 1..(i - 1)
          BY <1>2, <3>1, <4>2, <4>3 DEF old
        <5> QED
          BY <4>1, <5>1 DEF Helps
      <4>4. CASE j <= d
        <5>1. d = 1 /\ j = 1 /\ f \in Rest(1)
          BY <3>1, <4>4
        <5>2. PICK k \in 1..p : \E h \in {stack'[k]} : Helps(h, f)'
          BY <3>5, <4>1, <5>1
        <5>3. k \in 1..(i - 1)
          BY <2>3, <3>1
        <5> QED
          BY <5>2, <5>3
      <4> QED
        BY <4>2, <4>3, <4>4
    <3> QED
      BY <3>4, <3>5
  <2> QED
    BY <1>3, <2>2, <2>3
<1> QED
  BY <1>4, <1>5, <1>6

LEMMA TopFacts ==
  ASSUME TypeInv, NEW kind, TopIs(kind)
  PROVE  /\ stack \in Seq(Frame) /\ stack # <<>> /\ 1 \in DOMAIN stack
         /\ Top = stack[1] /\ Top \in Frame /\ Top.kind = kind
BY TailFacts DEF TypeInv, TopIs, Top

LEMMA NotWaiting ==
  ASSUME PlacesAreRight, NEW p \in Nat, NEW d \in {0, 1}, Follows(stack', p, stack, d),
         p > 0 \/ d = 1 \/ stack = <<>>, p > 0 => stack'[1].kind # "wait"
  PROVE  WaitIsRight'
<1>1. SUFFICES ASSUME 1 \in DOMAIN stack', stack'[1].kind = "wait" PROVE FALSE
  <2>1. ASSUME NEW j \in DOMAIN stack' PROVE 1 \in DOMAIN stack'
    BY <2>1, LenProperties DEF Follows
  <2> QED
    BY <2>1 DEF WaitIsRight
<1>2. p = 0
  BY <1>1
<1>3. 1 - p + d \in DOMAIN stack /\ stack'[1] = stack[1 - p + d]
  BY <1>1, <1>2 DEF Follows
<1>4. stack # <<>>
  BY <1>3
<1>5. 2 \in DOMAIN stack /\ stack[2].kind = "wait"
  BY <1>1, <1>2, <1>3, <1>4
<1> DEFINE f == stack[2]
<1>6. f.kind = "wait"
  BY <1>5
<1> HIDE DEF f
<1>7. MustBeTop(f)
  BY <1>6 DEF MustBeTop
<1>8. f \in {stack[2]}
  BY DEF f
<1> QED
  BY <1>5, <1>7, <1>8 DEF PlacesAreRight

(* Frames that are not popped are still there. *)
LEMMA RestRemains ==
  ASSUME NEW p \in Nat, NEW d \in {0, 1}, Follows(stack', p, stack, d),
         NEW i \in DOMAIN stack, i > d
  PROVE  /\ \E j \in DOMAIN stack' : stack'[j] = stack[i]
         /\ stack[i] \in Rest(d)
BY DEF Follows, Rest

LEMMA SameDataStays ==
  ASSUME UNCHANGED <<groupVars, skipped, state, operations, layerOf, called>>, NEW f
  PROVE  FrameStays(f)
BY DEF FrameStays, FrameIsRight, NeedsHelp, MustBeTop, groupVars, G!Settled

(* A step of the main thread that changes nothing but its stack, what the   *)
(* group has to commit and what the main queue has to complete.             *)
LEMMA CallStep ==
  ASSUME IInv,
         UNCHANGED <<groupVars, skipped, state, operations, current, transactions, layerOf, historyVars>>,
         mainQueue' \in Seq(Txn), \A i \in DOMAIN mainQueue' : notified[mainQueue'[i]] = "fired",
         containers' \subseteq Layer,
         NEW p \in Nat, NEW d \in {0, 1}, Follows(stack', p, stack, d), WaitIsRight',
         \A i \in 1..p : \A f \in {stack'[i]} :
            /\ FrameIsRight(f)
            /\ MustBeTop(f) => i = 1
            /\ NeedsHelp(f) => \E j \in 1..(i - 1) : \E g \in {stack'[j]} : Helps(g, f)
            /\ \A j \in DOMAIN stack' : i < j => \A g \in {stack'[j]} : MayBeAbove(f, g),
         d = 0 /\ p > 0 /\ 1 \in DOMAIN stack => \A f \in {stack[1]} : ~MustBeTop(f),
         d = 1 => stack[1].kind \notin {"commit", "cancel", "complete"},
         \A l \in containers \ containers' : \E i \in 1..p : Commits(i, l)'
  PROVE  IInv'
<1>1. \A f : FrameStays(f)
  BY SameDataStays DEF historyVars
<1>2. StackInv'
  <2>1. \A i \in 1..p : \A f \in {stack'[i]} :
            /\ FrameIsRight(f)'
            /\ MustBeTop(f)' => i = 1
            /\ NeedsHelp(f)' => \E j \in 1..(i - 1) : \E g \in {stack'[j]} : Helps(g, f)'
            /\ \A j \in DOMAIN stack' : i < j => \A g \in {stack'[j]} : MayBeAbove(f, g)
    <3>1. \A f, g : Helps(g, f) => Helps(g, f)'
      BY DEF Helps
    <3>2. \A f : /\ FrameIsRight(f) => FrameIsRight(f)'
                 /\ NeedsHelp(f)' => NeedsHelp(f)
                 /\ MustBeTop(f)' => MustBeTop(f)
      BY <1>1 DEF FrameStays
    <3>3. TAKE i \in 1..p
    <3>4. TAKE f \in {stack'[i]}
    <3>5. /\ FrameIsRight(f)
          /\ MustBeTop(f) => i = 1
          /\ NeedsHelp(f) => \E j \in 1..(i - 1) : \E g \in {stack'[j]} : Helps(g, f)
          /\ \A j \in DOMAIN stack' : i < j => \A g \in {stack'[j]} : MayBeAbove(f, g)
      OBVIOUS
    <3> HIDE DEF FrameStays
    <3>6. NeedsHelp(f)' => \E j \in 1..(i - 1) : \E g \in {stack'[j]} : Helps(g, f)'
      BY <3>1, <3>2, <3>5
    <3> QED
      BY <3>2, <3>5, <3>6
  <2>2. d = 1 => \A f \in Rest(1) : \A g \in {stack[1]} : ~Helps(g, f)
    BY DEF Helps
  <2>3. FramesAreRight' /\ OrderIsRight' /\ PlacesAreRight'
    BY <1>1, <2>1, <2>2, StackStep DEF IInv, StackInv
  <2> QED
    BY <2>3 DEF StackInv
<1>3. TypeInv'
  BY DEF IInv, TypeInv, TypeOK, groupVars, historyVars, Follows
<1>4. GroupInv' /\ LifeInv'
  <2>1. GroupInv'
    BY DEF IInv, GroupInv, groupVars, historyVars, G!Settled
  <2>2. LifeInv'
    BY DEF IInv, LifeInv, Finished, groupVars, historyVars
  <2> QED
    BY <2>1, <2>2
<1>5. \A i \in DOMAIN stack : stack[i].kind \in {"commit", "cancel", "complete"} =>
        \E j \in DOMAIN stack' : stack'[j] = stack[i]
  <2>1. TAKE i \in DOMAIN stack
  <2>2. HAVE stack[i].kind \in {"commit", "cancel", "complete"}
  <2>3. i > d
    BY <2>2 DEF Follows
  <2> QED
    BY <2>3, RestRemains
<1>6. LayerInv'
  <2>1. ASSUME NEW t \in Txn, state[t] = "open"
        PROVE  layerOf[t] \in containers' \/ \E i \in DOMAIN stack' : Commits(i, layerOf[t])'
    <3>1. CASE layerOf[t] \in containers
      BY <3>1 DEF Follows, Commits
    <3>2. CASE \E i \in DOMAIN stack : Commits(i, layerOf[t])
      BY <1>5, <3>2 DEF Commits
    <3> QED
      BY <2>1, <3>1, <3>2 DEF IInv, LayerInv
  <2>2. ASSUME NEW l \in Layer, \E i \in DOMAIN stack : Cancels(i, l)
        PROVE  \E i \in DOMAIN stack' : Cancels(i, l)'
    BY <1>5, <2>2 DEF Cancels
  <2> QED
    BY <2>1, <2>2 DEF IInv, LayerInv, Commits, Cancels
<1>7. CallInv'
  <2>1. ASSUME NEW t \in Txn, \E i \in DOMAIN stack : Completes(i, t)
        PROVE  \E i \in DOMAIN stack' : Completes(i, t)'
    BY <1>5, <2>1 DEF Completes
  <2> QED
    BY <2>1 DEF IInv, CallInv, groupVars, historyVars, Completes
<1> QED
  BY <1>2, <1>3, <1>4, <1>6, <1>7 DEF IInv

(* What completing a transaction starts from.                               *)
LEMMA CompletingIsRight ==
  ASSUME IInv, NEW t \in Txn, state[t] \in {"committed", "canceled"}, operations[t] # <<>>,
         G!Settled(t), \A i \in DOMAIN stack : ~Completes(i, t)
  PROVE  LET f == Completing(t)
         IN  /\ f \in Frame /\ f.kind = "complete" /\ f.txn = t
             /\ FrameIsRight(f) /\ ~MustBeTop(f) /\ ~NeedsHelp(f)
<1> DEFINE f == Completing(t)
<1>1. /\ f.kind = "complete" /\ f.txn = t /\ f.todo = operations[t]
      /\ f.isCanceled = (state[t] = "canceled")
  BY DEF Completing
<1>2. operations[t] \in Seq(Op) /\ called[t] = <<>>
  BY DEF IInv, TypeInv, CallInv
<1>3. f \in Frame
  BY <1>2 DEF Completing, Frame
<1>4. called[t] \o f.todo = operations[t]
  BY <1>1, <1>2, ConcatEmptySeq
<1>5. ASSUME NEW o \in skipped, owner[o] = t, state[t] # "canceled" PROVE FALSE
  <2>1. completed[t] = <<TRUE>> /\ t \in Txn
    BY <1>5 DEF IInv, CallInv
  <2>2. completed[t] # <<>>
    BY <2>1
  <2> QED
    BY <2>2 DEF IInv, LifeInv, Finished
<1> HIDE DEF f
<1>6. FrameIsRight(f) /\ ~MustBeTop(f) /\ ~NeedsHelp(f)
  BY <1>1, <1>4, <1>5 DEF FrameIsRight, MustBeTop, NeedsHelp
<1> QED
  BY <1>1, <1>3, <1>6 DEF f

LEMMA ReturnStep ==
  ASSUME IInv, returnFromWait \/ returnFromHook
  PROVE  IInv'
<1>1. /\ stack' = Tail(stack) /\ (TopIs("returning") \/ TopIs("hook"))
      /\ UNCHANGED <<groupVars, skipped, state, operations, layerVars, mainQueue, historyVars>>
  BY DEF returnFromWait, returnFromHook
<1>2. stack \in Seq(Frame) /\ stack # <<>> /\ stack[1].kind \notin {"commit", "cancel", "complete"}
      /\ stack' = Tail(stack)
  BY <1>1, TopFacts DEF IInv, returnFromWait, returnFromHook
<1>3. Follows(stack', 0, stack, 1)
  BY <1>2, PopFollows
<1>4. WaitIsRight'
  BY <1>3, NotWaiting DEF IInv, StackInv
<1>5. mainQueue' \in Seq(Txn) /\ (\A i \in DOMAIN mainQueue' : notified[mainQueue'[i]] = "fired")
      /\ containers' \subseteq Layer /\ containers \ containers' = {}
  BY <1>1 DEF layerVars, IInv, TypeInv, TypeOK, GroupInv
<1> QED
  BY <1>1, <1>2, <1>3, <1>4, <1>5, CallStep DEF layerVars

LEMMA NestFacts ==
  ASSUME TypeInv, InApplication
  PROVE  1 \in DOMAIN stack => \A f \in {stack[1]} : f.kind \in {"hook", "complete"} /\ ~MustBeTop(f)
BY TailFacts DEF InApplication, TopIs, Top, TypeInv, MustBeTop

LEMMA waitUntilCompleteStep ==
  ASSUME ~HookReenters, IInv, NEW t \in Txn, waitUntilComplete(t)
  PROVE  IInv'
<1>1. t \in Txn /\ state[t] # "none" /\ state[t] # "complete" /\ stack \in Seq(Frame)
  <2>1. layerOf[t] \in Layer /\ t \in transactions[layerOf[t]]
    BY DEF IInv, TypeInv, waitUntilComplete
  <2> QED
    BY <2>1 DEF IInv, TypeInv, LifeInv, Finished
<1> DEFINE f == [kind |-> IF state[t] # "complete" /\ operations[t] # <<>> THEN "wait" ELSE "returning",
                 txn |-> t]
<1>2. /\ f \in Frame /\ f.txn = t
      /\ f.kind = IF operations[t] # <<>> THEN "wait" ELSE "returning"
  BY <1>1 DEF Frame
<1>3. /\ stack' = <<f>> \o stack
      /\ UNCHANGED <<groupVars, skipped, state, operations, layerVars, mainQueue, historyVars>>
      /\ InApplication /\ MayWait(t)
      /\ \A i \in DOMAIN stack : stack[i].kind = "complete" => stack[i].txn # t
  BY DEF waitUntilComplete, MayNest
<1> HIDE DEF f
<1>4. Follows(stack', 1, stack, 0) /\ stack'[1] = f
  BY <1>1, <1>2, <1>3, PushFollows
<1>5. \A j \in DOMAIN stack' : j > 1 => j - 1 \in DOMAIN stack /\ stack'[j] = stack[j - 1]
  BY <1>4 DEF Follows
<1>6. /\ FrameIsRight(f) /\ ~NeedsHelp(f)
      /\ \A j \in DOMAIN stack' : 1 < j => \A g \in {stack'[j]} : MayBeAbove(f, g)
  BY <1>1, <1>2, <1>3, <1>5 DEF FrameIsRight, NeedsHelp, MayBeAbove
<1>7. WaitIsRight'
  <2>1. SUFFICES ASSUME NEW j \in DOMAIN stack', state[t] = "open", f.kind = "wait"
                 PROVE  stack'[j].kind \notin {"commit", "cancel"}
    BY <1>2, <1>3, <1>4 DEF WaitIsRight
  <2>2. CASE j = 1
    BY <1>4, <2>1, <2>2
  <2>3. CASE j > 1
    <3>1. \A i \in DOMAIN stack : stack[i].kind \notin {"cancel", "commit"}
      BY <1>3, <2>1 DEF MayWait
    <3> QED
      BY <1>5, <2>3, <3>1
  <2> QED
    BY <1>4, <2>2, <2>3 DEF Follows
<1>8. mainQueue' \in Seq(Txn) /\ (\A i \in DOMAIN mainQueue' : notified[mainQueue'[i]] = "fired")
      /\ containers' \subseteq Layer /\ containers \ containers' = {}
  BY <1>3 DEF layerVars, IInv, TypeInv, TypeOK, GroupInv
<1>9. 1 \in DOMAIN stack => \A g \in {stack[1]} : ~MustBeTop(g)
  BY <1>3, NestFacts DEF IInv
<1>10. \A i \in 1..1 : \A g \in {stack'[i]} :
            /\ FrameIsRight(g)
            /\ MustBeTop(g) => i = 1
            /\ NeedsHelp(g) => \E j \in 1..(i - 1) : \E h \in {stack'[j]} : Helps(h, g)
            /\ \A j \in DOMAIN stack' : i < j => \A h \in {stack'[j]} : MayBeAbove(g, h)
  BY <1>4, <1>6
<1> QED
  BY <1>3, <1>4, <1>7, <1>8, <1>9, <1>10, CallStep DEF layerVars

LEMMA stopWaitingStep ==
  ASSUME IInv, stopWaiting
  PROVE  IInv'
<1> DEFINE t == Top.txn
           f == [kind |-> "waited", txn |-> t]
           c == [kind |-> "commit", layers |-> containers]
<1>1. /\ stack \in Seq(Frame) /\ stack # <<>> /\ 1 \in DOMAIN stack
      /\ stack[1] \in Frame /\ stack[1].kind = "wait" /\ stack[1].txn = t /\ Top = stack[1]
  BY TopFacts DEF IInv, stopWaiting
<1>2. /\ UNCHANGED <<groupVars, skipped, state, operations, current, transactions, layerOf,
                     mainQueue, historyVars>>
      /\ G!Settled(t)
      /\ IF state[t] = "open"
         THEN containers' = {} /\ stack' = IF containers = {} THEN <<f>> \o Tail(stack)
                                           ELSE <<c>> \o (<<f>> \o Tail(stack))
         ELSE stack' = <<f>> \o Tail(stack) /\ UNCHANGED containers
  BY DEF stopWaiting, commitContainers
<1>3. t \in Txn /\ f \in Frame /\ f.kind = "waited" /\ f.txn = t
  BY <1>1 DEF Frame
<1>4. c \in Frame /\ c.kind = "commit" /\ c.layers = containers
  BY DEF Frame, IInv, TypeInv, TypeOK
<1> HIDE DEF f, c
<1>5. FrameIsRight(f) /\ ~MustBeTop(f) /\ (NeedsHelp(f) => state[t] = "open")
  <2>1. operations[t] # <<>> /\ state[t] # "none"
    <3>1. \A g \in {stack[1]} : FrameIsRight(g)
      BY <1>1 DEF IInv, StackInv, FramesAreRight
    <3> QED
      BY <1>1, <3>1 DEF FrameIsRight
  <2> QED
    BY <1>2, <1>3, <2>1 DEF FrameIsRight, MustBeTop, NeedsHelp
<1>6. FrameIsRight(c) /\ ~MustBeTop(c) /\ ~NeedsHelp(c)
  BY <1>4 DEF FrameIsRight, MustBeTop, NeedsHelp
<1>7. \A j \in DOMAIN stack : 1 < j => \A g \in {stack[j]} : MayBeAbove(f, g)
  <2>1. TAKE j \in DOMAIN stack
  <2>2. HAVE 1 < j
  <2>3. \A h \in {stack[1]}, g \in {stack[j]} : MayBeAbove(h, g)
    BY <1>1, <2>2 DEF IInv, StackInv, OrderIsRight
  <2> QED
    BY <1>1, <1>3, <2>3 DEF MayBeAbove
<1>8. mainQueue' \in Seq(Txn) /\ (\A i \in DOMAIN mainQueue' : notified[mainQueue'[i]] = "fired")
      /\ containers' \subseteq Layer
  BY <1>2 DEF IInv, TypeInv, TypeOK, GroupInv
<1>9. ASSUME state[t] # "open" PROVE IInv'
  <2>1. stack' = <<f>> \o Tail(stack) /\ UNCHANGED containers
    BY <1>2, <1>9
  <2>2. Follows(stack', 1, stack, 1) /\ stack'[1] = f
    BY <1>1, <1>3, <2>1, ReplaceFollows
  <2>3. \A j \in DOMAIN stack' : 1 < j => \A g \in {stack'[j]} : MayBeAbove(f, g)
    <3>1. \A j \in DOMAIN stack' : 1 < j => j - 1 + 1 \in DOMAIN stack /\ stack'[j] = stack[j - 1 + 1] /\ j - 1 + 1 = j
      BY <2>2 DEF Follows
    <3> QED
      BY <1>7, <3>1
  <2>4. \A i \in 1..1 : \A g \in {stack'[i]} :
            /\ FrameIsRight(g)
            /\ MustBeTop(g) => i = 1
            /\ NeedsHelp(g) => \E j \in 1..(i - 1) : \E h \in {stack'[j]} : Helps(h, g)
            /\ \A j \in DOMAIN stack' : i < j => \A h \in {stack'[j]} : MayBeAbove(g, h)
    BY <1>5, <1>9, <2>2, <2>3
  <2>5. WaitIsRight'
    BY <1>3, <2>2, NotWaiting DEF IInv, StackInv
  <2>6. containers \ containers' = {}
    BY <2>1
  <2> QED
    BY <1>1, <1>2, <1>8, <2>2, <2>4, <2>5, <2>6, CallStep
<1>10. ASSUME state[t] = "open" PROVE IInv'
  <2>1. \A j \in DOMAIN stack : stack[j].kind \notin {"commit", "cancel"}
    BY <1>1, <1>10 DEF IInv, StackInv, WaitIsRight
  <2>2. layerOf[t] \in containers
    BY <1>3, <1>10, <2>1 DEF IInv, LayerInv, Commits
  <2>3. containers' = {} /\ stack' = <<c>> \o (<<f>> \o Tail(stack))
    BY <1>2, <1>10, <2>2
  <2>4. Follows(stack', 2, stack, 1) /\ stack'[1] = c /\ stack'[2] = f
    BY <1>1, <1>3, <1>4, <2>3, Replace2Follows
  <2>5. /\ \A j \in DOMAIN stack' : 2 < j => j - 1 \in DOMAIN stack /\ stack'[j] = stack[j - 1] /\ 1 < j - 1
        /\ \A j \in DOMAIN stack' : j \in Nat
    BY <2>4 DEF Follows
  <2>6. \A j \in DOMAIN stack' : 1 < j => \A g \in {stack'[j]} : MayBeAbove(c, g)
    <3>1. TAKE j \in DOMAIN stack'
    <3>2. HAVE 1 < j
    <3>3. j = 2 \/ 2 < j
      BY <2>5, <3>2
    <3>4. stack'[j].kind \notin {"commit", "cancel"}
      BY <1>3, <2>1, <2>4, <2>5, <3>3
    <3> QED
      BY <1>4, <3>4 DEF MayBeAbove
  <2>7. \A j \in DOMAIN stack' : 2 < j => \A g \in {stack'[j]} : MayBeAbove(f, g)
    BY <1>7, <2>5
  <2>8. Helps(c, f)
    BY <1>3, <1>4, <2>2 DEF Helps
  <2>9. ASSUME NEW i \in 1..2, NEW g \in {stack'[i]}
        PROVE  /\ FrameIsRight(g)
               /\ MustBeTop(g) => i = 1
               /\ NeedsHelp(g) => \E j \in 1..(i - 1) : \E h \in {stack'[j]} : Helps(h, g)
               /\ \A j \in DOMAIN stack' : i < j => \A h \in {stack'[j]} : MayBeAbove(g, h)
    <3>1. CASE i = 1
      BY <1>6, <2>4, <2>6, <3>1
    <3>2. CASE i = 2
      BY <1>5, <2>4, <2>7, <2>8, <3>2
    <3> QED
      BY <3>1, <3>2
  <2>10. WaitIsRight'
    BY <1>4, <2>4, NotWaiting DEF IInv, StackInv
  <2>11. \A l \in containers \ containers' : \E i \in 1..2 : Commits(i, l)'
    BY <1>4, <2>4 DEF Commits
  <2> QED
    BY <1>1, <1>2, <1>8, <2>4, <2>9, <2>10, <2>11, CallStep
<1> QED
  BY <1>9, <1>10

LEMMA completeAfterWaitStep ==
  ASSUME IInv, completeAfterWait
  PROVE  IInv'
<1> DEFINE t == Top.txn
           r == [kind |-> "returning", txn |-> t]
           c == Completing(t)
<1>1. /\ stack \in Seq(Frame) /\ stack # <<>> /\ 1 \in DOMAIN stack
      /\ stack[1] \in Frame /\ stack[1].kind = "waited" /\ stack[1].txn = t /\ Top = stack[1]
  BY TopFacts DEF IInv, completeAfterWait
<1>2. /\ UNCHANGED <<groupVars, skipped, state, operations, layerVars, mainQueue, historyVars>>
      /\ stack' = IF state[t] = "complete" THEN <<r>> \o Tail(stack) ELSE <<c>> \o (<<r>> \o Tail(stack))
  BY DEF completeAfterWait
<1>3. t \in Txn /\ r \in Frame /\ r.kind = "returning" /\ r.txn = t
  BY <1>1 DEF Frame
<1>4. operations[t] # <<>> /\ state[t] \notin {"none", "open"} /\ G!Settled(t)
  <2>1. \A g \in {stack[1]} : FrameIsRight(g) /\ ~NeedsHelp(g)
    BY <1>1 DEF IInv, StackInv, FramesAreRight, PlacesAreRight
  <2> QED
    BY <1>1, <2>1 DEF FrameIsRight, NeedsHelp
<1>5. \A j \in DOMAIN stack : ~Completes(j, t)
  <2>1. TAKE j \in DOMAIN stack
  <2>2. CASE j = 1
    BY <1>1, <2>2 DEF Completes
  <2>3. CASE 1 < j
    <3>1. \A h \in {stack[1]}, g \in {stack[j]} : MayBeAbove(h, g)
      BY <1>1, <2>3 DEF IInv, StackInv, OrderIsRight
    <3> QED
      BY <1>1, <3>1 DEF MayBeAbove, Completes
  <2> QED
    BY <1>1, <2>2, <2>3, LenProperties
<1> HIDE DEF r
<1>6. mainQueue' \in Seq(Txn) /\ (\A i \in DOMAIN mainQueue' : notified[mainQueue'[i]] = "fired")
      /\ containers' \subseteq Layer /\ containers \ containers' = {}
  BY <1>2 DEF IInv, TypeInv, TypeOK, GroupInv, layerVars
<1>7. /\ FrameIsRight(r) /\ ~MustBeTop(r) /\ (NeedsHelp(r) => state[t] # "complete")
      /\ \A g : MayBeAbove(r, g)
  BY <1>3, <1>4 DEF FrameIsRight, MustBeTop, NeedsHelp, MayBeAbove
<1>8. ASSUME state[t] = "complete" PROVE IInv'
  <2> HIDE DEF c
  <2>1. Follows(stack', 1, stack, 1) /\ stack'[1] = r
    BY <1>1, <1>2, <1>3, <1>8, ReplaceFollows
  <2>2. \A i \in 1..1 : \A g \in {stack'[i]} :
            /\ FrameIsRight(g)
            /\ MustBeTop(g) => i = 1
            /\ NeedsHelp(g) => \E j \in 1..(i - 1) : \E h \in {stack'[j]} : Helps(h, g)
            /\ \A j \in DOMAIN stack' : i < j => \A h \in {stack'[j]} : MayBeAbove(g, h)
    BY <1>7, <1>8, <2>1
  <2>3. WaitIsRight'
    BY <1>3, <2>1, NotWaiting DEF IInv, StackInv
  <2> QED
    <3>1. UNCHANGED <<groupVars, skipped, state, operations, current, transactions, layerOf, historyVars>>
      BY <1>2 DEF layerVars
    <3> QED
      BY <1>1, <1>6, <2>1, <2>2, <2>3, <3>1, CallStep
<1>9. ASSUME state[t] # "complete" PROVE IInv'
  <2>1. state[t] \in {"committed", "canceled"}
    BY <1>3, <1>4, <1>9 DEF IInv, TypeInv, TypeOK
  <2>2. c \in Frame /\ c.kind = "complete" /\ c.txn = t /\ FrameIsRight(c) /\ ~MustBeTop(c) /\ ~NeedsHelp(c)
    BY <1>3, <1>4, <1>5, <2>1, CompletingIsRight
  <2>3. stack' = <<c>> \o (<<r>> \o Tail(stack))
    BY <1>2, <1>9
  <2> HIDE DEF c
  <2>4. Follows(stack', 2, stack, 1) /\ stack'[1] = c /\ stack'[2] = r
    BY <1>1, <1>3, <2>2, <2>3, Replace2Follows
  <2>5. /\ \A j \in DOMAIN stack' : 2 < j => j - 1 \in DOMAIN stack /\ stack'[j] = stack[j - 1]
        /\ \A j \in DOMAIN stack' : j \in Nat
    BY <2>4 DEF Follows
  <2>6. \A j \in DOMAIN stack' : 1 < j => \A g \in {stack'[j]} : MayBeAbove(c, g)
    <3>1. TAKE j \in DOMAIN stack'
    <3>2. HAVE 1 < j
    <3>3. j = 2 \/ 2 < j
      BY <2>5, <3>2
    <3>4. ~(stack'[j].kind = "complete" /\ stack'[j].txn = t)
      BY <1>3, <1>5, <2>4, <2>5, <3>3 DEF Completes
    <3> QED
      BY <2>2, <3>4 DEF MayBeAbove
  <2>7. Helps(c, r)
    BY <1>3, <2>2 DEF Helps
  <2>8. ASSUME NEW i \in 1..2, NEW g \in {stack'[i]}
        PROVE  /\ FrameIsRight(g)
               /\ MustBeTop(g) => i = 1
               /\ NeedsHelp(g) => \E j \in 1..(i - 1) : \E h \in {stack'[j]} : Helps(h, g)
               /\ \A j \in DOMAIN stack' : i < j => \A h \in {stack'[j]} : MayBeAbove(g, h)
    <3>1. CASE i = 1
      BY <2>2, <2>4, <2>6, <3>1
    <3>2. CASE i = 2
      BY <1>7, <2>4, <2>7, <3>2
    <3> QED
      BY <3>1, <3>2
  <2>9. WaitIsRight'
    BY <2>2, <2>4, NotWaiting DEF IInv, StackInv
  <2> QED
    <3>1. UNCHANGED <<groupVars, skipped, state, operations, current, transactions, layerOf, historyVars>>
      BY <1>2 DEF layerVars
    <3> QED
      BY <1>1, <1>6, <2>4, <2>8, <2>9, <3>1, CallStep
<1> QED
  BY <1>8, <1>9

LEMMA beforeWaitingStep ==
  ASSUME IInv, beforeWaiting
  PROVE  IInv'
<1> DEFINE c == [kind |-> "commit", layers |-> containers]
<1>1. /\ stack = <<>> /\ containers' = {} /\ stack' = <<c>> \o stack
      /\ UNCHANGED <<groupVars, skipped, state, operations, current, transactions, layerOf,
                     mainQueue, historyVars>>
  BY DEF beforeWaiting, commitContainers
<1>2. c \in Frame /\ c.kind = "commit" /\ c.layers = containers /\ stack \in Seq(Frame)
  BY DEF Frame, IInv, TypeInv, TypeOK
<1> HIDE DEF c
<1>3. Follows(stack', 1, stack, 0) /\ stack'[1] = c
  BY <1>1, <1>2, PushFollows
<1>4. \A j \in DOMAIN stack' : ~(1 < j) /\ DOMAIN stack = {}
  BY <1>1, <1>3 DEF Follows
<1>5. \A i \in 1..1 : \A g \in {stack'[i]} :
            /\ FrameIsRight(g)
            /\ MustBeTop(g) => i = 1
            /\ NeedsHelp(g) => \E j \in 1..(i - 1) : \E h \in {stack'[j]} : Helps(h, g)
            /\ \A j \in DOMAIN stack' : i < j => \A h \in {stack'[j]} : MayBeAbove(g, h)
  <2>1. FrameIsRight(c) /\ ~MustBeTop(c) /\ ~NeedsHelp(c)
    BY <1>2 DEF FrameIsRight, MustBeTop, NeedsHelp
  <2> QED
    BY <1>3, <1>4, <2>1
<1>6. WaitIsRight'
  BY <1>2, <1>3, NotWaiting DEF IInv, StackInv
<1>7. mainQueue' \in Seq(Txn) /\ (\A i \in DOMAIN mainQueue' : notified[mainQueue'[i]] = "fired")
      /\ containers' \subseteq Layer /\ (\A l \in containers \ containers' : \E i \in 1..1 : Commits(i, l)')
  BY <1>1, <1>2, <1>3 DEF IInv, TypeInv, TypeOK, GroupInv, Commits
<1>8. 1 \notin DOMAIN stack /\ 1 \in Nat /\ 0 \in {0, 1}
  BY <1>1
<1>9. UNCHANGED <<groupVars, skipped, state, operations, current, transactions, layerOf, historyVars>>
  BY <1>1
<1> QED
  BY <1>3, <1>5, <1>6, <1>7, <1>8, <1>9, CallStep

LEMMA completeTransactionStep ==
  ASSUME IInv, completeTransaction
  PROVE  IInv'
<1> DEFINE t == Head(mainQueue)
           c == Completing(t)
<1>1. /\ stack = <<>> /\ mainQueue # <<>> /\ mainQueue' = Tail(mainQueue)
      /\ stack' = IF state[t] = "complete" THEN stack ELSE <<c>>
      /\ UNCHANGED <<groupVars, skipped, state, operations, layerVars, historyVars>>
  BY DEF completeTransaction
<1>2. mainQueue \in Seq(Txn) /\ stack \in Seq(Frame)
  BY DEF IInv, TypeInv
<1>3. /\ t \in Txn /\ notified[t] = "fired"
      /\ mainQueue' \in Seq(Txn) /\ \A i \in DOMAIN mainQueue' : notified[mainQueue'[i]] = "fired"
  <2>1. /\ t \in Txn /\ Tail(mainQueue) \in Seq(Txn) /\ Len(Tail(mainQueue)) = Len(mainQueue) - 1
        /\ \A i \in 1..Len(Tail(mainQueue)) : Tail(mainQueue)[i] = mainQueue[i + 1]
        /\ t = mainQueue[1] /\ Len(mainQueue) \in Nat \ {0} /\ DOMAIN mainQueue = 1..Len(mainQueue)
    BY <1>1, <1>2, HeadTailProperties, EmptySeq, LenProperties
  <2>2. DOMAIN mainQueue' = 1..(Len(mainQueue) - 1)
    BY <1>1, <2>1, LenProperties
  <2>3. \A i \in DOMAIN mainQueue : notified[mainQueue[i]] = "fired"
    BY DEF IInv, GroupInv
  <2>4. \A i \in DOMAIN mainQueue' : i + 1 \in DOMAIN mainQueue /\ mainQueue'[i] = mainQueue[i + 1]
    BY <1>1, <2>1, <2>2
  <2> QED
    BY <1>1, <2>1, <2>3, <2>4
<1>4. containers' \subseteq Layer /\ containers \ containers' = {} /\ 1 \notin DOMAIN stack /\ DOMAIN stack = {}
  BY <1>1 DEF IInv, TypeInv, TypeOK, layerVars
<1>5. ASSUME state[t] = "complete" PROVE IInv'
  <2>1. stack' = stack
    BY <1>1, <1>5
  <2>2. Follows(stack', 0, stack, 0) /\ WaitIsRight'
    BY <1>1, <1>2, <1>4, <2>1 DEF Follows, WaitIsRight
  <2> QED
    BY <1>1, <1>3, <1>4, <2>2, CallStep DEF layerVars
<1>6. ASSUME state[t] # "complete" PROVE IInv'
  <2>1. state[t] \in {"committed", "canceled"} /\ operations[t] # <<>> /\ G!Settled(t)
    <3>1. G!Settled(t) /\ ~(state[t] \in {"none", "open"} \/ operations[t] = <<>>)
      BY <1>3 DEF IInv, GroupInv
    <3> QED
      BY <1>3, <1>6, <3>1 DEF IInv, TypeInv, TypeOK
  <2>2. c \in Frame /\ c.kind = "complete" /\ FrameIsRight(c) /\ ~MustBeTop(c) /\ ~NeedsHelp(c)
    BY <1>3, <1>4, <2>1, CompletingIsRight
  <2>3. stack' = <<c>>
    BY <1>1, <1>6
  <2> HIDE DEF c
  <2>4. stack' = <<c>> \o stack
    <3>1. <<c>> \in Seq(Frame)
      BY <2>2
    <3> QED
      BY <1>1, <2>3, <3>1, ConcatEmptySeq
  <2>5. Follows(stack', 1, stack, 0) /\ stack'[1] = c
    BY <1>2, <2>2, <2>4, PushFollows
  <2>6. \A j \in DOMAIN stack' : ~(1 < j)
    BY <1>4, <2>5 DEF Follows
  <2>7. \A i \in 1..1 : \A g \in {stack'[i]} :
            /\ FrameIsRight(g)
            /\ MustBeTop(g) => i = 1
            /\ NeedsHelp(g) => \E j \in 1..(i - 1) : \E h \in {stack'[j]} : Helps(h, g)
            /\ \A j \in DOMAIN stack' : i < j => \A h \in {stack'[j]} : MayBeAbove(g, h)
    BY <2>2, <2>5, <2>6
  <2>8. WaitIsRight'
    BY <2>2, <2>5, NotWaiting DEF IInv, StackInv
  <2> QED
    BY <1>1, <1>3, <1>4, <2>5, <2>7, <2>8, CallStep DEF layerVars
<1> QED
  BY <1>5, <1>6

-----------------------------------------------------------------------------
(* Threads of the queue, and calls that leave the stack as it is.           *)

LEMMA SameStackStep ==
  ASSUME IInv, UNCHANGED <<stack, layerOf>>, WaitIsRight',
         \A i \in DOMAIN stack : \A f \in {stack[i]} : FrameStays(f)
  PROVE  StackInv'
<1>1. stack \in Seq(Frame) /\ DOMAIN stack = 1..Len(stack) /\ Len(stack) \in Nat
  BY LenProperties DEF IInv, TypeInv
<1>2. Follows(stack', 0, stack, 0)
  BY <1>1 DEF Follows
<1>3. \A f \in Rest(0) : FrameStays(f)
  BY DEF Rest
<1>4. FramesAreRight' /\ OrderIsRight' /\ PlacesAreRight'
  BY <1>2, <1>3, StackStep DEF IInv, StackInv
<1> QED
  BY <1>4 DEF StackInv

LEMMA FrameOf ==
  ASSUME IInv, NEW i \in DOMAIN stack, NEW f \in {stack[i]}
  PROVE  /\ f \in Frame /\ FrameIsRight(f) /\ (MustBeTop(f) => i = 1)
         /\ (NeedsHelp(f) => \E j \in 1..(i - 1) : \E g \in {stack[j]} : Helps(g, f))
         /\ f.kind \in {"wait", "waited", "returning", "complete"} => f.txn \in Txn
         /\ f.kind = "complete" => f.todo \in Seq(Op) /\ f.isCanceled \in BOOLEAN
         /\ f.kind = "cancel" => f.layer \in Layer
         /\ f.kind = "commit" => f.layers \in SUBSET Layer
<1>1. f \in Frame
  BY LenProperties DEF IInv, TypeInv
<1>2. FrameIsRight(f) /\ (MustBeTop(f) => i = 1)
      /\ (NeedsHelp(f) => \E j \in 1..(i - 1) : \E g \in {stack[j]} : Helps(g, f))
  BY DEF IInv, StackInv, FramesAreRight, PlacesAreRight
<1> QED
  BY <1>1, <1>2 DEF Frame

LEMMA executeStep ==
  ASSUME IInv, NEW o \in Op, execute(o)
  PROVE  IInv'
<1>1. /\ phase[o] = "scheduled" /\ phase' = [phase EXCEPT ![o] = "executed"]
      /\ skipped' = IF state[owner[o]] = "canceled" THEN skipped \cup {o} ELSE skipped
      /\ UNCHANGED <<owner, held, notified, state, operations, layerVars, mainQueue, stack, historyVars>>
  BY DEF execute, G!Execute
<1>2. phase \in [Op -> {"idle", "scheduled", "executed", "done"}] /\ owner \in [Op -> Txn]
  BY DEF IInv, TypeInv, TypeOK
<1>3. /\ \A u \in Op : phase'[u] = IF u = o THEN "executed" ELSE phase[u]
      /\ \A t \in Txn : G!Settled(t) => G!Settled(t)' /\ owner[o] # t
  BY <1>1, <1>2 DEF G!Settled
<1>4. TypeInv'
  BY <1>1, <1>2 DEF IInv, TypeInv, TypeOK, layerVars, historyVars
<1>5. GroupInv'
  BY <1>1, <1>2, <1>3, <1>4 DEF IInv, GroupInv, TypeInv, TypeOK
<1>6. LifeInv'
  BY <1>1 DEF IInv, LifeInv, Finished, layerVars, historyVars
<1>7. LayerInv'
  BY <1>1 DEF IInv, LayerInv, Commits, Cancels, layerVars
<1>8. CallInv'
  <2>1. /\ \A t \in Txn : state'[t] = "complete" => called'[t] = operations'[t]
        /\ \A t \in Txn : called'[t] # <<>> => state'[t] = "complete" \/ \E i \in DOMAIN stack' : Completes(i, t)'
    BY <1>1 DEF IInv, CallInv, Completes, historyVars
  <2>2. skipped \subseteq Op
    BY DEF IInv, TypeInv, TypeOK
  <2>3. ASSUME NEW u \in skipped'
        PROVE  phase'[u] # "idle" /\ (state'[owner'[u]] = "canceled" \/ completed'[owner'[u]] = <<TRUE>>)
    <3>1. CASE u \in skipped
      <4>1. phase[u] # "idle" /\ (state[owner[u]] = "canceled" \/ completed[owner[u]] = <<TRUE>>) /\ u \in Op
        BY <2>2, <3>1 DEF IInv, CallInv
      <4>2. phase'[u] # "idle"
        BY <1>3, <4>1
      <4> QED
        BY <1>1, <4>1, <4>2 DEF historyVars
    <3>2. CASE u = o /\ state[owner[o]] = "canceled"
      BY <1>1, <1>3, <3>2
    <3> QED
      BY <1>1, <2>3, <3>1, <3>2
  <2> QED
    BY <2>1, <2>3 DEF CallInv
<1>9. ASSUME NEW i \in DOMAIN stack, NEW f \in {stack[i]} PROVE FrameStays(f)
  <2>1. f.kind \in {"waited", "complete"} /\ G!Settled(f.txn) => G!Settled(f.txn)' /\ owner[o] # f.txn
    BY <1>3, <1>9, FrameOf
  <2> QED
    BY <1>1, <2>1 DEF FrameStays, FrameIsRight, NeedsHelp, MustBeTop, historyVars, layerVars
<1>10. StackInv'
  BY <1>1, <1>9, SameStackStep DEF IInv, StackInv, WaitIsRight, layerVars
<1> QED
  BY <1>4, <1>5, <1>6, <1>7, <1>8, <1>10 DEF IInv

LEMMA DispatchFacts ==
  ASSUME IInv, NEW t \in Txn, DispatchIfFired(t), notified' \in [Txn -> {"none", "armed", "fired"}],
         \A u \in Txn : notified[u] = "fired" => notified'[u] = "fired"
  PROVE  mainQueue' \in Seq(Txn) /\ \A i \in DOMAIN mainQueue' : notified'[mainQueue'[i]] = "fired"
<1>1. mainQueue \in Seq(Txn) /\ DOMAIN mainQueue = 1..Len(mainQueue) /\ Len(mainQueue) \in Nat
      /\ \A i \in DOMAIN mainQueue : mainQueue[i] \in Txn /\ notified[mainQueue[i]] = "fired"
  BY LenProperties DEF IInv, TypeInv, GroupInv
<1>2. CASE mainQueue' = mainQueue
  BY <1>1, <1>2
<1>3. CASE notified'[t] = "fired" /\ mainQueue' = Append(mainQueue, t)
  <2>1. /\ mainQueue' \in Seq(Txn) /\ Len(mainQueue') = Len(mainQueue) + 1
        /\ \A i \in 1..Len(mainQueue) : mainQueue'[i] = mainQueue[i]
        /\ mainQueue'[Len(mainQueue) + 1] = t
    BY <1>1, <1>3, AppendProperties
  <2>2. DOMAIN mainQueue' = 1..(Len(mainQueue) + 1)
    BY <2>1, LenProperties
  <2>3. \A i \in DOMAIN mainQueue' : notified'[mainQueue'[i]] = "fired"
    <3>1. TAKE i \in DOMAIN mainQueue'
    <3>2. CASE i = Len(mainQueue) + 1
      BY <1>3, <2>1, <3>2
    <3>3. CASE i \in 1..Len(mainQueue)
      BY <1>1, <2>1, <3>3
    <3> QED
      BY <1>1, <2>2, <3>2, <3>3
  <2> QED
    BY <2>1, <2>3
<1> QED
  BY <1>2, <1>3 DEF DispatchIfFired

LEMMA leaveGroupStep ==
  ASSUME IInv, NEW o \in Op, leaveGroup(o)
  PROVE  IInv'
<1>1. /\ phase[o] = "executed" /\ phase' = [phase EXCEPT ![o] = "done"]
      /\ notified' = [notified EXCEPT ![owner[o]] = IF @ = "armed" /\ G!Settled(owner[o])' THEN "fired" ELSE @]
      /\ DispatchIfFired(owner[o])
      /\ UNCHANGED <<owner, held, skipped, state, operations, layerVars, stack, historyVars>>
  BY DEF leaveGroup, G!Finish, G!FireIfSettled
<1>2. phase \in [Op -> {"idle", "scheduled", "executed", "done"}] /\ owner \in [Op -> Txn]
      /\ notified \in [Txn -> {"none", "armed", "fired"}]
  BY DEF IInv, TypeInv, TypeOK
<1>3. /\ \A u \in Op : phase'[u] = IF u = o THEN "done" ELSE phase[u]
      /\ \A t \in Txn : G!Settled(t) => G!Settled(t)'
  BY <1>1, <1>2 DEF G!Settled
<1>4. /\ notified' \in [Txn -> {"none", "armed", "fired"}]
      /\ \A t \in Txn : /\ notified[t] = "fired" => notified'[t] = "fired"
                        /\ notified[t] = "none" <=> notified'[t] = "none"
                        /\ notified'[t] = "fired" => notified[t] = "fired" \/ G!Settled(t)'
  BY <1>1, <1>2
<1>5. mainQueue' \in Seq(Txn) /\ \A i \in DOMAIN mainQueue' : notified'[mainQueue'[i]] = "fired"
  BY <1>1, <1>2, <1>4, DispatchFacts
<1>6. TypeInv'
  BY <1>1, <1>2, <1>4, <1>5 DEF IInv, TypeInv, TypeOK, layerVars, historyVars
<1>7. GroupInv'
  <2>1. \A t \in Txn : notified'[t] = "none" <=> state'[t] \in {"none", "open"} \/ operations'[t] = <<>>
    BY <1>1, <1>4 DEF IInv, GroupInv
  <2>2. \A t \in Txn : notified'[t] = "fired" => G!Settled(t)'
    BY <1>3, <1>4 DEF IInv, GroupInv
  <2>3. \A u \in Op : phase'[u] # "idle" => operations'[owner'[u]] # <<>>
    BY <1>1, <1>3 DEF IInv, GroupInv
  <2> QED
    BY <1>5, <2>1, <2>2, <2>3 DEF GroupInv
<1>8. LifeInv'
  BY <1>1 DEF IInv, LifeInv, Finished, layerVars, historyVars
<1>9. LayerInv'
  BY <1>1 DEF IInv, LayerInv, Commits, Cancels, layerVars
<1>10. CallInv'
  <2>1. /\ \A t \in Txn : state'[t] = "complete" => called'[t] = operations'[t]
        /\ \A t \in Txn : called'[t] # <<>> => state'[t] = "complete" \/ \E i \in DOMAIN stack' : Completes(i, t)'
    BY <1>1 DEF IInv, CallInv, Completes, historyVars
  <2>2. skipped \subseteq Op
    BY DEF IInv, TypeInv, TypeOK
  <2>3. \A u \in skipped' : /\ phase'[u] # "idle"
                            /\ state'[owner'[u]] = "canceled" \/ completed'[owner'[u]] = <<TRUE>>
    <3>1. TAKE u \in skipped'
    <3>2. u \in Op /\ phase[u] # "idle" /\ (state[owner[u]] = "canceled" \/ completed[owner[u]] = <<TRUE>>)
      BY <1>1, <2>2 DEF IInv, CallInv
    <3>3. phase'[u] # "idle"
      BY <1>3, <3>2
    <3> QED
      BY <1>1, <3>2, <3>3 DEF historyVars
  <2> QED
    BY <2>1, <2>3 DEF CallInv
<1>11. ASSUME NEW i \in DOMAIN stack, NEW f \in {stack[i]} PROVE FrameStays(f)
  <2>1. f.kind \in {"waited", "complete"} /\ G!Settled(f.txn) => G!Settled(f.txn)'
    BY <1>3, <1>11, FrameOf
  <2> QED
    BY <1>1, <2>1 DEF FrameStays, FrameIsRight, NeedsHelp, MustBeTop, historyVars, layerVars
<1>12. StackInv'
  BY <1>1, <1>11, SameStackStep DEF IInv, StackInv, WaitIsRight, layerVars
<1> QED
  BY <1>6, <1>7, <1>8, <1>9, <1>10, <1>12 DEF IInv

LEMMA asyncTransactionStep ==
  ASSUME ~HookReenters, IInv, NEW l \in Layer, asyncTransaction(l)
  PROVE  IInv'
<1>1. /\ InApplication /\ ~InUse(l) /\ containers' = containers \cup {l}
      /\ UNCHANGED <<groupVars, skipped, operations, layerOf, mainQueue, stack, historyVars>>
  BY DEF asyncTransaction, MayUse
<1>2. \A i \in DOMAIN stack : \A f \in {stack[i]} : f.kind = "cancel" => f.layer # l
  BY <1>1 DEF InUse
<1>3. TypeInv /\ layerOf \in [Txn -> Layer] /\ current \in [Layer -> Txn \cup {None}]
      /\ state \in [Txn -> {"none", "open", "committed", "canceled", "complete"}]
      /\ transactions \in [Layer -> SUBSET Txn]
  BY DEF IInv, TypeInv, TypeOK
<1>4. \E new \in SUBSET Txn :
        /\ \A t \in new : state[t] = "none" /\ layerOf[t] = l /\ current'[l] = t /\ current[l] = None
        /\ \A t \in Txn : state'[t] = IF t \in new THEN "open" ELSE state[t]
        /\ state' \in [Txn -> {"none", "open", "committed", "canceled", "complete"}]
        /\ transactions' = [k \in Layer |-> IF k = l THEN transactions[l] \cup new ELSE transactions[k]]
        /\ current' \in [Layer -> Txn \cup {None}]
        /\ \A k \in Layer \ {l} : current'[k] = current[k]
        /\ current'[l] = current[l] \/ current'[l] \in new
  <2>1. CASE UNCHANGED <<state, transactions, current>>
    <3>1. {} \in SUBSET Txn /\ transactions = [k \in Layer |-> IF k = l THEN transactions[l] \cup {} ELSE transactions[k]]
      BY <1>3
    <3> QED
      BY <1>3, <2>1, <3>1
  <2>2. ASSUME current[l] = None, NEW t \in Txn, state[t] = "none", layerOf[t] = l,
               state' = [state EXCEPT ![t] = "open"],
               transactions' = [transactions EXCEPT ![l] = @ \cup {t}],
               current' = [current EXCEPT ![l] = t]
        PROVE  \E new \in SUBSET Txn :
                 /\ \A u \in new : state[u] = "none" /\ layerOf[u] = l /\ current'[l] = u /\ current[l] = None
                 /\ \A u \in Txn : state'[u] = IF u \in new THEN "open" ELSE state[u]
                 /\ state' \in [Txn -> {"none", "open", "committed", "canceled", "complete"}]
                 /\ transactions' = [k \in Layer |-> IF k = l THEN transactions[l] \cup new ELSE transactions[k]]
                 /\ current' \in [Layer -> Txn \cup {None}]
                 /\ \A k \in Layer \ {l} : current'[k] = current[k]
                 /\ current'[l] = current[l] \/ current'[l] \in new
    <3>1. {t} \in SUBSET Txn
      OBVIOUS
    <3>2. transactions' = [k \in Layer |-> IF k = l THEN transactions[l] \cup {t} ELSE transactions[k]]
      BY <1>3, <2>2
    <3>3. /\ \A u \in {t} : state[u] = "none" /\ layerOf[u] = l /\ current'[l] = u /\ current[l] = None
          /\ \A u \in Txn : state'[u] = IF u \in {t} THEN "open" ELSE state[u]
          /\ state' \in [Txn -> {"none", "open", "committed", "canceled", "complete"}]
          /\ current' \in [Layer -> Txn \cup {None}]
          /\ \A k \in Layer \ {l} : current'[k] = current[k]
          /\ current'[l] \in {t}
      BY <1>3, <2>2
    <3> QED
      BY <3>1, <3>2, <3>3
  <2> QED
    BY <2>1, <2>2 DEF asyncTransaction
<1>5. PICK new \in SUBSET Txn :
        /\ \A t \in new : state[t] = "none" /\ layerOf[t] = l /\ current'[l] = t /\ current[l] = None
        /\ \A t \in Txn : state'[t] = IF t \in new THEN "open" ELSE state[t]
        /\ state' \in [Txn -> {"none", "open", "committed", "canceled", "complete"}]
        /\ transactions' = [k \in Layer |-> IF k = l THEN transactions[l] \cup new ELSE transactions[k]]
        /\ current' \in [Layer -> Txn \cup {None}]
        /\ \A k \in Layer \ {l} : current'[k] = current[k]
        /\ current'[l] = current[l] \/ current'[l] \in new
  BY <1>4
<1>6. TypeInv'
  BY <1>1, <1>5 DEF IInv, TypeInv, TypeOK, groupVars, historyVars
<1>7. GroupInv'
  BY <1>1, <1>5 DEF IInv, GroupInv, groupVars, G!Settled
<1>8. LifeInv'
  BY <1>1, <1>5 DEF IInv, LifeInv, Finished, historyVars
<1>9. LayerInv'
  BY <1>1, <1>3, <1>5, NoneAssumption DEF IInv, LayerInv, Commits, Cancels
<1>10. CallInv'
  <2>1. /\ \A t \in Txn : state'[t] = "complete" => called'[t] = operations'[t]
        /\ \A t \in Txn : called'[t] # <<>> => state'[t] = "complete" \/ \E i \in DOMAIN stack' : Completes(i, t)'
    BY <1>1, <1>5 DEF IInv, CallInv, Completes, historyVars
  <2>2. skipped \subseteq Op /\ owner \in [Op -> Txn]
    BY DEF IInv, TypeInv, TypeOK
  <2>3. \A u \in skipped' : /\ phase'[u] # "idle"
                            /\ state'[owner'[u]] = "canceled" \/ completed'[owner'[u]] = <<TRUE>>
    BY <1>1, <1>5, <2>2 DEF IInv, CallInv, groupVars, historyVars
  <2> QED
    BY <2>1, <2>3 DEF CallInv
<1>11. ASSUME NEW i \in DOMAIN stack, NEW f \in {stack[i]} PROVE FrameStays(f)
  <2>1. /\ f.kind \in {"wait", "waited", "returning", "complete"} => f.txn \in Txn
        /\ FrameIsRight(f) /\ (f.kind = "cancel" => f.layer # l)
    BY <1>2, <1>11, FrameOf
  <2>2. FrameIsRight(f)'
    <3>1. f.kind = "cancel" => \A t \in Txn : state'[t] = "open" => layerOf'[t] # f.layer
      BY <1>1, <1>5, <2>1 DEF FrameIsRight
    <3>2. f.kind \in {"wait", "waited"} => operations'[f.txn] # <<>> /\ state'[f.txn] # "none"
      BY <1>1, <1>5, <2>1 DEF FrameIsRight
    <3>3. f.kind \in {"waited", "complete"} => G!Settled(f.txn)'
      BY <1>1, <2>1 DEF FrameIsRight, groupVars, G!Settled
    <3>4. f.kind = "complete" =>
            /\ state'[f.txn] \in {"committed", "canceled"} /\ operations'[f.txn] # <<>>
            /\ called'[f.txn] \o f.todo = operations'[f.txn]
            /\ ~f.isCanceled => \A o \in skipped' : owner'[o] # f.txn
      BY <1>1, <1>5, <2>1 DEF FrameIsRight, groupVars, historyVars
    <3> QED
      BY <3>1, <3>2, <3>3, <3>4 DEF FrameIsRight
  <2>3. (NeedsHelp(f)' => NeedsHelp(f)) /\ (MustBeTop(f)' => MustBeTop(f))
    BY <1>1, <1>5, <2>1 DEF FrameIsRight, NeedsHelp, MustBeTop
  <2> QED
    BY <2>2, <2>3 DEF FrameStays
<1>12. WaitIsRight'
  <2>1. ASSUME NEW j \in DOMAIN stack PROVE stack[1].kind # "wait"
    <3>1. 1 \in DOMAIN stack
      BY <2>1, LenProperties DEF IInv, TypeInv
    <3> QED
      BY <1>1, <3>1, NestFacts DEF IInv
  <2> QED
    BY <1>1, <2>1 DEF WaitIsRight
<1>13. StackInv'
  BY <1>1, <1>11, <1>12, SameStackStep
<1> QED
  BY <1>6, <1>7, <1>8, <1>9, <1>10, <1>13 DEF IInv

LEMMA addOperationStep ==
  ASSUME ~HookReenters, IInv, NEW o \in Op, addOperation(o)
  PROVE  IInv'
<1> DEFINE t == owner[o]
<1>1. /\ InApplication /\ ~InUse(layerOf[t]) /\ state[t] = "open"
      /\ phase' = [phase EXCEPT ![o] = "scheduled"]
      /\ operations' = [operations EXCEPT ![t] = Append(@, o)]
      /\ UNCHANGED <<owner, held, notified, skipped, state, layerVars, mainQueue, stack, historyVars>>
  BY DEF addOperation, G!Submit, MayUse
<1>2. /\ phase \in [Op -> {"idle", "scheduled", "executed", "done"}] /\ owner \in [Op -> Txn]
      /\ t \in Txn /\ operations \in [Txn -> Seq(Op)] /\ skipped \subseteq Op
  BY DEF IInv, TypeInv, TypeOK
<1>3. \A u \in Op : phase[u] # "idle" => phase'[u] # "idle"
  BY <1>1, <1>2
<1> HIDE DEF t
<1>4. /\ Append(operations[t], o) \in Seq(Op) /\ Append(operations[t], o) # <<>>
  BY <1>2, AppendProperties
<1>5. /\ operations' \in [Txn -> Seq(Op)] /\ operations'[t] # <<>>
      /\ \A u \in Txn \ {t} : operations'[u] = operations[u]
  BY <1>1, <1>2, <1>4
<1>6. \A u \in Txn : u # t /\ G!Settled(u) => G!Settled(u)'
  BY <1>1, <1>2 DEF G!Settled, t
<1>7. notified[t] = "none" /\ ~Finished(t) /\ called[t] = <<>>
  <2>1. notified[t] = "none" /\ ~Finished(t)
    BY <1>1, <1>2 DEF IInv, GroupInv, Finished
  <2>2. ASSUME NEW i \in DOMAIN stack, Completes(i, t) PROVE FALSE
    <3>1. \A f \in {stack[i]} : FrameIsRight(f)
      BY <2>2, FrameOf
    <3> QED
      BY <1>1, <2>2, <3>1 DEF Completes, FrameIsRight
  <2> QED
    BY <1>1, <1>2, <2>1, <2>2 DEF IInv, CallInv
<1>8. TypeInv'
  BY <1>1, <1>2, <1>5 DEF IInv, TypeInv, TypeOK, layerVars, historyVars
<1>9. GroupInv'
  <2>1. \A u \in Txn : notified'[u] = "none" <=> state'[u] \in {"none", "open"} \/ operations'[u] = <<>>
    BY <1>1, <1>5, <1>7 DEF IInv, GroupInv
  <2>2. \A u \in Txn : notified'[u] = "fired" => G!Settled(u)'
    BY <1>1, <1>6, <1>7 DEF IInv, GroupInv
  <2>3. \A i \in DOMAIN mainQueue' : notified'[mainQueue'[i]] = "fired"
    BY <1>1 DEF IInv, GroupInv
  <2>4. \A u \in Op : phase'[u] # "idle" => operations'[owner'[u]] # <<>>
    <3>1. TAKE u \in Op
    <3>2. CASE owner[u] = t
      BY <1>1, <1>5, <3>2
    <3>3. CASE owner[u] # t
      <4>1. u # o /\ phase'[u] = phase[u]
        BY <1>1, <1>2, <3>3 DEF t
      <4> QED
        BY <1>1, <1>2, <1>5, <3>3, <4>1 DEF IInv, GroupInv
    <3> QED
      BY <3>2, <3>3
  <2> QED
    BY <2>1, <2>2, <2>3, <2>4 DEF GroupInv
<1>10. \A u \in Txn : Finished(u)' <=> Finished(u)
  BY <1>1, <1>5 DEF Finished
<1>11. LifeInv'
  BY <1>1, <1>5, <1>10 DEF IInv, LifeInv, layerVars, historyVars
<1>12. LayerInv'
  BY <1>1 DEF IInv, LayerInv, Commits, Cancels, layerVars
<1>13. CallInv'
  <2>1. /\ \A u \in Txn : state'[u] = "complete" => called'[u] = operations'[u]
        /\ \A u \in Txn : called'[u] # <<>> => state'[u] = "complete" \/ \E i \in DOMAIN stack' : Completes(i, u)'
    BY <1>1, <1>5 DEF IInv, CallInv, Completes, historyVars
  <2>2. \A u \in skipped' : /\ phase'[u] # "idle"
                            /\ state'[owner'[u]] = "canceled" \/ completed'[owner'[u]] = <<TRUE>>
    <3>1. TAKE u \in skipped'
    <3>2. u \in Op /\ phase[u] # "idle" /\ (state[owner[u]] = "canceled" \/ completed[owner[u]] = <<TRUE>>)
      BY <1>1, <1>2 DEF IInv, CallInv
    <3>3. phase'[u] # "idle"
      BY <1>3, <3>2
    <3> QED
      BY <1>1, <3>2, <3>3 DEF historyVars
  <2> QED
    BY <2>1, <2>2 DEF CallInv
<1>14. ASSUME NEW i \in DOMAIN stack, NEW f \in {stack[i]} PROVE FrameStays(f)
  <2>1. /\ f.kind \in {"wait", "waited", "returning", "complete"} => f.txn \in Txn
        /\ FrameIsRight(f) /\ (MustBeTop(f) => i = 1)
    BY <1>14, FrameOf
  <2>2. f.kind = "waited" => f.txn # t
    BY <1>1, <1>14 DEF InUse
  <2>3. f.kind = "complete" => f.txn # t
    BY <1>1, <2>1 DEF FrameIsRight
  <2>4. FrameIsRight(f)'
    <3>1. f.kind = "cancel" => \A u \in Txn : state'[u] = "open" => layerOf'[u] # f.layer
      BY <1>1, <2>1 DEF FrameIsRight, layerVars
    <3>2. f.kind \in {"wait", "waited"} => operations'[f.txn] # <<>> /\ state'[f.txn] # "none"
      BY <1>1, <1>5, <2>1 DEF FrameIsRight
    <3>3. f.kind \in {"waited", "complete"} => G!Settled(f.txn)'
      BY <1>6, <2>1, <2>2, <2>3 DEF FrameIsRight
    <3>4. f.kind = "complete" =>
            /\ state'[f.txn] \in {"committed", "canceled"} /\ operations'[f.txn] # <<>>
            /\ called'[f.txn] \o f.todo = operations'[f.txn]
            /\ ~f.isCanceled => \A u \in skipped' : owner'[u] # f.txn
      BY <1>1, <1>5, <2>1, <2>3 DEF FrameIsRight, historyVars
    <3> QED
      BY <3>1, <3>2, <3>3, <3>4 DEF FrameIsRight
  <2>5. MustBeTop(f)' => MustBeTop(f)
    BY <1>5, <2>1 DEF MustBeTop
  <2>6. NeedsHelp(f)' => NeedsHelp(f)
    <3>1. CASE f.kind = "returning" /\ f.txn = t /\ operations[t] = <<>>
      <4>1. i = 1 /\ f.kind \in {"hook", "complete"}
        BY <1>1, <1>14, <2>1, <3>1, NestFacts DEF MustBeTop, IInv
      <4> QED
        BY <3>1, <4>1
    <3>2. CASE ~(f.kind = "returning" /\ f.txn = t /\ operations[t] = <<>>)
      BY <1>1, <1>5, <2>1, <3>2 DEF NeedsHelp
    <3> QED
      BY <3>1, <3>2
  <2> QED
    BY <2>4, <2>5, <2>6 DEF FrameStays
<1>15. WaitIsRight'
  BY <1>1 DEF IInv, StackInv, WaitIsRight
<1>16. StackInv'
  BY <1>1, <1>14, <1>15, SameStackStep DEF layerVars
<1> QED
  BY <1>8, <1>9, <1>11, <1>12, <1>13, <1>16 DEF IInv

-----------------------------------------------------------------------------
(* Committing, canceling, completing.                                       *)

LEMMA commitStep ==
  ASSUME IInv, NEW t \in Txn, state[t] = "open", NEW rest, commit(t, rest),
         UNCHANGED <<skipped, operations, layerOf, called>>
  PROVE  /\ stack' = IF operations[t] = <<>> THEN <<[kind |-> "hook"]>> \o rest ELSE rest
         /\ state' = [state EXCEPT ![t] = "committed"]
         /\ current' \in [Layer -> Txn \cup {None}] /\ containers' \subseteq Layer
              /\ stack' \in Seq(Frame) => TypeInv'
         /\ GroupInv' /\ LifeInv'
         /\ \A o \in skipped' : /\ phase'[o] # "idle"
                                /\ state'[owner'[o]] = "canceled" \/ completed'[owner'[o]] = <<TRUE>>
         /\ \A f : (f.kind \in {"wait", "waited", "returning", "complete"} => f.txn \in Txn) => FrameStays(f)
<1>1. /\ state \in [Txn -> {"none", "open", "committed", "canceled", "complete"}]
      /\ state' = [state EXCEPT ![t] = "committed"]
      /\ transactions \in [Layer -> SUBSET Txn] /\ layerOf \in [Txn -> Layer]
      /\ completed \in [Txn -> Outcomes] /\ skipped \subseteq Op /\ owner \in [Op -> Txn]
      /\ notified \in [Txn -> {"none", "armed", "fired"}] /\ mainQueue \in Seq(Txn)
  BY DEF IInv, TypeInv, TypeOK, commit
<1>2. /\ state' \in [Txn -> {"none", "open", "committed", "canceled", "complete"}]
      /\ state'[t] = "committed" /\ \A u \in Txn \ {t} : state'[u] = state[u]
  BY <1>1
<1>3. notified[t] = "none" /\ completed[t] = <<>>
  BY DEF IInv, GroupInv, LifeInv, Finished
<1>4. /\ UNCHANGED <<owner, phase, held>>
      /\ notified' \in [Txn -> {"none", "armed", "fired"}]
      /\ \A u \in Txn \ {t} : notified'[u] = notified[u]
      /\ operations[t] = <<>> => notified'[t] = "none"
      /\ operations[t] # <<>> => notified'[t] # "none" /\ (notified'[t] = "fired" => G!Settled(t))
      /\ mainQueue' \in Seq(Txn) /\ \A i \in DOMAIN mainQueue' : notified'[mainQueue'[i]] = "fired"
  <2>1. CASE operations[t] = <<>>
    BY <1>1, <1>3, <2>1 DEF commit, groupVars, IInv, GroupInv
  <2>2. CASE operations[t] # <<>>
    <3>1. /\ UNCHANGED <<owner, phase, held>> /\ DispatchIfFired(t)
          /\ notified' = [notified EXCEPT ![t] = IF G!Settled(t) THEN "fired" ELSE "armed"]
      BY <2>2 DEF commit, G!Arm
    <3>2. /\ notified' \in [Txn -> {"none", "armed", "fired"}]
          /\ \A u \in Txn \ {t} : notified'[u] = notified[u]
          /\ notified'[t] # "none" /\ (notified'[t] = "fired" => G!Settled(t))
      BY <1>1, <3>1
    <3>3. \A u \in Txn : notified[u] = "fired" => notified'[u] = "fired"
      BY <1>3, <3>2
    <3> QED
      BY <2>2, <3>1, <3>2, <3>3, DispatchFacts
  <2> QED
    BY <2>1, <2>2
<1>5. /\ \A u \in Txn \ {t} : completed'[u] = completed[u]
      /\ completed' \in [Txn -> Outcomes]
      /\ completed'[t] # <<>> <=> operations[t] = <<>>
      /\ transactions' \in [Layer -> SUBSET Txn]
      /\ \A l \in Layer : transactions'[l] =
           IF operations[t] = <<>> /\ l = layerOf[t] THEN transactions[l] \ {t} ELSE transactions[l]
      /\ stack' = IF operations[t] = <<>> THEN <<[kind |-> "hook"]>> \o rest ELSE rest
  <2>1. CASE operations[t] = <<>>
    <3>1. /\ transactions' = [transactions EXCEPT ![layerOf[t]] = @ \ {t}]
          /\ completed' = [completed EXCEPT ![t] = Append(@, FALSE)]
          /\ stack' = <<[kind |-> "hook"]>> \o rest
      BY <2>1 DEF commit, completionBlock
    <3>2. Append(completed[t], FALSE) = <<FALSE>>
      BY <1>3
    <3>3. completed' = [completed EXCEPT ![t] = <<FALSE>>]
      BY <3>1, <3>2
    <3>4. <<FALSE>> # <<>> /\ <<FALSE>> \in Outcomes
      BY DEF Outcomes
    <3> DEFINE once == <<FALSE>>
    <3> HIDE DEF once
    <3>5. completed' = [completed EXCEPT ![t] = once] /\ once # <<>> /\ once \in Outcomes
      BY <3>3, <3>4 DEF once
    <3>6. /\ \A u \in Txn \ {t} : completed'[u] = completed[u]
          /\ completed' \in [Txn -> Outcomes] /\ completed'[t] # <<>>
      BY <1>1, <3>5
    <3>7. /\ transactions' \in [Layer -> SUBSET Txn]
          /\ \A l \in Layer : transactions'[l] = IF l = layerOf[t] THEN transactions[l] \ {t} ELSE transactions[l]
      BY <1>1, <3>1
    <3> QED
      BY <2>1, <3>1, <3>6, <3>7
  <2>2. CASE operations[t] # <<>>
    <3>1. UNCHANGED <<transactions, completed>> /\ stack' = rest
      BY <2>2 DEF commit
    <3> QED
      BY <1>1, <1>3, <2>2, <3>1
  <2> QED
    BY <2>1, <2>2
<1>6. ASSUME current' \in [Layer -> Txn \cup {None}], containers' \subseteq Layer, stack' \in Seq(Frame)
      PROVE  TypeInv'
  BY <1>1, <1>2, <1>4, <1>5, <1>6 DEF IInv, TypeInv, TypeOK
<1>7. \A u \in Txn : G!Settled(u)' <=> G!Settled(u)
  BY <1>4 DEF G!Settled
<1>8. GroupInv'
  <2>1. \A u \in Txn : notified'[u] = "none" <=> state'[u] \in {"none", "open"} \/ operations'[u] = <<>>
    <3>1. TAKE u \in Txn
    <3>2. CASE u = t
      BY <1>2, <1>4, <3>2
    <3>3. CASE u # t
      BY <1>2, <1>4, <3>3 DEF IInv, GroupInv
    <3> QED
      BY <3>2, <3>3
  <2>2. \A u \in Txn : notified'[u] = "fired" => G!Settled(u)'
    BY <1>4, <1>7 DEF IInv, GroupInv
  <2>3. \A o \in Op : phase'[o] # "idle" => operations'[owner'[o]] # <<>>
    BY <1>4 DEF IInv, GroupInv
  <2> QED
    BY <1>4, <2>1, <2>2, <2>3 DEF GroupInv
<1>9. \A u \in Txn : Finished(u)' <=> Finished(u) \/ (u = t /\ operations[t] = <<>>)
  BY <1>2 DEF Finished
<1>10. LifeInv'
  <2>1. /\ \A u \in Txn : state'[u] = "none" => operations'[u] = <<>>
        /\ \A u \in Txn : state'[u] \in {"canceled", "complete"} => operations'[u] # <<>>
    BY <1>2 DEF IInv, LifeInv
  <2>2. \A u \in Txn : completed'[u] # <<>> <=> Finished(u)'
    <3>1. TAKE u \in Txn
    <3>2. CASE u = t
      BY <1>3, <1>5, <1>9, <3>2 DEF IInv, LifeInv
    <3>3. CASE u # t
      BY <1>5, <1>9, <3>3 DEF IInv, LifeInv
    <3> QED
      BY <3>2, <3>3
  <2>3. \A l \in Layer : transactions'[l] = {u \in Txn : layerOf'[u] = l /\ state'[u] # "none" /\ ~Finished(u)'}
    BY <1>2, <1>5, <1>9 DEF IInv, LifeInv
  <2> QED
    BY <2>1, <2>2, <2>3 DEF LifeInv
<1>11. ASSUME NEW o \in skipped'
       PROVE  phase'[o] # "idle" /\ (state'[owner'[o]] = "canceled" \/ completed'[owner'[o]] = <<TRUE>>)
  <2>1. o \in skipped /\ o \in Op /\ owner[o] \in Txn
    BY <1>1, <1>11
  <2>2. phase[o] # "idle" /\ (state[owner[o]] = "canceled" \/ completed[owner[o]] = <<TRUE>>)
    BY <2>1 DEF IInv, CallInv
  <2>3. owner[o] # t
    <3>1. <<TRUE>> # <<>>
      OBVIOUS
    <3> QED
      BY <1>3, <2>2, <3>1
  <2> QED
    BY <1>2, <1>4, <1>5, <2>1, <2>2, <2>3
<1>12. ASSUME NEW f, f.kind \in {"wait", "waited", "returning", "complete"} => f.txn \in Txn
       PROVE  FrameStays(f)
  <2>1. FrameIsRight(f) => FrameIsRight(f)'
    <3>1. SUFFICES ASSUME FrameIsRight(f) PROVE FrameIsRight(f)'
      OBVIOUS
    <3>2. f.kind = "cancel" => \A u \in Txn : state'[u] = "open" => layerOf'[u] # f.layer
      BY <1>2, <3>1 DEF FrameIsRight
    <3>3. f.kind \in {"wait", "waited"} => operations'[f.txn] # <<>> /\ state'[f.txn] # "none"
      BY <1>2, <1>12, <3>1 DEF FrameIsRight
    <3>4. f.kind \in {"waited", "complete"} => G!Settled(f.txn)'
      BY <1>7, <1>12, <3>1 DEF FrameIsRight
    <3>5. f.kind = "complete" =>
            /\ state'[f.txn] \in {"committed", "canceled"} /\ operations'[f.txn] # <<>>
            /\ called'[f.txn] \o f.todo = operations'[f.txn]
            /\ ~f.isCanceled => \A u \in skipped' : owner'[u] # f.txn
      BY <1>2, <1>4, <1>12, <3>1 DEF FrameIsRight
    <3> QED
      BY <3>2, <3>3, <3>4, <3>5 DEF FrameIsRight
  <2>2. (NeedsHelp(f)' => NeedsHelp(f)) /\ (MustBeTop(f)' => MustBeTop(f))
    BY <1>2, <1>12 DEF NeedsHelp, MustBeTop
  <2> QED
    BY <2>1, <2>2 DEF FrameStays
<1> QED
  BY <1>1, <1>5, <1>6, <1>8, <1>10, <1>11, <1>12

(* Both a commit of a layer and its cancelation commit what is open, if any. *)
LEMMA commitIfAnyStep ==
  ASSUME IInv, NEW t \in Txn \cup {None}, t # None => state[t] = "open", NEW rest, commitIfAny(t, rest),
         UNCHANGED <<skipped, operations, layerOf, called>>
  PROVE  /\ stack' = <<[kind |-> "hook"]>> \o rest \/ stack' = rest
         /\ \A u \in Txn : state'[u] = IF u = t THEN "committed" ELSE state[u]
         /\ current' \in [Layer -> Txn \cup {None}] /\ containers' \subseteq Layer
              /\ stack' \in Seq(Frame) => TypeInv'
         /\ GroupInv' /\ LifeInv'
         /\ \A o \in skipped' : /\ phase'[o] # "idle"
                                /\ state'[owner'[o]] = "canceled" \/ completed'[owner'[o]] = <<TRUE>>
         /\ \A f : (f.kind \in {"wait", "waited", "returning", "complete"} => f.txn \in Txn) => FrameStays(f)
<1>1. CASE t = None
  <2>1. stack' = rest /\ UNCHANGED <<state, transactions, completed, groupVars, mainQueue>>
    BY <1>1 DEF commitIfAny
  <2>2. \A u \in Txn : u # t
    BY <1>1, NoneAssumption
  <2>3. current' \in [Layer -> Txn \cup {None}] /\ containers' \subseteq Layer /\ stack' \in Seq(Frame) => TypeInv'
    BY <2>1 DEF IInv, TypeInv, TypeOK, groupVars
  <2>4. GroupInv' /\ LifeInv'
    BY <2>1 DEF IInv, GroupInv, LifeInv, Finished, groupVars, G!Settled
  <2>5. \A o \in skipped' : /\ phase'[o] # "idle"
                            /\ state'[owner'[o]] = "canceled" \/ completed'[owner'[o]] = <<TRUE>>
    BY <2>1 DEF IInv, CallInv, groupVars
  <2>6. \A f : FrameStays(f)
    BY <2>1, SameDataStays
  <2> QED
    BY <2>1, <2>2, <2>3, <2>4, <2>5, <2>6
<1>2. CASE t # None
  <2>1. t \in Txn /\ state[t] = "open" /\ commit(t, rest)
    BY <1>2 DEF commitIfAny
  <2>2. stack' = <<[kind |-> "hook"]>> \o rest \/ stack' = rest
    BY <2>1, commitStep
  <2>3. state' = [state EXCEPT ![t] = "committed"]
    BY <2>1, commitStep
  <2>4. \A u \in Txn : state'[u] = IF u = t THEN "committed" ELSE state[u]
    BY <2>1, <2>3 DEF IInv, TypeInv, TypeOK
  <2>5. /\ current' \in [Layer -> Txn \cup {None}] /\ containers' \subseteq Layer
           /\ stack' \in Seq(Frame) => TypeInv'
        /\ GroupInv' /\ LifeInv'
        /\ \A o \in skipped' : /\ phase'[o] # "idle"
                               /\ state'[owner'[o]] = "canceled" \/ completed'[owner'[o]] = <<TRUE>>
        /\ \A f : (f.kind \in {"wait", "waited", "returning", "complete"} => f.txn \in Txn) => FrameStays(f)
    BY <2>1, commitStep
  <2> QED
    BY <2>2, <2>4, <2>5
<1> QED
  BY <1>1, <1>2

(* What the open transaction of a layer is, where it is committed.          *)
LEMMA OpenIsCurrent ==
  ASSUME IInv, NEW l \in Layer, \A i \in DOMAIN stack : ~Cancels(i, l)
  PROVE  /\ current[l] \in Txn \cup {None}
         /\ current[l] # None => state[current[l]] = "open"
         /\ \A u \in Txn : state[u] = "open" => (layerOf[u] = l <=> u = current[l])
<1>1. current[l] \in Txn \cup {None} /\ None \notin Txn
  BY NoneAssumption DEF IInv, TypeInv, TypeOK
<1> QED
  BY <1>1 DEF IInv, LayerInv

(* A step that commits what is open of a layer and has set its frames.      *)
LEMMA CommittingStep ==
  ASSUME IInv, NEW l \in Layer, \A i \in DOMAIN stack : ~Cancels(i, l),
         NEW rest, commitIfAny(current[l], rest),
         UNCHANGED <<skipped, operations, layerOf, containers, called>>,
         NEW p \in Nat, NEW d \in {0, 1}, Follows(stack', p, stack, d),
         \A i \in 1..p : \A f \in {stack'[i]} :
            /\ f.kind \in {"hook", "cancel", "commit"} /\ (f.kind = "cancel" => f.layer = l)
            /\ \A j \in DOMAIN stack' : i < j => \A g \in {stack'[j]} : MayBeAbove(f, g),
         p > 0 \/ d = 1,
         d = 0 /\ 1 \in DOMAIN stack => \A f \in {stack[1]} : ~MustBeTop(f),
         d = 1 => stack[1].kind = "commit",
         current' = current \/ current' = [current EXCEPT ![l] = None],
         current'[l] = None \/ \E i \in 1..p : Cancels(i, l)',
         \A k \in Layer \ {l} : d = 1 /\ Commits(1, k) => \E i \in 1..p : Commits(i, k)'
  PROVE  IInv'
<1>1. /\ current[l] \in Txn \cup {None}
      /\ current[l] # None => state[current[l]] = "open"
      /\ \A u \in Txn : state[u] = "open" => (layerOf[u] = l <=> u = current[l])
  BY OpenIsCurrent
<1>2. /\ \A u \in Txn : state'[u] = IF u = current[l] THEN "committed" ELSE state[u]
      /\ current' \in [Layer -> Txn \cup {None}] /\ containers' \subseteq Layer
           /\ stack' \in Seq(Frame) => TypeInv'
      /\ GroupInv' /\ LifeInv'
      /\ \A o \in skipped' : /\ phase'[o] # "idle"
                             /\ state'[owner'[o]] = "canceled" \/ completed'[owner'[o]] = <<TRUE>>
      /\ \A f : (f.kind \in {"wait", "waited", "returning", "complete"} => f.txn \in Txn) => FrameStays(f)
  BY <1>1, commitIfAnyStep
<1>3. \A u \in Txn : state'[u] = "open" <=> (state[u] = "open" /\ layerOf[u] # l)
  BY <1>1, <1>2
<1>4. current \in [Layer -> Txn \cup {None}] /\ TypeInv'
  <2>1. current \in [Layer -> Txn \cup {None}] /\ containers' \subseteq Layer /\ stack' \in Seq(Frame)
    BY DEF IInv, TypeInv, TypeOK, Follows
  <2>2. current' \in [Layer -> Txn \cup {None}]
    BY <2>1
  <2> QED
    BY <1>2, <2>1, <2>2
<1>5. \A i \in DOMAIN stack : i > d =>
        /\ \E j \in DOMAIN stack' : stack'[j] = stack[i]
        /\ stack[i] \in Rest(d)
  BY RestRemains
<1>6. \A i \in DOMAIN stack : i > d \/ (i = 1 /\ d = 1 /\ stack[1].kind = "commit")
  BY DEF Follows
<1>7. LayerInv'
  <2>1. ASSUME NEW u \in Txn, state'[u] = "open"
        PROVE  /\ current'[layerOf'[u]] = u
               /\ layerOf'[u] \in containers' \/ \E i \in DOMAIN stack' : Commits(i, layerOf[u])'
    <3>1. state[u] = "open" /\ layerOf[u] # l /\ layerOf[u] \in Layer
      BY <1>3, <2>1 DEF IInv, TypeInv
    <3>2. current[layerOf[u]] = u /\ (layerOf[u] \in containers \/ \E i \in DOMAIN stack : Commits(i, layerOf[u]))
      BY <3>1 DEF IInv, LayerInv
    <3>3. current'[layerOf[u]] = u
      BY <1>4, <3>1, <3>2
    <3>4. ASSUME NEW i \in DOMAIN stack, Commits(i, layerOf[u])
          PROVE  \E j \in DOMAIN stack' : Commits(j, layerOf[u])'
      <4>1. CASE i > d
        BY <1>5, <3>4, <4>1 DEF Commits
      <4>2. CASE i = 1 /\ d = 1
        <5>1. PICK j \in 1..p : Commits(j, layerOf[u])'
          BY <3>1, <3>4, <4>2
        <5> QED
          BY <5>1 DEF Follows
      <4> QED
        BY <1>6, <4>1, <4>2
    <3> QED
      BY <3>2, <3>3, <3>4
  <2>2. ASSUME NEW k \in Layer, current'[k] # None
        PROVE  /\ layerOf'[current'[k]] = k
               /\ state'[current'[k]] = "open" \/ \E i \in DOMAIN stack' : Cancels(i, k)'
    <3>1. current'[k] = current[k]
      BY <1>4, <2>2
    <3>2. current[k] \in Txn /\ layerOf[current[k]] = k
          /\ (state[current[k]] = "open" \/ \E i \in DOMAIN stack : Cancels(i, k))
      BY <1>4, <2>2, <3>1 DEF IInv, LayerInv
    <3>3. CASE k = l
      <4>2. PICK i \in 1..p : Cancels(i, l)'
        BY <2>2, <3>3
      <4> QED
        BY <3>1, <3>2, <3>3, <4>2 DEF Follows
    <3>4. CASE k # l /\ state[current[k]] = "open"
      BY <1>3, <3>1, <3>2, <3>4
    <3>5. ASSUME NEW i \in DOMAIN stack, Cancels(i, k) PROVE \E j \in DOMAIN stack' : Cancels(j, k)'
      BY <1>5, <1>6, <3>5 DEF Cancels
    <3> QED
      BY <3>1, <3>2, <3>3, <3>4, <3>5
  <2> QED
    BY <2>1, <2>2 DEF LayerInv
<1>8. CallInv'
  <2>1. \A u \in Txn : state'[u] = "complete" <=> state[u] = "complete"
    BY <1>1, <1>2, NoneAssumption
  <2>2. ASSUME NEW u \in Txn, NEW i \in DOMAIN stack, Completes(i, u)
        PROVE  \E j \in DOMAIN stack' : Completes(j, u)'
    BY <1>5, <1>6, <2>2 DEF Completes
  <2>3. \A u \in Txn : called'[u] # <<>> => state'[u] = "complete" \/ \E i \in DOMAIN stack' : Completes(i, u)'
    BY <2>1, <2>2 DEF IInv, CallInv
  <2>4. \A u \in Txn : state'[u] = "complete" => called'[u] = operations'[u]
    BY <2>1 DEF IInv, CallInv
  <2> QED
    BY <1>2, <2>3, <2>4 DEF CallInv
<1>9. \A f \in Rest(d) : FrameStays(f)
  <2>1. ASSUME NEW i \in DOMAIN stack, NEW f \in {stack[i]} PROVE FrameStays(f)
    BY <1>2, <2>1, FrameOf
  <2> QED
    BY <2>1 DEF Rest
<1>10. \A i \in 1..p : \A f \in {stack'[i]} :
            /\ FrameIsRight(f)'
            /\ MustBeTop(f)' => i = 1
            /\ NeedsHelp(f)' => \E j \in 1..(i - 1) : \E g \in {stack'[j]} : Helps(g, f)'
            /\ \A j \in DOMAIN stack' : i < j => \A g \in {stack'[j]} : MayBeAbove(f, g)
  <2>1. TAKE i \in 1..p
  <2>2. TAKE f \in {stack'[i]}
  <2>3. /\ f.kind \in {"hook", "cancel", "commit"} /\ (f.kind = "cancel" => f.layer = l)
        /\ \A j \in DOMAIN stack' : i < j => \A g \in {stack'[j]} : MayBeAbove(f, g)
    OBVIOUS
  <2>4. FrameIsRight(f)' /\ ~MustBeTop(f)' /\ ~NeedsHelp(f)'
    BY <1>3, <2>3 DEF FrameIsRight, MustBeTop, NeedsHelp
  <2> QED
    BY <2>3, <2>4
<1>11. d = 1 => \A f \in Rest(1) : \A g \in {stack[1]} : Helps(g, f) /\ NeedsHelp(f)' =>
                    \E i \in 1..p : \E h \in {stack'[i]} : Helps(h, f)'
  <2>1. SUFFICES ASSUME d = 1, NEW i \in DOMAIN stack, NEW f \in {stack[i]}, NEW g \in {stack[1]},
                        Helps(g, f), NeedsHelp(f)'
                 PROVE  \E j \in 1..p : \E h \in {stack'[j]} : Helps(h, f)'
    BY DEF Rest
  <2>2. g.kind = "commit" /\ f.kind = "waited" /\ layerOf[f.txn] \in g.layers /\ state'[f.txn] = "open"
    BY <2>1 DEF Helps, NeedsHelp
  <2>3. f.txn \in Txn /\ layerOf[f.txn] \in Layer
    <3>1. f.txn \in Txn
      BY <2>1, <2>2, FrameOf
    <3> QED
      BY <3>1 DEF IInv, TypeInv
  <2>4. layerOf[f.txn] # l /\ Commits(1, layerOf[f.txn])
    BY <1>3, <2>1, <2>2, <2>3 DEF Commits
  <2>5. PICK j \in 1..p : Commits(j, layerOf[f.txn])'
    BY <2>1, <2>3, <2>4
  <2> QED
    BY <2>2, <2>5 DEF Helps, Commits
<1>12. WaitIsRight'
  <2>1. p > 0 => stack'[1].kind # "wait"
    <3>1. p > 0 => 1 \in 1..p
      OBVIOUS
    <3> QED
      BY <3>1
  <2> QED
    BY <2>1, NotWaiting DEF IInv, StackInv
<1>13. FramesAreRight' /\ OrderIsRight' /\ PlacesAreRight'
  BY <1>9, <1>10, <1>11, StackStep DEF IInv, StackInv
<1> QED
  BY <1>2, <1>4, <1>7, <1>8, <1>12, <1>13 DEF IInv, StackInv

(* The stacks that these two steps leave.                                   *)
Hook == [kind |-> "hook"]

LEMMA HookIsFrame == Hook \in Frame /\ Hook.kind = "hook"
BY DEF Hook, Frame

HooksOver(t, p, c) == t[p] = c /\ \A i \in 1..(p - 1) : t[i] = Hook
HooksOnly(t, p) == \A i \in 1..p : t[i] = Hook

LEMMA HookAbove ==
  ASSUME NEW t, NEW s, NEW c, NEW d,
         (Follows(t, 2, s, d) /\ t[1] = Hook /\ t[2] = c) \/ (Follows(t, 1, s, d) /\ t[1] = c)
  PROVE  \E p \in Nat \ {0} : Follows(t, p, s, d) /\ HooksOver(t, p, c)
<1>1. CASE Follows(t, 2, s, d) /\ t[1] = Hook /\ t[2] = c
  <2>1. 2 \in Nat \ {0} /\ \A i \in 1..(2 - 1) : t[i] = Hook
    BY <1>1
  <2> QED
    BY <1>1, <2>1 DEF HooksOver
<1>2. CASE Follows(t, 1, s, d) /\ t[1] = c
  <2>1. 1 \in Nat \ {0} /\ \A i \in 1..(1 - 1) : t[i] = Hook
    OBVIOUS
  <2> QED
    BY <1>2, <2>1 DEF HooksOver
<1> QED
  BY <1>1, <1>2

LEMMA PushShapes ==
  ASSUME NEW s \in Seq(Frame), NEW t, NEW c \in Frame,
         t = <<Hook>> \o (<<c>> \o s) \/ t = <<c>> \o s
  PROVE  \E p \in Nat \ {0} : Follows(t, p, s, 0) /\ HooksOver(t, p, c)
<1>1. CASE t = <<Hook>> \o (<<c>> \o s)
  <2>1. Follows(t, 2, s, 0) /\ t[1] = Hook /\ t[2] = c
    BY <1>1, HookIsFrame, Push2Follows
  <2> QED
    BY <2>1, HookAbove
<1>2. CASE t = <<c>> \o s
  <2>1. Follows(t, 1, s, 0) /\ t[1] = c
    BY <1>2, PushFollows
  <2> QED
    BY <2>1, HookAbove
<1> QED
  BY <1>1, <1>2

LEMMA ReplaceShapes ==
  ASSUME NEW s \in Seq(Frame), s # <<>>, NEW t, NEW c \in Frame,
         t = <<Hook>> \o (<<c>> \o Tail(s)) \/ t = <<c>> \o Tail(s)
  PROVE  \E p \in Nat \ {0} : Follows(t, p, s, 1) /\ HooksOver(t, p, c)
<1>1. CASE t = <<Hook>> \o (<<c>> \o Tail(s))
  <2>1. Follows(t, 2, s, 1) /\ t[1] = Hook /\ t[2] = c
    BY <1>1, HookIsFrame, Replace2Follows
  <2> QED
    BY <2>1, HookAbove
<1>2. CASE t = <<c>> \o Tail(s)
  <2>1. Follows(t, 1, s, 1) /\ t[1] = c
    BY <1>2, ReplaceFollows
  <2> QED
    BY <2>1, HookAbove
<1> QED
  BY <1>1, <1>2

LEMMA OneHook ==
  ASSUME NEW t, t[1] = Hook
  PROVE  \A i \in 1..1 : t[i] = Hook
OBVIOUS

LEMMA PopShapes ==
  ASSUME NEW s \in Seq(Frame), s # <<>>, NEW t, t = <<Hook>> \o Tail(s) \/ t = Tail(s)
  PROVE  \E p \in Nat : Follows(t, p, s, 1) /\ HooksOnly(t, p)
<1>1. CASE t = <<Hook>> \o Tail(s)
  <2>1. Follows(t, 1, s, 1) /\ t[1] = Hook
    BY HookIsFrame, <1>1, ReplaceFollows
  <2>2. \A i \in 1..1 : t[i] = Hook
    BY <2>1, OneHook
  <2> QED
    BY <2>1, <2>2 DEF HooksOnly
<1>2. CASE t = Tail(s)
  <2>1. Follows(t, 0, s, 1)
    BY <1>2, PopFollows
  <2>2. \A i \in 1..0 : t[i] = Hook
    OBVIOUS
  <2> QED
    BY <2>1, <2>2 DEF HooksOnly
<1> QED
  BY <1>1, <1>2

LEMMA cancelAsyncTransactionsStep ==
  ASSUME ~HookReenters, IInv, NEW l \in Layer, cancelAsyncTransactions(l)
  PROVE  IInv'
<1> DEFINE c == [kind |-> "cancel", layer |-> l]
<1>1. /\ InApplication /\ ~InUse(l) /\ commitIfAny(current[l], <<c>> \o stack)
      /\ UNCHANGED <<skipped, operations, layerOf, current, containers, called>>
  BY DEF cancelAsyncTransactions, MayNest, MayUse
<1>2. c \in Frame /\ c.kind = "cancel" /\ c.layer = l /\ stack \in Seq(Frame)
  BY DEF Frame, IInv, TypeInv
<1>3. Hook \in Frame /\ Hook.kind = "hook"
  BY HookIsFrame
<1> HIDE DEF c
<1>4. \A i \in DOMAIN stack : ~Cancels(i, l)
  BY <1>1 DEF InUse, Cancels
<1>5. stack' = <<Hook>> \o (<<c>> \o stack) \/ stack' = <<c>> \o stack
  <2>1. /\ current[l] \in Txn \cup {None}
        /\ current[l] # None => state[current[l]] = "open"
    BY <1>4, OpenIsCurrent
  <2> QED
    BY <1>1, <2>1, commitIfAnyStep DEF Hook
<1>6. PICK p \in Nat \ {0} : Follows(stack', p, stack, 0) /\ HooksOver(stack', p, c)
  BY <1>2, <1>5, PushShapes
<1>7. ASSUME NEW i \in 1..p, NEW f \in {stack'[i]}
      PROVE  /\ f.kind \in {"hook", "cancel", "commit"} /\ (f.kind = "cancel" => f.layer = l)
             /\ \A j \in DOMAIN stack' : i < j => \A g \in {stack'[j]} : MayBeAbove(f, g)
  <2>1. f.kind \in {"hook", "cancel"} /\ (f.kind = "cancel" => f.layer = l)
    BY <1>2, <1>3, <1>6, <1>7 DEF HooksOver
  <2> QED
    BY <2>1 DEF MayBeAbove
<1>8. \E i \in 1..p : Cancels(i, l)'
  BY <1>2, <1>6 DEF Cancels, HooksOver
<1>9. 1 \in DOMAIN stack => \A f \in {stack[1]} : ~MustBeTop(f)
  BY <1>1, NestFacts DEF IInv
<1>10. p \in Nat /\ p > 0 /\ 0 \in {0, 1} /\ 0 # 1
  OBVIOUS
<1> QED
  BY <1>1, <1>4, <1>6, <1>7, <1>8, <1>9, <1>10, CommittingStep

LEMMA commitContainerStep ==
  ASSUME IInv, NEW l \in Layer, commitContainer(l)
  PROVE  IInv'
<1> DEFINE left == Top.layers \ {l}
           c == [Top EXCEPT !.layers = left]
           rest == IF left = {} THEN Tail(stack) ELSE <<c>> \o Tail(stack)
<1>1. /\ stack \in Seq(Frame) /\ stack # <<>> /\ 1 \in DOMAIN stack
      /\ stack[1] \in Frame /\ stack[1].kind = "commit" /\ Top = stack[1]
  BY TopFacts DEF IInv, commitContainer
<1>2. /\ current' = [current EXCEPT ![l] = None] /\ commitIfAny(current[l], rest)
      /\ UNCHANGED <<skipped, operations, layerOf, containers, called>>
  BY DEF commitContainer
<1>3. Top = [kind |-> "commit", layers |-> Top.layers] /\ Top.layers \in SUBSET Layer
  BY <1>1 DEF Frame
<1>4. c \in Frame /\ c.kind = "commit" /\ c.layers = left
  <2>1. c = [kind |-> "commit", layers |-> left]
    BY <1>3
  <2> QED
    BY <1>3, <2>1 DEF Frame
<1>5. left = Top.layers \ {l} /\ rest = IF left = {} THEN Tail(stack) ELSE <<c>> \o Tail(stack)
  OBVIOUS
<1>6. Hook \in Frame /\ Hook.kind = "hook"
  BY HookIsFrame
<1> HIDE DEF left, c, rest
<1>7. \A j \in DOMAIN stack : 1 < j => stack[j].kind \notin {"commit", "cancel"}
  <2>1. TAKE j \in DOMAIN stack
  <2>2. HAVE 1 < j
  <2>3. \A f \in {stack[1]}, g \in {stack[j]} : MayBeAbove(f, g)
    BY <1>1, <2>2 DEF IInv, StackInv, OrderIsRight
  <2> QED
    BY <1>1, <2>3 DEF MayBeAbove
<1>8. \A i \in DOMAIN stack : ~Cancels(i, l)
  <2>1. TAKE i \in DOMAIN stack
  <2>2. CASE i = 1
    BY <1>1, <2>2 DEF Cancels
  <2>3. CASE 1 < i
    BY <1>7, <2>3 DEF Cancels
  <2> QED
    BY <1>1, <2>2, <2>3, LenProperties
<1>9. stack' = <<Hook>> \o rest \/ stack' = rest
  <2>1. /\ current[l] \in Txn \cup {None}
        /\ current[l] # None => state[current[l]] = "open"
    BY <1>8, OpenIsCurrent
  <2> QED
    BY <1>2, <2>1, commitIfAnyStep DEF Hook
<1>10. PICK p \in Nat : /\ Follows(stack', p, stack, 1)
                        /\ \A i \in 1..p : stack'[i] = Hook \/ (stack'[i] = c /\ i = p)
                        /\ left # {} => p > 0 /\ stack'[p] = c
  <2>1. CASE left = {}
    <3>1. stack' = <<Hook>> \o Tail(stack) \/ stack' = Tail(stack)
      BY <1>5, <1>9, <2>1
    <3>2. PICK q \in Nat : Follows(stack', q, stack, 1) /\ HooksOnly(stack', q)
      BY <1>1, <3>1, PopShapes
    <3> QED
      BY <2>1, <3>2 DEF HooksOnly
  <2>2. CASE left # {}
    <3>1. stack' = <<Hook>> \o (<<c>> \o Tail(stack)) \/ stack' = <<c>> \o Tail(stack)
      BY <1>5, <1>9, <2>2
    <3>2. PICK q \in Nat \ {0} : Follows(stack', q, stack, 1) /\ HooksOver(stack', q, c)
      BY <1>1, <1>4, <3>1, ReplaceShapes
    <3> QED
      BY <2>2, <3>2 DEF HooksOver
  <2> QED
    BY <2>1, <2>2
<1>11. ASSUME NEW i \in 1..p, NEW f \in {stack'[i]}
       PROVE  /\ f.kind \in {"hook", "cancel", "commit"} /\ (f.kind = "cancel" => f.layer = l)
              /\ \A j \in DOMAIN stack' : i < j => \A g \in {stack'[j]} : MayBeAbove(f, g)
  <2>1. CASE f = Hook
    BY <1>6, <2>1 DEF MayBeAbove
  <2>2. CASE f = c /\ i = p
    <3>1. \A j \in DOMAIN stack' : i < j => j \in Nat /\ j - p + 1 \in DOMAIN stack /\ 1 < j - p + 1
                                              /\ stack'[j] = stack[j - p + 1]
      BY <1>10, <2>2 DEF Follows
    <3>2. \A j \in DOMAIN stack' : i < j => stack'[j].kind \notin {"commit", "cancel"}
      BY <1>7, <3>1
    <3> QED
      BY <1>4, <2>2, <3>2 DEF MayBeAbove
  <2> QED
    BY <1>10, <1>11, <2>1, <2>2
<1>12. \A k \in Layer \ {l} : Commits(1, k) => \E i \in 1..p : Commits(i, k)'
  BY <1>1, <1>4, <1>5, <1>10 DEF Commits
<1>13. current'[l] = None
  BY <1>2 DEF IInv, TypeInv, TypeOK
<1>14. /\ \A k \in Layer \ {l} : 1 = 1 /\ Commits(1, k) => \E i \in 1..p : Commits(i, k)'
       /\ UNCHANGED <<skipped, operations, layerOf, containers, called>>
       /\ current' = current \/ current' = [current EXCEPT ![l] = None]
       /\ stack[1].kind = "commit"
       /\ Follows(stack', p, stack, 1)
  BY <1>1, <1>2, <1>10, <1>12
<1>15. PICK d \in {0, 1} : d = 1
  OBVIOUS
<1>16. /\ Follows(stack', p, stack, d)
       /\ p > 0 \/ d = 1
       /\ d = 0 /\ 1 \in DOMAIN stack => \A f \in {stack[1]} : ~MustBeTop(f)
       /\ d = 1 => stack[1].kind = "commit"
       /\ \A k \in Layer \ {l} : d = 1 /\ Commits(1, k) => \E i \in 1..p : Commits(i, k)'
       /\ current'[l] = None \/ \E i \in 1..p : Cancels(i, l)'
  BY <1>12, <1>13, <1>14, <1>15
<1> QED
  BY <1>2, <1>8, <1>11, <1>14, <1>16, CommittingStep

LEMMA cancelLayerStep ==
  ASSUME IInv, cancelLayer
  PROVE  IInv'
<1>1. /\ stack \in Seq(Frame) /\ stack # <<>> /\ 1 \in DOMAIN stack
      /\ stack[1] \in Frame /\ stack[1].kind = "cancel" /\ Top = stack[1]
  BY TopFacts DEF IInv, cancelLayer
<1>2. PICK l : l = Top.layer
  OBVIOUS
<1>3. /\ current' = [current EXCEPT ![l] = None]
      /\ state' = [t \in Txn |-> IF t \in transactions[l] THEN "canceled" ELSE state[t]]
      /\ stack' = Tail(stack)
      /\ UNCHANGED <<groupVars, skipped, operations, layerOf, transactions, containers, mainQueue, historyVars>>
  BY <1>2 DEF cancelLayer
<1>4. l \in Layer /\ \A t \in Txn : state[t] = "open" => layerOf[t] # l
  <2>1. \A f \in {stack[1]} : FrameIsRight(f) /\ (f.kind = "cancel" => f.layer \in Layer)
    BY <1>1, FrameOf
  <2> QED
    BY <1>1, <1>2, <2>1 DEF FrameIsRight
<1>5. state \in [Txn -> {"none", "open", "committed", "canceled", "complete"}]
      /\ current \in [Layer -> Txn \cup {None}]
  BY DEF IInv, TypeInv, TypeOK
<1>6. \A t \in transactions[l] : t \in Txn /\ layerOf[t] = l /\ ~Finished(t) /\ operations[t] # <<>>
                                   /\ state[t] \in {"committed", "canceled"}
  BY <1>4, <1>5 DEF IInv, LifeInv, Finished
<1>7. \A t \in Txn : \/ state'[t] = state[t]
                     \/ /\ state'[t] = "canceled" /\ state[t] = "committed" /\ operations[t] # <<>>
                        /\ ~Finished(t)
  BY <1>3, <1>6
<1>8. \A t \in Txn : Finished(t)' <=> Finished(t)
  BY <1>3, <1>7 DEF Finished
<1>9. Follows(stack', 0, stack, 1)
  BY <1>1, <1>3, PopFollows
<1>10. TypeInv'
  BY <1>3, <1>4, <1>9 DEF IInv, TypeInv, TypeOK, groupVars, historyVars, Follows
<1>11. GroupInv'
  <2>1. \A t \in Txn : notified'[t] = "none" <=> state'[t] \in {"none", "open"} \/ operations'[t] = <<>>
    BY <1>3, <1>7 DEF IInv, GroupInv, groupVars
  <2>2. \A t \in Txn : notified'[t] = "fired" => G!Settled(t)'
    BY <1>3 DEF IInv, GroupInv, groupVars, G!Settled
  <2> QED
    BY <1>3, <2>1, <2>2 DEF IInv, GroupInv, groupVars
<1>12. LifeInv'
  <2>1. \A t \in Txn : /\ state'[t] = "none" => operations'[t] = <<>>
                       /\ state'[t] \in {"canceled", "complete"} => operations'[t] # <<>>
                       /\ state'[t] = "none" <=> state[t] = "none"
    BY <1>3, <1>7 DEF IInv, LifeInv
  <2>2. \A t \in Txn : completed'[t] # <<>> <=> Finished(t)'
    BY <1>3, <1>8 DEF IInv, LifeInv, historyVars
  <2>3. \A k \in Layer : transactions'[k] = {t \in Txn : layerOf'[t] = k /\ state'[t] # "none" /\ ~Finished(t)'}
    BY <1>3, <1>8, <2>1 DEF IInv, LifeInv
  <2> QED
    BY <2>1, <2>2, <2>3 DEF LifeInv
<1>13. \A i \in DOMAIN stack : i > 1 => /\ \E j \in DOMAIN stack' : stack'[j] = stack[i]
                                        /\ stack[i] \in Rest(1)
  BY <1>9, RestRemains
<1>14. \A i \in DOMAIN stack : i > 1 \/ (i = 1 /\ stack[1].kind = "cancel" /\ stack[1].layer = l)
  BY <1>1, <1>2, <1>9 DEF Follows
<1>15. LayerInv'
  <2>1. ASSUME NEW u \in Txn, state'[u] = "open"
        PROVE  /\ current'[layerOf'[u]] = u
               /\ layerOf'[u] \in containers' \/ \E i \in DOMAIN stack' : Commits(i, layerOf[u])'
    <3>1. state[u] = "open" /\ layerOf[u] \in Layer /\ layerOf[u] # l
      BY <1>4, <1>7, <2>1 DEF IInv, TypeInv
    <3>2. current[layerOf[u]] = u /\ (layerOf[u] \in containers \/ \E i \in DOMAIN stack : Commits(i, layerOf[u]))
      BY <3>1 DEF IInv, LayerInv
    <3>3. ASSUME NEW i \in DOMAIN stack, Commits(i, layerOf[u])
          PROVE  \E j \in DOMAIN stack' : Commits(j, layerOf[u])'
      BY <1>3, <1>13, <1>14, <3>3 DEF Commits
    <3> QED
      BY <1>3, <1>5, <3>1, <3>2, <3>3
  <2>2. ASSUME NEW k \in Layer, current'[k] # None
        PROVE  /\ layerOf'[current'[k]] = k
               /\ state'[current'[k]] = "open" \/ \E i \in DOMAIN stack' : Cancels(i, k)'
    <3>1. current'[k] = current[k] /\ k # l
      BY <1>3, <1>5, <2>2
    <3>2. current[k] \in Txn /\ layerOf[current[k]] = k
          /\ (state[current[k]] = "open" \/ \E i \in DOMAIN stack : Cancels(i, k))
      BY <1>5, <2>2, <3>1 DEF IInv, LayerInv
    <3>3. state[current[k]] = "open" => state'[current[k]] = "open"
      BY <1>7, <3>2
    <3>4. ASSUME NEW i \in DOMAIN stack, Cancels(i, k) PROVE \E j \in DOMAIN stack' : Cancels(j, k)'
      BY <1>13, <1>14, <3>1, <3>4 DEF Cancels
    <3> QED
      BY <1>3, <3>1, <3>2, <3>3, <3>4
  <2> QED
    BY <2>1, <2>2 DEF LayerInv
<1>16. CallInv'
  <2>1. ASSUME NEW u \in Txn, NEW i \in DOMAIN stack, Completes(i, u)
        PROVE  \E j \in DOMAIN stack' : Completes(j, u)'
    BY <1>13, <1>14, <2>1 DEF Completes
  <2>2. \A u \in Txn : (state'[u] = "complete" <=> state[u] = "complete")
                       /\ (state[u] = "canceled" => state'[u] = "canceled")
    BY <1>7
  <2>3. skipped \subseteq Op /\ owner \in [Op -> Txn]
    BY DEF IInv, TypeInv, TypeOK
  <2>4. \A o \in skipped' : /\ phase'[o] # "idle"
                            /\ state'[owner'[o]] = "canceled" \/ completed'[owner'[o]] = <<TRUE>>
    BY <1>3, <2>2, <2>3 DEF IInv, CallInv, groupVars, historyVars
  <2>5. \A u \in Txn : called'[u] # <<>> => state'[u] = "complete" \/ \E i \in DOMAIN stack' : Completes(i, u)'
    BY <1>3, <2>1, <2>2 DEF IInv, CallInv, historyVars
  <2>6. \A u \in Txn : state'[u] = "complete" => called'[u] = operations'[u]
    BY <1>3, <2>2 DEF IInv, CallInv, historyVars
  <2> QED
    BY <2>4, <2>5, <2>6 DEF CallInv
<1>17. ASSUME NEW i \in DOMAIN stack, NEW f \in {stack[i]} PROVE FrameStays(f)
  <2>1. f.kind \in {"wait", "waited", "returning", "complete"} => f.txn \in Txn
    BY <1>17, FrameOf
  <2>2. FrameIsRight(f) => FrameIsRight(f)'
    <3>1. SUFFICES ASSUME FrameIsRight(f) PROVE FrameIsRight(f)'
      OBVIOUS
    <3>2. f.kind = "cancel" => \A t \in Txn : state'[t] = "open" => layerOf'[t] # f.layer
      BY <1>3, <1>7, <3>1 DEF FrameIsRight
    <3>3. f.kind \in {"wait", "waited"} => operations'[f.txn] # <<>> /\ state'[f.txn] # "none"
      BY <1>3, <1>7, <2>1, <3>1 DEF FrameIsRight
    <3>4. f.kind \in {"waited", "complete"} => G!Settled(f.txn)'
      BY <1>3, <3>1 DEF FrameIsRight, groupVars, G!Settled
    <3>5. f.kind = "complete" =>
            /\ state'[f.txn] \in {"committed", "canceled"} /\ operations'[f.txn] # <<>>
            /\ called'[f.txn] \o f.todo = operations'[f.txn]
            /\ ~f.isCanceled => \A o \in skipped' : owner'[o] # f.txn
      BY <1>3, <1>7, <2>1, <3>1 DEF FrameIsRight, groupVars, historyVars
    <3> QED
      BY <3>2, <3>3, <3>4, <3>5 DEF FrameIsRight
  <2>3. (NeedsHelp(f)' => NeedsHelp(f)) /\ (MustBeTop(f)' => MustBeTop(f))
    BY <1>3, <1>7, <2>1 DEF NeedsHelp, MustBeTop
  <2> QED
    BY <2>2, <2>3 DEF FrameStays
<1>18. \A f \in Rest(1) : FrameStays(f)
  BY <1>17 DEF Rest
<1>19. \A f \in Rest(1) : \A g \in {stack[1]} : ~Helps(g, f)
  BY <1>1 DEF Helps
<1>20. WaitIsRight'
  BY <1>9, NotWaiting DEF IInv, StackInv
<1>21. FramesAreRight' /\ OrderIsRight' /\ PlacesAreRight'
  <2>1. UNCHANGED layerOf /\ 0 \in Nat /\ 1 \in {0, 1} /\ \A i \in 1..0 : FALSE
    BY <1>3
  <2> QED
    BY <1>9, <1>18, <1>19, <2>1, StackStep DEF IInv, StackInv
<1> QED
  BY <1>10, <1>11, <1>12, <1>15, <1>16, <1>20, <1>21 DEF IInv, StackInv

(* A completion block is called: what is called grows by what is to do.     *)
LEMMA MoveHead ==
  ASSUME NEW s \in Seq(Op), NEW u \in Seq(Op), u # <<>>
  PROVE  /\ Append(s, Head(u)) \in Seq(Op) /\ Append(s, Head(u)) # <<>> /\ Tail(u) \in Seq(Op)
         /\ Append(s, Head(u)) \o Tail(u) = s \o u
<1> DEFINE a == Append(s, Head(u))
           m == Len(s)
           n == Len(Tail(u))
<1>1. /\ m \in Nat /\ n \in Nat /\ Len(u) = n + 1 /\ Tail(u) \in Seq(Op) /\ Head(u) \in Op
      /\ Head(u) = u[1] /\ \A i \in 1..n : Tail(u)[i] = u[i + 1]
  BY HeadTailProperties, EmptySeq, LenProperties
<1>2. /\ a \in Seq(Op) /\ Len(a) = m + 1 /\ a[m + 1] = u[1] /\ \A i \in 1..m : a[i] = s[i]
  BY <1>1, AppendProperties
<1>3. a # <<>>
  BY <1>1, <1>2, EmptySeq
<1>4. /\ a \o Tail(u) \in Seq(Op) /\ Len(a \o Tail(u)) = m + 1 + n
      /\ \A i \in 1..(m + 1 + n) : (a \o Tail(u))[i] = IF i <= m + 1 THEN a[i] ELSE Tail(u)[i - (m + 1)]
  BY <1>1, <1>2, ConcatProperties
<1>5. /\ s \o u \in Seq(Op) /\ Len(s \o u) = m + (n + 1)
      /\ \A i \in 1..(m + (n + 1)) : (s \o u)[i] = IF i <= m THEN s[i] ELSE u[i - m]
  BY <1>1, ConcatProperties
<1> HIDE DEF a, m, n
<1>6. \A i \in 1..(m + 1 + n) : (a \o Tail(u))[i] = (s \o u)[i]
  <2>1. TAKE i \in 1..(m + 1 + n)
  <2>2. /\ (a \o Tail(u))[i] = IF i <= m + 1 THEN a[i] ELSE Tail(u)[i - (m + 1)]
        /\ (s \o u)[i] = IF i <= m THEN s[i] ELSE u[i - m]
    BY <1>1, <1>4, <1>5
  <2>3. CASE i <= m
    BY <1>1, <1>2, <2>2, <2>3
  <2>4. CASE i = m + 1
    <3>1. ~(i <= m) /\ i <= m + 1 /\ i - m = 1
      BY <1>1, <2>4
    <3> QED
      BY <1>2, <2>2, <2>4, <3>1
  <2>5. CASE i > m + 1
    <3>1. ~(i <= m) /\ ~(i <= m + 1) /\ i - (m + 1) \in 1..n /\ (i - (m + 1)) + 1 = i - m
      BY <1>1, <2>5
    <3>2. Tail(u)[i - (m + 1)] = u[(i - (m + 1)) + 1]
      BY <1>1, <3>1
    <3> QED
      BY <2>2, <3>1, <3>2
  <2>6. i \in Nat /\ (i <= m \/ i = m + 1 \/ i > m + 1)
    BY <1>1
  <2> QED
    BY <2>3, <2>4, <2>5, <2>6
<1>7. a \o Tail(u) = s \o u
  <2>1. m + 1 + n = m + (n + 1)
    BY <1>1
  <2> QED
    BY <1>4, <1>5, <1>6, <2>1, SeqEqual
<1> QED
  BY <1>1, <1>2, <1>3, <1>7 DEF a

(* What completes a transaction is alone in that.                           *)
CompleteFrame(t, todo, canceled) == [kind |-> "complete", txn |-> t, todo |-> todo, isCanceled |-> canceled]

LEMMA CompleteFrameFacts ==
  ASSUME NEW t \in Txn, NEW todo \in Seq(Op), NEW canceled \in BOOLEAN
  PROVE  /\ CompleteFrame(t, todo, canceled) \in Frame
         /\ CompleteFrame(t, todo, canceled).kind = "complete"
         /\ CompleteFrame(t, todo, canceled).txn = t
         /\ CompleteFrame(t, todo, canceled).todo = todo
         /\ CompleteFrame(t, todo, canceled).isCanceled = canceled
         /\ [CompleteFrame(t, todo, canceled) EXCEPT !.todo = Tail(@)] = CompleteFrame(t, Tail(todo), canceled)
<1>1. CompleteFrame(t, todo, canceled) \in Frame
  BY DEF CompleteFrame, Frame
<1>2. /\ CompleteFrame(t, todo, canceled).kind = "complete"
      /\ CompleteFrame(t, todo, canceled).txn = t
      /\ CompleteFrame(t, todo, canceled).todo = todo
      /\ CompleteFrame(t, todo, canceled).isCanceled = canceled
  BY DEF CompleteFrame
<1>3. [CompleteFrame(t, todo, canceled) EXCEPT !.todo = Tail(@)] = CompleteFrame(t, Tail(todo), canceled)
  <2> DEFINE left == Tail(todo)
             c == CompleteFrame(t, todo, canceled)
  <2>1. [c EXCEPT !.todo = Tail(@)] = [c EXCEPT !.todo = left]
    BY <1>2
  <2> HIDE DEF left
  <2>2. [c EXCEPT !.todo = left] = CompleteFrame(t, left, canceled)
    BY DEF CompleteFrame
  <2> QED
    BY <2>1, <2>2 DEF left
<1> QED
  BY <1>1, <1>2, <1>3

LEMMA CompleteFacts ==
  ASSUME IInv, TopIs("complete")
  PROVE  \E t \in Txn, todo \in Seq(Op), canceled \in BOOLEAN :
           /\ stack \in Seq(Frame) /\ stack # <<>> /\ 1 \in DOMAIN stack
           /\ Top = stack[1] /\ stack[1] = CompleteFrame(t, todo, canceled)
           /\ state[t] \in {"committed", "canceled"} /\ operations[t] # <<>> /\ G!Settled(t)
           /\ called[t] \o todo = operations[t]
           /\ ~canceled => \A o \in skipped : owner[o] # t
           /\ \A f \in Rest(1) : f.kind = "complete" => f.txn \in Txn \ {t}
<1>1. /\ stack \in Seq(Frame) /\ stack # <<>> /\ 1 \in DOMAIN stack
      /\ stack[1] \in Frame /\ stack[1].kind = "complete" /\ Top = stack[1]
  BY TopFacts DEF IInv
<1>2. PICK t \in Txn, todo \in Seq(Op), canceled \in BOOLEAN : stack[1] = CompleteFrame(t, todo, canceled)
  BY <1>1 DEF Frame, CompleteFrame
<1>3. \A f \in {stack[1]} : FrameIsRight(f) /\ f.kind = "complete" /\ f.txn = t /\ f.todo = todo
                              /\ f.isCanceled = canceled
  BY <1>1, <1>2, FrameOf, CompleteFrameFacts
<1>4. ASSUME NEW j \in DOMAIN stack, j > 1, stack[j].kind = "complete" PROVE stack[j].txn \in Txn \ {t}
  <2>1. \A f \in {stack[1]}, g \in {stack[j]} : MayBeAbove(f, g) /\ (g.kind = "complete" => g.txn \in Txn)
    BY <1>1, <1>4, FrameOf DEF IInv, StackInv, OrderIsRight
  <2> QED
    BY <1>3, <1>4, <2>1 DEF MayBeAbove
<1>5. /\ state[t] \in {"committed", "canceled"} /\ operations[t] # <<>> /\ G!Settled(t)
      /\ called[t] \o todo = operations[t]
      /\ ~canceled => \A o \in skipped : owner[o] # t
  BY <1>3 DEF FrameIsRight
<1> QED
  BY <1>1, <1>2, <1>4, <1>5 DEF Rest

LEMMA callCompletionBlockStep ==
  ASSUME IInv, callCompletionBlock
  PROVE  IInv'
<1>1. PICK t \in Txn, todo \in Seq(Op), canceled \in BOOLEAN :
           /\ stack \in Seq(Frame) /\ stack # <<>> /\ 1 \in DOMAIN stack
           /\ Top = stack[1] /\ stack[1] = CompleteFrame(t, todo, canceled)
           /\ state[t] \in {"committed", "canceled"} /\ operations[t] # <<>> /\ G!Settled(t)
           /\ called[t] \o todo = operations[t]
           /\ ~canceled => \A o \in skipped : owner[o] # t
           /\ \A f \in Rest(1) : f.kind = "complete" => f.txn \in Txn \ {t}
  BY CompleteFacts DEF callCompletionBlock
<1> DEFINE c == CompleteFrame(t, Tail(todo), canceled)
<1>2. /\ todo # <<>> /\ called' = [called EXCEPT ![t] = Append(@, Head(todo))]
      /\ stack' = <<c>> \o Tail(stack)
      /\ UNCHANGED <<groupVars, skipped, state, operations, layerVars, mainQueue, completed>>
  <2>1. Top.txn = t /\ Top.todo = todo /\ [Top EXCEPT !.todo = Tail(@)] = c
    BY <1>1, CompleteFrameFacts
  <2> QED
    BY <2>1 DEF callCompletionBlock
<1>3. called \in [Txn -> Seq(Op)]
  BY DEF IInv, TypeInv
<1>4. /\ Append(called[t], Head(todo)) \in Seq(Op) /\ Append(called[t], Head(todo)) # <<>>
      /\ Tail(todo) \in Seq(Op)
      /\ Append(called[t], Head(todo)) \o Tail(todo) = called[t] \o todo
  BY <1>1, <1>2, <1>3, MoveHead
<1>5. /\ called' \in [Txn -> Seq(Op)] /\ called'[t] \o Tail(todo) = called[t] \o todo
      /\ \A u \in Txn \ {t} : called'[u] = called[u]
  BY <1>1, <1>2, <1>3, <1>4
<1>7. /\ c \in Frame /\ c.kind = "complete" /\ c.txn = t /\ c.todo = Tail(todo)
      /\ c.isCanceled = canceled
  <2> DEFINE left == Tail(todo)
  <2>1. left \in Seq(Op) /\ c = CompleteFrame(t, left, canceled)
    BY <1>4
  <2> HIDE DEF left, c
  <2>2. /\ c \in Frame /\ c.kind = "complete" /\ c.txn = t /\ c.todo = left
        /\ c.isCanceled = canceled
    BY <2>1, CompleteFrameFacts
  <2> QED
    BY <2>2 DEF left
<1>8. stack[1].kind = "complete" /\ stack[1].txn = t
  BY <1>1, CompleteFrameFacts
<1> HIDE DEF c
<1>9. Follows(stack', 1, stack, 1) /\ stack'[1] = c
  BY <1>1, <1>2, <1>7, ReplaceFollows
<1>10. \A i \in DOMAIN stack : i > 1 => /\ \E j \in DOMAIN stack' : stack'[j] = stack[i]
                                        /\ stack[i] \in Rest(1)
  BY <1>9, RestRemains
<1>11. \A i \in DOMAIN stack : i > 1 \/ (i = 1 /\ stack[1].kind = "complete" /\ stack[1].txn = t)
  BY <1>8, <1>9 DEF Follows
<1>12. TypeInv'
  BY <1>2, <1>5, <1>9 DEF IInv, TypeInv, TypeOK, groupVars, layerVars, Follows
<1>13. GroupInv' /\ LifeInv'
  <2>1. GroupInv'
    BY <1>2 DEF IInv, GroupInv, groupVars, G!Settled
  <2>2. LifeInv'
    BY <1>2 DEF IInv, LifeInv, Finished, layerVars
  <2> QED
    BY <2>1, <2>2
<1>14. LayerInv'
  <2>1. ASSUME NEW l, NEW i \in DOMAIN stack, Commits(i, l) PROVE \E j \in DOMAIN stack' : Commits(j, l)'
    BY <1>10, <1>11, <2>1 DEF Commits
  <2>2. ASSUME NEW l, NEW i \in DOMAIN stack, Cancels(i, l) PROVE \E j \in DOMAIN stack' : Cancels(j, l)'
    BY <1>10, <1>11, <2>2 DEF Cancels
  <2>3. UNCHANGED <<state, current, layerOf, containers>>
    BY <1>2 DEF layerVars
  <2>4. \A u \in Txn : state'[u] = "open" =>
          /\ current'[layerOf'[u]] = u
          /\ layerOf'[u] \in containers' \/ \E i \in DOMAIN stack' : Commits(i, layerOf[u])'
    BY <2>1, <2>3 DEF IInv, LayerInv, Commits
  <2>5. \A l \in Layer : current'[l] # None =>
          /\ layerOf'[current'[l]] = l
          /\ state'[current'[l]] = "open" \/ \E i \in DOMAIN stack' : Cancels(i, l)'
    BY <2>2, <2>3 DEF IInv, LayerInv
  <2> QED
    BY <2>4, <2>5 DEF LayerInv
<1>15. CallInv'
  <2>1. Completes(1, t)' /\ 1 \in DOMAIN stack'
    BY <1>7, <1>9 DEF Completes, Follows
  <2>2. ASSUME NEW u \in Txn \ {t}, NEW i \in DOMAIN stack, Completes(i, u)
        PROVE  \E j \in DOMAIN stack' : Completes(j, u)'
    BY <1>10, <1>11, <2>2 DEF Completes
  <2>3. \A u \in Txn : called'[u] # <<>> => state'[u] = "complete" \/ \E i \in DOMAIN stack' : Completes(i, u)'
    <3>1. TAKE u \in Txn
    <3>2. CASE u = t
      BY <2>1, <3>2 DEF Completes
    <3>3. CASE u # t
      BY <1>2, <1>5, <2>2, <3>3 DEF IInv, CallInv
    <3> QED
      BY <3>2, <3>3
  <2>4. \A u \in Txn : state'[u] = "complete" => called'[u] = operations'[u]
    BY <1>1, <1>2, <1>5 DEF IInv, CallInv
  <2>5. \A o \in skipped' : /\ phase'[o] # "idle"
                            /\ state'[owner'[o]] = "canceled" \/ completed'[owner'[o]] = <<TRUE>>
    BY <1>2 DEF IInv, CallInv, groupVars
  <2> QED
    BY <2>3, <2>4, <2>5 DEF CallInv
<1>16. ASSUME NEW f, f.kind = "complete" => f.txn \in Txn \ {t} PROVE FrameStays(f)
  <2>1. FrameIsRight(f) => FrameIsRight(f)'
    BY <1>2, <1>5, <1>16 DEF FrameIsRight, groupVars, layerVars, G!Settled
  <2>2. (NeedsHelp(f)' => NeedsHelp(f)) /\ (MustBeTop(f)' => MustBeTop(f))
    BY <1>2 DEF NeedsHelp, MustBeTop
  <2> QED
    BY <2>1, <2>2 DEF FrameStays
<1>17. \A f \in Rest(1) : FrameStays(f)
  <2>1. ASSUME NEW i \in DOMAIN stack, i > 1, NEW f \in {stack[i]} PROVE FrameStays(f)
    <3>1. f \in Rest(1)
      BY <2>1 DEF Rest
    <3> QED
      BY <1>1, <1>16, <3>1
  <2> QED
    BY <2>1 DEF Rest
<1>18. FrameIsRight(c)' /\ ~MustBeTop(c)' /\ ~NeedsHelp(c)'
  <2>1. c.kind = "complete" =>
          /\ state'[c.txn] \in {"committed", "canceled"} /\ operations'[c.txn] # <<>> /\ G!Settled(c.txn)'
          /\ called'[c.txn] \o c.todo = operations'[c.txn]
          /\ ~c.isCanceled => \A o \in skipped' : owner'[o] # c.txn
    BY <1>1, <1>2, <1>5, <1>7 DEF groupVars, G!Settled
  <2> QED
    BY <1>7, <2>1 DEF FrameIsRight, MustBeTop, NeedsHelp
<1>19. \A j \in DOMAIN stack' : 1 < j => \A g \in {stack'[j]} : MayBeAbove(c, g)
  <2>1. TAKE j \in DOMAIN stack'
  <2>2. HAVE 1 < j
  <2>3. j - 1 + 1 \in DOMAIN stack /\ stack'[j] = stack[j - 1 + 1] /\ j - 1 + 1 > 1
    BY <1>9, <2>2 DEF Follows
  <2>4. stack'[j] \in Rest(1)
    BY <2>3 DEF Rest
  <2> QED
    BY <1>1, <1>7, <2>4 DEF MayBeAbove
<1>20. \A i \in 1..1 : \A f \in {stack'[i]} :
            /\ FrameIsRight(f)'
            /\ MustBeTop(f)' => i = 1
            /\ NeedsHelp(f)' => \E j \in 1..(i - 1) : \E g \in {stack'[j]} : Helps(g, f)'
            /\ \A j \in DOMAIN stack' : i < j => \A g \in {stack'[j]} : MayBeAbove(f, g)
  BY <1>9, <1>18, <1>19
<1>21. \A f \in Rest(1) : \A g \in {stack[1]} : Helps(g, f) => \E i \in 1..1 : \E h \in {stack'[i]} : Helps(h, f)'
  BY <1>7, <1>8, <1>9 DEF Helps
<1>22. WaitIsRight'
  BY <1>7, <1>9, NotWaiting DEF IInv, StackInv
<1>23. FramesAreRight' /\ OrderIsRight' /\ PlacesAreRight'
  <2>1. UNCHANGED layerOf
    BY <1>2 DEF layerVars
  <2> QED
    BY <1>9, <1>17, <1>20, <1>21, <2>1, StackStep DEF IInv, StackInv
<1> QED
  BY <1>12, <1>13, <1>14, <1>15, <1>22, <1>23 DEF IInv, StackInv

LEMMA finishCompletionStep ==
  ASSUME IInv, finishCompletion
  PROVE  IInv'
<1>1. PICK t \in Txn, todo \in Seq(Op), canceled \in BOOLEAN :
           /\ stack \in Seq(Frame) /\ stack # <<>> /\ 1 \in DOMAIN stack
           /\ Top = stack[1] /\ stack[1] = CompleteFrame(t, todo, canceled)
           /\ state[t] \in {"committed", "canceled"} /\ operations[t] # <<>> /\ G!Settled(t)
           /\ called[t] \o todo = operations[t]
           /\ ~canceled => \A o \in skipped : owner[o] # t
           /\ \A f \in Rest(1) : f.kind = "complete" => f.txn \in Txn \ {t}
  BY CompleteFacts DEF finishCompletion
<1>2. stack[1].kind = "complete" /\ stack[1].txn = t /\ Top.txn = t /\ Top.todo = todo /\ Top.isCanceled = canceled
  BY <1>1, CompleteFrameFacts
<1>3. /\ todo = <<>> /\ state' = [state EXCEPT ![t] = "complete"]
      /\ transactions' = [transactions EXCEPT ![layerOf[t]] = @ \ {t}]
      /\ completed' = [completed EXCEPT ![t] = Append(@, canceled)]
      /\ stack' = <<Hook>> \o Tail(stack)
      /\ UNCHANGED <<groupVars, skipped, operations, current, containers, layerOf, mainQueue, called>>
  BY <1>2 DEF finishCompletion, completionBlock, Hook
<1>4. /\ state \in [Txn -> {"none", "open", "committed", "canceled", "complete"}]
      /\ completed \in [Txn -> Outcomes] /\ transactions \in [Layer -> SUBSET Txn]
      /\ called \in [Txn -> Seq(Op)] /\ layerOf \in [Txn -> Layer]
      /\ skipped \subseteq Op /\ owner \in [Op -> Txn]
  BY DEF IInv, TypeInv, TypeOK
<1>5. called[t] = operations[t]
  BY <1>1, <1>3, <1>4, ConcatEmptySeq
<1>6. completed[t] = <<>> /\ ~Finished(t)
  BY <1>1 DEF IInv, LifeInv, Finished
<1>7. PICK outcome \in Outcomes : /\ outcome # <<>> /\ (canceled => outcome = <<TRUE>>)
                                  /\ completed' = [completed EXCEPT ![t] = outcome]
  <2>1. Append(completed[t], canceled) = <<canceled>>
    BY <1>6
  <2>2. completed' = [completed EXCEPT ![t] = <<canceled>>]
    BY <1>3, <2>1
  <2>3. <<canceled>> # <<>> /\ (canceled => <<canceled>> = <<TRUE>>) /\ (~canceled => <<canceled>> = <<FALSE>>)
    OBVIOUS
  <2>4. <<canceled>> \in Outcomes
    BY <2>3 DEF Outcomes
  <2> DEFINE outcome == <<canceled>>
  <2>5. outcome \in Outcomes /\ outcome # <<>> /\ (canceled => outcome = <<TRUE>>)
        /\ completed' = [completed EXCEPT ![t] = outcome]
    BY <2>2, <2>3, <2>4
  <2> HIDE DEF outcome
  <2> QED
    BY <2>5
<1>8. /\ completed' \in [Txn -> Outcomes] /\ completed'[t] # <<>> /\ (canceled => completed'[t] = <<TRUE>>)
      /\ \A u \in Txn \ {t} : completed'[u] = completed[u]
  BY <1>4, <1>7
<1>9. /\ state' \in [Txn -> {"none", "open", "committed", "canceled", "complete"}]
      /\ state'[t] = "complete" /\ \A u \in Txn \ {t} : state'[u] = state[u]
  BY <1>3, <1>4
<1>10. /\ transactions' \in [Layer -> SUBSET Txn]
       /\ \A l \in Layer : transactions'[l] = IF l = layerOf[t] THEN transactions[l] \ {t} ELSE transactions[l]
  BY <1>3, <1>4
<1>11. Follows(stack', 1, stack, 1) /\ stack'[1] = Hook /\ Hook.kind = "hook"
  BY <1>1, <1>3, HookIsFrame, ReplaceFollows
<1>12. \A i \in DOMAIN stack : i > 1 => /\ \E j \in DOMAIN stack' : stack'[j] = stack[i]
                                        /\ stack[i] \in Rest(1)
  BY <1>11, RestRemains
<1>13. \A i \in DOMAIN stack : i > 1 \/ (i = 1 /\ stack[1].kind = "complete" /\ stack[1].txn = t)
  BY <1>2, <1>11 DEF Follows
<1>14. TypeInv'
  BY <1>3, <1>8, <1>9, <1>10, <1>11 DEF IInv, TypeInv, TypeOK, groupVars, Follows
<1>15. GroupInv'
  <2>1. \A u \in Txn : notified'[u] = "none" <=> state'[u] \in {"none", "open"} \/ operations'[u] = <<>>
    <3>1. TAKE u \in Txn
    <3>2. notified[u] = "none" <=> state[u] \in {"none", "open"} \/ operations[u] = <<>>
      BY DEF IInv, GroupInv
    <3>3. CASE u = t
      BY <1>1, <1>3, <1>9, <3>2, <3>3 DEF groupVars
    <3>4. CASE u # t
      BY <1>3, <1>9, <3>2, <3>4 DEF groupVars
    <3> QED
      BY <3>3, <3>4
  <2>2. \A u \in Txn : notified'[u] = "fired" => G!Settled(u)'
    BY <1>3 DEF IInv, GroupInv, groupVars, G!Settled
  <2>3. \A i \in DOMAIN mainQueue' : notified'[mainQueue'[i]] = "fired"
    BY <1>3 DEF IInv, GroupInv, groupVars
  <2>4. \A o \in Op : phase'[o] # "idle" => operations'[owner'[o]] # <<>>
    BY <1>3 DEF IInv, GroupInv, groupVars
  <2> QED
    BY <2>1, <2>2, <2>3, <2>4 DEF GroupInv
<1>16. \A u \in Txn : Finished(u)' <=> (Finished(u) \/ u = t)
  BY <1>3, <1>9 DEF Finished
<1>17. LifeInv'
  <2>1. /\ \A u \in Txn : state'[u] = "none" => operations'[u] = <<>>
        /\ \A u \in Txn : state'[u] \in {"canceled", "complete"} => operations'[u] # <<>>
    BY <1>1, <1>3, <1>9 DEF IInv, LifeInv
  <2>2. \A u \in Txn : completed'[u] # <<>> <=> Finished(u)'
    <3>1. TAKE u \in Txn
    <3>2. CASE u = t
      BY <1>8, <1>16, <3>2
    <3>3. CASE u # t
      BY <1>8, <1>16, <3>3 DEF IInv, LifeInv
    <3> QED
      BY <3>2, <3>3
  <2>3. \A l \in Layer : transactions'[l] = {u \in Txn : layerOf'[u] = l /\ state'[u] # "none" /\ ~Finished(u)'}
    BY <1>3, <1>9, <1>10, <1>16 DEF IInv, LifeInv
  <2> QED
    BY <2>1, <2>2, <2>3 DEF LifeInv
<1>18. LayerInv'
  <2>1. ASSUME NEW l, NEW i \in DOMAIN stack, Commits(i, l) PROVE \E j \in DOMAIN stack' : Commits(j, l)'
    BY <1>12, <1>13, <2>1 DEF Commits
  <2>2. ASSUME NEW l, NEW i \in DOMAIN stack, Cancels(i, l) PROVE \E j \in DOMAIN stack' : Cancels(j, l)'
    BY <1>12, <1>13, <2>2 DEF Cancels
  <2>3. \A u \in Txn : state'[u] = "open" <=> state[u] = "open"
    BY <1>1, <1>9
  <2>4. \A u \in Txn : state'[u] = "open" =>
          /\ current'[layerOf'[u]] = u
          /\ layerOf'[u] \in containers' \/ \E i \in DOMAIN stack' : Commits(i, layerOf[u])'
    BY <1>3, <2>1, <2>3 DEF IInv, LayerInv, Commits
  <2>5. \A l \in Layer : current'[l] # None =>
          /\ layerOf'[current'[l]] = l
          /\ state'[current'[l]] = "open" \/ \E i \in DOMAIN stack' : Cancels(i, l)'
    <3>1. TAKE l \in Layer
    <3>2. HAVE current'[l] # None
    <3>3. current[l] \in Txn /\ layerOf[current[l]] = l /\ (state[current[l]] = "open" \/ \E i \in DOMAIN stack : Cancels(i, l))
      BY <1>3, <3>2 DEF IInv, LayerInv, TypeInv, TypeOK
    <3> QED
      BY <1>3, <2>2, <2>3, <3>3
  <2> QED
    BY <2>4, <2>5 DEF LayerInv
<1>19. CallInv'
  <2>1. ASSUME NEW u \in Txn \ {t}, NEW i \in DOMAIN stack, Completes(i, u)
        PROVE  \E j \in DOMAIN stack' : Completes(j, u)'
    BY <1>12, <1>13, <2>1 DEF Completes
  <2>2. \A u \in Txn : called'[u] # <<>> => state'[u] = "complete" \/ \E i \in DOMAIN stack' : Completes(i, u)'
    BY <1>3, <1>9, <2>1 DEF IInv, CallInv
  <2>3. \A u \in Txn : state'[u] = "complete" => called'[u] = operations'[u]
    BY <1>3, <1>5, <1>9 DEF IInv, CallInv
  <2>4. \A o \in skipped' : /\ phase'[o] # "idle"
                            /\ state'[owner'[o]] = "canceled" \/ completed'[owner'[o]] = <<TRUE>>
    <3>1. TAKE o \in skipped'
    <3>2. o \in skipped /\ owner[o] \in Txn /\ phase[o] # "idle"
          /\ (state[owner[o]] = "canceled" \/ completed[owner[o]] = <<TRUE>>)
      BY <1>3, <1>4 DEF IInv, CallInv
    <3>3. CASE owner[o] = t
      BY <1>1, <1>3, <1>8, <3>2, <3>3 DEF groupVars
    <3>4. CASE owner[o] # t
      BY <1>3, <1>8, <1>9, <3>2, <3>4 DEF groupVars
    <3> QED
      BY <3>3, <3>4
  <2> QED
    BY <2>2, <2>3, <2>4 DEF CallInv
<1>20. ASSUME NEW i \in DOMAIN stack, i > 1, NEW f \in {stack[i]} PROVE FrameStays(f)
  <2>1. (f.kind \in {"wait", "waited", "returning"} => f.txn \in Txn)
        /\ (f.kind = "complete" => f.txn \in Txn \ {t})
    BY <1>1, <1>12, <1>20, FrameOf
  <2>2. FrameIsRight(f) => FrameIsRight(f)'
    <3>1. SUFFICES ASSUME FrameIsRight(f) PROVE FrameIsRight(f)'
      OBVIOUS
    <3>2. f.kind = "cancel" => \A u \in Txn : state'[u] = "open" => layerOf'[u] # f.layer
      BY <1>3, <1>9, <3>1 DEF FrameIsRight
    <3>3. f.kind \in {"wait", "waited"} => operations'[f.txn] # <<>> /\ state'[f.txn] # "none"
      BY <1>3, <1>9, <2>1, <3>1 DEF FrameIsRight
    <3>4. f.kind \in {"waited", "complete"} => G!Settled(f.txn)'
      BY <1>3, <3>1 DEF FrameIsRight, groupVars, G!Settled
    <3>5. f.kind = "complete" =>
            /\ state'[f.txn] \in {"committed", "canceled"} /\ operations'[f.txn] # <<>>
            /\ called'[f.txn] \o f.todo = operations'[f.txn]
            /\ ~f.isCanceled => \A o \in skipped' : owner'[o] # f.txn
      BY <1>3, <1>9, <2>1, <3>1 DEF FrameIsRight, groupVars
    <3> QED
      BY <3>2, <3>3, <3>4, <3>5 DEF FrameIsRight
  <2>3. (NeedsHelp(f)' => NeedsHelp(f)) /\ (MustBeTop(f)' => MustBeTop(f))
    BY <1>3, <1>9, <2>1 DEF NeedsHelp, MustBeTop
  <2> QED
    BY <2>2, <2>3 DEF FrameStays
<1>21. \A f \in Rest(1) : FrameStays(f)
  BY <1>20 DEF Rest
<1>22. \A i \in 1..1 : \A f \in {stack'[i]} :
            /\ FrameIsRight(f)'
            /\ MustBeTop(f)' => i = 1
            /\ NeedsHelp(f)' => \E j \in 1..(i - 1) : \E g \in {stack'[j]} : Helps(g, f)'
            /\ \A j \in DOMAIN stack' : i < j => \A g \in {stack'[j]} : MayBeAbove(f, g)
  <2>1. FrameIsRight(Hook)' /\ ~MustBeTop(Hook)' /\ ~NeedsHelp(Hook)' /\ \A g : MayBeAbove(Hook, g)
    BY <1>11 DEF FrameIsRight, MustBeTop, NeedsHelp, MayBeAbove
  <2> QED
    BY <1>11, <2>1
<1>23. \A f \in Rest(1) : \A g \in {stack[1]} : ~(Helps(g, f) /\ NeedsHelp(f)')
  BY <1>2, <1>9 DEF Helps, NeedsHelp
<1>24. WaitIsRight'
  BY <1>11, NotWaiting DEF IInv, StackInv
<1>25. FramesAreRight' /\ OrderIsRight' /\ PlacesAreRight'
  BY <1>3, <1>11, <1>21, <1>22, <1>23, StackStep DEF IInv, StackInv
<1> QED
  BY <1>14, <1>15, <1>17, <1>18, <1>19, <1>24, <1>25 DEF IInv, StackInv

-----------------------------------------------------------------------------

LEMMA InitIsRight == Init => IInv
<1>1. SUFFICES ASSUME Init PROVE IInv
  OBVIOUS
<1>2. <<>> \in Seq(Op) /\ <<>> \in Seq(Txn) /\ <<>> \in Seq(Frame) /\ DOMAIN <<>> = {} /\ <<>> \in Outcomes
  BY EmptySeq DEF Outcomes
<1>3. TypeInv
  BY <1>1, <1>2 DEF Init, G!GInit, TypeInv, TypeOK
<1>4. GroupInv
  BY <1>1, <1>2 DEF Init, G!GInit, GroupInv
<1>5. LifeInv /\ LayerInv /\ CallInv
  BY <1>1, <1>2 DEF Init, G!GInit, LifeInv, LayerInv, CallInv, Finished
<1>6. StackInv
  BY <1>1, <1>2 DEF Init, StackInv, FramesAreRight, OrderIsRight, PlacesAreRight, WaitIsRight
<1> QED
  BY <1>3, <1>4, <1>5, <1>6 DEF IInv

LEMMA StutterStep ==
  ASSUME IInv, UNCHANGED vars
  PROVE  IInv'
<1>1. UNCHANGED <<owner, phase, held, notified, skipped, state, operations, layerOf, current, transactions,
                  containers, mainQueue, stack, called, completed>>
  BY DEF vars, groupVars, layerVars, historyVars
<1>2. TypeInv'
  BY <1>1 DEF IInv, TypeInv, TypeOK
<1>3. GroupInv' /\ LifeInv'
  BY <1>1 DEF IInv, GroupInv, LifeInv, Finished, G!Settled
<1>4. LayerInv' /\ CallInv'
  BY <1>1 DEF IInv, LayerInv, CallInv, Commits, Cancels, Completes
<1>5. \A i \in DOMAIN stack : \A f \in {stack[i]} : FrameStays(f)
  BY <1>1, SameDataStays DEF groupVars
<1>6. StackInv'
  BY <1>1, <1>5, SameStackStep DEF IInv, StackInv, WaitIsRight
<1> QED
  BY <1>2, <1>3, <1>4, <1>6 DEF IInv

(* The callbacks are assumed to do nothing that the code has no answer to.  *)
LEMMA NextIsRight ==
  ASSUME ~HookReenters, IInv, [Next]_vars
  PROVE  IInv'
<1>1. ASSUME NEW l \in Layer, asyncTransaction(l) \/ cancelAsyncTransactions(l) PROVE IInv'
  BY <1>1, asyncTransactionStep, cancelAsyncTransactionsStep
<1>2. ASSUME NEW o \in Op, addOperation(o) PROVE IInv'
  BY <1>2, addOperationStep
<1>3. ASSUME NEW t \in Txn, waitUntilComplete(t) PROVE IInv'
  BY <1>3, waitUntilCompleteStep
<1>4. CASE MainThread
  BY <1>4, cancelLayerStep, stopWaitingStep, completeAfterWaitStep, ReturnStep, commitContainerStep,
     callCompletionBlockStep, finishCompletionStep, beforeWaitingStep, completeTransactionStep DEF MainThread
<1>5. ASSUME NEW o \in Op, Pool(o) PROVE IInv'
  BY <1>5, executeStep, leaveGroupStep DEF Pool
<1>6. CASE UNCHANGED vars
  BY <1>6, StutterStep
<1> QED
  BY <1>1, <1>2, <1>3, <1>4, <1>5, <1>6 DEF Next, Application

(* A transaction that is complete has no operation that will still run.     *)
SettledInv == \A t \in Txn : state[t] = "complete" => G!Settled(t)

LEMMA StaysSettled ==
  ASSUME SettledInv, UNCHANGED <<owner, phase, held>>,
         \A t \in Txn : state'[t] = "complete" => state[t] = "complete" \/ G!Settled(t)
  PROVE  SettledInv'
BY DEF SettledInv, G!Settled

LEMMA CommitLeavesSettled ==
  ASSUME IInv, SettledInv, NEW t, NEW rest, commitIfAny(t, rest)
  PROVE  SettledInv'
<1>1. UNCHANGED <<owner, phase, held>>
  BY DEF commitIfAny, commit, groupVars, G!Arm
<1>2. state' = state \/ state' = [state EXCEPT ![t] = "committed"]
  BY DEF commitIfAny, commit
<1>3. \A u \in Txn : state'[u] = "complete" => state[u] = "complete"
  BY <1>2 DEF IInv, TypeInv, TypeOK
<1> QED
  BY <1>1, <1>3, StaysSettled

LEMMA SettledStep ==
  ASSUME IInv, SettledInv, [Next]_vars
  PROVE  SettledInv'
<1>1. state \in [Txn -> {"none", "open", "committed", "canceled", "complete"}]
      /\ phase \in [Op -> {"idle", "scheduled", "executed", "done"}] /\ owner \in [Op -> Txn]
  BY DEF IInv, TypeInv, TypeOK
<1>2. ASSUME NEW l \in Layer, asyncTransaction(l) PROVE SettledInv'
  <2>1. UNCHANGED <<owner, phase, held>> /\ \A t \in Txn : state'[t] = "complete" => state[t] = "complete"
    BY <1>1, <1>2 DEF asyncTransaction, groupVars
  <2> QED
    BY <2>1, StaysSettled
<1>3. ASSUME NEW l \in Layer, cancelAsyncTransactions(l) PROVE SettledInv'
  BY <1>3, CommitLeavesSettled DEF cancelAsyncTransactions
<1>4. ASSUME NEW o \in Op, addOperation(o) PROVE SettledInv'
  <2>1. state[owner[o]] = "open" /\ phase' = [phase EXCEPT ![o] = "scheduled"] /\ UNCHANGED <<owner, held, state>>
    BY <1>4 DEF addOperation, G!Submit
  <2> QED
    BY <1>1, <2>1 DEF SettledInv, G!Settled
<1>5. ASSUME NEW o \in Op, execute(o) \/ leaveGroup(o) PROVE SettledInv'
  <2>1. /\ phase[o] \notin {"idle", "done"} /\ UNCHANGED <<owner, held, state>>
        /\ phase' = [phase EXCEPT ![o] = "executed"] \/ phase' = [phase EXCEPT ![o] = "done"]
    BY <1>5 DEF execute, leaveGroup, G!Execute, G!Finish
  <2> QED
    BY <1>1, <2>1 DEF SettledInv, G!Settled
<1>6. CASE cancelLayer
  <2>1. UNCHANGED <<owner, phase, held>> /\ \A t \in Txn : state'[t] = "complete" => state[t] = "complete"
    BY <1>6 DEF cancelLayer, groupVars
  <2> QED
    BY <2>1, StaysSettled
<1>7. ASSUME NEW l \in Layer, commitContainer(l) PROVE SettledInv'
  BY <1>7, CommitLeavesSettled DEF commitContainer
<1>8. CASE finishCompletion
  <2>1. PICK t \in Txn, todo \in Seq(Op), canceled \in BOOLEAN :
             Top = stack[1] /\ stack[1] = CompleteFrame(t, todo, canceled) /\ G!Settled(t)
    BY <1>8, CompleteFacts DEF finishCompletion
  <2>2. Top.txn = t
    BY <2>1, CompleteFrameFacts
  <2>3. UNCHANGED <<owner, phase, held>> /\ state' = [state EXCEPT ![t] = "complete"]
    BY <1>8, <2>2 DEF finishCompletion, groupVars
  <2> QED
    BY <1>1, <2>1, <2>3, StaysSettled
<1>9. CASE UNCHANGED <<groupVars, state>>
  BY <1>9, StaysSettled DEF groupVars
<1>10. ASSUME NEW t \in Txn, waitUntilComplete(t) PROVE SettledInv'
  BY <1>9, <1>10 DEF waitUntilComplete
<1>11. CASE MainThread
  BY <1>6, <1>7, <1>8, <1>9, <1>11 DEF MainThread, stopWaiting, completeAfterWait, returnFromWait,
     callCompletionBlock, returnFromHook, beforeWaiting, completeTransaction
<1>12. CASE UNCHANGED vars
  BY <1>9, <1>12 DEF vars
<1> QED
  BY <1>2, <1>3, <1>4, <1>5, <1>10, <1>11, <1>12 DEF Next, Application, Pool

LEMMA Invariance == ~HookReenters /\ Spec => [](IInv /\ SettledInv)
<1>1. CASE HookReenters
  BY <1>1
<1>2. CASE ~HookReenters
  <2>1. IInv /\ SettledInv /\ [Next]_vars => (IInv /\ SettledInv)'
    BY <1>2, NextIsRight, SettledStep
  <2>2. Init => SettledInv
    BY DEF Init, SettledInv
  <2> QED
    BY <2>1, <2>2, InitIsRight, PTL DEF Spec
<1> QED
  BY <1>1, <1>2

(* Types. *)
THEOREM TransactionsAreTyped == ~HookReenters /\ Spec => []TypeOK
<1>1. IInv => TypeOK
  BY DEF IInv, TypeInv
<1> QED
  BY <1>1, Invariance, PTL

LEMMA PrefixOf ==
  ASSUME NEW s \in Seq(Op), NEW u \in Seq(Op)
  PROVE  Len(s) <= Len(s \o u) /\ s = SubSeq(s \o u, 1, Len(s))
<1>1. /\ Len(s) \in Nat /\ Len(u) \in Nat /\ s \o u \in Seq(Op) /\ Len(s \o u) = Len(s) + Len(u)
      /\ \A i \in 1..(Len(s) + Len(u)) : (s \o u)[i] = IF i <= Len(s) THEN s[i] ELSE u[i - Len(s)]
      /\ \A i \in 1..Len(s) : s[i] \in Op
  BY ConcatProperties, LenProperties, ElementOfSeq
<1> DEFINE w == s \o u
           n == Len(s)
<1>2. n \in Nat /\ w \in Seq(Op) /\ n <= Len(w) /\ \A i \in 1..n : w[i] = s[i] /\ w[i] \in Op
  BY <1>1
<1> HIDE DEF w
<1>3. /\ SubSeq(w, 1, n) \in Seq(Op) /\ Len(SubSeq(w, 1, n)) = (IF 1 <= n THEN n - 1 + 1 ELSE 0)
      /\ \A i \in 1..(n - 1 + 1) : SubSeq(w, 1, n)[i] = w[1 + i - 1]
  BY <1>2, SubSeqProperties
<1>4. Len(SubSeq(w, 1, n)) = n /\ \A i \in 1..n : SubSeq(w, 1, n)[i] = s[i]
  <2>1. (IF 1 <= n THEN n - 1 + 1 ELSE 0) = n /\ n - 1 + 1 = n /\ \A i \in 1..n : 1 + i - 1 = i
    BY <1>2
  <2> QED
    BY <1>2, <1>3, <2>1
<1>5. s = SubSeq(w, 1, n)
  BY <1>3, <1>4, SeqEqual
<1> QED
  BY <1>2, <1>5 DEF w

(* Whose completion blocks have been called: of a transaction that is       *)
(* complete, or that is being completed.                                    *)
LEMMA CalledFacts ==
  ASSUME IInv, SettledInv, NEW t \in Txn, called[t] # <<>>
  PROVE  G!Settled(t) /\ \E u \in Seq(Op) : operations[t] = called[t] \o u
<1>1. called[t] \in Seq(Op) /\ <<>> \in Seq(Op)
  BY EmptySeq DEF IInv, TypeInv
<1>2. CASE state[t] = "complete"
  <2>1. called[t] = operations[t] /\ G!Settled(t)
    BY <1>2 DEF IInv, CallInv, SettledInv
  <2>2. called[t] \o <<>> = called[t]
    BY <1>1, ConcatEmptySeq
  <2> QED
    BY <1>1, <2>1, <2>2
<1>3. ASSUME NEW i \in DOMAIN stack, Completes(i, t)
      PROVE  G!Settled(t) /\ \E u \in Seq(Op) : operations[t] = called[t] \o u
  <2>1. \A f \in {stack[i]} : FrameIsRight(f) /\ (f.kind = "complete" => f.todo \in Seq(Op))
    BY <1>3, FrameOf
  <2> QED
    BY <1>3, <2>1 DEF Completes, FrameIsRight
<1> QED
  BY <1>2, <1>3 DEF IInv, CallInv

(* Completion blocks are called in the order of the operations.             *)
THEOREM CompletionBlocksAreInOrder == ~HookReenters /\ Spec => []CalledInOrder
<1>1. ASSUME IInv, SettledInv PROVE CalledInOrder
  <2>1. SUFFICES ASSUME NEW t \in Txn
                 PROVE  Len(called[t]) <= Len(operations[t])
                        /\ called[t] = SubSeq(operations[t], 1, Len(called[t]))
    BY DEF CalledInOrder
  <2>2. called[t] \in Seq(Op) /\ operations[t] \in Seq(Op)
    BY <1>1 DEF IInv, TypeInv
  <2>3. PICK u \in Seq(Op) : operations[t] = called[t] \o u
    <3>1. CASE called[t] = <<>>
      <4>1. called[t] \o operations[t] = operations[t]
        BY <2>2, <3>1, ConcatEmptySeq
      <4> QED
        BY <2>2, <4>1
    <3>2. CASE called[t] # <<>>
      BY <1>1, <3>2, CalledFacts
    <3> QED
      BY <3>1, <3>2
  <2> QED
    BY <2>2, <2>3, PrefixOf
<1> QED
  BY <1>1, Invariance, PTL

(* None is called before every operation of the transaction has run.        *)
THEOREM CompletionBlocksAreLate == ~HookReenters /\ Spec => []CalledWhenAllRan
<1>1. IInv /\ SettledInv => CalledWhenAllRan
  BY CalledFacts DEF CalledWhenAllRan
<1> QED
  BY <1>1, Invariance, PTL

(* A transaction completes once, after all of them, and as canceled if an   *)
(* operation did not run.                                                   *)
THEOREM TransactionsCompleteOnce == ~HookReenters /\ Spec => []CompletesOnce
<1>1. ASSUME IInv PROVE CompletesOnce
  <2>1. SUFFICES ASSUME NEW t \in Txn
                 PROVE  /\ Len(completed[t]) <= 1
                        /\ completed[t] # <<>> => called[t] = operations[t]
                        /\ \A o \in skipped : owner[o] = t /\ completed[t] # <<>> => completed[t] = <<TRUE>>
    BY DEF CompletesOnce
  <2>2. completed[t] \in Outcomes
    BY <1>1 DEF IInv, TypeInv
  <2>3. Len(completed[t]) <= 1
    <3>1. Len(<<>>) = 0 /\ Len(<<TRUE>>) = 1 /\ Len(<<FALSE>>) = 1
      OBVIOUS
    <3>2. completed[t] = <<>> \/ completed[t] = <<TRUE>> \/ completed[t] = <<FALSE>>
      BY <2>2 DEF Outcomes
    <3>3. CASE completed[t] = <<>>
      BY <3>1, <3>3
    <3>4. CASE completed[t] = <<TRUE>>
      BY <3>1, <3>4
    <3>5. CASE completed[t] = <<FALSE>>
      BY <3>1, <3>5
    <3> QED
      BY <3>2, <3>3, <3>4, <3>5
  <2>4. ASSUME completed[t] # <<>>
        PROVE  /\ called[t] = operations[t]
               /\ \A o \in skipped : owner[o] = t => completed[t] = <<TRUE>>
    <3>1. Finished(t)
      BY <1>1, <2>4 DEF IInv, LifeInv
    <3>2. CASE state[t] = "complete"
      BY <1>1, <3>2 DEF IInv, CallInv
    <3>3. CASE state[t] = "committed" /\ operations[t] = <<>>
      <4>1. called[t] = <<>>
        <5>1. ASSUME NEW i \in DOMAIN stack, Completes(i, t) PROVE FALSE
          <6>1. \A f \in {stack[i]} : FrameIsRight(f)
            BY <1>1, <5>1, FrameOf
          <6> QED
            BY <3>3, <5>1, <6>1 DEF Completes, FrameIsRight
        <5> QED
          BY <1>1, <3>3, <5>1 DEF IInv, CallInv
      <4> QED
        BY <1>1, <3>3, <4>1 DEF IInv, CallInv
    <3> QED
      BY <3>1, <3>2, <3>3 DEF Finished
  <2> QED
    BY <2>3, <2>4
<1> QED
  BY <1>1, Invariance, PTL

(* waitUntilComplete returns when the transaction has completed.            *)
THEOREM WaitingCompletes == ~HookReenters /\ Spec => []WaitCompletes
<1>1. ASSUME IInv PROVE WaitCompletes
  <2>1. SUFFICES ASSUME TopIs("returning"), operations[Top.txn] # <<>> PROVE completed[Top.txn] # <<>>
    BY DEF WaitCompletes
  <2>2. 1 \in DOMAIN stack /\ Top = stack[1] /\ Top.kind = "returning"
    BY <1>1, <2>1, TopFacts DEF IInv
  <2>3. \A f \in {stack[1]} : (f.kind = "returning" => f.txn \in Txn) /\ ~NeedsHelp(f)
    BY <1>1, <2>2, FrameOf
  <2>4. Top.txn \in Txn /\ state[Top.txn] = "complete"
    BY <2>1, <2>2, <2>3 DEF NeedsHelp
  <2> QED
    BY <1>1, <2>4 DEF IInv, LifeInv, Finished
<1> QED
  BY <1>1, Invariance, PTL

-----------------------------------------------------------------------------
(* Displays: the contents of layers only advance. *)

Drawing == [node : Node, sentinel : Nat, version : Nat, drawn : BOOLEAN, image : Nat]

DisplayTypeInv ==
  /\ displaySuspended \in [Node -> BOOLEAN]
  /\ displaySentinel \in [Node -> Nat]
  /\ version \in [Node -> Nat] /\ contents \in [Node -> Nat]
  /\ drawings \subseteq Drawing

(* Once canceled, a drawing stays canceled: sentinels only grow.           *)
SentinelsArePast == \A d \in drawings : d.sentinel <= displaySentinel[d.node]

(* A drawing that may still reach the layer is of the newest version, and  *)
(* its node has been in the display range since.                           *)
IsRight(d) ==
  /\ d.version = version[d.node] /\ ~displaySuspended[d.node]
  /\ d.drawn => d.image = d.version

CurrentAreRight == \A d \in drawings : ~IsCancelled(d) => IsRight(d)

ContentsArePast == \A n \in Node : contents[n] <= version[n]

DisplayInv == DisplayTypeInv /\ SentinelsArePast /\ CurrentAreRight /\ ContentsArePast

-----------------------------------------------------------------------------
LEMMA InitDisplay == DisplayInit => DisplayInv
BY DEF DisplayInit, DisplayInv, DisplayTypeInv, SentinelsArePast, CurrentAreRight, ContentsArePast, Nothing

(* No step but displayImmediately changes a version without canceling.     *)
LEMMA CancelStep ==
  ASSUME DisplayInv, NEW n \in Node, cancelAsyncDisplay(n),
         UNCHANGED <<contents, drawings>>,
         version' \in [Node -> Nat], displaySuspended' \in [Node -> BOOLEAN],
         \A m \in Node : version'[m] >= version[m],
         \A m \in Node \ {n} : version'[m] = version[m] /\ displaySuspended'[m] = displaySuspended[m]
  PROVE  DisplayInv'
<1> USE DEF DisplayInv
<1>1. /\ displaySentinel' \in [Node -> Nat] /\ displaySentinel'[n] = displaySentinel[n] + 1
      /\ \A m \in Node \ {n} : displaySentinel'[m] = displaySentinel[m]
  BY DEF cancelAsyncDisplay, DisplayTypeInv
<1>2. DisplayTypeInv'
  BY <1>1 DEF DisplayTypeInv
<1>3. \A d \in drawings : d.node \in Node /\ d.sentinel \in Nat /\ displaySentinel[d.node] \in Nat
  BY DEF DisplayTypeInv, Drawing
<1>4. SentinelsArePast'
  BY <1>1, <1>3 DEF SentinelsArePast
<1>5. CurrentAreRight'
  <2>1. \A d \in drawings : ~IsCancelled(d)' => d.node # n /\ ~IsCancelled(d)
    BY <1>1, <1>3 DEF IsCancelled, SentinelsArePast
  <2> QED
    BY <1>3, <2>1 DEF CurrentAreRight, IsRight
<1>6. ContentsArePast'
  BY DEF ContentsArePast, DisplayTypeInv
<1> QED
  BY <1>2, <1>4, <1>5, <1>6

(* A step that only puts something no newer than the version on a layer.   *)
LEMMA ShowStep ==
  ASSUME DisplayInv, UNCHANGED <<displaySuspended, displaySentinel, version>>,
         drawings' \subseteq drawings,
         contents' \in [Node -> Nat], \A n \in Node : contents'[n] <= version[n]
  PROVE  DisplayInv'
<1> USE DEF DisplayInv
<1> QED
  BY DEF DisplayTypeInv, SentinelsArePast, CurrentAreRight, ContentsArePast, IsCancelled, IsRight

LEMMA EventStep ==
  ASSUME DisplayInv, NEW n \in Node, setNeedsDisplay(n) \/ setDisplaySuspended(n) \/ setBounds(n)
  PROVE  DisplayInv' /\ UNCHANGED contents
<1> USE DEF DisplayInv
<1>1. CASE setNeedsDisplay(n)
  <2>1. /\ cancelAsyncDisplay(n) /\ version' = [version EXCEPT ![n] = @ + 1]
        /\ UNCHANGED <<displaySuspended, contents, drawings>>
    BY <1>1 DEF setNeedsDisplay, layerSetNeedsDisplay
  <2>2. /\ version' \in [Node -> Nat] /\ displaySuspended' \in [Node -> BOOLEAN]
        /\ \A m \in Node : version'[m] >= version[m]
        /\ \A m \in Node \ {n} : version'[m] = version[m]
    BY <2>1 DEF DisplayTypeInv
  <2> QED
    BY <2>1, <2>2, CancelStep
<1>2. CASE setDisplaySuspended(n)
  <2>1. /\ cancelAsyncDisplay(n) /\ UNCHANGED <<version, contents, drawings>>
        /\ \E suspended \in BOOLEAN : displaySuspended' = [displaySuspended EXCEPT ![n] = suspended]
    BY <1>2 DEF setDisplaySuspended, suspend, resume, layerSetNeedsDisplay
  <2>2. /\ displaySuspended' \in [Node -> BOOLEAN]
        /\ \A m \in Node \ {n} : displaySuspended'[m] = displaySuspended[m]
        /\ version' \in [Node -> Nat] /\ \A m \in Node : version'[m] = version[m] /\ version[m] \in Nat
    BY <2>1 DEF DisplayTypeInv
  <2> QED
    BY <2>1, <2>2, CancelStep
<1>3. CASE setBounds(n)
  <2>1. /\ cancelAsyncDisplay(n) \/ UNCHANGED displaySentinel
        /\ UNCHANGED <<version, contents, drawings, displaySuspended>>
    BY <1>3 DEF setBounds, layerSetNeedsDisplay
  <2>2. /\ version \in [Node -> Nat] /\ displaySuspended \in [Node -> BOOLEAN]
        /\ contents \in [Node -> Nat] /\ \A m \in Node : version[m] \in Nat /\ contents[m] <= version[m]
    BY DEF DisplayTypeInv, ContentsArePast
  <2> QED
    BY <2>1, <2>2, CancelStep, ShowStep
<1> QED
  BY <1>1, <1>2, <1>3

(* Handing a drawing over cancels the one before; displaying at once, which *)
(* cancels none, shows the newest version.                                 *)
LEMMA DisplayStep ==
  ASSUME DisplayInv, NEW n \in Node, display(n)
  PROVE  DisplayInv' /\ \A m \in Node : contents'[m] # contents[m] =>
                            ~displaySuspended[m] /\ contents'[m] > contents[m]
<1> USE DEF DisplayInv
<1>1. UNCHANGED <<displaySuspended, version>>
  BY DEF display
<1>2. CASE UNCHANGED <<contents, drawings, displaySentinel>>
  BY <1>1, <1>2, ShowStep DEF DisplayTypeInv, ContentsArePast
<1>3. CASE ~displaySuspended[n] /\ displaySynchronously(n)
  <2>1. /\ UNCHANGED <<displaySentinel, drawings>>
        /\ contents' = [contents EXCEPT ![n] = version[n]] \/ UNCHANGED contents
    BY <1>1, <1>3 DEF displaySynchronously
  <2>2. /\ contents' \in [Node -> Nat]
        /\ \A m \in Node : /\ contents'[m] <= version[m]
                           /\ contents'[m] # contents[m] => m = n /\ contents'[m] > contents[m]
    BY <2>1 DEF DisplayTypeInv, ContentsArePast
  <2> QED
    BY <1>1, <1>3, <2>1, <2>2, ShowStep
<1>4. CASE ~displaySuspended[n] /\ displayAsynchronously(n)
  <2> DEFINE new == [node |-> n, sentinel |-> displaySentinel'[n], version |-> version[n],
                     drawn |-> FALSE, image |-> Nothing]
  <2>1. /\ displaySentinel' = [displaySentinel EXCEPT ![n] = @ + 1]
        /\ drawings' \subseteq drawings \cup {new}
        /\ UNCHANGED contents
    BY <1>4 DEF displayAsynchronously
  <2>2. /\ displaySentinel' \in [Node -> Nat] /\ displaySentinel'[n] = displaySentinel[n] + 1
        /\ \A m \in Node \ {n} : displaySentinel'[m] = displaySentinel[m]
    BY <2>1 DEF DisplayTypeInv
  <2>3. /\ new \in Drawing /\ new.node = n /\ new.sentinel = displaySentinel'[n]
        /\ new.version = version[n] /\ ~new.drawn
    BY <2>2 DEF Drawing, DisplayTypeInv, Nothing
  <2> HIDE DEF new
  <2>4. DisplayTypeInv'
    BY <1>1, <2>1, <2>2, <2>3 DEF DisplayTypeInv
  <2>5. \A d \in drawings : d.node \in Node /\ d.sentinel \in Nat /\ displaySentinel[d.node] \in Nat
    BY DEF DisplayTypeInv, Drawing
  <2>6. SentinelsArePast'
    BY <2>1, <2>2, <2>3, <2>5 DEF SentinelsArePast
  <2>7. CurrentAreRight'
    <3>1. \A d \in drawings : ~IsCancelled(d)' => d.node # n /\ ~IsCancelled(d)
      BY <2>2, <2>5 DEF IsCancelled, SentinelsArePast
    <3> QED
      BY <1>1, <1>4, <2>1, <2>3, <3>1 DEF CurrentAreRight, IsRight
  <2>8. ContentsArePast'
    BY <1>1, <2>1 DEF ContentsArePast
  <2> QED
    BY <2>1, <2>4, <2>6, <2>7, <2>8
<1> QED
  BY <1>2, <1>3, <1>4 DEF display

(* The version changes only where no drawing of the old one may come back. *)
LEMMA ImmediateStep ==
  ASSUME DisplayInv, NEW n \in Node, displayImmediately(n)
  PROVE  DisplayInv' /\ \A m \in Node : contents'[m] # contents[m] => m = n /\ contents'[m] > contents[m]
<1> USE DEF DisplayInv
<1>1. /\ UNCHANGED <<displaySuspended, displaySentinel, drawings>>
      /\ contents' = [contents EXCEPT ![n] = version'[n]] \/ UNCHANGED contents
      /\ \/ UNCHANGED version
         \/ /\ \A d \in drawings : d.node = n => IsCancelled(d)
            /\ version' = [version EXCEPT ![n] = @ + 1]
  BY DEF displayImmediately, displaySynchronously
<1>2. /\ version' \in [Node -> Nat] /\ \A m \in Node : version'[m] >= version[m]
      /\ \A d \in drawings : ~IsCancelled(d) => version'[d.node] = version[d.node]
  BY <1>1 DEF DisplayTypeInv, Drawing
<1>3. /\ contents' \in [Node -> Nat] /\ ContentsArePast'
      /\ \A m \in Node : contents'[m] # contents[m] => m = n /\ contents'[m] > contents[m]
  BY <1>1, <1>2 DEF DisplayTypeInv, ContentsArePast
<1>4. DisplayTypeInv' /\ SentinelsArePast'
  BY <1>1, <1>2, <1>3 DEF DisplayTypeInv, SentinelsArePast
<1>5. CurrentAreRight'
  BY <1>1, <1>2 DEF CurrentAreRight, IsCancelled, IsRight
<1> QED
  BY <1>3, <1>4, <1>5

(* A drawing that is not canceled when a worker begins it has an image.    *)
LEMMA DrawStep ==
  ASSUME DisplayInv, NEW d \in drawings, draw(d)
  PROVE  DisplayInv'
<1> USE DEF DisplayInv
<1> DEFINE to == [d EXCEPT !.drawn = TRUE, !.image = IF IsCancelled(d) THEN Nothing ELSE d.version]
<1>1. /\ drawings' = (drawings \ {d}) \cup {to}
      /\ UNCHANGED <<displaySuspended, displaySentinel, version, contents>>
  BY DEF draw, displayLayerVars
<1>2. d \in Drawing
  BY DEF DisplayTypeInv
<1>3. /\ to \in Drawing /\ to.node = d.node /\ to.sentinel = d.sentinel /\ to.version = d.version
      /\ ~IsCancelled(d) => to.image = to.version
  BY <1>2 DEF Drawing, Nothing
<1> HIDE DEF to
<1>4. DisplayTypeInv' /\ SentinelsArePast' /\ ContentsArePast'
  BY <1>1, <1>3 DEF DisplayTypeInv, SentinelsArePast, ContentsArePast
<1>5. CurrentAreRight'
  BY <1>1, <1>3 DEF CurrentAreRight, IsCancelled, IsRight
<1> QED
  BY <1>4, <1>5

LEMMA CompleteStep ==
  ASSUME DisplayInv, NEW d \in drawings, complete(d)
  PROVE  DisplayInv' /\ \A m \in Node : contents'[m] # contents[m] =>
                            ~displaySuspended[m] /\ contents'[m] > contents[m]
<1> USE DEF DisplayInv
<1>1. /\ UNCHANGED <<displaySuspended, displaySentinel, version>> /\ drawings' \subseteq drawings
  BY DEF complete, displayLayerVars
<1>2. CASE UNCHANGED contents
  BY <1>1, <1>2, ShowStep DEF DisplayTypeInv, ContentsArePast
<1>3. CASE ~IsCancelled(d)
  <2>1. /\ contents' = [contents EXCEPT ![d.node] = version[d.node]]
        /\ ~displaySuspended[d.node] /\ d.node \in Node
    BY <1>3 DEF complete, CurrentAreRight, IsRight, DisplayTypeInv, Drawing
  <2>2. /\ contents' \in [Node -> Nat]
        /\ \A m \in Node : /\ contents'[m] <= version[m]
                           /\ contents'[m] # contents[m] => m = d.node /\ contents'[m] > contents[m]
    BY <2>1 DEF DisplayTypeInv, ContentsArePast
  <2> QED
    BY <1>1, <2>1, <2>2, ShowStep
<1> QED
  BY <1>2, <1>3 DEF complete

Advances ==
  \A n \in Node : contents'[n] # contents[n] =>
    IF displaySuspended[n]
    THEN contents'[n] = Nothing \/ displayImmediately(n)
    ELSE contents'[n] > contents[n]

LEMMA StepDisplay ==
  ASSUME DisplayInv, [DisplayNext]_displayVars
  PROVE  DisplayInv' /\ Advances
<1>1. ASSUME NEW n \in Node, setNeedsDisplay(n) \/ setDisplaySuspended(n) \/ setBounds(n)
      PROVE  DisplayInv' /\ Advances
  BY <1>1, EventStep DEF Advances
<1>2. ASSUME NEW n \in Node, clearContents(n) PROVE DisplayInv' /\ Advances
  <2>1. /\ contents' = [contents EXCEPT ![n] = 0] /\ displaySuspended[n]
        /\ UNCHANGED <<displaySuspended, displaySentinel, version, drawings>>
    BY <1>2 DEF clearContents, displayLayerVars, Nothing
  <2>2. /\ contents' \in [Node -> Nat]
        /\ \A m \in Node : /\ contents'[m] <= version[m]
                           /\ contents'[m] # contents[m] => m = n /\ contents'[m] = 0
    BY <2>1 DEF DisplayInv, DisplayTypeInv, ContentsArePast
  <2> QED
    BY <2>1, <2>2, ShowStep DEF Advances, Nothing
<1>3. ASSUME NEW n \in Node, displayImmediately(n) PROVE DisplayInv' /\ Advances
  BY <1>3, ImmediateStep DEF Advances
<1>4. ASSUME NEW n \in Node, Works(n) PROVE DisplayInv' /\ Advances
  <2>1. CASE display(n)
    BY <2>1, DisplayStep DEF Advances
  <2>2. ASSUME NEW d \in drawings, draw(d) PROVE DisplayInv' /\ Advances
    BY <2>2, DrawStep DEF draw, Advances
  <2>3. ASSUME NEW d \in drawings, complete(d) PROVE DisplayInv' /\ Advances
    BY <2>3, CompleteStep DEF Advances
  <2> QED
    BY <1>4, <2>1, <2>2, <2>3 DEF Works, DrawingsOf
<1>5. CASE UNCHANGED displayVars
  <2>1. UNCHANGED <<displaySuspended, displaySentinel, version, contents, drawings>>
    BY <1>5 DEF displayVars, displayLayerVars
  <2> QED
    BY <2>1, ShowStep DEF DisplayInv, DisplayTypeInv, ContentsArePast, Advances
<1> QED
  BY <1>1, <1>2, <1>3, <1>4, <1>5 DEF DisplayNext

(* The inductive invariant of displays: sentinels only grow, a drawing that *)
(* is still current is of what its node shows, contents are of the past.    *)
THEOREM DisplaysAreRight == DisplaySpec => []DisplayInv
<1>1. DisplayInv /\ [DisplayNext]_displayVars => DisplayInv'
  BY StepDisplay
<1> QED
  BY <1>1, InitDisplay, PTL DEF DisplaySpec

(* What is on the layer of a displayed node never goes back or disappears,  *)
(* whatever order drawings are canceled, drawn and completed in.            *)
THEOREM ContentsAdvance == DisplaySpec => ContentsOnlyAdvance
<1>1. DisplayInv /\ [DisplayNext]_displayVars => [Advances]_displayVars
  BY StepDisplay
<1>2. DisplaySpec => [][Advances]_displayVars
  BY <1>1, DisplaysAreRight, PTL DEF DisplaySpec
<1> QED
  BY <1>2, PTL DEF ContentsOnlyAdvance, Advances
=============================================================================
