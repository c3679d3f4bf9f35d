-------------------------- MODULE MpQueueValueProofs --------------------------
(***************************************************************************)
(* Proofs about the values in MpQueue: a consumer that the semaphore lets  *)
(* through finds one, and no value is taken twice.                         *)
(*                                                                         *)
(* A block is left for good only when no value is in it and none will be   *)
(* put into it (LeftDrained), because a block with a next one is closed    *)
(* (ClosedFirst).  Every value is in the hand of its producer, in one node *)
(* or among those popped (OnePlace), and the semaphore, with the consumers *)
(* it has let through, counts the values in the nodes (SemFits).           *)
(***************************************************************************)
EXTENDS MpQueueProofs

-----------------------------------------------------------------------------
(* A block only grows until it is handed out again.                        *)

Grows(c) ==
  /\ blk[c].closed => blk'[c].closed
  /\ blk'[c].head \in Nat /\ blk'[c].head >= blk[c].head
  /\ blk[c].next # NoBlock => blk'[c].next # NoBlock
  /\ blk'[c].next # blk[c].next =>
       \E t \in Producers : th[t].pc = "link" /\ th[t].b = c

\* A thread's step hands this block out.
HandedOut(c) ==
  /\ \E t \in Producers : th[t].pc = "alloc" /\ blk'[c] = NewBlock(Val(t))
  /\ blk[c].state \in {"garbage", "prepared", "free"}
  /\ \A u \in QThreads : th[u].pc \in InBlock => th[u].b # c

LEMMA PushGrows ==
  ASSUME QueueShape, ListInv, NEW t \in Producers, PushStep(t)
  PROVE  \A c \in Blocks : Grows(c) \/ HandedOut(c)
<1>0. /\ t \in QThreads /\ (th[t].pc \in InBlock => th[t].b \in Blocks)
      /\ blk \in [Blocks -> BlockRecords]
      /\ \A c \in Blocks : blk[c].head \in Nat
  BY PushBlocks, NodeTypes DEF QThreads, QueueShape
<1>a. ASSUME blk' = blk PROVE \A c \in Blocks : Grows(c)
  BY <1>0, <1>a DEF Grows
<1>1. CASE PushProtect(t) \/ PushLook(t) \/ PushSwing(t) \/ PushPost(t) \/ PushWake(t)
  BY <1>1, <1>a, PushMoves, WakeMoves
<1>2. CASE PushClaim(t)
  <2>1. CASE UNCHANGED blk
    BY <2>1, <1>a
  <2>2. CASE blk' = [blk EXCEPT ![th[t].b].tail = @ + 1] /\ th[t].pc = "faa"
    BY <2>2, <1>0 DEF Grows, InBlock, BlockRecords
  <2> QED BY <1>2, <2>1, <2>2, PushMoves DEF Moved
<1>3. CASE PushSwap(t)
  <2>1. CASE UNCHANGED blk
    BY <2>1, <1>a
  <2>2. CASE th[t].pc = "cas" /\ blk' = [blk EXCEPT ![th[t].b].nodes[th[t].i % Size] = Node(th[t].i, Val(t))]
    <3>1. OneNode(th[t].b, th[t].i % Size, Node(th[t].i, Val(t)))
      BY <2>2, <1>0, ThreadTypes, PlaceOf, OneNodeStep DEF InBlock
    <3> QED BY <3>1, <1>0 DEF OneNode, Grows
  <2> QED BY <1>3, <2>1, <2>2, PushMoves DEF Moved
<1>4. CASE PushFull(t)
  <2>1. CASE UNCHANGED blk
    BY <2>1, <1>a
  <2>2. CASE blk' = [blk EXCEPT ![th[t].b].closed = TRUE] /\ th[t].pc = "full"
    BY <2>2, <1>0 DEF Grows, InBlock, BlockRecords
  <2> QED BY <1>4, <2>1, <2>2, PushMoves DEF Moved
<1>5. CASE PushAlloc(t)
  <2>1. PICK b \in Blocks :
          /\ \/ blk[b].state = "garbage" /\ ~Hazard(t, b) /\ hp[t] # b
             \/ blk[b].state \in {"prepared", "free"}
          /\ blk' = [blk EXCEPT ![b] = NewBlock(Val(t))]
    BY <1>5, PushMoves
  <2>2. th[t].pc = "alloc"
    BY <1>5, PushMoves DEF Moved
  <2>3. HandedOut(b)
    <3>1. blk'[b] = NewBlock(Val(t)) /\ blk[b].state \in {"garbage", "prepared", "free"}
      BY <2>1, <1>0
    <3>2. \A u \in QThreads : th[u].pc \in InBlock => th[u].b # b
      BY <2>1, NobodyIn
    <3> QED BY <2>2, <3>1, <3>2 DEF HandedOut
  <2>4. \A c \in Blocks : c # b => Grows(c)
    BY <2>1, <1>0 DEF Grows
  <2> QED BY <2>3, <2>4
<1>6. CASE PushLink(t)
  <2>0. th[t].pc = "link" /\ th[t].b \in Blocks /\ th[t].new \in Blocks /\ th[t].new # NoBlock
    BY <1>6, <1>0, PushMoves, QueueAssumption DEF Moved, InBlock, ListInv, Prepared
  <2>1. CASE blk' = [blk EXCEPT ![th[t].b].next = th[t].new]
    BY <2>0, <2>1, <1>0 DEF Grows, BlockRecords
  <2>2. CASE blk' = [blk EXCEPT ![th[t].new].state = "prepared"]
    BY <2>0, <2>2, <1>0 DEF Grows, BlockRecords
  <2> QED BY <1>6, <2>1, <2>2, PushMoves
<1> QED BY <1>1, <1>2, <1>3, <1>4, <1>5, <1>6 DEF PushStep

LEMMA PopGrows ==
  ASSUME QueueShape, ListInv, NodeInv, NEW t \in Consumers, PopStep(t)
  PROVE  \A c \in Blocks : Grows(c) /\ blk'[c].next = blk[c].next
<1>0. /\ t \in QThreads /\ (th[t].pc \in InBlock => th[t].b \in Blocks)
      /\ blk \in [Blocks -> BlockRecords]
      /\ \A c \in Blocks : blk[c].head \in Nat
  BY PushBlocks, NodeTypes DEF QThreads, QueueShape
<1>a. ASSUME blk' = blk PROVE \A c \in Blocks : Grows(c) /\ blk'[c].next = blk[c].next
  BY <1>0, <1>a DEF Grows
<1>1. CASE SemSteps(t) \/ PopProtect(t) \/ PopTail(t) \/ PopEmpty(t)
  BY <1>1, <1>a, PopMoves
<1>2. CASE PopClaim(t)
  <2>1. th[t].pc = "take" /\ blk' = [blk EXCEPT ![th[t].b].head = @ + 1]
    BY <1>2, PopMoves DEF Moved
  <2> QED BY <2>1, <1>0 DEF Grows, InBlock, BlockRecords
<1>3. CASE PopNode(t)
  <2>1. \E m \in NodeRecords : OneNode(th[t].b, th[t].i % Size, m)
    BY <1>3, NodeMoves
  <2> QED BY <2>1, <1>0 DEF OneNode, Grows
<1>4. CASE PopFix(t)
  <2>1. CASE UNCHANGED blk
    BY <2>1, <1>a
  <2>2. CASE th[t].pc = "fix" /\ blk' = [blk EXCEPT ![th[t].b].tail = B(t).head]
    BY <2>2, <1>0 DEF Grows, InBlock, BlockRecords
  <2> QED BY <1>4, <2>1, <2>2, PopMoves DEF Moved
<1>5. CASE PopLeave(t)
  <2>1. CASE UNCHANGED blk
    BY <2>1, <1>a
  <2>2. ASSUME NEW s, th[t].pc = "leave", blk' = [blk EXCEPT ![th[t].b].state = s]
        PROVE  \A c \in Blocks : Grows(c) /\ blk'[c].next = blk[c].next
    BY <2>2, <1>0 DEF Grows, InBlock, BlockRecords
  <2>3. th[t].pc = "leave" /\ (UNCHANGED blk \/ \E s : blk' = [blk EXCEPT ![th[t].b].state = s])
    BY <1>5, PopMoves DEF Moved
  <2> QED BY <2>1, <2>2, <2>3
<1> QED BY <1>1, <1>2, <1>3, <1>4, <1>5 DEF PopStep, SemSteps

LEMMA PushClosed ==
  ASSUME QueueShape, ListInv, ClosedFirst, NEW t \in Producers, PushStep(t)
  PROVE  ClosedFirst'
<1>0. /\ t \in QThreads /\ Producers \subseteq QThreads
      /\ \A u \in Producers : th[u].pc \in InBlock => th[u].b \in Blocks
      /\ blk \in [Blocks -> BlockRecords]
  BY PushBlocks DEF QThreads, QueueShape
<1>1. \A c \in Blocks : Grows(c) \/ HandedOut(c)
  BY PushGrows
<1>2. \A u \in Producers : th[u].pc \in InBlock => Grows(th[u].b)
  BY <1>0, <1>1 DEF HandedOut
<1>3. \A c \in Blocks : Succ(c)' # NoBlock => blk'[c].closed
  <2>. SUFFICES ASSUME NEW c \in Blocks, blk'[c].next # NoBlock PROVE blk'[c].closed
    BY DEF Succ
  <2>1. ~HandedOut(c)
    BY NewBlockFields DEF HandedOut
  <2>2. Grows(c)
    BY <2>1, <1>1
  <2>3. CASE blk'[c].next = blk[c].next
    BY <2>2, <2>3 DEF Grows, ClosedFirst, Succ
  <2>4. CASE blk'[c].next # blk[c].next
    BY <2>2, <2>4 DEF Grows, ClosedFirst
  <2> QED BY <2>3, <2>4
<1>4. \A u \in Producers : th'[u].pc \in {"alloc", "link", "swing"} => blk'[th'[u].b].closed
  <2>. SUFFICES ASSUME NEW u \in Producers, th'[u].pc \in {"alloc", "link", "swing"}
       PROVE  blk'[th'[u].b].closed
    OBVIOUS
  <2>1. CASE th'[u] = th[u]
    BY <2>1, <1>2 DEF ClosedFirst, Grows, InBlock
  <2>2. CASE th'[u] # th[u]
    <3>1. ~PushWake(t)
      BY <2>2, WakeMoves
    <3>2. u = t
      <4>1. PushProtect(t) \/ PushClaim(t) \/ PushLook(t) \/ PushSwap(t) \/ PushFull(t) \/ PushAlloc(t) \/ PushLink(t) \/ PushSwing(t) \/ PushPost(t)
        BY <3>1 DEF PushStep
      <4>2. Alone(t)
        BY <4>1, PushMoves DEF Moved
      <4> QED BY <4>2, <2>2, <1>0 DEF Alone
    <3>3. CASE PushClaim(t)
      <4>1. th[t].pc = "faa" /\ B(t).closed /\ th'[t].b = th[t].b
        BY <3>2, <3>3, PushMoves DEF Moved
      <4> QED BY <4>1, <3>2, <1>2 DEF Grows, B, InBlock
    <3>4. CASE PushFull(t)
      <4>1. /\ th[t].pc = "full" /\ th'[t].b = th[t].b
            /\ blk' = [blk EXCEPT ![th[t].b].closed = TRUE]
        BY <3>2, <3>4, PushMoves DEF Moved
      <4> QED BY <4>1, <3>2, <1>0 DEF InBlock, BlockRecords
    <3>5. CASE PushAlloc(t)
      <4>1. th[t].pc = "alloc" /\ th'[t].b = th[t].b
        BY <3>5, PushMoves DEF Moved
      <4> QED BY <4>1, <3>2, <1>2 DEF Grows, ClosedFirst, InBlock
    <3>6. CASE PushLink(t)
      <4>1. th[t].pc = "link" /\ th'[t].b = th[t].b
        BY <3>2, <3>6, PushMoves DEF Moved
      <4> QED BY <4>1, <3>2, <1>2 DEF Grows, ClosedFirst, InBlock
    <3> QED BY <3>1, <3>2, <3>3, <3>4, <3>5, <3>6, PushMoves DEF PushStep, Moved
  <2> QED BY <2>1, <2>2
<1> QED BY <1>3, <1>4 DEF ClosedFirst

LEMMA PopClosed ==
  ASSUME QueueShape, ListInv, NodeInv, ClosedFirst, NEW t \in Consumers, PopStep(t),
         Alone(t)
  PROVE  ClosedFirst'
<1>0. \A u \in Producers : th'[u] = th[u] /\ (th[u].pc \in InBlock => th[u].b \in Blocks)
  BY PushBlocks, PcsApart DEF QThreads, Alone
<1>1. \A c \in Blocks : Grows(c) /\ blk'[c].next = blk[c].next
  BY PopGrows
<1> QED BY <1>0, <1>1 DEF ClosedFirst, Grows, Succ, InBlock

-----------------------------------------------------------------------------
(* Which blocks a step touches.                                            *)

LEMMA PushTouches ==
  ASSUME QueueShape, ListInv, NEW t \in Producers, PushStep(t), NEW c \in Blocks
  PROVE  \/ blk'[c] = blk[c]
         \/ th[t].pc \in InBlock /\ c = th[t].b
         \/ HandedOut(c) /\ th[t].pc = "alloc" /\ th'[t].new = c /\ blk'[c] = NewBlock(Val(t))
         \/ th[t].pc = "link" /\ c = th[t].new
<1>0. blk \in [Blocks -> BlockRecords]
  BY DEF QueueShape
<1>1. CASE PushProtect(t) \/ PushLook(t) \/ PushSwing(t) \/ PushPost(t) \/ PushWake(t)
  BY <1>1, PushMoves, WakeMoves
<1>2. CASE PushClaim(t)
  <2>1. th[t].pc = "faa" /\ (UNCHANGED blk \/ blk' = [blk EXCEPT ![th[t].b].tail = @ + 1])
    BY <1>2, PushMoves DEF Moved
  <2> QED BY <2>1, <1>0 DEF InBlock
<1>3. CASE PushSwap(t)
  <2>1. /\ th[t].pc = "cas"
        /\ \/ UNCHANGED blk
           \/ blk' = [blk EXCEPT ![th[t].b].nodes[th[t].i % Size] = Node(th[t].i, Val(t))]
    BY <1>3, PushMoves DEF Moved
  <2> QED BY <2>1, <1>0 DEF InBlock
<1>4. CASE PushFull(t)
  <2>1. th[t].pc = "full" /\ (UNCHANGED blk \/ blk' = [blk EXCEPT ![th[t].b].closed = TRUE])
    BY <1>4, PushMoves DEF Moved
  <2> QED BY <2>1, <1>0 DEF InBlock
<1>5. CASE PushAlloc(t)
  <2>1. PICK b \in Blocks :
          /\ \/ blk[b].state = "garbage" /\ ~Hazard(t, b) /\ hp[t] # b
             \/ blk[b].state \in {"prepared", "free"}
          /\ blk' = [blk EXCEPT ![b] = NewBlock(Val(t))]
          /\ th'[t].new = b
    BY <1>5, PushMoves
  <2>2. th[t].pc = "alloc"
    BY <1>5, PushMoves DEF Moved
  <2>3. \A u \in QThreads : th[u].pc \in InBlock => th[u].b # b
    BY <2>1, NobodyIn
  <2>4. blk'[b] = NewBlock(Val(t)) /\ (c # b => blk'[c] = blk[c])
    BY <2>1, <1>0
  <2> QED BY <2>1, <2>2, <2>3, <2>4 DEF HandedOut
<1>6. CASE PushLink(t)
  <2>1. /\ th[t].pc = "link"
        /\ \/ blk' = [blk EXCEPT ![th[t].b].next = th[t].new]
           \/ blk' = [blk EXCEPT ![th[t].new].state = "prepared"]
    BY <1>6, PushMoves DEF Moved
  <2> QED BY <2>1, <1>0 DEF InBlock
<1> QED BY <1>1, <1>2, <1>3, <1>4, <1>5, <1>6 DEF PushStep

LEMMA PopTouches ==
  ASSUME QueueShape, ListInv, NEW t \in Consumers, PopStep(t), NEW c \in Blocks
  PROVE  blk'[c] = blk[c] \/ (th[t].pc \in InBlock /\ c = th[t].b)
<1>0. blk \in [Blocks -> BlockRecords]
  BY DEF QueueShape
<1>1. CASE SemSteps(t) \/ PopProtect(t) \/ PopTail(t) \/ PopEmpty(t)
  BY <1>1, PopMoves
<1>2. CASE PopClaim(t)
  <2>1. th[t].pc = "take" /\ blk' = [blk EXCEPT ![th[t].b].head = @ + 1]
    BY <1>2, PopMoves DEF Moved
  <2> QED BY <2>1, <1>0 DEF InBlock
<1>3. CASE PopNode(t)
  <2>1. th[t].pc = "look" /\ (UNCHANGED blk \/ \E m : blk' = [blk EXCEPT ![th[t].b].nodes[th[t].i % Size] = m])
    BY <1>3 DEF PopNode
  <2> QED BY <2>1, <1>0 DEF InBlock
<1>4. CASE PopFix(t)
  <2>1. th[t].pc = "fix" /\ (UNCHANGED blk \/ blk' = [blk EXCEPT ![th[t].b].tail = B(t).head])
    BY <1>4, PopMoves DEF Moved
  <2> QED BY <2>1, <1>0 DEF InBlock
<1>5. CASE PopLeave(t)
  <2>3. th[t].pc = "leave" /\ (UNCHANGED blk \/ \E s : blk' = [blk EXCEPT ![th[t].b].state = s])
    BY <1>5, PopMoves DEF Moved
  <2> QED BY <2>3, <1>0 DEF InBlock
<1> QED BY <1>1, <1>2, <1>3, <1>4, <1>5 DEF PopStep, SemSteps

\* A prepared block is nobody's place.
LEMMA PrivateApart ==
  ASSUME QueueShape, ListInv, NEW u \in Producers, th[u].pc = "link"
  PROVE  /\ th[u].new \in Blocks /\ blk[th[u].new].state = "used"
         /\ \A t \in QThreads : th[t].pc \in InBlock => th[t].b # th[u].new
         /\ \A t \in Producers : t # u /\ th[t].pc = "link" => th[t].new # th[u].new
BY DEF ListInv, Prepared, Guarded, Shared, Dead, Private

LEMMA PushPrivate ==
  ASSUME QueueShape, ListInv, PrivateNew, NEW t \in Producers, PushStep(t)
  PROVE  PrivateNew'
<1>0. t \in QThreads /\ Producers \subseteq QThreads
  BY DEF QThreads
<1>. SUFFICES ASSUME NEW u \in Producers, th'[u].pc = "link"
     PROVE  blk'[th'[u].new] = NewBlock(Script[u][th'[u].done + 1])
  BY DEF PrivateNew, Val
<1>1. CASE th'[u] = th[u] /\ ~(u = t /\ PushLink(t))
  <2>1. /\ th[u].new \in Blocks /\ blk[th[u].new].state = "used"
        /\ \A x \in QThreads : th[x].pc \in InBlock => th[x].b # th[u].new
        /\ \A x \in Producers : x # u /\ th[x].pc = "link" => th[x].new # th[u].new
    BY <1>1, PrivateApart
  <2>2. ~(th[t].pc = "link" /\ u = t)
    BY <1>1, PushMoves, WakeMoves DEF PushStep, Moved
  <2>3. blk'[th[u].new] = blk[th[u].new]
    BY <1>0, <2>1, <2>2, PushTouches DEF HandedOut
  <2> QED BY <1>1, <2>3 DEF PrivateNew, Val
<1>2. CASE ~(th'[u] = th[u] /\ ~(u = t /\ PushLink(t)))
  <2>0. ~PushWake(t)
    BY <1>2, WakeMoves DEF PushLink
  <2>1. \/ PushProtect(t) \/ PushClaim(t) \/ PushLook(t) \/ PushSwap(t) \/ PushFull(t)
        \/ PushAlloc(t) \/ PushLink(t) \/ PushSwing(t) \/ PushPost(t)
    BY <2>0 DEF PushStep
  <2>2. u = t
    <3>1. Alone(t)
      BY <2>1, PushMoves DEF Moved
    <3> QED BY <3>1, <1>2, <1>0 DEF Alone
  <2>3. PushAlloc(t)
    BY <2>1, <2>2, PushMoves DEF Moved
  <2>4. PICK b \in Blocks : blk' = [blk EXCEPT ![b] = NewBlock(Val(t))] /\ th'[t].new = b
    BY <2>3, PushMoves
  <2>5. th'[t].done = th[t].done
    BY <2>3, PushMoves DEF Moved
  <2>6. blk'[b] = NewBlock(Val(t))
    BY <2>4 DEF QueueShape
  <2> QED BY <2>2, <2>4, <2>5, <2>6 DEF Val
<1> QED BY <1>1, <1>2

LEMMA PopPrivate ==
  ASSUME QueueShape, ListInv, PrivateNew, NEW t \in Consumers, PopStep(t), Alone(t)
  PROVE  PrivateNew'
<1>0. \A u \in Producers : th'[u] = th[u]
  BY PcsApart DEF QThreads, Alone
<1>. SUFFICES ASSUME NEW u \in Producers, th[u].pc = "link"
     PROVE  blk'[th[u].new] = blk[th[u].new]
  BY <1>0 DEF PrivateNew, Val
<1> QED BY PrivateApart, PopTouches DEF QThreads

-----------------------------------------------------------------------------
(* Blocks that are drained stay so.                                        *)

LEMMA StateSteps ==
  ASSUME QueueShape, NEW b \in Blocks
  PROVE  /\ \A x : blk' = [blk EXCEPT ![b].closed = x] \/ blk' = [blk EXCEPT ![b].next = x]
                     \/ blk' = [blk EXCEPT ![b].tail = x] \/ blk' = [blk EXCEPT ![b].head = x]
                     \/ blk' = blk =>
              \A c \in Blocks : blk'[c].nodes = blk[c].nodes /\ blk'[c].state = blk[c].state
         /\ \A k, m : blk' = [blk EXCEPT ![b].nodes[k] = m] =>
              \A c \in Blocks : blk'[c].state = blk[c].state
<1>0. blk \in [Blocks -> BlockRecords] /\ blk[b] \in BlockRecords
  BY DEF QueueShape
<1>1. ASSUME NEW x, \/ blk' = [blk EXCEPT ![b].closed = x] \/ blk' = [blk EXCEPT ![b].next = x]
                    \/ blk' = [blk EXCEPT ![b].tail = x] \/ blk' = [blk EXCEPT ![b].head = x]
                    \/ blk' = blk
      PROVE  \A c \in Blocks : blk'[c].nodes = blk[c].nodes /\ blk'[c].state = blk[c].state
  BY <1>0, <1>1 DEF BlockRecords
<1>2. ASSUME NEW k, NEW m, blk' = [blk EXCEPT ![b].nodes[k] = m]
      PROVE  \A c \in Blocks : blk'[c].state = blk[c].state
  <2>1. PICK w : blk' = [blk EXCEPT ![b].nodes = w]
    BY <1>2
  <2> QED BY <1>0, <2>1 DEF BlockRecords
<1> QED BY <1>1, <1>2

\* alloc_mpq_block touches the block that it hands out.
LEMMA AllocKeeps ==
  ASSUME QueueShape, ListInv, NEW t \in Producers, PushAlloc(t), NEW c \in Blocks, ~HandedOut(c)
  PROVE  blk'[c] = blk[c]
<1>1. PICK b \in Blocks :
        /\ \/ blk[b].state = "garbage" /\ ~Hazard(t, b) /\ hp[t] # b
           \/ blk[b].state \in {"prepared", "free"}
        /\ blk' = [blk EXCEPT ![b] = NewBlock(Val(t))]
  BY PushMoves
<1>2. \A u \in QThreads : th[u].pc \in InBlock => th[u].b # b
  BY <1>1, NobodyIn
<1>3. blk'[b] = NewBlock(Val(t)) /\ \A x \in Blocks : x # b => blk'[x] = blk[x]
  BY <1>1 DEF QueueShape
<1>4. HandedOut(b)
  <2>1. th[t].pc = "alloc"
    BY DEF PushAlloc
  <2> QED BY <1>1, <1>2, <1>3, <2>1 DEF HandedOut
<1> QED BY <1>3, <1>4

LEMMA PushNodeKept ==
  ASSUME QueueShape, ListInv, NEW t \in Producers, PushStep(t), NEW c \in Blocks,
         ~HandedOut(c)
  PROVE  \A n \in Ring : \/ blk'[c].nodes[n] = blk[c].nodes[n]
                         \/ /\ th[t].pc = "cas" /\ th[t].b = c
                            /\ blk'[c].nodes[n].idx = th[t].i
<1>0. /\ t \in QThreads /\ (th[t].pc \in InBlock => th[t].b \in Blocks)
      /\ blk \in [Blocks -> BlockRecords]
  BY PushBlocks DEF QThreads, QueueShape
<1>1. CASE PushProtect(t) \/ PushLook(t) \/ PushSwing(t) \/ PushPost(t) \/ PushWake(t)
  BY <1>1, PushMoves, WakeMoves
<1>2. CASE PushClaim(t)
  <2>1. th[t].pc = "faa" /\ (UNCHANGED blk \/ blk' = [blk EXCEPT ![th[t].b].tail = @ + 1])
    BY <1>2, PushMoves DEF Moved
  <2>2. CASE blk' = [blk EXCEPT ![th[t].b].tail = @ + 1]
    <3>1. blk' = [blk EXCEPT ![th[t].b].tail = blk[th[t].b].tail + 1] /\ th[t].b \in Blocks
      BY <2>1, <2>2, <1>0 DEF InBlock
    <3> QED BY <3>1, FieldSteps
  <2> QED BY <2>1, <2>2
<1>3. CASE PushSwap(t)
  <2>1. /\ th[t].pc = "cas"
        /\ \/ UNCHANGED blk
           \/ blk' = [blk EXCEPT ![th[t].b].nodes[th[t].i % Size] = Node(th[t].i, Val(t))]
    BY <1>3, PushMoves DEF Moved
  <2>2. CASE blk' = [blk EXCEPT ![th[t].b].nodes[th[t].i % Size] = Node(th[t].i, Val(t))]
    <3>1. OneNode(th[t].b, th[t].i % Size, Node(th[t].i, Val(t)))
      BY <2>1, <2>2, <1>0, ThreadTypes, PlaceOf, OneNodeStep DEF InBlock
    <3> QED BY <2>1, <3>1 DEF OneNode, Node
  <2> QED BY <2>1, <2>2
<1>4. CASE PushFull(t)
  <2>1. th[t].pc = "full" /\ (UNCHANGED blk \/ blk' = [blk EXCEPT ![th[t].b].closed = TRUE])
    BY <1>4, PushMoves DEF Moved
  <2> QED BY <2>1, <1>0, FieldSteps DEF InBlock
<1>5. CASE PushAlloc(t)
  BY <1>5, AllocKeeps
<1>6. CASE PushLink(t)
  <2>1. /\ th[t].pc = "link" /\ th[t].new \in Blocks
        /\ \/ blk' = [blk EXCEPT ![th[t].b].next = th[t].new]
           \/ blk' = [blk EXCEPT ![th[t].new].state = "prepared"]
    BY <1>6, PushMoves, PrivateApart DEF Moved
  <2> QED BY <2>1, <1>0, FieldSteps DEF InBlock
<1> QED BY <1>1, <1>2, <1>3, <1>4, <1>5, <1>6 DEF PushStep

LEMMA PushDrained ==
  ASSUME QueueShape, ListInv, NEW t \in Producers, PushStep(t), NEW c \in Blocks,
         Drained(c), ~HandedOut(c)
  PROVE  Drained(c)'
<1>0. Grows(c) /\ blk[c].head \in Nat /\ blk'[c].head \in Nat /\ Producers \subseteq QThreads
  BY PushGrows, NodeTypes DEF Grows, QThreads
<1>1. blk'[c].closed
  BY <1>0 DEF Grows, Drained
<1>2. \A n \in Ring : blk'[c].nodes[n].val # NoValue => blk'[c].nodes[n].idx < blk'[c].head
  <2>. SUFFICES ASSUME NEW n \in Ring, blk'[c].nodes[n].val # NoValue
       PROVE  blk'[c].nodes[n].idx < blk'[c].head
    OBVIOUS
  <2>1. CASE blk'[c].nodes[n] = blk[c].nodes[n]
    <3>1. blk[c].nodes[n].idx \in Nat /\ blk[c].nodes[n].idx < blk[c].head
      BY <2>1, NodeTypes DEF Drained
    <3> QED BY <2>1, <3>1, <1>0 DEF Grows
  <2>2. CASE th[t].pc = "cas" /\ th[t].b = c /\ blk'[c].nodes[n].idx = th[t].i
    <3>1. th[t].i < blk[c].head /\ th[t].i \in Nat
      BY <2>2, ThreadTypes DEF Drained
    <3> QED BY <2>2, <3>1, <1>0 DEF Grows
  <2> QED BY <2>1, <2>2, PushNodeKept
<1>3. \A u \in Producers : th'[u].pc \in {"node", "cas"} /\ th'[u].b = c => th'[u].i < blk'[c].head
  <2>. SUFFICES ASSUME NEW u \in Producers, th'[u].pc \in {"node", "cas"}, th'[u].b = c
       PROVE  th'[u].i < blk'[c].head
    OBVIOUS
  <2>1. th[u].pc \in {"node", "cas"} /\ th[u].b = c /\ th[u].i = th'[u].i
    <3>1. CASE th'[u] = th[u]
      BY <3>1
    <3>2. CASE th'[u] # th[u]
      <4>0. ~PushWake(t)
        BY <3>2, WakeMoves
      <4>1. \/ PushProtect(t) \/ PushClaim(t) \/ PushLook(t) \/ PushSwap(t) \/ PushFull(t)
            \/ PushAlloc(t) \/ PushLink(t) \/ PushSwing(t) \/ PushPost(t)
        BY <4>0 DEF PushStep
      <4>2. u = t
        <5>1. Alone(t)
          BY <4>1, PushMoves DEF Moved
        <5> QED BY <5>1, <3>2, <1>0 DEF Alone
      <4>3. PushClaim(t) \/ PushLook(t)
        BY <4>1, <4>2, PushMoves DEF Moved
      <4>4. CASE PushClaim(t)
        <5>1. ~B(t).closed /\ th'[t].b = th[t].b
          BY <4>2, <4>4, PushMoves DEF Moved
        <5> QED BY <4>2, <5>1 DEF Drained, B
      <4>5. CASE PushLook(t)
        BY <4>2, <4>5, PushMoves DEF Moved
      <4> QED BY <4>3, <4>4, <4>5
    <3> QED BY <3>1, <3>2
  <2>2. th[u].i \in Nat /\ th[u].i < blk[c].head
    BY <2>1, ThreadTypes DEF Drained
  <2> QED BY <2>1, <2>2, <1>0 DEF Grows
<1> QED BY <1>1, <1>2, <1>3 DEF Drained

LEMMA PopNodeKept ==
  ASSUME QueueShape, ListInv, NodeInv, NEW t \in Consumers, PopStep(t), NEW c \in Blocks
  PROVE  \A n \in Ring : \/ blk'[c].nodes[n] = blk[c].nodes[n]
                         \/ /\ PopNode(t) /\ th[t].b = c /\ n = th[t].i % Size
                            /\ blk'[c].nodes[n].val # NoValue =>
                                 /\ blk'[c].nodes[n].idx = blk[c].nodes[n].idx
                                 /\ blk'[c].nodes[n].val = blk[c].nodes[n].val
<1>0. /\ t \in QThreads /\ (th[t].pc \in InBlock => th[t].b \in Blocks)
      /\ blk \in [Blocks -> BlockRecords]
  BY PushBlocks DEF QThreads, QueueShape
<1>1. CASE SemSteps(t) \/ PopProtect(t) \/ PopTail(t) \/ PopEmpty(t)
  BY <1>1, PopMoves
<1>2. CASE PopClaim(t)
  <2>1. th[t].pc = "take" /\ blk' = [blk EXCEPT ![th[t].b].head = blk[th[t].b].head + 1]
    BY <1>2, PopMoves DEF Moved
  <2> QED BY <2>1, <1>0, FieldSteps DEF InBlock
<1>3. CASE PopNode(t)
  <2>1. PICK m \in NodeRecords :
          /\ OneNode(th[t].b, th[t].i % Size, m)
          /\ m.val # NoValue => m.val = At(t).val /\ m.idx = At(t).idx
    BY <1>3, NodeMoves
  <2> QED BY <2>1, <1>0, <1>3 DEF OneNode, At, B
<1>4. CASE PopFix(t)
  <2>1. th[t].pc = "fix" /\ (UNCHANGED blk \/ blk' = [blk EXCEPT ![th[t].b].tail = B(t).head])
    BY <1>4, PopMoves DEF Moved
  <2> QED BY <2>1, <1>0, FieldSteps DEF InBlock
<1>5. CASE PopLeave(t)
  <2>1. th[t].pc = "leave" /\ (UNCHANGED blk \/ \E s : blk' = [blk EXCEPT ![th[t].b].state = s])
    BY <1>5, PopMoves DEF Moved
  <2> QED BY <2>1, <1>0, FieldSteps DEF InBlock
<1> QED BY <1>1, <1>2, <1>3, <1>4, <1>5 DEF PopStep, SemSteps

LEMMA PopDrained ==
  ASSUME QueueShape, ListInv, NodeInv, NEW t \in Consumers, PopStep(t), Alone(t),
         NEW c \in Blocks, Drained(c)
  PROVE  Drained(c)'
<1>0. Grows(c) /\ blk[c].head \in Nat /\ blk'[c].head \in Nat
  BY PopGrows, NodeTypes DEF Grows
<1>1. blk'[c].closed
  BY <1>0 DEF Grows, Drained
<1>2. \A n \in Ring : blk'[c].nodes[n].val # NoValue => blk'[c].nodes[n].idx < blk'[c].head
  <2>. SUFFICES ASSUME NEW n \in Ring, blk'[c].nodes[n].val # NoValue
       PROVE  blk'[c].nodes[n].idx < blk'[c].head
    OBVIOUS
  <2>1. blk[c].nodes[n].val # NoValue /\ blk'[c].nodes[n].idx = blk[c].nodes[n].idx
    BY PopNodeKept
  <2>2. blk[c].nodes[n].idx \in Nat /\ blk[c].nodes[n].idx < blk[c].head
    BY <2>1, NodeTypes DEF Drained
  <2> QED BY <2>1, <2>2, <1>0 DEF Grows
<1>3. \A u \in Producers : th'[u].pc \in {"node", "cas"} /\ th'[u].b = c => th'[u].i < blk'[c].head
  <2>. SUFFICES ASSUME NEW u \in Producers, th'[u].pc \in {"node", "cas"}, th'[u].b = c
       PROVE  th'[u].i < blk'[c].head
    OBVIOUS
  <2>1. th'[u] = th[u]
    BY PcsApart DEF Alone, QThreads
  <2>2. th[u].i \in Nat /\ th[u].i < blk[c].head
    BY <2>1, ThreadTypes DEF Drained
  <2> QED BY <2>1, <2>2, <1>0 DEF Grows
<1> QED BY <1>1, <1>2, <1>3 DEF Drained

-----------------------------------------------------------------------------
(* A block is left when it is drained and not the last one.                *)

LEMMA FiniteCounts ==
  ASSUME QueueShape
  PROVE  /\ IsFiniteSet(Where) /\ Cardinality(Where) \in Nat
         /\ \A pcs : /\ IsFiniteSet({t \in Consumers : th[t].pc \in pcs})
                     /\ IsFiniteSet({t \in Producers : th[t].pc \in pcs})
                     /\ Count(Consumers, pcs) \in Nat /\ Count(Producers, pcs) \in Nat
         /\ mq.sem \in Int
<1>1. IsFiniteSet(Blocks \X Ring)
  <2>1. 0 \in Int /\ Size - 1 \in Int
    BY QueueAssumption
  <2>2. IsFiniteSet(Ring)
    BY <2>1, FS_Interval DEF Ring
  <2> QED BY <2>2, QueueAssumption, FS_Product
<1>2. Where \subseteq Blocks \X Ring
  BY DEF Where, Kept, Shared, Dead
<1>3. \A pcs : /\ {t \in Consumers : th[t].pc \in pcs} \subseteq Consumers
               /\ {t \in Producers : th[t].pc \in pcs} \subseteq Producers
  OBVIOUS
<1>4. \A pcs : /\ IsFiniteSet({t \in Consumers : th[t].pc \in pcs})
               /\ IsFiniteSet({t \in Producers : th[t].pc \in pcs})
  BY <1>3, QueueAssumption, FS_Subset
<1>5. mq.sem \in Int
  BY DEF QueueShape
<1> QED BY <1>1, <1>2, <1>4, <1>5, FS_Subset, FS_CardinalityType DEF Count

\* A consumer that finds the block of the head empty can rely on a next one: there
\* are at least as many values as consumers in the queue.
LEMMA TailNext ==
  ASSUME QueueShape, ListInv, NodeInv, LeftDrained, SemFits, NEW t \in Consumers,
         th[t].pc = "tail", B(t).tail <= th[t].i + 1
  PROVE  Succ(th[t].b) # NoBlock
<1>. SUFFICES ASSUME Succ(th[t].b) = NoBlock PROVE FALSE
  OBVIOUS
<1>. DEFINE b == th[t].b
            idx(p) == blk[p[1]].nodes[p[2]].idx
            L == {u \in Consumers : th[u].pc \in {"look"}}
            P == {u \in Consumers : th[u].pc \in InPop}
<1>0. /\ b \in Blocks /\ th[t].i \in Nat /\ th[t].i < blk[b].head /\ t \in QThreads
      /\ blk[b].head \in Nat /\ blk[b].tail \in Nat /\ blk[b].tail <= th[t].i + 1
  BY PushBlocks, ThreadTypes, NodeTypes DEF InBlock, NodeInv, Claims, QThreads, B
<1>1. Shared = {b}
  <2>1. PICK q \in Seq(Blocks) : IsChain(q)
    BY DEF ListInv, Chained
  <2>2. b = mq.head
    BY DEF ListInv, PoppersAhead, InBlock
  <2>3. Len(q) \in Nat /\ Len(q) >= 1
    BY <2>1 DEF IsChain
  <2>4. Len(q) = 1
    <3>. SUFFICES ASSUME Len(q) # 1 PROVE FALSE
      OBVIOUS
    <3>1. 1 \in 1 .. Len(q) /\ 1 + 1 \in 1 .. Len(q)
      <4>1. \A l \in Nat : l >= 1 /\ l # 1 => 1 \in 1 .. l /\ 1 + 1 \in 1 .. l
        OBVIOUS
      <4> QED BY <2>3, <4>1
    <3>2. q[1] = b
      BY <2>1, <2>2 DEF IsChain
    <3>3. Succ(q[1]) = q[1 + 1]
      <4>1. Succ(q[1]) = IF 1 = Len(q) THEN NoBlock ELSE q[1 + 1]
        BY <2>1, <3>1 DEF IsChain
      <4> QED BY <4>1
    <3>4. q[1 + 1] \in Blocks
      BY <2>1, <3>1
    <3>5. Succ(q[1]) = NoBlock
      BY <3>2
    <3> QED BY <3>3, <3>4, <3>5, QueueAssumption
  <2>5. \A c \in Blocks : c \in Shared <=> c = b
    BY <2>1, <2>2, <2>4 DEF IsChain
  <2> QED BY <2>5, <1>0 DEF Shared
<1>2. \A p \in Where : /\ p[1] \in Blocks /\ p[2] \in Ring /\ idx(p) \in Nat
                       /\ idx(p) < blk[p[1]].head /\ idx(p) % Size = p[2]
                       /\ p = <<p[1], p[2]>>
  <2>. SUFFICES ASSUME NEW p \in Where
       PROVE /\ p[1] \in Blocks /\ p[2] \in Ring /\ idx(p) \in Nat
             /\ idx(p) < blk[p[1]].head /\ idx(p) % Size = p[2]
             /\ p = <<p[1], p[2]>>
    OBVIOUS
  <2>1. /\ p[1] \in Kept /\ p[2] \in Ring /\ blk[p[1]].nodes[p[2]].val # NoValue
        /\ p = <<p[1], p[2]>> /\ p[1] \in Blocks
    BY DEF Where, Kept, Shared, Dead
  <2>2. idx(p) \in Nat /\ idx(p) % Size = p[2] /\ idx(p) < blk[p[1]].tail
    BY <2>1, NodeTypes DEF NodeInv, Claims
  <2>3. CASE p[1] \in Dead
    BY <2>1, <2>2, <2>3 DEF LeftDrained, Drained
  <2>4. CASE p[1] = b
    <3>1. idx(p) < blk[b].tail
      BY <2>2, <2>4
    <3>. HIDE DEF idx, b
    <3> QED BY <2>1, <2>2, <2>4, <3>1, <1>0
  <2> QED BY <2>1, <2>3, <2>4, <1>1 DEF Kept
<1>3. \A p \in Where : \E u \in Consumers : Looks(u, p[1], idx(p))
  BY <1>2 DEF NodeInv, Bound, Where
<1>. DEFINE f == [p \in Where |-> CHOOSE u \in Consumers : Looks(u, p[1], idx(p))]
<1>4. \A p \in Where : f[p] \in Consumers /\ Looks(f[p], p[1], idx(p))
  BY <1>3
<1>5. f \in Injection(Where, L)
  <2>1. f \in [Where -> L]
    BY <1>4 DEF Looks
  <2>2. \A p, q \in Where : f[p] = f[q] => p = q
    <3>. SUFFICES ASSUME NEW p \in Where, NEW q \in Where, f[p] = f[q] PROVE p = q
      OBVIOUS
    <3>1. p[1] = q[1] /\ idx(p) = idx(q)
      <4>1. Looks(f[p], p[1], idx(p)) /\ Looks(f[p], q[1], idx(q))
        BY <1>4
      <4>. HIDE DEF f, idx
      <4> QED BY <4>1 DEF Looks
    <3>. HIDE DEF f, idx
    <3>2. p[2] = q[2]
      <4>1. idx(p) % Size = p[2] /\ idx(q) % Size = q[2]
        BY <1>2
      <4> QED BY <3>1, <4>1
    <3> QED BY <3>1, <3>2, <1>2
  <2>. HIDE DEF f
  <2> QED BY <2>1, <2>2 DEF Injection, IsInjective
<1>. HIDE DEF f, L, P
<1>6. IsFiniteSet(L) /\ IsFiniteSet(P)
  BY FiniteCounts DEF L, P
<1>7. Cardinality(Where) <= Cardinality(L)
  BY <1>5, <1>6, FS_Injection
<1>8. L \subseteq P \ {t} /\ t \in P
  BY DEF L, P, InPop, InBlock
<1>9. Cardinality(L) <= Cardinality(P \ {t}) /\ Cardinality(P \ {t}) = Cardinality(P) - 1
  BY <1>6, <1>8, FS_RemoveElement, FS_Subset
<1>10. Cardinality(Where) >= Cardinality(P)
  <2>1. Count(Consumers, InPop) = Cardinality(P)
    BY DEF Count, P
  <2>2. /\ mq.sem + Count(Consumers, {"undo"}) >= 0
        /\ Cardinality(Where) = mq.sem + Count(Consumers, {"undo"})
             + Count(Consumers, InPop) + Count(Producers, {"swing", "post"})
    BY DEF SemFits
  <2>3. /\ Count(Consumers, {"undo"}) \in Nat /\ Count(Producers, {"swing", "post"}) \in Nat
        /\ Count(Consumers, InPop) \in Nat /\ mq.sem \in Int
    BY FiniteCounts
  <2> QED BY <2>1, <2>2, <2>3
<1>11. Cardinality(Where) \in Nat /\ Cardinality(L) \in Nat /\ Cardinality(P) \in Nat /\ Cardinality(P \ {t}) \in Int
  BY <1>6, <1>9, FiniteCounts, FS_CardinalityType
<1> QED BY <1>7, <1>9, <1>10, <1>11

\* A consumer that comes back to a block with a next one and finds its tail passed
\* leaves nothing behind.
LEMMA TailDrained ==
  ASSUME QueueShape, ListInv, NodeInv, ClosedFirst, NEW t \in Consumers,
         th[t].pc = "tail", B(t).tail <= th[t].i + 1, Succ(th[t].b) # NoBlock
  PROVE  Drained(th[t].b)
<1>. DEFINE b == th[t].b
<1>0. /\ b \in Blocks /\ th[t].i \in Nat /\ th[t].i < blk[b].head
      /\ blk[b].head \in Nat /\ blk[b].tail \in Nat /\ blk[b].tail <= th[t].i + 1
  BY PushBlocks, ThreadTypes, NodeTypes DEF InBlock, NodeInv, Claims, B
<1>1. \A x \in Nat : x < blk[b].tail => x < blk[b].head
  BY <1>0
<1>2. blk[b].closed
  BY <1>0 DEF ClosedFirst
<1>3. \A n \in Ring : blk[b].nodes[n].val # NoValue => blk[b].nodes[n].idx < blk[b].head
  BY <1>0, <1>1, NodeTypes DEF NodeInv, Claims
<1>4. \A u \in Producers : th[u].pc \in {"node", "cas"} /\ th[u].b = b => th[u].i < blk[b].head
  BY <1>0, <1>1, ThreadTypes DEF NodeInv, Claims
<1> QED BY <1>2, <1>3, <1>4 DEF Drained

LEMMA PushLeft ==
  ASSUME QueueShape, ListInv, LeftDrained, NEW t \in Producers, PushStep(t)
  PROVE  LeftDrained'
<1>0. /\ t \in QThreads /\ t \notin Consumers
      /\ \A u \in Consumers : u \in QThreads /\ (th[u].pc \in InBlock => th[u].b \in Blocks)
  BY PushBlocks, PcsApart DEF QThreads
<1>1. \A c \in Blocks : c \in Dead' => c \in Dead /\ ~HandedOut(c)
  <2>. SUFFICES ASSUME NEW c \in Blocks, blk'[c].state = "garbage"
       PROVE  blk[c].state = "garbage" /\ ~HandedOut(c)
    BY DEF Dead
  <2>1. ~HandedOut(c)
    BY NewBlockFields DEF HandedOut
  <2>2. CASE PushAlloc(t)
    BY <2>1, <2>2, AllocKeeps
  <2>3. CASE PushLink(t)
    <3>1. /\ th[t].pc = "link" /\ th[t].new \in Blocks /\ th[t].b \in Blocks
          /\ \/ blk' = [blk EXCEPT ![th[t].b].next = th[t].new]
             \/ blk' = [blk EXCEPT ![th[t].new].state = "prepared"]
      BY <2>3, PushMoves, PrivateApart, PushBlocks DEF Moved, InBlock
    <3> QED BY <3>1, <2>1 DEF QueueShape, BlockRecords
  <2>4. CASE PushClaim(t)
    <3>1. UNCHANGED blk \/ blk' = [blk EXCEPT ![th[t].b].tail = @ + 1]
      BY <2>4, PushMoves
    <3> QED BY <3>1, <2>1 DEF QueueShape, BlockRecords
  <2>5. CASE PushSwap(t)
    <3>1. UNCHANGED blk \/ blk' = [blk EXCEPT ![th[t].b].nodes[th[t].i % Size] = Node(th[t].i, Val(t))]
      BY <2>5, PushMoves
    <3>2. th[t].b \in Blocks
      BY <2>5, PushBlocks DEF PushSwap, InBlock
    <3>3. blk'[c].state = blk[c].state
      BY <3>1, <3>2, StateSteps
    <3> QED BY <3>3, <2>1
  <2>6. CASE PushFull(t)
    <3>1. UNCHANGED blk \/ blk' = [blk EXCEPT ![th[t].b].closed = TRUE]
      BY <2>6, PushMoves
    <3>2. th[t].b \in Blocks
      BY <2>6, PushBlocks DEF PushFull, InBlock
    <3>3. blk'[c].state = blk[c].state
      BY <3>1, <3>2, StateSteps
    <3> QED BY <3>3, <2>1
  <2>7. CASE PushProtect(t) \/ PushLook(t) \/ PushSwing(t) \/ PushPost(t) \/ PushWake(t)
    BY <2>1, <2>7, PushMoves, WakeMoves
  <2> QED BY <2>2, <2>3, <2>4, <2>5, <2>6, <2>7 DEF PushStep
<1>2. \A c \in Dead' : Drained(c)'
  <2>. SUFFICES ASSUME NEW c \in Blocks, c \in Dead' PROVE Drained(c)'
    BY DEF Dead
  <2> QED BY <1>1, PushDrained DEF LeftDrained
<1>3. \A u \in Consumers : th'[u].pc \in {"fix", "empty", "leave"} => th'[u] = th[u]
  <2>1. CASE PushWake(t)
    BY <2>1, WakeMoves
  <2>2. CASE ~PushWake(t)
    <3>1. Alone(t)
      BY <2>2, PushMoves DEF Moved, PushStep
    <3> QED BY <3>1, <1>0 DEF Alone
  <2> QED BY <2>1, <2>2
<1>4. ASSUME NEW u \in Consumers, th'[u].pc \in {"fix", "empty", "leave"}
      PROVE  Succ(th[u].b)' # NoBlock /\ (th'[u].again => Drained(th[u].b)')
  <2>1. /\ th'[u] = th[u] /\ th[u].b \in Blocks /\ ~HandedOut(th[u].b)
        /\ Succ(th[u].b) # NoBlock /\ (th[u].again => Drained(th[u].b))
    BY <1>0, <1>3, <1>4 DEF LeftDrained, HandedOut, InBlock
  <2>2. Grows(th[u].b)
    BY <2>1, PushGrows
  <2>3. Succ(th[u].b)' = blk'[th[u].b].next
    BY <2>1 DEF Succ
  <2>4. th[u].again => Drained(th[u].b)'
    <3>. SUFFICES ASSUME th[u].again, NEW c \in Blocks, c = th[u].b, ~HandedOut(c), Drained(c)
         PROVE  blk'[c].closed /\ Drained(c)'
      BY <2>1, <1>3, <1>4 DEF Drained
    <3>1. Drained(c)'
      BY PushDrained
    <3> QED BY <3>1 DEF Drained
  <2> QED BY <2>1, <2>2, <2>3, <2>4 DEF Grows, Succ
<1> QED BY <1>2, <1>3, <1>4 DEF LeftDrained

\* A consumer's step leaves one behind that it has found drained.
LEMMA PopDead ==
  ASSUME QueueShape, ListInv, LeftDrained, NEW t \in Consumers, PopStep(t), NEW c \in Blocks,
         blk'[c].state = "garbage"
  PROVE  Drained(c)
<1>0. /\ t \in QThreads /\ (th[t].pc \in InBlock => th[t].b \in Blocks)
      /\ blk \in [Blocks -> BlockRecords]
  BY PushBlocks DEF QThreads, QueueShape
<1>1. CASE blk[c].state = "garbage"
  BY <1>1 DEF LeftDrained, Dead
<1>2. CASE PopLeave(t) /\ blk[c].state # "garbage"
  <2>1. th[t].pc = "leave" /\ (UNCHANGED blk \/ \E s : blk' = [blk EXCEPT ![th[t].b].state = s])
    BY <1>2, PopMoves DEF Moved
  <2>2. c = th[t].b
    BY <1>0, <1>2, <2>1 DEF BlockRecords
  <2>3. th[t].again
    BY <2>1 DEF ListInv, PoppersAhead
  <2> QED BY <2>1, <2>2, <2>3 DEF LeftDrained
<1>3. CASE ~PopLeave(t)
  <2>1. CASE SemSteps(t) \/ PopProtect(t) \/ PopTail(t) \/ PopEmpty(t)
    BY <1>1, <2>1, PopMoves
  <2>2. CASE PopClaim(t)
    <3>1. blk' = [blk EXCEPT ![th[t].b].head = @ + 1]
      BY <2>2, PopMoves
    <3> QED BY <3>1, <1>0, <1>1 DEF BlockRecords
  <2>3. CASE PopNode(t)
    <3>1. UNCHANGED blk \/ \E m : blk' = [blk EXCEPT ![th[t].b].nodes[th[t].i % Size] = m]
      BY <2>3 DEF PopNode
    <3>2. th[t].b \in Blocks
      BY <2>3, <1>0 DEF PopNode, InBlock
    <3>3. blk'[c].state = blk[c].state
      BY <3>1, <3>2, StateSteps
    <3> QED BY <3>3, <1>1
  <2>4. CASE PopFix(t)
    <3>1. UNCHANGED blk \/ blk' = [blk EXCEPT ![th[t].b].tail = B(t).head]
      BY <2>4, PopMoves
    <3> QED BY <3>1, <1>0, <1>1 DEF BlockRecords
  <2> QED BY <1>3, <2>1, <2>2, <2>3, <2>4 DEF PopStep, SemSteps
<1> QED BY <1>1, <1>2, <1>3

\* Every step of a consumer is its own, and none finds the queue empty.
LEMMA PopAlone ==
  ASSUME QueueShape, ListInv, NodeInv, LeftDrained, NEW t \in Consumers, PopStep(t)
  PROVE  /\ Alone(t) /\ ~(th[t].pc = "empty" /\ Succ(th[t].b) = NoBlock)
         /\ (~PopNode(t) => UNCHANGED popped)
<1>1. ~(th[t].pc = "empty" /\ Succ(th[t].b) = NoBlock)
  BY DEF LeftDrained
<1>2. CASE PopNode(t)
  BY <1>1, <1>2, NodeMoves DEF Moved
<1>3. CASE PopEmpty(t)
  BY <1>1, <1>3, PopMoves DEF Moved, B, Succ
<1>4. CASE SemSteps(t) \/ PopProtect(t) \/ PopTail(t) \/ PopClaim(t) \/ PopFix(t) \/ PopLeave(t)
  BY <1>1, <1>4, PopMoves DEF Moved
<1> QED BY <1>2, <1>3, <1>4 DEF PopStep, SemSteps

LEMMA PopLeft ==
  ASSUME QueueShape, ListInv, NodeInv, ClosedFirst, LeftDrained, SemFits,
         NEW t \in Consumers, PopStep(t)
  PROVE  LeftDrained'
<1>0. /\ t \in QThreads /\ Alone(t)
      /\ \A u \in Consumers : u \in QThreads /\ (th[u].pc \in InBlock => th[u].b \in Blocks)
  BY PushBlocks, PopAlone DEF QThreads
<1>1. \A c \in Dead' : Drained(c)'
  <2>. SUFFICES ASSUME NEW c \in Blocks, blk'[c].state = "garbage" PROVE Drained(c)'
    BY DEF Dead
  <2> QED BY PopDead, PopDrained, <1>0
<1>2. ASSUME NEW u \in Consumers, th'[u].pc \in {"fix", "empty", "leave"}
      PROVE  /\ th[u].b \in Blocks /\ th'[u].b = th[u].b /\ th'[u].again = th[u].again
             /\ Succ(th[u].b) # NoBlock
             /\ th[u].again => Drained(th[u].b)
  <2>1. CASE u # t
    <3>1. th'[u] = th[u]
      BY <2>1, <1>0 DEF Alone
    <3> QED BY <3>1, <1>0, <1>2 DEF LeftDrained, InBlock
  <2>2. CASE u = t
    <3>1. PopTail(t) \/ PopFix(t) \/ PopEmpty(t)
      <4>1. ~(SemSteps(t) \/ PopProtect(t) \/ PopClaim(t) \/ PopLeave(t))
        BY <1>2, <2>2, PopMoves DEF Moved
      <4>2. ~PopNode(t)
        BY <1>2, <2>2, NodeMoves DEF Moved
      <4> QED BY <4>1, <4>2 DEF PopStep, SemSteps
    <3>2. CASE PopTail(t)
      <4>1. th[t].pc = "tail" /\ B(t).tail <= th[t].i + 1 /\ Stays(t)
        BY <1>2, <2>2, <3>2, PopMoves DEF Moved
      <4>2. Succ(th[t].b) # NoBlock
        BY <4>1, TailNext
      <4>3. Drained(th[t].b)
        BY <4>1, <4>2, TailDrained
      <4> QED BY <2>2, <4>1, <4>2, <4>3, <1>0 DEF Stays, InBlock
    <3>3. CASE PopFix(t)
      <4>1. th[t].pc = "fix" /\ Stays(t)
        BY <3>3, PopMoves DEF Moved
      <4> QED BY <2>2, <4>1, <1>0 DEF Stays, InBlock, LeftDrained
    <3>4. CASE PopEmpty(t)
      <4>1. th[t].pc = "empty" /\ Stays(t)
        BY <1>2, <2>2, <3>4, PopMoves, PopAlone DEF Moved, B, Succ
      <4> QED BY <2>2, <4>1, <1>0 DEF Stays, InBlock, LeftDrained
    <3> QED BY <3>1, <3>2, <3>3, <3>4
  <2> QED BY <2>1, <2>2
<1>3. ASSUME NEW u \in Consumers, th'[u].pc \in {"fix", "empty", "leave"}
      PROVE  blk'[th'[u].b].next # NoBlock /\ (th'[u].again => Drained(th[u].b)')
  <2>1. /\ th[u].b \in Blocks /\ th'[u].b = th[u].b /\ th'[u].again = th[u].again
        /\ Succ(th[u].b) # NoBlock /\ th[u].again => Drained(th[u].b)
    BY <1>2, <1>3
  <2>2. Grows(th[u].b)
    BY <2>1, PopGrows
  <2>3. th'[u].again => Drained(th[u].b)'
    <3>. SUFFICES ASSUME th'[u].again, NEW c \in Blocks, c = th[u].b, Drained(c)
         PROVE  Drained(c)' /\ c = th'[u].b
      BY <1>2, <1>3 DEF Drained
    <3> QED BY PopDrained, <1>0, <1>2, <1>3
  <2> QED BY <1>2, <1>3, <2>2, <2>3 DEF Grows, Succ
<1> QED BY <1>1, <1>3 DEF LeftDrained, Succ

-----------------------------------------------------------------------------
(* Where the values are.                                                   *)

WhereSame == Where' = Where /\ \A p \in Where : ValAt(p)' = ValAt(p)

WhereAdds(v) ==
  \E p : /\ p \notin Where /\ Where' = Where \cup {p} /\ ValAt(p)' = v
         /\ \A q \in Where : ValAt(q)' = ValAt(q)

WhereTakes(v) ==
  \E p \in Where : /\ Where' = Where \ {p} /\ ValAt(p) = v
                   /\ \A q \in Where \ {p} : ValAt(q)' = ValAt(q)

Held(c, n) == c \in Kept /\ blk[c].nodes[n].val # NoValue

LEMMA SamePlaces ==
  ASSUME \A c \in Blocks, n \in Ring :
           /\ Held(c, n)' <=> Held(c, n)
           /\ Held(c, n) => blk'[c].nodes[n].val = blk[c].nodes[n].val
  PROVE  WhereSame
<1>1. \A p : p \in Where <=> /\ p = <<p[1], p[2]>> /\ p[1] \in Blocks /\ p[2] \in Ring
                             /\ Held(p[1], p[2])
  BY DEF Where, Held, Kept, Shared, Dead
<1>2. \A p : p \in Where' <=> /\ p = <<p[1], p[2]>> /\ p[1] \in Blocks /\ p[2] \in Ring
                              /\ Held(p[1], p[2])'
  BY DEF Where, Held, Kept, Shared, Dead
<1> QED BY <1>1, <1>2 DEF WhereSame, ValAt

LEMMA AddsPlace ==
  ASSUME NEW b \in Blocks, NEW k \in Ring, NEW v, v # NoValue, ~Held(b, k), Held(b, k)',
         blk'[b].nodes[k].val = v,
         \A c \in Blocks, n \in Ring : c # b \/ n # k =>
           /\ Held(c, n)' <=> Held(c, n)
           /\ Held(c, n) => blk'[c].nodes[n].val = blk[c].nodes[n].val
  PROVE  WhereAdds(v)
<1>. DEFINE p == <<b, k>>
<1>1. \A q : q \in Where <=> /\ q = <<q[1], q[2]>> /\ q[1] \in Blocks /\ q[2] \in Ring
                             /\ Held(q[1], q[2])
  BY DEF Where, Held, Kept, Shared, Dead
<1>2. \A q : q \in Where' <=> /\ q = <<q[1], q[2]>> /\ q[1] \in Blocks /\ q[2] \in Ring
                              /\ Held(q[1], q[2])'
  BY DEF Where, Held, Kept, Shared, Dead
<1>3. p \notin Where /\ p \in Where' /\ ValAt(p)' = v
  BY <1>1, <1>2 DEF ValAt
<1>4. \A q : q # p => (q \in Where' <=> q \in Where)
  BY <1>1, <1>2
<1>5. \A q \in Where : ValAt(q)' = ValAt(q)
  BY <1>1, <1>3 DEF ValAt
<1>. HIDE DEF p
<1> QED BY <1>3, <1>4, <1>5 DEF WhereAdds

LEMMA TakesPlace ==
  ASSUME NEW b \in Blocks, NEW k \in Ring, Held(b, k), ~Held(b, k)',
         \A c \in Blocks, n \in Ring : c # b \/ n # k =>
           /\ Held(c, n)' <=> Held(c, n)
           /\ Held(c, n) => blk'[c].nodes[n].val = blk[c].nodes[n].val
  PROVE  WhereTakes(blk[b].nodes[k].val)
<1>. DEFINE p == <<b, k>>
<1>1. \A q : q \in Where <=> /\ q = <<q[1], q[2]>> /\ q[1] \in Blocks /\ q[2] \in Ring
                             /\ Held(q[1], q[2])
  BY DEF Where, Held, Kept, Shared, Dead
<1>2. \A q : q \in Where' <=> /\ q = <<q[1], q[2]>> /\ q[1] \in Blocks /\ q[2] \in Ring
                              /\ Held(q[1], q[2])'
  BY DEF Where, Held, Kept, Shared, Dead
<1>3. p \in Where /\ p \notin Where' /\ ValAt(p) = blk[b].nodes[k].val
  BY <1>1, <1>2 DEF ValAt
<1>4. \A q : q # p => (q \in Where' <=> q \in Where)
  BY <1>1, <1>2
<1>5. \A q \in Where \ {p} : ValAt(q)' = ValAt(q)
  BY <1>1 DEF ValAt
<1>. HIDE DEF p
<1> QED BY <1>3, <1>4, <1>5 DEF WhereTakes

\* In a drained block that nobody is in there is no value.
LEMMA DrainedEmpty ==
  ASSUME QueueShape, NodeInv, NEW b \in Blocks, Drained(b),
         \A u \in Consumers : th[u].pc = "look" => th[u].b # b
  PROVE  \A n \in Ring : blk[b].nodes[n].val = NoValue
<1>. SUFFICES ASSUME NEW n \in Ring, blk[b].nodes[n].val # NoValue PROVE FALSE
  OBVIOUS
<1>1. \E u \in Consumers : Looks(u, b, blk[b].nodes[n].idx)
  BY DEF Drained, NodeInv, Bound
<1> QED BY <1>1 DEF Looks

\* A step after which every block is in the same state and holds the same values.
LEMMA QuietWhere ==
  ASSUME \A c \in Blocks : /\ blk'[c].nodes = blk[c].nodes /\ blk'[c].state = blk[c].state
                           /\ Private(c)' <=> Private(c)
  PROVE  WhereSame
<1>1. \A c \in Blocks : c \in Kept' <=> c \in Kept
  BY DEF Kept, Shared, Dead
<1> QED BY <1>1, SamePlaces DEF Held

LEMMA PrivateSame ==
  ASSUME QueueShape, \A u \in Producers : th'[u].pc = "link" <=> th[u].pc = "link",
         \A u \in Producers : th[u].pc = "link" => th'[u].new = th[u].new
  PROVE  \A c \in Blocks : Private(c)' <=> Private(c)
BY DEF Private

\* A push puts its value into one place, in the step that ends its work on a block.
LEMMA PushWhere ==
  ASSUME QueueShape, ListInv, NodeInv, LeftDrained, PrivateNew,
         NEW t \in Producers, PushStep(t), ~PushWake(t)
  PROVE  \/ /\ th[t].pc \notin {"cas", "link"} \/ th'[t].pc \notin {"post", "swing"}
            /\ WhereSame
         \/ /\ Moved(t, "cas", "post") \/ Moved(t, "link", "swing")
            /\ WhereAdds(Val(t))
<1>0. /\ t \in QThreads /\ t \notin Consumers
      /\ (th[t].pc \in InBlock => th[t].b \in Blocks /\ th[t].b \in Kept)
      /\ blk \in [Blocks -> BlockRecords] /\ Producers \subseteq QThreads
  BY PushBlocks, PcsApart DEF QThreads, QueueShape, ListInv, Guarded, Kept
<1>a. ASSUME th[t].pc # "link", th'[t].pc # "link", Alone(t),
             \A c \in Blocks : blk'[c].nodes = blk[c].nodes /\ blk'[c].state = blk[c].state
      PROVE  WhereSame
  <2>1. \A c \in Blocks : Private(c)' <=> Private(c)
    BY <1>a, <1>0, PrivateSame DEF Alone
  <2> QED BY <1>a, <2>1, QuietWhere
<1>1. CASE PushProtect(t) \/ PushLook(t) \/ PushSwing(t) \/ PushPost(t)
  BY <1>1, <1>a, PushMoves DEF Moved
<1>2. CASE PushClaim(t)
  <2>1. /\ th[t].pc = "faa" /\ Alone(t) /\ th'[t].pc \in {"push", "alloc", "node"}
        /\ UNCHANGED blk \/ blk' = [blk EXCEPT ![th[t].b].tail = blk[th[t].b].tail + 1]
    BY <1>2, PushMoves DEF Moved
  <2>2. \A c \in Blocks : blk'[c].nodes = blk[c].nodes /\ blk'[c].state = blk[c].state
    BY <2>1, <1>0, StateSteps DEF InBlock
  <2> QED BY <2>1, <2>2, <1>a
<1>3. CASE PushSwap(t)
  <2>1. CASE Moved(t, "cas", "full") /\ UNCHANGED blk
    BY <2>1, <1>a DEF Moved
  <2>2. CASE /\ At(t) = th[t].d /\ Moved(t, "cas", "post")
             /\ blk' = [blk EXCEPT ![th[t].b].nodes[th[t].i % Size] = Node(th[t].i, Val(t))]
    <3>. PICK b, k : b = th[t].b /\ k = th[t].i % Size
      OBVIOUS
    <3>1. /\ b \in Blocks /\ b \in Kept /\ k \in Ring /\ th[t].done < Len(Script[t])
          /\ Val(t) # NoValue
      BY <2>2, <1>0, ThreadTypes, PlaceOf, ValInValues, ScriptAssumption
         DEF Moved, InBlock, QueueShape
    <3>2. OneNode(b, k, Node(th[t].i, Val(t)))
      BY <2>2, <3>1, OneNodeStep
    <3>3. blk[b].nodes[k].val = NoValue
      BY <2>2 DEF NodeInv, CasFresh, Fresh, At, B, Moved
    <3>4. \A c \in Blocks : Private(c)' <=> Private(c)
      BY <2>2, <1>0, PrivateSame DEF Moved, Alone
    <3>5. \A c \in Blocks : c \in Kept' <=> c \in Kept
      BY <3>2, <3>4 DEF Kept, Shared, Dead, OneNode
    <3>6. ~Held(b, k) /\ Held(b, k)' /\ blk'[b].nodes[k].val = Val(t)
      BY <3>1, <3>2, <3>3, <3>5 DEF Held, OneNode, Node
    <3>7. \A c \in Blocks, n \in Ring : c # b \/ n # k =>
           /\ Held(c, n)' <=> Held(c, n)
           /\ Held(c, n) => blk'[c].nodes[n].val = blk[c].nodes[n].val
      BY <3>2, <3>5 DEF Held, OneNode
    <3>8. WhereAdds(Val(t))
      BY <3>1, <3>6, <3>7, AddsPlace
    <3> QED BY <2>2, <3>8
  <2> QED BY <1>3, <2>1, <2>2, PushMoves
<1>4. CASE PushFull(t)
  <2>1. /\ th[t].pc = "full" /\ Alone(t) /\ th'[t].pc \in {"faa", "alloc"}
        /\ UNCHANGED blk \/ blk' = [blk EXCEPT ![th[t].b].closed = TRUE]
    BY <1>4, PushMoves DEF Moved
  <2>2. \A c \in Blocks : blk'[c].nodes = blk[c].nodes /\ blk'[c].state = blk[c].state
    BY <2>1, <1>0, StateSteps DEF InBlock
  <2> QED BY <2>1, <2>2, <1>a
<1>5. CASE PushAlloc(t)
  <2>1. PICK b \in Blocks :
          /\ \/ blk[b].state = "garbage" /\ ~Hazard(t, b) /\ hp[t] # b
             \/ blk[b].state \in {"prepared", "free"}
          /\ blk' = [blk EXCEPT ![b] = NewBlock(Val(t))]
          /\ th'[t].new = b
    BY <1>5, PushMoves
  <2>2. th[t].pc = "alloc" /\ th'[t].pc = "link" /\ Alone(t)
    BY <1>5, PushMoves DEF Moved
  <2>3. \A u \in QThreads : th[u].pc \in InBlock => th[u].b # b
    BY <2>1, NobodyIn
  <2>4. \A n \in Ring : ~Held(b, n)
    <3>1. CASE blk[b].state = "garbage"
      <4>1. Drained(b)
        BY <3>1 DEF LeftDrained, Dead
      <4>2. \A u \in Consumers : th[u].pc = "look" => th[u].b # b
        BY <2>3 DEF QThreads, InBlock
      <4> QED BY <4>1, <4>2, DrainedEmpty DEF Held
    <3>2. CASE blk[b].state # "garbage"
      <4>1. b \notin Kept
        BY <2>1, <3>2 DEF Kept, Shared, Dead
      <4> QED BY <4>1 DEF Held
    <3> QED BY <3>1, <3>2
  <2>5. blk'[b] = NewBlock(Val(t)) /\ \A c \in Blocks : c # b => blk'[c] = blk[c]
    BY <2>1, <1>0
  <2>6. b \notin Kept'
    <3>1. Private(b)'
      BY <2>1, <2>2 DEF Private
    <3> QED BY <2>5, <3>1, NewBlockFields DEF Kept, Shared, Dead
  <2>7. \A c \in Blocks : c # b => (c \in Kept' <=> c \in Kept)
    <3>1. \A c \in Blocks : c # b => (Private(c)' <=> Private(c))
      BY <2>1, <2>2, <1>0 DEF Private, Alone
    <3> QED BY <2>5, <3>1 DEF Kept, Shared, Dead
  <2>8. WhereSame
    <3>1. \A c \in Blocks, n \in Ring :
           /\ Held(c, n)' <=> Held(c, n)
           /\ Held(c, n) => blk'[c].nodes[n].val = blk[c].nodes[n].val
      BY <2>4, <2>5, <2>6, <2>7 DEF Held
    <3> QED BY <3>1, SamePlaces
  <2> QED BY <2>2, <2>8
<1>6. CASE PushLink(t)
  <2>. PICK new : new = th[t].new
    OBVIOUS
  <2>0. /\ th[t].pc = "link" /\ new \in Blocks /\ blk[new].state = "used"
        /\ th[t].b \in Blocks /\ th[t].b # new
        /\ \A u \in Producers : u # t /\ th[u].pc = "link" => th[u].new # new
        /\ blk[new] = NewBlock(Val(t)) /\ Val(t) # NoValue /\ Val(t) \in Values
    <3>1. th[t].pc = "link"
      BY <1>6 DEF PushLink
    <3>2. th[t].done < Len(Script[t])
      BY <3>1 DEF QueueShape
    <3>3. Val(t) \in Values /\ Val(t) # NoValue
      BY <3>2, ValInValues, ScriptAssumption
    <3>4. th[t].b # new
      BY <3>1, <1>0, PrivateApart DEF InBlock
    <3> QED BY <3>1, <3>3, <3>4, <1>0, PrivateApart DEF InBlock, PrivateNew
  <2>1. new \notin Kept /\ \A n \in Ring : ~Held(new, n)
    <3>1. Private(new)
      BY <2>0 DEF Private
    <3> QED BY <2>0, <3>1 DEF Kept, Shared, Dead, Held
  <2>2. CASE Moved(t, "link", "swing") /\ blk' = [blk EXCEPT ![th[t].b].next = new]
    <3>1. \A c \in Blocks : blk'[c].nodes = blk[c].nodes /\ blk'[c].state = blk[c].state
      BY <2>0, <2>2, StateSteps
    <3>2. ~Private(new)' /\ \A c \in Blocks : c # new => (Private(c)' <=> Private(c))
      BY <2>0, <2>2, <1>0 DEF Private, Moved, Alone
    <3>3. new \in Kept' /\ \A c \in Blocks : c # new => (c \in Kept' <=> c \in Kept)
      BY <2>0, <3>1, <3>2 DEF Kept, Shared, Dead
    <3>4. /\ 0 \in Ring /\ blk'[new].nodes[0].val = Val(t)
          /\ \A n \in Ring : n # 0 => blk'[new].nodes[n].val = NoValue
      <4>1. 0 \in Ring
        BY QueueAssumption DEF Ring
      <4>2. \A v : \A n \in Ring : /\ n = 0 => NewBlock(v).nodes[n].val = v
                                   /\ n # 0 => NewBlock(v).nodes[n].val = NoValue
        BY DEF NewBlock, Node
      <4>3. blk'[new].nodes = NewBlock(Val(t)).nodes
        BY <2>0, <3>1
      <4> QED BY <4>1, <4>2, <4>3
    <3>5. Held(new, 0)'
      BY <2>0, <3>3, <3>4 DEF Held
    <3>6. \A c \in Blocks, n \in Ring : c # new \/ n # 0 =>
           /\ Held(c, n)' <=> Held(c, n)
           /\ Held(c, n) => blk'[c].nodes[n].val = blk[c].nodes[n].val
      BY <2>1, <3>1, <3>3, <3>4 DEF Held
    <3>7. WhereAdds(Val(t))
      BY <2>0, <2>1, <3>4, <3>5, <3>6, AddsPlace
    <3> QED BY <2>2, <3>7
  <2>3. CASE Moved(t, "link", "push") /\ blk' = [blk EXCEPT ![new].state = "prepared"]
    <3>1. /\ \A c \in Blocks : c # new => blk'[c] = blk[c]
          /\ blk'[new].state = "prepared"
      BY <2>0, <2>3, <1>0 DEF BlockRecords
    <3>2. \A c \in Blocks : c # new => (Private(c)' <=> Private(c))
      BY <2>0, <2>3, <1>0 DEF Private, Moved, Alone
    <3>3. new \notin Kept' /\ \A c \in Blocks : c # new => (c \in Kept' <=> c \in Kept)
      BY <3>1, <3>2 DEF Kept, Shared, Dead
    <3>4. \A c \in Blocks, n \in Ring :
           /\ Held(c, n)' <=> Held(c, n)
           /\ Held(c, n) => blk'[c].nodes[n].val = blk[c].nodes[n].val
      BY <2>1, <3>1, <3>3 DEF Held
    <3> QED BY <2>3, <3>4, SamePlaces DEF Moved
  <2> QED BY <1>6, <2>2, <2>3, PushMoves
<1> QED BY <1>1, <1>2, <1>3, <1>4, <1>5, <1>6 DEF PushStep

\* A pop takes its value out of the place where it is.
LEMMA PopWhere ==
  ASSUME QueueShape, ListInv, NodeInv, LeftDrained, NEW t \in Consumers, PopStep(t)
  PROVE  \/ /\ WhereSame /\ UNCHANGED popped
            /\ ~(th[t].pc = "look" /\ th'[t].pc = "wait")
         \/ /\ th[t].pc = "look" /\ th'[t].pc = "wait" /\ Alone(t)
            /\ At(t).val # NoValue /\ At(t).val \in Values
            /\ WhereTakes(At(t).val) /\ popped' = Append(popped, At(t).val)
            /\ mq' = mq
<1>0. /\ t \in QThreads /\ t \notin Producers
      /\ (th[t].pc \in InBlock => th[t].b \in Blocks /\ th[t].b \in Kept)
      /\ blk \in [Blocks -> BlockRecords]
  BY PushBlocks, PcsApart DEF QThreads, QueueShape, ListInv, Guarded, Kept
<1>1. Alone(t) /\ (~PopNode(t) => UNCHANGED popped)
  BY PopAlone
<1>2. \A c \in Blocks : Private(c)' <=> Private(c)
  <2>1. \A u \in Producers : th'[u] = th[u]
    BY <1>0, <1>1 DEF Alone, QThreads
  <2> QED BY <2>1, PrivateSame
<1>a. ASSUME \A c \in Blocks : blk'[c].nodes = blk[c].nodes /\ blk'[c].state = blk[c].state
      PROVE  WhereSame
  BY <1>a, <1>2, QuietWhere
<1>3. CASE SemSteps(t) \/ PopProtect(t) \/ PopTail(t) \/ PopEmpty(t)
  <2>1. UNCHANGED blk
    BY <1>3, PopMoves
  <2>2. th[t].pc # "look" /\ ~PopNode(t)
    BY <1>1, <1>3, PopMoves DEF Moved, PopEmpty, PopNode
  <2> QED BY <2>1, <2>2, <1>a, <1>1
<1>4. CASE PopClaim(t) \/ PopFix(t)
  <2>1. /\ th[t].pc \in {"take", "fix"} /\ UNCHANGED popped
        /\ \/ UNCHANGED blk
           \/ blk' = [blk EXCEPT ![th[t].b].head = blk[th[t].b].head + 1]
           \/ blk' = [blk EXCEPT ![th[t].b].tail = B(t).head]
    BY <1>4, PopMoves DEF Moved
  <2>2. th[t].b \in Blocks
    BY <2>1, <1>0 DEF InBlock
  <2>3. \A c \in Blocks : blk'[c].nodes = blk[c].nodes /\ blk'[c].state = blk[c].state
    BY <2>1, <2>2, StateSteps
  <2> QED BY <2>1, <2>3, <1>a
<1>5. CASE PopNode(t)
  <2>0. th[t].pc = "look"
    BY <1>5 DEF PopNode
  <2>. PICK b, k : b = th[t].b /\ k = th[t].i % Size
    OBVIOUS
  <2>1. /\ b \in Blocks /\ b \in Kept /\ k \in Ring /\ At(t) = blk[b].nodes[k]
        /\ At(t).val \in Values \cup {NoValue}
    BY <2>0, <1>0, ThreadTypes, PlaceOf, NodeTypes DEF InBlock, At, B
  <2>2. PICK m \in NodeRecords :
           /\ OneNode(b, k, m)
           /\ \/ /\ Moved(t, "look", "tail") /\ m.val = At(t).val /\ UNCHANGED popped
              \/ /\ th[t].pc = "look" /\ th'[t].pc = "wait" /\ Alone(t)
                 /\ m.val = NoValue /\ At(t).val # NoValue /\ popped' = Append(popped, At(t).val)
    BY <1>5, NodeMoves
  <2>3. \A c \in Blocks : c \in Kept' <=> c \in Kept
    BY <1>2, <2>2 DEF OneNode, Kept, Shared, Dead
  <2>4. CASE m.val = At(t).val
    <3>1. \A c \in Blocks, n \in Ring :
           /\ Held(c, n)' <=> Held(c, n)
           /\ Held(c, n) => blk'[c].nodes[n].val = blk[c].nodes[n].val
      BY <2>1, <2>2, <2>3, <2>4 DEF Held, OneNode
    <3>2. Moved(t, "look", "tail") /\ UNCHANGED popped
      BY <2>2, <2>4
    <3> QED BY <3>1, <3>2, SamePlaces DEF Moved
  <2>5. CASE /\ th'[t].pc = "wait" /\ m.val = NoValue /\ At(t).val # NoValue
             /\ popped' = Append(popped, At(t).val)
    <3>1. Held(b, k) /\ ~Held(b, k)'
      BY <2>1, <2>2, <2>5 DEF Held, OneNode
    <3>2. \A c \in Blocks, n \in Ring : c # b \/ n # k =>
           /\ Held(c, n)' <=> Held(c, n)
           /\ Held(c, n) => blk'[c].nodes[n].val = blk[c].nodes[n].val
      BY <2>2, <2>3 DEF Held, OneNode
    <3>3. WhereTakes(At(t).val)
      BY <2>1, <3>1, <3>2, TakesPlace
    <3>4. mq' = mq
      BY <1>5 DEF PopNode
    <3> QED BY <1>1, <2>0, <2>1, <2>5, <3>3, <3>4
  <2> QED BY <2>2, <2>4, <2>5
<1>6. CASE PopLeave(t)
  <2>1. /\ th[t].pc = "leave" /\ UNCHANGED popped
        /\ \/ UNCHANGED blk
           \/ blk' = [blk EXCEPT ![th[t].b].state = IF Hazard(t, th[t].b) THEN "garbage" ELSE "free"]
    BY <1>6, PopMoves DEF Moved
  <2>2. CASE UNCHANGED blk
    BY <2>1, <2>2, <1>a
  <2>3. CASE blk' = [blk EXCEPT ![th[t].b].state = IF Hazard(t, th[t].b) THEN "garbage" ELSE "free"]
    <3>. DEFINE b == th[t].b
    <3>1. b \in Blocks /\ b \in Kept
      BY <2>1, <1>0 DEF InBlock
    <3>2. /\ \A c \in Blocks : blk'[c].nodes = blk[c].nodes
          /\ \A c \in Blocks : c # b => blk'[c].state = blk[c].state
          /\ blk'[b].state = IF Hazard(t, b) THEN "garbage" ELSE "free"
      BY <2>3, <3>1, <1>0 DEF BlockRecords
    <3>3. \A c \in Blocks : c # b => (c \in Kept' <=> c \in Kept)
      BY <1>2, <3>2 DEF Kept, Shared, Dead
    <3>4. CASE Hazard(t, b)
      <4>1. b \in Kept'
        BY <3>1, <3>2, <3>4 DEF Kept, Dead
      <4>2. \A c \in Blocks, n \in Ring :
              /\ Held(c, n)' <=> Held(c, n)
              /\ Held(c, n) => blk'[c].nodes[n].val = blk[c].nodes[n].val
        BY <3>1, <3>2, <3>3, <4>1 DEF Held
      <4> QED BY <2>1, <4>2, SamePlaces
    <3>5. CASE ~Hazard(t, b)
      <4>1. Drained(b)
        BY <2>1 DEF LeftDrained, ListInv, PoppersAhead
      <4>2. \A u \in Consumers : th[u].pc = "look" => th[u].b # b
        <5>. SUFFICES ASSUME NEW u \in Consumers, th[u].pc = "look", th[u].b = b PROVE FALSE
          OBVIOUS
        <5>1. u # t /\ hp[u] = b /\ u \in QThreads
          BY <2>1, PushBlocks DEF InBlock, QThreads
        <5> QED BY <5>1, <3>5 DEF Hazard
      <4>3. \A n \in Ring : ~Held(b, n)
        BY <3>1, <4>1, <4>2, DrainedEmpty DEF Held
      <4>4. b \notin Kept'
        BY <3>2, <3>5 DEF Kept, Shared, Dead
      <4>5. \A c \in Blocks, n \in Ring :
              /\ Held(c, n)' <=> Held(c, n)
              /\ Held(c, n) => blk'[c].nodes[n].val = blk[c].nodes[n].val
        BY <3>2, <3>3, <4>3, <4>4 DEF Held
      <4> QED BY <2>1, <4>5, SamePlaces
    <3> QED BY <3>4, <3>5
  <2> QED BY <2>1, <2>2, <2>3
<1> QED BY <1>3, <1>4, <1>5, <1>6 DEF PopStep, SemSteps

-----------------------------------------------------------------------------
(* The counts.                                                             *)

LEMMA CountSame ==
  ASSUME NEW T, NEW pcs, \A u \in T : th'[u].pc \in pcs <=> th[u].pc \in pcs
  PROVE  Count(T, pcs)' = Count(T, pcs)
<1>1. {u \in T : th'[u].pc \in pcs} = {u \in T : th[u].pc \in pcs}
  OBVIOUS
<1> QED BY <1>1 DEF Count

LEMMA CountMove ==
  ASSUME NEW T, IsFiniteSet(T), NEW t \in T, NEW pcs,
         \A u \in T : u # t => (th'[u].pc \in pcs <=> th[u].pc \in pcs)
  PROVE  /\ th[t].pc \notin pcs /\ th'[t].pc \in pcs => Count(T, pcs)' = Count(T, pcs) + 1
         /\ th[t].pc \in pcs /\ th'[t].pc \notin pcs => Count(T, pcs)' = Count(T, pcs) - 1
         /\ (th[t].pc \in pcs <=> th'[t].pc \in pcs) => Count(T, pcs)' = Count(T, pcs)
<1>. DEFINE C == {u \in T : th[u].pc \in pcs}
            D == {u \in T : th'[u].pc \in pcs}
<1>1. IsFiniteSet(C) /\ IsFiniteSet(D)
  <2>1. C \subseteq T /\ D \subseteq T
    OBVIOUS
  <2>. HIDE DEF C, D
  <2> QED BY <2>1, FS_Subset
<1>2. ASSUME th[t].pc \notin pcs, th'[t].pc \in pcs PROVE Cardinality(D) = Cardinality(C) + 1
  <2>1. D = C \cup {t} /\ t \notin C
    BY <1>2
  <2>. HIDE DEF C, D
  <2> QED BY <1>1, <2>1, FS_AddElement
<1>3. ASSUME th[t].pc \in pcs, th'[t].pc \notin pcs PROVE Cardinality(D) = Cardinality(C) - 1
  <2>1. D = C \ {t} /\ t \in C
    BY <1>3
  <2>. HIDE DEF C, D
  <2> QED BY <1>1, <2>1, FS_RemoveElement
<1>4. ASSUME th[t].pc \in pcs <=> th'[t].pc \in pcs PROVE Cardinality(D) = Cardinality(C)
  <2>1. D = C
    BY <1>4
  <2> QED BY <2>1
<1>5. Count(T, pcs) = Cardinality(C) /\ Count(T, pcs)' = Cardinality(D)
  BY DEF Count
<1>. HIDE DEF C, D
<1> QED BY <1>2, <1>3, <1>4, <1>5

LEMMA WhereCounts ==
  ASSUME QueueShape
  PROVE  /\ WhereSame => Cardinality(Where)' = Cardinality(Where)
         /\ \A v : WhereAdds(v) => Cardinality(Where)' = Cardinality(Where) + 1
         /\ \A v : WhereTakes(v) => Cardinality(Where)' = Cardinality(Where) - 1
<1>0. IsFiniteSet(Where)
  BY FiniteCounts
<1>1. WhereSame => Cardinality(Where)' = Cardinality(Where)
  BY DEF WhereSame
<1>2. ASSUME NEW v, WhereAdds(v) PROVE Cardinality(Where)' = Cardinality(Where) + 1
  <2>1. PICK p : p \notin Where /\ Where' = Where \cup {p}
    BY <1>2 DEF WhereAdds
  <2>2. Cardinality(Where)' = Cardinality(Where \cup {p})
    BY <2>1
  <2> QED BY <1>0, <2>1, <2>2, FS_AddElement
<1>3. ASSUME NEW v, WhereTakes(v) PROVE Cardinality(Where)' = Cardinality(Where) - 1
  <2>1. PICK p \in Where : Where' = Where \ {p}
    BY <1>3 DEF WhereTakes
  <2>2. Cardinality(Where)' = Cardinality(Where \ {p})
    BY <2>1
  <2> QED BY <1>0, <2>1, <2>2, FS_RemoveElement
<1> QED BY <1>1, <1>2, <1>3

LEMMA PushCounted ==
  ASSUME QueueShape, ListInv, NodeInv, LeftDrained, PrivateNew, SemFits,
         NEW t \in Producers, PushStep(t)
  PROVE  SemFits'
<1>. DEFINE U == Count(Consumers, {"undo"})
            I == Count(Consumers, InPop)
            P == Count(Producers, {"swing", "post"})
            W == Cardinality(Where)
<1>0. /\ t \in QThreads /\ t \notin Consumers /\ Producers \subseteq QThreads
      /\ Consumers \subseteq QThreads /\ IsFiniteSet(Producers) /\ mq \in [head : Blocks, tail : Blocks, sem : Int, waiting : Int]
  BY PcsApart, QueueAssumption DEF QThreads, QueueShape
<1>1. mq.sem \in Int /\ U \in Nat /\ I \in Nat /\ P \in Nat /\ W \in Nat
  BY FiniteCounts
<1>2. mq.sem + U >= 0 /\ W = mq.sem + U + I + P
  BY DEF SemFits
<1>3. U' = U /\ I' = I
  <2>1. \A u \in Consumers : /\ th'[u].pc \in {"undo"} <=> th[u].pc \in {"undo"}
                             /\ th'[u].pc \in InPop <=> th[u].pc \in InPop
    <3>1. CASE PushWake(t)
      BY <3>1, WakeMoves DEF InPop, InBlock
    <3>2. CASE ~PushWake(t)
      <4>1. Alone(t)
        BY <3>2, PushMoves DEF PushStep, Moved
      <4> QED BY <4>1, <1>0 DEF Alone
    <3> QED BY <3>1, <3>2
  <2> QED BY <2>1, CountSame
<1>4. CASE PushWake(t)
  <2>1. P' = P
    <3>1. \A u \in Producers : th'[u].pc \in {"swing", "post"} <=> th[u].pc \in {"swing", "post"}
      BY <1>4, WakeMoves
    <3> QED BY <3>1, CountSame
  <2>2. mq' = mq /\ blk' = blk
    BY <1>4, WakeMoves
  <2>3. W' = W
    <3>1. \A u \in Producers : /\ th'[u].pc = "link" <=> th[u].pc = "link"
                               /\ th[u].pc = "link" => th'[u].new = th[u].new
      BY <1>4, WakeMoves
    <3>2. \A c \in Blocks : Private(c)' <=> Private(c)
      BY <3>1, PrivateSame
    <3>3. WhereSame
      BY <2>2, <3>2, QuietWhere
    <3> QED BY <3>3, WhereCounts
  <2>. HIDE DEF U, I, P, W
  <2>4. mq'.sem + U' >= 0 /\ W' = mq'.sem + U' + I' + P'
    BY <1>2, <1>3, <2>1, <2>2, <2>3
  <2> QED BY <2>4 DEF SemFits, U, I, P, W
<1>5. CASE ~PushWake(t)
  <2>1. \/ PushProtect(t) \/ PushClaim(t) \/ PushLook(t) \/ PushSwap(t) \/ PushFull(t)
        \/ PushAlloc(t) \/ PushLink(t) \/ PushSwing(t) \/ PushPost(t)
    BY <1>5 DEF PushStep
  <2>2. Alone(t)
    BY <2>1, PushMoves DEF Moved
  <2>3. \A u \in Producers : u # t => (th'[u].pc \in {"swing", "post"} <=> th[u].pc \in {"swing", "post"})
    BY <2>2, <1>0 DEF Alone
  <2>4. /\ th[t].pc \notin {"swing", "post"} /\ th'[t].pc \in {"swing", "post"} => P' = P + 1
        /\ th[t].pc \in {"swing", "post"} /\ th'[t].pc \notin {"swing", "post"} => P' = P - 1
        /\ (th[t].pc \in {"swing", "post"} <=> th'[t].pc \in {"swing", "post"}) => P' = P
    <3>. HIDE DEF P
    <3> QED BY <1>0, <2>3, CountMove DEF P
  <2>5. mq'.sem = IF PushPost(t) THEN mq.sem + 1 ELSE mq.sem
    BY <2>1, <1>0 DEF PushProtect, PushClaim, PushLook, PushSwap, PushFull, PushAlloc, PushLink, PushSwing, PushPost
  <2>6. CASE /\ Moved(t, "cas", "post") \/ Moved(t, "link", "swing")
             /\ WhereAdds(Val(t))
    <3>1. W' = W + 1
      BY <2>6, WhereCounts
    <3>2. P' = P + 1
      BY <2>4, <2>6 DEF Moved
    <3>3. mq'.sem = mq.sem
      BY <2>5, <2>6 DEF Moved, PushPost
    <3>. HIDE DEF U, I, P, W
    <3>4. mq'.sem + U' >= 0 /\ W' = mq'.sem + U' + I' + P'
      BY <1>1, <1>2, <1>3, <3>1, <3>2, <3>3
    <3> QED BY <3>4 DEF SemFits, U, I, P, W
  <2>7. CASE /\ th[t].pc \notin {"cas", "link"} \/ th'[t].pc \notin {"post", "swing"}
             /\ WhereSame
    <3>1. W' = W
      BY <2>7, WhereCounts
    <3>2. CASE PushPost(t)
      <4>1. P' = P - 1
        BY <2>4, <3>2, PushMoves DEF Moved
      <4>. HIDE DEF U, I, P, W
      <4>2. mq'.sem + U' >= 0 /\ W' = mq'.sem + U' + I' + P'
        BY <1>1, <1>2, <1>3, <2>5, <3>1, <3>2, <4>1
      <4> QED BY <4>2 DEF SemFits, U, I, P, W
    <3>3. CASE ~PushPost(t)
      <4>1. th[t].pc \in {"swing", "post"} <=> th'[t].pc \in {"swing", "post"}
        BY <2>1, <2>7, <3>3, PushMoves DEF Moved
      <4>2. P' = P
        BY <2>4, <4>1
      <4>. HIDE DEF U, I, P, W
      <4>3. mq'.sem + U' >= 0 /\ W' = mq'.sem + U' + I' + P'
        BY <1>1, <1>2, <1>3, <2>5, <3>1, <3>3, <4>2
      <4> QED BY <4>3 DEF SemFits, U, I, P, W
    <3> QED BY <3>2, <3>3
  <2> QED BY <1>5, <2>6, <2>7, PushWhere
<1> QED BY <1>4, <1>5

\* What the steps of the semaphore do to its value.
LEMMA SemMoves ==
  ASSUME QueueShape, NEW t \in Consumers, SemSteps(t)
  PROVE  \/ Moved(t, "dec", "pop") /\ mq.sem > 0 /\ mq'.sem = mq.sem - 1
         \/ Moved(t, "dec", "undo") /\ mq.sem <= 0 /\ mq'.sem = mq.sem - 1
         \/ /\ th[t].pc = "undo" /\ th'[t].pc \in {"dec", "announce"} /\ Alone(t)
            /\ mq'.sem = mq.sem + 1
         \/ /\ th[t].pc \in {"wait", "announce", "futex", "woken"}
            /\ th'[t].pc \in {"dec", "announce", "futex", "asleep", "woken", "wait"}
            /\ Alone(t) /\ mq'.sem = mq.sem
<1>. USE DEF Moved, Alone
<1>0. /\ t \in QThreads /\ th \in [QThreads -> ThreadRecords] /\ th[t] \in ThreadRecords
      /\ mq \in [head : Blocks, tail : Blocks, sem : Int, waiting : Int]
  BY DEF QThreads, QueueShape
<1>1. ASSUME SemRead(t)
      PROVE  /\ th[t].pc = "wait" /\ th'[t].pc \in {"dec", "announce"} /\ Alone(t)
             /\ mq'.sem = mq.sem
  <2>1. PICK to \in {"dec", "announce"} : th' = [th EXCEPT ![t] = [th[t] EXCEPT !.i = mq.sem, !.pc = to]]
    BY <1>1, <1>0 DEF SemRead
  <2> QED BY <1>1, <2>1, <1>0 DEF SemRead, ThreadRecords
<1>2. ASSUME SemUndo(t)
      PROVE  /\ th[t].pc = "undo" /\ th'[t].pc \in {"dec", "announce"} /\ Alone(t)
             /\ mq'.sem = mq.sem + 1
  <2>1. PICK to \in {"dec", "announce"} : th' = [th EXCEPT ![t] = [th[t] EXCEPT !.i = mq.sem + 1, !.pc = to]]
    BY <1>2, <1>0 DEF SemUndo
  <2>2. mq'.sem = mq.sem + 1
    BY <1>2, <1>0 DEF SemUndo
  <2> QED BY <1>2, <2>1, <2>2, <1>0 DEF SemUndo, ThreadRecords
<1>3. ASSUME SemTake(t)
      PROVE  \/ Moved(t, "dec", "pop") /\ mq.sem > 0 /\ mq'.sem = mq.sem - 1
             \/ Moved(t, "dec", "undo") /\ mq.sem <= 0 /\ mq'.sem = mq.sem - 1
  <2>1. mq'.sem = mq.sem - 1 /\ th[t].pc = "dec" /\ mq.sem \in Int
    BY <1>3, <1>0 DEF SemTake
  <2>2. CASE mq.sem > 0
    BY <1>3, <2>1, <2>2, <1>0 DEF SemTake, GoTo, ThreadRecords
  <2>3. CASE ~(mq.sem > 0)
    BY <1>3, <2>1, <2>3, <1>0 DEF SemTake, GoTo, ThreadRecords
  <2> QED BY <2>2, <2>3
<1>4. ASSUME SemAnnounce(t) \/ SemFutex(t) \/ SemWoken(t)
      PROVE  /\ th[t].pc \in {"announce", "futex", "woken"}
             /\ th'[t].pc \in {"futex", "asleep", "woken", "wait"}
             /\ Alone(t) /\ mq'.sem = mq.sem
  BY <1>4, <1>0 DEF SemAnnounce, SemFutex, SemWoken, GoTo, ThreadRecords
<1>. HIDE DEF Moved, Alone
<1> QED BY <1>1, <1>2, <1>3, <1>4 DEF SemSteps

LEMMA PopCounted ==
  ASSUME QueueShape, ListInv, NodeInv, LeftDrained, SemFits, NEW t \in Consumers, PopStep(t)
  PROVE  SemFits'
<1>. DEFINE U == Count(Consumers, {"undo"})
            I == Count(Consumers, InPop)
            P == Count(Producers, {"swing", "post"})
            W == Cardinality(Where)
<1>0. /\ t \in QThreads /\ t \notin Producers /\ Producers \subseteq QThreads
      /\ Consumers \subseteq QThreads /\ IsFiniteSet(Consumers)
      /\ mq \in [head : Blocks, tail : Blocks, sem : Int, waiting : Int] /\ Alone(t)
  BY PcsApart, QueueAssumption, PopAlone DEF QThreads, QueueShape
<1>1. mq.sem \in Int /\ U \in Nat /\ I \in Nat /\ P \in Nat /\ W \in Nat
  BY FiniteCounts
<1>2. mq.sem + U >= 0 /\ W = mq.sem + U + I + P
  BY DEF SemFits
<1>3. P' = P
  <2>1. \A u \in Producers : th'[u].pc \in {"swing", "post"} <=> th[u].pc \in {"swing", "post"}
    BY <1>0 DEF Alone
  <2> QED BY <2>1, CountSame
<1>4. \A pcs : \A u \in Consumers : u # t => (th'[u].pc \in pcs <=> th[u].pc \in pcs)
  BY <1>0 DEF Alone
<1>5. /\ th[t].pc # "undo" /\ th'[t].pc = "undo" => U' = U + 1
      /\ th[t].pc = "undo" /\ th'[t].pc # "undo" => U' = U - 1
      /\ (th[t].pc = "undo" <=> th'[t].pc = "undo") => U' = U
  <2>1. /\ th[t].pc \notin {"undo"} /\ th'[t].pc \in {"undo"} => U' = U + 1
        /\ th[t].pc \in {"undo"} /\ th'[t].pc \notin {"undo"} => U' = U - 1
        /\ (th[t].pc \in {"undo"} <=> th'[t].pc \in {"undo"}) => U' = U
    <3>. HIDE DEF U
    <3> QED BY <1>0, <1>4, CountMove DEF U
  <2> QED BY <2>1
<1>6. /\ th[t].pc \notin InPop /\ th'[t].pc \in InPop => I' = I + 1
      /\ th[t].pc \in InPop /\ th'[t].pc \notin InPop => I' = I - 1
      /\ (th[t].pc \in InPop <=> th'[t].pc \in InPop) => I' = I
  <2>1. InPop' = InPop
    BY DEF InPop, InBlock
  <2>. HIDE DEF I
  <2> QED BY <1>0, <1>4, <2>1, CountMove DEF I
<1>7. CASE SemSteps(t)
  <2>1. W' = W
    <3>1. th[t].pc # "look"
      BY <1>7, SemMoves DEF Moved
    <3> QED BY <3>1, PopWhere, WhereCounts
  <2>2. CASE Moved(t, "dec", "pop") /\ mq.sem > 0 /\ mq'.sem = mq.sem - 1
    <3>1. U' = U /\ I' = I + 1
      BY <1>5, <1>6, <2>2 DEF Moved, InPop, InBlock
    <3>. HIDE DEF U, I, P, W
    <3>2. mq'.sem + U' >= 0 /\ W' = mq'.sem + U' + I' + P'
      BY <1>1, <1>2, <1>3, <2>1, <2>2, <3>1
    <3> QED BY <3>2 DEF SemFits, U, I, P, W
  <2>3. CASE Moved(t, "dec", "undo") /\ mq.sem <= 0 /\ mq'.sem = mq.sem - 1
    <3>1. U' = U + 1 /\ I' = I
      BY <1>5, <1>6, <2>3 DEF Moved, InPop, InBlock
    <3>. HIDE DEF U, I, P, W
    <3>2. mq'.sem + U' >= 0 /\ W' = mq'.sem + U' + I' + P'
      BY <1>1, <1>2, <1>3, <2>1, <2>3, <3>1
    <3> QED BY <3>2 DEF SemFits, U, I, P, W
  <2>4. CASE th[t].pc = "undo" /\ th'[t].pc \in {"dec", "announce"} /\ mq'.sem = mq.sem + 1
    <3>1. U' = U - 1 /\ I' = I
      BY <1>5, <1>6, <2>4 DEF InPop, InBlock
    <3>. HIDE DEF U, I, P, W
    <3>2. mq'.sem + U' >= 0 /\ W' = mq'.sem + U' + I' + P'
      BY <1>1, <1>2, <1>3, <2>1, <2>4, <3>1
    <3> QED BY <3>2 DEF SemFits, U, I, P, W
  <2>5. CASE /\ th[t].pc \in {"wait", "announce", "futex", "woken"}
             /\ th'[t].pc \in {"dec", "announce", "futex", "asleep", "woken", "wait"}
             /\ mq'.sem = mq.sem
    <3>1. U' = U /\ I' = I
      BY <1>5, <1>6, <2>5 DEF InPop, InBlock
    <3>. HIDE DEF U, I, P, W
    <3>2. mq'.sem + U' >= 0 /\ W' = mq'.sem + U' + I' + P'
      BY <1>1, <1>2, <1>3, <2>1, <2>5, <3>1
    <3> QED BY <3>2 DEF SemFits, U, I, P, W
  <2> QED BY <1>7, <2>2, <2>3, <2>4, <2>5, SemMoves
<1>8. CASE ~SemSteps(t)
  <2>1. \/ PopProtect(t) \/ PopClaim(t) \/ PopNode(t) \/ PopTail(t) \/ PopFix(t)
        \/ PopEmpty(t) \/ PopLeave(t)
    BY <1>8 DEF PopStep, SemSteps
  <2>2. mq'.sem = mq.sem
    BY <2>1, <1>0 DEF PopProtect, PopClaim, PopNode, PopTail, PopFix, PopEmpty, PopLeave
  <2>3. th[t].pc \in InPop
    BY <2>1 DEF PopProtect, PopClaim, PopNode, PopTail, PopFix, PopEmpty, PopLeave, InPop, InBlock
  <2>4. CASE /\ th[t].pc = "look" /\ th'[t].pc = "wait" /\ WhereTakes(At(t).val)
    <3>1. U' = U /\ I' = I - 1 /\ W' = W - 1
      BY <1>5, <1>6, <2>4, WhereCounts DEF InPop, InBlock
    <3>. HIDE DEF U, I, P, W
    <3>2. mq'.sem + U' >= 0 /\ W' = mq'.sem + U' + I' + P'
      BY <1>1, <1>2, <1>3, <2>2, <3>1
    <3> QED BY <3>2 DEF SemFits, U, I, P, W
  <2>5. CASE WhereSame /\ ~(th[t].pc = "look" /\ th'[t].pc = "wait")
    <3>0. th'[t].pc \in InPop
      <4>1. CASE PopNode(t)
        BY <2>5, <4>1, NodeMoves DEF Moved, InPop, InBlock
      <4>2. CASE PopEmpty(t)
        <5>1. ~(th[t].pc = "empty" /\ B(t).next = NoBlock)
          BY PopAlone DEF Succ, B
        <5> QED BY <4>2, <5>1, PopMoves DEF Moved, InPop, InBlock
      <4>3. CASE PopProtect(t) \/ PopClaim(t) \/ PopTail(t) \/ PopFix(t) \/ PopLeave(t)
        BY <4>3, PopMoves DEF Moved, InPop, InBlock
      <4> QED BY <2>1, <4>1, <4>2, <4>3
    <3>1. U' = U /\ I' = I /\ W' = W
      BY <1>5, <1>6, <2>3, <2>5, <3>0, WhereCounts DEF InPop, InBlock
    <3>. HIDE DEF U, I, P, W
    <3>2. mq'.sem + U' >= 0 /\ W' = mq'.sem + U' + I' + P'
      BY <1>1, <1>2, <1>3, <2>2, <3>1
    <3> QED BY <3>2 DEF SemFits, U, I, P, W
  <2> QED BY <2>4, <2>5, PopWhere
<1> QED BY <1>7, <1>8

-----------------------------------------------------------------------------
(* Every value is in one place.                                            *)

LEMMA PlacedTypes ==
  ASSUME QueueShape, NEW t \in Producers
  PROVE  /\ th[t].done \in Nat /\ PlacedOf(t) \in Nat /\ Len(Script[t]) \in Nat
         /\ th[t].pc # "push" => th[t].done + 1 \in 1 .. Len(Script[t])
<1>1. th[t].done \in Nat /\ Len(Script[t]) \in Nat
  BY ScriptAssumption DEF QueueShape, ThreadRecords, QThreads
<1> QED BY <1>1 DEF PlacedOf, QueueShape

\* What a push has placed grows by its value in the step that places it.
LEMMA PushPlaced ==
  ASSUME QueueShape, NEW t \in Producers, PushStep(t)
  PROVE  /\ UNCHANGED popped
         /\ \A u \in Producers : u # t => PlacedOf(u)' = PlacedOf(u)
         /\ PlacedOf(t)' >= PlacedOf(t)
         /\ Moved(t, "cas", "post") \/ Moved(t, "link", "swing") =>
              PlacedOf(t) = th[t].done /\ PlacedOf(t)' = th[t].done + 1
<1>0. th[t].done \in Nat
  BY PlacedTypes
<1>1. CASE PushWake(t)
  BY <1>0, <1>1, WakeMoves DEF PlacedOf, Moved
<1>2. CASE ~PushWake(t)
  <2>1. \/ PushProtect(t) \/ PushClaim(t) \/ PushLook(t) \/ PushSwap(t) \/ PushFull(t)
        \/ PushAlloc(t) \/ PushLink(t) \/ PushSwing(t) \/ PushPost(t)
    BY <1>2 DEF PushStep
  <2>2. /\ Alone(t) /\ UNCHANGED popped /\ th'[t].done = th[t].done
        /\ th[t].pc \in {"swing", "post", "wake"} => th'[t].pc \in {"swing", "post", "wake"}
    BY <2>1, PushMoves DEF Moved
  <2> QED BY <1>0, <2>2 DEF PlacedOf, Moved, Alone, QThreads
<1> QED BY <1>1, <1>2

LEMMA WakeWhere ==
  ASSUME QueueShape, NEW t \in Producers, PushWake(t)
  PROVE  WhereSame
<1>1. \A u \in Producers : /\ th'[u].pc = "link" <=> th[u].pc = "link"
                           /\ th[u].pc = "link" => th'[u].new = th[u].new
  BY WakeMoves
<1>2. \A c \in Blocks : Private(c)' <=> Private(c)
  BY <1>1, PrivateSame
<1> QED BY <1>2, WakeMoves, QuietWhere

LEMMA PushPlace ==
  ASSUME QueueShape, ListInv, NodeInv, LeftDrained, PrivateNew, OnePlace,
         NEW t \in Producers, PushStep(t)
  PROVE  OnePlace'
<1>0. /\ \A u \in Producers : PlacedOf(u)' \in Int /\ PlacedOf(u) \in Int /\ PlacedOf(u)' >= PlacedOf(u)
      /\ popped' = popped
  <2>1. \A u \in Producers : PlacedOf(u) \in Int
    BY PlacedTypes
  <2>2. QueueShape'
    BY PushSteps DEF ListInv
  <2>3. \A u \in Producers : PlacedOf(u)' \in Int
    <3>1. \A u \in Producers : th'[u] \in ThreadRecords
      BY <2>2 DEF QueueShape, QThreads
    <3>2. \A u \in Producers : th'[u].done \in Nat
      BY <3>1 DEF ThreadRecords
    <3> QED BY <3>2 DEF PlacedOf
  <2> QED BY <2>1, <2>3, PushPlaced
<1>1. ASSUME NEW u \in Producers, NEW k \in 1 .. Len(Script[u]), k > PlacedOf(u)'
      PROVE  k > PlacedOf(u)
  <2>1. k \in Int
    BY PlacedTypes
  <2> QED BY <1>0, <1>1, <2>1
<1>2. CASE WhereSame
  BY <1>0, <1>1, <1>2 DEF OnePlace, WhereSame
<1>3. CASE (Moved(t, "cas", "post") \/ Moved(t, "link", "swing")) /\ WhereAdds(Val(t))
  <2>. DEFINE j == th[t].done + 1
  <2>1. /\ j \in 1 .. Len(Script[t]) /\ j > PlacedOf(t) /\ Val(t) = Script[t][j]
        /\ PlacedOf(t)' = j
    <3>1. PlacedOf(t) = th[t].done /\ PlacedOf(t)' = j /\ th[t].pc # "push"
      BY <1>3, PushPlaced DEF Moved
    <3> QED BY <3>1, PlacedTypes DEF Val
  <2>. HIDE DEF j
  <2>2. PICK p : /\ p \notin Where /\ Where' = Where \cup {p} /\ ValAt(p)' = Val(t)
                 /\ \A q \in Where : ValAt(q)' = ValAt(q)
    BY <1>3 DEF WhereAdds
  <2>3. /\ \A q \in Where : ValAt(q) # Val(t)
        /\ \A l \in 1 .. Len(popped) : popped[l] # Val(t)
    BY <2>1 DEF OnePlace
  <2>4. \A u \in Producers : \A k \in 1 .. Len(Script[u]) : k > PlacedOf(u)' =>
          Script[u][k] # Val(t)
    <3>. SUFFICES ASSUME NEW u \in Producers, NEW k \in 1 .. Len(Script[u]), k > PlacedOf(u)',
                         Script[u][k] = Val(t)
         PROVE  FALSE
      OBVIOUS
    <3>1. u = t /\ k = j
      BY <2>1, ScriptAssumption
    <3> QED BY <3>1, <2>1, PlacedTypes
  <2>5. \A q, r \in Where' : ValAt(q)' = ValAt(r)' => q = r
    BY <2>2, <2>3 DEF OnePlace
  <2>6. \A q \in Where' : \A k \in 1 .. Len(popped) : ValAt(q)' # popped[k]
    BY <2>2, <2>3 DEF OnePlace
  <2>7. \A u \in Producers : \A k \in 1 .. Len(Script[u]) : k > PlacedOf(u)' =>
         /\ \A q \in Where' : ValAt(q)' # Script[u][k]
         /\ \A l \in 1 .. Len(popped) : popped[l] # Script[u][k]
    BY <1>1, <2>2, <2>4 DEF OnePlace
  <2> QED BY <1>0, <2>5, <2>6, <2>7 DEF OnePlace
<1> QED BY <1>2, <1>3, PushWhere, WakeWhere

\* The value a consumer takes leaves its place, and was not taken before.
LEMMA PopPlace ==
  ASSUME QueueShape, ListInv, NodeInv, LeftDrained, OnePlace, PopFinds,
         NEW t \in Consumers, PopStep(t)
  PROVE  OnePlace' /\ PopFinds'
<1>0. \A u \in Producers : PlacedOf(u)' = PlacedOf(u)
  <2>1. \A u \in Producers : th'[u] = th[u]
    BY PopAlone, PcsApart DEF Alone, QThreads
  <2> QED BY <2>1 DEF PlacedOf
<1>1. CASE WhereSame /\ UNCHANGED popped
  BY <1>0, <1>1 DEF OnePlace, WhereSame, PopFinds
<1>2. CASE /\ At(t).val # NoValue /\ At(t).val \in Values
           /\ WhereTakes(At(t).val) /\ popped' = Append(popped, At(t).val)
  <2>. DEFINE v == At(t).val
              n == Len(popped)
  <2>1. PICK p \in Where : /\ Where' = Where \ {p} /\ ValAt(p) = v
                           /\ \A q \in Where \ {p} : ValAt(q)' = ValAt(q)
    BY <1>2 DEF WhereTakes
  <2>. HIDE DEF v
  <2>2. /\ n \in Nat /\ Len(popped') = n + 1 /\ popped'[n + 1] = v
        /\ \A k \in 1 .. n : popped'[k] = popped[k]
        /\ \A k \in 1 .. Len(popped') : k \in 1 .. n \/ k = n + 1
    <3>1. popped \in Seq(Values \cup {NoValue}) /\ v \in Values \cup {NoValue}
      BY <1>2 DEF QueueShape, v
    <3>2. popped' = Append(popped, v)
      BY <1>2 DEF v
    <3> QED BY <3>1, <3>2
  <2>. HIDE DEF n
  <2>3. \A k \in 1 .. n : popped[k] # v
    BY <2>1 DEF OnePlace, n
  <2>4. \A q \in Where \ {p} : ValAt(q) # v
    BY <2>1 DEF OnePlace
  <2>5. \A u \in Producers : \A k \in 1 .. Len(Script[u]) : k > PlacedOf(u) => Script[u][k] # v
    BY <2>1 DEF OnePlace
  <2>6. \A q, r \in Where' : ValAt(q)' = ValAt(r)' => q = r
    BY <2>1 DEF OnePlace
  <2>7. \A q \in Where' : \A k \in 1 .. Len(popped') : ValAt(q)' # popped'[k]
    BY <2>1, <2>2, <2>4 DEF OnePlace, n
  <2>8. \A u \in Producers : \A k \in 1 .. Len(Script[u]) : k > PlacedOf(u)' =>
         /\ \A q \in Where' : ValAt(q)' # Script[u][k]
         /\ \A l \in 1 .. Len(popped') : popped'[l] # Script[u][k]
    BY <1>0, <2>1, <2>2, <2>5 DEF OnePlace, n
  <2>9. PopFinds'
    <3>1. \A k \in 1 .. Len(popped') : popped'[k] # NoValue
      BY <1>2, <2>2 DEF PopFinds, v, n
    <3>2. ASSUME NEW k \in 1 .. Len(popped'), NEW l \in 1 .. Len(popped'), k # l
          PROVE  popped'[k] # popped'[l]
      BY <2>2, <2>3, <3>2 DEF PopFinds, n
    <3> QED BY <3>1, <3>2 DEF PopFinds
  <2> QED BY <2>6, <2>7, <2>8, <2>9 DEF OnePlace
<1> QED BY <1>1, <1>2, PopWhere


-----------------------------------------------------------------------------
(* The consumers that wait.                                                *)

\* mp_sem_wait counts the consumers that are, or may be, asleep.
SleepPcs == {"futex", "asleep", "woken"}
SleepersCounted == mq.waiting = Count(Consumers, SleepPcs)

LEMMA PushSleepers ==
  ASSUME QueueShape, SleepersCounted, NEW t \in Producers, PushStep(t)
  PROVE  SleepersCounted'
<1>0. mq \in [head : Blocks, tail : Blocks, sem : Int, waiting : Int]
  BY DEF QueueShape
<1>1. mq'.waiting = mq.waiting
  <2>1. CASE PushClaim(t) \/ PushSwing(t) \/ PushPost(t)
    BY <1>0, <2>1 DEF PushClaim, PushSwing, PushPost
  <2>2. CASE UNCHANGED mq
    BY <2>2
  <2> QED BY <2>1, <2>2 DEF PushStep, PushProtect, PushLook, PushSwap, PushFull, PushAlloc,
                            PushLink, PushWake
<1>2. \A u \in Consumers : th'[u].pc \in SleepPcs <=> th[u].pc \in SleepPcs
  <2>1. CASE PushWake(t)
    BY <2>1, WakeMoves DEF SleepPcs
  <2>2. CASE ~PushWake(t)
    <3>1. Alone(t)
      BY <2>2, PushMoves DEF PushStep, Moved
    <3> QED BY <3>1, PcsApart DEF Alone, QThreads
  <2> QED BY <2>1, <2>2
<1>3. Count(Consumers, SleepPcs)' = Count(Consumers, SleepPcs)
  <2>1. SleepPcs' = SleepPcs
    BY DEF SleepPcs
  <2> QED BY <1>2, <2>1, CountSame
<1> QED BY <1>1, <1>3 DEF SleepersCounted

LEMMA PopSleepers ==
  ASSUME QueueShape, ListInv, NodeInv, LeftDrained, SleepersCounted,
         NEW t \in Consumers, PopStep(t)
  PROVE  SleepersCounted'
<1>0. /\ mq \in [head : Blocks, tail : Blocks, sem : Int, waiting : Int]
      /\ Alone(t) /\ IsFiniteSet(Consumers) /\ Consumers \subseteq QThreads
      /\ th \in [QThreads -> ThreadRecords] /\ t \in QThreads /\ th[t] \in ThreadRecords
  BY PopAlone, QueueAssumption DEF QueueShape, QThreads
<1>1. \/ /\ th[t].pc \notin SleepPcs /\ th'[t].pc \in SleepPcs
         /\ mq'.waiting = mq.waiting + 1
      \/ /\ th[t].pc \in SleepPcs /\ th'[t].pc \notin SleepPcs
         /\ mq'.waiting = mq.waiting - 1
      \/ /\ th[t].pc \in SleepPcs <=> th'[t].pc \in SleepPcs
         /\ mq'.waiting = mq.waiting
  <2>1. CASE SemAnnounce(t)
    BY <1>0, <2>1 DEF SemAnnounce, GoTo, SleepPcs, ThreadRecords
  <2>2. CASE SemWoken(t)
    BY <1>0, <2>2 DEF SemWoken, GoTo, SleepPcs, ThreadRecords
  <2>3. CASE SemFutex(t)
    BY <1>0, <2>3 DEF SemFutex, GoTo, SleepPcs, ThreadRecords
  <2>4. CASE SemRead(t) \/ SemTake(t) \/ SemUndo(t)
    <3>1. mq'.waiting = mq.waiting /\ th[t].pc \in {"wait", "dec", "undo"}
      BY <1>0, <2>4 DEF SemRead, SemTake, SemUndo
    <3>2. th'[t].pc \in {"wait", "dec", "undo", "announce", "pop"}
      <4>1. ASSUME NEW pc \in {"dec", "announce", "pop", "undo"},
                   th'[t] = [th[t] EXCEPT !.pc = pc] \/ \E i : th'[t] = [th[t] EXCEPT !.i = i, !.pc = pc]
            PROVE  th'[t].pc = pc
        BY <1>0, <4>1 DEF ThreadRecords
      <4>2. \E pc \in {"dec", "announce", "pop", "undo"} :
              th'[t] = [th[t] EXCEPT !.pc = pc] \/ \E i : th'[t] = [th[t] EXCEPT !.i = i, !.pc = pc]
        BY <1>0, <2>4 DEF SemRead, SemTake, SemUndo, GoTo
      <4> QED BY <4>1, <4>2
    <3> QED BY <3>1, <3>2 DEF SleepPcs
  <2>5. CASE \/ PopProtect(t) \/ PopClaim(t) \/ PopNode(t) \/ PopTail(t) \/ PopFix(t)
             \/ PopEmpty(t) \/ PopLeave(t)
    <3>1. mq'.waiting = mq.waiting
      BY <1>0, <2>5 DEF PopProtect, PopClaim, PopNode, PopTail, PopFix, PopEmpty, PopLeave
    <3>2. th[t].pc \in {"pop", "take", "look", "tail", "fix", "empty", "leave"}
      BY <2>5 DEF PopProtect, PopClaim, PopNode, PopTail, PopFix, PopEmpty, PopLeave
    <3>3. th'[t].pc \in {"pop", "take", "look", "tail", "fix", "empty", "leave", "wait"}
      <4>1. CASE PopNode(t)
        BY <4>1, NodeMoves DEF Moved
      <4>2. CASE PopEmpty(t)
        <5>1. ~(th[t].pc = "empty" /\ B(t).next = NoBlock)
          BY PopAlone DEF Succ, B
        <5> QED BY <4>2, <5>1, PopMoves DEF Moved
      <4>3. CASE PopProtect(t) \/ PopClaim(t) \/ PopTail(t) \/ PopFix(t) \/ PopLeave(t)
        BY <4>3, PopMoves DEF Moved
      <4> QED BY <2>5, <4>1, <4>2, <4>3
    <3> QED BY <3>1, <3>2, <3>3 DEF SleepPcs
  <2> QED BY <2>1, <2>2, <2>3, <2>4, <2>5 DEF PopStep
<1>2. /\ th[t].pc \notin SleepPcs /\ th'[t].pc \in SleepPcs =>
           Count(Consumers, SleepPcs)' = Count(Consumers, SleepPcs) + 1
      /\ th[t].pc \in SleepPcs /\ th'[t].pc \notin SleepPcs =>
           Count(Consumers, SleepPcs)' = Count(Consumers, SleepPcs) - 1
      /\ (th[t].pc \in SleepPcs <=> th'[t].pc \in SleepPcs) =>
           Count(Consumers, SleepPcs)' = Count(Consumers, SleepPcs)
  <2>1. \A u \in Consumers : u # t => (th'[u].pc \in SleepPcs <=> th[u].pc \in SleepPcs)
    BY <1>0 DEF Alone
  <2>2. SleepPcs' = SleepPcs
    BY DEF SleepPcs
  <2> QED BY <1>0, <2>1, <2>2, CountMove
<1> QED BY <1>1, <1>2 DEF SleepersCounted

LEMMA InitSleepers == QueueInit => SleepersCounted
<1>. SUFFICES ASSUME QueueInit PROVE SleepersCounted
  OBVIOUS
<1>1. mq.waiting = 0 /\ th = [t \in QThreads |-> QIdle(IF t \in Producers THEN "push" ELSE "wait")]
  BY DEF QueueInit
<1>2. \A t \in Consumers : th[t].pc = "wait"
  <2>1. \A t \in Consumers : t \in QThreads /\ t \notin Producers
    BY PcsApart DEF QThreads
  <2>2. \A t \in Consumers : th[t] = QIdle("wait")
    BY <1>1, <2>1
  <2>3. QIdle("wait").pc = "wait"
    BY DEF QIdle
  <2> QED BY <2>2, <2>3
<1>3. {t \in Consumers : th[t].pc \in SleepPcs} = {}
  BY <1>2 DEF SleepPcs
<1> QED BY <1>1, <1>3, FS_EmptySet DEF SleepersCounted, Count

-----------------------------------------------------------------------------
(* The consumers find what was pushed.                                     *)

QInv == /\ QueueShape /\ ListInv /\ NodeInv /\ ClosedFirst /\ LeftDrained /\ PrivateNew
        /\ OnePlace /\ SemFits /\ PopFinds /\ SleepersCounted

LEMMA InitQInv == QueueInit => QInv
<1>. SUFFICES ASSUME QueueInit PROVE QInv
  OBVIOUS
<1>1. QueueShape /\ ListInv
  BY InitList
<1>2. PICK b0 \in Blocks :
        /\ blk = [b \in Blocks |-> IF b = b0 THEN NewBlock(NoValue) ELSE FreeBlock]
        /\ mq = [head |-> b0, tail |-> b0, sem |-> 0, waiting |-> 0]
        /\ th = [t \in QThreads |-> QIdle(IF t \in Producers THEN "push" ELSE "wait")]
        /\ popped = <<>>
  BY QueueAssumption DEF QueueInit
<1>. HIDE DEF QueueInit
<1>3. \A b \in Blocks : /\ blk[b].head = 0 /\ blk[b].next = NoBlock
                        /\ \A n \in Ring : blk[b].nodes[n] = Node(n, NoValue)
  BY <1>2 DEF NewBlock, FreeBlock
<1>4. \A b \in Blocks : \A n \in Ring : blk[b].nodes[n].idx = n /\ blk[b].nodes[n].val = NoValue
  <2>1. \A n : Node(n, NoValue).idx = n /\ Node(n, NoValue).val = NoValue
    BY DEF Node
  <2> QED BY <1>3, <2>1
<1>5. \A t \in Producers : th[t].pc = "push" /\ th[t].done = 0
  BY <1>2 DEF QIdle, QThreads
<1>6. \A t \in Consumers : th[t].pc = "wait"
  <2>1. \A t \in Consumers : t \in QThreads /\ t \notin Producers
    BY PcsApart DEF QThreads
  <2>2. \A t \in Consumers : th[t] = QIdle("wait")
    BY <1>2, <2>1
  <2>3. QIdle("wait").pc = "wait"
    BY DEF QIdle
  <2> QED BY <2>2, <2>3
<1>7. NodeInv
  <2>1. Claims
    BY <1>4, <1>5, <1>6, FirstRound DEF Claims, Looks
  <2>2. Bound
    BY <1>4 DEF Bound
  <2>3. Passed
    BY <1>3 DEF Passed
  <2>4. CasFresh
    BY <1>5 DEF CasFresh
  <2> QED BY <2>1, <2>2, <2>3, <2>4 DEF NodeInv
<1>8. ClosedFirst /\ PrivateNew
  BY <1>3, <1>5 DEF ClosedFirst, PrivateNew, Succ
<1>9. LeftDrained
  <2>1. \A b \in Blocks : blk[b].state # "garbage"
    BY <1>2, NewBlockFields DEF FreeBlock, NewBlock
  <2> QED BY <2>1, <1>6 DEF LeftDrained, Dead
<1>10. Where = {}
  BY <1>4 DEF Where, Kept, Shared, Dead
<1>11. OnePlace /\ PopFinds
  <2>1. Len(popped) = 0
    BY <1>2
  <2> QED BY <1>10, <2>1 DEF OnePlace, PopFinds
<1>12. SemFits
  <2>1. /\ Count(Consumers, {"undo"}) = 0 /\ Count(Consumers, InPop) = 0
        /\ Count(Producers, {"swing", "post"}) = 0
    <3>1. /\ {t \in Consumers : th[t].pc \in {"undo"}} = {}
          /\ {t \in Consumers : th[t].pc \in InPop} = {}
          /\ {t \in Producers : th[t].pc \in {"swing", "post"}} = {}
      BY <1>5, <1>6 DEF InPop, InBlock
    <3> QED BY <3>1, FS_EmptySet DEF Count
  <2>2. mq.sem = 0 /\ Cardinality(Where) = 0
    BY <1>2, <1>10, FS_EmptySet
  <2> QED BY <2>1, <2>2 DEF SemFits
<1> QED BY <1>1, <1>7, <1>8, <1>9, <1>11, <1>12, InitSleepers DEF QInv

LEMMA StepQInv == QInv /\ [QueueNext]_queueVars => QInv'
<1>. SUFFICES ASSUME QInv, [QueueNext]_queueVars PROVE QInv'
  OBVIOUS
<1>0. /\ QueueShape /\ ListInv /\ NodeInv /\ ClosedFirst /\ LeftDrained /\ PrivateNew
      /\ OnePlace /\ SemFits /\ PopFinds /\ SleepersCounted
  BY DEF QInv
<1>1. QueueShape' /\ ListInv'
  BY <1>0, StepList
<1>2. ASSUME NEW t \in Producers, PushStep(t) PROVE QInv'
  <2>1. NodeInv' /\ ClosedFirst' /\ LeftDrained' /\ PrivateNew'
    BY <1>0, <1>2, PushNodes, PushClosed, PushLeft, PushPrivate
  <2>2. OnePlace' /\ SemFits'
    BY <1>0, <1>2, PushPlace, PushCounted
  <2>3. popped' = popped
    BY <1>0, <1>2, PushPlaced
  <2>4. PopFinds'
    BY <1>0, <2>3 DEF PopFinds
  <2>5. SleepersCounted'
    BY <1>0, <1>2, PushSleepers
  <2> QED BY <1>1, <2>1, <2>2, <2>4, <2>5 DEF QInv
<1>3. ASSUME NEW t \in Consumers, PopStep(t) PROVE QInv'
  <2>0. Alone(t) /\ ~(th[t].pc = "empty" /\ Succ(th[t].b) = NoBlock)
    BY <1>0, <1>3, PopAlone
  <2>1. NodeInv'
    BY <1>0, <1>3, <2>0, PopNodes
  <2>2. ClosedFirst' /\ LeftDrained' /\ PrivateNew'
    BY <1>0, <1>3, <2>0, PopClosed, PopLeft, PopPrivate
  <2>3. OnePlace' /\ PopFinds' /\ SemFits'
    BY <1>0, <1>3, PopPlace, PopCounted
  <2>4. SleepersCounted'
    BY <1>0, <1>3, PopSleepers
  <2> QED BY <1>1, <2>1, <2>2, <2>3, <2>4 DEF QInv
<1>4. CASE UNCHANGED queueVars
  <2>1. blk' = blk /\ mq' = mq /\ th' = th /\ popped' = popped
    BY <1>4 DEF queueVars
  <2>2. NodeInv'
    <3>1. Claims' /\ Bound'
      BY <1>0, <2>1 DEF NodeInv, Claims, Bound, Looks
    <3>2. Passed'
      BY <1>0, <2>1 DEF NodeInv, Passed, Looks, At2
    <3>3. CasFresh'
      <4>. SUFFICES ASSUME NEW t \in Producers, th'[t].pc = "cas" PROVE Fresh(t)'
        BY DEF CasFresh
      <4>1. Fresh(t)
        BY <1>0, <2>1 DEF NodeInv, CasFresh
      <4>. QED
        BY <4>1, <2>1, ZenonT(40) DEF Fresh, Looks, At2
    <3> QED BY <3>1, <3>2, <3>3 DEF NodeInv
  <2>3. ClosedFirst' /\ PrivateNew' /\ PopFinds'
    BY <1>0, <2>1 DEF ClosedFirst, PrivateNew, PopFinds, Succ, Val
  <2>4. LeftDrained'
    BY <1>0, <2>1 DEF LeftDrained, Drained, Dead, Succ
  <2>5. Where' = Where
    BY <2>1 DEF Where, Kept, Shared, Dead, Private
  <2>6. OnePlace' /\ SemFits'
    BY <1>0, <2>1, <2>5 DEF OnePlace, SemFits, ValAt, PlacedOf, Count
  <2>7. SleepersCounted'
    BY <1>0, <2>1 DEF SleepersCounted, SleepPcs, Count
  <2> QED BY <1>1, <2>2, <2>3, <2>4, <2>6, <2>7 DEF QInv
<1> QED BY <1>2, <1>3, <1>4 DEF QueueNext

\* mpq_pop_w and mpq_pop_nw (src/common/mp-queue.c) return a value once the semaphore
\* let the consumer through, as their assertions claim, and no value twice: for every
\* number of producers, consumers and blocks, and every size of the blocks.
THEOREM PoppersFind == QueueSpec => []PopFinds
<1>1. QInv => PopFinds
  BY DEF QInv
<1> QED BY <1>1, InitQInv, StepQInv, PTL DEF QueueSpec

\* Blocks, nodes, hazard pointers and the two counters of the semaphore keep their
\* types; mp_sem_wait never counts fewer sleepers than there are.
LEMMA TypesOfQueue == QInv => QueueTypeOK
<1>. SUFFICES ASSUME QInv PROVE QueueTypeOK
  OBVIOUS
<1>1. QueueShape /\ Claims
  BY DEF QInv, NodeInv
<1>2. mq.waiting \in Nat
  <2>1. Count(Consumers, SleepPcs) \in Nat
    BY <1>1, FiniteCounts
  <2> QED BY <2>1 DEF QInv, SleepersCounted
<1>3. \A b \in Blocks : blk[b] \in BlockRecords
  BY <1>1 DEF QueueShape
<1>4. \A b \in Blocks : \A n \in Ring :
        blk[b].nodes[n].val \in Values \cup {NoValue} /\ blk[b].nodes[n].idx % Size = n
  BY <1>1, <1>3 DEF Claims, BlockRecords, NodeRecords
<1>5. \A n \in 1 .. Len(popped) : popped[n] \in Values \cup {NoValue}
  BY <1>1 DEF QueueShape
<1> QED BY <1>1, <1>2, <1>3, <1>4, <1>5 DEF QueueTypeOK, QueueShape, BlockRecords

THEOREM QueueTypes == QueueSpec => []QueueTypeOK
<1> QED BY TypesOfQueue, InitQInv, StepQInv, PTL DEF QueueSpec
=============================================================================
