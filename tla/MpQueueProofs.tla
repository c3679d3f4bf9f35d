---------------------------- MODULE MpQueueProofs ----------------------------
(***************************************************************************)
(* Proofs about MpQueue, for any producers, consumers and blocks, any size *)
(* of the blocks and any values that satisfy its assumptions: the list of  *)
(* blocks and its hazard pointers, then what is in the nodes of a block.   *)
(*                                                                         *)
(* The blocks in use form a chain from mq_head (Chained); mq_tail is its   *)
(* last block or the one before it, even when mq_head has passed that one  *)
(* (TailNear); a thread has what it is in as its hazard pointer (Guarded). *)
(* An index of a block is claimed once by each side (Claims); a value that *)
(* the head has passed is about to be taken (Bound); a place that a        *)
(* consumer has looked at takes no value of that index any more (Passed),  *)
(* also from a producer that looked at it before (CasFresh).               *)
(***************************************************************************)
EXTENDS MpQueue, FiniteSetTheorems, SequenceTheorems, TLAPS

-----------------------------------------------------------------------------
(* The inductive invariant.                                                *)

\* The block is one that a thread has prepared and not linked yet.
Private(b) == \E t \in Producers : th[t].pc = "link" /\ th[t].new = b

\* The blocks of the list, and those a thread may still be in.
Shared == {b \in Blocks : blk[b].state = "used" /\ ~Private(b)}
Dead   == {b \in Blocks : blk[b].state = "garbage"}
Succ(b) == blk[b].next

PushPcs == {"push", "faa", "node", "cas", "full", "alloc", "link", "swing",
            "post", "wake"}
PopPcs  == {"wait", "dec", "undo", "announce", "futex", "asleep", "woken", "pop",
            "take", "look", "tail", "fix", "empty", "leave"}

NodeRecords  == [idx : Nat, safe : BOOLEAN, val : Values \cup {NoValue}]
BlockRecords == [head : Nat, tail : Nat, closed : BOOLEAN, next : Blocks \cup {NoBlock},
                 state : {"free", "used", "garbage", "prepared"},
                 nodes : [Ring -> NodeRecords]]
ThreadRecords == [pc : PushPcs \cup PopPcs, b : Blocks \cup {NoBlock},
                  new : Blocks \cup {NoBlock}, i : Int, it : Nat, d : NodeRecords,
                  again : BOOLEAN, done : Nat]

QueueShape ==
  /\ blk \in [Blocks -> BlockRecords]
  /\ mq \in [head : Blocks, tail : Blocks, sem : Int, waiting : Int]
  /\ th \in [QThreads -> ThreadRecords]
  /\ hp \in [QThreads -> Blocks \cup {NoBlock}]
  /\ popped \in Seq(Values \cup {NoValue})
  /\ \A t \in Producers :
       /\ th[t].pc \in PushPcs /\ th[t].done <= Len(Script[t])
       /\ th[t].pc # "push" => th[t].done < Len(Script[t])
       /\ th[t].pc \in {"node", "cas", "full"} => th[t].i \in Nat
  /\ \A t \in Consumers :
       /\ th[t].pc \in PopPcs
       /\ th[t].pc \in {"look", "tail"} => th[t].i \in Nat

\* The list of blocks from mq_head, each once, linked by next.
IsChain(q) ==
  /\ q \in Seq(Blocks) /\ q # <<>>
  /\ q[1] = mq.head
  /\ \A i, j \in 1 .. Len(q) : q[i] = q[j] => i = j
  /\ \A b \in Blocks : b \in Shared <=> \E i \in 1 .. Len(q) : q[i] = b
  /\ \A i \in 1 .. Len(q) :
       Succ(q[i]) = IF i = Len(q) THEN NoBlock ELSE q[i + 1]

Chained == \E q \in Seq(Blocks) : IsChain(q)

\* mq_tail is the last block or the one before it, be it that mq_head has left
\* that one already; then a thread that will move it on keeps it from being freed.
TailNear ==
  /\ mq.tail \in Shared \/ (mq.tail \in Dead /\ Succ(mq.tail) = mq.head)
  /\ Succ(mq.tail) # NoBlock =>
       /\ Succ(mq.tail) \in Shared /\ Succ(mq.tail) # mq.tail
       /\ Succ(Succ(mq.tail)) = NoBlock
       /\ \E t \in Producers : /\ th[t].pc = "swing" /\ th[t].b = mq.tail
                               /\ th[t].new = Succ(mq.tail)
  /\ \A b \in Shared : Succ(b) = NoBlock => b = mq.tail \/ b = Succ(mq.tail)

\* A thread in a block has it as its hazard pointer, and it is not free.
Guarded ==
  \A t \in QThreads : th[t].pc \in InBlock =>
    th[t].b \in Shared \cup Dead /\ hp[t] = th[t].b

\* A prepared block has no next and is one thread's own.
Prepared ==
  \A t \in Producers : th[t].pc = "link" =>
    /\ th[t].new \in Blocks /\ blk[th[t].new].state = "used" /\ Succ(th[t].new) = NoBlock
    /\ \A u \in Producers : th[u].pc = "link" /\ th[u].new = th[t].new => u = t

\* A thread is not in a block that mq_tail has not reached; it knows the block it
\* has linked.
PushersBehind ==
  \A t \in Producers :
    /\ th[t].pc \in InBlock => th[t].b # Succ(mq.tail)
    /\ th[t].pc = "swing" => th[t].new = Succ(th[t].b) /\ th[t].new \in Blocks

\* A consumer is in the first block, or in one that was left or has a next one.
PoppersAhead ==
  \A t \in Consumers :
    /\ th[t].pc \in InBlock => th[t].b = mq.head \/ Succ(th[t].b) # NoBlock
    /\ th[t].pc \in InBlock /\ th[t].again => Succ(th[t].b) # NoBlock
    /\ th[t].pc = "leave" => th[t].again

DeadLinked == \A b \in Dead : Succ(b) # NoBlock

ListInv == Chained /\ TailNear /\ Guarded /\ Prepared /\ PushersBehind /\ PoppersAhead
           /\ DeadLinked
-----------------------------------------------------------------------------
(* Types.                                                                  *)

LEMMA ValInValues ==
  ASSUME QueueShape, NEW t \in Producers, th[t].done < Len(Script[t])
  PROVE  Val(t) \in Values
<1>1. th[t].done \in Nat /\ Len(Script[t]) \in Nat
  BY ScriptAssumption DEF QueueShape, ThreadRecords, QThreads
<1>2. th[t].done + 1 \in 1 .. Len(Script[t])
  BY <1>1
<1> QED BY <1>2 DEF Val, Values

LEMMA NodeType ==
  ASSUME NEW i \in Nat, NEW v \in Values \cup {NoValue}
  PROVE  Node(i, v) \in NodeRecords
BY DEF Node, NodeRecords

LEMMA NewBlockType ==
  ASSUME NEW v \in Values \cup {NoValue}
  PROVE  NewBlock(v) \in BlockRecords
<1>1. Ring \subseteq Nat
  BY QueueAssumption DEF Ring
<1>2. [n \in Ring |-> Node(n, IF n = 0 THEN v ELSE NoValue)] \in [Ring -> NodeRecords]
  BY <1>1, NodeType
<1> QED BY <1>2 DEF NewBlock, BlockRecords

\* One field of a record changes.
LEMMA BlockFields ==
  ASSUME NEW R \in BlockRecords
  PROVE  /\ \A n \in Nat : [R EXCEPT !.head = n] \in BlockRecords
         /\ \A n \in Nat : [R EXCEPT !.tail = n] \in BlockRecords
         /\ \A c \in BOOLEAN : [R EXCEPT !.closed = c] \in BlockRecords
         /\ \A b \in Blocks \cup {NoBlock} : [R EXCEPT !.next = b] \in BlockRecords
         /\ \A s \in {"free", "used", "garbage", "prepared"} :
              [R EXCEPT !.state = s] \in BlockRecords
         /\ \A i \in Ring, m \in NodeRecords : [R EXCEPT !.nodes[i] = m] \in BlockRecords
<1>1. \A i \in Ring, m \in NodeRecords : [R.nodes EXCEPT ![i] = m] \in [Ring -> NodeRecords]
  BY DEF BlockRecords
<1> QED BY <1>1 DEF BlockRecords

LEMMA ClaimType ==
  ASSUME NEW R \in ThreadRecords, NEW n \in Nat
  PROVE  \A p \in PushPcs \cup PopPcs :
           /\ [R EXCEPT !.i = n, !.pc = p] \in ThreadRecords
           /\ [R EXCEPT !.i = n, !.pc = p].pc = p
           /\ [R EXCEPT !.i = n, !.pc = p].i = n
           /\ [R EXCEPT !.i = n, !.pc = p].done = R.done
<1>1. n \in Int
  OBVIOUS
<1>2. [R EXCEPT !.i = n] \in ThreadRecords
  BY <1>1 DEF ThreadRecords
<1> QED BY <1>2 DEF ThreadRecords

LEMMA QIdleType ==
  ASSUME NEW p \in PushPcs \cup PopPcs PROVE QIdle(p) \in ThreadRecords
BY NodeType DEF QIdle, ThreadRecords

LEMMA PcsApart == PushPcs \cap PopPcs = {} /\ Producers \cap Consumers = {}
BY QueueAssumption DEF PushPcs, PopPcs

\* A block whose fields change keeps its type.
LEMMA BlockStep ==
  ASSUME QueueShape, NEW b \in Blocks,
         NEW B2 \in BlockRecords, blk' = [blk EXCEPT ![b] = B2]
  PROVE  blk' \in [Blocks -> BlockRecords]
BY DEF QueueShape

\* A step of one producer.
LEMMA PushShape ==
  ASSUME QueueShape, NEW t \in Producers, NEW T2 \in ThreadRecords,
         th' = [th EXCEPT ![t] = T2], T2.pc \in PushPcs,
         T2.done <= Len(Script[t]), T2.pc # "push" => T2.done < Len(Script[t]),
         T2.pc \in {"node", "cas", "full"} => T2.i \in Nat,
         blk' \in [Blocks -> BlockRecords],
         mq' \in [head : Blocks, tail : Blocks, sem : Int, waiting : Int],
         hp' \in [QThreads -> Blocks \cup {NoBlock}], popped' = popped
  PROVE  QueueShape'
<1>1. th' \in [QThreads -> ThreadRecords] /\ t \notin Consumers /\ t \in QThreads
  BY PcsApart DEF QueueShape, QThreads
<1>2. \A u \in QThreads : u # t => th'[u] = th[u]
  BY DEF QueueShape
<1>3. th'[t] = T2
  BY <1>1 DEF QueueShape
<1> QED BY <1>1, <1>2, <1>3 DEF QueueShape, QThreads

LEMMA PopShape ==
  ASSUME QueueShape, NEW t \in Consumers, NEW T2 \in ThreadRecords,
         th' = [th EXCEPT ![t] = T2], T2.pc \in PopPcs,
         T2.pc \in {"look", "tail"} => T2.i \in Nat,
         blk' \in [Blocks -> BlockRecords],
         mq' \in [head : Blocks, tail : Blocks, sem : Int, waiting : Int],
         hp' \in [QThreads -> Blocks \cup {NoBlock}],
         popped' \in Seq(Values \cup {NoValue})
  PROVE  QueueShape'
<1>1. th' \in [QThreads -> ThreadRecords] /\ t \notin Producers /\ t \in QThreads
  BY PcsApart DEF QueueShape, QThreads
<1>2. \A u \in QThreads : u # t => th'[u] = th[u]
  BY DEF QueueShape
<1>3. th'[t] = T2
  BY <1>1 DEF QueueShape
<1> QED BY <1>1, <1>2, <1>3 DEF QueueShape, QThreads
LEMMA RingMod == ASSUME NEW i \in Nat PROVE i % Size \in Ring
BY QueueAssumption DEF Ring

LEMMA PushSteps ==
  ASSUME QueueShape, Guarded, PushersBehind, NEW t \in Producers, PushStep(t)
  PROVE  QueueShape'
<1>. USE DEF QueueShape
<1>a. t \in QThreads /\ th[t] \in ThreadRecords /\ th = [th EXCEPT ![t] = th[t]]
  BY DEF QThreads
<1>b. /\ th[t].pc \in PushPcs /\ th[t].done <= Len(Script[t])
      /\ th[t].pc # "push" => th[t].done < Len(Script[t])
      /\ th[t].pc \in {"node", "cas", "full"} => th[t].i \in Nat
      /\ th[t].done \in Nat /\ Len(Script[t]) \in Nat
  BY <1>a, ScriptAssumption DEF ThreadRecords
<1>c. th[t].pc \in InBlock => th[t].b \in Blocks /\ B(t) \in BlockRecords
  BY <1>a DEF Guarded, Shared, Dead, B
<1>d. th[t].done < Len(Script[t]) => Val(t) \in Values
  BY ValInValues
<1>1. CASE PushProtect(t)
  <2>. DEFINE T2 == [th[t] EXCEPT !.pc = "faa", !.b = mq.tail, !.it = 0]
  <2>1. T2 \in ThreadRecords /\ T2.pc = "faa" /\ T2.done = th[t].done
    BY <1>a DEF ThreadRecords, PushPcs
  <2>2. th' = [th EXCEPT ![t] = T2] /\ th[t].done < Len(Script[t])
    BY <1>1, <1>a DEF PushProtect
  <2>3. hp' \in [QThreads -> Blocks \cup {NoBlock}] /\ UNCHANGED <<blk, mq, popped>>
    BY <1>1 DEF PushProtect
  <2> QED BY <2>1, <2>2, <2>3, <1>b, PushShape DEF PushPcs
<1>2. CASE PushClaim(t)
  <2>1. CASE B(t).next # NoBlock /\ th[t].it = 0
    <3>. DEFINE T2 == [th[t] EXCEPT !.pc = "push"]
    <3>1. T2 \in ThreadRecords /\ T2.pc = "push" /\ T2.done = th[t].done
      BY <1>a DEF ThreadRecords, PushPcs
    <3>2. th' = [th EXCEPT ![t] = T2] /\ UNCHANGED <<blk, hp, popped>>
      BY <1>2, <2>1, <1>a DEF PushClaim, GoTo
    <3>3. mq' \in [head : Blocks, tail : Blocks, sem : Int, waiting : Int]
      BY <1>2, <2>1, <1>c DEF PushClaim, BlockRecords, InBlock
    <3> QED BY <3>1, <3>2, <3>3, <1>b, PushShape DEF PushPcs
  <2>2. CASE ~(B(t).next # NoBlock /\ th[t].it = 0)
    <3>. DEFINE T2 == [th[t] EXCEPT !.i = B(t).tail, !.pc = IF B(t).closed THEN "alloc" ELSE "node"]
    <3>0. B(t) \in BlockRecords /\ th[t].b \in Blocks /\ th[t].pc = "faa"
      BY <1>2, <1>c DEF PushClaim, InBlock
    <3>a. B(t).tail \in Nat /\ B(t).closed \in BOOLEAN
      BY <3>0 DEF BlockRecords
    <3>1. /\ T2 \in ThreadRecords /\ T2.pc \in {"alloc", "node"} /\ T2.done = th[t].done
          /\ T2.i \in Nat
      <4>1. CASE B(t).closed
        <5>1. T2 = [th[t] EXCEPT !.i = B(t).tail, !.pc = "alloc"]
          BY <4>1
        <5>2. [th[t] EXCEPT !.i = B(t).tail, !.pc = "alloc"] \in ThreadRecords
          BY <1>a, <3>a, ClaimType DEF PushPcs
        <5>3. T2.pc = "alloc" /\ T2.i = B(t).tail /\ T2.done = th[t].done
          BY <1>a, <5>1 DEF ThreadRecords
        <5>. HIDE DEF T2
        <5> QED BY <3>a, <5>1, <5>2, <5>3
      <4>2. CASE ~B(t).closed
        <5>1. T2 = [th[t] EXCEPT !.i = B(t).tail, !.pc = "node"]
          BY <4>2
        <5>2. [th[t] EXCEPT !.i = B(t).tail, !.pc = "node"] \in ThreadRecords
          BY <1>a, <3>a, ClaimType DEF PushPcs
        <5>3. T2.pc = "node" /\ T2.i = B(t).tail /\ T2.done = th[t].done
          BY <1>a, <5>1 DEF ThreadRecords
        <5>. HIDE DEF T2
        <5> QED BY <3>a, <5>1, <5>2, <5>3
      <4> QED BY <4>1, <4>2
    <3>2. th' = [th EXCEPT ![t] = T2] /\ UNCHANGED <<mq, hp, popped>>
      BY <1>2, <2>2, <1>a DEF PushClaim
    <3>3. blk' \in [Blocks -> BlockRecords]
      <4>1. blk' = [blk EXCEPT ![th[t].b] = [B(t) EXCEPT !.tail = B(t).tail + 1]]
        BY <1>2, <2>2, <3>0 DEF PushClaim, B
      <4>2. [B(t) EXCEPT !.tail = B(t).tail + 1] \in BlockRecords
        <5>1. B(t).tail + 1 \in Nat
          BY <3>a
        <5> QED BY <3>0, <5>1, BlockFields
      <4> QED BY <3>0, <4>1, <4>2, BlockStep
    <3> QED BY ZenonT(40), <3>1, <3>2, <3>3, <1>b, <1>2, PushShape DEF PushPcs, PushClaim
  <2> QED BY <2>1, <2>2
<1>3. CASE PushLook(t)
  <2>0. th[t].pc = "node" /\ th[t].i \in Nat
    BY <1>3, <1>b DEF PushLook
  <2>1. At(t) \in NodeRecords
    BY <2>0, <1>c, RingMod DEF At, BlockRecords, InBlock
  <2>. DEFINE T2 == [th[t] EXCEPT !.d = At(t),
                     !.pc = IF /\ At(t).val = NoValue /\ At(t).idx <= th[t].i
                               /\ At(t).safe \/ B(t).head <= th[t].i
                            THEN "cas" ELSE "full"]
  <2>2. /\ T2 \in ThreadRecords /\ T2.pc \in {"cas", "full"} /\ T2.done = th[t].done
        /\ T2.i \in Nat
    BY <1>a, <2>0, <2>1 DEF ThreadRecords, PushPcs
  <2>3. th' = [th EXCEPT ![t] = T2] /\ UNCHANGED <<blk, mq, hp, popped>>
    BY <1>3, <1>a DEF PushLook
  <2> QED BY <2>0, <2>2, <2>3, <1>b, PushShape DEF PushPcs
<1>4. CASE PushSwap(t)
  <2>0. th[t].pc = "cas" /\ th[t].i \in Nat /\ th[t].done < Len(Script[t])
    BY <1>4, <1>b DEF PushSwap
  <2>1. PICK p \in {"post", "full"} : th' = [th EXCEPT ![t] = [th[t] EXCEPT !.pc = p]]
    BY <1>4, <1>a DEF PushSwap, GoTo
  <2>. DEFINE T2 == [th[t] EXCEPT !.pc = p]
  <2>2. /\ T2 \in ThreadRecords /\ T2.pc \in {"post", "full"} /\ T2.done = th[t].done
        /\ T2.i \in Nat
    BY <1>a, <2>0 DEF ThreadRecords, PushPcs
  <2>3. Node(th[t].i, Val(t)) \in NodeRecords
    BY <2>0, <1>d, NodeType
  <2>4. blk' \in [Blocks -> BlockRecords]
    <3>1. th[t].b \in Blocks /\ B(t) \in BlockRecords
      BY <2>0, <1>c DEF InBlock
    <3>2. [B(t) EXCEPT !.nodes[th[t].i % Size] = Node(th[t].i, Val(t))] \in BlockRecords
      BY <2>0, <2>3, <3>1, RingMod, BlockFields
    <3>3. \/ blk' = blk
          \/ blk' = [blk EXCEPT ![th[t].b] =
                       [B(t) EXCEPT !.nodes[th[t].i % Size] = Node(th[t].i, Val(t))]]
      BY <1>4, <3>1 DEF PushSwap, B
    <3> QED BY <3>1, <3>2, <3>3, BlockStep
  <2> QED BY <2>0, <2>1, <2>2, <2>4, <1>4, PushShape DEF PushPcs, PushSwap
<1>5. CASE PushFull(t)
  <2>0. th[t].pc = "full" /\ th[t].done < Len(Script[t])
    BY <1>5, <1>b DEF PushFull
  <2>1. PICK p \in {"alloc", "faa"} :
          th' = [th EXCEPT ![t] = [th[t] EXCEPT !.it = @ + 1, !.pc = p]]
    BY <1>5, <1>a DEF PushFull
  <2>. DEFINE T2 == [th[t] EXCEPT !.it = @ + 1, !.pc = p]
  <2>2. T2 \in ThreadRecords /\ T2.pc \in {"alloc", "faa"} /\ T2.done = th[t].done
    <3>1. th[t].it + 1 \in Nat
      BY <1>a DEF ThreadRecords
    <3> QED BY <3>1, <1>a DEF ThreadRecords, PushPcs
  <2>3. blk' \in [Blocks -> BlockRecords]
    BY <1>5, <2>0, <1>c, ZenonT(40) DEF PushFull, BlockRecords, InBlock
  <2> QED BY <2>0, <2>1, <2>2, <2>3, <1>5, PushShape DEF PushPcs, PushFull
<1>6. CASE PushAlloc(t)
  <2>0. th[t].pc = "alloc" /\ th[t].done < Len(Script[t])
    BY <1>6, <1>b DEF PushAlloc
  <2>1. PICK b \in Blocks : /\ blk' = [blk EXCEPT ![b] = NewBlock(Val(t))]
                            /\ th' = [th EXCEPT ![t] = [th[t] EXCEPT !.new = b, !.pc = "link"]]
    <3>1. PICK b \in Blocks : /\ blk' = [blk EXCEPT ![b] = NewBlock(Val(t))]
                              /\ th' = [th EXCEPT ![t].new = b, ![t].pc = "link"]
      BY <1>6 DEF PushAlloc
    <3>2. th' = [th EXCEPT ![t] = [th[t] EXCEPT !.new = b, !.pc = "link"]]
      BY <3>1, <1>a
    <3> QED BY <3>1, <3>2
  <2>. DEFINE T2 == [th[t] EXCEPT !.new = b, !.pc = "link"]
  <2>2. T2 \in ThreadRecords /\ T2.pc = "link" /\ T2.done = th[t].done
    BY <1>a DEF ThreadRecords, PushPcs
  <2>3. blk' \in [Blocks -> BlockRecords]
    BY <2>0, <2>1, <1>d, NewBlockType, BlockStep
  <2> QED BY <2>0, <2>1, <2>2, <2>3, <1>6, PushShape DEF PushPcs, PushAlloc
<1>7. CASE PushLink(t)
  <2>0. th[t].pc = "link" /\ th[t].done < Len(Script[t]) /\ th[t].done <= Len(Script[t])
    BY <1>7, <1>b DEF PushLink
  <2>1. CASE B(t).next = NoBlock
    <3>. DEFINE T2 == [th[t] EXCEPT !.pc = "swing"]
    <3>1. T2 \in ThreadRecords /\ T2.pc = "swing" /\ T2.done = th[t].done
      BY <1>a DEF ThreadRecords, PushPcs
    <3>2. th' = [th EXCEPT ![t] = T2] /\ UNCHANGED <<mq, hp, popped>>
      BY <1>7, <2>1, <1>a DEF PushLink, GoTo
    <3>3. blk' \in [Blocks -> BlockRecords]
      <4>3. th[t].b \in Blocks /\ B(t) \in BlockRecords
        BY <2>0, <1>c DEF InBlock
      <4>1. blk' = [blk EXCEPT ![th[t].b] = [B(t) EXCEPT !.next = th[t].new]]
        BY <1>7, <2>1, <4>3 DEF PushLink, B
      <4>2. [B(t) EXCEPT !.next = th[t].new] \in BlockRecords
        BY <1>a, <4>3, BlockFields DEF ThreadRecords
      <4> QED BY <4>1, <4>2, <4>3, BlockStep
    <3> QED BY <2>0, <3>1, <3>2, <3>3, PushShape DEF PushPcs
  <2>2. CASE B(t).next # NoBlock
    <3>. DEFINE T2 == [th[t] EXCEPT !.pc = "push", !.new = NoBlock]
    <3>1. T2 \in ThreadRecords /\ T2.pc = "push" /\ T2.done = th[t].done
      BY <1>a DEF ThreadRecords, PushPcs
    <3>2. th' = [th EXCEPT ![t] = T2] /\ UNCHANGED <<mq, hp, popped>>
      BY <1>7, <2>2, <1>a DEF PushLink
    <3>3. blk' \in [Blocks -> BlockRecords]
      <4>1. blk' = [blk EXCEPT ![th[t].new].state = "prepared"]
        BY <1>7, <2>2 DEF PushLink
      <4>2. CASE th[t].new \in Blocks
        <5>1. [blk[th[t].new] EXCEPT !.state = "prepared"] \in BlockRecords
          BY <4>2, BlockFields
        <5>2. blk' = [blk EXCEPT ![th[t].new] = [blk[th[t].new] EXCEPT !.state = "prepared"]]
          BY <4>1, <4>2
        <5> QED BY <4>2, <5>1, <5>2, BlockStep
      <4>3. CASE th[t].new \notin Blocks
        BY <4>1, <4>3
      <4> QED BY <4>2, <4>3
    <3> QED BY <2>0, <3>1, <3>2, <3>3, PushShape DEF PushPcs
  <2> QED BY <2>1, <2>2
<1>8. CASE PushSwing(t)
  <2>0. th[t].pc = "swing" /\ th[t].done < Len(Script[t])
    BY <1>8, <1>b DEF PushSwing
  <2>. DEFINE T2 == [th[t] EXCEPT !.pc = "post"]
  <2>1. T2 \in ThreadRecords /\ T2.pc = "post" /\ T2.done = th[t].done
    BY <1>a DEF ThreadRecords, PushPcs
  <2>2. th' = [th EXCEPT ![t] = T2] /\ UNCHANGED <<blk, hp, popped>>
    BY <1>8, <1>a DEF PushSwing, GoTo
  <2>3. mq' \in [head : Blocks, tail : Blocks, sem : Int, waiting : Int]
    BY <1>8, <2>0 DEF PushSwing, PushersBehind
  <2> QED BY <2>0, <2>1, <2>2, <2>3, PushShape DEF PushPcs
<1>9. CASE PushPost(t)
  <2>0. th[t].pc = "post" /\ th[t].done < Len(Script[t])
    BY <1>9, <1>b DEF PushPost
  <2>. DEFINE T2 == [th[t] EXCEPT !.pc = "wake"]
  <2>1. T2 \in ThreadRecords /\ T2.pc = "wake" /\ T2.done = th[t].done
    BY <1>a DEF ThreadRecords, PushPcs
  <2>2. th' = [th EXCEPT ![t] = T2] /\ UNCHANGED <<blk, popped>>
    BY <1>9, <1>a DEF PushPost, GoTo
  <2>3. /\ mq' \in [head : Blocks, tail : Blocks, sem : Int, waiting : Int]
        /\ hp' \in [QThreads -> Blocks \cup {NoBlock}]
    <3>1. mq.sem + 1 \in Int
      OBVIOUS
    <3>2. mq' = [mq EXCEPT !.sem = mq.sem + 1] /\ hp' = [hp EXCEPT ![t] = NoBlock]
      BY <1>9 DEF PushPost
    <3> QED BY <3>1, <3>2
  <2> QED BY <2>0, <2>1, <2>2, <2>3, PushShape DEF PushPcs
<1>10. CASE PushWake(t)
  <2>0. th[t].pc = "wake" /\ th[t].done < Len(Script[t])
    BY <1>10, <1>b DEF PushWake
  <2>. DEFINE T2 == [QIdle("push") EXCEPT !.done = th[t].done + 1]
              next == [th EXCEPT ![t] = T2]
  <2>1. T2 \in ThreadRecords /\ T2.pc = "push" /\ T2.done = th[t].done + 1
    <3>1. QIdle("push") \in ThreadRecords /\ QIdle("push").pc = "push" /\ th[t].done + 1 \in Nat
      BY <1>b, QIdleType DEF PushPcs, QIdle
    <3> QED BY <3>1 DEF ThreadRecords
  <2>2. UNCHANGED <<blk, mq, hp, popped>>
    BY <1>10 DEF PushWake
  <2>3. /\ next \in [QThreads -> ThreadRecords] /\ next[t] = T2 /\ t \notin Consumers
        /\ \A u \in QThreads \ {t} : next[u] = th[u]
    BY <1>a, <2>1, PcsApart
  <2>4. \/ th' = next
        \/ \E u \in Consumers : th' = [next EXCEPT ![u].pc = "woken"]
    BY <1>10 DEF PushWake
  <2>5. /\ th' \in [QThreads -> ThreadRecords] /\ th'[t] = T2
        /\ \A u \in Producers \ {t} : th'[u] = th[u]
        /\ \A u \in Consumers : th'[u] = th[u] \/ th'[u].pc = "woken"
    <3>1. CASE th' = next
      BY <2>3, <3>1 DEF QThreads
    <3>2. ASSUME NEW u \in Consumers, th' = [next EXCEPT ![u].pc = "woken"]
          PROVE  /\ th' \in [QThreads -> ThreadRecords] /\ th'[t] = T2
                 /\ \A v \in Producers \ {t} : th'[v] = th[v]
                 /\ \A v \in Consumers : th'[v] = th[v] \/ th'[v].pc = "woken"
      <4>1. [next[u] EXCEPT !.pc = "woken"] \in ThreadRecords /\ u \in QThreads /\ u \notin Producers
        <5>1. u \in QThreads /\ u \notin Producers /\ next[u] \in ThreadRecords
          BY <2>3, PcsApart DEF QThreads
        <5> QED BY <5>1 DEF ThreadRecords, PopPcs
      <4> QED BY <4>1, <2>3, <3>2 DEF QThreads, ThreadRecords
    <3> QED BY <2>4, <3>1, <3>2
  <2>6. \A u \in Consumers : /\ th'[u].pc \in PopPcs
                             /\ th'[u].pc \in {"look", "tail"} => th'[u].i \in Nat
    BY <2>5 DEF PopPcs
  <2>7. /\ th'[t].pc = "push" /\ th'[t].done <= Len(Script[t])
        /\ th'[t].pc \in PushPcs
    BY <2>0, <2>1, <2>5, <1>b DEF PushPcs
  <2> QED BY <2>2, <2>5, <2>6, <2>7
<1> QED BY <1>1, <1>2, <1>3, <1>4, <1>5, <1>6, <1>7, <1>8, <1>9, <1>10 DEF PushStep
LEMMA PopSteps ==
  ASSUME QueueShape, Guarded, NEW t \in Consumers, PopStep(t),
         mq.head = th[t].b /\ th[t].pc = "leave" => B(t).next \in Blocks
  PROVE  QueueShape'
<1>. USE DEF QueueShape
<1>a. t \in QThreads /\ th[t] \in ThreadRecords
  BY DEF QThreads
<1>b. /\ th[t].pc \in PopPcs
      /\ th[t].pc \in {"look", "tail"} => th[t].i \in Nat
  BY <1>a
<1>c. th[t].pc \in InBlock => th[t].b \in Blocks /\ B(t) \in BlockRecords
  BY <1>a DEF Guarded, Shared, Dead, B
<1>d. NoValue \in Values \cup {NoValue}
  OBVIOUS
<1>1. CASE SemRead(t)
  <2>. DEFINE T2 == [th[t] EXCEPT !.i = mq.sem, !.pc = IF mq.sem > 0 THEN "dec" ELSE "announce"]
  <2>1. T2 \in ThreadRecords /\ T2.pc \in {"dec", "announce"}
    BY <1>a DEF ThreadRecords, PopPcs
  <2>2. th' = [th EXCEPT ![t] = T2] /\ UNCHANGED <<blk, mq, hp, popped>>
    BY <1>1, <1>a DEF SemRead
  <2> QED BY <2>1, <2>2, PopShape DEF PopPcs
<1>2. CASE SemTake(t)
  <2>1. PICK p \in {"pop", "undo"} : th' = [th EXCEPT ![t] = [th[t] EXCEPT !.pc = p]]
    BY <1>2, <1>a DEF SemTake, GoTo
  <2>2. [th[t] EXCEPT !.pc = p] \in ThreadRecords /\ [th[t] EXCEPT !.pc = p].pc = p
    BY <1>a DEF ThreadRecords, PopPcs
  <2>3. mq' = [mq EXCEPT !.sem = mq.sem - 1] /\ mq.sem - 1 \in Int
    BY <1>2 DEF SemTake
  <2>4. UNCHANGED <<blk, hp, popped>>
    BY <1>2 DEF SemTake
  <2> QED BY <2>1, <2>2, <2>3, <2>4, PopShape DEF PopPcs
<1>3. CASE SemUndo(t)
  <2>. DEFINE T2 == [th[t] EXCEPT !.i = mq.sem + 1, !.pc = IF mq.sem + 1 > 0 THEN "dec" ELSE "announce"]
  <2>0. mq.sem + 1 \in Int
    OBVIOUS
  <2>1. T2 \in ThreadRecords /\ T2.pc \in {"dec", "announce"}
    BY <1>a, <2>0 DEF ThreadRecords, PopPcs
  <2>2. th' = [th EXCEPT ![t] = T2] /\ UNCHANGED <<blk, hp, popped>>
    BY <1>3, <1>a DEF SemUndo
  <2>3. mq' = [mq EXCEPT !.sem = mq.sem + 1]
    BY <1>3 DEF SemUndo
  <2> QED BY <2>0, <2>1, <2>2, <2>3, PopShape DEF PopPcs
<1>4. CASE SemAnnounce(t)
  <2>. DEFINE T2 == [th[t] EXCEPT !.pc = "futex"]
  <2>1. T2 \in ThreadRecords /\ T2.pc = "futex"
    BY <1>a DEF ThreadRecords, PopPcs
  <2>2. th' = [th EXCEPT ![t] = T2] /\ UNCHANGED <<blk, hp, popped>>
    BY <1>4, <1>a DEF SemAnnounce, GoTo
  <2>3. mq' = [mq EXCEPT !.waiting = mq.waiting + 1] /\ mq.waiting + 1 \in Int
    BY <1>4 DEF SemAnnounce
  <2> QED BY <2>1, <2>2, <2>3, PopShape DEF PopPcs
<1>5. CASE SemFutex(t)
  <2>1. PICK p \in {"asleep", "woken"} : th' = [th EXCEPT ![t] = [th[t] EXCEPT !.pc = p]]
    BY <1>5, <1>a DEF SemFutex, GoTo
  <2>2. [th[t] EXCEPT !.pc = p] \in ThreadRecords /\ [th[t] EXCEPT !.pc = p].pc = p
    BY <1>a DEF ThreadRecords, PopPcs
  <2>3. UNCHANGED <<blk, mq, hp, popped>>
    BY <1>5 DEF SemFutex
  <2> QED BY <2>1, <2>2, <2>3, PopShape DEF PopPcs
<1>6. CASE SemWoken(t)
  <2>. DEFINE T2 == [th[t] EXCEPT !.pc = "wait"]
  <2>1. T2 \in ThreadRecords /\ T2.pc = "wait"
    BY <1>a DEF ThreadRecords, PopPcs
  <2>2. th' = [th EXCEPT ![t] = T2] /\ UNCHANGED <<blk, hp, popped>>
    BY <1>6, <1>a DEF SemWoken, GoTo
  <2>3. mq' = [mq EXCEPT !.waiting = mq.waiting - 1] /\ mq.waiting - 1 \in Int
    BY <1>6 DEF SemWoken
  <2> QED BY <2>1, <2>2, <2>3, PopShape DEF PopPcs
<1>7. CASE PopProtect(t)
  <2>. DEFINE T2 == [th[t] EXCEPT !.pc = "take", !.b = mq.head, !.again = FALSE]
  <2>1. T2 \in ThreadRecords /\ T2.pc = "take"
    BY <1>a DEF ThreadRecords, PopPcs
  <2>2. th' = [th EXCEPT ![t] = T2] /\ UNCHANGED <<blk, mq, popped>>
    BY <1>7, <1>a DEF PopProtect
  <2>3. hp' \in [QThreads -> Blocks \cup {NoBlock}]
    BY <1>7 DEF PopProtect
  <2> QED BY <2>1, <2>2, <2>3, PopShape DEF PopPcs
<1>8. CASE PopClaim(t)
  <2>0. B(t) \in BlockRecords /\ th[t].b \in Blocks
    BY <1>8, <1>c DEF PopClaim, InBlock
  <2>a. B(t).head \in Nat /\ B(t).head + 1 \in Nat
    BY <2>0 DEF BlockRecords
  <2>. DEFINE T2 == [th[t] EXCEPT !.i = B(t).head, !.pc = "look"]
  <2>1. T2 \in ThreadRecords /\ T2.pc = "look" /\ T2.i \in Nat
    <3>1. T2 \in ThreadRecords
      BY <1>a, <2>a, ClaimType DEF PopPcs
    <3> QED BY <1>a, <2>a, <3>1 DEF ThreadRecords
  <2>2. th' = [th EXCEPT ![t] = T2] /\ UNCHANGED <<mq, hp, popped>>
    BY <1>8, <1>a DEF PopClaim
  <2>3. blk' \in [Blocks -> BlockRecords]
    <3>1. blk' = [blk EXCEPT ![th[t].b] = [B(t) EXCEPT !.head = B(t).head + 1]]
      BY <1>8, <2>0 DEF PopClaim, B
    <3>2. [B(t) EXCEPT !.head = B(t).head + 1] \in BlockRecords
      BY <2>0, <2>a, BlockFields
    <3> QED BY <2>0, <3>1, <3>2, BlockStep
  <2> QED BY <2>1, <2>2, <2>3, PopShape DEF PopPcs
<1>9. CASE PopNode(t)
  <2>0. th[t].pc = "look" /\ th[t].i \in Nat /\ B(t) \in BlockRecords /\ th[t].b \in Blocks
    BY <1>9, <1>b, <1>c DEF PopNode, InBlock
  <2>1. At(t) \in NodeRecords /\ th[t].i % Size \in Ring
    BY <2>0, RingMod DEF At, BlockRecords
  <2>2. blk' \in [Blocks -> BlockRecords]
    <3>1. th[t].i + Size \in Nat
      BY <2>0, QueueAssumption
    <3>2. /\ [At(t) EXCEPT !.idx = th[t].i + Size, !.val = NoValue] \in NodeRecords
          /\ [At(t) EXCEPT !.safe = FALSE] \in NodeRecords
          /\ [At(t) EXCEPT !.idx = th[t].i + Size] \in NodeRecords
      BY <2>1, <3>1 DEF NodeRecords
    <3>3. PICK m \in NodeRecords :
            blk' = blk \/ blk' = [blk EXCEPT ![th[t].b].nodes[th[t].i % Size] = m]
      BY <1>9, <2>1, <3>2 DEF PopNode
    <3>4. blk' = blk \/ blk' = [blk EXCEPT ![th[t].b] = [B(t) EXCEPT !.nodes[th[t].i % Size] = m]]
      BY <2>0, <3>3 DEF B
    <3>5. [B(t) EXCEPT !.nodes[th[t].i % Size] = m] \in BlockRecords
      BY <2>0, <2>1, BlockFields
    <3> QED BY <2>0, <3>4, <3>5, BlockStep
  <2>3. UNCHANGED mq
    BY <1>9 DEF PopNode
  <2>4. CASE th' = [th EXCEPT ![t].pc = "tail"] /\ UNCHANGED <<popped, hp>>
    <3>. DEFINE T2 == [th[t] EXCEPT !.pc = "tail"]
    <3>1. T2 \in ThreadRecords /\ T2.pc = "tail" /\ T2.i \in Nat
      BY <1>a, <2>0 DEF ThreadRecords, PopPcs
    <3>2. th' = [th EXCEPT ![t] = T2]
      BY <1>a, <2>4
    <3> QED BY <2>2, <2>3, <2>4, <3>1, <3>2, PopShape DEF PopPcs
  <2>5. CASE /\ popped' = Append(popped, At(t).val) /\ hp' = [hp EXCEPT ![t] = NoBlock]
             /\ th' = [th EXCEPT ![t] = QIdle("wait")]
    <3>1. QIdle("wait") \in ThreadRecords /\ QIdle("wait").pc = "wait"
      BY QIdleType DEF PopPcs, QIdle
    <3>2. popped' \in Seq(Values \cup {NoValue})
      BY <2>1, <2>5 DEF NodeRecords
    <3> QED BY <2>2, <2>3, <2>5, <3>1, <3>2, PopShape DEF PopPcs
  <2> QED BY <1>9, <2>4, <2>5 DEF PopNode, GoTo
<1>10. CASE PopTail(t)
  <2>1. PICK p \in {"fix", "take"} : th' = [th EXCEPT ![t] = [th[t] EXCEPT !.pc = p]]
    BY <1>10, <1>a DEF PopTail, GoTo
  <2>2. [th[t] EXCEPT !.pc = p] \in ThreadRecords /\ [th[t] EXCEPT !.pc = p].pc = p
    BY <1>a DEF ThreadRecords, PopPcs
  <2>3. UNCHANGED <<blk, mq, hp, popped>>
    BY <1>10 DEF PopTail
  <2> QED BY <2>1, <2>2, <2>3, PopShape DEF PopPcs
<1>11. CASE PopFix(t)
  <2>0. B(t) \in BlockRecords /\ th[t].b \in Blocks
    BY <1>11, <1>c DEF PopFix, InBlock
  <2>. DEFINE T2 == [th[t] EXCEPT !.pc = "empty"]
  <2>1. T2 \in ThreadRecords /\ T2.pc = "empty"
    BY <1>a DEF ThreadRecords, PopPcs
  <2>2. th' = [th EXCEPT ![t] = T2] /\ UNCHANGED <<mq, hp, popped>>
    BY <1>11, <1>a DEF PopFix, GoTo
  <2>3. blk' \in [Blocks -> BlockRecords]
    <3>1. blk' = blk \/ blk' = [blk EXCEPT ![th[t].b] = [B(t) EXCEPT !.tail = B(t).head]]
      BY <1>11, <2>0 DEF PopFix, B
    <3>2. B(t).head \in Nat
      BY <2>0 DEF BlockRecords
    <3>3. [B(t) EXCEPT !.tail = B(t).head] \in BlockRecords
      BY <2>0, <3>2, BlockFields
    <3> QED BY <2>0, <3>1, <3>3, BlockStep
  <2> QED BY <2>1, <2>2, <2>3, PopShape DEF PopPcs
<1>12. CASE PopEmpty(t)
  <2>1. UNCHANGED <<blk, mq>>
    BY <1>12 DEF PopEmpty
  <2>2. CASE /\ popped' = Append(popped, NoValue) /\ hp' = [hp EXCEPT ![t] = NoBlock]
             /\ th' = [th EXCEPT ![t] = QIdle("wait")]
    <3>1. QIdle("wait") \in ThreadRecords /\ QIdle("wait").pc = "wait"
      BY QIdleType DEF PopPcs, QIdle
    <3>2. popped' \in Seq(Values \cup {NoValue})
      BY <2>2
    <3> QED BY <2>1, <2>2, <3>1, <3>2, PopShape DEF PopPcs
  <2>3. CASE th' = [th EXCEPT ![t].again = TRUE, ![t].pc = "take"] /\ UNCHANGED <<popped, hp>>
    <3>. DEFINE T2 == [th[t] EXCEPT !.again = TRUE, !.pc = "take"]
    <3>1. T2 \in ThreadRecords /\ T2.pc = "take"
      BY <1>a DEF ThreadRecords, PopPcs
    <3>2. th' = [th EXCEPT ![t] = T2]
      BY <1>a, <2>3
    <3> QED BY <2>1, <2>3, <3>1, <3>2, PopShape DEF PopPcs
  <2>4. CASE th' = [th EXCEPT ![t].pc = "leave"] /\ UNCHANGED <<popped, hp>>
    <3>. DEFINE T2 == [th[t] EXCEPT !.pc = "leave"]
    <3>1. T2 \in ThreadRecords /\ T2.pc = "leave"
      BY <1>a DEF ThreadRecords, PopPcs
    <3>2. th' = [th EXCEPT ![t] = T2]
      BY <1>a, <2>4
    <3> QED BY <2>1, <2>4, <3>1, <3>2, PopShape DEF PopPcs
  <2> QED BY <1>12, <2>2, <2>3, <2>4 DEF PopEmpty, GoTo
<1>13. CASE PopLeave(t)
  <2>0. th[t].b \in Blocks /\ B(t) \in BlockRecords /\ th[t].pc = "leave"
    BY <1>13, <1>c DEF PopLeave, InBlock
  <2>. DEFINE T2 == [th[t] EXCEPT !.pc = "pop"]
  <2>1. T2 \in ThreadRecords /\ T2.pc = "pop"
    BY <1>a DEF ThreadRecords, PopPcs
  <2>2. th' = [th EXCEPT ![t] = T2] /\ UNCHANGED <<hp, popped>>
    BY <1>13, <1>a DEF PopLeave, GoTo
  <2>3. mq' \in [head : Blocks, tail : Blocks, sem : Int, waiting : Int]
    BY <1>13, <2>0 DEF PopLeave
  <2>4. blk' \in [Blocks -> BlockRecords]
    <3>1. PICK s \in {"garbage", "free"} :
            blk' = blk \/ blk' = [blk EXCEPT ![th[t].b].state = s]
      BY <1>13 DEF PopLeave
    <3>2. blk' = blk \/ blk' = [blk EXCEPT ![th[t].b] = [B(t) EXCEPT !.state = s]]
      BY <2>0, <3>1 DEF B
    <3>3. [B(t) EXCEPT !.state = s] \in BlockRecords
      BY <2>0, BlockFields
    <3> QED BY <2>0, <3>2, <3>3, BlockStep
  <2> QED BY <2>1, <2>2, <2>3, <2>4, PopShape DEF PopPcs
<1> QED BY <1>1, <1>2, <1>3, <1>4, <1>5, <1>6, <1>7, <1>8, <1>9, <1>10, <1>11, <1>12, <1>13
        DEF PopStep
-----------------------------------------------------------------------------
(* The list of blocks.                                                     *)

\* The fields of blocks and of the queue that make the list do not change.
SameList ==
  /\ \A b \in Blocks : blk'[b].next = blk[b].next /\ blk'[b].state = blk[b].state
  /\ mq'.head = mq.head /\ mq'.tail = mq.tail

\* A thread stays with its block, or gives it up.
PushKeeps(t) ==
  /\ th'[t].pc = "link" <=> th[t].pc = "link"
  /\ th[t].pc = "link" => th'[t].new = th[t].new
  /\ th'[t].pc = "swing" <=> th[t].pc = "swing"
  /\ th[t].pc = "swing" => th'[t].new = th[t].new
  /\ th'[t].pc \in InBlock =>
       th[t].pc \in InBlock /\ th'[t].b = th[t].b /\ hp'[t] = hp[t]

PopKeeps(t) ==
  th'[t].pc \in InBlock =>
    /\ th[t].pc \in InBlock /\ th'[t].b = th[t].b /\ hp'[t] = hp[t]
    /\ th'[t].again => th[t].again \/ Succ(th[t].b) # NoBlock
    /\ th'[t].pc = "leave" => th'[t].again

LEMMA InBlockBlocks ==
  ASSUME QueueShape, Guarded, NEW t \in QThreads, th[t].pc \in InBlock
  PROVE  /\ th[t].b \in Blocks /\ hp[t] = th[t].b /\ th[t].b \in Shared \cup Dead
         /\ th[t].b # NoBlock
BY QueueAssumption DEF Guarded, Shared, Dead

LEMMA QuietList ==
  ASSUME QueueShape, ListInv, SameList,
         \A t \in Producers : PushKeeps(t), \A t \in Consumers : PopKeeps(t)
  PROVE  ListInv'
<1>. USE DEF ListInv
<1>1. \A b : Private(b)' <=> Private(b)
  BY DEF PushKeeps, Private
<1>2. Shared' = Shared /\ Dead' = Dead
  BY <1>1 DEF Shared, Dead, SameList
<1>3. \A b \in Blocks : Succ(b)' = Succ(b)
  BY DEF SameList, Succ
<1>4. mq.head \in Blocks /\ mq.tail \in Blocks /\ mq'.head = mq.head /\ mq'.tail = mq.tail
  BY DEF QueueShape, SameList
<1>5. Chained'
  <2>1. PICK q \in Seq(Blocks) : IsChain(q)
    BY DEF Chained
  <2>2. \A i \in 1 .. Len(q) : q[i] \in Blocks
    BY <2>1
  <2>3. IsChain(q)'
    BY <2>1, <2>2, <1>2, <1>3, <1>4 DEF IsChain
  <2> QED BY <2>3 DEF Chained
<1>6. Succ(mq.tail)' = Succ(mq.tail)
  BY <1>3, <1>4 DEF Succ
<1>7. TailNear'
  <2>1. (mq.tail \in Shared \/ (mq.tail \in Dead /\ Succ(mq.tail) = mq.head))'
    BY <1>2, <1>4, <1>6 DEF TailNear
  <2>2. ASSUME Succ(mq.tail) # NoBlock
        PROVE  /\ Succ(mq.tail) \in Shared /\ Succ(mq.tail) # mq.tail
               /\ Succ(Succ(mq.tail))' = NoBlock
               /\ \E t \in Producers : /\ th'[t].pc = "swing" /\ th'[t].b = mq.tail
                                       /\ th'[t].new = Succ(mq.tail)
    <3>1. Succ(mq.tail) \in Blocks
      BY <2>2 DEF TailNear, Shared
    <3>2. Succ(Succ(mq.tail))' = Succ(Succ(mq.tail))
      BY <3>1, <1>3, <1>6 DEF Succ
    <3>3. PICK t \in Producers : th[t].pc = "swing" /\ th[t].b = mq.tail /\ th[t].new = Succ(mq.tail)
      BY <2>2 DEF TailNear
    <3>4. th'[t].pc = "swing" /\ th'[t].b = mq.tail /\ th'[t].new = Succ(mq.tail)
      BY <3>3 DEF PushKeeps, InBlock
    <3> QED BY <2>2, <3>2, <3>4 DEF TailNear
  <2>3. \A b \in Shared : Succ(b)' = NoBlock => b = mq.tail \/ b = Succ(mq.tail)
    BY <1>3 DEF TailNear, Shared
  <2> QED BY <2>1, <2>2, <2>3, <1>2, <1>4, <1>6 DEF TailNear
<1>8. Guarded'
  BY <1>2 DEF Guarded, PushKeeps, PopKeeps, QThreads
<1>9. Prepared'
  BY DEF Prepared, PushKeeps, SameList, Succ
<1>10. PushersBehind'
  <2>1. \A t \in Producers : th[t].pc = "swing" => th[t].b \in Blocks
    BY InBlockBlocks DEF InBlock, QThreads
  <2>2. ASSUME NEW t \in Producers
        PROVE  /\ th'[t].pc \in InBlock => th'[t].b # Succ(mq.tail)
               /\ th'[t].pc = "swing" => th'[t].new = blk'[th'[t].b].next /\ th'[t].new \in Blocks
    <3>1. th'[t].pc \in InBlock => th'[t].b # Succ(mq.tail)
      BY DEF PushersBehind, PushKeeps
    <3>2. th'[t].pc = "swing" =>
            th[t].pc = "swing" /\ th'[t].b = th[t].b /\ th'[t].new = th[t].new
      BY DEF PushKeeps, InBlock
    <3> QED BY <1>3, <2>1, <3>1, <3>2 DEF PushersBehind, Succ
  <2> QED BY <1>3, <1>6, <2>1, <2>2 DEF PushersBehind, Succ
<1>11. PoppersAhead'
  <2>1. \A t \in Consumers : th[t].pc \in InBlock => th[t].b \in Blocks
    BY InBlockBlocks DEF QThreads
  <2>2. ASSUME NEW t \in Consumers, th'[t].pc \in InBlock
        PROVE  /\ th'[t].b = mq'.head \/ blk'[th'[t].b].next # NoBlock
               /\ th'[t].again => blk'[th'[t].b].next # NoBlock
               /\ th'[t].pc = "leave" => th'[t].again
    <3>1. /\ th[t].pc \in InBlock /\ th'[t].b = th[t].b /\ th[t].b \in Blocks
          /\ th'[t].again => th[t].again \/ Succ(th[t].b) # NoBlock
          /\ th'[t].pc = "leave" => th'[t].again
      BY <2>1, <2>2 DEF PopKeeps
    <3>2. blk'[th[t].b].next = Succ(th[t].b)
      BY <1>3, <3>1 DEF Succ
    <3> QED BY <1>4, <3>1, <3>2 DEF PoppersAhead
  <2>3. "leave" \in InBlock
    BY DEF InBlock
  <2> QED BY <2>2, <2>3 DEF PoppersAhead, Succ
<1>12. DeadLinked'
  BY <1>2, <1>3 DEF DeadLinked, Dead
<1> QED BY <1>5, <1>7, <1>8, <1>9, <1>10, <1>11, <1>12

\* A step of one thread that leaves the list alone.
LEMMA QuietPush ==
  ASSUME QueueShape, ListInv, NEW t \in Producers, NEW T2, th' = [th EXCEPT ![t] = T2],
         \A u \in QThreads \ {t} : hp'[u] = hp[u], SameList, PushKeeps(t)
  PROVE  ListInv'
<1>1. \A u \in QThreads \ {t} : th'[u] = th[u] /\ hp'[u] = hp[u]
  BY DEF QueueShape
<1>2. \A u \in Producers : PushKeeps(u)
  BY <1>1 DEF PushKeeps, QThreads
<1>3. \A u \in Consumers : PopKeeps(u)
  BY <1>1, PcsApart DEF PopKeeps, QThreads, ListInv, PoppersAhead
<1> QED BY <1>2, <1>3, QuietList

LEMMA QuietPop ==
  ASSUME QueueShape, ListInv, NEW t \in Consumers, NEW T2, th' = [th EXCEPT ![t] = T2],
         \A u \in QThreads \ {t} : hp'[u] = hp[u], SameList, PopKeeps(t)
  PROVE  ListInv'
<1>1. \A u \in QThreads \ {t} : th'[u] = th[u] /\ hp'[u] = hp[u]
  BY DEF QueueShape
<1>2. \A u \in Producers : PushKeeps(u)
  BY <1>1, PcsApart DEF PushKeeps, QThreads
<1>3. \A u \in Consumers : PopKeeps(u)
  BY <1>1, PcsApart DEF PopKeeps, QThreads, ListInv, PoppersAhead
<1> QED BY <1>2, <1>3, QuietList

LEMMA BlockSame ==
  ASSUME QueueShape, NEW b \in Blocks, NEW B2, blk' = [blk EXCEPT ![b] = B2],
         B2.next = blk[b].next, B2.state = blk[b].state
  PROVE  \A c \in Blocks : blk'[c].next = blk[c].next /\ blk'[c].state = blk[c].state
BY DEF QueueShape

LEMMA PushQuiet ==
  ASSUME QueueShape, ListInv, NEW t \in Producers,
         PushLook(t) \/ PushSwap(t) \/ PushFull(t) \/ PushPost(t)
  PROVE  ListInv'
<1>. USE DEF QueueShape
<1>a. t \in QThreads /\ th[t] \in ThreadRecords
  BY DEF QThreads
<1>c. th[t].pc \in InBlock => th[t].b \in Blocks /\ B(t) \in BlockRecords
  BY <1>a, InBlockBlocks DEF ListInv, B
<1>3. CASE PushLook(t)
  <2>1. PICK p \in {"cas", "full"} :
          th' = [th EXCEPT ![t] = [th[t] EXCEPT !.d = At(t), !.pc = p]]
    BY <1>3, <1>a DEF PushLook
  <2>2. UNCHANGED <<blk, mq, hp>> /\ th[t].pc = "node"
    BY <1>3 DEF PushLook
  <2>3. SameList
    BY <2>2 DEF SameList
  <2>4. PushKeeps(t)
    BY <2>1, <2>2, <1>a DEF PushKeeps, InBlock, ThreadRecords
  <2> QED BY <2>1, <2>2, <2>3, <2>4, QuietPush
<1>4. CASE PushSwap(t)
  <2>1. PICK p \in {"post", "full"} : th' = [th EXCEPT ![t] = [th[t] EXCEPT !.pc = p]]
    BY <1>4, <1>a DEF PushSwap, GoTo
  <2>2. UNCHANGED <<mq, hp>> /\ th[t].pc = "cas"
    BY <1>4 DEF PushSwap
  <2>3. SameList
    <3>1. \/ blk' = blk
          \/ blk' = [blk EXCEPT ![th[t].b] =
                       [B(t) EXCEPT !.nodes[th[t].i % Size] = Node(th[t].i, Val(t))]]
      BY <1>4, <2>2, <1>c DEF PushSwap, B, InBlock
    <3>2. \A c \in Blocks : blk'[c].next = blk[c].next /\ blk'[c].state = blk[c].state
      BY <3>1, <2>2, <1>c, BlockSame DEF InBlock, B, BlockRecords
    <3> QED BY <3>2, <2>2 DEF SameList
  <2>4. PushKeeps(t)
    BY <2>1, <2>2, <1>a DEF PushKeeps, InBlock, ThreadRecords
  <2> QED BY <2>1, <2>2, <2>3, <2>4, QuietPush
<1>5. CASE PushFull(t)
  <2>1. PICK p \in {"alloc", "faa"} :
          th' = [th EXCEPT ![t] = [th[t] EXCEPT !.it = @ + 1, !.pc = p]]
    BY <1>5, <1>a DEF PushFull
  <2>2. UNCHANGED <<mq, hp>> /\ th[t].pc = "full"
    BY <1>5 DEF PushFull
  <2>3. SameList
    <3>1. \/ blk' = blk
          \/ blk' = [blk EXCEPT ![th[t].b] = [B(t) EXCEPT !.closed = TRUE]]
      BY <1>5, <2>2, <1>c DEF PushFull, B, InBlock
    <3>2. \A c \in Blocks : blk'[c].next = blk[c].next /\ blk'[c].state = blk[c].state
      BY <3>1, <2>2, <1>c, BlockSame DEF InBlock, B, BlockRecords
    <3> QED BY <3>2, <2>2 DEF SameList
  <2>4. PushKeeps(t)
    BY <2>1, <2>2, <1>a DEF PushKeeps, InBlock, ThreadRecords
  <2> QED BY <2>1, <2>2, <2>3, <2>4, QuietPush
<1>9. CASE PushPost(t)
  <2>1. th' = [th EXCEPT ![t] = [th[t] EXCEPT !.pc = "wake"]]
    BY <1>9, <1>a DEF PushPost, GoTo
  <2>2. UNCHANGED blk /\ th[t].pc = "post" /\ mq' = [mq EXCEPT !.sem = @ + 1]
        /\ hp' = [hp EXCEPT ![t] = NoBlock]
    BY <1>9 DEF PushPost
  <2>3. SameList
    BY <2>2 DEF SameList
  <2>4. PushKeeps(t)
    BY <2>1, <2>2, <1>a DEF PushKeeps, InBlock, ThreadRecords
  <2> QED BY <2>1, <2>2, <2>3, <2>4, QuietPush
<1> QED BY <1>3, <1>4, <1>5, <1>9

LEMMA WakeQuiet ==
  ASSUME QueueShape, ListInv, NEW t \in Producers, PushWake(t)
  PROVE  ListInv'
<1>. USE DEF QueueShape
<1>. DEFINE next == [th EXCEPT ![t] = [QIdle("push") EXCEPT !.done = th[t].done + 1]]
<1>a. t \in QThreads /\ th[t].pc = "wake"
  BY DEF QThreads, PushWake
<1>1. th' = next \/ \E u \in Consumers : th[u].pc = "asleep" /\ th' = [next EXCEPT ![u].pc = "woken"]
  BY DEF PushWake
<1>2. next[t].pc = "push" /\ \A u \in QThreads \ {t} : next[u] = th[u]
  BY <1>a DEF QIdle
<1>3. UNCHANGED <<blk, mq, hp>>
  BY DEF PushWake
<1>4. SameList
  BY <1>3 DEF SameList
<1>5. \A u \in Producers : th'[u] = next[u]
  BY <1>1, PcsApart DEF QThreads
<1>6. \A u \in Consumers : \/ th'[u] = th[u]
                           \/ th'[u].pc = "woken"
  <2>1. CASE th' = next
    BY <2>1, <1>2, PcsApart DEF QThreads
  <2>2. ASSUME NEW u \in Consumers, th' = [next EXCEPT ![u].pc = "woken"]
        PROVE  \A v \in Consumers : th'[v] = th[v] \/ th'[v].pc = "woken"
    <3>1. u \in DOMAIN next /\ next[u] \in ThreadRecords
      BY <1>2, PcsApart DEF QThreads
    <3> QED BY <2>2, <3>1, <1>2, PcsApart DEF QThreads, ThreadRecords
  <2> QED BY <1>1, <2>1, <2>2
<1>7. \A u \in Producers : PushKeeps(u)
  BY <1>2, <1>3, <1>5, <1>a DEF PushKeeps, InBlock, QThreads
<1>8. \A u \in Consumers : PopKeeps(u)
  BY <1>3, <1>6 DEF PopKeeps, InBlock, ListInv, PoppersAhead
<1> QED BY <1>4, <1>7, <1>8, QuietList

LEMMA PopQuiet ==
  ASSUME QueueShape, ListInv, NEW t \in Consumers, PopStep(t), ~PopProtect(t), ~PopLeave(t)
  PROVE  ListInv'
<1>. USE DEF QueueShape
<1>a. t \in QThreads /\ th[t] \in ThreadRecords
  BY DEF QThreads
<1>c. th[t].pc \in InBlock => th[t].b \in Blocks /\ B(t) \in BlockRecords /\ B(t).next = Succ(th[t].b)
  BY <1>a, InBlockBlocks DEF ListInv, B, Succ
<1>. DEFINE Before == {"wait", "dec", "undo", "announce", "futex", "woken"}
<1>1. CASE SemRead(t) \/ SemTake(t) \/ SemUndo(t) \/ SemAnnounce(t) \/ SemFutex(t) \/ SemWoken(t)
  <2>1. /\ \E T2 : th' = [th EXCEPT ![t] = T2] /\ T2.pc \in {"dec", "announce", "pop", "undo", "futex", "asleep", "woken", "wait"}
        /\ UNCHANGED hp
        /\ mq'.head = mq.head /\ mq'.tail = mq.tail /\ UNCHANGED blk
    <3>1. CASE SemRead(t)
      <4>1. th' = [th EXCEPT ![t] = [th[t] EXCEPT !.i = mq.sem, !.pc = IF mq.sem > 0 THEN "dec" ELSE "announce"]]
        BY <3>1, <1>a DEF SemRead
      <4> QED BY <4>1, <3>1, <1>a DEF SemRead, ThreadRecords
    <3>2. CASE SemTake(t)
      <4>. DEFINE T2 == [th[t] EXCEPT !.pc = IF mq.sem > 0 THEN "pop" ELSE "undo"]
      <4>1. th' = [th EXCEPT ![t] = T2]
        BY <3>2, <1>a DEF SemTake, GoTo
      <4>2. T2.pc \in {"dec", "announce", "pop", "undo", "futex", "asleep", "woken", "wait"}
        BY <1>a DEF ThreadRecords
      <4>. HIDE DEF T2
      <4> QED BY <4>1, <4>2, <3>2 DEF SemTake
    <3>3. CASE SemUndo(t)
      <4>1. th' = [th EXCEPT ![t] = [th[t] EXCEPT !.i = mq.sem + 1, !.pc = IF mq.sem + 1 > 0 THEN "dec" ELSE "announce"]]
        BY <3>3, <1>a DEF SemUndo
      <4> QED BY <4>1, <3>3, <1>a DEF SemUndo, ThreadRecords
    <3>4. CASE SemAnnounce(t)
      <4>. DEFINE T2 == [th[t] EXCEPT !.pc = "futex"]
      <4>1. th' = [th EXCEPT ![t] = T2]
        BY <3>4, <1>a DEF SemAnnounce, GoTo
      <4>2. T2.pc \in {"dec", "announce", "pop", "undo", "futex", "asleep", "woken", "wait"}
        BY <1>a DEF ThreadRecords
      <4>. HIDE DEF T2
      <4> QED BY <4>1, <4>2, <3>4 DEF SemAnnounce
    <3>5. CASE SemFutex(t)
      <4>. DEFINE T2 == [th[t] EXCEPT !.pc = IF mq.sem = th[t].i THEN "asleep" ELSE "woken"]
      <4>1. th' = [th EXCEPT ![t] = T2]
        BY <3>5, <1>a DEF SemFutex, GoTo
      <4>2. T2.pc \in {"dec", "announce", "pop", "undo", "futex", "asleep", "woken", "wait"}
        BY <1>a DEF ThreadRecords
      <4>. HIDE DEF T2
      <4> QED BY <4>1, <4>2, <3>5 DEF SemFutex
    <3>6. CASE SemWoken(t)
      <4>. DEFINE T2 == [th[t] EXCEPT !.pc = "wait"]
      <4>1. th' = [th EXCEPT ![t] = T2]
        BY <3>6, <1>a DEF SemWoken, GoTo
      <4>2. T2.pc \in {"dec", "announce", "pop", "undo", "futex", "asleep", "woken", "wait"}
        BY <1>a DEF ThreadRecords
      <4>. HIDE DEF T2
      <4> QED BY <4>1, <4>2, <3>6 DEF SemWoken
    <3> QED BY <1>1, <3>1, <3>2, <3>3, <3>4, <3>5, <3>6
  <2>2. SameList
    BY <2>1 DEF SameList
  <2>3. PopKeeps(t)
    BY <2>1, <1>a DEF PopKeeps, InBlock
  <2> QED BY <2>1, <2>2, <2>3, QuietPop
<1>2. CASE PopClaim(t)
  <2>1. th' = [th EXCEPT ![t] = [th[t] EXCEPT !.i = B(t).head, !.pc = "look"]]
    BY <1>2, <1>a DEF PopClaim
  <2>2. UNCHANGED <<mq, hp>> /\ th[t].pc = "take"
    BY <1>2 DEF PopClaim
  <2>3. SameList
    <3>1. blk' = [blk EXCEPT ![th[t].b] = [B(t) EXCEPT !.head = B(t).head + 1]]
      BY <1>2, <2>2, <1>c DEF PopClaim, B, InBlock
    <3>2. \A c \in Blocks : blk'[c].next = blk[c].next /\ blk'[c].state = blk[c].state
      BY <3>1, <2>2, <1>c, BlockSame DEF InBlock, B, BlockRecords
    <3> QED BY <3>2, <2>2 DEF SameList
  <2>4. PopKeeps(t)
    BY <2>1, <2>2, <1>a DEF PopKeeps, InBlock, ThreadRecords
  <2> QED BY <2>1, <2>2, <2>3, <2>4, QuietPop
<1>3. CASE PopNode(t)
  <2>1. th[t].pc = "look" /\ UNCHANGED mq
    BY <1>3 DEF PopNode
  <2>2. \/ th' = [th EXCEPT ![t] = [th[t] EXCEPT !.pc = "tail"]] /\ UNCHANGED hp
        \/ th' = [th EXCEPT ![t] = QIdle("wait")] /\ hp' = [hp EXCEPT ![t] = NoBlock]
    BY <1>3, <1>a DEF PopNode, GoTo
  <2>3. SameList
    <3>1. \/ blk' = blk
          \/ \E m : blk' = [blk EXCEPT ![th[t].b] = [B(t) EXCEPT !.nodes[th[t].i % Size] = m]]
      <4>1. blk' = blk \/ \E m : blk' = [blk EXCEPT ![th[t].b].nodes[th[t].i % Size] = m]
        BY <1>3 DEF PopNode
      <4> QED BY <4>1, <2>1, <1>c DEF B, InBlock
    <3>2. \A c \in Blocks : blk'[c].next = blk[c].next /\ blk'[c].state = blk[c].state
      <4>1. CASE blk' = blk
        BY <4>1
      <4>2. ASSUME NEW m, blk' = [blk EXCEPT ![th[t].b] = [B(t) EXCEPT !.nodes[th[t].i % Size] = m]]
            PROVE  \A c \in Blocks : blk'[c].next = blk[c].next /\ blk'[c].state = blk[c].state
        BY <4>2, <2>1, <1>c, BlockSame DEF InBlock, B, BlockRecords
      <4> QED BY <3>1, <4>1, <4>2
    <3> QED BY <3>2, <2>1 DEF SameList
  <2>4. CASE th' = [th EXCEPT ![t] = [th[t] EXCEPT !.pc = "tail"]] /\ UNCHANGED hp
    <3>1. PopKeeps(t)
      BY <2>4, <2>1, <1>a DEF PopKeeps, InBlock, ThreadRecords
    <3> QED BY <2>4, <2>3, <3>1, QuietPop
  <2>5. CASE th' = [th EXCEPT ![t] = QIdle("wait")] /\ hp' = [hp EXCEPT ![t] = NoBlock]
    <3>1. PopKeeps(t)
      BY <2>5, <2>1, <1>a DEF PopKeeps, InBlock, QIdle
    <3> QED BY <2>5, <2>3, <3>1, QuietPop
  <2> QED BY <2>2, <2>4, <2>5
<1>4. CASE PopTail(t)
  <2>1. PICK p \in {"fix", "take"} : th' = [th EXCEPT ![t] = [th[t] EXCEPT !.pc = p]]
    BY <1>4, <1>a DEF PopTail, GoTo
  <2>2. UNCHANGED <<blk, mq, hp>> /\ th[t].pc = "tail"
    BY <1>4 DEF PopTail
  <2>3. SameList
    BY <2>2 DEF SameList
  <2>4. PopKeeps(t)
    BY <2>1, <2>2, <1>a DEF PopKeeps, InBlock, ThreadRecords
  <2> QED BY <2>1, <2>2, <2>3, <2>4, QuietPop
<1>5. CASE PopFix(t)
  <2>1. th' = [th EXCEPT ![t] = [th[t] EXCEPT !.pc = "empty"]]
    BY <1>5, <1>a DEF PopFix, GoTo
  <2>2. UNCHANGED <<mq, hp>> /\ th[t].pc = "fix"
    BY <1>5 DEF PopFix
  <2>3. SameList
    <3>1. blk' = blk \/ blk' = [blk EXCEPT ![th[t].b] = [B(t) EXCEPT !.tail = B(t).head]]
      BY <1>5, <2>2, <1>c DEF PopFix, B, InBlock
    <3>2. \A c \in Blocks : blk'[c].next = blk[c].next /\ blk'[c].state = blk[c].state
      BY <3>1, <2>2, <1>c, BlockSame DEF InBlock, B, BlockRecords
    <3> QED BY <3>2, <2>2 DEF SameList
  <2>4. PopKeeps(t)
    BY <2>1, <2>2, <1>a DEF PopKeeps, InBlock, ThreadRecords
  <2> QED BY <2>1, <2>2, <2>3, <2>4, QuietPop
<1>6. CASE PopEmpty(t)
  <2>1. th[t].pc = "empty" /\ UNCHANGED <<blk, mq>>
    BY <1>6 DEF PopEmpty
  <2>2. SameList
    BY <2>1 DEF SameList
  <2>3. CASE th' = [th EXCEPT ![t] = QIdle("wait")] /\ hp' = [hp EXCEPT ![t] = NoBlock]
    <3>1. PopKeeps(t)
      BY <2>3, <2>1, <1>a DEF PopKeeps, InBlock, QIdle
    <3> QED BY <2>3, <2>2, <3>1, QuietPop
  <2>4. CASE /\ B(t).next # NoBlock /\ UNCHANGED hp
             /\ th' = [th EXCEPT ![t].again = TRUE, ![t].pc = "take"]
    <3>0. th' = [th EXCEPT ![t] = [th[t] EXCEPT !.again = TRUE, !.pc = "take"]]
      BY <2>4, <1>a
    <3>1. PopKeeps(t)
      BY <2>4, <3>0, <2>1, <1>a, <1>c DEF PopKeeps, InBlock, ThreadRecords
    <3> QED BY <2>4, <2>2, <3>0, <3>1, QuietPop
  <2>5. CASE th[t].again /\ UNCHANGED hp /\ th' = [th EXCEPT ![t].pc = "leave"]
    <3>0. th' = [th EXCEPT ![t] = [th[t] EXCEPT !.pc = "leave"]]
      BY <2>5, <1>a
    <3>1. PopKeeps(t)
      BY <2>5, <3>0, <2>1, <1>a DEF PopKeeps, InBlock, ThreadRecords
    <3> QED BY <2>5, <2>2, <3>0, <3>1, QuietPop
  <2> QED BY <1>6, <2>3, <2>4, <2>5 DEF PopEmpty, GoTo
<1> QED BY <1>1, <1>2, <1>3, <1>4, <1>5, <1>6 DEF PopStep

\* What a step that changes neither links nor ends leaves of the invariant.
LEMMA KeptList ==
  ASSUME QueueShape, ListInv, Shared' = Shared, Dead' = Dead,
         \A b \in Blocks : Succ(b)' = Succ(b), mq'.head = mq.head, mq'.tail = mq.tail
  PROVE  /\ Chained' /\ DeadLinked' /\ Succ(mq.tail)' = Succ(mq.tail)
         /\ (\A t \in Producers : th[t].pc = "swing" /\ th[t].b = mq.tail =>
               th'[t].pc = "swing" /\ th'[t].b = mq.tail /\ th'[t].new = th[t].new)
              => TailNear'
<1>. USE DEF ListInv
<1>4. mq.head \in Blocks /\ mq.tail \in Blocks
  BY DEF QueueShape
<1>5. Chained'
  <2>1. PICK q \in Seq(Blocks) : IsChain(q)
    BY DEF Chained
  <2>2. \A i \in 1 .. Len(q) : q[i] \in Blocks
    BY <2>1
  <2>3. IsChain(q)'
    BY <2>1, <2>2, <1>4 DEF IsChain
  <2> QED BY <2>3 DEF Chained
<1>6. Succ(mq.tail)' = Succ(mq.tail)
  BY <1>4 DEF Succ
<1>7. ASSUME \A t \in Producers : th[t].pc = "swing" /\ th[t].b = mq.tail =>
               th'[t].pc = "swing" /\ th'[t].b = mq.tail /\ th'[t].new = th[t].new
      PROVE  TailNear'
  <2>1. (mq.tail \in Shared \/ (mq.tail \in Dead /\ Succ(mq.tail) = mq.head))'
    BY <1>4, <1>6 DEF TailNear
  <2>2. ASSUME Succ(mq.tail) # NoBlock
        PROVE  /\ Succ(mq.tail) \in Shared /\ Succ(mq.tail) # mq.tail
               /\ Succ(Succ(mq.tail))' = NoBlock
               /\ \E t \in Producers : /\ th'[t].pc = "swing" /\ th'[t].b = mq.tail
                                       /\ th'[t].new = Succ(mq.tail)
    <3>1. Succ(mq.tail) \in Blocks
      BY <2>2 DEF TailNear, Shared
    <3>2. Succ(Succ(mq.tail))' = Succ(Succ(mq.tail))
      BY <3>1, <1>6 DEF Succ
    <3>3. PICK t \in Producers : th[t].pc = "swing" /\ th[t].b = mq.tail /\ th[t].new = Succ(mq.tail)
      BY <2>2 DEF TailNear
    <3>4. th'[t].pc = "swing" /\ th'[t].b = mq.tail /\ th'[t].new = Succ(mq.tail)
      BY <3>3, <1>7
    <3> QED BY <2>2, <3>2, <3>4 DEF TailNear
  <2>3. \A b \in Shared : Succ(b)' = NoBlock => b = mq.tail \/ b = Succ(mq.tail)
    BY DEF TailNear, Shared
  <2> QED BY <2>1, <2>2, <2>3, <1>4, <1>6 DEF TailNear
<1>12. DeadLinked'
  BY DEF DeadLinked, Dead
<1> QED BY <1>5, <1>6, <1>7, <1>12

\* A step of t after which the threads other than t have their blocks as before.
LEMMA OthersKeep ==
  ASSUME QueueShape, ListInv, NEW t \in QThreads, NEW T2, th' = [th EXCEPT ![t] = T2],
         \A u \in QThreads \ {t} : hp'[u] = hp[u]
  PROVE  /\ th'[t] = T2
         /\ \A u \in QThreads : u # t => th'[u] = th[u] /\ hp'[u] = hp[u]
BY DEF QueueShape

LEMMA ProtectList ==
  ASSUME QueueShape, ListInv, NEW t \in QThreads, th[t].pc \notin InBlock,
         NEW T2 \in ThreadRecords, th' = [th EXCEPT ![t] = T2],
         hp' = [hp EXCEPT ![t] = T2.b], UNCHANGED <<blk, mq>>,
         \/ t \in Producers /\ T2.pc = "faa" /\ T2.b = mq.tail
         \/ t \in Consumers /\ T2.pc = "take" /\ T2.b = mq.head /\ ~T2.again
  PROVE  ListInv'
<1>. USE DEF ListInv
<1>1. /\ th'[t] = T2 /\ hp'[t] = T2.b
      /\ \A u \in QThreads : u # t => th'[u] = th[u] /\ hp'[u] = hp[u]
  BY DEF QueueShape
<1>2. \A b : Private(b)' <=> Private(b)
  BY <1>1 DEF Private, InBlock, QThreads
<1>3. Shared' = Shared /\ Dead' = Dead
  BY <1>2 DEF Shared, Dead
<1>4. \A b \in Blocks : Succ(b)' = Succ(b)
  BY DEF Succ
<1>5. Chained' /\ DeadLinked' /\ Succ(mq.tail)' = Succ(mq.tail) /\ TailNear'
  <2>1. \A u \in Producers : th[u].pc = "swing" /\ th[u].b = mq.tail =>
               th'[u].pc = "swing" /\ th'[u].b = mq.tail /\ th'[u].new = th[u].new
    BY <1>1 DEF InBlock, QThreads
  <2> QED BY <1>3, <1>4, <2>1, KeptList
<1>6. mq.head \in Shared /\ mq.tail \in Shared \cup Dead /\ mq.head \in Blocks /\ mq.tail \in Blocks
  <2>1. PICK q \in Seq(Blocks) : IsChain(q)
    BY DEF Chained
  <2>2. 1 \in 1 .. Len(q)
    BY <2>1 DEF IsChain
  <2> QED BY <2>1, <2>2 DEF IsChain, TailNear, QueueShape
<1>7. Guarded'
  BY <1>1, <1>3, <1>6 DEF Guarded
<1>8. Prepared'
  BY <1>1 DEF Prepared, Succ, InBlock, QThreads
<1>9. PushersBehind'
  <2>1. mq.tail # Succ(mq.tail)
    BY <1>6, QueueAssumption DEF TailNear
  <2>2. \A u \in Producers : th[u].pc = "swing" => th[u].b \in Blocks
    BY InBlockBlocks DEF InBlock, QThreads
  <2>3. "swing" \in InBlock
    BY DEF InBlock
  <2>4. ASSUME NEW u \in Producers
        PROVE  /\ th'[u].pc \in InBlock => th'[u].b # blk[mq.tail].next
               /\ th'[u].pc = "swing" => th'[u].new = blk[th'[u].b].next /\ th'[u].new \in Blocks
    <3>1. CASE u = t
      <4>1. th'[u].pc = "faa" /\ th'[u].b = mq.tail
        BY <1>1, <3>1, PcsApart
      <4> QED BY <4>1, <2>1 DEF Succ
    <3>2. CASE u # t
      <4>1. th'[u] = th[u]
        BY <1>1, <3>2 DEF QThreads
      <4> QED BY <4>1 DEF PushersBehind, Succ
    <3> QED BY <3>1, <3>2
  <2> QED BY <2>4 DEF PushersBehind, Succ
<1>10. PoppersAhead'
  <2>1. ASSUME NEW u \in Consumers
        PROVE  /\ th'[u].pc \in InBlock => th'[u].b = mq.head \/ blk[th'[u].b].next # NoBlock
               /\ th'[u].pc \in InBlock /\ th'[u].again => blk[th'[u].b].next # NoBlock
               /\ th'[u].pc = "leave" => th'[u].again
    <3>1. CASE u = t
      <4>1. th'[u].pc = "take" /\ th'[u].b = mq.head /\ ~th'[u].again
        BY <1>1, <3>1, PcsApart
      <4> QED BY <4>1
    <3>2. CASE u # t
      <4>1. th'[u] = th[u]
        BY <1>1, <3>2 DEF QThreads
      <4> QED BY <4>1 DEF PoppersAhead, Succ
    <3> QED BY <3>1, <3>2
  <2> QED BY <2>1 DEF PoppersAhead, Succ
<1> QED BY <1>5, <1>7, <1>8, <1>9, <1>10

\* mq_tail moves on to the last block.
LEMMA TailMoves ==
  ASSUME QueueShape, ListInv, NEW t \in Producers, th[t].pc \in {"faa", "swing"},
         th[t].b = mq.tail, Succ(mq.tail) # NoBlock,
         mq' = [mq EXCEPT !.tail = Succ(mq.tail)], UNCHANGED <<blk, hp>>,
         NEW T2 \in ThreadRecords, th' = [th EXCEPT ![t] = T2], T2.pc \in {"push", "post"}
  PROVE  ListInv'
<1>. USE DEF ListInv
<1>1. th'[t] = T2 /\ t \in QThreads /\ \A u \in QThreads : u # t => th'[u] = th[u]
  BY DEF QueueShape, QThreads
<1>2. \A b : Private(b)' <=> Private(b)
  BY <1>1 DEF Private, QThreads
<1>3. Shared' = Shared /\ Dead' = Dead
  BY <1>2 DEF Shared, Dead
<1>4. \A b \in Blocks : Succ(b)' = Succ(b)
  BY DEF Succ
<1>5. /\ mq'.head = mq.head /\ mq'.tail = Succ(mq.tail) /\ mq.tail \in Blocks
      /\ Succ(mq.tail) \in Shared /\ Succ(mq.tail) \in Blocks /\ Succ(Succ(mq.tail)) = NoBlock
  BY DEF QueueShape, TailNear, Shared
<1>6. Succ(mq.tail)' = NoBlock
  BY <1>4, <1>5 DEF Succ
<1>7. Chained'
  <2>1. PICK q \in Seq(Blocks) : IsChain(q)
    BY DEF Chained
  <2>2. \A i \in 1 .. Len(q) : q[i] \in Blocks
    BY <2>1
  <2>3. IsChain(q)'
    BY <2>1, <2>2, <1>3, <1>4, <1>5 DEF IsChain
  <2> QED BY <2>3 DEF Chained
<1>8. TailNear'
  <2>1. \A b \in Shared : Succ(b)' = NoBlock => b = Succ(mq.tail)
    BY <1>4, <1>5 DEF TailNear, Shared
  <2> QED BY <2>1, <1>3, <1>5, <1>6 DEF TailNear
<1>9. Guarded'
  BY <1>1, <1>3 DEF Guarded, InBlock
<1>10. Prepared'
  BY <1>1 DEF Prepared, Succ, QThreads
<1>11. PushersBehind'
  <2>1. \A u \in QThreads : th[u].pc \in InBlock => th[u].b # NoBlock
    BY InBlockBlocks
  <2> QED BY <1>1, <1>6, <2>1 DEF PushersBehind, QThreads, Succ, InBlock
<1>12. PoppersAhead'
  BY <1>1, <1>5, PcsApart DEF PoppersAhead, QThreads, Succ
<1>13. DeadLinked'
  BY <1>3 DEF DeadLinked, Succ
<1> QED BY <1>7, <1>8, <1>9, <1>10, <1>11, <1>12, <1>13

\* A producer leaves its block and nothing else changes; it is not the one that
\* would move mq_tail on.
LEMMA PusherGoes ==
  ASSUME QueueShape, ListInv, NEW t \in Producers, th[t].pc \in {"faa", "swing"},
         th[t].pc = "swing" => th[t].b # mq.tail, UNCHANGED <<blk, mq, hp>>,
         NEW T2 \in ThreadRecords, th' = [th EXCEPT ![t] = T2], T2.pc \in {"push", "post"}
  PROVE  ListInv'
<1>. USE DEF ListInv
<1>1. th'[t] = T2 /\ t \in QThreads /\ \A u \in QThreads : u # t => th'[u] = th[u]
  BY DEF QueueShape, QThreads
<1>2. \A b : Private(b)' <=> Private(b)
  BY <1>1 DEF Private, QThreads
<1>3. Shared' = Shared /\ Dead' = Dead
  BY <1>2 DEF Shared, Dead
<1>4. \A b \in Blocks : Succ(b)' = Succ(b)
  BY DEF Succ
<1>5. Chained' /\ DeadLinked' /\ Succ(mq.tail)' = Succ(mq.tail) /\ TailNear'
  <2>1. \A u \in Producers : th[u].pc = "swing" /\ th[u].b = mq.tail =>
               th'[u].pc = "swing" /\ th'[u].b = mq.tail /\ th'[u].new = th[u].new
    BY <1>1 DEF QThreads
  <2> QED BY <1>3, <1>4, <2>1, KeptList
<1>9. Guarded'
  BY <1>1, <1>3 DEF Guarded, InBlock
<1>10. Prepared'
  BY <1>1 DEF Prepared, Succ, QThreads
<1>11. PushersBehind'
  BY <1>1, <1>5 DEF PushersBehind, QThreads, Succ, InBlock
<1>12. PoppersAhead'
  BY <1>1, PcsApart DEF PoppersAhead, QThreads, Succ
<1> QED BY <1>5, <1>9, <1>10, <1>11, <1>12

LEMMA SwingList ==
  ASSUME QueueShape, ListInv, NEW t \in Producers, PushSwing(t)
  PROVE  ListInv'
<1>. DEFINE T2 == [th[t] EXCEPT !.pc = "post"]
<1>1. th[t].pc = "swing" /\ th' = [th EXCEPT ![t] = T2] /\ UNCHANGED <<blk, hp>>
  BY DEF PushSwing, GoTo, QueueShape, QThreads
<1>2. T2 \in ThreadRecords /\ T2.pc = "post"
  BY DEF QueueShape, QThreads, ThreadRecords, PushPcs
<1>3. CASE mq.tail = th[t].b
  <2>1. th[t].new = Succ(mq.tail) /\ Succ(mq.tail) # NoBlock
    BY <1>1, <1>3, QueueAssumption DEF ListInv, PushersBehind
  <2>2. mq' = [mq EXCEPT !.tail = Succ(mq.tail)]
    BY <1>3, <2>1 DEF PushSwing
  <2> QED BY <1>1, <1>2, <1>3, <2>1, <2>2, TailMoves
<1>4. CASE mq.tail # th[t].b
  <2>1. mq' = mq
    BY <1>4 DEF PushSwing
  <2> QED BY <1>1, <1>2, <1>4, <2>1, PusherGoes
<1> QED BY <1>3, <1>4

LEMMA ClaimList ==
  ASSUME QueueShape, ListInv, NEW t \in Producers, PushClaim(t)
  PROVE  ListInv'
<1>0. th[t].pc = "faa" /\ UNCHANGED hp /\ t \in QThreads
  BY DEF PushClaim, QThreads
<1>a. th[t].b \in Blocks /\ B(t) \in BlockRecords /\ B(t).next = Succ(th[t].b)
  BY <1>0, InBlockBlocks DEF ListInv, B, Succ, QueueShape, InBlock
<1>1. CASE B(t).next # NoBlock /\ th[t].it = 0
  <2>. DEFINE T2 == [th[t] EXCEPT !.pc = "push"]
  <2>1. th' = [th EXCEPT ![t] = T2] /\ UNCHANGED blk
    BY <1>1 DEF PushClaim, GoTo, QueueShape, QThreads
  <2>2. T2 \in ThreadRecords /\ T2.pc = "push"
    BY SMTT(40) DEF QueueShape, QThreads, ThreadRecords, PushPcs
  <2>3. CASE mq.tail = th[t].b
    <3>1. mq' = [mq EXCEPT !.tail = Succ(mq.tail)] /\ Succ(mq.tail) # NoBlock
      BY <1>1, <1>a, <2>3 DEF PushClaim
    <3> QED BY <1>0, <2>1, <2>2, <2>3, <3>1, TailMoves
  <2>4. CASE mq.tail # th[t].b
    <3>1. mq' = mq
      BY <1>1, <2>4 DEF PushClaim
    <3> QED BY <1>0, <2>1, <2>2, <3>1, PusherGoes
  <2> QED BY <2>3, <2>4
<1>2. CASE ~(B(t).next # NoBlock /\ th[t].it = 0)
  <2>1. PICK p \in {"alloc", "node"} :
          th' = [th EXCEPT ![t] = [th[t] EXCEPT !.i = B(t).tail, !.pc = p]]
    BY <1>2 DEF PushClaim, QueueShape, QThreads
  <2>2. UNCHANGED mq
    BY <1>2 DEF PushClaim
  <2>3. SameList
    <3>1. blk' = [blk EXCEPT ![th[t].b] = [B(t) EXCEPT !.tail = B(t).tail + 1]]
      BY <1>2, <1>a DEF PushClaim, B
    <3>2. \A c \in Blocks : blk'[c].next = blk[c].next /\ blk'[c].state = blk[c].state
      BY <3>1, <1>a, BlockSame DEF B, BlockRecords
    <3> QED BY <3>2, <2>2 DEF SameList
  <2>4. PushKeeps(t)
    BY <2>1, <1>0 DEF PushKeeps, InBlock, ThreadRecords, QueueShape
  <2> QED BY <1>0, <2>1, <2>3, <2>4, QuietPush
<1> QED BY <1>1, <1>2

\* A block is taken that is in nobody's hands: the hazard pointers are why.
LEMMA AllocList ==
  ASSUME QueueShape, ListInv, NEW t \in Producers, PushAlloc(t)
  PROVE  ListInv'
<1>. USE DEF ListInv
<1>0. th[t].pc = "alloc" /\ UNCHANGED <<mq, hp>> /\ t \in QThreads /\ th[t] \in ThreadRecords
  BY DEF PushAlloc, QThreads, QueueShape
<1>1. PICK b \in Blocks :
        /\ \/ blk[b].state = "garbage" /\ ~Hazard(t, b) /\ hp[t] # b
           \/ blk[b].state \in {"prepared", "free"}
        /\ blk' = [blk EXCEPT ![b] = NewBlock(Val(t))]
        /\ th' = [th EXCEPT ![t].new = b, ![t].pc = "link"]
  BY DEF PushAlloc
<1>2. /\ th'[t] = [th[t] EXCEPT !.new = b, !.pc = "link"]
      /\ th'[t].pc = "link" /\ th'[t].new = b /\ th'[t].b = th[t].b
      /\ \A u \in QThreads : u # t => th'[u] = th[u]
  BY <1>0, <1>1 DEF QueueShape, ThreadRecords
<1>3. /\ \A c \in Blocks : c # b => blk'[c] = blk[c]
      /\ blk'[b].state = "used" /\ blk'[b].next = NoBlock
  BY <1>1 DEF QueueShape, NewBlock
<1>4. \A u \in QThreads : th[u].pc \in InBlock => th[u].b # b
  <2>1. ASSUME NEW u \in QThreads, th[u].pc \in InBlock, th[u].b = b PROVE FALSE
    <3>1. b \in Dead /\ hp[u] = b
      BY <2>1, <1>1, InBlockBlocks DEF Shared, Dead
    <3>2. blk[b].state = "garbage" /\ ~Hazard(t, b) /\ hp[t] # b
      BY <3>1, <1>1 DEF Dead
    <3> QED BY <3>1, <3>2, <2>1 DEF Hazard
  <2> QED BY <2>1
<1>5. mq.tail # b /\ b \notin Shared
  <2>1. b \notin Shared
    BY <1>1 DEF Shared
  <2>2. ASSUME mq.tail = b PROVE FALSE
    <3>1. mq.tail \in Dead
      BY <2>1, <2>2 DEF TailNear
    <3>2. PICK u \in Producers : th[u].pc = "swing" /\ th[u].b = mq.tail
      BY <3>1 DEF DeadLinked, TailNear
    <3> QED BY <1>4, <2>2, <3>2 DEF QThreads, InBlock
  <2> QED BY <2>1, <2>2
<1>6. \A c \in Blocks : c # b => (Private(c)' <=> Private(c))
  BY <1>0, <1>2 DEF Private, QThreads
<1>7. Private(b)' /\ \A c \in Blocks : Private(c) => c # b
  <2>1. Private(b)'
    BY <1>2 DEF Private
  <2> QED BY <2>1, <1>1 DEF Private, Prepared
<1>8. Shared' = Shared /\ Dead' = Dead \ {b}
  BY <1>3, <1>5, <1>6, <1>7 DEF Shared, Dead
<1>9. \A c \in Blocks : c # b => Succ(c)' = Succ(c)
  BY <1>3 DEF Succ
<1>10. Succ(mq.tail)' = Succ(mq.tail) /\ mq.tail \in Blocks /\ mq.head \in Blocks
  BY <1>0, <1>5, <1>9 DEF QueueShape, Succ
<1>11. Chained'
  <2>1. PICK q \in Seq(Blocks) : IsChain(q)
    BY DEF Chained
  <2>2. \A i \in 1 .. Len(q) : q[i] \in Blocks /\ q[i] \in Shared
    BY <2>1 DEF IsChain
  <2>3. IsChain(q)'
    BY <2>1, <2>2, <1>0, <1>5, <1>8, <1>9 DEF IsChain
  <2> QED BY <2>3 DEF Chained
<1>12. TailNear'
  <2>1. (mq.tail \in Shared \/ (mq.tail \in Dead /\ Succ(mq.tail) = mq.head))'
    BY <1>0, <1>5, <1>8, <1>10 DEF TailNear
  <2>2. ASSUME Succ(mq.tail) # NoBlock
        PROVE  /\ Succ(mq.tail) \in Shared /\ Succ(mq.tail) # mq.tail
               /\ Succ(Succ(mq.tail))' = NoBlock
               /\ \E u \in Producers : /\ th'[u].pc = "swing" /\ th'[u].b = mq.tail
                                       /\ th'[u].new = Succ(mq.tail)
    <3>1. Succ(mq.tail) \in Shared /\ Succ(mq.tail) \in Blocks
      BY <2>2 DEF TailNear, Shared
    <3>2. Succ(Succ(mq.tail))' = Succ(Succ(mq.tail))
      BY <3>1, <1>5, <1>9, <1>10 DEF Succ
    <3>3. PICK u \in Producers : th[u].pc = "swing" /\ th[u].b = mq.tail /\ th[u].new = Succ(mq.tail)
      BY <2>2 DEF TailNear
    <3>4. th'[u] = th[u]
      BY <3>3, <1>0, <1>2 DEF QThreads
    <3> QED BY <2>2, <3>1, <3>2, <3>3, <3>4 DEF TailNear
  <2>3. \A c \in Shared : Succ(c)' = NoBlock => c = mq.tail \/ c = Succ(mq.tail)
    BY <1>5, <1>9 DEF TailNear, Shared
  <2> QED BY <2>1, <2>2, <2>3, <1>0, <1>8, <1>10 DEF TailNear
<1>13. Guarded'
  BY ZenonT(40), <1>0, <1>2, <1>4, <1>8 DEF Guarded, InBlock
<1>14. Prepared'
  <2>1. \A u \in Producers : u # t => th'[u] = th[u]
    BY <1>2 DEF QThreads
  <2>2. \A u \in Producers : th[u].pc = "link" => th[u].new # b /\ th[u].new \in Blocks
    BY <1>1 DEF Prepared
  <2>3. ASSUME NEW u \in Producers, th'[u].pc = "link"
        PROVE  /\ th'[u].new \in Blocks /\ blk'[th'[u].new].state = "used"
               /\ blk'[th'[u].new].next = NoBlock
               /\ \A v \in Producers : th'[v].pc = "link" /\ th'[v].new = th'[u].new => v = u
    <3>1. CASE u = t
      BY ZenonT(40), <1>2, <1>3, <2>1, <2>2, <3>1
    <3>2. CASE u # t
      <4>1. th'[u] = th[u] /\ th[u].new # b /\ th[u].new \in Blocks
        BY <2>1, <2>2, <2>3, <3>2
      <4>2. blk'[th[u].new] = blk[th[u].new]
        BY <1>3, <4>1
      <4>3. \A v \in Producers : th'[v].pc = "link" /\ th'[v].new = th[u].new => v = u
        <5>1. \A v \in Producers : v # t => th'[v] = th[v]
          BY <2>1
        <5>2. th'[t].new # th[u].new /\ th[u].pc = "link"
          BY <1>2, <2>3, <4>1
        <5> QED BY <5>1, <5>2 DEF Prepared
      <4> QED BY <2>3, <4>1, <4>2, <4>3 DEF Prepared, Succ
    <3> QED BY <3>1, <3>2
  <2> QED BY <2>3 DEF Prepared, Succ
<1>15. PushersBehind'
  <2>1. \A u \in Producers : th[u].pc = "swing" => th[u].b \in Blocks /\ th[u].b # b
    BY <1>4, InBlockBlocks DEF InBlock, QThreads
  <2>2. \A u \in Producers : u # t => th'[u] = th[u]
    BY <1>2 DEF QThreads
  <2>3. Succ(mq.tail)' = Succ(mq.tail) /\ "alloc" \in InBlock
    BY <1>10 DEF InBlock
  <2>4. ASSUME NEW u \in Producers
        PROVE  /\ th'[u].pc \in InBlock => th'[u].b # Succ(mq.tail)
               /\ th'[u].pc = "swing" => th'[u].new = blk'[th'[u].b].next /\ th'[u].new \in Blocks
    <3>1. CASE u = t
      BY <1>0, <1>2, <2>3, <3>1 DEF PushersBehind
    <3>2. CASE u # t
      <4>1. th'[u] = th[u]
        BY <2>2, <3>2
      <4>2. th[u].pc = "swing" => blk'[th[u].b].next = blk[th[u].b].next
        BY <1>3, <2>1
      <4> QED BY <4>1, <4>2 DEF PushersBehind, Succ
    <3> QED BY <3>1, <3>2
  <2> QED BY <2>3, <2>4 DEF PushersBehind, Succ
<1>16. PoppersAhead'
  <2>1. \A u \in Consumers : th'[u] = th[u] /\ (th[u].pc \in InBlock => th[u].b \in Blocks /\ th[u].b # b)
    BY <1>2, <1>4, PcsApart, InBlockBlocks DEF QThreads
  <2> QED BY <1>0, <1>9, <2>1 DEF PoppersAhead, Succ
<1>17. DeadLinked'
  BY <1>8, <1>9 DEF DeadLinked, Dead
<1> QED BY <1>11, <1>12, <1>13, <1>14, <1>15, <1>16, <1>17

LEMMA LinkList ==
  ASSUME QueueShape, ListInv, NEW t \in Producers, PushLink(t)
  PROVE  ListInv'
<1>. USE DEF ListInv
<1>. PICK n, b : n = th[t].new /\ b = th[t].b
  OBVIOUS
<1>0. th[t].pc = "link" /\ UNCHANGED <<mq, hp>> /\ t \in QThreads /\ th[t] \in ThreadRecords
  BY DEF PushLink, QThreads, QueueShape
<1>1. /\ n \in Blocks /\ blk[n].state = "used" /\ Succ(n) = NoBlock /\ Private(n)
      /\ n \notin Shared /\ n \notin Dead
      /\ \A u \in Producers : th[u].pc = "link" /\ th[u].new = n => u = t
  BY <1>0 DEF Prepared, Private, Shared, Dead
<1>2. b \in Blocks /\ b \in Shared \cup Dead /\ B(t).next = Succ(b) /\ b # n
  BY <1>0, <1>1, InBlockBlocks DEF InBlock, B, Succ
<1>3. mq.tail \in Blocks /\ mq.head \in Blocks /\ mq.tail \in Shared \cup Dead
  BY DEF QueueShape, TailNear
<1>4. \A u \in QThreads : th[u].pc \in InBlock => th[u].b \in Blocks /\ th[u].b # n /\ th[u].b # NoBlock
  BY <1>1, InBlockBlocks
<1>5. CASE Succ(b) = NoBlock
  <2>1. blk' = [blk EXCEPT ![b] = [blk[b] EXCEPT !.next = n]] /\ th' = [th EXCEPT ![t] = [th[t] EXCEPT !.pc = "swing"]]
    BY <1>0, <1>2, <1>5 DEF PushLink, GoTo, QueueShape
  <2>2. /\ th'[t].pc = "swing" /\ th'[t].b = b /\ th'[t].new = n
        /\ \A u \in QThreads : u # t => th'[u] = th[u]
    BY <2>1, <1>0 DEF QueueShape, ThreadRecords
  <2>3. /\ \A c \in Blocks : blk'[c].state = blk[c].state
        /\ \A c \in Blocks : c # b => Succ(c)' = Succ(c)
        /\ Succ(b)' = n
    BY <2>1, <1>2 DEF QueueShape, Succ, BlockRecords
  <2>4. b = mq.tail /\ Succ(mq.tail) = NoBlock
    <3>1. b \in Shared
      BY <1>2, <1>5 DEF DeadLinked
    <3> QED BY <3>1, <1>0, <1>5 DEF TailNear, PushersBehind, InBlock
  <2>5. \A c \in Blocks : Private(c)' <=> Private(c) /\ c # n
    BY <1>0, <1>1, <2>2 DEF Private, QThreads
  <2>6. Shared' = Shared \cup {n} /\ Dead' = Dead
    BY <1>1, <2>3, <2>5 DEF Shared, Dead
  <2>7. Succ(mq.tail)' = n /\ n # NoBlock
    BY <1>0, <1>1, <2>3, <2>4, QueueAssumption DEF Succ
  <2>8. Chained'
    <3>1. PICK q \in Seq(Blocks) : IsChain(q)
      BY DEF Chained
    <3>2. b \in Shared
      BY <1>2, <1>5 DEF DeadLinked
    <3>3. PICK k \in 1 .. Len(q) : q[k] = b
      BY <1>2, <3>1, <3>2 DEF IsChain
    <3>4. k = Len(q)
      BY <3>1, <3>3, <1>5, QueueAssumption DEF IsChain
    <3>. DEFINE r == Append(q, n)
    <3>5. /\ r \in Seq(Blocks) /\ r # <<>> /\ Len(r) = Len(q) + 1 /\ r[Len(r)] = n
          /\ \A i \in 1 .. Len(q) : r[i] = q[i]
      BY <1>1, <3>1
    <3>6. \A i \in 1 .. Len(q) : q[i] \in Shared /\ q[i] # n /\ q[i] \in Blocks
      BY <3>1, <1>1 DEF IsChain
    <3>. HIDE DEF r
    <3>7. r[1] = mq'.head
      BY <3>1, <3>5, <1>0 DEF IsChain
    <3>8. \A i, j \in 1 .. Len(r) : r[i] = r[j] => i = j
      <4>1. \A i, j \in 1 .. Len(q) : q[i] = q[j] => i = j
        BY <3>1 DEF IsChain
      <4> QED BY <3>5, <3>6, <4>1
    <3>9. \A c \in Blocks : c \in Shared' <=> \E i \in 1 .. Len(r) : r[i] = c
      <4>1. \A c \in Blocks : c \in Shared <=> \E i \in 1 .. Len(q) : q[i] = c
        BY <3>1 DEF IsChain
      <4>2. Len(r) \in 1 .. Len(r) /\ \A i \in 1 .. Len(q) : i \in 1 .. Len(r)
        BY <3>5
      <4>3. ASSUME NEW c \in Blocks, c \in Shared' PROVE \E i \in 1 .. Len(r) : r[i] = c
        BY <4>1, <4>2, <4>3, <2>6, <3>5
      <4>4. ASSUME NEW c \in Blocks, NEW i \in 1 .. Len(r), r[i] = c PROVE c \in Shared'
        BY <4>4, <2>6, <3>5, <3>6
      <4> QED BY <4>3, <4>4
    <3>10. \A i \in 1 .. Len(r) : Succ(r[i])' = IF i = Len(r) THEN NoBlock ELSE r[i + 1]
      <4>1. ASSUME NEW i \in 1 .. Len(r) PROVE Succ(r[i])' = IF i = Len(r) THEN NoBlock ELSE r[i + 1]
        <5>1. CASE i = Len(r)
          <6>1. Succ(n)' = NoBlock
            BY <1>1, <1>2, <2>3
          <6> QED BY <5>1, <6>1, <3>5 DEF Succ
        <5>2. CASE i = Len(q)
          <6>1. r[i] = b /\ r[i + 1] = n /\ i # Len(r)
            BY <5>2, <3>3, <3>4, <3>5
          <6> QED BY <6>1, <2>3 DEF Succ
        <5>3. CASE i # Len(r) /\ i # Len(q)
          <6>1. i \in 1 .. Len(q) /\ i + 1 \in 1 .. Len(q) /\ q[i] # b
            BY <5>3, <3>1, <3>3, <3>4, <3>5 DEF IsChain
          <6>2. Succ(q[i])' = q[i + 1]
            BY <6>1, <5>3, <3>1, <3>6, <2>3 DEF IsChain
          <6> QED BY <5>3, <6>1, <6>2, <3>5 DEF Succ
        <5> QED BY <5>1, <5>2, <5>3
      <4> QED BY <4>1
    <3> QED BY <3>5, <3>7, <3>8, <3>9, <3>10 DEF Chained, IsChain
  <2>9. TailNear'
    <3>1. (mq.tail \in Shared \/ (mq.tail \in Dead /\ Succ(mq.tail) = mq.head))'
      BY <1>0, <1>2, <1>5, <2>4, <2>6 DEF DeadLinked
    <3>2. n \in Shared' /\ n # mq.tail /\ Succ(n)' = NoBlock
      BY <1>1, <1>2, <2>3, <2>4, <2>6
    <3>3. \A c \in Shared' : Succ(c)' = NoBlock => c = n
      <4>1. \A c \in Shared : Succ(c) = NoBlock => c = b
        BY <2>4, QueueAssumption DEF TailNear, Shared
      <4>2. \A c \in Shared : c \in Blocks
        BY DEF Shared
      <4> QED BY <2>3, <2>4, <2>6, <2>7, <4>1, <4>2
    <3>4. Succ(Succ(mq.tail))' = NoBlock
      BY <3>2, <2>7 DEF Succ
    <3>5. th'[t].pc = "swing" /\ th'[t].b = mq'.tail /\ th'[t].new = Succ(mq.tail)'
      BY <1>0, <2>2, <2>4, <2>7
    <3> QED BY <1>0, <3>1, <3>2, <3>3, <3>4, <3>5, <2>7 DEF TailNear
  <2>10. Guarded'
    BY <1>0, <2>2, <2>6 DEF Guarded, InBlock
  <2>11. Prepared'
    <3>1. \A u \in Producers : th'[u].pc = "link" => u # t /\ th'[u] = th[u] /\ th[u].pc = "link"
      BY <2>2 DEF QThreads
    <3>2. \A u \in Producers : th[u].pc = "link" => th[u].new \in Blocks /\ th[u].new # b
      <4>1. \A u \in Producers : th[u].pc = "link" => th[u].new \in Blocks /\ th[u].new \notin Shared /\ th[u].new \notin Dead
        BY DEF Prepared, Private, Shared, Dead
      <4> QED BY <4>1, <1>2
    <3> QED BY <3>1, <3>2, <2>3 DEF Prepared
  <2>12. PushersBehind'
    <3>1. ASSUME NEW u \in Producers, th'[u].pc \in InBlock
          PROVE  th'[u].b # n
      BY <3>1, <1>0, <1>2, <1>4, <2>2 DEF QThreads, InBlock
    <3>2. ASSUME NEW u \in Producers, th'[u].pc = "swing"
          PROVE  th'[u].new = blk'[th'[u].b].next /\ th'[u].new \in Blocks
      <4>1. CASE u = t
        BY <4>1, <2>2, <2>3, <1>1 DEF Succ
      <4>2. CASE u # t
        <5>1. th'[u] = th[u] /\ th[u].pc = "swing" /\ th[u].b \in Blocks
          BY <3>2, <4>2, <2>2, <1>4 DEF QThreads, InBlock
        <5>2. th[u].new = Succ(th[u].b) /\ th[u].new \in Blocks
          BY <5>1 DEF PushersBehind
        <5>3. th[u].b # b
          BY <5>2, <1>5, QueueAssumption
        <5> QED BY <5>1, <5>2, <5>3, <2>3 DEF Succ
      <4> QED BY <4>1, <4>2
    <3> QED BY <2>7, <3>1, <3>2 DEF PushersBehind, Succ
  <2>13. PoppersAhead'
    <3>1. \A u \in Consumers : th'[u] = th[u] /\ (th[u].pc \in InBlock => th[u].b \in Blocks)
      BY <2>2, <1>4, PcsApart DEF QThreads
    <3>2. \A c \in Blocks : Succ(c) # NoBlock => Succ(c)' # NoBlock
      BY <2>3, <1>5
    <3> QED BY <1>0, <3>1, <3>2 DEF PoppersAhead, Succ
  <2>14. DeadLinked'
    BY <1>5, <2>3, <2>6 DEF DeadLinked, Dead
  <2> QED BY <2>8, <2>9, <2>10, <2>11, <2>12, <2>13, <2>14
<1>6. CASE Succ(b) # NoBlock
  <2>1. blk' = [blk EXCEPT ![n] = [blk[n] EXCEPT !.state = "prepared"]]
        /\ th' = [th EXCEPT ![t] = [th[t] EXCEPT !.pc = "push", !.new = NoBlock]]
    BY <1>0, <1>1, <1>2, <1>6 DEF PushLink, QueueShape
  <2>2. /\ th'[t].pc = "push" /\ th'[t].new = NoBlock
        /\ \A u \in QThreads : u # t => th'[u] = th[u]
    BY <2>1, <1>0 DEF QueueShape, ThreadRecords
  <2>3. /\ \A c \in Blocks : c # n => blk'[c] = blk[c]
        /\ \A c \in Blocks : Succ(c)' = Succ(c)
        /\ blk'[n].state = "prepared"
    BY <2>1, <1>1 DEF QueueShape, Succ, BlockRecords
  <2>4. \A c \in Blocks : c # n => (Private(c)' <=> Private(c))
    BY <1>0, <2>2 DEF Private, QThreads
  <2>5. Shared' = Shared /\ Dead' = Dead
    BY <1>1, <2>3, <2>4 DEF Shared, Dead
  <2>6. Chained' /\ DeadLinked' /\ Succ(mq.tail)' = Succ(mq.tail) /\ TailNear'
    <3>1. \A u \in Producers : th[u].pc = "swing" /\ th[u].b = mq.tail =>
                 th'[u].pc = "swing" /\ th'[u].b = mq.tail /\ th'[u].new = th[u].new
      BY <1>0, <2>2 DEF QThreads
    <3>2. mq'.head = mq.head /\ mq'.tail = mq.tail
      BY <1>0
    <3> QED BY <2>3, <2>5, <3>1, <3>2, KeptList
  <2>7. Guarded'
    BY <1>0, <2>2, <2>5 DEF Guarded, InBlock
  <2>8. Prepared'
    <3>1. \A u \in Producers : th'[u].pc = "link" => u # t /\ th'[u] = th[u] /\ th[u].new # n
      BY <1>1, <2>2 DEF QThreads
    <3> QED BY <2>3, <3>1 DEF Prepared
  <2>9. PushersBehind'
    <3>1. \A u \in Producers : th'[u].pc \in InBlock => u # t /\ th'[u] = th[u] /\ th[u].b \in Blocks
      BY <2>2, <1>4 DEF QThreads, InBlock
    <3>2. "swing" \in InBlock
      BY DEF InBlock
    <3> QED BY <2>3, <2>6, <3>1, <3>2 DEF PushersBehind, Succ
  <2>10. PoppersAhead'
    <3>1. \A u \in Consumers : th'[u] = th[u] /\ (th[u].pc \in InBlock => th[u].b \in Blocks)
      BY <2>2, <1>4, PcsApart DEF QThreads
    <3> QED BY <1>0, <2>3, <3>1 DEF PoppersAhead, Succ
  <2> QED BY <2>6, <2>7, <2>8, <2>9, <2>10
<1> QED BY <1>5, <1>6

\* mq_head leaves a block with a next one; whoever is in it has it protected.
LEMMA LeaveList ==
  ASSUME QueueShape, ListInv, NEW t \in Consumers, PopLeave(t)
  PROVE  ListInv' /\ (mq.head = th[t].b => B(t).next \in Blocks)
<1>. USE DEF ListInv
<1>. DEFINE b == th[t].b
<1>0. /\ th[t].pc = "leave" /\ UNCHANGED hp /\ t \in QThreads /\ t \notin Producers
      /\ th[t] \in ThreadRecords
  BY PcsApart DEF PopLeave, QThreads, QueueShape
<1>1. b \in Blocks /\ hp[t] = b /\ B(t).next = Succ(b) /\ Succ(b) # NoBlock
  BY <1>0, InBlockBlocks DEF InBlock, B, Succ, PoppersAhead
<1>2. th' = [th EXCEPT ![t] = [th[t] EXCEPT !.pc = "pop"]]
  BY <1>0 DEF PopLeave, GoTo, QueueShape
<1>3. th'[t].pc = "pop" /\ \A u \in QThreads : u # t => th'[u] = th[u]
  BY <1>0, <1>2 DEF QueueShape, ThreadRecords
<1>4. CASE mq.head # b
  <2>1. SameList
    BY <1>4 DEF PopLeave, SameList
  <2>2. PopKeeps(t)
    BY <1>3 DEF PopKeeps, InBlock
  <2>3. ListInv'
    BY <1>0, <1>2, <2>1, <2>2, QuietPop
  <2> QED BY <1>4, <2>3
<1>5. CASE mq.head = b
  <2>1. /\ mq' = [mq EXCEPT !.head = Succ(b)]
        /\ blk' = [blk EXCEPT ![b] = [blk[b] EXCEPT !.state = IF Hazard(t, b) THEN "garbage" ELSE "free"]]
    BY <1>1, <1>5 DEF PopLeave, QueueShape
  <2>2. /\ \A c \in Blocks : Succ(c)' = Succ(c)
        /\ \A c \in Blocks : c # b => blk'[c].state = blk[c].state
        /\ blk'[b].state = IF Hazard(t, b) THEN "garbage" ELSE "free"
        /\ mq'.head = Succ(b) /\ mq'.tail = mq.tail /\ mq.tail \in Blocks
    BY <1>1, <2>1 DEF QueueShape, Succ, BlockRecords
  <2>3. \A c : Private(c)' <=> Private(c)
    BY <1>0, <1>3 DEF Private, QThreads
  <2>4. Shared' = Shared \ {b} /\ Dead' = IF Hazard(t, b) THEN Dead \cup {b} ELSE Dead \ {b}
    BY <1>1, <2>2, <2>3 DEF Shared, Dead
  <2>5. PICK q \in Seq(Blocks) : IsChain(q)
    BY DEF Chained
  <2>6. q[1] = b /\ b \in Shared /\ Len(q) > 1 /\ Succ(b) = q[2] /\ Succ(b) \in Blocks /\ b \notin Dead
    <3>1. Len(q) \in Nat /\ Len(q) # 0 /\ q[1] = b
      BY <2>5, <1>5 DEF IsChain
    <3>2. 1 \in 1 .. Len(q) /\ b \in Shared
      BY <3>1, <2>5, <1>1 DEF IsChain
    <3>3. Len(q) # 1
      BY <3>1, <3>2, <2>5, <1>1 DEF IsChain
    <3>4. Succ(q[1]) = q[2] /\ 2 \in 1 .. Len(q)
      <4>1. 2 \in 1 .. Len(q)
        <5>1. \A l \in Nat : l # 0 /\ l # 1 => 2 \in 1 .. l
          OBVIOUS
        <5> QED BY <3>1, <3>3, <5>1
      <4>2. Succ(q[1]) = IF 1 = Len(q) THEN NoBlock ELSE q[1 + 1]
        BY <3>2, <2>5 DEF IsChain
      <4> QED BY <3>3, <4>1, <4>2
    <3>5. b \notin Dead
      BY <3>2 DEF Shared, Dead
    <3> QED BY <3>1, <3>2, <3>3, <3>4, <3>5, <2>5
  <2>7. Succ(mq.tail) # b
    BY <1>1, <2>6, QueueAssumption DEF TailNear
  <2>8. Chained'
    <3>. DEFINE r == Tail(q)
    <3>1. /\ r \in Seq(Blocks) /\ r # <<>> /\ Len(r) = Len(q) - 1 /\ Len(q) \in Nat
          /\ \A i \in 1 .. Len(r) : r[i] = q[i + 1]
      <4>1. q \in Seq(Blocks) /\ Len(q) \in Nat /\ Len(q) > 1 /\ q # <<>>
        BY <2>5, <2>6 DEF IsChain
      <4>2. Len(r) = Len(q) - 1 /\ r \in Seq(Blocks)
        BY <4>1
      <4>3. r # <<>>
        <5>1. Len(r) # 0
          BY <4>1, <4>2
        <5>. HIDE DEF r
        <5> QED BY <5>1
      <4>4. \A i \in 1 .. Len(r) : r[i] = q[i + 1]
        BY <4>1, <4>2
      <4> QED BY <4>1, <4>2, <4>3, <4>4
    <3>. HIDE DEF r
    <3>2. r[1] = mq'.head
      BY <2>2, <2>6, <3>1
    <3>3. \A i, j \in 1 .. Len(r) : r[i] = r[j] => i = j
      <4>1. ASSUME NEW i \in 1 .. Len(r), NEW j \in 1 .. Len(r), r[i] = r[j] PROVE i = j
        <5>1. i + 1 \in 1 .. Len(q) /\ j + 1 \in 1 .. Len(q) /\ q[i + 1] = q[j + 1]
          BY <3>1, <4>1
        <5>2. i + 1 = j + 1
          BY <5>1, <2>5 DEF IsChain
        <5> QED BY <5>2
      <4> QED BY <4>1
    <3>4. ASSUME NEW c \in Blocks PROVE c \in Shared' <=> \E i \in 1 .. Len(r) : r[i] = c
      <4>1. ASSUME c \in Shared' PROVE \E i \in 1 .. Len(r) : r[i] = c
        <5>1. c \in Shared /\ c # b
          BY <4>1, <2>4
        <5>2. PICK i \in 1 .. Len(q) : q[i] = c
          BY <5>1, <2>5 DEF IsChain
        <5>3. i - 1 \in 1 .. Len(r) /\ r[i - 1] = c
          <6>1. i # 1
            BY <5>1, <5>2, <2>6
          <6>2. i - 1 \in 1 .. Len(r) /\ (i - 1) + 1 = i
            BY <6>1, <3>1
          <6> QED BY <6>2, <5>2, <3>1
        <5> QED BY <5>3
      <4>2. ASSUME NEW i \in 1 .. Len(r), r[i] = c PROVE c \in Shared'
        <5>1. i + 1 \in 1 .. Len(q) /\ q[i + 1] = c /\ i + 1 # 1
          BY <4>2, <3>1
        <5>2. 1 \in 1 .. Len(q)
          BY <2>6, <3>1
        <5>3. c # q[1]
          BY <5>1, <5>2, <2>5 DEF IsChain
        <5>4. c \in Shared
          BY <5>1, <2>5 DEF IsChain
        <5> QED BY <5>3, <5>4, <2>4, <2>6
      <4> QED BY <4>1, <4>2
    <3>5. ASSUME NEW i \in 1 .. Len(r)
          PROVE  Succ(r[i])' = IF i = Len(r) THEN NoBlock ELSE r[i + 1]
      <4>1. i + 1 \in 1 .. Len(q) /\ r[i] = q[i + 1] /\ q[i + 1] \in Blocks
        BY <3>1, <2>5
      <4>2. Succ(q[i + 1])' = IF i + 1 = Len(q) THEN NoBlock ELSE q[i + 1 + 1]
        BY <4>1, <2>2, <2>5 DEF IsChain
      <4>3. i = Len(r) <=> i + 1 = Len(q)
        BY <3>1
      <4>4. i # Len(r) => r[i + 1] = q[i + 1 + 1]
        BY <3>1
      <4> QED BY <4>1, <4>2, <4>3, <4>4 DEF Succ
    <3> QED BY <3>1, <3>2, <3>3, <3>4, <3>5 DEF Chained, IsChain
  <2>9. TailNear'
    <3>0. Succ(mq.tail)' = Succ(mq.tail)
      BY <2>2 DEF Succ
    <3>1. (mq.tail \in Shared \/ (mq.tail \in Dead /\ Succ(mq.tail) = mq.head))'
      <4>1. CASE mq.tail = b
        <5>1. PICK u \in Producers : th[u].pc = "swing" /\ th[u].b = b
          BY <4>1, <1>1 DEF TailNear
        <5>2. hp[u] = b /\ u \in QThreads /\ u # t
          BY <5>1, <1>0 DEF Guarded, QThreads, InBlock
        <5>3. Hazard(t, b)
          BY <5>2 DEF Hazard
        <5> QED BY <4>1, <5>3, <2>2, <2>4, <3>0
      <4>2. CASE mq.tail # b
        BY <4>2, <2>2, <2>4, <2>7, <1>5 DEF TailNear
      <4> QED BY <4>1, <4>2
    <3>2. ASSUME Succ(mq.tail) # NoBlock
          PROVE  /\ Succ(mq.tail) \in Shared' /\ Succ(mq.tail) # mq.tail
                 /\ Succ(Succ(mq.tail))' = NoBlock
                 /\ \E u \in Producers : /\ th'[u].pc = "swing" /\ th'[u].b = mq.tail
                                         /\ th'[u].new = Succ(mq.tail)
      <4>1. Succ(mq.tail) \in Shared /\ Succ(mq.tail) \in Blocks
        BY <3>2 DEF TailNear, Shared
      <4>2. Succ(Succ(mq.tail))' = Succ(Succ(mq.tail))
        BY <4>1, <2>2, <3>0 DEF Succ
      <4>3. PICK u \in Producers : th[u].pc = "swing" /\ th[u].b = mq.tail /\ th[u].new = Succ(mq.tail)
        BY <3>2 DEF TailNear
      <4>4. th'[u] = th[u]
        BY <4>3, <1>0, <1>3 DEF QThreads
      <4> QED BY <3>2, <4>1, <4>2, <4>3, <4>4, <2>4, <2>7 DEF TailNear
    <3>3. \A c \in Shared' : Succ(c)' = NoBlock => c = mq.tail \/ c = Succ(mq.tail)
      BY <2>2, <2>4 DEF TailNear, Shared
    <3> QED BY <2>2, <3>0, <3>1, <3>2, <3>3 DEF TailNear
  <2>10. Guarded'
    <3>1. ASSUME NEW u \in QThreads, th'[u].pc \in InBlock
          PROVE  th'[u].b \in Shared' \cup Dead' /\ hp'[u] = th'[u].b
      <4>1. u # t /\ th'[u] = th[u] /\ th[u].b \in Shared \cup Dead /\ hp[u] = th[u].b
        BY <3>1, <1>3 DEF Guarded, InBlock
      <4>2. th[u].b = b => Hazard(t, b)
        BY <4>1 DEF Hazard
      <4> QED BY <4>1, <4>2, <2>4, <1>0
    <3> QED BY <3>1 DEF Guarded
  <2>11. Prepared'
    <3>1. \A u \in Producers : th'[u] = th[u]
      BY <1>0, <1>3 DEF QThreads
    <3>2. \A u \in Producers : th[u].pc = "link" => th[u].new \in Blocks /\ th[u].new # b
      BY <2>6 DEF Prepared, Private, Shared
    <3> QED BY <2>2, <3>1, <3>2 DEF Prepared
  <2>12. PushersBehind'
    <3>1. \A u \in Producers : th'[u] = th[u] /\ (th[u].pc \in InBlock => th[u].b \in Blocks)
      BY <1>0, <1>3, InBlockBlocks DEF QThreads
    <3>2. Succ(mq.tail)' = Succ(mq.tail) /\ "swing" \in InBlock
      BY <2>2 DEF Succ, InBlock
    <3> QED BY <2>2, <3>1, <3>2 DEF PushersBehind, Succ
  <2>13. PoppersAhead'
    <3>1. \A u \in Consumers : th'[u].pc \in InBlock => u # t /\ th'[u] = th[u] /\ th[u].b \in Blocks
      BY <1>3, InBlockBlocks DEF QThreads, InBlock
    <3>2. ASSUME NEW u \in Consumers, th'[u].pc \in InBlock
          PROVE  blk'[th'[u].b].next # NoBlock \/ th'[u].b = mq'.head
      <4>1. th'[u] = th[u] /\ th[u].b \in Blocks /\ (th[u].b = b \/ Succ(th[u].b) # NoBlock)
        BY <3>1, <3>2, <1>5 DEF PoppersAhead
      <4> QED BY <4>1, <1>1, <2>2 DEF Succ
    <3>3. ASSUME NEW u \in Consumers, th'[u].pc \in InBlock, th'[u].again
          PROVE  blk'[th'[u].b].next # NoBlock
      <4>1. th'[u] = th[u] /\ th[u].b \in Blocks /\ Succ(th[u].b) # NoBlock
        BY <3>1, <3>3 DEF PoppersAhead
      <4> QED BY <4>1, <2>2 DEF Succ
    <3>4. \A u \in Consumers : th'[u].pc = "leave" => th'[u].again
      BY <3>1 DEF PoppersAhead, InBlock
    <3> QED BY <3>2, <3>3, <3>4 DEF PoppersAhead, Succ
  <2>14. DeadLinked'
    BY <1>1, <2>2, <2>4 DEF DeadLinked, Dead
  <2>15. B(t).next \in Blocks
    BY <1>1, <2>6
  <2> QED BY <2>8, <2>9, <2>10, <2>11, <2>12, <2>13, <2>14, <2>15
<1> QED BY <1>4, <1>5
-----------------------------------------------------------------------------
(* The list keeps its shape, and its blocks are protected.                 *)

LEMMA InitList == QueueInit => QueueShape /\ ListInv
<1>. SUFFICES ASSUME QueueInit PROVE QueueShape /\ ListInv
  OBVIOUS
<1>. USE DEF QueueInit
<1>. DEFINE b0 == CHOOSE b \in Blocks : TRUE
<1>0. b0 \in Blocks
  BY QueueAssumption
<1>1. /\ blk = [b \in Blocks |-> IF b = b0 THEN NewBlock(NoValue) ELSE FreeBlock]
      /\ mq = [head |-> b0, tail |-> b0, sem |-> 0, waiting |-> 0]
  OBVIOUS
<1>. HIDE DEF b0
<1>2. NewBlock(NoValue) \in BlockRecords /\ FreeBlock \in BlockRecords
  <2>1. NewBlock(NoValue) \in BlockRecords
    BY NewBlockType
  <2> QED BY <2>1, BlockFields DEF FreeBlock
<1>3. /\ NewBlock(NoValue).state = "used" /\ NewBlock(NoValue).next = NoBlock
      /\ FreeBlock.state = "free"
  BY DEF NewBlock, FreeBlock
<1>4. \A t \in Producers : th[t] = QIdle("push") /\ th[t].pc = "push" /\ th[t].done = 0
  BY DEF QIdle, QThreads
<1>5. \A t \in Consumers : th[t] = QIdle("wait") /\ th[t].pc = "wait"
  <2>1. \A t \in Consumers : t \in QThreads /\ t \notin Producers
    BY PcsApart DEF QThreads
  <2>2. \A t \in Consumers : th[t] = QIdle("wait")
    BY <2>1
  <2>3. QIdle("wait").pc = "wait"
    BY DEF QIdle
  <2> QED BY <2>2, <2>3
<1>6. QueueShape
  <2>1. blk \in [Blocks -> BlockRecords]
    BY <1>1, <1>2
  <2>2. mq \in [head : Blocks, tail : Blocks, sem : Int, waiting : Int]
    BY <1>0, <1>1
  <2>3. th \in [QThreads -> ThreadRecords]
    <3>1. QIdle("push") \in ThreadRecords /\ QIdle("wait") \in ThreadRecords
      BY QIdleType DEF PushPcs, PopPcs
    <3> QED BY <3>1, <1>4, <1>5 DEF QThreads
  <2>4. hp \in [QThreads -> Blocks \cup {NoBlock}] /\ popped \in Seq(Values \cup {NoValue})
    OBVIOUS
  <2>. HIDE DEF QueueInit
  <2>5. \A t \in Producers : Len(Script[t]) \in Nat
    BY ScriptAssumption
  <2>6. "push" \in PushPcs /\ "wait" \in PopPcs
    BY DEF PushPcs, PopPcs
  <2>7. \A t \in Producers :
          /\ th[t].pc \in PushPcs /\ th[t].done <= Len(Script[t])
          /\ th[t].pc # "push" => th[t].done < Len(Script[t])
          /\ th[t].pc \in {"node", "cas", "full"} => th[t].i \in Nat
    BY <1>4, <2>5, <2>6
  <2>8. \A t \in Consumers : th[t].pc \in PopPcs
                             /\ (th[t].pc \in {"look", "tail"} => th[t].i \in Nat)
    BY <1>5, <2>6
  <2> QED BY <2>1, <2>2, <2>3, <2>4, <2>7, <2>8 DEF QueueShape
<1>7. Shared = {b0} /\ Dead = {}
  BY <1>0, <1>1, <1>3, <1>4 DEF Shared, Dead, Private
<1>8. Succ(b0) = NoBlock /\ b0 # NoBlock
  BY <1>0, <1>1, <1>3, QueueAssumption DEF Succ
<1>9. Chained
  <2>1. IsChain(<<b0>>)
    BY <1>0, <1>1, <1>7, <1>8 DEF IsChain, Succ
  <2>2. <<b0>> \in Seq(Blocks)
    BY <1>0
  <2>. HIDE DEF QueueInit
  <2> QED BY <2>1, <2>2 DEF Chained
<1>10. TailNear
  BY <1>0, <1>1, <1>7, <1>8 DEF TailNear
<1>11. Guarded /\ Prepared /\ PushersBehind /\ PoppersAhead /\ DeadLinked
  BY <1>4, <1>5, <1>7 DEF Guarded, Prepared, PushersBehind, PoppersAhead, DeadLinked, InBlock, QThreads
<1> QED BY <1>6, <1>9, <1>10, <1>11 DEF ListInv

LEMMA StepList ==
  QueueShape /\ ListInv /\ [QueueNext]_queueVars => QueueShape' /\ ListInv'
<1>. SUFFICES ASSUME QueueShape, ListInv, [QueueNext]_queueVars PROVE QueueShape' /\ ListInv'
  OBVIOUS
<1>1. ASSUME NEW t \in Producers, PushStep(t) PROVE QueueShape' /\ ListInv'
  <2>1. QueueShape'
    BY <1>1, PushSteps DEF ListInv
  <2>2. CASE PushProtect(t)
    <3>. DEFINE T2 == [th[t] EXCEPT !.pc = "faa", !.b = mq.tail, !.it = 0]
    <3>1. t \in QThreads /\ th[t] \in ThreadRecords /\ th[t].pc \notin InBlock
      BY <2>2 DEF PushProtect, QThreads, InBlock, QueueShape
    <3>2. T2 \in ThreadRecords /\ T2.pc = "faa" /\ T2.b = mq.tail
      BY <3>1 DEF ThreadRecords, PushPcs, QueueShape
    <3>3. th' = [th EXCEPT ![t] = T2] /\ hp' = [hp EXCEPT ![t] = T2.b] /\ UNCHANGED <<blk, mq>>
      BY <2>2, <3>1, <3>2 DEF PushProtect, QueueShape
    <3>4. ListInv'
      BY <3>1, <3>2, <3>3, ProtectList
    <3> QED BY <2>1, <3>4
  <2> QED BY <1>1, <2>1, <2>2, ClaimList, PushQuiet, AllocList, LinkList, SwingList, WakeQuiet
          DEF PushStep
<1>2. ASSUME NEW t \in Consumers, PopStep(t) PROVE QueueShape' /\ ListInv'
  <2>1. mq.head = th[t].b /\ th[t].pc = "leave" => B(t).next \in Blocks
    <3>1. ASSUME mq.head = th[t].b, th[t].pc = "leave" PROVE B(t).next \in Blocks
      <4>1. PopLeave(t)
        BY <1>2, <3>1 DEF PopStep, SemRead, SemTake, SemUndo, SemAnnounce, SemFutex, SemWoken,
           PopProtect, PopClaim, PopNode, PopTail, PopFix, PopEmpty
      <4> QED BY <4>1, <3>1, LeaveList
    <3> QED BY <3>1
  <2>2. QueueShape'
    BY <1>2, <2>1, PopSteps DEF ListInv
  <2>3. CASE PopProtect(t)
    <3>. DEFINE T2 == [th[t] EXCEPT !.pc = "take", !.b = mq.head, !.again = FALSE]
    <3>1. t \in QThreads /\ th[t] \in ThreadRecords /\ th[t].pc \notin InBlock
      BY <2>3 DEF PopProtect, QThreads, InBlock, QueueShape
    <3>2. T2 \in ThreadRecords /\ T2.pc = "take" /\ T2.b = mq.head /\ ~T2.again
      BY <3>1 DEF ThreadRecords, PopPcs, QueueShape
    <3>3. th' = [th EXCEPT ![t] = T2] /\ hp' = [hp EXCEPT ![t] = T2.b] /\ UNCHANGED <<blk, mq>>
      BY <2>3, <3>1, <3>2 DEF PopProtect, QueueShape
    <3>4. ListInv'
      BY <3>1, <3>2, <3>3, ProtectList
    <3> QED BY <2>2, <3>4
  <2> QED BY <1>2, <2>2, <2>3, LeaveList, PopQuiet
<1>3. CASE UNCHANGED queueVars
  BY SMTT(40), <1>3 DEF queueVars, QueueShape, ListInv, Chained, IsChain, TailNear, Guarded, Prepared,
     PushersBehind, PoppersAhead, DeadLinked, Shared, Dead, Private, Succ
<1> QED BY <1>1, <1>2, <1>3 DEF QueueNext

LEMMA ListSafe == QueueShape /\ ListInv => NoFreedBlock
<1>. SUFFICES ASSUME QueueShape, ListInv PROVE NoFreedBlock
  OBVIOUS
<1>1. PICK q \in Seq(Blocks) : IsChain(q)
  BY DEF ListInv, Chained
<1>2. mq.head \in Shared
  BY <1>1 DEF IsChain, QueueShape
<1>3. mq.tail \in Shared \cup Dead
  BY DEF ListInv, TailNear
<1> QED BY <1>2, <1>3 DEF NoFreedBlock, ListInv, Guarded, Shared, Dead, B

\* No thread of the queue is in a block that was freed, and mq_head and mq_tail point
\* to none: the hazard pointers of mpq_push and mpq_pop (src/common/mp-queue.c) protect
\* what they were made for, whatever the number of threads and of blocks.
THEOREM BlocksProtected == QueueSpec => []NoFreedBlock
<1>1. QueueInit => QueueShape /\ ListInv
  BY InitList
<1>2. (QueueShape /\ ListInv) /\ [QueueNext]_queueVars => (QueueShape /\ ListInv)'
  BY StepList
<1> QED BY <1>1, <1>2, ListSafe, PTL DEF QueueSpec

-----------------------------------------------------------------------------
(* What is in the nodes.                                                   *)

Kept == Shared \cup Dead
At2(b, j) == blk[b].nodes[j % Size]

Looks(u, b, j) == th[u].pc = "look" /\ th[u].b = b /\ th[u].i = j
WillLook(u, b, j) == th'[u].pc = "look" /\ th'[u].b = b /\ th'[u].i = j

\* A node is for the indices of its place; values are below the tail; an index is
\* claimed once, and below the tail or head.
Claims ==
  /\ \A b \in Blocks : \A n \in Ring :
       /\ blk[b].nodes[n].idx % Size = n
       /\ blk[b].nodes[n].val # NoValue => blk[b].nodes[n].idx < blk[b].tail
  /\ \A t \in Producers : th[t].pc \in {"node", "cas", "full"} =>
       th[t].i < blk[th[t].b].tail
  /\ \A t \in Consumers : th[t].pc \in {"look", "tail"} =>
       th[t].i < blk[th[t].b].head
  /\ \A t, u \in Consumers :
       th[t].pc = "look" /\ Looks(u, th[t].b, th[t].i) => t = u

\* A value that the head has passed is about to be taken.
Bound ==
  \A b \in Blocks : \A n \in Ring :
    blk[b].nodes[n].val # NoValue /\ blk[b].nodes[n].idx < blk[b].head =>
      \E u \in Consumers : Looks(u, b, blk[b].nodes[n].idx)

\* An index that was claimed and looked at accepts no value any more.
Passed ==
  \A b \in Blocks : \A j \in Nat :
    j < blk[b].head /\ (\A u \in Consumers : ~Looks(u, b, j)) =>
      At2(b, j).idx > j \/ ~At2(b, j).safe

\* What a push saw of its node: either the node has changed and will not be again
\* what it was, or no consumer has passed the index.
Fresh(t) ==
  LET d == th[t].d   n == At2(th[t].b, th[t].i)
  IN  /\ d.val = NoValue /\ d.idx <= th[t].i
      /\ \/ n.idx > d.idx
         \/ n.idx = d.idx /\ n.val # NoValue
         \/ /\ n = d
            /\ \A j \in Nat : j >= th[t].i /\ j < blk[th[t].b].head /\ j % Size = th[t].i % Size
                 => \E u \in Consumers : Looks(u, th[t].b, j)

CasFresh == \A t \in Producers : th[t].pc = "cas" => Fresh(t)

NodeInv == Claims /\ Bound /\ Passed /\ CasFresh

\* A block with a next one is closed.
ClosedFirst ==
  /\ \A b \in Blocks : Succ(b) # NoBlock => blk[b].closed
  /\ \A t \in Producers : th[t].pc \in {"alloc", "link", "swing"} => blk[th[t].b].closed

Drained(b) ==
  /\ blk[b].closed
  /\ \A n \in Ring : blk[b].nodes[n].val # NoValue => blk[b].nodes[n].idx < blk[b].head
  /\ \A t \in Producers : th[t].pc \in {"node", "cas"} /\ th[t].b = b => th[t].i < blk[b].head

\* A block is left only when nothing will be put into it.
LeftDrained ==
  /\ \A b \in Dead : Drained(b)
  /\ \A t \in Consumers : th[t].pc \in {"fix", "empty", "leave"} =>
       Succ(th[t].b) # NoBlock /\ (th[t].again => Drained(th[t].b))

PrivateNew == \A t \in Producers : th[t].pc = "link" => blk[th[t].new] = NewBlock(Val(t))

Where == {p \in Kept \X Ring : blk[p[1]].nodes[p[2]].val # NoValue}
ValAt(p) == blk[p[1]].nodes[p[2]].val

\* Values whose push has put them into a block.
PlacedOf(t) == th[t].done + (IF th[t].pc \in {"swing", "post", "wake"} THEN 1 ELSE 0)

\* Every value is in one place.
OnePlace ==
  /\ \A p, q \in Where : ValAt(p) = ValAt(q) => p = q
  /\ \A p \in Where : \A k \in 1 .. Len(popped) : ValAt(p) # popped[k]
  /\ \A t \in Producers : \A k \in 1 .. Len(Script[t]) : k > PlacedOf(t) =>
       /\ \A p \in Where : ValAt(p) # Script[t][k]
       /\ \A l \in 1 .. Len(popped) : popped[l] # Script[t][k]

InPop == InBlock \cup {"pop"}
Count(T, pcs) == Cardinality({t \in T : th[t].pc \in pcs})

\* The semaphore counts the values nobody was let through for.
SemFits ==
  /\ mq.sem + Count(Consumers, {"undo"}) >= 0
  /\ Cardinality(Where) = mq.sem + Count(Consumers, {"undo"})
        + Count(Consumers, InPop) + Count(Producers, {"swing", "post"})
-----------------------------------------------------------------------------
(* Steps that leave the nodes alone.                                       *)

PusherSame(u) ==
  th'[u].pc \in {"node", "cas", "full"} =>
    /\ th[u].pc \in {"node", "cas", "full"} /\ th'[u].b = th[u].b /\ th'[u].i = th[u].i
    /\ th'[u].pc = "cas" => th[u].pc = "cas" /\ th'[u].d = th[u].d

PopperSame(u) ==
  /\ th'[u].pc = "look" <=> th[u].pc = "look"
  /\ th'[u].pc = "tail" => th[u].pc = "tail"
  /\ th'[u].pc \in {"look", "tail"} => th'[u].b = th[u].b /\ th'[u].i = th[u].i

LEMMA PushBlocks ==
  ASSUME QueueShape, ListInv
  PROVE  /\ \A u \in Producers : th[u].pc \in InBlock => th[u].b \in Blocks /\ hp[u] = th[u].b
         /\ \A u \in Consumers : th[u].pc \in InBlock => th[u].b \in Blocks /\ hp[u] = th[u].b
BY DEF QThreads, ListInv, Guarded, Shared, Dead

LEMMA NotAbove ==
  ASSUME NEW x \in Nat
  PROVE  ~(x > x)
OBVIOUS

LEMMA NotAtLeast ==
  ASSUME NEW x \in Nat, NEW y \in Nat, ~(x >= y)
  PROVE  y > x
OBVIOUS

LEMMA NodeTypes ==
  ASSUME QueueShape, NEW b \in Blocks
  PROVE  /\ blk[b].head \in Nat /\ blk[b].tail \in Nat /\ blk[b].closed \in BOOLEAN
         /\ \A n \in Ring : /\ blk[b].nodes[n] \in NodeRecords
                            /\ blk[b].nodes[n].idx \in Nat
                            /\ blk[b].nodes[n].safe \in BOOLEAN
                            /\ blk[b].nodes[n].val \in Values \cup {NoValue}
BY DEF QueueShape, BlockRecords, NodeRecords

LEMMA ThreadTypes ==
  ASSUME QueueShape
  PROVE  /\ \A u \in Producers : /\ th[u].pc \in {"node", "cas", "full"} => th[u].i \in Nat
                                 /\ th[u].d \in NodeRecords /\ th[u].d.idx \in Nat
         /\ \A u \in Consumers : th[u].pc \in {"look", "tail"} => th[u].i \in Nat
BY DEF QueueShape, ThreadRecords, NodeRecords, QThreads

LEMMA NodeFrame ==
  ASSUME QueueShape, ListInv, NodeInv,
         \A c \in Blocks : /\ blk'[c].nodes = blk[c].nodes /\ blk'[c].head = blk[c].head
                           /\ blk'[c].tail \in Nat /\ blk'[c].tail >= blk[c].tail,
         \A u \in Producers : PusherSame(u),
         \A u \in Consumers : PopperSame(u)
  PROVE  NodeInv'
<1>1. \A u \in Consumers, b \in Blocks : \A j \in Nat : Looks(u, b, j)' <=> Looks(u, b, j)
  BY DEF PopperSame, Looks
<1>2. Claims'
  <2>1. \A b \in Blocks : \A n \in Ring :
          /\ blk'[b].nodes[n].idx % Size = n
          /\ blk'[b].nodes[n].val # NoValue => blk'[b].nodes[n].idx < blk'[b].tail
    <3>. SUFFICES ASSUME NEW b \in Blocks, NEW n \in Ring
         PROVE  /\ blk'[b].nodes[n].idx % Size = n
                /\ blk'[b].nodes[n].val # NoValue => blk'[b].nodes[n].idx < blk'[b].tail
      OBVIOUS
    <3>1. /\ blk[b].nodes[n].idx % Size = n /\ blk[b].nodes[n].idx \in Nat
          /\ blk[b].nodes[n].val # NoValue => blk[b].nodes[n].idx < blk[b].tail
          /\ blk[b].tail \in Nat
      BY NodeTypes DEF NodeInv, Claims
    <3> QED BY <3>1
  <2>2. \A u \in Producers : th'[u].pc \in {"node", "cas", "full"} =>
          th'[u].i < blk'[th'[u].b].tail
    <3>. SUFFICES ASSUME NEW u \in Producers, th'[u].pc \in {"node", "cas", "full"}
         PROVE  th'[u].i < blk'[th'[u].b].tail
      OBVIOUS
    <3>1. /\ th[u].pc \in {"node", "cas", "full"} /\ th'[u].b = th[u].b /\ th'[u].i = th[u].i
          /\ th[u].i < blk[th[u].b].tail
      BY DEF NodeInv, Claims, PusherSame
    <3>2. th[u].b \in Blocks /\ th[u].i \in Nat
      BY <3>1, PushBlocks, ThreadTypes DEF InBlock
    <3>3. blk[th[u].b].tail \in Nat
      BY <3>2, NodeTypes
    <3> QED BY <3>1, <3>2, <3>3
  <2>3. \A u \in Consumers : th'[u].pc \in {"look", "tail"} => th'[u].i < blk'[th'[u].b].head
    <3>. SUFFICES ASSUME NEW u \in Consumers, th'[u].pc \in {"look", "tail"}
         PROVE  th'[u].i < blk'[th'[u].b].head
      OBVIOUS
    <3>1. /\ th[u].pc \in {"look", "tail"} /\ th'[u].b = th[u].b /\ th'[u].i = th[u].i
          /\ th[u].i < blk[th[u].b].head
      BY DEF NodeInv, Claims, PopperSame
    <3>2. th[u].b \in Blocks
      BY <3>1, PushBlocks DEF InBlock
    <3> QED BY <3>1, <3>2
  <2>4. \A u, v \in Consumers : th'[u].pc = "look" /\ Looks(v, th[u].b, th[u].i)' => u = v
    <3>. SUFFICES ASSUME NEW u \in Consumers, NEW v \in Consumers, th'[u].pc = "look",
                         th'[v].pc = "look", th'[v].b = th'[u].b, th'[v].i = th'[u].i
         PROVE  u = v
      BY DEF Looks
    <3> QED BY DEF PopperSame, NodeInv, Claims, Looks
  <2> QED BY <2>1, <2>2, <2>3, <2>4 DEF Claims
<1>3. Bound'
  BY <1>1, NodeTypes DEF Bound, NodeInv
<1>4. Passed'
  BY <1>1 DEF Passed, NodeInv, At2
<1>5. CasFresh'
  <2>. SUFFICES ASSUME NEW u \in Producers, th'[u].pc = "cas"  PROVE Fresh(u)'
    BY DEF CasFresh
  <2>1. /\ th[u].pc = "cas" /\ th'[u].b = th[u].b /\ th'[u].i = th[u].i /\ th'[u].d = th[u].d
        /\ Fresh(u)
    BY DEF PusherSame, NodeInv, CasFresh
  <2>2. th[u].b \in Blocks
    BY <2>1, PushBlocks DEF InBlock
  <2>3. At2(th[u].b, th[u].i)' = At2(th[u].b, th[u].i) /\ blk'[th[u].b].head = blk[th[u].b].head
    BY <2>1, <2>2 DEF At2
  <2> QED BY <1>1, <2>1, <2>2, <2>3 DEF Fresh
<1> QED BY <1>2, <1>3, <1>4, <1>5 DEF NodeInv

-----------------------------------------------------------------------------
(* Indices and places.                                                     *)

LEMMA PlaceOf ==
  ASSUME NEW i \in Nat
  PROVE  i % Size \in Ring /\ i = Size * (i \div Size) + (i % Size) /\ i \div Size \in Nat
<1>1. Size \in Nat \ {0}
  BY QueueAssumption
<1>2. i % Size \in Ring
  BY <1>1, SMTT(30) DEF Ring
<1>3. i = Size * (i \div Size) + (i % Size) /\ i \div Size \in Nat
  BY <1>1, SMTT(30)
<1> QED BY <1>2, <1>3

LEMMA PlaceUnique ==
  ASSUME NEW q \in Nat, NEW r \in Ring
  PROVE  (Size * q + r) % Size = r
<1>1. Size \in Nat \ {0}
  BY QueueAssumption
<1>2. r \in Nat /\ r < Size
  BY <1>1 DEF Ring
<1>3. ASSUME NEW i \in Nat, i = Size * q + r PROVE i % Size = r
  BY <1>1, <1>2, <1>3, SMTT(30)
<1>4. Size * q + r \in Nat
  BY <1>1, <1>2
<1> QED BY <1>3, <1>4

LEMMA NextRound ==
  ASSUME NEW i \in Nat
  PROVE  (i + Size) % Size = i % Size /\ i + Size > i /\ i + Size \in Nat
<1>1. Size \in Nat \ {0}
  BY QueueAssumption
<1>. DEFINE q == i \div Size
            r == i % Size
<1>2. r \in Ring /\ q \in Nat /\ i = Size * q + r
  BY PlaceOf
<1>3. (Size * (q + 1) + r) % Size = r
  <2>1. q + 1 \in Nat
    BY <1>2
  <2> QED BY <1>2, <2>1, PlaceUnique
<1>4. i + Size = Size * (q + 1) + r
  <2>. HIDE DEF q, r
  <2>1. \A s, x, y \in Int : s * (x + 1) + y = s * x + y + s
    OBVIOUS
  <2>2. r \in Int /\ q \in Int /\ Size \in Int
    BY <1>1, <1>2 DEF Ring
  <2>3. Size * (q + 1) + r = Size * q + r + Size
    BY <2>1, <2>2
  <2> QED BY <1>2, <2>3
<1> QED BY <1>1, <1>3, <1>4

LEMMA FirstRound ==
  ASSUME NEW n \in Ring
  PROVE  n % Size = n /\ n \in Nat
<1>1. Size \in Nat \ {0} /\ n \in Nat /\ n < Size
  BY QueueAssumption DEF Ring
<1> QED BY <1>1, SMTT(30)

-----------------------------------------------------------------------------
(* Steps that change one node.                                             *)

OneNode(b, k, m) ==
  /\ blk'[b].nodes[k] = m
  /\ \A c \in Blocks, n \in Ring : c # b \/ n # k => blk'[c].nodes[n] = blk[c].nodes[n]
  /\ \A c \in Blocks : /\ blk'[c].head = blk[c].head /\ blk'[c].tail = blk[c].tail
                       /\ blk'[c].closed = blk[c].closed /\ blk'[c].next = blk[c].next
                       /\ blk'[c].state = blk[c].state

LEMMA OneNodeStep ==
  ASSUME QueueShape, NEW b \in Blocks, NEW k \in Ring, NEW m,
         blk' = [blk EXCEPT ![b].nodes[k] = m]
  PROVE  OneNode(b, k, m)
<1>1. blk[b] \in BlockRecords /\ blk \in [Blocks -> BlockRecords]
  BY DEF QueueShape
<1>2. k \in DOMAIN blk[b].nodes
  BY <1>1 DEF BlockRecords
<1>3. blk'[b] = [blk[b] EXCEPT !.nodes = [blk[b].nodes EXCEPT ![k] = m]]
  BY <1>1
<1>4. \A c \in Blocks : c # b => blk'[c] = blk[c]
  BY <1>1
<1>5. /\ blk'[b].nodes = [blk[b].nodes EXCEPT ![k] = m]
      /\ blk'[b].head = blk[b].head /\ blk'[b].tail = blk[b].tail
      /\ blk'[b].closed = blk[b].closed /\ blk'[b].next = blk[b].next
      /\ blk'[b].state = blk[b].state
  BY <1>1, <1>3 DEF BlockRecords
<1>6. blk'[b].nodes[k] = m /\ \A n \in Ring : n # k => blk'[b].nodes[n] = blk[b].nodes[n]
  BY <1>1, <1>2, <1>5 DEF BlockRecords
<1> QED BY <1>4, <1>5, <1>6 DEF OneNode

\* A push into the node that it saw.
LEMMA SwapNodes ==
  ASSUME QueueShape, ListInv, NodeInv, NEW t \in Producers, th[t].pc = "cas",
         At(t) = th[t].d, Val(t) # NoValue,
         OneNode(th[t].b, th[t].i % Size, Node(th[t].i, Val(t))),
         \A u \in QThreads : u # t => th'[u] = th[u],
         th'[t].pc \notin {"node", "cas", "full"}
  PROVE  NodeInv'
<1>. DEFINE b == th[t].b
            i == th[t].i
            k == i % Size
            n == blk[b].nodes[k]
            m == Node(i, Val(t))
<1>0. /\ b \in Blocks /\ i \in Nat /\ k \in Ring /\ n \in NodeRecords /\ n.idx \in Nat
      /\ t \notin Consumers /\ t \in QThreads
  BY PushBlocks, ThreadTypes, PlaceOf, NodeTypes, PcsApart DEF InBlock, QThreads
<1>1. /\ n = th[t].d /\ n.val = NoValue /\ n.idx <= i
      /\ \A j \in Nat : j >= i /\ j < blk[b].head /\ j % Size = k =>
           \E u \in Consumers : Looks(u, b, j)
  <2>1. Fresh(t) /\ At2(b, i) = n /\ At(t) = n
    BY DEF NodeInv, CasFresh, At2, At, B
  <2>2. /\ th[t].d.val = NoValue /\ th[t].d.idx <= th[t].i
        /\ \/ At2(b, i).idx > th[t].d.idx
           \/ At2(b, i).idx = th[t].d.idx /\ At2(b, i).val # NoValue
           \/ \A j \in Nat : j >= i /\ j < blk[b].head /\ j % Size = k =>
                \E u \in Consumers : Looks(u, b, j)
    BY <2>1 DEF Fresh
  <2>3. n = th[t].d
    BY <2>1
  <2>4. ~(n.idx > n.idx)
    BY <1>0, NotAbove, ZenonT(40)
  <2>. HIDE DEF n
  <2> QED BY <2>1, <2>2, <2>3, <2>4
<1>2. m.idx = i /\ m.safe = TRUE /\ m.val = Val(t)
  BY DEF Node
<1>3. /\ \A u \in Consumers : th'[u] = th[u]
      /\ \A u \in Producers : u # t => th'[u] = th[u]
  BY <1>0 DEF QThreads
<1>4. \A u \in Consumers, c \in Blocks : \A j \in Nat : Looks(u, c, j)' <=> Looks(u, c, j)
  BY <1>3 DEF Looks
<1>5. /\ blk'[b].nodes[k] = m
      /\ \A c \in Blocks, l \in Ring : c # b \/ l # k => blk'[c].nodes[l] = blk[c].nodes[l]
      /\ \A c \in Blocks : blk'[c].head = blk[c].head /\ blk'[c].tail = blk[c].tail
  BY DEF OneNode
<1>6. Claims'
  <2>1. \A c \in Blocks : \A l \in Ring :
          /\ blk'[c].nodes[l].idx % Size = l
          /\ blk'[c].nodes[l].val # NoValue => blk'[c].nodes[l].idx < blk'[c].tail
    <3>. SUFFICES ASSUME NEW c \in Blocks, NEW l \in Ring
         PROVE  /\ blk'[c].nodes[l].idx % Size = l
                /\ blk'[c].nodes[l].val # NoValue => blk'[c].nodes[l].idx < blk'[c].tail
      OBVIOUS
    <3>1. CASE c = b /\ l = k
      <4>1. i < blk[b].tail
        BY DEF NodeInv, Claims
      <4>. HIDE DEF m
      <4> QED BY <3>1, <4>1, <1>0, <1>2, <1>5
    <3>2. CASE ~(c = b /\ l = k)
      BY <3>2, <1>5 DEF NodeInv, Claims
    <3> QED BY <3>1, <3>2
  <2>2. \A u \in Producers : th'[u].pc \in {"node", "cas", "full"} =>
          th'[u].i < blk'[th'[u].b].tail
    <3>. SUFFICES ASSUME NEW u \in Producers, th'[u].pc \in {"node", "cas", "full"}
         PROVE  th'[u].i < blk'[th'[u].b].tail
      OBVIOUS
    <3>1. u # t /\ th'[u] = th[u]
      BY <1>3
    <3>2. th[u].b \in Blocks
      BY <3>1, PushBlocks DEF InBlock
    <3> QED BY <3>1, <3>2, <1>5 DEF NodeInv, Claims
  <2>3. \A u \in Consumers : th'[u].pc \in {"look", "tail"} => th'[u].i < blk'[th'[u].b].head
    <3>. SUFFICES ASSUME NEW u \in Consumers, th'[u].pc \in {"look", "tail"}
         PROVE  th'[u].i < blk'[th'[u].b].head
      OBVIOUS
    <3>1. th'[u] = th[u]
      BY <1>3
    <3>2. th[u].b \in Blocks
      BY <3>1, PushBlocks DEF InBlock
    <3> QED BY <3>1, <3>2, <1>5 DEF NodeInv, Claims
  <2>4. \A u, v \in Consumers : th'[u].pc = "look" /\ Looks(v, th[u].b, th[u].i)' => u = v
    BY <1>3 DEF Looks, NodeInv, Claims
  <2> QED BY <2>1, <2>2, <2>3, <2>4 DEF Claims
<1>7. Bound'
  <2>. SUFFICES ASSUME NEW c \in Blocks, NEW l \in Ring, blk'[c].nodes[l].val # NoValue,
                       blk'[c].nodes[l].idx < blk'[c].head
       PROVE  \E u \in Consumers : th'[u].pc = "look" /\ th'[u].b = c /\ th'[u].i = blk'[c].nodes[l].idx
    BY DEF Bound, Looks
  <2>1. CASE c = b /\ l = k
    <3>1. i < blk[b].head /\ blk'[c].nodes[l].idx = i
      BY <2>1, <1>2, <1>5, <1>0
    <3>2. \E u \in Consumers : Looks(u, b, i)
      BY <3>1, <1>0, <1>1
    <3> QED BY <2>1, <3>1, <3>2, <1>3 DEF Looks
  <2>2. CASE ~(c = b /\ l = k)
    <3>1. blk'[c].nodes[l] = blk[c].nodes[l] /\ blk[c].nodes[l].idx \in Nat
      BY <2>2, <1>5, NodeTypes
    <3>2. PICK u \in Consumers : Looks(u, c, blk[c].nodes[l].idx)
      BY <3>1, <1>5 DEF Bound, NodeInv
    <3> QED BY <3>1, <3>2, <1>3 DEF Looks
  <2> QED BY <2>1, <2>2
<1>8. Passed'
  <2>. SUFFICES ASSUME NEW c \in Blocks, NEW j \in Nat, j < blk'[c].head,
                       \A u \in Consumers : ~Looks(u, c, j)'
       PROVE  blk'[c].nodes[j % Size].idx > j \/ ~blk'[c].nodes[j % Size].safe
    BY DEF Passed, At2
  <2>0. j < blk[c].head /\ (\A u \in Consumers : ~Looks(u, c, j)) /\ j % Size \in Ring
    BY <1>4, <1>5, PlaceOf
  <2>1. CASE c = b /\ j % Size = k
    <3>1. ~(j >= i)
      BY <2>0, <2>1, <1>1
    <3>2. i > j
      BY <1>0, <2>0, <3>1, NotAtLeast, ZenonT(40)
    <3> QED BY <2>1, <3>2, <1>2, <1>5, ZenonT(40)
  <2>2. CASE ~(c = b /\ j % Size = k)
    BY <2>0, <2>2, <1>5 DEF Passed, NodeInv, At2
  <2> QED BY <2>1, <2>2
<1>9. CasFresh'
  <2>. SUFFICES ASSUME NEW u \in Producers, th'[u].pc = "cas"  PROVE Fresh(u)'
    BY DEF CasFresh
  <2>1. u # t /\ th'[u] = th[u] /\ th[u].pc = "cas" /\ Fresh(u)
    BY <1>3 DEF NodeInv, CasFresh
  <2>2. /\ th[u].b \in Blocks /\ th[u].i \in Nat /\ th[u].i % Size \in Ring
        /\ th[u].d.idx \in Nat
    BY <2>1, PushBlocks, ThreadTypes, PlaceOf DEF InBlock
  <2>3. CASE th[u].b = b /\ th[u].i % Size = k
    <3>1. At2(th[u].b, th[u].i) = n /\ At2(th[u].b, th[u].i)' = m
      BY <2>1, <2>3, <1>5 DEF At2
    <3>2. n.idx > th[u].d.idx \/ n.idx = th[u].d.idx
      BY <3>1, <2>1, <1>1 DEF Fresh
    <3>3. m.idx > th[u].d.idx \/ (m.idx = th[u].d.idx /\ m.val # NoValue)
      <4>. HIDE DEF m, n
      <4> QED BY <3>2, <1>0, <1>1, <1>2, <2>2
    <3>4. th[u].d.val = NoValue /\ th[u].d.idx <= th[u].i
      BY <2>1 DEF Fresh
    <3>. HIDE DEF m, n
    <3> QED BY <3>1, <3>3, <3>4, <2>1 DEF Fresh
  <2>4. CASE ~(th[u].b = b /\ th[u].i % Size = k)
    <3>1. At2(th[u].b, th[u].i)' = At2(th[u].b, th[u].i)
      BY <2>1, <2>2, <2>4, <1>5 DEF At2
    <3>2. blk'[th[u].b].head = blk[th[u].b].head
      BY <2>2, <1>5
    <3> QED BY <3>1, <3>2, <2>1, <2>2, <1>4 DEF Fresh
  <2> QED BY <2>3, <2>4
<1> QED BY <1>6, <1>7, <1>8, <1>9 DEF NodeInv

\* A consumer has looked at the node of its index: the node takes no value for that
\* index any more, and keeps one only if it is for an earlier index.
LEMMA LookedNodes ==
  ASSUME QueueShape, ListInv, NodeInv, NEW t \in Consumers, th[t].pc = "look",
         NEW m \in NodeRecords, OneNode(th[t].b, th[t].i % Size, m),
         m.idx % Size = th[t].i % Size, m.idx >= At(t).idx,
         m.val # NoValue => m.val = At(t).val /\ m.idx = At(t).idx /\ m.idx # th[t].i,
         m.idx > th[t].i \/ ~m.safe, m.safe => At(t).safe,
         \/ m.idx > At(t).idx
         \/ m.idx = At(t).idx /\ At(t).val # NoValue /\ m.val = At(t).val
         \/ m = At(t) /\ At(t).idx > th[t].i,
         \A u \in QThreads : u # t => th'[u] = th[u],
         th'[t].pc # "look", th'[t].pc = "tail" => th'[t].b = th[t].b /\ th'[t].i = th[t].i
  PROVE  NodeInv'
<1>. DEFINE b == th[t].b
            i == th[t].i
            k == i % Size
            n == blk[b].nodes[k]
<1>0. /\ b \in Blocks /\ i \in Nat /\ k \in Ring /\ n \in NodeRecords /\ n.idx \in Nat
      /\ t \notin Producers /\ t \in QThreads /\ At(t) = n
      /\ m.idx \in Nat /\ m.safe \in BOOLEAN
  BY PushBlocks, ThreadTypes, PlaceOf, NodeTypes, PcsApart
     DEF InBlock, QThreads, At, B, NodeRecords
<1>1. /\ m.idx % Size = k /\ m.idx >= n.idx
      /\ m.val # NoValue => m.val = n.val /\ m.idx = n.idx /\ m.idx # i
      /\ m.idx > i \/ ~m.safe
      /\ m.safe => n.safe
      /\ \/ m.idx > n.idx
         \/ m.idx = n.idx /\ n.val # NoValue /\ m.val = n.val
         \/ m = n /\ n.idx > i
  BY <1>0
<1>3. /\ \A u \in Producers : th'[u] = th[u]
      /\ \A u \in Consumers : u # t => th'[u] = th[u]
  BY <1>0 DEF QThreads
<1>4. /\ \A u \in Consumers, c \in Blocks : \A j \in Nat : Looks(u, c, j)' => Looks(u, c, j)
      /\ \A u \in Consumers, c \in Blocks : \A j \in Nat :
           Looks(u, c, j) /\ (c # b \/ j # i) => Looks(u, c, j)'
  BY <1>3 DEF Looks
<1>5. /\ blk'[b].nodes[k] = m
      /\ \A c \in Blocks, l \in Ring : c # b \/ l # k => blk'[c].nodes[l] = blk[c].nodes[l]
      /\ \A c \in Blocks : blk'[c].head = blk[c].head /\ blk'[c].tail = blk[c].tail
  BY DEF OneNode
<1>6. Claims'
  <2>1. \A c \in Blocks : \A l \in Ring :
          /\ blk'[c].nodes[l].idx % Size = l
          /\ blk'[c].nodes[l].val # NoValue => blk'[c].nodes[l].idx < blk'[c].tail
    <3>. SUFFICES ASSUME NEW c \in Blocks, NEW l \in Ring
         PROVE  /\ blk'[c].nodes[l].idx % Size = l
                /\ blk'[c].nodes[l].val # NoValue => blk'[c].nodes[l].idx < blk'[c].tail
      OBVIOUS
    <3>1. CASE c = b /\ l = k
      <4>1. n.val # NoValue => n.idx < blk[b].tail
        BY <1>0 DEF NodeInv, Claims
      <4>. HIDE DEF n
      <4> QED BY <3>1, <4>1, <1>0, <1>1, <1>5
    <3>2. CASE ~(c = b /\ l = k)
      BY <3>2, <1>5 DEF NodeInv, Claims
    <3> QED BY <3>1, <3>2
  <2>2. \A u \in Producers : th'[u].pc \in {"node", "cas", "full"} =>
          th'[u].i < blk'[th'[u].b].tail
    <3>. SUFFICES ASSUME NEW u \in Producers, th'[u].pc \in {"node", "cas", "full"}
         PROVE  th'[u].i < blk'[th'[u].b].tail
      OBVIOUS
    <3>1. th'[u] = th[u]
      BY <1>3
    <3>2. th[u].b \in Blocks
      BY <3>1, PushBlocks DEF InBlock
    <3> QED BY <3>1, <3>2, <1>5 DEF NodeInv, Claims
  <2>3. \A u \in Consumers : th'[u].pc \in {"look", "tail"} => th'[u].i < blk'[th'[u].b].head
    <3>. SUFFICES ASSUME NEW u \in Consumers, th'[u].pc \in {"look", "tail"}
         PROVE  th'[u].i < blk'[th'[u].b].head
      OBVIOUS
    <3>1. th'[u].b = th[u].b /\ th'[u].i = th[u].i /\ th[u].pc \in {"look", "tail"}
      BY <1>3
    <3>2. th[u].b \in Blocks
      BY <3>1, PushBlocks DEF InBlock
    <3> QED BY <3>1, <3>2, <1>5 DEF NodeInv, Claims
  <2>4. \A u, v \in Consumers : th'[u].pc = "look" /\ Looks(v, th[u].b, th[u].i)' => u = v
    BY <1>3 DEF Looks, NodeInv, Claims
  <2> QED BY <2>1, <2>2, <2>3, <2>4 DEF Claims
<1>7. Bound'
  <2>. SUFFICES ASSUME NEW c \in Blocks, NEW l \in Ring, blk'[c].nodes[l].val # NoValue,
                       blk'[c].nodes[l].idx < blk'[c].head
       PROVE  \E u \in Consumers : th'[u].pc = "look" /\ th'[u].b = c /\ th'[u].i = blk'[c].nodes[l].idx
    BY DEF Bound, Looks
  <2>1. CASE c = b /\ l = k
    <3>1. m.val # NoValue /\ m.idx < blk[b].head /\ m.val = n.val /\ m.idx = n.idx /\ m.idx # i
      BY <2>1, <1>1, <1>5, <1>0
    <3>2. \E u \in Consumers : Looks(u, b, n.idx)
      BY <3>1, <1>0 DEF NodeInv, Bound
    <3>3. PICK u \in Consumers : Looks(u, b, n.idx)
      BY <3>2
    <3>4. u # t
      BY <3>1, <3>3 DEF Looks
    <3>5. th'[u] = th[u]
      BY <3>4, <1>3
    <3> QED BY <2>1, <3>1, <3>3, <3>5, <1>5 DEF Looks
  <2>2. CASE ~(c = b /\ l = k)
    <3>1. blk'[c].nodes[l] = blk[c].nodes[l] /\ blk[c].nodes[l].idx \in Nat
      BY <2>2, <1>5, NodeTypes
    <3>2. PICK u \in Consumers : Looks(u, c, blk[c].nodes[l].idx)
      BY <3>1, <1>5 DEF Bound, NodeInv
    <3>3. c # b \/ blk[c].nodes[l].idx # i
      <4>1. blk[c].nodes[l].idx % Size = l
        BY DEF NodeInv, Claims
      <4> QED BY <4>1, <2>2
    <3>4. u # t
      BY <3>2, <3>3 DEF Looks
    <3>5. th'[u] = th[u]
      BY <3>4, <1>3
    <3> QED BY <3>1, <3>2, <3>5 DEF Looks
  <2> QED BY <2>1, <2>2
<1>8. Passed'
  <2>. SUFFICES ASSUME NEW c \in Blocks, NEW j \in Nat, j < blk'[c].head,
                       \A u \in Consumers : ~Looks(u, c, j)'
       PROVE  blk'[c].nodes[j % Size].idx > j \/ ~blk'[c].nodes[j % Size].safe
    BY DEF Passed, At2
  <2>0. j < blk[c].head /\ j % Size \in Ring
    BY <1>5, PlaceOf
  <2>a. (c # b \/ j # i) => blk[c].nodes[j % Size].idx > j \/ ~blk[c].nodes[j % Size].safe
    <3>1. (c # b \/ j # i) => \A u \in Consumers : ~Looks(u, c, j)
      BY <1>4
    <3> QED BY <2>0, <3>1 DEF Passed, NodeInv, At2
  <2>1. CASE c = b /\ j % Size = k
    <3>1. j # i => n.idx > j \/ ~n.safe
      BY <2>a, <2>1
    <3>. HIDE DEF n
    <3> QED BY <2>1, <3>1, <1>0, <1>1, <1>5
  <2>2. CASE ~(c = b /\ j % Size = k)
    BY <2>0, <2>a, <2>2, <1>5
  <2> QED BY <2>1, <2>2
<1>9. CasFresh'
  <2>. SUFFICES ASSUME NEW u \in Producers, th'[u].pc = "cas"  PROVE Fresh(u)'
    BY DEF CasFresh
  <2>1. th'[u] = th[u] /\ th[u].pc = "cas" /\ Fresh(u)
    BY <1>3 DEF NodeInv, CasFresh
  <2>2. /\ th[u].b \in Blocks /\ th[u].i \in Nat /\ th[u].i % Size \in Ring
        /\ th[u].d.idx \in Nat
    BY <2>1, PushBlocks, ThreadTypes, PlaceOf DEF InBlock
  <2>b. th[u].d.val = NoValue /\ th[u].d.idx <= th[u].i
    BY <2>1 DEF Fresh
  <2>3. CASE th[u].b = b /\ th[u].i % Size = k
    <3>1. At2(th[u].b, th[u].i) = n /\ At2(th[u].b, th[u].i)' = m
      BY <2>1, <2>3, <1>5 DEF At2
    <3>2. CASE n.idx > th[u].d.idx
      <4>1. m.idx > th[u].d.idx
        <5>. HIDE DEF n
        <5> QED BY <3>2, <1>0, <1>1, <2>2
      <4> QED BY <3>1, <4>1, <2>1, <2>b DEF Fresh
    <3>3. CASE n.idx = th[u].d.idx /\ n.val # NoValue
      <4>1. m.idx > th[u].d.idx \/ (m.idx = th[u].d.idx /\ m.val # NoValue)
        <5>. HIDE DEF n
        <5> QED BY <3>3, <1>0, <1>1, <2>2
      <4> QED BY <3>1, <4>1, <2>1, <2>b DEF Fresh
    <3>4. CASE /\ n = th[u].d
               /\ \A j \in Nat : j >= th[u].i /\ j < blk[b].head /\ j % Size = k
                    => \E v \in Consumers : Looks(v, b, j)
      <4>1. m.idx > n.idx \/ (m = n /\ n.idx > i)
        BY <3>4, <1>1, <2>b
      <4>2. CASE m.idx > n.idx
        BY <3>1, <3>4, <4>2, <2>1, <2>b DEF Fresh
      <4>3. CASE m = n /\ n.idx > i
        <5>1. th[u].i > i
          BY <4>3, <3>4, <2>b, <1>0, <2>2
        <5>2. \A j \in Nat : j >= th[u].i /\ j < blk'[b].head /\ j % Size = k
                    => \E v \in Consumers : WillLook(v, b, j)
          <6>. SUFFICES ASSUME NEW j \in Nat, j >= th[u].i, j < blk'[b].head, j % Size = k
               PROVE  \E v \in Consumers : WillLook(v, b, j)
            OBVIOUS
          <6>1. j # i /\ j < blk[b].head
            <7>1. blk'[b].head = blk[b].head
              BY <1>0, <1>5
            <7>2. i \in Nat /\ th[u].i \in Nat
              BY <1>0, <2>2
            <7>3. j # i
              BY <5>1, <7>2
            <7> QED BY <7>1, <7>3
          <6>2. PICK v \in Consumers : Looks(v, b, j)
            BY <6>1, <3>4
          <6>3. v # t
            BY <6>1, <6>2 DEF Looks
          <6> QED BY <6>2, <6>3, <1>3 DEF Looks, WillLook
        <5>3. At2(th[u].b, th[u].i)' = th'[u].d
          BY <3>1, <3>4, <4>3, <2>1
        <5>4. \A j \in Nat : j >= th'[u].i /\ j < blk'[th'[u].b].head /\ j % Size = th'[u].i % Size
                    => \E v \in Consumers : WillLook(v, th'[u].b, j)
          BY <5>2, <2>1, <2>3
        <5> QED BY <5>3, <5>4, <2>1, <2>b DEF Fresh, Looks, WillLook
      <4> QED BY <4>1, <4>2, <4>3
    <3> QED BY <2>1, <2>3, <3>1, <3>2, <3>3, <3>4 DEF Fresh
  <2>4. CASE ~(th[u].b = b /\ th[u].i % Size = k)
    <3>1. At2(th[u].b, th[u].i)' = At2(th[u].b, th[u].i)
      BY <2>1, <2>2, <2>4, <1>5 DEF At2
    <3>2. blk'[th[u].b].head = blk[th[u].b].head
      BY <2>2, <1>5
    <3>3. \A j \in Nat : j % Size = th[u].i % Size /\ (\E v \in Consumers : Looks(v, th[u].b, j))
            => \E v \in Consumers : WillLook(v, th[u].b, j)
      <4>. SUFFICES ASSUME NEW j \in Nat, j % Size = th[u].i % Size, NEW v \in Consumers,
                           Looks(v, th[u].b, j)
           PROVE  WillLook(v, th[u].b, j)
        OBVIOUS
      <4>1. v # t
        BY <2>4 DEF Looks
      <4> QED BY <4>1, <1>3 DEF Looks, WillLook
    <3> QED BY <3>1, <3>2, <3>3, <2>1 DEF Fresh, Looks, WillLook
  <2> QED BY <2>3, <2>4
<1> QED BY <1>6, <1>7, <1>8, <1>9 DEF NodeInv

-----------------------------------------------------------------------------
(* Indices are claimed.                                                    *)

LEMMA TailClaimed ==
  ASSUME QueueShape, ListInv, NodeInv, NEW t \in Producers, th[t].pc = "faa",
         \A c \in Blocks : blk'[c].nodes = blk[c].nodes /\ blk'[c].head = blk[c].head,
         \A c \in Blocks : c # th[t].b => blk'[c].tail = blk[c].tail,
         blk'[th[t].b].tail = B(t).tail + 1,
         th'[t].b = th[t].b, th'[t].i = B(t).tail, th'[t].pc \in {"node", "alloc"},
         \A u \in QThreads : u # t => th'[u] = th[u]
  PROVE  NodeInv'
<1>0. /\ th[t].b \in Blocks /\ B(t).tail \in Nat /\ B(t) = blk[th[t].b]
      /\ t \notin Consumers /\ t \in QThreads
  BY PushBlocks, NodeTypes, PcsApart DEF InBlock, QThreads, B
<1>1. /\ \A u \in Consumers : th'[u] = th[u]
      /\ \A u \in Producers : u # t => th'[u] = th[u]
  BY <1>0 DEF QThreads
<1>2. \A u \in Consumers, b \in Blocks : \A j \in Nat : Looks(u, b, j)' <=> Looks(u, b, j)
  BY <1>1 DEF Looks
<1>3. \A c \in Blocks : blk'[c].tail \in Nat /\ blk'[c].tail >= blk[c].tail
  BY <1>0, NodeTypes
<1>4. Claims'
  <2>1. \A b \in Blocks : \A n \in Ring :
          /\ blk'[b].nodes[n].idx % Size = n
          /\ blk'[b].nodes[n].val # NoValue => blk'[b].nodes[n].idx < blk'[b].tail
    <3>. SUFFICES ASSUME NEW b \in Blocks, NEW n \in Ring
         PROVE  /\ blk'[b].nodes[n].idx % Size = n
                /\ blk'[b].nodes[n].val # NoValue => blk'[b].nodes[n].idx < blk'[b].tail
      OBVIOUS
    <3>1. /\ blk[b].nodes[n].idx % Size = n /\ blk[b].nodes[n].idx \in Nat
          /\ blk[b].nodes[n].val # NoValue => blk[b].nodes[n].idx < blk[b].tail
          /\ blk[b].tail \in Nat
      BY NodeTypes DEF NodeInv, Claims
    <3> QED BY <3>1, <1>3
  <2>2. \A u \in Producers : th'[u].pc \in {"node", "cas", "full"} =>
          th'[u].i < blk'[th'[u].b].tail
    <3>. SUFFICES ASSUME NEW u \in Producers, th'[u].pc \in {"node", "cas", "full"}
         PROVE  th'[u].i < blk'[th'[u].b].tail
      OBVIOUS
    <3>1. CASE u = t
      BY <3>1, <1>0
    <3>2. CASE u # t
      <4>1. /\ th'[u] = th[u] /\ th[u].pc \in {"node", "cas", "full"}
            /\ th[u].i < blk[th[u].b].tail
        BY <3>2, <1>1 DEF NodeInv, Claims
      <4>2. th[u].b \in Blocks /\ th[u].i \in Nat
        BY <4>1, PushBlocks, ThreadTypes DEF InBlock
      <4>3. blk[th[u].b].tail \in Nat
        BY <4>2, NodeTypes
      <4> QED BY <4>1, <4>2, <4>3, <1>3
    <3> QED BY <3>1, <3>2
  <2>3. \A u \in Consumers : th'[u].pc \in {"look", "tail"} => th'[u].i < blk'[th'[u].b].head
    <3>. SUFFICES ASSUME NEW u \in Consumers, th'[u].pc \in {"look", "tail"}
         PROVE  th'[u].i < blk'[th'[u].b].head
      OBVIOUS
    <3>1. th'[u] = th[u] /\ th[u].b \in Blocks
      BY <1>1, PushBlocks DEF InBlock
    <3> QED BY <3>1 DEF NodeInv, Claims
  <2>4. \A u, v \in Consumers : th'[u].pc = "look" /\ Looks(v, th[u].b, th[u].i)' => u = v
    BY <1>1 DEF Looks, NodeInv, Claims
  <2> QED BY <2>1, <2>2, <2>3, <2>4 DEF Claims
<1>5. Bound'
  BY <1>2, NodeTypes DEF Bound, NodeInv
<1>6. Passed'
  BY <1>2 DEF Passed, NodeInv, At2
<1>7. CasFresh'
  <2>. SUFFICES ASSUME NEW u \in Producers, th'[u].pc = "cas"  PROVE Fresh(u)'
    BY DEF CasFresh
  <2>1. u # t /\ th'[u] = th[u] /\ th[u].pc = "cas" /\ Fresh(u)
    BY <1>1 DEF NodeInv, CasFresh
  <2>2. th[u].b \in Blocks
    BY <2>1, PushBlocks DEF InBlock
  <2>3. At2(th[u].b, th[u].i)' = At2(th[u].b, th[u].i) /\ blk'[th[u].b].head = blk[th[u].b].head
    BY <2>1, <2>2 DEF At2
  <2> QED BY <1>2, <2>1, <2>2, <2>3 DEF Fresh
<1> QED BY <1>4, <1>5, <1>6, <1>7 DEF NodeInv

\* A push looks at its node.
LEMMA LookNodes ==
  ASSUME QueueShape, ListInv, NodeInv, NEW t \in Producers, PushLook(t)
  PROVE  NodeInv'
<1>0. /\ th[t].pc = "node" /\ th[t].b \in Blocks /\ th[t].i \in Nat
      /\ t \notin Consumers /\ t \in QThreads /\ UNCHANGED blk
      /\ th[t].i % Size \in Ring /\ At(t) \in NodeRecords /\ At(t).idx \in Nat
  BY PushBlocks, ThreadTypes, PcsApart, PlaceOf, NodeTypes DEF InBlock, QThreads, PushLook, At, B
<1>1. th' = [th EXCEPT ![t] = [th[t] EXCEPT !.d = At(t),
                    !.pc = IF /\ At(t).val = NoValue /\ At(t).idx <= th[t].i
                              /\ At(t).safe \/ B(t).head <= th[t].i
                           THEN "cas" ELSE "full"]]
  BY <1>0 DEF PushLook, QueueShape
<1>2. /\ th'[t].b = th[t].b /\ th'[t].i = th[t].i /\ th'[t].pc \in {"cas", "full"}
      /\ th'[t].pc = "cas" => /\ At(t).val = NoValue /\ At(t).idx <= th[t].i
                              /\ At(t).safe \/ B(t).head <= th[t].i
                              /\ th'[t].d = At(t)
      /\ \A u \in QThreads : u # t => th'[u] = th[u]
  BY <1>0, <1>1 DEF QueueShape, ThreadRecords
<1>3. /\ \A u \in Consumers : th'[u] = th[u]
      /\ \A u \in Producers : u # t => th'[u] = th[u]
  BY <1>0, <1>2 DEF QThreads
<1>4. \A u \in Consumers, b \in Blocks : \A j \in Nat : Looks(u, b, j)' <=> Looks(u, b, j)
  BY <1>3 DEF Looks
<1>5. Claims'
  <2>1. \A u \in Producers : th'[u].pc \in {"node", "cas", "full"} =>
          th'[u].i < blk'[th'[u].b].tail
    BY <1>0, <1>2, <1>3 DEF NodeInv, Claims
  <2>2. \A u, v \in Consumers : th'[u].pc = "look" /\ Looks(v, th[u].b, th[u].i)' => u = v
    BY <1>3 DEF Looks, NodeInv, Claims
  <2>3. \A u \in Consumers : th'[u].pc \in {"look", "tail"} => th'[u].i < blk'[th'[u].b].head
    BY <1>0, <1>3 DEF NodeInv, Claims
  <2> QED BY <1>0, <2>1, <2>2, <2>3 DEF Claims, NodeInv
<1>6. Bound'
  BY <1>0, <1>4, NodeTypes DEF Bound, NodeInv
<1>7. Passed'
  BY <1>0, <1>4 DEF Passed, NodeInv, At2
<1>8. CasFresh'
  <2>. SUFFICES ASSUME NEW u \in Producers, th'[u].pc = "cas"  PROVE Fresh(u)'
    BY DEF CasFresh
  <2>1. CASE u = t
    <3>. DEFINE n == At(t)
                i == th[t].i
    <3>1. /\ n.val = NoValue /\ n.idx <= i /\ (n.safe \/ B(t).head <= i)
          /\ th'[t].d = n /\ At2(th[t].b, i) = n /\ At2(th[t].b, i)' = n
      BY <2>1, <1>0, <1>2 DEF At, At2, B
    <3>2. \A j \in Nat : j >= i /\ j < blk[th[t].b].head /\ j % Size = i % Size
                           => \E v \in Consumers : Looks(v, th[t].b, j)
      <4>. SUFFICES ASSUME NEW j \in Nat, j >= i, j < blk[th[t].b].head, j % Size = i % Size,
                           \A v \in Consumers : ~Looks(v, th[t].b, j)
           PROVE  FALSE
        OBVIOUS
      <4>1. At2(th[t].b, j) = n
        BY <3>1 DEF At2
      <4>2. n.idx > j \/ ~n.safe
        BY <4>1, <1>0 DEF NodeInv, Passed
      <4>3. B(t).head > i /\ B(t).head \in Nat
        BY <1>0, NodeTypes DEF B
      <4>4. n.idx \in Nat /\ i \in Nat
        BY <1>0
      <4>. HIDE DEF n
      <4> QED BY <3>1, <4>2, <4>3, <4>4
    <3> QED BY <2>1, <3>1, <3>2, <1>0, <1>2, <1>4 DEF Fresh, At2
  <2>2. CASE u # t
    <3>1. th'[u] = th[u] /\ th[u].pc = "cas" /\ Fresh(u)
      BY <2>2, <1>3 DEF NodeInv, CasFresh
    <3>2. th[u].b \in Blocks
      BY <3>1, PushBlocks DEF InBlock
    <3> QED BY <1>0, <1>4, <3>1, <3>2 DEF Fresh, At2
  <2> QED BY <2>1, <2>2
<1> QED BY <1>5, <1>6, <1>7, <1>8 DEF NodeInv

\* A consumer claims the index at the head.
LEMMA HeadClaimed ==
  ASSUME QueueShape, ListInv, NodeInv, NEW t \in Consumers, th[t].pc = "take",
         \A c \in Blocks : blk'[c].nodes = blk[c].nodes /\ blk'[c].tail = blk[c].tail,
         \A c \in Blocks : c # th[t].b => blk'[c].head = blk[c].head,
         blk'[th[t].b].head = B(t).head + 1,
         th'[t].b = th[t].b, th'[t].i = B(t).head, th'[t].pc = "look",
         \A u \in QThreads : u # t => th'[u] = th[u]
  PROVE  NodeInv'
<1>. DEFINE b == th[t].b
            h == B(t).head
<1>0. /\ b \in Blocks /\ h \in Nat /\ h = blk[b].head
      /\ t \notin Producers /\ t \in QThreads
  BY PushBlocks, NodeTypes, PcsApart DEF InBlock, QThreads, B
<1>1. /\ \A u \in Producers : th'[u] = th[u]
      /\ \A u \in Consumers : u # t => th'[u] = th[u]
  BY <1>0 DEF QThreads
<1>2. /\ \A u \in Consumers, c \in Blocks : \A j \in Nat : Looks(u, c, j) => Looks(u, c, j)'
      /\ WillLook(t, b, h)
  BY <1>1 DEF Looks, WillLook
<1>3. \A c \in Blocks : /\ blk[c].head \in Nat /\ blk'[c].head \in Nat
                        /\ blk'[c].head >= blk[c].head
                        /\ \A j \in Nat : j < blk'[c].head => j < blk[c].head \/ (c = b /\ j = h)
  BY <1>0, NodeTypes
<1>4. Claims'
  <2>1. \A u \in Producers : th'[u].pc \in {"node", "cas", "full"} =>
          th'[u].i < blk'[th'[u].b].tail
    BY <1>1, PushBlocks DEF NodeInv, Claims, InBlock
  <2>2. \A u \in Consumers : th'[u].pc \in {"look", "tail"} => th'[u].i < blk'[th'[u].b].head
    <3>. SUFFICES ASSUME NEW u \in Consumers, th'[u].pc \in {"look", "tail"}
         PROVE  th'[u].i < blk'[th'[u].b].head
      OBVIOUS
    <3>1. CASE u = t
      BY <3>1, <1>0
    <3>2. CASE u # t
      <4>1. th'[u] = th[u] /\ th[u].b \in Blocks /\ th[u].i \in Nat /\ th[u].i < blk[th[u].b].head
        BY <3>2, <1>1, PushBlocks, ThreadTypes DEF InBlock, NodeInv, Claims
      <4> QED BY <4>1, <1>3
    <3> QED BY <3>1, <3>2
  <2>3. \A u, v \in Consumers : th'[u].pc = "look" /\ Looks(v, th[u].b, th[u].i)' => u = v
    <3>. SUFFICES ASSUME NEW u \in Consumers, NEW v \in Consumers, th'[u].pc = "look",
                         th'[v].pc = "look", th'[v].b = th'[u].b, th'[v].i = th'[u].i, u # v
         PROVE  FALSE
      BY DEF Looks
    <3>1. CASE u # t /\ v # t
      BY <3>1, <1>1 DEF NodeInv, Claims, Looks
    <3>2. ASSUME NEW x \in Consumers, x # t, th'[x].pc = "look", th'[x].b = b, th'[x].i = h
          PROVE  FALSE
      <4>1. th[x].pc = "look" /\ th[x].b = b /\ th[x].i = h
        BY <3>2, <1>1
      <4> QED BY <4>1, <1>0 DEF NodeInv, Claims
    <3> QED BY <3>1, <3>2
  <2>4. \A c \in Blocks : \A n \in Ring :
          /\ blk'[c].nodes[n].idx % Size = n
          /\ blk'[c].nodes[n].val # NoValue => blk'[c].nodes[n].idx < blk'[c].tail
    BY DEF NodeInv, Claims
  <2> QED BY <2>1, <2>2, <2>3, <2>4 DEF Claims
<1>5. Bound'
  <2>. SUFFICES ASSUME NEW c \in Blocks, NEW l \in Ring, blk[c].nodes[l].val # NoValue,
                       blk[c].nodes[l].idx < blk'[c].head
       PROVE  \E u \in Consumers : WillLook(u, c, blk[c].nodes[l].idx)
    BY DEF Bound, Looks, WillLook
  <2>1. blk[c].nodes[l].idx \in Nat
    BY NodeTypes
  <2>2. CASE blk[c].nodes[l].idx < blk[c].head
    <3>1. PICK u \in Consumers : Looks(u, c, blk[c].nodes[l].idx)
      BY <2>2 DEF NodeInv, Bound
    <3>2. u # t
      BY <3>1 DEF Looks
    <3> QED BY <3>1, <3>2, <1>1 DEF Looks, WillLook
  <2>3. CASE c = b /\ blk[c].nodes[l].idx = h
    BY <2>3, <1>2
  <2> QED BY <2>1, <2>2, <2>3, <1>3
<1>6. Passed'
  <2>. SUFFICES ASSUME NEW c \in Blocks, NEW j \in Nat, j < blk'[c].head,
                       \A u \in Consumers : ~Looks(u, c, j)'
       PROVE  At2(c, j).idx > j \/ ~At2(c, j).safe
    BY DEF Passed, At2
  <2>1. j < blk[c].head /\ \A u \in Consumers : ~Looks(u, c, j)
    BY <1>2, <1>3 DEF Looks, WillLook
  <2> QED BY <2>1 DEF NodeInv, Passed
<1>7. CasFresh'
  <2>. SUFFICES ASSUME NEW u \in Producers, th'[u].pc = "cas"  PROVE Fresh(u)'
    BY DEF CasFresh
  <2>1. th'[u] = th[u] /\ th[u].pc = "cas" /\ Fresh(u)
    BY <1>1 DEF NodeInv, CasFresh
  <2>2. th[u].b \in Blocks
    BY <2>1, PushBlocks DEF InBlock
  <2>3. At2(th[u].b, th[u].i)' = At2(th[u].b, th[u].i)
    BY <2>1, <2>2 DEF At2
  <2>4. ASSUME NEW j \in Nat, j < blk'[th[u].b].head,
               j < blk[th[u].b].head => \E v \in Consumers : Looks(v, th[u].b, j)
        PROVE  \E v \in Consumers : WillLook(v, th[u].b, j)
    <3>1. ASSUME NEW v \in Consumers, Looks(v, th[u].b, j)  PROVE WillLook(v, th[u].b, j)
      <4>1. v # t
        BY <3>1 DEF Looks
      <4> QED BY <3>1, <4>1, <1>1 DEF Looks, WillLook
    <3>2. j < blk[th[u].b].head \/ (th[u].b = b /\ j = h)
      BY <2>2, <2>4, <1>3
    <3> QED BY <3>1, <3>2, <2>4, <1>2
  <2>5. /\ \A j \in Nat : j < blk'[th[u].b].head
                          /\ (j < blk[th[u].b].head => \E v \in Consumers : Looks(v, th[u].b, j))
             => \E v \in Consumers : WillLook(v, th[u].b, j)
    BY <2>4
  <2> QED BY <2>1, <2>3, <2>5 DEF Fresh, Looks, WillLook
<1> QED BY <1>4, <1>5, <1>6, <1>7 DEF NodeInv

-----------------------------------------------------------------------------
(* A block is handed out.                                                  *)

\* No thread is in a block that can be handed out.
LEMMA NobodyIn ==
  ASSUME QueueShape, ListInv, NEW t \in Producers, NEW b \in Blocks,
         \/ blk[b].state = "garbage" /\ ~Hazard(t, b) /\ hp[t] # b
         \/ blk[b].state \in {"prepared", "free"}
  PROVE  \A u \in QThreads : th[u].pc \in InBlock => th[u].b # b
<1>. SUFFICES ASSUME NEW u \in QThreads, th[u].pc \in InBlock, th[u].b = b  PROVE FALSE
  OBVIOUS
<1>1. b \in Shared \cup Dead /\ hp[u] = b
  BY DEF ListInv, Guarded
<1> QED BY <1>1 DEF Shared, Dead, Hazard

LEMMA NewBlockFields ==
  ASSUME NEW v
  PROVE  /\ NewBlock(v).head = 0 /\ NewBlock(v).next = NoBlock /\ NewBlock(v).state = "used"
         /\ NewBlock(v).closed = FALSE /\ (v # NoValue => NewBlock(v).tail = 1)
         /\ \A n \in Ring : NewBlock(v).nodes[n] = Node(n, IF n = 0 THEN v ELSE NoValue)
BY DEF NewBlock

LEMMA AllocNodes ==
  ASSUME QueueShape, ListInv, NodeInv, NEW t \in Producers, NEW b \in Blocks, NEW v \in Values,
         blk' = [blk EXCEPT ![b] = NewBlock(v)],
         \A u \in QThreads : th[u].pc \in InBlock => th[u].b # b,
         \A u \in QThreads : u # t => th'[u] = th[u],
         th'[t].pc \notin {"node", "cas", "full"}
  PROVE  NodeInv'
<1>0. /\ t \notin Consumers /\ t \in QThreads
      /\ \A u \in Consumers : th'[u] = th[u]
      /\ \A u \in Producers : u # t => th'[u] = th[u]
      /\ \A u \in Consumers \cup Producers : th[u].pc \in InBlock => th[u].b # b
  BY PcsApart DEF QThreads
<1>1. /\ \A c \in Blocks : c # b => blk'[c] = blk[c]
      /\ blk'[b] = NewBlock(v)
  BY DEF QueueShape
<1>2. \A u \in Consumers, c \in Blocks : \A j \in Nat : Looks(u, c, j)' <=> Looks(u, c, j)
  BY <1>0 DEF Looks
<1>3. /\ blk'[b].head = 0 /\ blk'[b].tail = 1
      /\ \A n \in Ring : /\ blk'[b].nodes[n].idx = n
                         /\ blk'[b].nodes[n].val # NoValue => n = 0
  <2>1. v # NoValue
    BY ScriptAssumption
  <2>2. /\ NewBlock(v).head = 0 /\ NewBlock(v).tail = 1
        /\ \A n \in Ring : /\ NewBlock(v).nodes[n].idx = n
                           /\ NewBlock(v).nodes[n].val # NoValue => n = 0
    BY <2>1 DEF NewBlock, Node
  <2>. QED BY <1>1, <2>2
<1>4. Claims'
  <2>1. \A c \in Blocks : \A n \in Ring :
          /\ blk'[c].nodes[n].idx % Size = n
          /\ blk'[c].nodes[n].val # NoValue => blk'[c].nodes[n].idx < blk'[c].tail
    <3>. SUFFICES ASSUME NEW c \in Blocks, NEW n \in Ring
         PROVE  /\ blk'[c].nodes[n].idx % Size = n
                /\ blk'[c].nodes[n].val # NoValue => blk'[c].nodes[n].idx < blk'[c].tail
      OBVIOUS
    <3>1. CASE c = b
      BY <3>1, <1>3, FirstRound
    <3>2. CASE c # b
      BY <3>2, <1>1 DEF NodeInv, Claims
    <3> QED BY <3>1, <3>2
  <2>2. \A u \in Producers : th'[u].pc \in {"node", "cas", "full"} =>
          th'[u].i < blk'[th'[u].b].tail
    BY <1>0, <1>1, PushBlocks DEF NodeInv, Claims, InBlock
  <2>3. \A u \in Consumers : th'[u].pc \in {"look", "tail"} => th'[u].i < blk'[th'[u].b].head
    BY <1>0, <1>1, PushBlocks DEF NodeInv, Claims, InBlock
  <2>4. \A u, w \in Consumers : th'[u].pc = "look" /\ Looks(w, th[u].b, th[u].i)' => u = w
    BY <1>0 DEF Looks, NodeInv, Claims
  <2> QED BY <2>1, <2>2, <2>3, <2>4 DEF Claims
<1>5. Bound'
  <2>. SUFFICES ASSUME NEW c \in Blocks, NEW l \in Ring, blk'[c].nodes[l].val # NoValue,
                       blk'[c].nodes[l].idx < blk'[c].head
       PROVE  \E u \in Consumers : th'[u].pc = "look" /\ th'[u].b = c /\ th'[u].i = blk'[c].nodes[l].idx
    BY DEF Bound, Looks
  <2>1. c # b
    BY <1>3 DEF Ring
  <2>2. PICK u \in Consumers : Looks(u, c, blk[c].nodes[l].idx)
    BY <2>1, <1>1 DEF NodeInv, Bound
  <2> QED BY <2>1, <2>2, <1>0, <1>1 DEF Looks
<1>6. Passed'
  <2>. SUFFICES ASSUME NEW c \in Blocks, NEW j \in Nat, j < blk'[c].head,
                       \A u \in Consumers : ~Looks(u, c, j)'
       PROVE  At2(c, j)'.idx > j \/ ~At2(c, j)'.safe
    BY DEF Passed, At2
  <2>1. c # b
    BY <1>3
  <2> QED BY <2>1, <1>1, <1>2 DEF NodeInv, Passed, At2
<1>7. CasFresh'
  <2>. SUFFICES ASSUME NEW u \in Producers, th'[u].pc = "cas"  PROVE Fresh(u)'
    BY DEF CasFresh
  <2>1. u # t /\ th'[u] = th[u] /\ th[u].pc = "cas" /\ Fresh(u)
    BY <1>0 DEF NodeInv, CasFresh
  <2>2. th[u].b \in Blocks /\ th[u].b # b
    BY <2>1, <1>0, PushBlocks DEF InBlock
  <2>3. At2(th[u].b, th[u].i)' = At2(th[u].b, th[u].i) /\ blk'[th[u].b] = blk[th[u].b]
    BY <2>1, <2>2, <1>1 DEF At2
  <2> QED BY <1>2, <2>1, <2>2, <2>3 DEF Fresh
<1> QED BY <1>4, <1>5, <1>6, <1>7 DEF NodeInv

-----------------------------------------------------------------------------
(* What the steps do to the thread that takes them.                        *)

Alone(t) == \A u \in QThreads : u # t => th'[u] = th[u]
Moved(t, from, to) == /\ th[t].pc = from /\ th'[t].pc = to /\ th'[t].done = th[t].done
                      /\ Alone(t)

LEMMA PushMoves ==
  ASSUME QueueShape, NEW t \in Producers
  PROVE  /\ PushProtect(t) => Moved(t, "push", "faa") /\ UNCHANGED <<blk, popped>>
         /\ PushClaim(t) =>
              \/ /\ Moved(t, "faa", "push") /\ UNCHANGED blk
              \/ /\ Moved(t, "faa", IF B(t).closed THEN "alloc" ELSE "node")
                 /\ th'[t].b = th[t].b /\ th'[t].i = B(t).tail
                 /\ blk' = [blk EXCEPT ![th[t].b].tail = @ + 1]
         /\ PushLook(t) => /\ \E to \in {"cas", "full"} : Moved(t, "node", to)
                           /\ UNCHANGED blk /\ th'[t].b = th[t].b /\ th'[t].i = th[t].i
         /\ PushSwap(t) =>
              \/ /\ At(t) = th[t].d /\ Moved(t, "cas", "post")
                 /\ blk' = [blk EXCEPT ![th[t].b].nodes[th[t].i % Size] =
                              Node(th[t].i, Val(t))]
              \/ /\ Moved(t, "cas", "full") /\ UNCHANGED blk
                 /\ th'[t].b = th[t].b /\ th'[t].i = th[t].i
         /\ PushFull(t) =>
              /\ th'[t].b = th[t].b
              /\ \/ /\ Moved(t, "full", "alloc")
                    /\ blk' = [blk EXCEPT ![th[t].b].closed = TRUE]
                 \/ Moved(t, "full", "faa") /\ UNCHANGED blk
         /\ PushAlloc(t) =>
              /\ Moved(t, "alloc", "link") /\ th'[t].b = th[t].b
              /\ \E b \in Blocks :
                   /\ \/ blk[b].state = "garbage" /\ ~Hazard(t, b) /\ hp[t] # b
                      \/ blk[b].state \in {"prepared", "free"}
                   /\ blk' = [blk EXCEPT ![b] = NewBlock(Val(t))]
                   /\ th'[t].new = b
         /\ PushLink(t) =>
              \/ /\ Moved(t, "link", "swing") /\ B(t).next = NoBlock
                 /\ th'[t].b = th[t].b /\ th'[t].new = th[t].new
                 /\ blk' = [blk EXCEPT ![th[t].b].next = th[t].new]
              \/ /\ Moved(t, "link", "push") /\ B(t).next # NoBlock
                 /\ blk' = [blk EXCEPT ![th[t].new].state = "prepared"]
         /\ PushSwing(t) => Moved(t, "swing", "post") /\ UNCHANGED blk
         /\ PushPost(t) => Moved(t, "post", "wake") /\ UNCHANGED blk
         /\ PushStep(t) => popped' = popped
<1>. USE DEF Moved, Alone
<1>0. t \in QThreads /\ th \in [QThreads -> ThreadRecords] /\ th[t] \in ThreadRecords
  BY DEF QThreads, QueueShape
<1>1. PushProtect(t) => Moved(t, "push", "faa") /\ UNCHANGED <<blk, popped>>
  BY <1>0 DEF PushProtect, ThreadRecords
<1>2. PushClaim(t) =>
              \/ /\ Moved(t, "faa", "push") /\ UNCHANGED blk
              \/ /\ Moved(t, "faa", IF B(t).closed THEN "alloc" ELSE "node")
                 /\ th'[t].b = th[t].b /\ th'[t].i = B(t).tail
                 /\ blk' = [blk EXCEPT ![th[t].b].tail = @ + 1]
  BY <1>0 DEF PushClaim, GoTo, ThreadRecords
<1>3. PushLook(t) => /\ \E to \in {"cas", "full"} : Moved(t, "node", to)
                     /\ UNCHANGED blk /\ th'[t].b = th[t].b /\ th'[t].i = th[t].i
  <2>. SUFFICES ASSUME PushLook(t)
       PROVE /\ \E to \in {"cas", "full"} : Moved(t, "node", to)
             /\ UNCHANGED blk /\ th'[t].b = th[t].b /\ th'[t].i = th[t].i
    OBVIOUS
  <2>1. PICK to \in {"cas", "full"} : th' = [th EXCEPT ![t] = [th[t] EXCEPT !.d = At(t), !.pc = to]]
    BY <1>0 DEF PushLook
  <2> QED BY <2>1, <1>0 DEF PushLook, ThreadRecords
<1>4. PushSwap(t) =>
              \/ /\ At(t) = th[t].d /\ Moved(t, "cas", "post")
                 /\ blk' = [blk EXCEPT ![th[t].b].nodes[th[t].i % Size] =
                              Node(th[t].i, Val(t))]
              \/ /\ Moved(t, "cas", "full") /\ UNCHANGED blk
                 /\ th'[t].b = th[t].b /\ th'[t].i = th[t].i
  BY <1>0 DEF PushSwap, GoTo, ThreadRecords
<1>5. PushFull(t) =>
              /\ th'[t].b = th[t].b
              /\ \/ /\ Moved(t, "full", "alloc")
                    /\ blk' = [blk EXCEPT ![th[t].b].closed = TRUE]
                 \/ Moved(t, "full", "faa") /\ UNCHANGED blk
  <2>. SUFFICES ASSUME PushFull(t)
       PROVE  /\ th'[t].b = th[t].b
              /\ \/ /\ Moved(t, "full", "alloc")
                    /\ blk' = [blk EXCEPT ![th[t].b].closed = TRUE]
                 \/ Moved(t, "full", "faa") /\ UNCHANGED blk
    OBVIOUS
  <2>1. \/ /\ th' = [th EXCEPT ![t] = [th[t] EXCEPT !.it = @ + 1, !.pc = "alloc"]]
           /\ blk' = [blk EXCEPT ![th[t].b].closed = TRUE]
        \/ /\ th' = [th EXCEPT ![t] = [th[t] EXCEPT !.it = @ + 1, !.pc = "faa"]]
           /\ UNCHANGED blk
    BY <1>0 DEF PushFull
  <2> QED BY <2>1, <1>0 DEF PushFull, ThreadRecords
<1>6. PushAlloc(t) =>
              /\ Moved(t, "alloc", "link") /\ th'[t].b = th[t].b
              /\ \E b \in Blocks :
                   /\ \/ blk[b].state = "garbage" /\ ~Hazard(t, b) /\ hp[t] # b
                      \/ blk[b].state \in {"prepared", "free"}
                   /\ blk' = [blk EXCEPT ![b] = NewBlock(Val(t))]
                   /\ th'[t].new = b
  <2>. SUFFICES ASSUME PushAlloc(t)
       PROVE  /\ Moved(t, "alloc", "link") /\ th'[t].b = th[t].b
              /\ \E b \in Blocks :
                   /\ \/ blk[b].state = "garbage" /\ ~Hazard(t, b) /\ hp[t] # b
                      \/ blk[b].state \in {"prepared", "free"}
                   /\ blk' = [blk EXCEPT ![b] = NewBlock(Val(t))]
                   /\ th'[t].new = b
    OBVIOUS
  <2>1. PICK b \in Blocks :
          /\ \/ blk[b].state = "garbage" /\ ~Hazard(t, b) /\ hp[t] # b
             \/ blk[b].state \in {"prepared", "free"}
          /\ blk' = [blk EXCEPT ![b] = NewBlock(Val(t))]
          /\ th' = [th EXCEPT ![t] = [th[t] EXCEPT !.new = b, !.pc = "link"]]
    BY <1>0 DEF PushAlloc
  <2>2. th'[t] = [th[t] EXCEPT !.new = b, !.pc = "link"] /\ \A u \in QThreads : u # t => th'[u] = th[u]
    BY <1>0, <2>1
  <2>3. /\ th'[t].pc = "link" /\ th'[t].new = b /\ th'[t].b = th[t].b /\ th'[t].done = th[t].done
        /\ th[t].pc = "alloc"
    BY <1>0, <2>2 DEF ThreadRecords, PushAlloc
  <2> QED BY <2>1, <2>2, <2>3
<1>7. PushLink(t) =>
              \/ /\ Moved(t, "link", "swing") /\ B(t).next = NoBlock
                 /\ th'[t].b = th[t].b /\ th'[t].new = th[t].new
                 /\ blk' = [blk EXCEPT ![th[t].b].next = th[t].new]
              \/ /\ Moved(t, "link", "push") /\ B(t).next # NoBlock
                 /\ blk' = [blk EXCEPT ![th[t].new].state = "prepared"]
  BY <1>0 DEF PushLink, GoTo, ThreadRecords
<1>8. /\ PushSwing(t) => Moved(t, "swing", "post") /\ UNCHANGED blk
      /\ PushPost(t) => Moved(t, "post", "wake") /\ UNCHANGED blk
  BY <1>0 DEF PushSwing, PushPost, GoTo, ThreadRecords
<1>9. PushStep(t) => popped' = popped
  BY DEF PushStep, PushProtect, PushClaim, PushLook, PushSwap, PushFull, PushAlloc,
         PushLink, PushSwing, PushPost, PushWake
<1> QED BY <1>1, <1>2, <1>3, <1>4, <1>5, <1>6, <1>7, <1>8, <1>9

LEMMA WakeMoves ==
  ASSUME QueueShape, NEW t \in Producers, PushWake(t)
  PROVE  /\ th[t].pc = "wake" /\ th'[t].pc = "push" /\ th'[t].done = th[t].done + 1
         /\ \A u \in Producers : u # t => th'[u] = th[u]
         /\ \A u \in Consumers : th'[u] = th[u] \/ (th[u].pc = "asleep" /\ th'[u].pc = "woken")
         /\ UNCHANGED <<blk, mq, hp, popped>>
<1>0. /\ t \in QThreads /\ th \in [QThreads -> ThreadRecords] /\ th[t] \in ThreadRecords
      /\ t \notin Consumers /\ Producers \subseteq QThreads /\ Consumers \subseteq QThreads
      /\ Producers \cap Consumers = {}
  BY PcsApart DEF QThreads, QueueShape
<1>. DEFINE T2 == [QIdle("push") EXCEPT !.done = th[t].done + 1]
            next == [th EXCEPT ![t] = T2]
<1>1. T2.pc = "push" /\ T2.done = th[t].done + 1
  BY DEF QIdle
<1>2. th' = next \/ \E u \in Consumers : th[u].pc = "asleep" /\ th' = [next EXCEPT ![u].pc = "woken"]
  BY DEF PushWake
<1>3. th[t].pc = "wake" /\ UNCHANGED <<blk, mq, hp, popped>>
  BY DEF PushWake
<1>. HIDE DEF T2
<1>4. CASE th' = next
  BY <1>0, <1>1, <1>3, <1>4
<1>5. ASSUME NEW u \in Consumers, th[u].pc = "asleep", th' = [next EXCEPT ![u].pc = "woken"]
      PROVE  /\ th'[t].pc = "push" /\ th'[t].done = th[t].done + 1
             /\ \A x \in Producers : x # t => th'[x] = th[x]
             /\ \A x \in Consumers : th'[x] = th[x] \/ (th[x].pc = "asleep" /\ th'[x].pc = "woken")
  <2>1. u # t /\ th'[u] = [th[u] EXCEPT !.pc = "woken"] /\ th[u] \in ThreadRecords
    BY <1>0, <1>5
  <2>2. th'[u].pc = "woken"
    BY <2>1 DEF ThreadRecords
  <2>3. th'[t] = T2 /\ \A x \in QThreads : x # t /\ x # u => th'[x] = th[x]
    BY <1>0, <1>5
  <2> QED BY <1>0, <1>1, <1>5, <2>1, <2>2, <2>3
<1> QED BY <1>2, <1>3, <1>4, <1>5

\* The thread stays in its block.
Stays(t) == th'[t].b = th[t].b /\ th'[t].again = th[t].again

SemSteps(t) == SemRead(t) \/ SemTake(t) \/ SemUndo(t) \/ SemAnnounce(t) \/ SemFutex(t)
                 \/ SemWoken(t)

LEMMA PopMoves ==
  ASSUME QueueShape, NEW t \in Consumers
  PROVE  /\ SemSteps(t) =>
              /\ \E from \in {"wait", "dec", "undo", "announce", "futex", "woken"},
                    to \in {"wait", "dec", "undo", "announce", "futex", "asleep", "woken", "pop"} :
                   Moved(t, from, to)
              /\ UNCHANGED <<blk, popped>>
         /\ PopProtect(t) => /\ Moved(t, "pop", "take") /\ UNCHANGED <<blk, mq, popped>>
                             /\ th'[t].again = FALSE /\ th'[t].b = mq.head
         /\ PopClaim(t) => /\ Moved(t, "take", "look") /\ Stays(t) /\ th'[t].i = B(t).head
                           /\ blk' = [blk EXCEPT ![th[t].b].head = @ + 1]
                           /\ UNCHANGED <<mq, popped>>
         /\ PopTail(t) => /\ Moved(t, "tail", IF B(t).tail <= th[t].i + 1 THEN "fix" ELSE "take")
                          /\ Stays(t) /\ UNCHANGED <<blk, mq, popped>>
         /\ PopFix(t) => /\ Moved(t, "fix", "empty") /\ Stays(t) /\ UNCHANGED <<mq, popped>>
                         /\ \/ UNCHANGED blk
                            \/ /\ B(t).head > B(t).tail
                               /\ blk' = [blk EXCEPT ![th[t].b].tail = B(t).head]
         /\ PopEmpty(t) =>
              /\ UNCHANGED <<blk, mq>>
              /\ \/ th[t].pc = "empty" /\ B(t).next = NoBlock
                 \/ /\ Moved(t, "empty", "take") /\ th'[t].b = th[t].b /\ B(t).next # NoBlock
                    /\ UNCHANGED popped
                 \/ /\ Moved(t, "empty", "leave") /\ Stays(t) /\ th[t].again /\ UNCHANGED popped
         /\ PopLeave(t) =>
              /\ Moved(t, "leave", "pop") /\ UNCHANGED popped
              /\ \/ UNCHANGED blk
                 \/ /\ mq.head = th[t].b
                    /\ blk' = [blk EXCEPT ![th[t].b].state =
                                 IF Hazard(t, th[t].b) THEN "garbage" ELSE "free"]
<1>. USE DEF Moved, Alone, Stays
<1>0. t \in QThreads /\ th \in [QThreads -> ThreadRecords] /\ th[t] \in ThreadRecords
  BY DEF QThreads, QueueShape
<1>1. SemSteps(t) =>
              /\ \E from \in {"wait", "dec", "undo", "announce", "futex", "woken"},
                    to \in {"wait", "dec", "undo", "announce", "futex", "asleep", "woken", "pop"} :
                   Moved(t, from, to)
              /\ UNCHANGED <<blk, popped>>
  <2>1. ASSUME SemRead(t) PROVE (Moved(t, "wait", "dec") \/ Moved(t, "wait", "announce")) /\ UNCHANGED <<blk, popped>>
    <3>1. PICK to \in {"dec", "announce"} : th' = [th EXCEPT ![t] = [th[t] EXCEPT !.i = mq.sem, !.pc = to]]
      BY <2>1, <1>0 DEF SemRead
    <3> QED BY <2>1, <3>1, <1>0 DEF SemRead, ThreadRecords
  <2>2. ASSUME SemUndo(t) PROVE (Moved(t, "undo", "dec") \/ Moved(t, "undo", "announce")) /\ UNCHANGED <<blk, popped>>
    <3>1. PICK to \in {"dec", "announce"} : th' = [th EXCEPT ![t] = [th[t] EXCEPT !.i = mq.sem + 1, !.pc = to]]
      BY <2>2, <1>0 DEF SemUndo
    <3> QED BY <2>2, <3>1, <1>0 DEF SemUndo, ThreadRecords
  <2>3. ASSUME SemTake(t) PROVE (Moved(t, "dec", "pop") \/ Moved(t, "dec", "undo")) /\ UNCHANGED <<blk, popped>>
    BY <2>3, <1>0 DEF SemTake, GoTo, ThreadRecords
  <2>4. ASSUME SemAnnounce(t) PROVE Moved(t, "announce", "futex") /\ UNCHANGED <<blk, popped>>
    BY <2>4, <1>0 DEF SemAnnounce, GoTo, ThreadRecords
  <2>5. ASSUME SemFutex(t) PROVE (Moved(t, "futex", "asleep") \/ Moved(t, "futex", "woken")) /\ UNCHANGED <<blk, popped>>
    BY <2>5, <1>0 DEF SemFutex, GoTo, ThreadRecords
  <2>6. ASSUME SemWoken(t) PROVE Moved(t, "woken", "wait") /\ UNCHANGED <<blk, popped>>
    BY <2>6, <1>0 DEF SemWoken, GoTo, ThreadRecords
  <2>. HIDE DEF Moved
  <2> QED BY <2>1, <2>2, <2>3, <2>4, <2>5, <2>6 DEF SemSteps
<1>2. PopProtect(t) => /\ Moved(t, "pop", "take") /\ UNCHANGED <<blk, mq, popped>>
                       /\ th'[t].again = FALSE /\ th'[t].b = mq.head
  BY <1>0 DEF PopProtect, ThreadRecords
<1>3. PopClaim(t) => /\ Moved(t, "take", "look") /\ Stays(t) /\ th'[t].i = B(t).head
                     /\ blk' = [blk EXCEPT ![th[t].b].head = @ + 1]
                     /\ UNCHANGED <<mq, popped>>
  BY <1>0 DEF PopClaim, ThreadRecords
<1>4. PopTail(t) => /\ Moved(t, "tail", IF B(t).tail <= th[t].i + 1 THEN "fix" ELSE "take")
                    /\ Stays(t) /\ UNCHANGED <<blk, mq, popped>>
  BY <1>0 DEF PopTail, GoTo, ThreadRecords
<1>5. PopFix(t) => /\ Moved(t, "fix", "empty") /\ Stays(t) /\ UNCHANGED <<mq, popped>>
                   /\ \/ UNCHANGED blk
                      \/ /\ B(t).head > B(t).tail
                         /\ blk' = [blk EXCEPT ![th[t].b].tail = B(t).head]
  BY <1>0 DEF PopFix, GoTo, ThreadRecords
<1>6. PopEmpty(t) =>
              /\ UNCHANGED <<blk, mq>>
              /\ \/ th[t].pc = "empty" /\ B(t).next = NoBlock
                 \/ /\ Moved(t, "empty", "take") /\ th'[t].b = th[t].b /\ B(t).next # NoBlock
                    /\ UNCHANGED popped
                 \/ /\ Moved(t, "empty", "leave") /\ Stays(t) /\ th[t].again /\ UNCHANGED popped
  BY <1>0 DEF PopEmpty, GoTo, ThreadRecords
<1>7. PopLeave(t) =>
              /\ Moved(t, "leave", "pop") /\ UNCHANGED popped
              /\ \/ UNCHANGED blk
                 \/ /\ mq.head = th[t].b
                    /\ blk' = [blk EXCEPT ![th[t].b].state =
                                 IF Hazard(t, th[t].b) THEN "garbage" ELSE "free"]
  BY <1>0 DEF PopLeave, GoTo, ThreadRecords
<1> QED BY <1>1, <1>2, <1>3, <1>4, <1>5, <1>6, <1>7

\* A consumer at index i makes m of node n ...
NodeStep(i, n, m) ==
  /\ m.idx % Size = i % Size /\ m.idx >= n.idx
  /\ m.val # NoValue => m.val = n.val /\ m.idx = n.idx /\ m.idx # i
  /\ m.idx > i \/ ~m.safe
  /\ m.safe => n.safe
  /\ \/ m.idx > n.idx
     \/ m.idx = n.idx /\ n.val # NoValue /\ m.val = n.val
     \/ m = n /\ n.idx > i

\* ... and goes on to the next index, or away with the value.
NodeAfter(t, n, m) ==
  \/ /\ Moved(t, "look", "tail") /\ Stays(t) /\ th'[t].i = th[t].i
     /\ m.val = n.val /\ UNCHANGED popped
  \/ /\ th[t].pc = "look" /\ th'[t].pc = "wait" /\ Alone(t)
     /\ m.val = NoValue /\ n.val # NoValue /\ popped' = Append(popped, n.val)

\* The node at the claimed index, and what the consumer makes of it.
LEMMA NodeMoves ==
  ASSUME QueueShape, ListInv, NodeInv, NEW t \in Consumers, PopNode(t)
  PROVE  \E m \in NodeRecords :
           /\ OneNode(th[t].b, th[t].i % Size, m)
           /\ m.idx % Size = th[t].i % Size /\ m.idx >= At(t).idx
           /\ m.val # NoValue => m.val = At(t).val /\ m.idx = At(t).idx /\ m.idx # th[t].i
           /\ m.idx > th[t].i \/ ~m.safe
           /\ m.safe => At(t).safe
           /\ \/ m.idx > At(t).idx
              \/ m.idx = At(t).idx /\ At(t).val # NoValue /\ m.val = At(t).val
              \/ m = At(t) /\ At(t).idx > th[t].i
           /\ \/ /\ Moved(t, "look", "tail") /\ Stays(t) /\ th'[t].i = th[t].i
                 /\ m.val = At(t).val /\ UNCHANGED popped
              \/ /\ th[t].pc = "look" /\ th'[t].pc = "wait" /\ Alone(t)
                 /\ m.val = NoValue /\ At(t).val # NoValue /\ popped' = Append(popped, At(t).val)
<1>. PICK n, i, b, k : n = At(t) /\ i = th[t].i /\ b = th[t].b /\ k = i % Size
  OBVIOUS
<1>0. /\ t \in QThreads /\ th \in [QThreads -> ThreadRecords] /\ th[t] \in ThreadRecords
      /\ th[t].pc = "look" /\ i \in Nat /\ b \in Blocks /\ k \in Ring
      /\ n = blk[b].nodes[k] /\ n \in NodeRecords
  BY ThreadTypes, PushBlocks, PlaceOf, NodeTypes DEF QThreads, QueueShape, PopNode, InBlock, At, B
<1>1. n.idx \in Nat /\ n.safe \in BOOLEAN /\ n.val \in Values \cup {NoValue} /\ n.idx % Size = k
  <2>1. n.idx % Size = k
    BY <1>0, ZenonT(40) DEF NodeInv, Claims
  <2>. QED
    BY <1>0, <2>1, NodeTypes, ZenonT(40)
<1>2. (i + Size) % Size = k /\ i + Size > i /\ i + Size \in Nat
  BY <1>0, NextRound
<1>3. \A p \in {"tail"} : th' = [th EXCEPT ![t].pc = p] =>
         Moved(t, "look", "tail") /\ Stays(t) /\ th'[t].i = th[t].i
  BY <1>0 DEF Moved, Stays, Alone, ThreadRecords
<1>4. blk' = blk => OneNode(b, k, n)
  BY <1>0 DEF OneNode
<1>5. \A m \in NodeRecords : blk' = [blk EXCEPT ![b].nodes[k] = m] => OneNode(b, k, m)
  BY <1>0, OneNodeStep
<1>. DEFINE Goal == \E x \in NodeRecords : OneNode(b, k, x) /\ NodeStep(i, n, x) /\ NodeAfter(t, n, x)
<1>6. ASSUME n.idx > i, GoTo(t, "tail"), UNCHANGED <<blk, popped, hp>>
      PROVE  Goal
  <2>1. Moved(t, "look", "tail") /\ Stays(t) /\ th'[t].i = th[t].i
    BY <1>3, <1>6 DEF GoTo
  <2>2. OneNode(b, k, n)
    BY <1>4, <1>6
  <2>3. NodeStep(i, n, n)
    <3>1. i \in Nat /\ k = i % Size
      BY <1>0
    <3> QED BY <3>1, <1>1, <1>6 DEF NodeStep
  <2>4. NodeAfter(t, n, n)
    BY <2>1, <1>6 DEF NodeAfter
  <2> QED BY <1>0, <2>2, <2>3, <2>4
<1>7. ASSUME n.val # NoValue /\ n.idx = i,
             blk' = [blk EXCEPT ![b].nodes[k] = [n EXCEPT !.idx = i + Size, !.val = NoValue]],
             popped' = Append(popped, n.val),
             th' = [th EXCEPT ![t] = QIdle("wait")]
      PROVE  Goal
  <2>. DEFINE m == [n EXCEPT !.idx = i + Size, !.val = NoValue]
  <2>1. m \in NodeRecords /\ m.idx = i + Size /\ m.val = NoValue /\ m.safe = n.safe
    BY <1>0, <1>1, <1>2 DEF NodeRecords
  <2>2. OneNode(b, k, m)
    BY <1>5, <1>7, <2>1
  <2>3. th'[t].pc = "wait" /\ Alone(t)
    BY <1>0, <1>7 DEF QIdle, Alone
  <2>. HIDE DEF m
  <2>4. NodeStep(i, n, m)
    <3>1. i \in Nat /\ k = i % Size
      BY <1>0
    <3> QED BY <3>1, <1>1, <1>2, <1>7, <2>1 DEF NodeStep
  <2>5. NodeAfter(t, n, m)
    BY <1>0, <1>7, <2>1, <2>3 DEF NodeAfter
  <2> QED BY <2>1, <2>2, <2>4, <2>5
<1>8. ASSUME n.val # NoValue /\ n.idx < i,
             blk' = [blk EXCEPT ![b].nodes[k] = [n EXCEPT !.safe = FALSE]],
             GoTo(t, "tail") /\ UNCHANGED popped
      PROVE  Goal
  <2>. DEFINE m == [n EXCEPT !.safe = FALSE]
  <2>1. m \in NodeRecords /\ m.idx = n.idx /\ m.val = n.val /\ m.safe = FALSE
    BY <1>0, <1>1 DEF NodeRecords
  <2>2. OneNode(b, k, m)
    BY <1>5, <1>8, <2>1
  <2>3. Moved(t, "look", "tail") /\ Stays(t) /\ th'[t].i = th[t].i
    BY <1>3, <1>8 DEF GoTo
  <2>. HIDE DEF m
  <2>4. NodeStep(i, n, m)
    <3>1. i \in Nat /\ k = i % Size
      BY <1>0
    <3> QED BY <3>1, <1>1, <1>8, <2>1 DEF NodeStep
  <2>5. NodeAfter(t, n, m)
    BY <1>8, <2>1, <2>3 DEF NodeAfter
  <2> QED BY <2>1, <2>2, <2>4, <2>5
<1>9. ASSUME n.val = NoValue /\ n.idx <= i,
             blk' = [blk EXCEPT ![b].nodes[k] = [n EXCEPT !.idx = i + Size]],
             GoTo(t, "tail") /\ UNCHANGED popped
      PROVE  Goal
  <2>. DEFINE m == [n EXCEPT !.idx = i + Size]
  <2>1. m \in NodeRecords /\ m.idx = i + Size /\ m.val = n.val /\ m.safe = n.safe
    BY <1>0, <1>1, <1>2 DEF NodeRecords
  <2>2. OneNode(b, k, m)
    BY <1>5, <1>9, <2>1
  <2>3. Moved(t, "look", "tail") /\ Stays(t) /\ th'[t].i = th[t].i
    BY <1>3, <1>9 DEF GoTo
  <2>. HIDE DEF m
  <2>4. NodeStep(i, n, m)
    <3>1. i \in Nat /\ k = i % Size
      BY <1>0
    <3> QED BY <3>1, <1>1, <1>2, <1>9, <2>1 DEF NodeStep
  <2>5. NodeAfter(t, n, m)
    BY <1>9, <2>1, <2>3 DEF NodeAfter
  <2> QED BY <2>1, <2>2, <2>4, <2>5
<1>10. \/ n.idx > i /\ GoTo(t, "tail") /\ UNCHANGED <<blk, popped, hp>>
       \/ /\ n.val # NoValue /\ n.idx = i
          /\ blk' = [blk EXCEPT ![b].nodes[k] = [n EXCEPT !.idx = i + Size, !.val = NoValue]]
          /\ popped' = Append(popped, n.val)
          /\ th' = [th EXCEPT ![t] = QIdle("wait")]
       \/ /\ n.val # NoValue /\ n.idx < i
          /\ blk' = [blk EXCEPT ![b].nodes[k] = [n EXCEPT !.safe = FALSE]]
          /\ GoTo(t, "tail") /\ UNCHANGED popped
       \/ /\ n.val = NoValue /\ n.idx <= i
          /\ blk' = [blk EXCEPT ![b].nodes[k] = [n EXCEPT !.idx = i + Size]]
          /\ GoTo(t, "tail") /\ UNCHANGED popped
  BY DEF PopNode
<1>11. Goal
  BY <1>6, <1>7, <1>8, <1>9, <1>10
<1> QED BY <1>0, <1>11 DEF NodeStep, NodeAfter

-----------------------------------------------------------------------------
(* Every step keeps what is in the nodes.                                  *)

LEMMA PushFrame ==
  ASSUME QueueShape, NEW t \in Producers, Alone(t), PusherSame(t)
  PROVE  /\ \A u \in Producers : PusherSame(u)
         /\ \A u \in Consumers : PopperSame(u)
<1>1. /\ \A u \in Producers : u # t => th'[u] = th[u]
      /\ \A u \in Consumers : th'[u] = th[u]
  BY PcsApart DEF Alone, QThreads
<1> QED BY <1>1 DEF PusherSame, PopperSame

LEMMA PopFrame ==
  ASSUME QueueShape, NEW t \in Consumers, Alone(t), PopperSame(t)
  PROVE  /\ \A u \in Producers : PusherSame(u)
         /\ \A u \in Consumers : PopperSame(u)
<1>1. /\ \A u \in Consumers : u # t => th'[u] = th[u]
      /\ \A u \in Producers : th'[u] = th[u]
  BY PcsApart DEF Alone, QThreads
<1> QED BY <1>1 DEF PusherSame, PopperSame

\* A field of a block changes that the nodes do not depend on.
LEMMA FieldSteps ==
  ASSUME QueueShape, NEW b \in Blocks
  PROVE  /\ \A x : blk' = [blk EXCEPT ![b].closed = x] \/ blk' = [blk EXCEPT ![b].next = x]
                     \/ blk' = [blk EXCEPT ![b].state = x] \/ blk' = blk =>
              \A c \in Blocks : /\ blk'[c].nodes = blk[c].nodes /\ blk'[c].head = blk[c].head
                                /\ blk'[c].tail = blk[c].tail
         /\ \A x : blk' = [blk EXCEPT ![b].tail = x] =>
              /\ \A c \in Blocks : /\ blk'[c].nodes = blk[c].nodes /\ blk'[c].head = blk[c].head
                                   /\ c # b => blk'[c].tail = blk[c].tail
              /\ blk'[b].tail = x
         /\ \A x : blk' = [blk EXCEPT ![b].head = x] =>
              /\ \A c \in Blocks : /\ blk'[c].nodes = blk[c].nodes /\ blk'[c].tail = blk[c].tail
                                   /\ c # b => blk'[c].head = blk[c].head
              /\ blk'[b].head = x
BY SMTT(40) DEF QueueShape, BlockRecords

LEMMA PushNodes ==
  ASSUME QueueShape, ListInv, NodeInv, NEW t \in Producers, PushStep(t)
  PROVE  NodeInv'
<1>0. /\ t \in QThreads /\ (th[t].pc \in InBlock => th[t].b \in Blocks)
      /\ Blocks # {} /\ mq.head \in Blocks
  BY PushBlocks DEF QThreads, QueueShape
<1>a. ASSUME NEW b \in Blocks, NEW x,
             \/ blk' = [blk EXCEPT ![b].closed = x] \/ blk' = [blk EXCEPT ![b].next = x]
             \/ blk' = [blk EXCEPT ![b].state = x] \/ blk' = blk,
             Alone(t), PusherSame(t)
      PROVE  NodeInv'
  <2>1. \A c \in Blocks : /\ blk'[c].nodes = blk[c].nodes /\ blk'[c].head = blk[c].head
                          /\ blk'[c].tail = blk[c].tail
    BY <1>a, FieldSteps
  <2>2. \A c \in Blocks : blk'[c].tail \in Nat /\ blk'[c].tail >= blk[c].tail
    BY <2>1, NodeTypes
  <2> QED BY <1>a, <2>1, <2>2, PushFrame, NodeFrame
<1>b. ASSUME blk' = blk, Alone(t), PusherSame(t) PROVE NodeInv'
  BY <1>a, <1>b, <1>0
<1>1. CASE PushProtect(t)
  BY <1>1, <1>b, PushMoves DEF Moved, PusherSame
<1>2. CASE PushClaim(t)
  <2>1. CASE Moved(t, "faa", "push") /\ UNCHANGED blk
    BY <2>1, <1>b DEF Moved, PusherSame
  <2>2. CASE /\ Moved(t, "faa", IF B(t).closed THEN "alloc" ELSE "node")
             /\ th'[t].b = th[t].b /\ th'[t].i = B(t).tail
             /\ blk' = [blk EXCEPT ![th[t].b].tail = @ + 1]
    <3>1. th[t].pc = "faa" /\ th[t].b \in Blocks
      BY <2>2, <1>0 DEF Moved, InBlock
    <3>2. blk' = [blk EXCEPT ![th[t].b].tail = B(t).tail + 1]
      BY <2>2 DEF B
    <3>3. /\ \A c \in Blocks : blk'[c].nodes = blk[c].nodes /\ blk'[c].head = blk[c].head
          /\ \A c \in Blocks : c # th[t].b => blk'[c].tail = blk[c].tail
          /\ blk'[th[t].b].tail = B(t).tail + 1
      BY <3>1, <3>2, FieldSteps, ZenonT(40)
    <3> QED BY <2>2, <3>1, <3>3, TailClaimed DEF Moved, Alone
  <2> QED BY <1>2, <2>1, <2>2, PushMoves
<1>3. CASE PushLook(t)
  BY <1>3, LookNodes
<1>4. CASE PushSwap(t)
  <2>1. CASE /\ At(t) = th[t].d /\ Moved(t, "cas", "post")
             /\ blk' = [blk EXCEPT ![th[t].b].nodes[th[t].i % Size] = Node(th[t].i, Val(t))]
    <3>1. /\ th[t].pc = "cas" /\ th[t].b \in Blocks /\ th[t].i % Size \in Ring
          /\ th[t].done < Len(Script[t])
      BY <2>1, <1>0, ThreadTypes, PlaceOf DEF Moved, InBlock, QueueShape
    <3>2. Val(t) # NoValue
      BY <3>1, ValInValues, ScriptAssumption
    <3>3. OneNode(th[t].b, th[t].i % Size, Node(th[t].i, Val(t)))
      BY <2>1, <3>1, OneNodeStep
    <3> QED BY <2>1, <3>1, <3>2, <3>3, SwapNodes DEF Moved, Alone
  <2>2. CASE /\ Moved(t, "cas", "full") /\ UNCHANGED blk
             /\ th'[t].b = th[t].b /\ th'[t].i = th[t].i
    BY <2>2, <1>b DEF Moved, PusherSame
  <2> QED BY <1>4, <2>1, <2>2, PushMoves
<1>5. CASE PushFull(t)
  <2>1. th[t].pc = "full" /\ Alone(t) /\ th'[t].pc \in {"alloc", "faa"}
    BY <1>5, PushMoves DEF Moved
  <2>2. PusherSame(t) /\ th[t].b \in Blocks
    BY <2>1, <1>0 DEF PusherSame, InBlock
  <2>3. blk' = [blk EXCEPT ![th[t].b].closed = TRUE] \/ UNCHANGED blk
    BY <1>5, PushMoves
  <2> QED BY <2>1, <2>2, <2>3, <1>a
<1>6. CASE PushAlloc(t)
  <2>1. PICK b \in Blocks :
          /\ \/ blk[b].state = "garbage" /\ ~Hazard(t, b) /\ hp[t] # b
             \/ blk[b].state \in {"prepared", "free"}
          /\ blk' = [blk EXCEPT ![b] = NewBlock(Val(t))]
    BY <1>6, PushMoves
  <2>2. Moved(t, "alloc", "link")
    BY <1>6, PushMoves
  <2>3. Val(t) \in Values
    BY <2>2, ValInValues DEF Moved, QueueShape
  <2>4. \A u \in QThreads : th[u].pc \in InBlock => th[u].b # b
    BY <2>1, NobodyIn
  <2> QED BY <2>1, <2>2, <2>3, <2>4, AllocNodes DEF Moved, Alone
<1>7. CASE PushLink(t)
  <2>1. th[t].pc = "link" /\ Alone(t) /\ th'[t].pc \in {"swing", "push"}
    BY <1>7, PushMoves DEF Moved
  <2>2. PusherSame(t) /\ th[t].b \in Blocks /\ th[t].new \in Blocks
    BY <2>1, <1>0 DEF PusherSame, InBlock, ListInv, Prepared
  <2>3. \/ blk' = [blk EXCEPT ![th[t].b].next = th[t].new]
        \/ blk' = [blk EXCEPT ![th[t].new].state = "prepared"]
    BY <1>7, PushMoves
  <2> QED BY <2>1, <2>2, <2>3, <1>a
<1>8. CASE PushSwing(t) \/ PushPost(t)
  BY <1>8, <1>b, PushMoves DEF Moved, PusherSame
<1>9. CASE PushWake(t)
  <2>1. \A u \in Producers : PusherSame(u)
    BY <1>9, WakeMoves DEF PusherSame
  <2>2. \A u \in Consumers : PopperSame(u)
    BY <1>9, WakeMoves DEF PopperSame
  <2>3. blk' = blk
    BY <1>9, WakeMoves
  <2>4. \A c \in Blocks : blk'[c].tail \in Nat /\ blk'[c].tail >= blk[c].tail
    BY <2>3, NodeTypes
  <2> QED BY <2>1, <2>2, <2>3, <2>4, NodeFrame
<1> QED BY <1>1, <1>2, <1>3, <1>4, <1>5, <1>6, <1>7, <1>8, <1>9 DEF PushStep

LEMMA PopNodes ==
  ASSUME QueueShape, ListInv, NodeInv, NEW t \in Consumers, PopStep(t)
  PROVE  NodeInv' \/ (th[t].pc = "empty" /\ Succ(th[t].b) = NoBlock)
<1>0. /\ t \in QThreads /\ (th[t].pc \in InBlock => th[t].b \in Blocks)
      /\ Blocks # {} /\ mq.head \in Blocks
  BY PushBlocks DEF QThreads, QueueShape
<1>a. ASSUME NEW b \in Blocks, NEW x,
             \/ blk' = [blk EXCEPT ![b].closed = x] \/ blk' = [blk EXCEPT ![b].next = x]
             \/ blk' = [blk EXCEPT ![b].state = x] \/ blk' = blk,
             Alone(t), PopperSame(t)
      PROVE  NodeInv'
  <2>1. \A c \in Blocks : /\ blk'[c].nodes = blk[c].nodes /\ blk'[c].head = blk[c].head
                          /\ blk'[c].tail = blk[c].tail
    BY <1>a, FieldSteps
  <2>2. \A c \in Blocks : blk'[c].tail \in Nat /\ blk'[c].tail >= blk[c].tail
    BY <2>1, NodeTypes
  <2> QED BY <1>a, <2>1, <2>2, PopFrame, NodeFrame
<1>b. ASSUME blk' = blk, Alone(t), PopperSame(t) PROVE NodeInv'
  BY <1>a, <1>b, <1>0
<1>1. CASE SemSteps(t)
  BY <1>1, <1>b, PopMoves DEF Moved, PopperSame
<1>2. CASE PopProtect(t)
  BY <1>2, <1>b, PopMoves DEF Moved, PopperSame
<1>3. CASE PopClaim(t)
  <2>1. /\ Moved(t, "take", "look") /\ Stays(t) /\ th'[t].i = B(t).head
        /\ blk' = [blk EXCEPT ![th[t].b].head = B(t).head + 1]
    BY <1>3, PopMoves DEF B
  <2>2. th[t].pc = "take" /\ th[t].b \in Blocks
    BY <2>1, <1>0 DEF Moved, InBlock
  <2>3. /\ \A c \in Blocks : blk'[c].nodes = blk[c].nodes /\ blk'[c].tail = blk[c].tail
        /\ \A c \in Blocks : c # th[t].b => blk'[c].head = blk[c].head
        /\ blk'[th[t].b].head = B(t).head + 1
    <3>. PICK b, x : b = th[t].b /\ x = B(t).head + 1
      OBVIOUS
    <3>1. b \in Blocks /\ blk' = [blk EXCEPT ![b].head = x]
      BY <2>1, <2>2
    <3>2. /\ \A c \in Blocks : /\ blk'[c].nodes = blk[c].nodes /\ blk'[c].tail = blk[c].tail
                               /\ c # b => blk'[c].head = blk[c].head
          /\ blk'[b].head = x
      BY <3>1, FieldSteps
    <3>3. blk'[th[t].b].head = B(t).head + 1
      BY <3>2, Zenon
    <3> QED BY <3>2, <3>3
  <2> QED BY <2>1, <2>2, <2>3, HeadClaimed DEF Moved, Alone, Stays
<1>4. CASE PopNode(t)
  <2>0. th[t].pc = "look"
    BY <1>4 DEF PopNode
  <2>1. PICK m \in NodeRecords :
           /\ OneNode(th[t].b, th[t].i % Size, m)
           /\ m.idx % Size = th[t].i % Size /\ m.idx >= At(t).idx
           /\ m.val # NoValue => m.val = At(t).val /\ m.idx = At(t).idx /\ m.idx # th[t].i
           /\ m.idx > th[t].i \/ ~m.safe
           /\ m.safe => At(t).safe
           /\ \/ m.idx > At(t).idx
              \/ m.idx = At(t).idx /\ At(t).val # NoValue /\ m.val = At(t).val
              \/ m = At(t) /\ At(t).idx > th[t].i
           /\ \/ /\ Moved(t, "look", "tail") /\ Stays(t) /\ th'[t].i = th[t].i
                 /\ m.val = At(t).val /\ UNCHANGED popped
              \/ /\ th[t].pc = "look" /\ th'[t].pc = "wait" /\ Alone(t)
                 /\ m.val = NoValue /\ At(t).val # NoValue /\ popped' = Append(popped, At(t).val)
    BY <1>4, NodeMoves
  <2>2. /\ \A u \in QThreads : u # t => th'[u] = th[u]
        /\ th'[t].pc # "look" /\ (th'[t].pc = "tail" => th'[t].b = th[t].b /\ th'[t].i = th[t].i)
    BY <2>1 DEF Moved, Alone, Stays
  <2> QED BY <2>0, <2>1, <2>2, LookedNodes
<1>5. CASE PopTail(t)
  BY <1>5, <1>b, PopMoves DEF Moved, PopperSame
<1>6. CASE PopFix(t)
  <2>1. /\ Alone(t) /\ th[t].pc = "fix" /\ th'[t].pc = "empty"
        /\ \/ UNCHANGED blk
           \/ /\ B(t).head > B(t).tail
              /\ blk' = [blk EXCEPT ![th[t].b].tail = B(t).head]
    BY <1>6, PopMoves DEF Moved
  <2>2. PopperSame(t) /\ th[t].b \in Blocks
    BY <2>1, <1>0 DEF PopperSame, InBlock
  <2>3. CASE UNCHANGED blk
    BY <2>1, <2>2, <2>3, <1>b
  <2>4. CASE /\ B(t).head > B(t).tail
             /\ blk' = [blk EXCEPT ![th[t].b].tail = B(t).head]
    <3>1. /\ \A c \in Blocks : blk'[c].nodes = blk[c].nodes /\ blk'[c].head = blk[c].head
          /\ \A c \in Blocks : c # th[t].b => blk'[c].tail = blk[c].tail
          /\ blk'[th[t].b].tail = B(t).head
      BY <2>2, <2>4, FieldSteps, ZenonT(40)
    <3>2. \A c \in Blocks : blk'[c].tail \in Nat /\ blk'[c].tail >= blk[c].tail
      BY <2>2, <2>4, <3>1, NodeTypes DEF B
    <3> QED BY <2>1, <2>2, <3>1, <3>2, PopFrame, NodeFrame
  <2> QED BY <2>1, <2>3, <2>4
<1>7. CASE PopEmpty(t)
  <2>1. CASE th[t].pc = "empty" /\ B(t).next = NoBlock
    BY <2>1 DEF Succ, B
  <2>2. CASE ~(th[t].pc = "empty" /\ B(t).next = NoBlock)
    <3>1. /\ UNCHANGED blk
          /\ Moved(t, "empty", "take") \/ Moved(t, "empty", "leave")
      BY <1>7, <2>2, PopMoves
    <3> QED BY <3>1, <1>b DEF Moved, PopperSame
  <2> QED BY <2>1, <2>2
<1>8. CASE PopLeave(t)
  <2>1. Moved(t, "leave", "pop")
    BY <1>8, PopMoves
  <2>2. PopperSame(t) /\ Alone(t) /\ th[t].b \in Blocks
    BY <2>1, <1>0 DEF PopperSame, InBlock, Moved
  <2>3. \/ UNCHANGED blk
        \/ blk' = [blk EXCEPT ![th[t].b].state = IF Hazard(t, th[t].b) THEN "garbage" ELSE "free"]
    BY <1>8, PopMoves
  <2> QED BY <2>2, <2>3, <1>a
<1> QED BY <1>1, <1>2, <1>3, <1>4, <1>5, <1>6, <1>7, <1>8 DEF PopStep, SemSteps
=============================================================================
