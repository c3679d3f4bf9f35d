------------------------------ MODULE MpQueue ------------------------------
(***************************************************************************)
(* The queue between the threads, common/mp-queue.c: a list of blocks, each*)
(* a ring of nodes on which producers and consumers take turns by          *)
(* fetch-and-add and a double-word compare-and-swap, with a semaphore that *)
(* counts the items and hazard pointers that keep a block from being freed *)
(* while a thread is in it.                                                *)
(*                                                                         *)
(* One step is one atomic instruction.  Where a compare-and-swap is tried  *)
(* again until it succeeds and depends on nothing but the word it swaps,   *)
(* the read and the swap are one step: a failed attempt changes nothing.   *)
(* Reading mq_head or mq_tail, publishing it as a hazard pointer and       *)
(* reading it again until it has not changed is one step for that reason.  *)
(* The queues of garbage and of prepared blocks are sets.  The tests of    *)
(* magic numbers and the statistics are left out.                          *)
(***************************************************************************)
EXTENDS Integers, FiniteSets, Sequences

CONSTANTS
    Producers, Consumers,
    Script,         \* per producer: the values it pushes, in order
    Blocks,         \* bound: blocks of memory
    NoBlock, NoValue,
    Size,           \* mqb_size, a power of 2
    MaxIterations   \* attempts before a push closes the block (10)

ASSUME QueueAssumption ==
    /\ IsFiniteSet(Producers) /\ IsFiniteSet(Consumers) /\ IsFiniteSet(Blocks)
    /\ Producers \cap Consumers = {}
    /\ NoBlock \notin Blocks /\ Blocks # {}
    /\ Size \in Nat \ {0} /\ MaxIterations \in Nat

VARIABLES
    blk,     \* struct mp_queue_block, per block
    mq,      \* mq_head, mq_tail, mq_sem (value and waiting)
    th,      \* per thread: where it is, and its locals
    hp,      \* per thread: its hazard pointer
    popped,  \* what the consumers took, in the order of their return
    waited   \* per value: what had been pushed when its push began

queueVars == <<blk, mq, th, hp, popped, waited>>

QThreads == Producers \cup Consumers
Values   == UNION {{Script[p][i] : i \in 1 .. Len(Script[p])} : p \in Producers}

\* The values are pointers to things that are pushed once, and not NULL.
ASSUME ScriptAssumption ==
    /\ \A p \in Producers : Len(Script[p]) \in Nat
    /\ NoValue \notin Values
    /\ \A p, r \in Producers : \A i \in 1 .. Len(Script[p]), j \in 1 .. Len(Script[r]) :
         Script[p][i] = Script[r][j] => p = r /\ i = j

Ring == 0 .. Size - 1
Node(i, v) == [idx |-> i, safe |-> TRUE, val |-> v]

\* alloc_mpq_block: a new block, with a first value or empty.
NewBlock(v) ==
    [head |-> 0, tail |-> IF v = NoValue THEN 0 ELSE 1, closed |-> FALSE,
     next |-> NoBlock, state |-> "used",
     nodes |-> [n \in Ring |-> Node(n, IF n = 0 THEN v ELSE NoValue)]]

FreeBlock == [NewBlock(NoValue) EXCEPT !.state = "free"]

QIdle(pc) == [pc |-> pc, b |-> NoBlock, new |-> NoBlock, i |-> 0, it |-> 0,
             d |-> Node(0, NoValue), again |-> FALSE, done |-> 0]

\* The type invariant of the model.
QueueTypeOK ==
    /\ \A b \in Blocks :
         /\ blk[b].state \in {"free", "used", "garbage", "prepared"}
         /\ blk[b].head \in Nat /\ blk[b].tail \in Nat
         /\ blk[b].next \in Blocks \cup {NoBlock}
         /\ \A n \in Ring : /\ blk[b].nodes[n].val \in Values \cup {NoValue}
                            /\ blk[b].nodes[n].idx % Size = n
    /\ mq.head \in Blocks /\ mq.tail \in Blocks /\ mq.sem \in Int /\ mq.waiting \in Nat
    /\ hp \in [QThreads -> Blocks \cup {NoBlock}]
    /\ \A n \in 1 .. Len(popped) : popped[n] \in Values \cup {NoValue}

QueueInit ==
    \E b0 \in {CHOOSE b \in Blocks : TRUE} :
      /\ blk = [b \in Blocks |-> IF b = b0 THEN NewBlock(NoValue) ELSE FreeBlock]
      /\ mq = [head |-> b0, tail |-> b0, sem |-> 0, waiting |-> 0]
      /\ th = [t \in QThreads |-> QIdle(IF t \in Producers THEN "push" ELSE "wait")]
      /\ hp = [t \in QThreads |-> NoBlock]
      /\ popped = <<>>
      /\ waited = [v \in Values |-> {}]

-----------------------------------------------------------------------------

Val(t)  == Script[t][th[t].done + 1]
B(t)    == blk[th[t].b]
At(t)   == B(t).nodes[th[t].i % Size]

\* is_hazard_ptr, of the other threads.
Hazard(t, b) == \E u \in QThreads \ {t} : hp[u] = b

GoTo(t, pc) == th' = [th EXCEPT ![t].pc = pc]

Pushed == UNION {{Script[p][i] : i \in 1 .. th[p].done} : p \in Producers}

-----------------------------------------------------------------------------
(* mpq_push_w: mpq_push, mpq_block_push, then the semaphore.               *)

\* The tail block, protected; a tail that lags behind is moved on first.
PushProtect(t) ==
    /\ th[t].pc = "push" /\ th[t].done < Len(Script[t])
    /\ th' = [th EXCEPT ![t].pc = "faa", ![t].b = mq.tail, ![t].it = 0]
    /\ hp' = [hp EXCEPT ![t] = mq.tail]
    /\ waited' = IF th[t].b = NoBlock
                 THEN [waited EXCEPT ![Val(t)] = Pushed] ELSE waited
    /\ UNCHANGED <<blk, mq, popped>>

PushClaim(t) ==
    /\ th[t].pc = "faa"
    /\ IF B(t).next # NoBlock /\ th[t].it = 0
       THEN /\ mq' = IF mq.tail = th[t].b THEN [mq EXCEPT !.tail = B(t).next]
                     ELSE mq
            /\ GoTo(t, "push")
            /\ UNCHANGED blk
       ELSE /\ blk' = [blk EXCEPT ![th[t].b].tail = @ + 1]
            /\ th' = [th EXCEPT ![t].i = B(t).tail,
                        ![t].pc = IF B(t).closed THEN "alloc" ELSE "node"]
            /\ UNCHANGED mq
    /\ UNCHANGED <<hp, popped, waited>>

PushLook(t) ==
    /\ th[t].pc = "node"
    /\ LET n == At(t)
       IN  th' = [th EXCEPT ![t].d = n,
                    ![t].pc = IF /\ n.val = NoValue /\ n.idx <= th[t].i
                                 /\ n.safe \/ B(t).head <= th[t].i
                              THEN "cas" ELSE "full"]
    /\ UNCHANGED <<blk, mq, hp, popped, waited>>

PushSwap(t) ==
    /\ th[t].pc = "cas"
    /\ IF At(t) = th[t].d
       THEN /\ blk' = [blk EXCEPT ![th[t].b].nodes[th[t].i % Size] =
                                    Node(th[t].i, Val(t))]
            /\ GoTo(t, "post")
       ELSE GoTo(t, "full") /\ UNCHANGED blk
    /\ UNCHANGED <<mq, hp, popped, waited>>

\* A full ring, or too many attempts, closes the block.
PushFull(t) ==
    /\ th[t].pc = "full"
    /\ LET close == th[t].i - B(t).head >= Size \/ th[t].it + 1 > MaxIterations
       IN  /\ blk' = IF close THEN [blk EXCEPT ![th[t].b].closed = TRUE] ELSE blk
           /\ th' = [th EXCEPT ![t].it = @ + 1,
                       ![t].pc = IF close THEN "alloc" ELSE "faa"]
    /\ UNCHANGED <<mq, hp, popped, waited>>

\* alloc_mpq_block: garbage that no thread points to, a prepared block, or new
\* memory.
PushAlloc(t) ==
    /\ th[t].pc = "alloc"
    /\ \E b \in Blocks :
         /\ \/ blk[b].state = "garbage" /\ ~Hazard(t, b) /\ hp[t] # b
            \/ blk[b].state \in {"prepared", "free"}
         /\ blk' = [blk EXCEPT ![b] = NewBlock(Val(t))]
         /\ th' = [th EXCEPT ![t].new = b, ![t].pc = "link"]
    /\ UNCHANGED <<mq, hp, popped, waited>>

\* The new block is linked, or another thread was first and it is kept.
PushLink(t) ==
    /\ th[t].pc = "link"
    /\ IF B(t).next = NoBlock
       THEN /\ blk' = [blk EXCEPT ![th[t].b].next = th[t].new]
            /\ GoTo(t, "swing")
       ELSE /\ blk' = [blk EXCEPT ![th[t].new].state = "prepared"]
            /\ th' = [th EXCEPT ![t].pc = "push", ![t].new = NoBlock]
    /\ UNCHANGED <<mq, hp, popped, waited>>

PushSwing(t) ==
    /\ th[t].pc = "swing"
    /\ mq' = IF mq.tail = th[t].b THEN [mq EXCEPT !.tail = th[t].new] ELSE mq
    /\ GoTo(t, "post")
    /\ UNCHANGED <<blk, hp, popped, waited>>

\* The hazard pointer is cleared; mp_sem_post adds one ...
PushPost(t) ==
    /\ th[t].pc = "post"
    /\ hp' = [hp EXCEPT ![t] = NoBlock]
    /\ mq' = [mq EXCEPT !.sem = @ + 1]
    /\ GoTo(t, "wake")
    /\ UNCHANGED <<blk, popped, waited>>

\* ... and wakes a waiting thread if it sees one.
PushWake(t) ==
    /\ th[t].pc = "wake"
    /\ LET next == [th EXCEPT ![t] = [QIdle("push") EXCEPT !.done = th[t].done + 1]]
           asleep == {u \in Consumers : th[u].pc = "asleep"}
       IN  IF mq.waiting > 0 /\ asleep # {}
           THEN \E u \in asleep : th' = [next EXCEPT ![u].pc = "woken"]
           ELSE th' = next
    /\ UNCHANGED <<blk, mq, hp, popped, waited>>

-----------------------------------------------------------------------------
(* mpq_pop_w and mpq_pop_nw: the semaphore, then mpq_pop, mpq_block_pop.   *)

\* mp_sem_wait (mp_sem_trywait is its first round): a positive value is tried
\* for, ...
SemRead(t) ==
    /\ th[t].pc = "wait"
    /\ th' = [th EXCEPT ![t].i = mq.sem,
                 ![t].pc = IF mq.sem > 0 THEN "dec" ELSE "announce"]
    /\ UNCHANGED <<blk, mq, hp, popped, waited>>

SemTake(t) ==
    /\ th[t].pc = "dec"
    /\ mq' = [mq EXCEPT !.sem = @ - 1]
    /\ GoTo(t, IF mq.sem > 0 THEN "pop" ELSE "undo")
    /\ UNCHANGED <<blk, hp, popped, waited>>

SemUndo(t) ==
    /\ th[t].pc = "undo"
    /\ mq' = [mq EXCEPT !.sem = @ + 1]
    /\ th' = [th EXCEPT ![t].i = mq.sem + 1,
                 ![t].pc = IF mq.sem + 1 > 0 THEN "dec" ELSE "announce"]
    /\ UNCHANGED <<blk, hp, popped, waited>>

\* ... otherwise the thread counts itself as waiting and sleeps while the value
\* is the one it read.
SemAnnounce(t) ==
    /\ th[t].pc = "announce"
    /\ mq' = [mq EXCEPT !.waiting = @ + 1]
    /\ GoTo(t, "futex")
    /\ UNCHANGED <<blk, hp, popped, waited>>

\* Mutant of SemFutex: the thread sleeps without the value being compared.
SemSleep(t) ==
    /\ th[t].pc = "futex"
    /\ GoTo(t, "asleep")
    /\ UNCHANGED <<blk, mq, hp, popped, waited>>

SemFutex(t) ==
    /\ th[t].pc = "futex"
    /\ GoTo(t, IF mq.sem = th[t].i THEN "asleep" ELSE "woken")
    /\ UNCHANGED <<blk, mq, hp, popped, waited>>

SemWoken(t) ==
    /\ th[t].pc = "woken"
    /\ mq' = [mq EXCEPT !.waiting = @ - 1]
    /\ GoTo(t, "wait")
    /\ UNCHANGED <<blk, hp, popped, waited>>

\* Mutant of PopProtect: the block is taken from the end the producers use.
PopProtectTail(t) ==
    /\ th[t].pc = "pop"
    /\ th' = [th EXCEPT ![t].pc = "take", ![t].b = mq.tail, ![t].again = FALSE]
    /\ hp' = [hp EXCEPT ![t] = mq.tail]
    /\ UNCHANGED <<blk, mq, popped, waited>>

PopProtect(t) ==
    /\ th[t].pc = "pop"
    /\ th' = [th EXCEPT ![t].pc = "take", ![t].b = mq.head, ![t].again = FALSE]
    /\ hp' = [hp EXCEPT ![t] = mq.head]
    /\ UNCHANGED <<blk, mq, popped, waited>>

PopClaim(t) ==
    /\ th[t].pc = "take"
    /\ blk' = [blk EXCEPT ![th[t].b].head = @ + 1]
    /\ th' = [th EXCEPT ![t].i = B(t).head, ![t].pc = "look"]
    /\ UNCHANGED <<mq, hp, popped, waited>>

\* The node of the claimed index: its value, or a mark that makes a late push
\* of that index fail.
PopNode(t) ==
    /\ th[t].pc = "look"
    /\ LET n == At(t)
           i == th[t].i
           Set(m) == blk' = [blk EXCEPT ![th[t].b].nodes[i % Size] = m]
       IN  \/ /\ n.idx > i
              /\ GoTo(t, "tail")
              /\ UNCHANGED <<blk, popped, hp>>
           \/ /\ n.val # NoValue /\ n.idx = i
              /\ Set([n EXCEPT !.idx = i + Size, !.val = NoValue])
              /\ popped' = Append(popped, n.val)
              /\ hp' = [hp EXCEPT ![t] = NoBlock]
              /\ th' = [th EXCEPT ![t] = QIdle("wait")]
           \/ /\ n.val # NoValue /\ n.idx < i
              /\ Set([n EXCEPT !.safe = FALSE])
              /\ GoTo(t, "tail")
              /\ UNCHANGED <<popped, hp>>
           \/ /\ n.val = NoValue /\ n.idx <= i
              /\ Set([n EXCEPT !.idx = i + Size])
              /\ GoTo(t, "tail")
              /\ UNCHANGED <<popped, hp>>
    /\ UNCHANGED <<mq, waited>>

\* Another index is claimed while the tail is ahead.
PopTail(t) ==
    /\ th[t].pc = "tail"
    /\ GoTo(t, IF B(t).tail <= th[t].i + 1 THEN "fix" ELSE "take")
    /\ UNCHANGED <<blk, mq, hp, popped, waited>>

\* mpq_fix_state: a tail that the head has passed is moved up to it.
PopFix(t) ==
    /\ th[t].pc = "fix"
    /\ blk' = IF ~B(t).closed /\ B(t).head > B(t).tail
              THEN [blk EXCEPT ![th[t].b].tail = B(t).head] ELSE blk
    /\ GoTo(t, "empty")
    /\ UNCHANGED <<mq, hp, popped, waited>>

\* An empty block without a next one is an empty queue; with one, the block is
\* tried once more, then left.
PopEmpty(t) ==
    /\ th[t].pc = "empty"
    /\ \/ /\ B(t).next = NoBlock /\ ~th[t].again
          /\ popped' = Append(popped, NoValue)
          /\ hp' = [hp EXCEPT ![t] = NoBlock]
          /\ th' = [th EXCEPT ![t] = QIdle("wait")]
       \/ /\ B(t).next # NoBlock /\ ~th[t].again
          /\ th' = [th EXCEPT ![t].again = TRUE, ![t].pc = "take"]
          /\ UNCHANGED <<popped, hp>>
       \/ /\ th[t].again
          /\ GoTo(t, "leave")
          /\ UNCHANGED <<popped, hp>>
    /\ UNCHANGED <<blk, mq, waited>>

\* Mutant of PopLeave: the block left behind is freed whoever is in it.
PopLeaveFrees(t) ==
    /\ th[t].pc = "leave"
    /\ IF mq.head = th[t].b
       THEN /\ mq' = [mq EXCEPT !.head = B(t).next]
            /\ blk' = [blk EXCEPT ![th[t].b].state =
                         IF FALSE THEN "garbage" ELSE "free"]
       ELSE UNCHANGED <<mq, blk>>
    /\ GoTo(t, "pop")
    /\ UNCHANGED <<hp, popped, waited>>

\* mq_head moves on; the block left behind is freed unless another thread
\* points to it.
PopLeave(t) ==
    /\ th[t].pc = "leave"
    /\ IF mq.head = th[t].b
       THEN /\ mq' = [mq EXCEPT !.head = B(t).next]
            /\ blk' = [blk EXCEPT ![th[t].b].state =
                         IF Hazard(t, th[t].b) THEN "garbage" ELSE "free"]
       ELSE UNCHANGED <<mq, blk>>
    /\ GoTo(t, "pop")
    /\ UNCHANGED <<hp, popped, waited>>

PushStep(t) ==
    \/ PushProtect(t) \/ PushClaim(t) \/ PushLook(t) \/ PushSwap(t)
    \/ PushFull(t) \/ PushAlloc(t) \/ PushLink(t) \/ PushSwing(t) \/ PushPost(t)
    \/ PushWake(t)

PopStep(t) ==
    \/ SemRead(t) \/ SemTake(t) \/ SemUndo(t) \/ SemAnnounce(t) \/ SemFutex(t)
    \/ SemWoken(t) \/ PopProtect(t) \/ PopClaim(t) \/ PopNode(t) \/ PopTail(t)
    \/ PopFix(t) \/ PopEmpty(t) \/ PopLeave(t)

QueueNext == \/ \E t \in Producers : PushStep(t)
             \/ \E t \in Consumers : PopStep(t)

\* Threads keep running.
QueueFair == /\ \A t \in Producers : WF_queueVars(PushStep(t))
             /\ \A t \in Consumers : WF_queueVars(PopStep(t))

QueueSpec == QueueInit /\ [][QueueNext]_queueVars /\ QueueFair

-----------------------------------------------------------------------------
(* Properties.                                                             *)

\* What the assertions of mpq_pop_w and mpq_pop_nw claim: after the semaphore
\* let a consumer through, it finds a value; and no value comes out twice.
PopFinds ==
    /\ \A n \in 1 .. Len(popped) : popped[n] # NoValue
    /\ \A m, n \in 1 .. Len(popped) : m # n => popped[m] # popped[n]

InBlock == {"faa", "node", "cas", "full", "alloc", "link", "swing", "take",
            "look", "tail", "fix", "empty", "leave"}

\* Values come out in the order in which they went in, also across blocks and
\* pushes that had to try again: when a value comes out, one whose push had
\* ended before the push of the first began is out already, or being taken by
\* another consumer, each by one of its own.
FirstInFirstOut ==
    [][\A v \in Values :
         popped' = Append(popped, v) =>
           Cardinality(waited[v] \ {popped[n] : n \in 1 .. Len(popped)})
             < Cardinality({t \in Consumers : th[t].pc \in InBlock \cup {"pop"}})]_queueVars

\* No thread is in a block that has been freed or handed out again, and neither
\* end of the queue is such a block: the hazard pointers work although mq_tail
\* may still name a block that mq_head has left.
NoFreedBlock ==
    /\ \A t \in QThreads : th[t].pc \in InBlock =>
         th[t].b = hp[t] /\ B(t).state \in {"used", "garbage"}
    /\ blk[mq.head].state = "used"
    /\ blk[mq.tail].state \in {"used", "garbage"}

\* Everything that is pushed comes out: no value is left behind in a block that
\* the consumers have passed, and no consumer sleeps through the wake-up of the
\* last one.
PushedIsPopped == []<>(Pushed \subseteq {popped[n] : n \in 1 .. Len(popped)})
=============================================================================
