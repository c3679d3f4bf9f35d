----------------------------- MODULE MsgBuffers -----------------------------
(***************************************************************************)
(* The buffers of the raw messages (net/net-msg-buffers.c), for one size   *)
(* class: chunks of buffers, each with a binary tree that counts the free  *)
(* buffers below every node.  A chunk is worked on under a try-lock in its *)
(* magic; a thread that frees a buffer while the chunk is locked leaves it *)
(* in the queue of the chunk, and whoever holds the lock has to return it  *)
(* to the tree, before or after it unlocks.                                *)
(*                                                                         *)
(* A step is one atomic instruction or the work done under a lock.  Chunk, *)
(* thread and buffer 0 are NULL.  Chunks are never freed: the code has the *)
(* call commented out.                                                     *)
(***************************************************************************)
EXTENDS Integers, Sequences, FiniteSets

CONSTANTS BufThreads,   \* threads that allocate and free
          MaxChunks,    \* max_buffer_chunks
          TwoPower,     \* leaves of the tree, a power of two
          TotBuffers,   \* buffers of a chunk, at most TwoPower
          MaxUsed       \* bound: buffers with callers when one more is asked for

ASSUME BuffersAssumption ==
  /\ IsFiniteSet(BufThreads) /\ BufThreads # {} /\ 0 \notin BufThreads
  /\ MaxChunks \in Nat /\ TotBuffers \in 1..TwoPower

VARIABLES list,     \* the chunks, newest first: the ring behind the chunk header
          count,    \* allocated_buffer_chunks
          headLock, \* who holds the lock of the chunk header
          lock,     \* chunk -> who holds its lock
          tree,     \* chunk -> free_cnt
          queue,    \* chunk -> free_block_queue
          posted,   \* the queued buffers whose push has raised the semaphore
          save,     \* thread -> ChunkSave
          bth,       \* thread -> where it is and its locals
          used      \* the buffers callers have

bufVars == <<list, count, headLock, lock, tree, queue, posted, save, bth, used>>

\* The limit is tested before the chunk is counted, so threads may pass it together.
ChunkIds == 1..(MaxChunks + Cardinality(BufThreads))
Buffers == ChunkIds \X (0..(TotBuffers - 1))
NoBuffer == <<0, 0>>
Tree == 1..(2 * TwoPower - 1)

\* pc; chunk worked on; buffer in hand; neighbour; what a lock is for; what
\* follows the unlock.
Resting == [pc |-> "idle", c |-> 0, b |-> NoBuffer, near |-> NoBuffer, why |-> "", then |-> ""]

(***************************************************************************)
(* The tree                                                                *)
(***************************************************************************)
Leaf(b) == TwoPower + b[2]

RECURSIVE Up(_)
Up(i) == IF i = 0 THEN {} ELSE {i} \cup Up(i \div 2)

\* alloc_new_msg_buffers_chunk: every buffer free, the other leaves empty.
RECURSIVE FullCount(_)
FullCount(i) == IF i >= TwoPower THEN IF i - TwoPower < TotBuffers THEN 1 ELSE 0
                ELSE FullCount(2 * i) + FullCount(2 * i + 1)
FullTree == [i \in Tree |-> FullCount(i)]
NoTree == [i \in Tree |-> 0]

Taken(f, leaf) == [i \in Tree |-> IF i \in Up(leaf) THEN f[i] - 1 ELSE f[i]]
Returned(f, b) == [i \in Tree |-> IF i \in Up(Leaf(b)) THEN f[i] + 1 ELSE f[i]]

\* Leftmost free leaf below i.
RECURSIVE Leftmost(_, _)
Leftmost(f, i) == IF i >= TwoPower THEN i ELSE Leftmost(f, IF f[2 * i] = 0 THEN 2 * i + 1 ELSE 2 * i)

\* The free leaf with j free ones before it below i.
RECURSIVE Nth(_, _, _)
Nth(f, i, j) == IF i >= TwoPower THEN i
                ELSE IF f[2 * i] <= j THEN Nth(f, 2 * i + 1, j - f[2 * i]) ELSE Nth(f, 2 * i, j)

\* Next to buffer x: go down towards x, and j is where to turn back to when
\* there is no free buffer behind x on the way.
RECURSIVE Beside(_, _, _, _, _, _)
Beside(f, x, i, j, l, r) ==
  LET m == (l + r) \div 2
  IN IF i >= TwoPower THEN i
     ELSE IF x < m
     THEN IF f[2 * i] > 0 THEN Beside(f, x, 2 * i, IF f[2 * i + 1] > 0 THEN 2 * i + 1 ELSE j, l, m)
          ELSE Beside(f, x, 2 * i + 1, j, m, r)
     ELSE IF f[2 * i + 1] > 0 THEN Beside(f, x, 2 * i + 1, j, m, r)
     ELSE Leftmost(f, j)

Near(f, x) == IF x < TwoPower - 1 /\ f[TwoPower + x + 1] > 0 THEN TwoPower + x + 1
              ELSE Beside(f, x, 1, 1, 0, TwoPower)

\* The leaves an allocation may take: beside the neighbour, else one of the
\* first sixteen free ones at random.
BufChoices(f, c, near) ==
  IF near # NoBuffer /\ near[1] = c THEN {Near(f, near[2])}
  ELSE {Nth(f, 1, j) : j \in 0..((IF f[1] < 16 THEN f[1] ELSE 16) - 1)}

-----------------------------------------------------------------------------
BufInit ==
  /\ list = <<>> /\ count = 0 /\ headLock = 0
  /\ lock = [c \in ChunkIds |-> 0] /\ tree = [c \in ChunkIds |-> NoTree]
  /\ queue = [c \in ChunkIds |-> {}] /\ posted = {}
  /\ save = [t \in BufThreads |-> 0] /\ bth = [t \in BufThreads |-> Resting]
  /\ used = {}

BufAt(t, pc) == bth[t].pc = pc
Go(t, pc) == bth' = [bth EXCEPT ![t].pc = pc]
TryLock(t, c, why) == bth' = [bth EXCEPT ![t].pc = "cas", ![t].c = c, ![t].why = why]
BufUnlock(t, then) == bth' = [bth EXCEPT ![t].pc = "unlock", ![t].then = then]

\* alloc_msg_buffer, alloc_msg_buffer_internal
AllocBegins(t, near) ==
  /\ BufAt(t, "idle") /\ Cardinality(used) <= MaxUsed
  /\ LET c == save[t]
         x == [Resting EXCEPT !.near = near]
     IN bth' = [bth EXCEPT ![t] = IF c = 0 THEN [x EXCEPT !.pc = "new"]
                                ELSE IF tree[c][1] > 0 THEN [x EXCEPT !.pc = "cas", !.c = c, !.why = "hint"]
                                ELSE [x EXCEPT !.pc = "head"]]
  /\ UNCHANGED <<list, count, headLock, lock, tree, queue, posted, save, used>>

\* free_msg_buffer: the last reference to b is gone.
FreeBegins(t, b) ==
  /\ BufAt(t, "idle") /\ b \in used
  /\ used' = used \ {b}
  /\ bth' = [bth EXCEPT ![t] = [Resting EXCEPT !.pc = "cas", !.c = b[1], !.b = b, !.why = "free"]]
  /\ UNCHANGED <<list, count, headLock, lock, tree, queue, posted, save>>

\* The chunk behind c in the ring, and the search goes on or has come round.
After(c) == LET k == CHOOSE k \in 1..Len(list) : list[k] = c
            IN list[IF k = Len(list) THEN 1 ELSE k + 1]

ScanNext(t) ==
  IF After(bth[t].c) = save[t]
  THEN headLock' = 0 /\ Go(t, "new")
  ELSE bth' = [bth EXCEPT ![t].pc = "scan", ![t].c = After(@)] /\ UNCHANGED headLock

\* try_lock_chunk: the compare-and-swap.
LockSucceeds(t) ==
  /\ BufAt(t, "cas") /\ lock[bth[t].c] = 0
  /\ lock' = [lock EXCEPT ![bth[t].c] = t] /\ Go(t, "drain")
  /\ UNCHANGED <<list, count, headLock, tree, queue, posted, save, used>>

LockFails(t) ==
  /\ BufAt(t, "cas") /\ lock[bth[t].c] # 0
  /\ CASE bth[t].why = "hint"   -> Go(t, "head") /\ UNCHANGED headLock
       [] bth[t].why = "scan"   -> ScanNext(t)
       [] bth[t].why = "free"   -> Go(t, "push") /\ UNCHANGED headLock
       [] bth[t].why = "pushed" -> Go(t, "idle") /\ UNCHANGED headLock
       [] bth[t].why = "again"  -> Go(t, "unlocked") /\ UNCHANGED headLock
  /\ UNCHANGED <<list, count, lock, tree, queue, posted, save, used>>

\* mpq_pop_nw and free_std_msg_buffer, under the lock.
ReturnQueued(t) ==
  /\ bth[t].pc \in {"drain", "unlock"}
  /\ LET c == bth[t].c
     IN \E b \in posted \cap queue[c] :
          /\ queue' = [queue EXCEPT ![c] = @ \ {b}] /\ posted' = posted \ {b}
          /\ tree' = [tree EXCEPT ![c] = Returned(@, b)]
  /\ UNCHANGED <<list, count, headLock, lock, save, bth, used>>

\* try_lock_chunk has found the queue empty.
Locked(t) ==
  LET c == bth[t].c
  IN /\ BufAt(t, "drain") /\ posted \cap queue[c] = {}
     /\ CASE bth[t].why = "hint" /\ tree[c][1] = 0 -> BufUnlock(t, "head") /\ UNCHANGED <<headLock, tree>>
          [] bth[t].why = "scan" /\ tree[c][1] = 0 -> BufUnlock(t, "scan") /\ UNCHANGED <<headLock, tree>>
          [] bth[t].why = "hint" /\ tree[c][1] > 0 -> Go(t, "take") /\ UNCHANGED <<headLock, tree>>
          [] bth[t].why = "scan" /\ tree[c][1] > 0 -> Go(t, "take") /\ headLock' = 0 /\ UNCHANGED tree
          [] bth[t].why = "free" ->
               /\ tree' = [tree EXCEPT ![c] = Returned(@, bth[t].b)]
               /\ bth' = [bth EXCEPT ![t].pc = "unlock", ![t].then = "idle", ![t].b = NoBuffer]
               /\ UNCHANGED headLock
          [] bth[t].why = "pushed" -> BufUnlock(t, "idle") /\ UNCHANGED <<headLock, tree>>
          [] bth[t].why = "again" -> Go(t, "unlock") /\ UNCHANGED <<headLock, tree>>
     /\ UNCHANGED <<list, count, lock, queue, posted, save, used>>

\* unlock_chunk: the queue has been found empty; then the lock is given back ...
DrainEnds(t) ==
  /\ BufAt(t, "unlock") /\ posted \cap queue[bth[t].c] = {}
  /\ Go(t, "giveback")
  /\ UNCHANGED <<list, count, headLock, lock, tree, queue, posted, save, used>>

UnlockChunk(t) ==
  /\ BufAt(t, "giveback")
  /\ lock' = [lock EXCEPT ![bth[t].c] = 0] /\ Go(t, "check")
  /\ UNCHANGED <<list, count, headLock, tree, queue, posted, save, used>>

\* Mutant of CheckQueue: the queue is not looked at again after the unlock.
CheckNothing(t) ==
  /\ BufAt(t, "check")
  /\ Go(t, "unlocked")
  /\ UNCHANGED <<list, count, headLock, lock, tree, queue, posted, save, used>>

\* ... and look again: a buffer may have been queued in between.
CheckQueue(t) ==
  /\ BufAt(t, "check")
  /\ IF queue[bth[t].c] = {} THEN Go(t, "unlocked") ELSE TryLock(t, bth[t].c, "again")
  /\ UNCHANGED <<list, count, headLock, lock, tree, queue, posted, save, used>>

Unlocked(t) ==
  /\ BufAt(t, "unlocked")
  /\ CASE bth[t].then = "scan" -> ScanNext(t) /\ UNCHANGED used
       [] bth[t].then = "got"  -> /\ used' = used \cup {bth[t].b}
                                 /\ bth' = [bth EXCEPT ![t] = Resting] /\ UNCHANGED headLock
       [] bth[t].then = "idle" -> bth' = [bth EXCEPT ![t] = Resting] /\ UNCHANGED <<headLock, used>>
       [] bth[t].then = "head" -> Go(t, "head") /\ UNCHANGED <<headLock, used>>
  /\ UNCHANGED <<list, count, lock, tree, queue, posted, save>>

\* mpq_push_w to the queue of a locked chunk: the item, then the semaphore.
PushFree(t) ==
  /\ BufAt(t, "push")
  /\ queue' = [queue EXCEPT ![bth[t].c] = @ \cup {bth[t].b}] /\ Go(t, "post")
  /\ UNCHANGED <<list, count, headLock, lock, tree, posted, save, used>>

PostFree(t) ==
  /\ BufAt(t, "post")
  /\ posted' = posted \cup {bth[t].b}
  /\ bth' = [bth EXCEPT ![t].pc = "cas", ![t].why = "pushed", ![t].b = NoBuffer]
  /\ UNCHANGED <<list, count, headLock, lock, tree, queue, save, used>>

\* The search through the other chunks, under the lock of the header.
LockHead(t) ==
  /\ BufAt(t, "head") /\ headLock = 0
  /\ headLock' = t /\ bth' = [bth EXCEPT ![t].pc = "scan", ![t].c = save[t]]
  /\ UNCHANGED <<list, count, lock, tree, queue, posted, save, used>>

Scan(t) ==
  /\ BufAt(t, "scan")
  /\ IF tree[bth[t].c][1] = 0 THEN ScanNext(t)
     ELSE TryLock(t, bth[t].c, "scan") /\ UNCHANGED headLock
  /\ UNCHANGED <<list, count, lock, tree, queue, posted, save, used>>

\* alloc_new_msg_buffers_chunk: the limit, the list, the counter and the tree.
NewRefused(t) ==
  /\ BufAt(t, "new") /\ count >= MaxChunks
  /\ bth' = [bth EXCEPT ![t] = Resting]
  /\ UNCHANGED <<list, count, headLock, lock, tree, queue, posted, save, used>>

NewAllowed(t) ==
  /\ BufAt(t, "new") /\ count < MaxChunks
  /\ Go(t, "link")
  /\ UNCHANGED <<list, count, headLock, lock, tree, queue, posted, save, used>>

LinkChunk(t) ==
  LET c == Len(list) + 1
  IN /\ BufAt(t, "link") /\ headLock = 0
     /\ list' = <<c>> \o list /\ lock' = [lock EXCEPT ![c] = t]
     /\ bth' = [bth EXCEPT ![t].pc = "count", ![t].c = c]
     /\ UNCHANGED <<count, headLock, tree, queue, posted, save, used>>

CountChunk(t) ==
  /\ BufAt(t, "count")
  /\ count' = count + 1
  /\ tree' = [tree EXCEPT ![bth[t].c] = FullTree] /\ Go(t, "take")
  /\ UNCHANGED <<list, headLock, lock, queue, posted, save, used>>

TakeBuffer(t) ==
  LET c == bth[t].c
  IN /\ BufAt(t, "take")
     /\ save' = [save EXCEPT ![t] = c]
     /\ \E leaf \in BufChoices(tree[c], c, bth[t].near) :
          /\ tree' = [tree EXCEPT ![c] = Taken(@, leaf)]
          /\ bth' = [bth EXCEPT ![t].pc = "unlock", ![t].then = "got", ![t].near = NoBuffer,
                              ![t].b = <<c, leaf - TwoPower>>]
     /\ UNCHANGED <<list, count, headLock, lock, queue, posted, used>>

BufStep(t) ==
  \/ LockSucceeds(t) \/ LockFails(t) \/ ReturnQueued(t) \/ Locked(t) \/ DrainEnds(t)
  \/ UnlockChunk(t) \/ CheckQueue(t) \/ Unlocked(t) \/ PushFree(t) \/ PostFree(t)
  \/ LockHead(t) \/ Scan(t)
  \/ NewRefused(t) \/ NewAllowed(t) \/ LinkChunk(t) \/ CountChunk(t) \/ TakeBuffer(t)

BufNext ==
  \E t \in BufThreads :
    \/ \E b \in used \cup {NoBuffer} : AllocBegins(t, b)
    \/ \E b \in used : FreeBegins(t, b)
    \/ BufStep(t)

BufSpec == BufInit /\ [][BufNext]_bufVars

-----------------------------------------------------------------------------
BufTypeOK ==
  /\ count \in Nat /\ headLock \in BufThreads \cup {0}
  /\ \A c \in ChunkIds : /\ lock[c] \in BufThreads \cup {0} /\ queue[c] \subseteq Buffers
                         /\ tree[c] \in [Tree -> 0..TwoPower]
  /\ posted \subseteq UNION {queue[c] : c \in ChunkIds} /\ used \subseteq Buffers
  /\ \A t \in BufThreads : save[t] \in ChunkIds \cup {0} /\ bth[t].b \in Buffers \cup {NoBuffer}

BufReady(c) == \E k \in 1..Len(list) : list[k] = c /\ \A t \in BufThreads : ~(BufAt(t, "count") /\ bth[t].c = c)

\* Every buffer of a chunk is in exactly one place: free in the tree, with a
\* caller, in the queue or in the hands of one thread; and the tree adds up,
\* or an allocation would descend to a leaf that is taken (the assertions on
\* free_cnt in alloc_msg_buffer_internal and free_std_msg_buffer).
BuffersAccounted ==
  \A c \in ChunkIds : BufReady(c) =>
    /\ \A i \in 1..(TwoPower - 1) : tree[c][i] = tree[c][2 * i] + tree[c][2 * i + 1]
    /\ \A x \in 0..(TotBuffers - 1) :
         tree[c][TwoPower + x] + Cardinality({t \in BufThreads : bth[t].b = <<c, x>> /\ ~BufAt(t, "post")})
           + (IF <<c, x>> \in used THEN 1 ELSE 0) + (IF <<c, x>> \in queue[c] THEN 1 ELSE 0) = 1

\* A buffer freed while its chunk was locked is not forgotten: when no thread
\* is inside the allocator, nothing is left in a queue (unlock_chunk looks
\* again after it has unlocked, free_msg_buffer tries again after its push).
NoBufferStranded ==
  (\A t \in BufThreads : BufAt(t, "idle")) => \A c \in ChunkIds : queue[c] = {}
=============================================================================
