------------------------------- MODULE NetMsg -------------------------------
(***************************************************************************)
(* Raw messages: chains of reference-counted message parts over reference- *)
(* counted buffers (net/net-msg.c, net/net-msg.h).  Cloning, splitting and *)
(* forwarding share parts between messages instead of copying bytes; the   *)
(* messages belong to jobs that run on different threads.                  *)
(*                                                                         *)
(* The state is the heap of parts and buffers and the raw_message of every *)
(* caller.  Appending takes the lock in the magic of the last part, so it  *)
(* is two steps, LockLast and PushData, between which other messages that  *)
(* share the part may be worked on.  Part and buffer 0 are NULL; offsets   *)
(* count from 0 as in the code.                                            *)
(***************************************************************************)
EXTENDS Integers, Sequences, FiniteSets

CONSTANTS Messages,      \* how many raw_message structures there are
          Datas,         \* the strings a caller adds
          BufferSizes,   \* default_buffer_sizes
          Small, Std,    \* MSG_SMALL_BUFFER, MSG_STD_BUFFER
          Reserve,       \* RM_PREPEND_RESERVE
          BlockSize,     \* block size of the cipher, a power of two
          MaxParts,      \* bound: parts and buffers alive at a time
          MaxBytes       \* bound: bytes of one message

VARIABLES parts,         \* part -> [ref, next, buf, offset, end, locked]
          bufs,          \* buffer -> [ref, data]
          msg,           \* message -> [live, first, last, total, fo, lo]
          pushing        \* message -> "no" | "plain" | the part it has locked

msgVars == <<parts, bufs, msg, pushing>>

Msgs == 1..Messages
Ids == 1..MaxParts
FreePart == [ref |-> 0, next |-> 0, buf |-> 0, offset |-> 0, end |-> 0, locked |-> FALSE]
FreeBuf == [ref |-> 0, data |-> <<>>]
Empty == [live |-> TRUE, first |-> 0, last |-> 0, total |-> 0, fo |-> 0, lo |-> 0]
Freed == [Empty EXCEPT !.live = FALSE]

\* Bytes are 0 and 1; the cipher is any permutation of them.
Cipher(b) == 1 - b

Least(a, b) == IF a < b THEN a ELSE b

(***************************************************************************)
(* The heap: h = [p |-> parts, b |-> bufs].                                *)
(***************************************************************************)
Heap == [p |-> parts, b |-> bufs]

\* The smallest size class that holds `hint` bytes, else the largest class.
SizeFor(hint) ==
  LET fit == {s \in BufferSizes : s >= hint}
  IN IF fit # {} THEN CHOOSE s \in fit : \A t \in fit : s <= t
     ELSE CHOOSE s \in BufferSizes : \A t \in BufferSizes : t <= s

FreeIds(f) == {i \in Ids : f[i].ref = 0}
NewId(f) == CHOOSE i \in FreeIds(f) : \A j \in FreeIds(f) : i <= j
Room(h, n) == Cardinality(FreeIds(h.p)) >= n /\ Cardinality(FreeIds(h.b)) >= n

\* alloc_msg_buffer + new_msg_part: a part over a fresh buffer of that size.
AddPart(h, hint, next, offset, end) ==
  LET i == NewId(h.p)
      b == NewId(h.b)
  IN [p |-> [h.p EXCEPT ![i] = [ref |-> 1, next |-> next, buf |-> b, offset |-> offset,
                                end |-> end, locked |-> FALSE]],
      b |-> [h.b EXCEPT ![b] = [ref |-> 1, data |-> [k \in 1..SizeFor(hint) |-> 0]]]]

\* new_msg_part over the buffer of part q, which gains a reference.
SharePart(h, q, next, offset, end) ==
  LET i == NewId(h.p)
  IN [p |-> [h.p EXCEPT ![i] = [ref |-> 1, next |-> next, buf |-> h.p[q].buf, offset |-> offset,
                                end |-> end, locked |-> FALSE]],
      b |-> [h.b EXCEPT ![h.p[q].buf].ref = @ + 1]]

\* memcpy of d to `offset` inside the buffer of part i.
Store(h, i, offset, d) ==
  [h EXCEPT !.b[h.p[i].buf].data =
     [k \in DOMAIN @ |-> IF k > offset /\ k <= offset + Len(d) THEN d[k - offset] ELSE @[k]]]

SizeOf(h, i) == Len(h.b[h.p[i].buf].data)
BufRef(h, i) == h.b[h.p[i].buf].ref
Grab(h, i) == [h EXCEPT !.p[i].ref = @ + 1]

RECURSIVE DecRef(_, _)
DecRef(h, i) ==
  IF i = 0 THEN h
  ELSE IF h.p[i].ref > 1 THEN [h EXCEPT !.p[i].ref = @ - 1]
  ELSE LET b == h.p[i].buf
           hb == IF h.b[b].ref = 1 THEN [h EXCEPT !.b[b] = FreeBuf] ELSE [h EXCEPT !.b[b].ref = @ - 1]
       IN DecRef([hb EXCEPT !.p[i] = FreePart], h.p[i].next)

(***************************************************************************)
(* The chain of a message m of a heap: its parts in order, and of part k   *)
(* the first byte used and the end.                                        *)
(***************************************************************************)
RECURSIVE ChainFrom(_, _, _)
ChainFrom(h, i, last) == IF i = last THEN <<i>> ELSE <<i>> \o ChainFrom(h, h.p[i].next, last)

Chain(h, m) == IF m.first = 0 THEN <<>> ELSE ChainFrom(h, m.first, m.last)
Start(h, m, i) == IF i = m.first THEN m.fo ELSE h.p[i].offset
End(h, m, i) == IF i = m.last THEN m.lo ELSE h.p[i].end
BytesOf(h, m, i) == SubSeq(h.b[h.p[i].buf].data, Start(h, m, i) + 1, End(h, m, i))

RECURSIVE BytesFrom(_, _, _)
BytesFrom(h, m, i) ==
  BytesOf(h, m, i) \o IF i = m.last THEN <<>> ELSE BytesFrom(h, m, h.p[i].next)

Bytes(h, m) == IF m.first = 0 THEN <<>> ELSE BytesFrom(h, m, m.first)

\* Bytes of the first k parts of the chain c of m.
RECURSIVE Through(_, _, _, _)
Through(h, m, c, k) ==
  IF k = 0 THEN 0 ELSE Through(h, m, c, k - 1) + End(h, m, c[k]) - Start(h, m, c[k])

(***************************************************************************)
(* fork_message_chain: r = [h, m] with a chain m shares with nobody.       *)
(***************************************************************************)
RECURSIVE CopyFrom(_, _, _, _, _)
\* Copies of chain[k..], linked behind part `prev` (0: the copy becomes first).
CopyFrom(h, m, chain, k, prev) ==
  LET i == chain[k]
      id == NewId(h.p)
      g == SharePart(h, i, 0, Start(h, m, i), End(h, m, i))
      linked == IF prev = 0 THEN g ELSE [g EXCEPT !.p[prev].next = id]
      m1 == IF prev = 0 THEN [m EXCEPT !.first = id] ELSE m
      m2 == [m1 EXCEPT !.last = IF k = Len(chain) THEN id ELSE @]
  IN IF k = Len(chain) THEN [h |-> linked, m |-> m2]
     ELSE LET rest == CopyFrom(linked, m, chain, k + 1, id)
          IN [rest EXCEPT !.m = [@ EXCEPT !.first = m2.first]]

Fork(h, m) ==
  LET chain == Chain(h, m)
      f == m.first
      owned == h.p[f].ref = 1
      h1 == IF owned THEN [h EXCEPT !.p[f].offset = m.fo] ELSE h
      ok == m.fo = h1.p[f].offset
      \* parts before this one have one reference and stay
      from == IF ~ok THEN 1
              ELSE CHOOSE k \in 1..Len(chain) :
                     /\ \A j \in 1..(k - 1) : h1.p[chain[j]].ref = 1
                     /\ k = Len(chain) \/ h1.p[chain[k]].ref # 1
      i == chain[from]
  IN IF ok /\ h1.p[i].ref = 1 /\ i = m.last
     THEN [h |-> DecRef([h1 EXCEPT !.p[i].end = m.lo, !.p[i].next = 0], h1.p[i].next), m |-> m]
     ELSE LET prev == IF from = 1 THEN 0 ELSE chain[from - 1]
              r == CopyFrom(h1, m, chain, from, prev)
          IN [h |-> DecRef(r.h, i), m |-> r.m]

\* rwm_lock_last_part on a message with parts: [h, m, lock], lock the part
\* whose magic is now locked, or 0 when the chain was forked instead.
LockLastPart(h, m) ==
  LET l == m.last
  IN IF h.p[l].next # 0 \/ m.lo # h.p[l].end \/ h.p[l].locked
     THEN LET f == Fork(h, m) IN [h |-> f.h, m |-> f.m, lock |-> 0]
     ELSE [h |-> [h EXCEPT !.p[l].locked = TRUE], m |-> m, lock |-> l]

Unlock(h, l) == IF l = 0 THEN h ELSE [h EXCEPT !.p[l].locked = FALSE]

\* rwm_lock_first_part: [h, m] with m.fo the offset of its first part.
LockFirstPart(h, m) ==
  LET f == m.first
      id == NewId(h.p)
      one == m.first = m.last
      next == IF one THEN 0 ELSE h.p[f].next
      end == IF one THEN m.lo ELSE h.p[f].end
      shared == SharePart(h, f, next, m.fo, end)
  IN IF h.p[f].ref = 1 THEN [h |-> [h EXCEPT !.p[f].offset = m.fo], m |-> m]
     ELSE IF h.p[f].offset = m.fo THEN [h |-> h, m |-> m]
     ELSE [h |-> DecRef(IF one THEN shared ELSE Grab(shared, next), f),
           m |-> [m EXCEPT !.first = id, !.last = IF one THEN id ELSE @]]

(***************************************************************************)
(* rwm_push_data_ext                                                       *)
(***************************************************************************)
\* The loop that adds parts behind m.last until d is used up.
RECURSIVE AddTail(_, _, _)
AddTail(h, m, d) ==
  IF d = <<>> THEN [h |-> h, m |-> m]
  ELSE LET n == Len(d)
           hint == IF m.total + n >= Std THEN Std ELSE Small
           k == Least(n, SizeFor(hint))
           i == NewId(h.p)
           h1 == AddPart(h, hint, 0, 0, k)
           h2 == Store([h1 EXCEPT !.p[m.last].next = i], i, 0, SubSeq(d, 1, k))
       IN AddTail(h2, [m EXCEPT !.last = i, !.total = @ + k, !.lo = k], SubSeq(d, k + 1, n))

\* The first part of an empty message, with room in front.
PushFirst(h, d) ==
  LET n == Len(d)
      hint == IF n >= Small - Reserve THEN Std ELSE Small
      gap == IF n <= Std THEN Least(Reserve, Std - n) ELSE Reserve
      k == Least(n, SizeFor(hint) - gap)
      i == NewId(h.p)
      h1 == Store(AddPart(h, hint, 0, gap, gap + k), i, gap, SubSeq(d, 1, k))
      m1 == [live |-> TRUE, first |-> i, last |-> i, total |-> k, fo |-> gap, lo |-> gap + k]
  IN AddTail(h1, m1, SubSeq(d, k + 1, n))

\* Mutant of PushLast: bytes are added to the last buffer although others share it.
PushLastShared(h, m, d) ==
  LET n == Len(d)
      l == m.last
      k == Least(n, SizeOf(h, l) - m.lo)
      h1 == [Store(h, l, m.lo, SubSeq(d, 1, k)) EXCEPT !.p[l].end = @ + k]
  IN AddTail(h1, [m EXCEPT !.total = @ + k, !.lo = @ + k], SubSeq(d, k + 1, n))

\* Behind a last part that rwm_lock_last_part has prepared.
PushLast(h, m, d) ==
  LET n == Len(d)
      l == m.last
      k == IF BufRef(h, l) = 1 THEN Least(n, SizeOf(h, l) - m.lo) ELSE 0
      h1 == [Store(h, l, m.lo, SubSeq(d, 1, k)) EXCEPT !.p[l].end = @ + k]
  IN AddTail(h1, [m EXCEPT !.total = @ + k, !.lo = @ + k], SubSeq(d, k + 1, n))

\* rwm_push_data_front: into the room of the first part, then new parts.
RECURSIVE AddHead(_, _, _)
AddHead(h, m, d) ==
  LET n == Len(d)
      hint == IF n >= Small THEN Std ELSE Small
      size == SizeFor(hint)
      k == Least(n, size)
      i == NewId(h.p)
      h1 == Store(AddPart(h, hint, m.first, size - k, size), i, size - k, SubSeq(d, n - k + 1, n))
      m1 == [m EXCEPT !.first = i, !.fo = size - k, !.total = @ + k,
                      !.last = IF @ = 0 THEN i ELSE @, !.lo = IF m.last = 0 THEN size ELSE @]
  IN IF n > size THEN AddHead(h1, m1, SubSeq(d, 1, n - k)) ELSE [h |-> h1, m |-> m1]

PushHead(h, m, d) ==
  IF m.first = 0 THEN AddHead(h, m, d)
  ELSE LET r == LockFirstPart(h, m)
           f == r.m.first
           n == Len(d)
           k == IF BufRef(r.h, f) = 1 /\ r.h.p[f].ref = 1 THEN Least(n, r.m.fo) ELSE 0
           at == r.m.fo - k
           h1 == IF k = 0 THEN r.h
                 ELSE [Store(r.h, f, at, SubSeq(d, n - k + 1, n)) EXCEPT !.p[f].offset = at]
           m1 == [r.m EXCEPT !.fo = at, !.total = @ + k]
       IN IF k = n THEN [h |-> h1, m |-> m1] ELSE AddHead(h1, m1, SubSeq(d, 1, n - k))

\* rwm_prepend_alloc and rwm_postpone_alloc, and the caller fills the bytes in.
PrependAlloc(h, m, d) ==
  IF m.first = 0 THEN PushFirst(h, d)
  ELSE LET r == LockFirstPart(h, m)
           f == r.m.first
           n == Len(d)
           at == r.m.fo - n
           size == SizeFor(n)
           i == NewId(r.h.p)
       IN IF r.h.p[f].ref = 1 /\ r.h.p[f].offset >= n /\ BufRef(r.h, f) = 1
          THEN [h |-> [Store(r.h, f, at, d) EXCEPT !.p[f].offset = at],
                m |-> [r.m EXCEPT !.fo = at, !.total = @ + n]]
          ELSE [h |-> Store(AddPart(r.h, n, f, size - n, size), i, size - n, d),
                m |-> [r.m EXCEPT !.first = i, !.fo = size - n, !.total = @ + n]]

\* r is what rwm_lock_last_part has left.
PostponeLocked(r, d) ==
  LET l == r.m.last
      n == Len(d)
      i == NewId(r.h.p)
      added == Store([AddPart(r.h, n, 0, 0, n) EXCEPT !.p[l].next = i], i, 0, d)
  IN IF SizeOf(r.h, l) - r.h.p[l].end >= n /\ BufRef(r.h, l) = 1
     THEN [h |-> Unlock([Store(r.h, l, r.m.lo, d) EXCEPT !.p[l].end = @ + n], r.lock),
           m |-> [r.m EXCEPT !.lo = @ + n, !.total = @ + n]]
     ELSE [h |-> Unlock(added, r.lock),
           m |-> [r.m EXCEPT !.last = i, !.lo = n, !.total = @ + n]]

PostponeAlloc(h, m, d) ==
  IF m.first = 0 THEN PushFirst(h, d) ELSE PostponeLocked(LockLastPart(h, m), d)

(***************************************************************************)
(* rwm_process_ex with RMPF_ADVANCE or RMPF_TRUNCATE, for 0 < n bytes from *)
(* `offset`, offset + n <= total.                                          *)
(***************************************************************************)
Clear(h, m) == [h |-> DecRef(h, m.first), m |-> Empty]

AdvanceTo(h, m, chain, j, at, used) ==
  LET i == chain[j]
      own == \A k \in 1..j : h.p[chain[k]].ref = 1
      moved == IF i = m.first THEN h ELSE DecRef(Grab(h, i), m.first)
  IN IF used = m.total THEN Clear(h, m)
     ELSE [h |-> IF own THEN [moved EXCEPT !.p[i].offset = at] ELSE moved,
           m |-> [m EXCEPT !.first = i, !.fo = at, !.total = @ - used]]

TruncateTo(h, m, chain, j, at, kept) ==
  LET i == chain[j]
      own == \A k \in 1..j : h.p[chain[k]].ref = 1
  IN IF kept = 0 THEN Clear(h, m)
     ELSE [h |-> IF own
                 THEN DecRef([h EXCEPT !.p[i].end = at, !.p[i].next = 0], h.p[i].next)
                 ELSE h,
           m |-> [m EXCEPT !.last = i, !.lo = at, !.total = kept]]

\* Where byte number n of the chain ends up: the part, and the offset in it.
Position(h, m, chain, n) ==
  LET j == CHOOSE k \in 1..Len(chain) :
             /\ Through(h, m, chain, k) >= n
             /\ \A q \in 1..(k - 1) : Through(h, m, chain, q) < n
  IN [j |-> j, at |-> Start(h, m, chain[j]) + n - Through(h, m, chain, j - 1)]

\* The bytes are all in the last part: the fast path of the code.
InLast(h, m, offset) == m.total - offset <= m.lo - h.p[m.last].offset

Advance(h, m, n) ==
  IF n = 0 THEN [h |-> h, m |-> m]
  ELSE IF InLast(h, m, 0)
  THEN [h |-> DecRef(Grab(h, m.last), m.first),
        m |-> [m EXCEPT !.first = m.last, !.fo = m.lo - m.total + n, !.total = @ - n]]
  ELSE LET c == Chain(h, m)
           pos == Position(h, m, c, n)
       IN AdvanceTo(h, m, c, pos.j, pos.at, n)

Truncate(h, m, n) ==
  IF n = 0 THEN [h |-> h, m |-> m]
  ELSE IF InLast(h, m, m.total - n)
  THEN [h |-> h, m |-> [m EXCEPT !.total = @ - n, !.lo = @ - n]]
  ELSE LET c == Chain(h, m)
           pos == Position(h, m, c, m.total - n)
       IN TruncateTo(h, m, c, pos.j, pos.at, m.total - n)

(***************************************************************************)
(* rwm_split (m keeps n bytes) and rwm_union                               *)
(***************************************************************************)
SplitAt(h, m, n) ==
  LET s == m.total - n
      c == Chain(h, m)
      pos == Position(h, m, c, n)
      i == IF n = 0 THEN m.first ELSE c[pos.j]
      at == IF n = 0 THEN m.fo ELSE pos.at
  IN IF n >= m.total THEN [h |-> h, m |-> m, t |-> Empty]
     ELSE IF s <= m.lo - h.p[m.last].offset
     THEN [h |-> Grab(h, m.last),
           m |-> [m EXCEPT !.lo = @ - s, !.total = n],
           t |-> [live |-> TRUE, first |-> m.last, last |-> m.last, total |-> s,
                  fo |-> m.lo - s, lo |-> m.lo]]
     ELSE [h |-> Grab(h, i),
           m |-> [m EXCEPT !.last = i, !.lo = at, !.total = n],
           t |-> [live |-> TRUE, first |-> i, last |-> m.last, total |-> s, fo |-> at, lo |-> m.lo]]

\* The last part of the first message, a, leads to the first of the second, f.
Join(a, f) ==
  [h |-> Unlock(DecRef(Grab([f.h EXCEPT !.p[a.m.last].next = f.m.first], f.m.first), f.m.first), a.lock),
   m |-> [a.m EXCEPT !.last = f.m.last, !.lo = f.m.lo, !.total = @ + f.m.total]]

LockSecond(b) == LockFirstPart(Unlock(b.h, b.lock), b.m)

LockAndJoin(a, t) == Join(a, LockSecond(LockLastPart(a.h, t)))

Union(h, m, t) ==
  IF m.last = 0 THEN [h |-> h, m |-> t]
  ELSE IF t.first = 0 THEN [h |-> h, m |-> m]
  ELSE LockAndJoin(LockLastPart(h, m), t)

\* rwm_get_block_ptr_bytes drops empty leading parts.  Its callers ask it of
\* clones, whose leading parts have other references.
RECURSIVE DropEmpty(_, _)
DropEmpty(h, m) ==
  LET f == m.first
      n == h.p[f].next
  IN IF m.total = 0 \/ End(h, m, f) > m.fo THEN [h |-> h, m |-> m]
     ELSE DropEmpty(DecRef(Grab(h, n), f), [m EXCEPT !.first = n, !.fo = h.p[n].offset])

(***************************************************************************)
(* rwm_encrypt_decrypt_to: the bytes of a message through the cipher onto  *)
(* the end of another, in whole blocks.  x = [h, m, left, room, pend]: m   *)
(* is the result, room what is left of its last buffer, pend the start of  *)
(* a block that the pieces so far have not completed.                      *)
(***************************************************************************)
Enciphered(d) == [k \in 1..Len(d) |-> Cipher(d[k])]

NextBuffer(x, want) ==
  LET i == NewId(x.h.p)
      hint == Least(Std, want)
  IN [x EXCEPT !.h = [AddPart(x.h, hint, 0, 0, 0) EXCEPT !.p[x.m.last].next = i],
               !.m = [@ EXCEPT !.last = i, !.lo = 0], !.room = SizeFor(hint)]

Emit(x, d) ==
  LET n == Len(d)
  IN [x EXCEPT !.h = [Store(x.h, x.m.last, x.m.lo, Enciphered(d)) EXCEPT !.p[x.m.last].end = @ + n],
               !.m = [@ EXCEPT !.lo = @ + n, !.total = @ + n], !.room = @ - n]

RECURSIVE EmitBlocks(_, _)
EmitBlocks(x, d) ==
  LET y == IF x.room < BlockSize THEN NextBuffer(x, x.left + Len(d)) ELSE x
      t == y.room - (y.room % BlockSize)
  IN IF Len(d) <= y.room THEN Emit(y, d)
     ELSE EmitBlocks(Emit(y, SubSeq(d, 1, t)), SubSeq(d, t + 1, Len(d)))

\* A block put together from two pieces may straddle two buffers.
EmitPending(x, block, rest) ==
  IF x.room >= BlockSize THEN Emit(x, block)
  ELSE LET y == Emit(x, SubSeq(block, 1, x.room))
       IN Emit(NextBuffer(y, x.left + rest + BlockSize), SubSeq(block, x.room + 1, BlockSize))

CryptPiece(x0, d) ==
  LET x1 == IF x0.room = 0 THEN NextBuffer(x0, x0.left) ELSE x0
      n == Len(d)
      x == [x1 EXCEPT !.left = @ - n]
      fill == IF x.pend = <<>> THEN 0 ELSE BlockSize - Len(x.pend)
      rest == SubSeq(d, fill + 1, n)
      whole == Len(rest) - (Len(rest) % BlockSize)
      y == IF fill = 0 THEN x
           ELSE [EmitPending(x, x.pend \o SubSeq(d, 1, fill), Len(rest)) EXCEPT !.pend = <<>>]
      z == [y EXCEPT !.pend = SubSeq(rest, whole + 1, Len(rest))]
  IN IF n < fill THEN [x EXCEPT !.pend = @ \o d] ELSE EmitBlocks(z, SubSeq(rest, 1, whole))

RECURSIVE CryptPieces(_, _)
CryptPieces(x, ds) == IF ds = <<>> THEN x ELSE CryptPieces(CryptPiece(x, Head(ds)), Tail(ds))

\* The n first bytes of m as the pieces process_block is called with.
Pieces(h, m, n) ==
  LET c == Chain(h, m)
      piece(k) == SubSeq(BytesOf(h, m, c[k]), 1, n - Through(h, m, c, k - 1))
  IN IF InLast(h, m, 0) THEN <<SubSeq(Bytes(h, m), 1, n)>>
     ELSE SelectSeq([k \in 1..Len(c) |-> piece(k)], LAMBDA d : d # <<>>)

\* rwm_encrypt_decrypt_to up to the first call of process_block.
CryptTarget(h, m, n) ==
  LET i == NewId(h.p)
      hint == Least(Std, IF m.last = 0 THEN n + Reserve ELSE n)
      fresh == IF m.last = 0 THEN AddPart(h, hint, 0, Reserve, Reserve)
               ELSE [AddPart(h, hint, 0, 0, 0) EXCEPT !.p[m.last].next = i]
      h1 == IF m.last = 0 \/ BufRef(h, m.last) # 1 THEN fresh ELSE h
      m1 == IF m.last = 0 THEN [m EXCEPT !.first = i, !.last = i, !.fo = Reserve, !.lo = Reserve]
            ELSE IF BufRef(h, m.last) # 1 THEN [m EXCEPT !.last = i, !.lo = 0] ELSE m
  IN [h |-> h1, m |-> m1, left |-> n, room |-> SizeOf(h1, m1.last) - m1.lo, pend |-> <<>>]

-----------------------------------------------------------------------------
(***************************************************************************)
(* The operations.  A message that is being appended to is its owner's.    *)
(***************************************************************************)
MsgInit ==
  /\ parts = [i \in Ids |-> FreePart]
  /\ bufs = [i \in Ids |-> FreeBuf]
  /\ msg = [m \in Msgs |-> Freed]
  /\ pushing = [m \in Msgs |-> "no"]

Idle(m) == msg[m].live /\ pushing[m] = "no"
Unused(m) == ~msg[m].live

\* Bounds: bytes of a message; parts, for copies of both chains and n more.
Fits(m, n) == msg[m].total + n <= MaxBytes
PartsFor(n) == Room(Heap, n)
ChainLen(m) == Len(Chain(Heap, msg[m]))

(***************************************************************************)
(* What an operation leaves, with the heap in a normal form: pointers have *)
(* no meaning but where they point, so parts and buffers are numbered in   *)
(* the order the messages reach them, and bytes no message covers are 0.   *)
(***************************************************************************)
RECURSIVE Numbered(_, _, _)
\* num, extended by numbers for part i and the parts behind it.
Numbered(h, i, num) ==
  IF i = 0 \/ num[i] # 0 THEN num
  ELSE Numbered(h, h.p[i].next, [num EXCEPT ![i] = 1 + Cardinality({j \in Ids : num[j] # 0})])

RECURSIVE NumberAll(_, _, _)
NumberAll(h, ms, m) ==
  IF m = 0 THEN [i \in Ids |-> 0] ELSE Numbered(h, ms[m].first, NumberAll(h, ms, m - 1))

\* Parts nobody reaches and nobody freed would come last.
RECURSIVE NumberLost(_, _, _)
NumberLost(h, i, num) ==
  IF i > MaxParts THEN num
  ELSE NumberLost(h, i + 1, IF h.p[i].ref = 0 THEN num ELSE Numbered(h, i, num))

\* num[i] is the number of part i.
LeaveAs(h, ms, num) ==
  LET Part(i) == IF i = 0 THEN 0 ELSE num[i]
      used == {i \in Ids : num[i] # 0}
      \* a buffer takes the number of its first part
      Buf(b) == num[CHOOSE i \in used : h.p[i].buf = b /\ \A j \in used : h.p[j].buf = b => num[i] <= num[j]]
      chains == [m \in Msgs |-> Chain(h, ms[m])]
      Kept(b, k) == \E m \in Msgs : \E c \in 1..Len(chains[m]) :
                      LET i == chains[m][c]
                      IN h.p[i].buf = b /\ Start(h, ms[m], i) < k /\ k <= End(h, ms[m], i)
      Clean(b) == [h.b[b] EXCEPT !.data = [k \in DOMAIN @ |-> IF Kept(b, k) THEN @[k] ELSE 0]]
  IN /\ parts' = [n \in Ids |->
                    IF \E i \in used : num[i] = n
                    THEN LET i == CHOOSE i \in used : num[i] = n
                         IN [h.p[i] EXCEPT !.next = Part(@), !.buf = Buf(@)]
                    ELSE FreePart]
     /\ bufs' = [n \in Ids |->
                   IF \E i \in used : num[i] = n /\ Buf(h.p[i].buf) = n
                   THEN Clean(h.p[CHOOSE i \in used : num[i] = n].buf)
                   ELSE FreeBuf]
     /\ msg' = [m \in Msgs |-> [ms[m] EXCEPT !.first = Part(@), !.last = Part(@)]]

Leave(h, ms) ==
  \E g \in {h}, gs \in {ms} :
    \E num \in {NumberLost(g, 1, NumberAll(g, gs, Messages))} : LeaveAs(g, gs, num)

Becomes(r, m) == Leave(r.h, [msg EXCEPT ![m] = r.m])

rwm_create(m, d) ==
  /\ Unused(m) /\ PartsFor(Len(d))
  /\ Becomes(IF d = <<>> THEN [h |-> Heap, m |-> Empty] ELSE PushFirst(Heap, d), m)
  /\ UNCHANGED pushing

LockLast(m) ==
  /\ Idle(m) /\ msg[m].first # 0 /\ PartsFor(ChainLen(m))
  /\ LET r == LockLastPart(Heap, msg[m])
     IN /\ Becomes(r, m)
        /\ pushing' = [pushing EXCEPT ![m] = IF r.lock = 0 THEN "plain" ELSE "locked"]

PushData(m, d) ==
  /\ Fits(m, Len(d)) /\ PartsFor(Len(d))
  /\ \/ /\ pushing[m] # "no"
        /\ LET r == PushLast(Heap, msg[m], d)
               lock == IF pushing[m] = "locked" THEN msg[m].last ELSE 0
           IN Becomes([r EXCEPT !.h = Unlock(@, lock)], m)
        /\ pushing' = [pushing EXCEPT ![m] = "no"]
     \/ /\ Idle(m) /\ msg[m].first = 0
        /\ Becomes(PushFirst(Heap, d), m)
        /\ UNCHANGED pushing

rwm_push_data_front(m, d) ==
  /\ Idle(m) /\ Fits(m, Len(d)) /\ PartsFor(Len(d) + 1)
  /\ Becomes(PushHead(Heap, msg[m], d), m)
  /\ UNCHANGED pushing

rwm_prepend_alloc(m, d) ==
  /\ Idle(m) /\ Fits(m, Len(d)) /\ PartsFor(2)
  /\ Becomes(PrependAlloc(Heap, msg[m], d), m)
  /\ UNCHANGED pushing

rwm_postpone_alloc(m, d) ==
  /\ Idle(m) /\ Fits(m, Len(d)) /\ PartsFor(ChainLen(m) + 1)
  /\ Becomes(PostponeAlloc(Heap, msg[m], d), m)
  /\ UNCHANGED pushing

rwm_fetch_data(m, n) ==
  /\ Idle(m) /\ n \in 1..msg[m].total
  /\ Becomes(Advance(Heap, msg[m], n), m)
  /\ UNCHANGED pushing

rwm_fetch_data_back(m, n) ==
  /\ Idle(m) /\ n \in 1..msg[m].total
  /\ Becomes(Truncate(Heap, msg[m], n), m)
  /\ UNCHANGED pushing

\* Mutant of rwm_clone: the clone takes no reference to the first part.
CloneUncounted(d, m) ==
  /\ Idle(m) /\ Unused(d)
  /\ Leave(Heap,
           [msg EXCEPT ![d] = msg[m]])
  /\ UNCHANGED pushing

rwm_clone(d, m) ==
  /\ Idle(m) /\ Unused(d)
  /\ Leave(IF msg[m].first = 0 THEN Heap ELSE Grab(Heap, msg[m].first),
           [msg EXCEPT ![d] = msg[m]])
  /\ UNCHANGED pushing

rwm_free(m) ==
  /\ Idle(m)
  /\ Becomes([h |-> DecRef(Heap, msg[m].first), m |-> Freed], m)
  /\ UNCHANGED pushing

rwm_clear(m) ==
  /\ Idle(m)
  /\ Becomes(Clear(Heap, msg[m]), m)
  /\ UNCHANGED pushing

\* The callers split off a packet, so n > 0 bytes stay in front.
rwm_split(m, t, n) ==
  /\ Idle(m) /\ Unused(t) /\ n \in 1..msg[m].total
  /\ LET r == SplitAt(Heap, msg[m], n)
     IN Leave(r.h, [msg EXCEPT ![m] = r.m, ![t] = r.t])
  /\ UNCHANGED pushing

\* *head = *raw, then head is split and raw is the tail.
rwm_split_head(m, hd, n) ==
  /\ Idle(m) /\ Unused(hd) /\ n \in 1..msg[m].total
  /\ LET r == SplitAt(Heap, msg[m], n)
     IN Leave(r.h, [msg EXCEPT ![hd] = r.m, ![m] = r.t])
  /\ UNCHANGED pushing

rwm_union(m, t) ==
  /\ m # t /\ Idle(m) /\ Idle(t) /\ Fits(m, msg[t].total)
  /\ PartsFor(ChainLen(m) + ChainLen(t) + 1)
  /\ LET r == Union(Heap, msg[m], msg[t])
     IN Leave(r.h, [msg EXCEPT ![m] = r.m, ![t] = Freed])
  /\ UNCHANGED pushing

rwm_get_block_ptr_bytes(m) ==
  /\ Idle(m) /\ msg[m].total > 0
  /\ End(Heap, msg[m], msg[m].first) = msg[m].fo
  /\ parts[msg[m].first].ref # 1
  /\ Becomes(DropEmpty(Heap, msg[m]), m)
  /\ UNCHANGED pushing

rwm_encrypt_decrypt_to(m, res, bytes) ==
  LET n == bytes - (bytes % BlockSize)
      a == IF msg[res].first = 0 THEN [h |-> Heap, m |-> msg[res], lock |-> 0]
           ELSE LockLastPart(Heap, msg[res])
      x == CryptPieces(CryptTarget(a.h, a.m, n), Pieces(a.h, msg[m], n))
      r == Advance(x.h, msg[m], n)
      h == Unlock(r.h, a.lock)
  IN /\ m # res /\ Idle(m) /\ Idle(res) /\ bytes \in 1..msg[m].total /\ n > 0
     /\ Fits(res, n) /\ PartsFor(ChainLen(res) + n + 2)
     /\ Leave(h, [msg EXCEPT ![m] = r.m, ![res] = x.m])
     /\ UNCHANGED pushing

MsgNext ==
  \/ \E m \in Msgs, d \in Datas :
       \/ rwm_create(m, d) \/ PushData(m, d) \/ rwm_push_data_front(m, d)
       \/ rwm_prepend_alloc(m, d) \/ rwm_postpone_alloc(m, d)
  \/ \E m \in Msgs : LockLast(m) \/ rwm_free(m) \/ rwm_clear(m) \/ rwm_get_block_ptr_bytes(m)
  \/ \E m \in Msgs, n \in 1..MaxBytes : rwm_fetch_data(m, n) \/ rwm_fetch_data_back(m, n)
  \/ \E m, t \in Msgs : rwm_clone(m, t) \/ rwm_union(m, t)
  \/ \E m, t \in Msgs, n \in 1..MaxBytes :
       rwm_split(m, t, n) \/ rwm_split_head(m, t, n) \/ rwm_encrypt_decrypt_to(m, t, n)

MsgSpec == MsgInit /\ [][MsgNext]_msgVars

-----------------------------------------------------------------------------
(***************************************************************************)
(* Properties                                                              *)
(***************************************************************************)
\* The types, and what rwm_check asserts of every message.
MsgTypeOK ==
  /\ \A i \in Ids : /\ parts[i].ref \in Nat /\ parts[i].next \in 0..MaxParts
                    /\ parts[i].buf \in 0..MaxParts /\ bufs[i].ref \in Nat
                    /\ parts[i].ref > 0 => /\ parts[i].offset \in 0..parts[i].end
                                           /\ parts[i].end <= SizeOf(Heap, i)
  /\ \A m \in Msgs : pushing[m] \in {"no", "plain", "locked"} /\ msg[m].total \in 0..MaxBytes
  /\ \A m \in Msgs : msg[m].first # 0 =>
       /\ msg[m].fo >= parts[msg[m].first].offset
       /\ msg[m].lo <= parts[msg[m].last].end
       /\ Len(Bytes(Heap, msg[m])) = msg[m].total

\* msg_part_decref and msg_buffer_decref free a part or a buffer when the
\* last reference goes: the counts are the references that exist, so nothing
\* in use is freed and nothing unused is kept.
MsgRefsCounted ==
  \A i \in Ids :
    /\ parts[i].ref = Cardinality({m \in Msgs : msg[m].first = i})
                      + Cardinality({j \in Ids : parts[j].next = i})
    /\ bufs[i].ref = Cardinality({j \in Ids : parts[j].buf = i})

\* The messages behave as independent strings of bytes: what one owner does to
\* its message never shows in another one that shares its parts.
Strings == INSTANCE ByteStrings
             WITH str <- [m \in Msgs |-> IF msg[m].live THEN Bytes(Heap, msg[m]) ELSE <<-1>>]

MessagesAreStrings == Strings!StrSpec
=============================================================================
