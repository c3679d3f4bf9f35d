---------------------------- MODULE EventLoop ----------------------------
(***************************************************************************)
(* The event loop of the main thread (net-events.c).  Descriptors that     *)
(* epoll reports go to a binary heap ordered by priority and then by the   *)
(* time they were put there; epoll_runqueue makes a pass over the heap and *)
(* epoll_work makes passes until the heap is empty before it waits for     *)
(* more.  What a handler does is open: it may be content, ask to be run    *)
(* again, be removed, change the events it waits for, or fail the socket   *)
(* of another descriptor.                                                  *)
(***************************************************************************)
EXTENDS Integers, Sequences, FiniteSetsExt, SequencesExt

CONSTANTS Fds,        \* the descriptors with a handler
          Priority,   \* of each: less runs first
          MaxRaised,  \* bound: times the system reports each descriptor
          MaxReruns   \* bound: times a handler asks to be run again

VARIABLES eheap,   \* ev_heap
          stamp,   \* of each descriptor: when it was put in the heap
          evTime,  \* ev_timestamp
          epoll,   \* the descriptors in the epoll set
          raised,  \* those of them the system has something to report of
          lpc,     \* where epoll_work is
          left     \* what is left of the bounds

loopVars == <<eheap, stamp, evTime, epoll, raised, lpc, left>>

LoopTypeOK ==
  /\ eheap \in Seq(Fds) /\ stamp \in [Fds -> Nat] /\ evTime \in Nat
  /\ epoll \subseteq Fds /\ raised \subseteq epoll
  /\ lpc \in {"begin", "pass", "timers", "wait"}
  /\ \A f \in Fds : left.raise[f] \in 0 .. MaxRaised[f]
  /\ left.rerun \in 0 .. MaxReruns

LoopInit ==
  /\ eheap = <<>> /\ stamp = [f \in Fds |-> 0] /\ evTime = 0
  /\ epoll = Fds /\ raised = {} /\ lpc = "begin"
  /\ left = [raise |-> MaxRaised, rerun |-> MaxReruns]

----------------------------------------------------------------------------
(* The heap.  in_queue is the place of a descriptor in the array; s is the *)
(* time stamp of each.                                                     *)

\* greater_ev (e, f) > 0
Greater(s, e, f) ==
  \/ Priority[e] > Priority[f]
  \/ Priority[e] = Priority[f] /\ s[e] > s[f]

LesserChild(h, s, i) == IF i < Len(h) /\ Greater(s, h[i], h[i + 1]) THEN i + 1 ELSE i

\* The place i is free: f goes there or, past its greater ancestors, further up.
RECURSIVE RiseFrom(_, _, _, _)
RiseFrom(h, s, f, i) ==
  IF i > 1 /\ Greater(s, h[i \div 2], f)
  THEN RiseFrom([h EXCEPT ![i] = h[i \div 2]], s, f, i \div 2)
  ELSE [h EXCEPT ![i] = f]

RECURSIVE SinkFrom(_, _, _, _)
SinkFrom(h, s, f, i) ==
  LET c == LesserChild(h, s, 2 * i)
  IN  IF 2 * i > Len(h) \/ ~Greater(s, f, h[c])
      THEN [h EXCEPT ![i] = f]
      ELSE SinkFrom([h EXCEPT ![i] = h[c]], s, f, c)

PopHeapHead(h, s) ==
  IF Len(h) = 1 THEN <<>> ELSE SinkFrom(Front(h), s, Last(h), 1)

\* The hole at place i moves to a leaf; the least child takes each place.
RECURSIVE Hole(_, _, _)
Hole(h, s, i) ==
  LET c == LesserChild(h, s, 2 * i)
  IN  IF 2 * i > Len(h) THEN [h |-> h, i |-> i]
                        ELSE Hole([h EXCEPT ![i] = h[c]], s, c)

\* remove_event_from_heap: the last descriptor fills the hole and rises.
RemoveFromHeap(h, s, f) ==
  IF f \notin Range(h) THEN h
  ELSE LET o == Hole(h, s, CHOOSE i \in 1 .. Len(h) : h[i] = f)
       IN  IF o.i = Len(h) THEN Front(o.h) ELSE RiseFrom(Front(o.h), s, Last(o.h), o.i)

PutIntoHeap(h, s, f) ==
  IF f \notin Range(h) THEN RiseFrom(Append(h, f), s, f, Len(h) + 1)
  ELSE LET o == Hole(h, s, CHOOSE i \in 1 .. Len(h) : h[i] = f)
       IN  RiseFrom(o.h, s, f, o.i)

----------------------------------------------------------------------------
(* The system, and what handlers do with descriptors.                      *)

Raise(f) ==
  /\ f \in epoll \ raised /\ left.raise[f] > 0
  /\ raised' = raised \cup {f}
  /\ left' = [left EXCEPT !.raise[f] = @ - 1]
  /\ UNCHANGED <<eheap, stamp, evTime, epoll, lpc>>

\* epoll_remove: the system forgets what it had to report.
EpollRemove(f) == epoll' = epoll \ {f} /\ raised' = raised \ {f}

\* epoll_insert with flags: the same ones, or other ones than before, which
\* (like adding the descriptor) makes the system report what is pending.
EpollInsert(f) ==
  /\ epoll' = epoll \cup {f}
  /\ \/ f \in epoll /\ UNCHANGED <<raised, left>>
     \/ /\ left.raise[f] > 0
        /\ raised' = raised \cup {f}
        /\ left' = [left EXCEPT !.raise[f] = @ - 1]

\* fail_socket_connection, from a job the main thread runs in between.
FailFd(f) ==
  /\ f \in epoll
  /\ eheap' = RemoveFromHeap(eheap, stamp, f)
  /\ EpollRemove(f)
  /\ UNCHANGED <<stamp, evTime, lpc, left>>

----------------------------------------------------------------------------
(* epoll_work.                                                             *)

PassBegins ==
  /\ lpc = "begin"
  /\ \/ eheap = <<>> /\ lpc' = "timers" /\ UNCHANGED evTime
     \/ eheap # <<>> /\ lpc' = "pass" /\ evTime' = evTime + 2
  /\ UNCHANGED <<eheap, stamp, epoll, raised, left>>

\* There is a head, and it was put in the heap before this pass.
HeadIsOld == eheap # <<>> /\ stamp[Head(eheap)] < evTime

\* The handler of the head runs, and epoll_runqueue does as it says.
RunHead ==
  LET f == Head(eheap)
      h == PopHeapHead(eheap, stamp)
  IN  /\ lpc = "pass" /\ HeadIsOld
      /\ \/ \* EVA_CONTINUE
            /\ eheap' = h /\ UNCHANGED <<stamp, epoll, raised, left>>
         \/ \* EVA_REMOVE, EVA_ERROR, or no handler
            /\ eheap' = RemoveFromHeap(h, stamp, f) /\ EpollRemove(f)
            /\ UNCHANGED <<stamp, left>>
         \/ \* EVA_RERUN
            /\ left.rerun > 0
            /\ left' = [left EXCEPT !.rerun = @ - 1]
            /\ stamp' = [stamp EXCEPT ![f] = evTime]
            /\ eheap' = PutIntoHeap(h, stamp', f)
            /\ UNCHANGED <<epoll, raised>>
         \/ \* the events to wait for
            /\ eheap' = h /\ EpollInsert(f) /\ UNCHANGED stamp
      /\ UNCHANGED <<evTime, lpc>>

PassEnds ==
  /\ lpc = "pass" /\ ~HeadIsOld
  /\ lpc' = "timers"
  /\ UNCHANGED <<eheap, stamp, evTime, epoll, raised, left>>

\* Mutant of LoopTimers: one pass, and then to epoll_wait.
LoopTimersOnce ==
  /\ lpc = "timers"
  /\ lpc' = "wait"
  /\ UNCHANGED <<eheap, stamp, evTime, epoll, raised, left>>

\* epoll_run_timers, and another pass unless the heap is empty.
LoopTimers ==
  /\ lpc = "timers"
  /\ lpc' = IF eheap = <<>> THEN "wait" ELSE "begin"
  /\ UNCHANGED <<eheap, stamp, evTime, epoll, raised, left>>

\* epoll_fetch_events: what the system reports goes to the heap, in its order.
FetchEvents ==
  /\ lpc = "wait" /\ raised # {}
  /\ stamp' = [f \in Fds |-> IF f \in raised THEN evTime ELSE stamp[f]]
  /\ \E order \in SetToSeqs(raised) :
       eheap' = FoldLeft(LAMBDA h, f : PutIntoHeap(h, stamp', f), eheap, order)
  /\ raised' = {}
  /\ lpc' = "begin"
  /\ UNCHANGED <<evTime, epoll, left>>

LoopStep == PassBegins \/ RunHead \/ PassEnds \/ LoopTimers \/ FetchEvents

LoopNext == LoopStep \/ \E f \in Fds : Raise(f) \/ FailFd(f)

\* The main thread goes on; the system owes it nothing.
LoopFair == WF_loopVars(LoopStep)

LoopSpec == LoopInit /\ [][LoopNext]_loopVars

----------------------------------------------------------------------------
(* Properties.                                                             *)

\* The heap is one: no descriptor is in it twice, and none runs before one
\* of lesser priority or of an earlier time, after any sequence of events,
\* re-runs and removals from its middle.
EventHeapOrdered ==
  /\ IsInjective(eheap)
  /\ \A i \in 2 .. Len(eheap) : ~Greater(stamp, eheap[i \div 2], eheap[i])

\* What the system reported is run (or removed): when the system and the
\* handlers have no more events to add, none stays in the heap behind the
\* others, although re-runs and lesser priorities go first.
EventsRun == []<>(eheap = <<>>)

=============================================================================
