---------------------------- MODULE JobTimers ----------------------------
(***************************************************************************)
(* The timers of jobs.  A thread with a timer manager keeps a binary heap  *)
(* of the timers that live on it; a timer lives on the thread that set it  *)
(* first, or on the main thread when that one has no manager.  Setting or  *)
(* removing a timer changes real_wakeup_time at once and the heap at once  *)
(* only on the timer's own thread: elsewhere the job is pushed to the      *)
(* manager, which brings the heap up to date later.  A timer that is due   *)
(* leaves the heap and sends JS_ALARM to its job.  The heap, the queue and *)
(* the signal each own a reference to the job.  A time of 0 is "not set".  *)
(***************************************************************************)
EXTENDS Integers, Sequences, SequencesExt

CONSTANTS TimerJobs,     \* the jobs that have a timer
          ManagerOf,     \* of each: the thread its alarms run on, NoManager for a
                         \* class of several threads, which have no manager
          NoManager,
          MainThread,    \* the thread that polls the sockets and checks all timers
          MaxTime,       \* bound: the clock
          MaxSets        \* bound, of each: times the timer is set or removed

Managers == {MainThread} \cup ({ManagerOf[j] : j \in TimerJobs} \ {NoManager})

AlarmTimes == 1 .. MaxTime

VARIABLES clock,    \* precise_now
          timer,    \* of each job: real_wakeup_time, wakeup_time, the thread in
                    \* ev->flags, references, signal JS_ALARM, flag
                    \* JF_COMPLETED, is its creator's reference left, times set
          theap,    \* of each manager's thread: et_heap
          tqueue,   \* of each manager: the jobs pushed to it
          wakeup,   \* of each manager's thread: JT->wakeup_time
          timerAux  \* the managers with a signal JS_AUX

timerVars == <<clock, timer, theap, tqueue, wakeup, timerAux>>

TimersTypeOK ==
  /\ clock \in 0 .. MaxTime
  /\ timer \in [TimerJobs -> [real: 0 .. MaxTime, wake: 0 .. MaxTime,
                              home: Managers \cup {NoManager}, refs: Nat,
                              alarm: BOOLEAN, completed: BOOLEAN,
                              owned: BOOLEAN, sets: Nat]]
  /\ theap \in [Managers -> Seq(TimerJobs)]
  /\ tqueue \in [Managers -> Seq(TimerJobs)]
  /\ wakeup \in [Managers -> 0 .. MaxTime]
  /\ timerAux \subseteq Managers

\* job_timer_alloc: the creator has the one reference.
TimersInit ==
  /\ clock = 0
  /\ timer = [j \in TimerJobs |-> [real |-> 0, wake |-> 0, home |-> NoManager,
                                   refs |-> 1, alarm |-> FALSE,
                                   completed |-> FALSE, owned |-> TRUE, sets |-> 0]]
  /\ theap = [m \in Managers |-> <<>>]
  /\ tqueue = [m \in Managers |-> <<>>]
  /\ wakeup = [m \in Managers |-> 0]
  /\ timerAux = {}

----------------------------------------------------------------------------
(* The heap: h is the array, w the wake-up time of each job.  h_idx is the *)
(* place of a job in the array.                                            *)

Sooner(h, w, i) == IF i < Len(h) /\ w[h[i]] > w[h[i + 1]] THEN i + 1 ELSE i

\* basic_et_adjust: job j goes to place i or, past the jobs that are later
\* than it, further up; or else, past those that are sooner, further down.
RECURSIVE AdjustDown(_, _, _, _)
AdjustDown(h, w, j, i) ==
  LET c == Sooner(h, w, 2 * i)
  IN  IF 2 * i > Len(h) \/ w[j] <= w[h[c]]
      THEN [h EXCEPT ![i] = j]
      ELSE AdjustDown([h EXCEPT ![i] = h[c]], w, j, c)

RECURSIVE Adjust(_, _, _, _)
Adjust(h, w, j, i) ==
  IF i > 1 /\ w[h[i \div 2]] > w[j]
  THEN Adjust([h EXCEPT ![i] = h[i \div 2]], w, j, i \div 2)
  ELSE AdjustDown(h, w, j, i)

InHeap(h, j) == j \in Range(h)

PlaceOf(h, j) == CHOOSE i \in 1 .. Len(h) : h[i] = j

InsertEventTimer(h, w, j) ==
  IF InHeap(h, j) THEN Adjust(h, w, j, PlaceOf(h, j))
                  ELSE Adjust(Append(h, j), w, j, Len(h) + 1)

RemoveEventTimer(h, w, j) ==
  LET i == PlaceOf(h, j)
      f == Front(h)
  IN  IF ~InHeap(h, j) THEN h
      ELSE IF i > Len(f) THEN f
      ELSE Adjust(f, w, Last(h), i)

First(h, w) == IF h = <<>> THEN 0 ELSE w[h[1]]

----------------------------------------------------------------------------
(* Setting a timer.                                                        *)

WakeTimes(t) == [j \in TimerJobs |-> t[j].wake]

\* Mutant of Immediate: the time the thread is to be woken at is not brought up to date.
ImmediateUnseen(t, j, m) ==
  LET r == t[j].real
      t1 == [t EXCEPT ![j].wake = r]
      active == InHeap(theap[m], j)
      h == IF r > 0 THEN InsertEventTimer(theap[m], WakeTimes(t1), j)
                    ELSE RemoveEventTimer(theap[m], WakeTimes(t1), j)
  IN  /\ theap' = [theap EXCEPT ![m] = h]
      /\ timer' = [t1 EXCEPT ![j].refs = @ + (IF r > 0 /\ ~active THEN 1 ELSE 0)
                                           - (IF r = 0 /\ active THEN 1 ELSE 0)]
      /\ UNCHANGED wakeup

\* do_immediate_timer_insert for job j of the timers t on the thread m: the
\* heap takes the time the timer is set to now, and owns a reference while
\* the job is in it.
Immediate(t, j, m) ==
  LET r == t[j].real
      t1 == [t EXCEPT ![j].wake = r]
      active == InHeap(theap[m], j)
      h == IF r > 0 THEN InsertEventTimer(theap[m], WakeTimes(t1), j)
                    ELSE RemoveEventTimer(theap[m], WakeTimes(t1), j)
  IN  /\ theap' = [theap EXCEPT ![m] = h]
      /\ timer' = [t1 EXCEPT ![j].refs = @ + (IF r > 0 /\ ~active THEN 1 ELSE 0)
                                           - (IF r = 0 /\ active THEN 1 ELSE 0)]
      /\ wakeup' = [wakeup EXCEPT ![m] = First(h, WakeTimes(t1))]

\* The thread the timer lives on, chosen when it is first set.
HomeOf(j) ==
  IF timer[j].home # NoManager THEN timer[j].home
  ELSE IF ManagerOf[j] = NoManager THEN MainThread ELSE ManagerOf[j]

\* job_timer_insert (0 for job_timer_remove) by the job j itself, on a thread
\* of its class, with the rest of the job's record as t has it.
Insert(t, j, time) ==
  IF t[j].real = time
  THEN timer' = t /\ UNCHANGED <<theap, tqueue, wakeup>>
  ELSE LET m == HomeOf(j)
           t1 == [t EXCEPT ![j].real = time, ![j].home = m]
       IN  IF ManagerOf[j] = m
           THEN Immediate(t1, j, m) /\ UNCHANGED tqueue
           ELSE /\ timer' = [t1 EXCEPT ![j].refs = @ + 1]
                /\ tqueue' = [tqueue EXCEPT ![m] = Append(@, j)]
                /\ UNCHANGED <<theap, wakeup>>

SetTimer(j, time) ==
  /\ timer[j].sets < MaxSets[j] /\ timer[j].owned /\ ~timer[j].completed
  /\ timer[j].real # time
  /\ Insert([timer EXCEPT ![j].sets = @ + 1], j, time)
  /\ UNCHANGED <<clock, timerAux>>

\* JS_ABORT: the timer is removed and the job completed.
AbortTimer(j) ==
  /\ timer[j].owned /\ ~timer[j].completed /\ timer[j].sets = MaxSets[j]
  /\ Insert([timer EXCEPT ![j].completed = TRUE], j, 0)
  /\ UNCHANGED <<clock, timerAux>>

\* JS_RUN of the manager of thread m: one job of its queue.
ManagerRun(m) ==
  /\ tqueue[m] # <<>>
  /\ Immediate([timer EXCEPT ![Head(tqueue[m])].refs = @ - 1], Head(tqueue[m]), m)
  /\ tqueue' = [tqueue EXCEPT ![m] = Tail(@)]
  /\ UNCHANGED <<clock, timerAux>>

----------------------------------------------------------------------------
(* Alarms.                                                                 *)

Tick ==
  /\ clock < MaxTime /\ clock' = clock + 1
  /\ UNCHANGED <<timer, theap, tqueue, wakeup, timerAux>>

\* jobs_check_all_timers: the main thread wakes the managers of the others.
CheckAllTimers ==
  LET due == {m \in Managers \ {MainThread} : wakeup[m] # 0 /\ wakeup[m] <= clock}
  IN  /\ ~(due \subseteq timerAux)
      /\ timerAux' = timerAux \cup due
      /\ UNCHANGED <<clock, timer, theap, tqueue, wakeup>>

\* job_timer_wakeup_gateway: an alarm, with the heap's reference, unless the
\* timer has been set to another time since; then the reference is dropped.
WakeupGateway(t, j) ==
  IF t[j].wake = t[j].real /\ ~t[j].alarm THEN [t EXCEPT ![j].alarm = TRUE]
                                          ELSE [t EXCEPT ![j].refs = @ - 1]

FirstDue(m) == theap[m] # <<>> /\ timer[theap[m][1]].wake <= clock

\* thread_run_timers on thread m, one timer of its loop; the main thread runs
\* it in every round, the others when their manager is sent JS_AUX.
RunTimers(m) ==
  LET j == theap[m][1]
      h == RemoveEventTimer(theap[m], WakeTimes(timer), j)
  IN  /\ m = MainThread \/ m \in timerAux
      /\ FirstDue(m)
      /\ theap' = [theap EXCEPT ![m] = h]
      /\ timer' = WakeupGateway(timer, j)
      /\ wakeup' = [wakeup EXCEPT ![m] = First(h, WakeTimes(timer))]
      /\ UNCHANGED <<clock, tqueue, timerAux>>

AuxEnds(m) ==
  /\ m \in timerAux /\ ~FirstDue(m)
  /\ timerAux' = timerAux \ {m}
  /\ wakeup' = [wakeup EXCEPT ![m] = First(theap[m], WakeTimes(timer))]
  /\ UNCHANGED <<clock, timer, theap, tqueue>>

\* JS_ALARM of job j: job_timer_check, and the alarm function if the timer is
\* (still, or again) set to the time the heap has or had for it.  The alarm
\* sets the timer again, leaves it, or drops the creator's reference.
Due(j) == timer[j].real # 0 /\ timer[j].real = timer[j].wake

Alarmed(j) == [timer EXCEPT ![j].alarm = FALSE, ![j].refs = @ - 1]

Alarm(j) ==
  /\ timer[j].alarm
  /\ \/ /\ ~Due(j)
        /\ timer' = Alarmed(j) /\ UNCHANGED <<theap, tqueue, wakeup>>
     \/ /\ Due(j) /\ Insert(Alarmed(j), j, 0)
     \/ /\ Due(j) /\ ~timer[j].completed /\ timer[j].owned
        /\ Insert([timer EXCEPT ![j].alarm = FALSE, ![j].refs = @ - 2,
                                ![j].owned = FALSE], j, 0)
  /\ UNCHANGED <<clock, timerAux>>

TimersNext ==
  \/ \E j \in TimerJobs : Alarm(j) \/ AbortTimer(j) \/ \E time \in 0 .. MaxTime : SetTimer(j, time)
  \/ \E m \in Managers : ManagerRun(m) \/ RunTimers(m) \/ AuxEnds(m)
  \/ CheckAllTimers
  \/ Tick

\* Every thread runs on, and so does time.
TimersFair ==
  /\ WF_timerVars(Tick) /\ WF_timerVars(CheckAllTimers)
  /\ \A j \in TimerJobs : WF_timerVars(Alarm(j))
  /\ \A m \in Managers : WF_timerVars(ManagerRun(m)) /\ WF_timerVars(RunTimers(m))
                         /\ WF_timerVars(AuxEnds(m))

TimersSpec == TimersInit /\ [][TimersNext]_timerVars

----------------------------------------------------------------------------
(* Properties.                                                             *)

\* The references to a job are those of its creator, of the heap, of each
\* entry of a manager's queue and of its alarm: a timer removed by another
\* thread while it is due neither frees its job too early nor leaks it.
TimerRefsCounted ==
  \A j \in TimerJobs :
    timer[j].refs = (IF timer[j].owned THEN 1 ELSE 0)
                    + (IF timer[j].alarm THEN 1 ELSE 0)
                    + (IF \E m \in Managers : InHeap(theap[m], j) THEN 1 ELSE 0)
                    + FoldSet(LAMBDA m, n : n + Len(SelectSeq(tqueue[m], LAMBDA k : k = j)),
                              0, Managers)

\* Every parent is no later than its children, and no job is in a heap twice,
\* also while jobs elsewhere set timers the heap has not heard of.
HeapOrdered ==
  \A m \in Managers :
    /\ IsInjective(theap[m])
    /\ \A i \in 2 .. Len(theap[m]) :
         timer[theap[m][i \div 2]].wake <= timer[theap[m][i]].wake

\* A timer that is set and left alone fires: when nothing sets timers any more,
\* none stays set, whatever the jobs set and removed before and wherever the
\* timers live.
TimersFire == []<>(\A j \in TimerJobs : timer[j].real = 0)

=============================================================================
