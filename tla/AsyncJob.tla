------------------------------ MODULE AsyncJob ------------------------------
(***************************************************************************)
(* The life of one job of the engine, from jobs/jobs.c: the flag word with *)
(* its lock bit, its queued bits and its signal bits, the reference count, *)
(* the class queues, and the threads that send signals, take the job from  *)
(* a queue, run it and drop references, each by single atomic instructions *)
(* (compare-and-swap, fetch-and-op, plain read or write).                  *)
(*                                                                         *)
(* One job is enough: jobs share no state but the queues, which hold       *)
(* independent references, and the current_job of a thread, which decides  *)
(* whether a signal may run at once and is chosen per call here.  A handler*)
(* that signals its own job fails to lock it; it does the same as another  *)
(* thread sending that signal meanwhile, and is modelled so.               *)
(*                                                                         *)
(* A reference is a token with a place: a thread or a queue.  The counter  *)
(* j_refcnt is a number of its own, as in the code, and counting right is a*)
(* property.  Not modelled here: subclasses, parents, timers, messages.    *)
(***************************************************************************)
EXTENDS Integers, FiniteSets

CONSTANTS
    Threads,     \* job threads
    Main,        \* the main thread
    ClassOf,     \* thread_class, for every thread
    Refs,        \* reference tokens; bound: at most |Refs| references at once
    NoRef,
    Signals,     \* signal numbers in use, 0 .. 7
    Allowed,     \* JSS_ALLOW bits of j_status
    Fast,        \* JSS_FAST bits of j_status
    SigClass,    \* j_sigclass, for every signal; "none" is JC_NONE
    MaxSends     \* bound: signals sent by holders of references

FINISH == 7
RUN    == 0

Classes == {SigClass[s] : s \in Signals} \cup {"main"}

\* A class without threads of its own is served by the main queue.
Queues     == {ClassOf[t] : t \in Threads}
QueueOf(c) == IF c \in Queues THEN c ELSE "main"

\* job_class_mask: the own class, the classes left to main, and JC_NONE.
InMask(t, c) == c = "none" \/ QueueOf(c) = ClassOf[t]

ASSUME JobAssumption ==
    /\ IsFiniteSet(Refs) /\ Refs # {}
    /\ NoRef \notin Refs
    /\ Main \in Threads
    /\ ClassOf[Main] = "main"
    /\ Threads \cap Queues = {}
    /\ "free" \notin Threads \cup Queues
    /\ "none" \notin Queues
    /\ Signals \subseteq 0 .. 7
    /\ {RUN, FINISH} \subseteq Signals
    /\ Allowed \subseteq Signals
    /\ FINISH \in Allowed
    /\ Fast \subseteq Signals
    /\ MaxSends \in Nat

VARIABLES
    locked,    \* JF_LOCKED
    queued,    \* JF_QUEUED_CLASS bits
    sigs,      \* JFS_SET bits
    refcnt,    \* j_refcnt
    place,     \* where each reference is
    freed,     \* job_free has run
    pc,        \* per thread: the instruction it is at
    mine,      \* per thread: the reference its current call owns
    busy,      \* per thread: current_job is another job
    fl,        \* per thread: the local copy of the flags
    arg,       \* per thread: sigset being sent, or the signal chosen
    qf,        \* per thread: queued_flag
    sent       \* signals sent so far

vars == <<locked, queued, sigs, refcnt, place, freed, pc, mine, busy, fl, arg,
          qf, sent>>

flagVars == <<locked, queued, sigs>>
callVars == <<mine, busy, fl, arg, qf>>

\* Instructions of a thread that has the lock.
Locking == {"created", "unlock", "swap", "clear", "exec", "result", "enqueue"}

\* Instructions that have no lock but own a reference.
Unlocked == {"check", "lock1", "or", "lock2", "taken", "qlock1", "qclear",
             "qlock2", "release", "drop", "reset", "finish", "push",
             "decref", "ddrop", "dreset"}

Live == {r \in Refs : place[r] # "free"}

\* The type invariant.
TypeOK ==
    /\ locked \in BOOLEAN
    /\ queued \subseteq Classes
    /\ sigs \subseteq Signals
    /\ refcnt \in Nat
    /\ place \in [Refs -> {"free"} \cup Threads \cup Queues]
    /\ freed \in BOOLEAN
    /\ pc \in [Threads -> {"idle"} \cup Locking \cup Unlocked]
    /\ mine \in [Threads -> Refs \cup {NoRef}]
    /\ busy \in [Threads -> BOOLEAN]
    /\ fl \in [Threads -> [queued : SUBSET Classes, sigs : SUBSET Signals]]
    /\ arg \in [Threads -> SUBSET Signals]
    /\ qf \in [Threads -> SUBSET Classes]
    /\ sent \in Nat

-----------------------------------------------------------------------------
(* Helpers.                                                                *)

Flags == [queued |-> queued, sigs |-> sigs]

\* The highest signal of a set: 7 - __builtin_clz (todo).
Highest(S) == CHOOSE s \in S : \A u \in S : u <= s

Goto(t, l) == pc' = [pc EXCEPT ![t] = l]

NoFlags == [queued |-> {}, sigs |-> {}]

\* The call ends; its reference has gone where "place" says, and its locals
\* are out of scope.
Return(t) ==
    /\ Goto(t, "idle")
    /\ mine' = [mine EXCEPT ![t] = NoRef]
    /\ busy' = [busy EXCEPT ![t] = FALSE]
    /\ fl' = [fl EXCEPT ![t] = NoFlags]
    /\ arg' = [arg EXCEPT ![t] = {}]
    /\ qf' = [qf EXCEPT ![t] = {}]

\* A call starts with the reference r of its caller.
Call(t, r, l, cur, S) ==
    /\ Goto(t, l)
    /\ mine' = [mine EXCEPT ![t] = r]
    /\ busy' = [busy EXCEPT ![t] = cur]
    /\ arg' = [arg EXCEPT ![t] = S]
    /\ UNCHANGED <<fl, qf>>

\* try_lock_job: the compare-and-swap loop gives up only on a locked job.
TryLock(t, setSigs, clearQueued, won, lost) ==
    \/ /\ ~locked
       /\ locked' = TRUE
       /\ sigs' = sigs \cup setSigs
       /\ queued' = queued \ clearQueued
       /\ Goto(t, won)
    \/ locked /\ UNCHANGED flagVars /\ Goto(t, lost)

-----------------------------------------------------------------------------

\* create_async_job: the creator has the lock and the only reference.
Init ==
    /\ locked = TRUE
    /\ queued = {}
    /\ sigs = {}
    /\ refcnt = 1
    /\ \E t0 \in Threads, r0 \in Refs, cur \in BOOLEAN :
         /\ busy = [t \in Threads |-> t = t0 /\ cur]
         /\ place = [r \in Refs |-> IF r = r0 THEN t0 ELSE "free"]
         /\ pc = [t \in Threads |-> IF t = t0 THEN "created" ELSE "idle"]
         /\ mine = [t \in Threads |-> IF t = t0 THEN r0 ELSE NoRef]
    /\ freed = FALSE
    /\ fl = [t \in Threads |-> NoFlags]
    /\ arg = [t \in Threads |-> {}]
    /\ qf = [t \in Threads |-> {}]
    /\ sent = 0

\* schedule_job (RUN is set), or unlock_job by the creator.  schedule_job sets
\* RUN with a plain |= that could lose a signal sent meanwhile; its callers
\* give no reference to another thread before (create_target keeps two, behind
\* TargetsLock), so the load and the store are one step here.
Schedule(t, run) ==
    /\ pc[t] = "created"
    /\ run => \A r \in Live : place[r] = t
    /\ sigs' = IF run THEN sigs \cup {RUN} ELSE sigs
    /\ Goto(t, "unlock")
    /\ UNCHANGED <<locked, queued, refcnt, place, freed, callVars, sent>>

\* job_incref by whoever has a reference; the copy may go to any thread.
\* The handlers of JS_FINISH make no references.
Incref(t, u, r) ==
    /\ \/ pc[t] = "created"
       \/ pc[t] = "exec" /\ arg[t] # {FINISH}
       \/ pc[t] = "idle" /\ \E k \in Refs : place[k] = t
    /\ place[r] = "free"
    /\ refcnt' = refcnt + 1
    /\ place' = [place EXCEPT ![r] = u]
    /\ UNCHANGED <<flagVars, freed, pc, callVars, sent>>

\* job_signal with a reference of the sender's.
Send(t, r, s, cur) ==
    /\ pc[t] = "idle"
    /\ place[r] = t
    /\ sent < MaxSends
    /\ sent' = sent + 1
    /\ Call(t, r, "check", cur, {s})
    /\ UNCHANGED <<flagVars, refcnt, place, freed>>

\* job_decref with a reference of the caller's.
Decref(t, r, cur) ==
    /\ pc[t] = "idle"
    /\ place[r] = t
    /\ Call(t, r, "decref", cur, {})
    /\ UNCHANGED <<flagVars, refcnt, place, freed, sent>>

\* job_thread_ex and run_pending_main_jobs: the next job of the own queue.
Pop(t, r) ==
    /\ pc[t] = "idle"
    /\ place[r] = ClassOf[t]
    /\ place' = [place EXCEPT ![r] = t]
    /\ Call(t, r, "taken", FALSE, {})
    /\ UNCHANGED <<flagVars, refcnt, freed, sent>>

-----------------------------------------------------------------------------
(* job_send_signals.                                                       *)

Check(t) ==
    /\ pc[t] = "check"
    /\ Goto(t, IF arg[t] \subseteq sigs THEN "decref" ELSE "lock1")
    /\ UNCHANGED <<flagVars, refcnt, place, freed, callVars, sent>>

Lock1(t) ==
    /\ pc[t] = "lock1"
    /\ TryLock(t, arg[t], {}, "unlock", "or")
    /\ UNCHANGED <<refcnt, place, freed, callVars, sent>>

OrSignals(t) ==
    /\ pc[t] = "or"
    /\ sigs' = sigs \cup arg[t]
    /\ Goto(t, "lock2")
    /\ UNCHANGED <<locked, queued, refcnt, place, freed, callVars, sent>>

Lock2(t) ==
    /\ pc[t] = "lock2"
    /\ TryLock(t, {}, {}, "unlock", "decref")
    /\ UNCHANGED <<refcnt, place, freed, callVars, sent>>

(* process_one_job.                                                        *)

Taken(t) ==
    /\ pc[t] = "taken"
    /\ qf' = [qf EXCEPT ![t] = {c \in queued : InMask(t, c)}]
    /\ Goto(t, "qlock1")
    /\ UNCHANGED <<flagVars, refcnt, place, freed, mine, busy, fl, arg, sent>>

QLock1(t) ==
    /\ pc[t] = "qlock1"
    /\ TryLock(t, {}, qf[t], "unlock", "qclear")
    /\ UNCHANGED <<refcnt, place, freed, callVars, sent>>

QClear(t) ==
    /\ pc[t] = "qclear"
    /\ queued' = queued \ qf[t]
    /\ Goto(t, "qlock2")
    /\ UNCHANGED <<locked, sigs, refcnt, place, freed, callVars, sent>>

QLock2(t) ==
    /\ pc[t] = "qlock2"
    /\ TryLock(t, {}, {}, "unlock", "decref")
    /\ UNCHANGED <<refcnt, place, freed, callVars, sent>>

-----------------------------------------------------------------------------
(* unlock_job.                                                             *)

\* Mutant of CanRun: the main thread runs only the signals of its own class.
CanRunOwn(t, s) ==
    SigClass[s] \in {"none", ClassOf[t]} /\ (s \in Fast \/ ~busy[t])

\* May the thread run the signal itself?
CanRun(t, s) == InMask(t, SigClass[s]) /\ (s \in Fast \/ ~busy[t])

\* The head of the loop: the flags are copied and the next step is chosen.
Unlock(t) ==
    LET todo == sigs \cap Allowed IN
    /\ pc[t] = "unlock"
    /\ fl' = [fl EXCEPT ![t] = Flags]
    /\ IF todo = {}
         THEN Goto(t, "swap") /\ UNCHANGED arg
         ELSE /\ arg' = [arg EXCEPT ![t] = {Highest(todo)}]
              /\ Goto(t, IF CanRun(t, Highest(todo)) THEN "clear" ELSE "enqueue")
    /\ UNCHANGED <<flagVars, refcnt, place, freed, mine, busy, qf, sent>>

\* Mutant of Swap: a plain store of the unlocked word's lock bit.
SwapBlind(t) ==
    /\ pc[t] = "swap"
    /\ locked' = FALSE
    /\ Goto(t, "release")
    /\ UNCHANGED <<queued, sigs, refcnt, place, freed, callVars, sent>>

\* Nothing to do: the lock is given up if the flags are still those copied.
Swap(t) ==
    /\ pc[t] = "swap"
    /\ IF Flags = fl[t]
         THEN locked' = FALSE /\ Goto(t, "release")
         ELSE UNCHANGED locked /\ Goto(t, "unlock")
    /\ UNCHANGED <<queued, sigs, refcnt, place, freed, callVars, sent>>

\* The test of j_refcnt after the lock is gone.
Release(t) ==
    /\ pc[t] = "release"
    /\ Goto(t, IF refcnt >= 2 THEN "drop" ELSE "finish")
    /\ UNCHANGED <<flagVars, refcnt, place, freed, callVars, sent>>

\* fetch_and_add (-1), in unlock_job and in job_decref.
DropRef(t, last) ==
    /\ refcnt' = refcnt - 1
    /\ IF refcnt # 1
         THEN place' = [place EXCEPT ![mine[t]] = "free"] /\ Return(t)
         ELSE Goto(t, last) /\ UNCHANGED <<place, callVars>>
    /\ UNCHANGED <<flagVars, freed, sent>>

Drop(t) == pc[t] = "drop" /\ DropRef(t, "reset")

\* Mutant of ResetRef: the 1 is not put back.
ResetForgotten(t) ==
    /\ pc[t] = "reset"
    /\ Goto(t, "finish")
    /\ UNCHANGED <<flagVars, refcnt, place, freed, callVars, sent>>

ResetRef(t) ==
    /\ pc[t] = "reset"
    /\ refcnt' = 1
    /\ Goto(t, "finish")
    /\ UNCHANGED <<flagVars, place, freed, callVars, sent>>

\* The last reference: the job locks itself again and is sent JS_FINISH.
Finish(t) ==
    /\ pc[t] = "finish"
    /\ sigs' = sigs \cup {FINISH}
    /\ locked' = TRUE
    /\ Goto(t, "unlock")
    /\ UNCHANGED <<queued, refcnt, place, freed, callVars, sent>>

\* A signal is taken out of the flags and its handler starts.
Clear(t) ==
    /\ pc[t] = "clear"
    /\ sigs' = sigs \ arg[t]
    /\ Goto(t, "exec")
    /\ UNCHANGED <<locked, queued, refcnt, place, freed, callVars, sent>>

\* The handler of JS_FINISH frees the job (JOB_DESTROYED); any other returns,
\* and the signals R of its result are set.
Exec(t) ==
    /\ pc[t] = "exec"
    /\ IF arg[t] = {FINISH}
         THEN /\ freed' = TRUE
              /\ place' = [place EXCEPT ![mine[t]] = "free"]
              /\ Return(t)
              /\ UNCHANGED sent
         ELSE /\ \E R \in SUBSET (Signals \ {FINISH}) :
                   /\ R # {} => sent < MaxSends
                   /\ sent' = IF R = {} THEN sent ELSE sent + 1
                   /\ arg' = [arg EXCEPT ![t] = R]
                   /\ Goto(t, IF R = {} THEN "unlock" ELSE "result")
              /\ UNCHANGED <<place, freed, mine, busy, fl, qf>>
    /\ UNCHANGED <<flagVars, refcnt>>

Result(t) ==
    /\ pc[t] = "result"
    /\ sigs' = sigs \cup arg[t]
    /\ Goto(t, "unlock")
    /\ UNCHANGED <<locked, queued, refcnt, place, freed, callVars, sent>>

\* A signal for another class: one swap gives up the lock and sets the bit.
TargetClass(t) ==
    LET c == SigClass[Highest(arg[t])] IN IF c = "none" THEN "main" ELSE c

Enqueue(t) ==
    /\ pc[t] = "enqueue"
    /\ IF Flags = fl[t]
         THEN /\ locked' = FALSE
              /\ queued' = queued \cup {TargetClass(t)}
              /\ Goto(t, IF TargetClass(t) \in fl[t].queued THEN "decref" ELSE "push")
         ELSE UNCHANGED <<locked, queued>> /\ Goto(t, "unlock")
    /\ UNCHANGED <<sigs, refcnt, place, freed, callVars, sent>>

\* mpq_push_w: the reference of the call moves into the queue.
Push(t) ==
    /\ pc[t] = "push"
    /\ place' = [place EXCEPT ![mine[t]] = QueueOf(TargetClass(t))]
    /\ Return(t)
    /\ UNCHANGED <<flagVars, refcnt, freed, sent>>

-----------------------------------------------------------------------------
(* job_decref.                                                             *)

\* Mutant of TestRef: two references count as the last one.
TestRefEarly(t) ==
    /\ pc[t] = "decref"
    /\ IF refcnt > 2
         THEN Goto(t, "ddrop") /\ UNCHANGED arg
         ELSE Goto(t, "check") /\ arg' = [arg EXCEPT ![t] = {FINISH}]
    /\ UNCHANGED <<flagVars, refcnt, place, freed, mine, busy, fl, qf, sent>>

TestRef(t) ==
    /\ pc[t] = "decref"
    /\ IF refcnt >= 2
         THEN Goto(t, "ddrop") /\ UNCHANGED arg
         ELSE Goto(t, "check") /\ arg' = [arg EXCEPT ![t] = {FINISH}]
    /\ UNCHANGED <<flagVars, refcnt, place, freed, mine, busy, fl, qf, sent>>

DDrop(t) == pc[t] = "ddrop" /\ DropRef(t, "dreset")

DReset(t) ==
    /\ pc[t] = "dreset"
    /\ refcnt' = 1
    /\ Goto(t, "check")
    /\ arg' = [arg EXCEPT ![t] = {FINISH}]
    /\ UNCHANGED <<flagVars, place, freed, mine, busy, fl, qf, sent>>

-----------------------------------------------------------------------------

\* What the code of a thread does once it has been called.
Step(t) ==
    \/ Check(t) \/ Lock1(t) \/ OrSignals(t) \/ Lock2(t)
    \/ Taken(t) \/ QLock1(t) \/ QClear(t) \/ QLock2(t)
    \/ Unlock(t) \/ Swap(t) \/ Release(t) \/ Drop(t) \/ ResetRef(t) \/ Finish(t)
    \/ Clear(t) \/ Exec(t) \/ Result(t) \/ Enqueue(t) \/ Push(t)
    \/ TestRef(t) \/ DDrop(t) \/ DReset(t)

\* What the holders of references choose to do.
Use(t) ==
    \/ \E run \in BOOLEAN : Schedule(t, run)
    \/ \E u \in Threads, r \in Refs : Incref(t, u, r)
    \/ \E r \in Refs, cur \in BOOLEAN :
         \/ Decref(t, r, cur)
         \/ \E s \in Signals \ {FINISH} : Send(t, r, s, cur)

PopAny(t) == \E r \in Refs : Pop(t, r)

Next == \E t \in Threads : Step(t) \/ PopAny(t) \/ Use(t)

(* Threads that are called make progress, creators schedule what they have *)
(* created, and a thread that comes back to its loop again and again takes *)
(* jobs from its queue there (the main thread too: its epoll_wait sleeps   *)
(* one millisecond at most).                                               *)
Fairness ==
    \A t \in Threads :
      /\ WF_vars(Step(t))
      /\ WF_vars(\E run \in BOOLEAN : Schedule(t, run))
      /\ SF_vars(PopAny(t))

Spec     == Init /\ [][Next]_vars
FairSpec == Spec /\ Fairness

-----------------------------------------------------------------------------
(* Properties.                                                             *)

(* The lock bit is a lock: it is set exactly while one thread is between   *)
(* try_lock_job and the swap of unlock_job, so that the handler of a job is*)
(* never run by two threads at once.                                       *)
LockExclusive ==
    /\ ~freed => (locked <=> \E t \in Threads : pc[t] \in Locking)
    /\ \A t, u \in Threads : pc[t] \in Locking /\ pc[u] \in Locking => t = u

Zeroed == {t \in Threads : pc[t] \in {"reset", "dreset"}}

(* j_refcnt is the number of references that exist; it is one short only   *)
(* between the decrement that found the last one and the store that puts   *)
(* the 1 back.  In particular a job that is freed has no references, in no *)
(* queue and in no call.                                                   *)
RefsCounted ==
    IF freed THEN Live = {}
             ELSE refcnt + Cardinality(Zeroed) = Cardinality(Live)

(* JS_FINISH comes last: when its handler runs, nobody else can reach the  *)
(* job and no other allowed signal is left undelivered.                    *)
FinishLast ==
    \A t \in Threads : pc[t] = "exec" /\ arg[t] = {FINISH} =>
      Live = {mine[t]} /\ sigs \cap Allowed = {}

(* A queued bit is not stale: while it is set, the job is in the queue of  *)
(* the class, or about to be pushed, or taken by a thread of the class that*)
(* has not cleared the bit yet.                                            *)
QueuedBitHonest ==
    \A c \in queued :
      \/ \E r \in Refs : place[r] = QueueOf(c)
      \/ \E t \in Threads :
           \/ pc[t] = "push" /\ TargetClass(t) = c
           \/ pc[t] = "taken" /\ QueueOf(c) = ClassOf[t]
           \/ pc[t] \in {"qlock1", "qclear"} /\ c \in qf[t]

(* No signal is lost: an allowed signal on a job that nobody has locked is *)
(* either on its way through a queue or about to be noticed by a thread    *)
(* that still has to try the lock.                                         *)
NoLostSignal ==
    ~locked /\ sigs \cap Allowed # {} =>
      queued # {} \/ \E t \in Threads : pc[t] \in {"lock2", "qlock2"}

(* Every allowed signal that is set is taken out of the flags again, to be *)
(* handled, if only finitely many signals are sent.                        *)
SignalsDelivered == \A s \in Allowed : s \in sigs ~> s \notin sigs
=============================================================================
