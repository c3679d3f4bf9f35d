--------------------------- MODULE AsyncJobProofs ---------------------------
(***************************************************************************)
(* Proofs about AsyncJob, for any set of threads and classes, any signals  *)
(* and any bound on the references.                                        *)
(***************************************************************************)
EXTENDS MCJobs, MpQueueValueProofs, FiniteSetTheorems, TLAPS

\* A thread in a call owns one reference that is placed with it.
Owns ==
    \A t \in Threads :
      IF pc[t] = "idle" THEN mine[t] = NoRef
                        ELSE mine[t] \in Refs /\ place[mine[t]] = t

\* At most one reference exists.
Sole == \A r, k \in Live : r = k

\* The counter, in the form that the steps preserve.
Counted ==
    ~freed =>
      IF \E t \in Threads : pc[t] \in {"reset", "dreset"}
      THEN refcnt = 0 /\ Cardinality(Live) = 1
      ELSE refcnt = Cardinality(Live)

\* A freed job is out of everybody's reach.
Gone == freed => Live = {}

\* The flags a thread has copied decide what it is about to do.
Chosen ==
    \A t \in Threads :
      /\ pc[t] = "swap" => fl[t].sigs \cap Allowed = {}
      /\ pc[t] \in {"clear", "enqueue"} =>
           \E s \in Signals : arg[t] = {s} /\ s \in sigs
      /\ pc[t] = "push" => \E s \in Signals : arg[t] = {s}
      /\ pc[t] = "exec" => \E s \in Signals : arg[t] = {s}
      /\ pc[t] = "result" => FINISH \notin arg[t]

\* A call that is about to send JS_FINISH has the only reference, and always
\* gets the lock.
LastHolder ==
    \A t \in Threads :
      /\ \/ pc[t] = "finish"
         \/ pc[t] \in {"check", "lock1", "clear", "exec"} /\ FINISH \in arg[t]
         => Live = {mine[t]}
      /\ pc[t] \in {"check", "lock1"} /\ FINISH \in arg[t] =>
           FINISH \notin sigs /\ arg[t] = {FINISH}
      /\ pc[t] \in {"or", "lock2"} => FINISH \notin arg[t]

\* Where the only reference is once JS_FINISH is set.
FinishPcs == {"unlock", "clear", "enqueue", "push", "taken", "qlock1"}

FinishSet ==
    FINISH \in sigs =>
      /\ Sole
      /\ sigs \cap Allowed = {FINISH}
      /\ \A t \in Threads : pc[t] \in FinishPcs \cup {"idle"}
      /\ \A t \in Threads : pc[t] \in {"clear", "enqueue"} => arg[t] = {FINISH}
      /\ \A r \in Live : place[r] \in Threads => pc[place[r]] # "idle"

\* Nothing else is left when the handler of JS_FINISH runs.
FinishRuns ==
    \A t \in Threads : pc[t] = "exec" /\ FINISH \in arg[t] =>
       sigs \cap Allowed = {}

IInv ==
    /\ TypeOK /\ Owns /\ LockExclusive /\ Counted /\ Gone /\ Chosen
    /\ QueuedBitHonest /\ NoLostSignal /\ LastHolder /\ FinishSet /\ FinishRuns

-----------------------------------------------------------------------------
(* Facts about the constants.                                              *)

(* The highest signal of a set, as unlock_job takes it with clz, belongs to*)
(* the set.                                                                *)
LEMMA HighestIn ==
    ASSUME NEW S \in SUBSET Signals, S # {}
    PROVE  Highest(S) \in S /\ \A u \in S : u <= Highest(S)
<1>1. S \subseteq 0 .. 7
  BY JobAssumption
<1>2. \E s \in S : \A u \in S : u <= s
  <2>1. CASE 7 \in S  BY <1>1, <2>1
  <2>2. CASE 7 \notin S /\ 6 \in S  BY <1>1, <2>2
  <2>3. CASE 7 \notin S /\ 6 \notin S /\ 5 \in S  BY <1>1, <2>3
  <2>4. CASE S \subseteq 0 .. 4 /\ 4 \in S  BY <2>4
  <2>5. CASE S \subseteq 0 .. 4 /\ 4 \notin S /\ 3 \in S  BY <2>5
  <2>6. CASE S \subseteq 0 .. 2 /\ 2 \in S  BY <2>6
  <2>7. CASE S \subseteq 0 .. 2 /\ 2 \notin S /\ 1 \in S  BY <2>7
  <2>8. CASE S = {0}  BY <2>8
  <2>9. \A i \in 0 .. 7 : i = 0 \/ i = 1 \/ i = 2 \/ i = 3 \/ i = 4 \/ i = 5
                            \/ i = 6 \/ i = 7
    OBVIOUS
  <2>10. CASE S \cap {1, 2, 3, 4, 5, 6, 7} = {}
    BY <1>1, <2>8, <2>9, <2>10
  <2>. QED  BY <1>1, <2>1, <2>2, <2>3, <2>4, <2>5, <2>6, <2>7, <2>9, <2>10
<1>. QED  BY <1>2 DEF Highest

(* The class a signal is queued for is a class, and every class has a queue.*)
LEMMA ClassFacts ==
    /\ "main" \in Queues
    /\ \A s \in Signals : SigClass[s] \in Classes
    /\ "main" \in Classes
    /\ \A c : QueueOf(c) \in Queues
    /\ \A t \in Threads : ClassOf[t] \in Queues
    /\ Threads \cap Queues = {}
    /\ "free" \notin Threads \cup Queues
BY JobAssumption DEF Queues, Classes, QueueOf

(* The highest signal of a set of one signal is that signal.               *)
LEMMA SingletonHighest ==
    ASSUME NEW s \in Signals
    PROVE  Highest({s}) = s
BY HighestIn

(* The class a thread is about to queue the job for.                       *)
LEMMA TargetFacts ==
    ASSUME Chosen, NEW t \in Threads, pc[t] \in {"enqueue", "push"}
    PROVE  TargetClass(t) \in Classes
BY SingletonHighest, ClassFacts DEF Chosen, TargetClass

(* Two calls own different references, and each is a live one.             *)
LEMMA OwnFacts ==
    ASSUME TypeOK, Owns, NEW t \in Threads, pc[t] # "idle"
    PROVE  /\ mine[t] \in Live
           /\ \A u \in Threads : pc[u] # "idle" /\ u # t => mine[u] # mine[t]
BY ClassFacts DEF TypeOK, Owns, Live

(* While some reference exists, the counter of live references is positive;*)
(* a thread in a call that is not putting the 1 back sees the exact number.*)
LEMMA CountFacts ==
    ASSUME TypeOK, Owns, Counted, Gone, NEW t \in Threads, pc[t] # "idle",
           pc[t] \notin {"reset", "dreset"}
    PROVE  /\ ~freed
           /\ refcnt = Cardinality(Live)
           /\ refcnt \in Nat \ {0}
           /\ ~ \E u \in Threads : pc[u] \in {"reset", "dreset"}
<1>1. mine[t] \in Live
  BY OwnFacts
<1>2. IsFiniteSet(Live)
  BY JobAssumption, FS_Subset DEF Live
<1>3. Cardinality(Live) \in Nat /\ Cardinality(Live) # 0
  BY <1>1, <1>2, FS_CardinalityType, FS_EmptySet
<1>4. ASSUME NEW u \in Threads, pc[u] \in {"reset", "dreset"} PROVE FALSE
  <2>1. mine[u] \in Live /\ mine[u] # mine[t]
    BY <1>4, OwnFacts
  <2>2. Cardinality(Live) = 1
    BY <1>1, <1>4 DEF Counted, Gone
  <2>3. \E x : Live = {x}
    BY <2>2, <1>2, FS_Singleton
  <2>. QED  BY <1>1, <2>1, <2>3
<1>. QED  BY <1>1, <1>3, <1>4 DEF Counted, Gone

-----------------------------------------------------------------------------
(* Type correctness.                                                       *)

(* A call that returns leaves its locals in scope of nobody.               *)
LEMMA ReturnType ==
    ASSUME TypeOK, NEW t \in Threads, Return(t)
    PROVE  /\ pc' \in [Threads -> {"idle"} \cup Locking \cup Unlocked]
           /\ mine' \in [Threads -> Refs \cup {NoRef}]
           /\ busy' \in [Threads -> BOOLEAN]
           /\ fl' \in [Threads -> [queued : SUBSET Classes, sigs : SUBSET Signals]]
           /\ arg' \in [Threads -> SUBSET Signals]
           /\ qf' \in [Threads -> SUBSET Classes]
<1>1. pc' \in [Threads -> {"idle"} \cup Locking \cup Unlocked]
  BY DEF TypeOK, Return, Goto
<1>2. mine' \in [Threads -> Refs \cup {NoRef}]
  BY DEF TypeOK, Return
<1>3. busy' \in [Threads -> BOOLEAN]
  BY DEF TypeOK, Return
<1>4. fl' \in [Threads -> [queued : SUBSET Classes, sigs : SUBSET Signals]]
  BY DEF TypeOK, Return, NoFlags
<1>5. arg' \in [Threads -> SUBSET Signals]
  BY DEF TypeOK, Return
<1>6. qf' \in [Threads -> SUBSET Classes]
  BY DEF TypeOK, Return
<1>. QED  BY <1>1, <1>2, <1>3, <1>4, <1>5, <1>6

LEMMA TypeStep == IInv /\ [Next]_vars => TypeOK'
<1>. SUFFICES ASSUME IInv, [Next]_vars PROVE TypeOK'
  OBVIOUS
<1>0. TypeOK /\ Owns /\ Counted /\ Gone /\ Chosen
  BY DEF IInv
<1>a. \A t \in Threads : pc[t] \in {"drop", "ddrop"} => refcnt \in Nat \ {0}
  BY <1>0, CountFacts
<1>b. \A t \in Threads : pc[t] = "enqueue" => TargetClass(t) \in Classes
  BY <1>0, TargetFacts
<1>c. ASSUME NEW t \in Threads, Return(t)
      PROVE  /\ pc' \in [Threads -> {"idle"} \cup Locking \cup Unlocked]
             /\ mine' \in [Threads -> Refs \cup {NoRef}]
             /\ busy' \in [Threads -> BOOLEAN]
             /\ fl' \in [Threads -> [queued : SUBSET Classes, sigs : SUBSET Signals]]
             /\ arg' \in [Threads -> SUBSET Signals]
             /\ qf' \in [Threads -> SUBSET Classes]
  BY <1>0, <1>c, ReturnType
<1>. USE DEF TypeOK, Locking, Unlocked, Goto, callVars, flagVars
<1>1. ASSUME NEW t \in Threads, Check(t) PROVE TypeOK'
  BY <1>0, <1>1 DEF Check
<1>2. ASSUME NEW t \in Threads, Lock1(t) PROVE TypeOK'
  BY <1>0, <1>2 DEF Lock1, TryLock, flagVars
<1>3. ASSUME NEW t \in Threads, OrSignals(t) PROVE TypeOK'
  BY <1>0, <1>3 DEF OrSignals
<1>4. ASSUME NEW t \in Threads, Lock2(t) PROVE TypeOK'
  BY <1>0, <1>4 DEF Lock2, TryLock, flagVars
<1>5. ASSUME NEW t \in Threads, Taken(t) PROVE TypeOK'
  BY <1>0, <1>5 DEF Taken
<1>6. ASSUME NEW t \in Threads, QLock1(t) PROVE TypeOK'
  BY <1>0, <1>6 DEF QLock1, TryLock, flagVars
<1>7. ASSUME NEW t \in Threads, QClear(t) PROVE TypeOK'
  BY <1>0, <1>7 DEF QClear
<1>8. ASSUME NEW t \in Threads, QLock2(t) PROVE TypeOK'
  BY <1>0, <1>8 DEF QLock2, TryLock, flagVars
<1>9. ASSUME NEW t \in Threads, Unlock(t) PROVE TypeOK'
  <2>1. sigs \cap Allowed # {} => Highest(sigs \cap Allowed) \in Signals
    <3>1. sigs \cap Allowed \in SUBSET Signals
      BY <1>0
    <3>. QED  BY <3>1, HighestIn
  <2>. QED  BY <1>0, <1>9, <2>1 DEF Unlock, Flags
<1>10. ASSUME NEW t \in Threads, Swap(t) PROVE TypeOK'
  BY <1>0, <1>10 DEF Swap, Flags
<1>11. ASSUME NEW t \in Threads, Release(t) PROVE TypeOK'
  BY <1>0, <1>11 DEF Release
<1>12. ASSUME NEW t \in Threads, Drop(t) PROVE TypeOK'
  <2>1. refcnt \in Nat \ {0}
    BY <1>a, <1>12 DEF Drop
  <2>2. CASE refcnt # 1
    BY <1>0, <1>12, <2>1, <2>2, <1>c DEF Drop, DropRef
  <2>3. CASE refcnt = 1
    BY SMTT(40), <1>0, <1>12, <2>1, <2>3 DEF Drop, DropRef
  <2>. QED  BY <2>2, <2>3
<1>13. ASSUME NEW t \in Threads, ResetRef(t) PROVE TypeOK'
  BY <1>0, <1>13 DEF ResetRef
<1>14. ASSUME NEW t \in Threads, Finish(t) PROVE TypeOK'
  BY <1>0, <1>14, JobAssumption DEF Finish
<1>15. ASSUME NEW t \in Threads, Clear(t) PROVE TypeOK'
  BY <1>0, <1>15 DEF Clear
<1>16. ASSUME NEW t \in Threads, Exec(t) PROVE TypeOK'
  <2>1. CASE arg[t] = {FINISH}
    BY <1>0, <1>16, <2>1, <1>c DEF Exec
  <2>2. CASE arg[t] # {FINISH}
    <3>1. PICK R \in SUBSET (Signals \ {FINISH}) :
            /\ sent' = IF R = {} THEN sent ELSE sent + 1
            /\ arg' = [arg EXCEPT ![t] = R]
            /\ Goto(t, IF R = {} THEN "unlock" ELSE "result")
      BY <1>16, <2>2 DEF Exec
    <3>. QED  BY <1>0, <1>16, <2>2, <3>1 DEF Exec
  <2>. QED  BY <2>1, <2>2
<1>17. ASSUME NEW t \in Threads, Result(t) PROVE TypeOK'
  BY <1>0, <1>17 DEF Result
<1>18. ASSUME NEW t \in Threads, Enqueue(t) PROVE TypeOK'
  <2>1. TargetClass(t) \in Classes
    BY <1>b, <1>18 DEF Enqueue
  <2>. QED  BY <1>0, <1>18, <2>1 DEF Enqueue, Flags
<1>19. ASSUME NEW t \in Threads, Push(t) PROVE TypeOK'
  BY <1>0, <1>19, TargetFacts, ClassFacts DEF Push, Return, NoFlags
<1>20. ASSUME NEW t \in Threads, TestRef(t) PROVE TypeOK'
  BY <1>0, <1>20, JobAssumption DEF TestRef
<1>21. ASSUME NEW t \in Threads, DDrop(t) PROVE TypeOK'
  <2>1. refcnt \in Nat \ {0}
    BY <1>a, <1>21 DEF DDrop
  <2>2. CASE refcnt # 1
    BY <1>0, <1>21, <2>1, <2>2, <1>c DEF DDrop, DropRef
  <2>3. CASE refcnt = 1
    BY SMTT(40), <1>0, <1>21, <2>1, <2>3 DEF DDrop, DropRef
  <2>. QED  BY <2>2, <2>3
<1>22. ASSUME NEW t \in Threads, DReset(t) PROVE TypeOK'
  BY <1>0, <1>22, JobAssumption DEF DReset
<1>23. ASSUME NEW t \in Threads, NEW run \in BOOLEAN, Schedule(t, run)
      PROVE  TypeOK'
  BY <1>0, <1>23, JobAssumption DEF Schedule
<1>24. ASSUME NEW t \in Threads, NEW u \in Threads, NEW r \in Refs, Incref(t, u, r)
      PROVE  TypeOK'
  BY <1>0, <1>24 DEF Incref
<1>25. ASSUME NEW t \in Threads, NEW r \in Refs, NEW s \in Signals, NEW cur \in BOOLEAN,
            Send(t, r, s, cur)
      PROVE  TypeOK'
  BY <1>0, <1>25 DEF Send, Call
<1>26. ASSUME NEW t \in Threads, NEW r \in Refs, NEW cur \in BOOLEAN, Decref(t, r, cur)
      PROVE  TypeOK'
  BY <1>0, <1>26 DEF Decref, Call
<1>27. ASSUME NEW t \in Threads, NEW r \in Refs, Pop(t, r)
      PROVE  TypeOK'
  BY <1>0, <1>27 DEF Pop, Call
<1>28. CASE UNCHANGED vars
  BY <1>0, <1>28 DEF vars
<1>. QED
  BY <1>1, <1>2, <1>3, <1>4, <1>5, <1>6, <1>7, <1>8, <1>9, <1>10, <1>11, <1>12, <1>13, <1>14, <1>15, <1>16, <1>17, <1>18, <1>19, <1>20, <1>21, <1>22, <1>23, <1>24, <1>25, <1>26, <1>27, <1>28
  DEF Next, Step, PopAny, Use

-----------------------------------------------------------------------------
(* References.                                                             *)

\* A step of a thread inside a call that touches no reference.
Quiet(t) ==
    /\ UNCHANGED <<refcnt, place, freed, mine>>
    /\ pc[t] \notin {"idle", "reset", "dreset"}
    /\ \E l \in (Locking \cup Unlocked) \ {"reset", "dreset"} :
         pc' = [pc EXCEPT ![t] = l]

(* All but the steps that drop, move or make a reference are quiet.        *)
LEMMA QuietSteps ==
    ASSUME TypeOK, NEW t \in Threads,
           \/ Check(t) \/ Lock1(t) \/ OrSignals(t) \/ Lock2(t)
           \/ Taken(t) \/ QLock1(t) \/ QClear(t) \/ QLock2(t)
           \/ Unlock(t) \/ Swap(t) \/ Release(t) \/ Finish(t)
           \/ Clear(t) \/ Result(t) \/ Enqueue(t) \/ TestRef(t)
           \/ Exec(t) /\ arg[t] # {FINISH}
           \/ \E run \in BOOLEAN : Schedule(t, run)
    PROVE  Quiet(t)
<1>. USE DEF Quiet, Goto, callVars, Locking, Unlocked
<1>1. ASSUME Check(t) \/ OrSignals(t) \/ Taken(t) \/ QClear(t) \/ Release(t)
             \/ Finish(t) \/ Clear(t) \/ Result(t) \/ TestRef(t)
      PROVE  Quiet(t)
  BY <1>1 DEF Check, OrSignals, Taken, QClear, Release, Finish, Clear, Result,
              TestRef
<1>2. ASSUME Lock1(t) \/ Lock2(t) \/ QLock1(t) \/ QLock2(t) PROVE Quiet(t)
  BY <1>2 DEF Lock1, Lock2, QLock1, QLock2, TryLock
<1>3. ASSUME Unlock(t) PROVE Quiet(t)
  BY <1>3 DEF Unlock
<1>4. ASSUME Swap(t) PROVE Quiet(t)
  BY <1>4 DEF Swap
<1>5. ASSUME Enqueue(t) PROVE Quiet(t)
  BY <1>5 DEF Enqueue
<1>6. ASSUME Exec(t), arg[t] # {FINISH} PROVE Quiet(t)
  BY <1>6 DEF Exec
<1>7. ASSUME NEW run \in BOOLEAN, Schedule(t, run) PROVE Quiet(t)
  BY <1>7 DEF Schedule
<1>. QED  BY <1>1, <1>2, <1>3, <1>4, <1>5, <1>6, <1>7

(* A quiet step leaves references and counter in agreement.                *)
LEMMA QuietRefs ==
    ASSUME TypeOK, Owns, Counted, Gone, NEW t \in Threads, Quiet(t)
    PROVE  Owns' /\ Counted' /\ Gone'
<1>1. Live' = Live
  BY DEF Quiet, Live
<1>2. Owns'
  BY DEF Quiet, TypeOK, Owns, Locking, Unlocked
<1>3. \A u \in Threads : pc'[u] \in {"reset", "dreset"} <=> pc[u] \in {"reset", "dreset"}
  BY DEF Quiet, TypeOK
<1>4. Counted'
  BY <1>1, <1>3 DEF Counted, Quiet
<1>5. Gone'
  BY <1>1 DEF Gone, Quiet
<1>. QED  BY <1>2, <1>4, <1>5

(* Starting a call, taking from a queue and pushing into one move a        *)
(* reference and leave their number alone.                                 *)
LEMMA MoveRefs ==
    ASSUME TypeOK, Owns, Counted, Gone, NEW t \in Threads,
           \/ \E r \in Refs, s \in Signals, cur \in BOOLEAN : Send(t, r, s, cur)
           \/ \E r \in Refs, cur \in BOOLEAN : Decref(t, r, cur)
           \/ PopAny(t)
           \/ Push(t)
    PROVE  Owns' /\ Counted' /\ Gone'
<1>. USE DEF Goto
<1>1. ASSUME NEW r \in Refs, NEW s \in Signals, NEW cur \in BOOLEAN, Send(t, r, s, cur)
      PROVE  Owns' /\ Live' = Live
  BY <1>1 DEF Send, Call, Owns, TypeOK, Live
<1>2. ASSUME NEW r \in Refs, NEW cur \in BOOLEAN, Decref(t, r, cur)
      PROVE  Owns' /\ Live' = Live
  BY <1>2 DEF Decref, Call, Owns, TypeOK, Live
<1>3. ASSUME NEW r \in Refs, Pop(t, r)
      PROVE  Owns' /\ Live' = Live
  BY <1>3, ClassFacts DEF Pop, Call, Owns, TypeOK, Live
<1>4. ASSUME Push(t)
      PROVE  Owns' /\ Live' = Live
  <2>1. pc[t] = "push" /\ mine[t] \in Refs /\ place[mine[t]] = t
    BY <1>4 DEF Push, Owns
  <2>2. QueueOf(TargetClass(t)) \in Queues
    BY ClassFacts
  <2>. QED  BY <1>4, <2>1, <2>2, ClassFacts DEF Push, Return, Owns, TypeOK, Live
<1>5. UNCHANGED <<refcnt, freed>>
  BY DEF Send, Decref, Pop, PopAny, Push
<1>6. \A u \in Threads : pc'[u] \in {"reset", "dreset"} <=> pc[u] \in {"reset", "dreset"}
  BY DEF Send, Decref, Pop, PopAny, Push, Call, Return, TypeOK
<1>7. Live' = Live /\ Owns'
  BY <1>1, <1>2, <1>3, <1>4 DEF PopAny
<1>. QED  BY <1>5, <1>6, <1>7 DEF Counted, Gone

(* The decrement either frees one of several references or leaves the last *)
(* one with a counter of 0.                                                *)
LEMMA DropRefs ==
    ASSUME TypeOK, Owns, Counted, Gone, NEW t \in Threads, Drop(t) \/ DDrop(t)
    PROVE  Owns' /\ Counted' /\ Gone'
<1>1. pc[t] \in {"drop", "ddrop"} /\ \E l \in {"reset", "dreset"} : DropRef(t, l)
  BY DEF Drop, DDrop
<1>2. /\ ~freed
      /\ refcnt = Cardinality(Live)
      /\ refcnt \in Nat \ {0}
      /\ ~ \E u \in Threads : pc[u] \in {"reset", "dreset"}
  BY <1>1, CountFacts
<1>3. mine[t] \in Live /\ mine[t] \in Refs /\ IsFiniteSet(Live)
  BY <1>1, OwnFacts, JobAssumption, FS_Subset DEF Live
<1>4. CASE refcnt # 1
  <2>1. Live' = Live \ {mine[t]}
    BY <1>1, <1>3, <1>4 DEF DropRef, Live, TypeOK
  <2>2. Cardinality(Live') = Cardinality(Live) - 1
    BY <2>1, <1>3, FS_RemoveElement
  <2>3. ~ \E u \in Threads : pc'[u] \in {"reset", "dreset"}
    BY <1>1, <1>2, <1>4 DEF DropRef, Return, Goto, TypeOK
  <2>4. refcnt' = refcnt - 1 /\ freed' = freed
    BY <1>1 DEF DropRef
  <2>5. Owns'
    BY <1>1, <1>3, <1>4, OwnFacts DEF DropRef, Return, Goto, Owns, TypeOK
  <2>. QED  BY <1>2, <2>2, <2>3, <2>4, <2>5 DEF Counted, Gone
<1>5. CASE refcnt = 1
  <2>1. Live' = Live
    BY <1>1, <1>5 DEF DropRef, Live
  <2>2. pc'[t] \in {"reset", "dreset"}
    BY <1>1, <1>5 DEF DropRef, Goto, TypeOK
  <2>3. refcnt' = 0 /\ freed' = freed
    BY <1>1, <1>5 DEF DropRef
  <2>4. Owns'
    BY <1>1, <1>5 DEF DropRef, Goto, Owns, TypeOK, callVars
  <2>. QED  BY <1>2, <1>5, <2>1, <2>2, <2>3, <2>4 DEF Counted, Gone
<1>. QED  BY <1>4, <1>5

(* The store that puts the 1 back restores the exact count.                *)
LEMMA ResetRefs ==
    ASSUME TypeOK, Owns, Counted, Gone, NEW t \in Threads, ResetRef(t) \/ DReset(t)
    PROVE  Owns' /\ Counted' /\ Gone' /\ Live' = Live /\ Live = {mine[t]}
<1>1. /\ pc[t] \in {"reset", "dreset"}
      /\ refcnt' = 1 /\ place' = place /\ freed' = freed /\ mine' = mine
      /\ \E l \in {"finish", "check"} : pc' = [pc EXCEPT ![t] = l]
  BY DEF ResetRef, DReset, Goto, callVars
<1>2. mine[t] \in Live /\ IsFiniteSet(Live)
  BY <1>1, OwnFacts, JobAssumption, FS_Subset DEF Live
<1>3. ~freed /\ Cardinality(Live) = 1
  BY <1>1, <1>2 DEF Counted, Gone
<1>4. Live = {mine[t]}
  BY <1>2, <1>3, FS_Singleton
<1>5. \A u \in Threads : pc'[u] \notin {"reset", "dreset"}
  BY <1>1, <1>4, OwnFacts DEF TypeOK
<1>6. Live' = Live
  BY <1>1 DEF Live
<1>7. Owns'
  BY <1>1 DEF Owns, TypeOK
<1>. QED  BY <1>1, <1>3, <1>4, <1>5, <1>6, <1>7 DEF Counted, Gone

(* Whoever makes a reference has one, so nobody is dropping the last.      *)
LEMMA IncRefs ==
    ASSUME TypeOK, Owns, Counted, Gone, NEW t \in Threads, NEW v \in Threads,
           NEW r \in Refs, Incref(t, v, r)
    PROVE  Owns' /\ Counted' /\ Gone'
<1>1. PICK k \in Refs : place[k] = t /\ \A u \in Threads : u # t /\ pc[u] # "idle" => mine[u] # k
  <2>1. CASE pc[t] = "idle"
    BY <2>1 DEF Incref, Owns
  <2>2. CASE pc[t] # "idle"
    BY <2>2, OwnFacts DEF Owns
  <2>. QED  BY <2>1, <2>2
<1>2. k \in Live /\ ~freed /\ IsFiniteSet(Live)
  BY <1>1, ClassFacts, JobAssumption, FS_Subset DEF Live, Gone
<1>3. \A u \in Threads : pc[u] \notin {"reset", "dreset"}
  <2>1. SUFFICES ASSUME NEW u \in Threads, pc[u] \in {"reset", "dreset"} PROVE FALSE
    OBVIOUS
  <2>2. mine[u] \in Live
    BY <2>1, OwnFacts
  <2>3. \E x : Live = {x}
    BY <1>2, <2>1, FS_Singleton DEF Counted
  <2>4. pc[t] \notin {"reset", "dreset"}
    BY DEF Incref
  <2>. QED  BY <1>1, <1>2, <2>1, <2>2, <2>3, <2>4
<1>4. refcnt = Cardinality(Live)
  BY <1>2, <1>3 DEF Counted
<1>5. Live' = Live \cup {r} /\ r \notin Live
  BY ClassFacts DEF Incref, Live, TypeOK
<1>6. Cardinality(Live') = Cardinality(Live) + 1
  BY <1>2, <1>5, FS_AddElement
<1>7. UNCHANGED <<freed, pc, mine>> /\ refcnt' = refcnt + 1
  BY DEF Incref, callVars
<1>8. Owns'
  BY <1>7, ClassFacts DEF Incref, Owns, TypeOK
<1>. QED  BY <1>2, <1>3, <1>4, <1>6, <1>7, <1>8 DEF Counted, Gone

(* The handler of JS_FINISH frees the last reference with the job.         *)
LEMMA FreeRefs ==
    ASSUME TypeOK, Owns, LastHolder, NEW t \in Threads, Exec(t), arg[t] = {FINISH}
    PROVE  Owns' /\ Counted' /\ Gone'
<1>1. pc[t] = "exec" /\ Live = {mine[t]}
  BY DEF Exec, LastHolder
<1>2. Live' = {}
  BY <1>1 DEF Exec, Live, TypeOK
<1>3. freed' = TRUE
  BY DEF Exec
<1>4. Owns'
  BY <1>1, OwnFacts DEF Exec, Return, Goto, Owns, TypeOK
<1>. QED  BY <1>2, <1>3, <1>4 DEF Counted, Gone

(* The reference part of the inductive invariant.                          *)
LEMMA RefStep == IInv /\ [Next]_vars => Owns' /\ Counted' /\ Gone'
<1>. SUFFICES ASSUME IInv, [Next]_vars PROVE Owns' /\ Counted' /\ Gone'
  OBVIOUS
<1>0. TypeOK /\ Owns /\ Counted /\ Gone /\ LastHolder
  BY DEF IInv
<1>1. CASE UNCHANGED vars
  BY <1>0, <1>1 DEF vars, Owns, Counted, Gone, Live
<1>2. ASSUME NEW t \in Threads, Step(t) PROVE Owns' /\ Counted' /\ Gone'
  BY <1>0, <1>2, QuietSteps, QuietRefs, MoveRefs, DropRefs, ResetRefs, FreeRefs
  DEF Step
<1>3. ASSUME NEW t \in Threads, PopAny(t) PROVE Owns' /\ Counted' /\ Gone'
  BY <1>0, <1>3, MoveRefs
<1>4. ASSUME NEW t \in Threads, Use(t) PROVE Owns' /\ Counted' /\ Gone'
  BY <1>0, <1>4, QuietSteps, QuietRefs, MoveRefs, IncRefs DEF Use
<1>. QED  BY <1>1, <1>2, <1>3, <1>4 DEF Next

-----------------------------------------------------------------------------
(* The lock.                                                               *)

(* A thread in a call has a job that is not freed.                         *)
LEMMA NotFreed ==
    ASSUME TypeOK, Owns, Gone, NEW t \in Threads, pc[t] # "idle"
    PROVE  ~freed
BY OwnFacts DEF Gone

(* The owner of the only reference is the only thread in a call.           *)
LEMMA AloneInCall ==
    ASSUME TypeOK, Owns, NEW t \in Threads, pc[t] # "idle", Live = {mine[t]}
    PROVE  \A u \in Threads : u # t => pc[u] = "idle"
BY OwnFacts

(* No step gives the lock to two threads, and none forgets it.             *)
LEMMA LockStep == IInv /\ [Next]_vars => LockExclusive'
<1>. SUFFICES ASSUME IInv, [Next]_vars PROVE LockExclusive'
  OBVIOUS
<1>0. TypeOK /\ Owns /\ Gone /\ LastHolder /\ LockExclusive
  BY DEF IInv
<1>. USE DEF Goto
<1>a. \A t \in Threads : pc[t] # "idle" => ~freed
  BY <1>0, NotFreed
<1>b. \A t \in Threads : pc[t] = "finish" => \A u \in Threads : u # t => pc[u] = "idle"
  BY <1>0, AloneInCall DEF LastHolder
<1>c. pc \in [Threads -> {"idle"} \cup Locking \cup Unlocked] /\ locked \in BOOLEAN
  BY <1>0 DEF TypeOK
<1>d. ASSUME NEW t \in Threads, NEW l, pc' = [pc EXCEPT ![t] = l],
             pc[t] \in Locking <=> l \in Locking,
             UNCHANGED <<locked, freed>>
      PROVE  LockExclusive'
  BY <1>0, <1>c, <1>d DEF LockExclusive
<1>1. ASSUME NEW t \in Threads,
             \/ Check(t) \/ OrSignals(t) \/ Taken(t) \/ QClear(t) \/ Release(t)
             \/ TestRef(t) \/ ResetRef(t) \/ DReset(t)
      PROVE  LockExclusive'
  <2>1. \E l \in Unlocked : pc' = [pc EXCEPT ![t] = l]
    BY <1>1 DEF Check, OrSignals, Taken, QClear, Release, TestRef, ResetRef,
                DReset, Unlocked
  <2>2. UNCHANGED <<locked, freed>> /\ pc[t] \notin Locking
    BY <1>1 DEF Check, OrSignals, Taken, QClear, Release, TestRef, ResetRef,
                DReset, Locking, flagVars
  <2>. QED  BY <1>d, <2>1, <2>2 DEF Locking, Unlocked
<1>2. ASSUME NEW t \in Threads, Drop(t) \/ DDrop(t) \/ Push(t)
      PROVE  LockExclusive'
  <2>1. \E l \in {"idle", "reset", "dreset"} : pc' = [pc EXCEPT ![t] = l]
    BY <1>2 DEF Drop, DDrop, DropRef, Push, Return
  <2>2. UNCHANGED <<locked, freed>> /\ pc[t] \notin Locking
    BY <1>2 DEF Drop, DDrop, DropRef, Push, Locking, flagVars
  <2>. QED  BY <1>d, <2>1, <2>2 DEF Locking
<1>3. ASSUME NEW t \in Threads, Lock1(t) \/ Lock2(t) \/ QLock1(t) \/ QLock2(t)
      PROVE  LockExclusive'
  <2>1. ~freed /\ freed' = freed /\ pc[t] \notin Locking
    BY <1>3, <1>a DEF Lock1, Lock2, QLock1, QLock2, Locking
  <2>2. CASE locked
    <3>1. \E l \in {"or", "decref", "qclear"} : pc' = [pc EXCEPT ![t] = l]
      BY <1>3, <2>2 DEF Lock1, Lock2, QLock1, QLock2, TryLock
    <3>2. locked' = locked
      BY <1>3, <2>2 DEF Lock1, Lock2, QLock1, QLock2, TryLock, flagVars
    <3>. QED  BY <1>d, <2>1, <3>1, <3>2 DEF Locking
  <2>3. CASE ~locked
    <3>1. locked' = TRUE /\ pc' = [pc EXCEPT ![t] = "unlock"]
      BY <1>3, <2>3 DEF Lock1, Lock2, QLock1, QLock2, TryLock
    <3>. QED  BY <1>0, <1>c, <2>1, <2>3, <3>1 DEF LockExclusive, Locking
  <2>. QED  BY <2>2, <2>3
<1>4. ASSUME NEW t \in Threads, Unlock(t) \/ Clear(t) \/ Result(t)
      PROVE  LockExclusive'
  <2>1. \E l \in Locking : pc' = [pc EXCEPT ![t] = l]
    BY <1>4 DEF Unlock, Clear, Result, Locking
  <2>2. UNCHANGED <<locked, freed>> /\ pc[t] \in Locking
    BY <1>4 DEF Unlock, Clear, Result, Locking, flagVars
  <2>. QED  BY <1>d, <2>1, <2>2
<1>5. ASSUME NEW t \in Threads, Swap(t) \/ Enqueue(t)
      PROVE  LockExclusive'
  <2>1. ~freed /\ freed' = freed /\ pc[t] \in Locking
    BY <1>5, <1>a DEF Swap, Enqueue, Locking
  <2>2. CASE Flags = fl[t]
    <3>1. locked' = FALSE /\ \E l \in Unlocked : pc' = [pc EXCEPT ![t] = l]
      BY <1>5, <2>2 DEF Swap, Enqueue, Unlocked
    <3>. QED  BY <1>0, <1>c, <2>1, <3>1 DEF LockExclusive, Locking, Unlocked
  <2>3. CASE Flags # fl[t]
    <3>1. locked' = locked /\ pc' = [pc EXCEPT ![t] = "unlock"]
      BY <1>5, <2>3 DEF Swap, Enqueue
    <3>. QED  BY <1>d, <2>1, <3>1 DEF Locking
  <2>. QED  BY <2>2, <2>3
<1>6. ASSUME NEW t \in Threads, Finish(t) PROVE LockExclusive'
  <2>1. \A u \in Threads : u # t => pc[u] = "idle"
    BY <1>b, <1>6 DEF Finish
  <2>. QED  BY <1>6, <1>c, <2>1 DEF Finish, LockExclusive, Locking
<1>7. ASSUME NEW t \in Threads, Exec(t) PROVE LockExclusive'
  <2>1. CASE arg[t] = {FINISH}
    BY <1>7, <1>0, <1>c, <2>1 DEF Exec, Return, LockExclusive, Locking
  <2>2. CASE arg[t] # {FINISH}
    <3>1. \E l \in Locking : pc' = [pc EXCEPT ![t] = l]
      BY <1>7, <2>2 DEF Exec, Locking
    <3>2. UNCHANGED <<locked, freed>> /\ pc[t] \in Locking
      BY <1>7, <2>2 DEF Exec, Locking, flagVars
    <3>. QED  BY <1>d, <3>1, <3>2
  <2>. QED  BY <2>1, <2>2
<1>8. ASSUME NEW t \in Threads, PopAny(t) PROVE LockExclusive'
  BY <1>d, <1>8 DEF PopAny, Pop, Call, Locking, flagVars
<1>9. ASSUME NEW t \in Threads, Use(t) PROVE LockExclusive'
  <2>1. ASSUME NEW run \in BOOLEAN, Schedule(t, run) PROVE LockExclusive'
    BY <1>d, <2>1 DEF Schedule, Locking
  <2>2. ASSUME NEW u \in Threads, NEW r \in Refs, Incref(t, u, r) PROVE LockExclusive'
    BY <1>0, <2>2 DEF Incref, LockExclusive, flagVars
  <2>3. ASSUME NEW r \in Refs, NEW cur \in BOOLEAN, Decref(t, r, cur) PROVE LockExclusive'
    BY <1>d, <2>3 DEF Decref, Call, Locking, flagVars
  <2>4. ASSUME NEW r \in Refs, NEW cur \in BOOLEAN, NEW s \in Signals, Send(t, r, s, cur)
        PROVE  LockExclusive'
    BY <1>d, <2>4 DEF Send, Call, Locking, flagVars
  <2>. QED  BY <1>9, <2>1, <2>2, <2>3, <2>4 DEF Use
<1>10. CASE UNCHANGED vars
  BY <1>0, <1>10 DEF vars, LockExclusive
<1>. QED  BY <1>1, <1>2, <1>3, <1>4, <1>5, <1>6, <1>7, <1>8, <1>9, <1>10 DEF Next, Step

-----------------------------------------------------------------------------
(* What a step says of its own thread and of the others.                   *)

Acts(t) == Step(t) \/ PopAny(t) \/ Use(t)

(* A step touches the locals of its own thread only.                       *)
LEMMA OthersKept ==
    ASSUME TypeOK, NEW t \in Threads, Acts(t), NEW u \in Threads, u # t
    PROVE  /\ pc'[u] = pc[u] /\ mine'[u] = mine[u] /\ fl'[u] = fl[u]
           /\ arg'[u] = arg[u] /\ qf'[u] = qf[u]
<1>. DEFINE Copy == /\ pc'[u] = pc[u] /\ mine'[u] = mine[u] /\ fl'[u] = fl[u]
                    /\ arg'[u] = arg[u] /\ qf'[u] = qf[u]
<1>. USE DEF TypeOK, Goto, callVars
<1>1. ASSUME Check(t) \/ OrSignals(t) \/ Taken(t) \/ QClear(t) \/ Release(t)
             \/ Finish(t) \/ Clear(t) \/ Result(t) \/ TestRef(t) \/ Swap(t)
             \/ Enqueue(t) \/ ResetRef(t) \/ DReset(t)
      PROVE  Copy
  BY <1>1 DEF Check, OrSignals, Taken, QClear, Release, Finish, Clear, Result,
              TestRef, Swap, Enqueue, ResetRef, DReset
<1>2. ASSUME Lock1(t) \/ Lock2(t) \/ QLock1(t) \/ QLock2(t) PROVE Copy
  BY <1>2 DEF Lock1, Lock2, QLock1, QLock2, TryLock
<1>3. ASSUME Unlock(t) PROVE Copy
  BY <1>3 DEF Unlock
<1>4. ASSUME Drop(t) \/ DDrop(t) PROVE Copy
  BY <1>4 DEF Drop, DDrop, DropRef, Return
<1>5. ASSUME Exec(t) PROVE Copy
  BY <1>5 DEF Exec, Return
<1>6. ASSUME Push(t) PROVE Copy
  BY <1>6 DEF Push, Return
<1>7. ASSUME PopAny(t) PROVE Copy
  BY <1>7 DEF PopAny, Pop, Call
<1>8. ASSUME Use(t) PROVE Copy
  BY <1>8 DEF Use, Schedule, Incref, Decref, Send, Call
<1>. HIDE DEF Copy
<1>9. Copy
  BY <1>1, <1>2, <1>3, <1>4, <1>5, <1>6, <1>7, <1>8 DEF Acts, Step
<1>. QED  BY <1>9 DEF Copy

(* A thread inside a call that takes a step is not idle.                   *)
LEMMA StepsInCall ==
    ASSUME NEW t \in Threads, Step(t)
    PROVE  pc[t] # "idle"
BY DEF Step, Check, Lock1, OrSignals, Lock2, Taken, QLock1, QClear, QLock2, Unlock,
       Swap, Release, Drop, ResetRef, Finish, Clear, Exec, Result, Enqueue, Push,
       TestRef, DDrop, DReset

(* Whoever acts on the job has a reference or takes one from its queue, so *)
(* nobody acts while another thread has the only one.                      *)
LEMMA Intruder ==
    ASSUME TypeOK, Owns, NEW t \in Threads, Acts(t),
           NEW u \in Threads, u # t, pc[u] # "idle"
    PROVE  Live # {mine[u]}
<1>1. \E r \in Live : place[r] = t \/ place[r] \in Queues
  <2>1. CASE pc[t] # "idle"
    BY <2>1, OwnFacts DEF Owns
  <2>2. CASE pc[t] = "idle" /\ PopAny(t)
    BY <2>2, ClassFacts DEF PopAny, Pop, Live
  <2>3. CASE pc[t] = "idle" /\ Use(t)
    BY <2>3, ClassFacts DEF Use, Schedule, Incref, Decref, Send, Live
  <2>. QED  BY <2>1, <2>2, <2>3, StepsInCall DEF Acts
<1>. QED  BY <1>1, ClassFacts DEF Owns

(* When the only reference is with a thread that neither pushes nor takes  *)
(* the job, the job is in no queue, and no allowed signal is left unless a *)
(* thread has the lock or is about to try it.                              *)
LEMMA NothingPending ==
    ASSUME IInv, NEW t \in Threads, pc[t] # "idle", Live = {mine[t]},
           pc[t] \notin {"push", "taken", "qlock1", "qclear"}
    PROVE  /\ queued = {}
           /\ pc[t] \notin Locking \cup {"lock2", "qlock2"} =>
                ~locked /\ sigs \cap Allowed = {}
<1>0. TypeOK /\ Owns /\ Gone /\ LockExclusive /\ QueuedBitHonest /\ NoLostSignal
  BY DEF IInv
<1>1. \A u \in Threads : u # t => pc[u] = "idle"
  BY <1>0, AloneInCall
<1>2. ~freed
  BY <1>0, NotFreed
<1>3. place[mine[t]] = t
  BY <1>0 DEF Owns
<1>4. queued = {}
  <2>1. SUFFICES ASSUME NEW c \in queued PROVE FALSE
    OBVIOUS
  <2>2. \A r \in Refs : place[r] # QueueOf(c)
    BY <1>3, ClassFacts DEF Live
  <2>3. PICK u \in Threads : pc[u] \in {"push", "taken", "qlock1", "qclear"}
    BY <1>0, <2>2 DEF QueuedBitHonest
  <2>. QED  BY <1>1, <2>3
<1>5. ASSUME pc[t] \notin Locking \cup {"lock2", "qlock2"}
      PROVE  ~locked /\ sigs \cap Allowed = {}
  BY <1>0, <1>1, <1>2, <1>4, <1>5 DEF LockExclusive, NoLostSignal, Locking
<1>. QED  BY <1>4, <1>5

-----------------------------------------------------------------------------
(* Signals and queued bits.                                                *)

\* Chosen, for one thread.
ChosenAt(t) ==
    /\ pc[t] = "swap" => fl[t].sigs \cap Allowed = {}
    /\ pc[t] \in {"clear", "enqueue"} =>
         \E s \in Signals : arg[t] = {s} /\ s \in sigs
    /\ pc[t] = "push" => \E s \in Signals : arg[t] = {s}
    /\ pc[t] = "exec" => \E s \in Signals : arg[t] = {s}
    /\ pc[t] = "result" => FINISH \notin arg[t]

(* What a thread has chosen stays right: only the holder of the lock takes *)
(* signals out of the flags.                                               *)
LEMMA ChosenStep == IInv /\ [Next]_vars => Chosen'
<1>. SUFFICES ASSUME IInv, [Next]_vars PROVE Chosen'
  OBVIOUS
<1>0. TypeOK /\ LockExclusive /\ Chosen
  BY DEF IInv
<1>1. CASE UNCHANGED vars
  BY <1>0, <1>1 DEF vars, Chosen
<1>2. ASSUME NEW t \in Threads, Acts(t) PROVE Chosen'
  <2>1. \A u \in Threads : u # t =>
          pc'[u] = pc[u] /\ fl'[u] = fl[u] /\ arg'[u] = arg[u]
    BY <1>0, <1>2, OthersKept
  <2>2. pc \in [Threads -> {"idle"} \cup Locking \cup Unlocked] /\ arg \in [Threads -> SUBSET Signals]
        /\ fl \in [Threads -> [queued : SUBSET Classes, sigs : SUBSET Signals]]
    BY <1>0 DEF TypeOK
  <2>3. ChosenAt(t)
    BY <1>0 DEF Chosen, ChosenAt
  <2>4. ASSUME sigs \subseteq sigs', ChosenAt(t)' PROVE Chosen'
    BY <1>0, <2>1, <2>4 DEF Chosen, ChosenAt
  <2>. USE DEF Goto
  <2>5. ASSUME Check(t) \/ OrSignals(t) \/ Taken(t) \/ QClear(t) \/ Release(t)
               \/ TestRef(t) \/ ResetRef(t) \/ DReset(t) \/ Finish(t) \/ Result(t)
        PROVE  Chosen'
    <3>1. sigs \subseteq sigs' /\ pc'[t] \notin {"swap", "clear", "enqueue", "push", "exec", "result"}
      BY <2>5, <2>2 DEF Check, OrSignals, Taken, QClear, Release, TestRef, ResetRef,
                  DReset, Finish, Result, flagVars
    <3>. QED  BY <2>4, <3>1 DEF ChosenAt
  <2>6. ASSUME Lock1(t) \/ Lock2(t) \/ QLock1(t) \/ QLock2(t) PROVE Chosen'
    <3>1. sigs \subseteq sigs' /\ pc'[t] \notin {"swap", "clear", "enqueue", "push", "exec", "result"}
      BY <2>6, <2>2 DEF Lock1, Lock2, QLock1, QLock2, TryLock, flagVars
    <3>. QED  BY <2>4, <3>1 DEF ChosenAt
  <2>7. ASSUME Drop(t) \/ DDrop(t) \/ Push(t) PROVE Chosen'
    <3>1. sigs \subseteq sigs' /\ pc'[t] \notin {"swap", "clear", "enqueue", "push", "exec", "result"}
      BY <2>7, <2>2 DEF Drop, DDrop, DropRef, Push, Return, flagVars
    <3>. QED  BY <2>4, <3>1 DEF ChosenAt
  <2>8. ASSUME PopAny(t) \/ Use(t) PROVE Chosen'
    <3>1. CASE pc[t] = "exec"
      <4>1. UNCHANGED <<pc, arg, sigs>>
        BY <2>8, <3>1 DEF PopAny, Pop, Use, Schedule, Incref, Send, Decref, flagVars, callVars
      <4>. QED  BY <2>3, <2>4, <3>1, <4>1 DEF ChosenAt
    <3>2. CASE pc[t] # "exec"
      <4>1. sigs \subseteq sigs' /\ pc'[t] \notin {"swap", "clear", "enqueue", "push", "exec", "result"}
        BY <2>8, <2>2, <3>2 DEF PopAny, Pop, Use, Schedule, Incref, Send, Decref, Call, flagVars
      <4>. QED  BY <2>4, <4>1 DEF ChosenAt
    <3>. QED  BY <3>1, <3>2
  <2>9. ASSUME Unlock(t) PROVE Chosen'
    <3>1. sigs \cap Allowed \in SUBSET Signals /\ sigs' = sigs
      BY <1>0, <2>9 DEF TypeOK, Unlock, flagVars
    <3>2. CASE sigs \cap Allowed = {}
      <4>1. pc'[t] = "swap" /\ fl'[t].sigs = sigs
        BY <2>2, <2>9, <3>2 DEF Unlock, Flags
      <4>. QED  BY <2>4, <3>1, <3>2, <4>1 DEF ChosenAt
    <3>3. CASE sigs \cap Allowed # {}
      <4>1. Highest(sigs \cap Allowed) \in sigs \cap Signals
        BY <3>1, <3>3, HighestIn
      <4>2. pc'[t] \in {"clear", "enqueue"} /\ arg'[t] = {Highest(sigs \cap Allowed)}
        BY <2>2, <2>9, <3>3 DEF Unlock
      <4>. QED  BY <2>4, <3>1, <4>1, <4>2 DEF ChosenAt
    <3>. QED  BY <3>2, <3>3
  <2>10. ASSUME Swap(t) PROVE Chosen'
    <3>1. sigs \subseteq sigs' /\ pc'[t] \in {"release", "unlock"}
      BY <2>10, <2>2 DEF Swap
    <3>. QED  BY <2>4, <3>1 DEF ChosenAt
  <2>11. ASSUME Clear(t) PROVE Chosen'
    <3>1. \A u \in Threads : u # t => pc[u] \notin {"clear", "enqueue"}
      BY <1>0, <2>11 DEF Clear, LockExclusive, Locking
    <3>2. pc'[t] = "exec" /\ arg' = arg /\ \E s \in Signals : arg[t] = {s}
      BY <2>2, <2>3, <2>11 DEF Clear, callVars, ChosenAt
    <3>. QED  BY <1>0, <2>1, <3>1, <3>2 DEF Chosen
  <2>12. ASSUME Exec(t) PROVE Chosen'
    <3>1. sigs' = sigs /\ pc'[t] \in {"idle", "unlock", "result"}
      BY <2>2, <2>12 DEF Exec, Return, flagVars
    <3>2. pc'[t] = "result" => FINISH \notin arg'[t]
      BY <2>2, <2>12 DEF Exec, Return
    <3>. QED  BY <2>4, <3>1, <3>2 DEF ChosenAt
  <2>13. ASSUME Enqueue(t) PROVE Chosen'
    <3>1. sigs' = sigs /\ arg' = arg /\ pc'[t] \in {"decref", "push", "unlock"}
      BY <2>2, <2>13 DEF Enqueue, callVars
    <3>2. \E s \in Signals : arg[t] = {s}
      BY <2>3, <2>13 DEF Enqueue, ChosenAt
    <3>. QED  BY <2>4, <3>1, <3>2 DEF ChosenAt
  <2>. QED  BY <1>2, <2>5, <2>6, <2>7, <2>8, <2>9, <2>10, <2>11, <2>12, <2>13
            DEF Acts, Step
<1>. QED  BY <1>1, <1>2 DEF Next, Acts

\* QueuedBitHonest, for one class: a reference in its queue, or a thread that
\* answers for the bit.
Answers(t, c) ==
    \/ pc[t] = "push" /\ TargetClass(t) = c
    \/ pc[t] = "taken" /\ QueueOf(c) = ClassOf[t]
    \/ pc[t] \in {"qlock1", "qclear"} /\ c \in qf[t]

(* Bits are set by the thread that pushes and cleared by one that takes.   *)
LEMMA QueuedStep == IInv /\ [Next]_vars => QueuedBitHonest'
<1>. SUFFICES ASSUME IInv, [Next]_vars PROVE QueuedBitHonest'
  OBVIOUS
<1>0. TypeOK /\ Owns /\ Chosen /\ QueuedBitHonest
  BY DEF IInv
<1>1. CASE UNCHANGED vars
  BY <1>0, <1>1 DEF vars, QueuedBitHonest, TargetClass
<1>2. ASSUME NEW t \in Threads, Acts(t) PROVE QueuedBitHonest'
  <2>1. \A u \in Threads : \A c : u # t /\ Answers(u, c) => Answers(u, c)'
    BY <1>0, <1>2, OthersKept DEF Answers, TargetClass
  <2>2. \A c \in queued : \/ \E r \in Refs : place[r] = QueueOf(c)
                          \/ \E u \in Threads : Answers(u, c)
    BY <1>0 DEF QueuedBitHonest, Answers
  <2>3. ASSUME \A c \in queued' : \/ \E r \in Refs : place'[r] = QueueOf(c)
                                  \/ \E u \in Threads : Answers(u, c)'
        PROVE  QueuedBitHonest'
    BY <2>3 DEF QueuedBitHonest, Answers
  <2>4. pc \in [Threads -> {"idle"} \cup Locking \cup Unlocked]
        /\ place \in [Refs -> {"free"} \cup Threads \cup Queues]
        /\ mine \in [Threads -> Refs \cup {NoRef}]
        /\ qf \in [Threads -> SUBSET Classes]
    BY <1>0 DEF TypeOK
  <2>5. \A c : QueueOf(c) \in Queues
    BY ClassFacts
  <2>6. ASSUME \A c : ~Answers(t, c), queued' \subseteq queued,
               \A r \in Refs : place[r] \in Queues => place'[r] = place[r]
        PROVE  QueuedBitHonest'
    BY <2>1, <2>2, <2>3, <2>5, <2>6
  <2>. USE DEF Goto
  <2>7. ASSUME Check(t) \/ OrSignals(t) \/ Release(t) \/ Finish(t) \/ Clear(t)
               \/ Result(t) \/ TestRef(t) \/ Swap(t) \/ ResetRef(t) \/ DReset(t)
               \/ Unlock(t)
        PROVE  QueuedBitHonest'
    BY <2>6, <2>7
    DEF Check, OrSignals, Release, Finish, Clear, Result, TestRef, Swap, ResetRef,
        DReset, Unlock, Answers, flagVars
  <2>8. ASSUME Lock1(t) \/ Lock2(t) \/ QLock2(t) PROVE QueuedBitHonest'
    BY <2>6, <2>8 DEF Lock1, Lock2, QLock2, TryLock, Answers, flagVars
  <2>9. ASSUME Drop(t) \/ DDrop(t) \/ Exec(t) PROVE QueuedBitHonest'
    <3>1. \A c : ~Answers(t, c)
      BY <2>9 DEF Drop, DDrop, Exec, Answers
    <3>2. queued' = queued
      BY <2>9 DEF Drop, DDrop, DropRef, Exec, flagVars
    <3>3. place[mine[t]] = t
      BY <1>0, <2>9 DEF Owns, Drop, DDrop, Exec
    <3>4. place' = place \/ place' = [place EXCEPT ![mine[t]] = "free"]
      BY <2>9 DEF Drop, DDrop, DropRef, Exec
    <3>. QED  BY <2>4, <2>6, <3>1, <3>2, <3>3, <3>4, ClassFacts
  <2>10. ASSUME Use(t) PROVE QueuedBitHonest'
    <3>1. \A c : ~Answers(t, c)
      BY <2>10 DEF Use, Schedule, Incref, Send, Decref, Answers
    <3>2. queued' = queued
      BY <2>10 DEF Use, Schedule, Incref, Send, Decref, flagVars
    <3>3. \A r \in Refs : place[r] \in Queues => place'[r] = place[r]
      BY <2>4, <2>10, ClassFacts DEF Use, Schedule, Incref, Send, Decref
    <3>. QED  BY <2>6, <3>1, <3>2, <3>3
  <2>11. ASSUME PopAny(t) PROVE QueuedBitHonest'
    <3>1. PICK r \in Refs : Pop(t, r)
      BY <2>11 DEF PopAny
    <3>2. queued' = queued /\ place' = [place EXCEPT ![r] = t] /\ pc'[t] = "taken"
          /\ place[r] = ClassOf[t] /\ pc[t] = "idle"
      BY <2>4, <3>1 DEF Pop, Call, flagVars
    <3>3. \A c : ~Answers(t, c)
      BY <3>2 DEF Answers
    <3>4. \A c : QueueOf(c) = ClassOf[t] => Answers(t, c)'
      BY <3>2 DEF Answers
    <3>5. \A k \in Refs : k # r => place'[k] = place[k]
      BY <2>4, <3>2
    <3>. QED  BY <2>1, <2>2, <2>3, <3>2, <3>3, <3>4, <3>5
  <2>12. ASSUME Push(t) PROVE QueuedBitHonest'
    <3>1. queued' = queued /\ place' = [place EXCEPT ![mine[t]] = QueueOf(TargetClass(t))]
          /\ pc[t] = "push"
      BY <2>12 DEF Push, flagVars
    <3>2. mine[t] \in Refs /\ place[mine[t]] = t
      BY <1>0, <3>1 DEF Owns
    <3>3. \A r \in Refs : place[r] \in Queues => place'[r] = place[r]
      BY <2>4, <3>1, <3>2, ClassFacts
    <3>4. place'[mine[t]] = QueueOf(TargetClass(t))
      BY <2>4, <3>1, <3>2
    <3>5. \A c : Answers(t, c) => TargetClass(t) = c
      BY <3>1 DEF Answers
    <3>. QED  BY <2>1, <2>2, <2>3, <2>5, <3>1, <3>2, <3>3, <3>4, <3>5
  <2>13. ASSUME Taken(t) PROVE QueuedBitHonest'
    <3>1. queued' = queued /\ place' = place /\ pc[t] = "taken" /\ pc'[t] = "qlock1"
          /\ qf'[t] = {c \in queued : InMask(t, c)}
      BY <2>4, <2>13 DEF Taken, flagVars
    <3>2. \A c \in queued : Answers(t, c) => Answers(t, c)'
      BY <3>1 DEF Answers, InMask
    <3>. QED  BY <2>1, <2>2, <2>3, <3>1, <3>2
  <2>14. ASSUME QLock1(t) \/ QClear(t) PROVE QueuedBitHonest'
    <3>1. place' = place /\ qf' = qf /\ pc[t] \in {"qlock1", "qclear"}
      BY <2>14 DEF QLock1, QClear, callVars
    <3>2. \/ queued' = queued \ qf[t]
          \/ queued' = queued /\ pc'[t] = "qclear"
      BY <2>4, <2>14 DEF QLock1, QClear, TryLock, flagVars
    <3>3. \A c : Answers(t, c) <=> c \in qf[t]
      BY <3>1 DEF Answers
    <3>4. pc'[t] = "qclear" => \A c : Answers(t, c)' <=> c \in qf[t]
      BY <3>1 DEF Answers
    <3>. QED  BY <2>1, <2>2, <2>3, <3>1, <3>2, <3>3, <3>4
  <2>15. ASSUME Enqueue(t) PROVE QueuedBitHonest'
    <3>0. PICK d : d = TargetClass(t)
      OBVIOUS
    <3>1. place' = place /\ arg' = arg /\ pc[t] = "enqueue"
      BY <2>15 DEF Enqueue, callVars
    <3>2. \/ queued' = queued
          \/ queued' = queued \cup {d} /\ pc'[t] = "push"
      BY <2>4, <2>15, <3>0 DEF Enqueue, Flags
    <3>3. \A c : ~Answers(t, c)
      BY <3>1 DEF Answers
    <3>4. pc'[t] = "push" => Answers(t, d)'
      BY <3>0, <3>1 DEF Answers, TargetClass
    <3>. QED  BY <2>1, <2>2, <2>3, <3>1, <3>2, <3>3, <3>4
  <2>. QED  BY <1>2, <2>7, <2>8, <2>9, <2>10, <2>11, <2>12, <2>13, <2>14, <2>15
            DEF Acts, Step
<1>. QED  BY <1>1, <1>2 DEF Next, Acts

(* The lock is given up only when no allowed signal is left or the job has *)
(* been queued; a signal set on a locked job is looked at again.           *)
LEMMA LostStep == IInv /\ [Next]_vars => NoLostSignal'
<1>. SUFFICES ASSUME IInv, [Next]_vars PROVE NoLostSignal'
  OBVIOUS
<1>0. TypeOK /\ Owns /\ Gone /\ LockExclusive /\ Chosen /\ NoLostSignal
  BY DEF IInv
<1>1. CASE UNCHANGED vars
  BY <1>0, <1>1 DEF vars, NoLostSignal
<1>2. ASSUME NEW t \in Threads, Acts(t) PROVE NoLostSignal'
  <2>1. \A u \in Threads : u # t => pc'[u] = pc[u]
    BY <1>0, <1>2, OthersKept
  <2>2. pc[t] \in Locking => locked
    BY <1>0, NotFreed DEF LockExclusive, Locking
  <2>3. pc \in [Threads -> {"idle"} \cup Locking \cup Unlocked]
    BY <1>0 DEF TypeOK
  <2>4. ASSUME UNCHANGED flagVars, pc[t] \notin {"lock2", "qlock2"} PROVE NoLostSignal'
    BY <1>0, <2>1, <2>4 DEF NoLostSignal, flagVars
  <2>. USE DEF Goto
  <2>5. ASSUME Check(t) \/ Release(t) \/ TestRef(t) \/ ResetRef(t) \/ DReset(t)
               \/ Taken(t) \/ Unlock(t) \/ Push(t)
        PROVE  NoLostSignal'
    BY <2>4, <2>5 DEF Check, Release, TestRef, ResetRef, DReset, Taken, Unlock, Push
  <2>6. ASSUME Drop(t) \/ DDrop(t) \/ Exec(t) \/ PopAny(t) PROVE NoLostSignal'
    BY <2>4, <2>6 DEF Drop, DDrop, DropRef, Exec, PopAny, Pop
  <2>7. ASSUME Lock1(t) \/ Lock2(t) \/ QLock1(t) \/ QLock2(t) PROVE NoLostSignal'
    <3>1. locked'
      BY <2>7 DEF Lock1, Lock2, QLock1, QLock2, TryLock, flagVars
    <3>. QED  BY <3>1 DEF NoLostSignal
  <2>8. ASSUME OrSignals(t) \/ QClear(t) PROVE NoLostSignal'
    BY <2>3, <2>8 DEF OrSignals, QClear, NoLostSignal
  <2>9. ASSUME Finish(t) \/ Clear(t) \/ Result(t) PROVE NoLostSignal'
    BY <2>2, <2>9 DEF Finish, Clear, Result, Locking, NoLostSignal
  <2>10. ASSUME Swap(t) PROVE NoLostSignal'
    <3>1. CASE Flags = fl[t]
      BY <1>0, <2>10, <3>1 DEF Swap, Flags, Chosen, NoLostSignal
    <3>2. CASE Flags # fl[t]
      BY <2>2, <2>10, <3>2 DEF Swap, Locking, NoLostSignal
    <3>. QED  BY <3>1, <3>2
  <2>11. ASSUME Enqueue(t) PROVE NoLostSignal'
    BY <2>2, <2>11 DEF Enqueue, Locking, NoLostSignal
  <2>12. ASSUME Use(t) PROVE NoLostSignal'
    <3>1. ASSUME NEW run \in BOOLEAN, Schedule(t, run) PROVE NoLostSignal'
      BY <2>2, <3>1 DEF Schedule, Locking, NoLostSignal
    <3>2. ASSUME NEW u \in Threads, NEW r \in Refs, Incref(t, u, r) PROVE NoLostSignal'
      BY <1>0, <3>2 DEF Incref, NoLostSignal, flagVars
    <3>3. ASSUME NEW r \in Refs, NEW cur \in BOOLEAN, Decref(t, r, cur) PROVE NoLostSignal'
      BY <2>4, <3>3 DEF Decref
    <3>4. ASSUME NEW r \in Refs, NEW cur \in BOOLEAN, NEW s \in Signals, Send(t, r, s, cur)
          PROVE  NoLostSignal'
      BY <2>4, <3>4 DEF Send
    <3>. QED  BY <2>12, <3>1, <3>2, <3>3, <3>4 DEF Use
  <2>. QED  BY <1>2, <2>5, <2>6, <2>7, <2>8, <2>9, <2>10, <2>11, <2>12 DEF Acts, Step
<1>. QED  BY <1>1, <1>2 DEF Next, Acts

-----------------------------------------------------------------------------
(* JS_FINISH.                                                              *)

(* A thread that reads a counter below 2 has the only reference.           *)
LEMMA OnlyOne ==
    ASSUME TypeOK, Owns, Counted, Gone, NEW t \in Threads, pc[t] # "idle",
           pc[t] \notin {"reset", "dreset"}, ~(refcnt >= 2)
    PROVE  Live = {mine[t]}
<1>1. refcnt = Cardinality(Live) /\ refcnt \in Nat \ {0}
  BY CountFacts
<1>2. Cardinality(Live) = 1
  BY <1>1
<1>3. IsFiniteSet(Live)
  BY JobAssumption, FS_Subset DEF Live
<1>. QED  BY <1>2, <1>3, OwnFacts, FS_Singleton

(* JS_FINISH is sent by the owner of the only reference and by nobody else.*)
LEMMA LastHolderStep == IInv /\ [Next]_vars => LastHolder'
<1>. SUFFICES ASSUME IInv, [Next]_vars PROVE LastHolder'
  OBVIOUS
<1>0. TypeOK /\ Owns /\ Counted /\ Gone /\ LockExclusive /\ Chosen /\ LastHolder /\ FinishSet
  BY DEF IInv
<1>1. CASE UNCHANGED vars
  BY <1>0, <1>1 DEF vars, LastHolder, Live
<1>2. ASSUME NEW t \in Threads, Acts(t) PROVE LastHolder'
  <2>. DEFINE Ending(u) == \/ pc[u] = "finish"
                           \/ pc[u] \in {"check", "lock1", "clear", "exec"} /\ FINISH \in arg[u]
              Sending(u) == pc[u] \in {"check", "lock1"} /\ FINISH \in arg[u]
              Is(u) == /\ Ending(u) => Live = {mine[u]}
                       /\ Sending(u) => FINISH \notin sigs /\ arg[u] = {FINISH}
                       /\ pc[u] \in {"or", "lock2"} => FINISH \notin arg[u]
  <2>1. \A u \in Threads : u # t =>
          pc'[u] = pc[u] /\ mine'[u] = mine[u] /\ arg'[u] = arg[u]
    BY <1>0, <1>2, OthersKept
  <2>2. \A u \in Threads : Is(u)
    BY <1>0 DEF LastHolder
  <2>3. \A u \in Threads : u # t => ~Ending(u)
    <3>1. \A u \in Threads : u # t /\ pc[u] # "idle" => Live # {mine[u]}
      BY <1>0, <1>2, Intruder
    <3>. QED  BY <2>2, <3>1
  <2>4. ASSUME Is(t)' PROVE LastHolder'
    <3>1. \A u \in Threads : u # t => Is(u)'
      BY <2>1, <2>2, <2>3
    <3>2. \A u \in Threads : Is(u)'
      BY <2>4, <3>1
    <3>. QED  BY <3>2 DEF LastHolder
  <2>5. /\ pc \in [Threads -> {"idle"} \cup Locking \cup Unlocked]
        /\ arg \in [Threads -> SUBSET Signals]
        /\ mine \in [Threads -> Refs \cup {NoRef}]
    BY <1>0 DEF TypeOK
  <2>6. Is(t)
    BY <2>2
  <2>7. ASSUME pc'[t] \notin {"finish", "check", "lock1", "clear", "exec", "or", "lock2"}
        PROVE  LastHolder'
    BY <2>4, <2>7
  <2>8. ASSUME UNCHANGED <<place, mine>> PROVE Live' = Live /\ mine'[t] = mine[t]
    BY <2>8 DEF Live
  <2>. USE DEF Goto
  <2>9. ASSUME Check(t) PROVE LastHolder'
    <3>1. /\ UNCHANGED <<place, mine, sigs, arg>> /\ pc[t] = "check"
          /\ pc'[t] \in {"decref", "lock1"}
      BY <2>5, <2>9 DEF Check, flagVars, callVars
    <3>. QED  BY <2>4, <2>6, <2>8, <3>1
  <2>10. ASSUME Lock1(t) PROVE LastHolder'
    <3>1. CASE locked
      <4>1. FINISH \notin arg[t]
        <5>1. SUFFICES ASSUME FINISH \in arg[t] PROVE FALSE
          OBVIOUS
        <5>2. pc[t] = "lock1" /\ Live = {mine[t]}
          BY <2>6, <2>10, <5>1 DEF Lock1
        <5>3. ~freed /\ \A u \in Threads : u # t => pc[u] = "idle"
          BY <1>0, <5>2, AloneInCall, NotFreed
        <5>. QED  BY <1>0, <3>1, <5>2, <5>3 DEF LockExclusive, Locking
      <4>2. arg' = arg /\ pc'[t] = "or"
        BY <2>5, <2>10, <3>1 DEF Lock1, TryLock, callVars
      <4>. QED  BY <2>4, <4>1, <4>2
    <3>2. CASE ~locked
      BY <2>5, <2>7, <2>10, <3>2 DEF Lock1, TryLock
    <3>. QED  BY <3>1, <3>2
  <2>11. ASSUME OrSignals(t) PROVE LastHolder'
    <3>1. arg' = arg /\ pc'[t] = "lock2" /\ pc[t] = "or"
      BY <2>5, <2>11 DEF OrSignals, callVars
    <3>. QED  BY <2>4, <2>6, <3>1
  <2>12. ASSUME Lock2(t) \/ QLock1(t) \/ QLock2(t) PROVE LastHolder'
    BY <2>5, <2>7, <2>12 DEF Lock2, QLock1, QLock2, TryLock
  <2>13. ASSUME Taken(t) \/ QClear(t) \/ Result(t) \/ Finish(t) \/ Swap(t) \/ Enqueue(t)
         PROVE  LastHolder'
    BY <2>5, <2>7, <2>13 DEF Taken, QClear, Result, Finish, Swap, Enqueue
  <2>14. ASSUME Drop(t) \/ DDrop(t) \/ Push(t) PROVE LastHolder'
    BY <2>5, <2>7, <2>14 DEF Drop, DDrop, DropRef, Push, Return
  <2>15. ASSUME Exec(t) PROVE LastHolder'
    BY <2>5, <2>7, <2>15 DEF Exec, Return
  <2>16. ASSUME PopAny(t) PROVE LastHolder'
    BY <2>5, <2>7, <2>16 DEF PopAny, Pop, Call
  <2>17. ASSUME Unlock(t) PROVE LastHolder'
    <3>1. UNCHANGED <<place, mine, sigs>> /\ pc'[t] \in {"swap", "clear", "enqueue"} /\ pc[t] = "unlock"
      BY <2>5, <2>17 DEF Unlock, flagVars
    <3>2. ASSUME pc'[t] = "clear", FINISH \in arg'[t] PROVE Live = {mine[t]}
      <4>1. sigs \cap Allowed # {} /\ FINISH = Highest(sigs \cap Allowed)
        BY <2>5, <2>17, <3>2 DEF Unlock
      <4>2. sigs \cap Allowed \in SUBSET Signals
        BY <1>0 DEF TypeOK
      <4>3. FINISH \in sigs
        BY <4>1, <4>2, HighestIn
      <4>4. mine[t] \in Live
        BY <1>0, <3>1, OwnFacts
      <4>. QED  BY <1>0, <4>3, <4>4 DEF FinishSet, Sole
    <3>. QED  BY <2>4, <2>8, <3>1, <3>2
  <2>18. ASSUME Release(t) PROVE LastHolder'
    <3>1. /\ UNCHANGED <<place, mine, arg>> /\ pc[t] = "release"
          /\ pc'[t] = IF refcnt >= 2 THEN "drop" ELSE "finish"
      BY <2>5, <2>18 DEF Release, callVars
    <3>2. ~(refcnt >= 2) => Live = {mine[t]}
      BY <1>0, <3>1, OnlyOne
    <3>. QED  BY <2>4, <2>8, <3>1, <3>2
  <2>19. ASSUME TestRef(t) PROVE LastHolder'
    <3>1. UNCHANGED <<place, mine, sigs>> /\ pc[t] = "decref"
      BY <2>19 DEF TestRef, flagVars
    <3>2. CASE refcnt >= 2
      BY <2>5, <2>7, <2>19, <3>2 DEF TestRef
    <3>3. CASE ~(refcnt >= 2)
      <4>1. Live = {mine[t]}
        BY <1>0, <3>1, <3>3, OnlyOne
      <4>2. FINISH \notin sigs
        BY <1>0, <3>1 DEF FinishSet, FinishPcs
      <4>3. pc'[t] = "check" /\ arg'[t] = {FINISH}
        BY <2>5, <2>19, <3>3 DEF TestRef
      <4>. QED  BY <2>4, <2>8, <3>1, <4>1, <4>2, <4>3
    <3>. QED  BY <3>2, <3>3
  <2>20. ASSUME ResetRef(t) \/ DReset(t) PROVE LastHolder'
    <3>1. UNCHANGED <<place, mine, sigs>> /\ pc[t] \in {"reset", "dreset"}
      BY <2>20 DEF ResetRef, DReset, flagVars, callVars
    <3>2. Live = {mine[t]}
      BY <1>0, <2>20, ResetRefs
    <3>3. FINISH \notin sigs
      BY <1>0, <3>1 DEF FinishSet, FinishPcs
    <3>4. pc'[t] = "finish" \/ (pc'[t] = "check" /\ arg'[t] = {FINISH})
      <4>1. ASSUME ResetRef(t) PROVE pc'[t] = "finish"
        BY <2>5, <4>1 DEF ResetRef
      <4>2. ASSUME DReset(t) PROVE pc'[t] = "check" /\ arg'[t] = {FINISH}
        BY <2>5, <4>2 DEF DReset
      <4>. QED  BY <2>20, <4>1, <4>2
    <3>. QED  BY <2>4, <2>8, <3>1, <3>2, <3>3, <3>4
  <2>21. ASSUME Clear(t) PROVE LastHolder'
    <3>1. UNCHANGED <<place, mine, arg>> /\ pc[t] = "clear" /\ pc'[t] = "exec"
      BY <2>5, <2>21 DEF Clear, callVars
    <3>. QED  BY <2>4, <2>6, <2>8, <3>1
  <2>22. ASSUME Use(t) PROVE LastHolder'
    <3>1. ASSUME NEW run \in BOOLEAN, Schedule(t, run) PROVE LastHolder'
      BY <2>5, <2>7, <3>1 DEF Schedule
    <3>2. ASSUME NEW u \in Threads, NEW r \in Refs, Incref(t, u, r) PROVE LastHolder'
      <4>1. UNCHANGED <<pc, arg>> /\ (pc[t] \in {"created", "idle"} \/ (pc[t] = "exec" /\ arg[t] # {FINISH}))
        BY <3>2 DEF Incref, callVars
      <4>2. ASSUME pc[t] = "exec" PROVE FINISH \notin arg[t]
        <5>1. PICK s \in Signals : arg[t] = {s}
          BY <1>0, <4>2 DEF Chosen
        <5>. QED  BY <4>1, <4>2, <5>1
      <4>. QED  BY <2>4, <4>1, <4>2
    <3>3. ASSUME NEW r \in Refs, NEW cur \in BOOLEAN, Decref(t, r, cur) PROVE LastHolder'
      BY <2>5, <2>7, <3>3 DEF Decref, Call
    <3>4. ASSUME NEW r \in Refs, NEW cur \in BOOLEAN, NEW s \in Signals \ {FINISH},
                 Send(t, r, s, cur)
          PROVE  LastHolder'
      <4>1. pc'[t] = "check" /\ arg'[t] = {s}
        BY <2>5, <3>4 DEF Send, Call
      <4>. QED  BY <2>4, <4>1
    <3>. QED  BY <2>22, <3>1, <3>2, <3>3, <3>4 DEF Use
  <2>. QED  BY <1>2, <2>9, <2>10, <2>11, <2>12, <2>13, <2>14, <2>15, <2>16, <2>17,
               <2>18, <2>19, <2>20, <2>21, <2>22 DEF Acts, Step
<1>. QED  BY <1>1, <1>2 DEF Next, Acts

(* Setting JS_FINISH leaves the job with its last reference, and nothing   *)
(* but that signal moves it from then on.                                  *)
LEMMA FinishSetStep == IInv /\ [Next]_vars => FinishSet'
<1>. SUFFICES ASSUME IInv, [Next]_vars PROVE FinishSet'
  OBVIOUS
<1>0. /\ TypeOK /\ Owns /\ Gone /\ LockExclusive /\ Chosen /\ QueuedBitHonest
      /\ NoLostSignal /\ LastHolder /\ FinishSet
  BY DEF IInv
<1>1. CASE UNCHANGED vars
  BY <1>0, <1>1 DEF vars, FinishSet, Sole, Live
<1>2. ASSUME NEW t \in Threads, Acts(t) PROVE FinishSet'
  <2>1. \A u \in Threads : u # t => pc'[u] = pc[u] /\ arg'[u] = arg[u]
    BY <1>0, <1>2, OthersKept
  <2>2. /\ pc \in [Threads -> {"idle"} \cup Locking \cup Unlocked]
        /\ arg \in [Threads -> SUBSET Signals]
        /\ mine \in [Threads -> Refs \cup {NoRef}]
        /\ place \in [Refs -> {"free"} \cup Threads \cup Queues]
        /\ sigs \subseteq Signals
    BY <1>0 DEF TypeOK
  <2>3. FINISH = 7 /\ RUN = 0 /\ FINISH \in Allowed
    BY JobAssumption DEF FINISH, RUN
  <2>. HIDE DEF FINISH, RUN
  <2>. USE DEF Goto
  <2>4. CASE FINISH \notin sigs
    <3>1. ASSUME Finish(t) \/ (Lock1(t) /\ FINISH \in arg[t]) PROVE FinishSet'
      <4>1. /\ pc[t] \in {"finish", "lock1"} /\ Live = {mine[t]}
            /\ (Lock1(t) => arg[t] = {FINISH})
        BY <1>0, <3>1 DEF Finish, Lock1, LastHolder
      <4>2. ~locked /\ sigs \cap Allowed = {}
        BY <4>1, NothingPending DEF Locking
      <4>3. /\ sigs' = sigs \cup {FINISH} /\ place' = place
            /\ pc' = [pc EXCEPT ![t] = "unlock"]
        BY <3>1, <4>1, <4>2 DEF Finish, Lock1, TryLock
      <4>4. \A u \in Threads : u # t => pc'[u] = "idle"
        BY <1>0, <2>1, <4>1, AloneInCall
      <4>5. pc'[t] = "unlock" /\ place[mine[t]] = t
        BY <1>0, <2>2, <4>1, <4>3 DEF Owns
      <4>6. Live' = {mine[t]}
        BY <4>1, <4>3 DEF Live
      <4>7. sigs' \cap Allowed = {FINISH}
        BY <2>3, <4>2, <4>3
      <4>8. \A u \in Threads : pc'[u] \in {"unlock", "idle"}
        BY <4>4, <4>5
      <4>. QED  BY <4>3, <4>5, <4>6, <4>7, <4>8 DEF FinishSet, Sole, FinishPcs
    <3>2. ASSUME ~Finish(t), ~(Lock1(t) /\ FINISH \in arg[t]) PROVE FINISH \notin sigs'
      <4>. USE DEF flagVars
      <4>1. ASSUME Lock1(t) PROVE FINISH \notin sigs'
        BY <2>4, <3>2, <4>1 DEF Lock1, TryLock
      <4>2. ASSUME OrSignals(t) PROVE FINISH \notin sigs'
        BY <1>0, <2>4, <4>2 DEF OrSignals, LastHolder
      <4>3. ASSUME Result(t) PROVE FINISH \notin sigs'
        BY <1>0, <2>4, <4>3 DEF Result, Chosen
      <4>4. ASSUME Lock2(t) \/ QLock1(t) \/ QLock2(t) PROVE FINISH \notin sigs'
        BY <2>4, <4>4 DEF Lock2, QLock1, QLock2, TryLock
      <4>5. ASSUME Check(t) \/ Taken(t) \/ QClear(t) \/ Unlock(t) \/ Swap(t) \/ Release(t)
                   \/ ResetRef(t) \/ Clear(t) \/ Enqueue(t) \/ Push(t) \/ TestRef(t)
                   \/ DReset(t)
            PROVE  FINISH \notin sigs'
        BY <2>4, <4>5 DEF Check, Taken, QClear, Unlock, Swap, Release, ResetRef, Clear,
                          Enqueue, Push, TestRef, DReset
      <4>6. ASSUME Drop(t) \/ DDrop(t) \/ Exec(t) PROVE FINISH \notin sigs'
        BY <2>4, <4>6 DEF Drop, DDrop, DropRef, Exec
      <4>7. ASSUME PopAny(t) PROVE FINISH \notin sigs'
        BY <2>4, <4>7 DEF PopAny, Pop
      <4>8. ASSUME Use(t) PROVE FINISH \notin sigs'
        <5>1. sigs' \in {sigs, sigs \cup {RUN}}
          BY <4>8 DEF Use, Schedule, Incref, Decref, Send
        <5>. QED  BY <2>3, <2>4, <5>1
      <4>. QED  BY <1>2, <3>2, <4>1, <4>2, <4>3, <4>4, <4>5, <4>6, <4>7, <4>8 DEF Acts, Step
    <3>. QED  BY <3>1, <3>2 DEF FinishSet
  <2>5. CASE FINISH \in sigs
    <3>1. /\ Sole
          /\ sigs \cap Allowed = {FINISH}
          /\ \A u \in Threads : pc[u] \in FinishPcs \cup {"idle"}
          /\ \A u \in Threads : pc[u] \in {"clear", "enqueue"} => arg[u] = {FINISH}
          /\ \A r \in Live : place[r] \in Threads => pc[place[r]] # "idle"
      BY <1>0, <2>5 DEF FinishSet
    <3>2. ASSUME pc[t] # "idle"
          PROVE  Live = {mine[t]} /\ place[mine[t]] = t /\ \A u \in Threads : u # t => pc[u] = "idle"
      <4>1. Live = {mine[t]}
        BY <1>0, <3>1, <3>2, OwnFacts DEF Sole
      <4>. QED  BY <1>0, <3>2, <4>1, AloneInCall DEF Owns
    <3>3. ASSUME pc[t] # "idle", pc'[t] \in FinishPcs, UNCHANGED <<place, sigs>>,
                 pc'[t] \in {"clear", "enqueue"} => arg'[t] = {FINISH}
          PROVE  FinishSet'
      <4>1. Live' = Live
        BY <3>3 DEF Live
      <4>2. \A u \in Threads : u # t => pc'[u] = "idle"
        BY <2>1, <3>2, <3>3
      <4>. QED  BY <3>1, <3>2, <3>3, <4>1, <4>2 DEF FinishSet, Sole, FinishPcs
    <3>4. ASSUME Use(t) PROVE FALSE
      <4>1. pc[t] = "idle" => \E r \in Live : place[r] = t
        BY <3>4, ClassFacts DEF Use, Schedule, Incref, Decref, Send, Live
      <4>2. pc[t] \in {"idle", "created", "exec"}
        BY <3>4 DEF Use, Schedule, Incref, Decref, Send
      <4>. QED  BY <3>1, <4>1, <4>2 DEF FinishPcs
    <3>5. ASSUME Unlock(t) PROVE FinishSet'
      <4>1. Highest(sigs \cap Allowed) = FINISH
        BY <2>2, <2>3, <3>1, HighestIn
      <4>2. /\ pc[t] = "unlock" /\ UNCHANGED <<place, sigs>> /\ arg'[t] = {FINISH}
            /\ pc'[t] \in {"clear", "enqueue"}
        BY <2>2, <3>1, <3>5, <4>1 DEF Unlock, flagVars
      <4>. QED  BY <3>3, <4>2 DEF FinishPcs
    <3>6. ASSUME Clear(t) PROVE FinishSet'
      <4>1. FINISH \notin sigs'
        BY <3>1, <3>6 DEF Clear
      <4>. QED  BY <4>1 DEF FinishSet
    <3>7. ASSUME Enqueue(t) PROVE FinishSet'
      <4>1. pc[t] = "enqueue" /\ UNCHANGED <<place, sigs>> /\ pc'[t] \in {"unlock", "push", "decref"}
        BY <2>2, <3>7 DEF Enqueue
      <4>2. queued = {}
        BY <3>2, <4>1, NothingPending
      <4>3. pc'[t] # "decref"
        BY <2>2, <3>7, <4>2 DEF Enqueue, Flags
      <4>. QED  BY <3>3, <4>1, <4>3 DEF FinishPcs
    <3>8. ASSUME Push(t) PROVE FinishSet'
      <4>1. /\ pc[t] = "push" /\ sigs' = sigs /\ pc'[t] = "idle"
            /\ place' = [place EXCEPT ![mine[t]] = QueueOf(TargetClass(t))]
        BY <2>2, <3>8 DEF Push, Return, flagVars
      <4>2. Live = {mine[t]} /\ place[mine[t]] = t /\ \A u \in Threads : u # t => pc[u] = "idle"
        BY <3>2, <4>1
      <4>3. mine[t] \in Refs
        BY <4>2 DEF Live
      <4>4. \A r \in Refs : r # mine[t] => place[r] = "free"
        BY <4>2 DEF Live
      <4>5. place'[mine[t]] \in Queues /\ \A r \in Refs : r # mine[t] => place'[r] = "free"
        BY <2>2, <4>1, <4>3, <4>4, ClassFacts
      <4>6. Live' = {mine[t]}
        BY <4>3, <4>5, ClassFacts DEF Live
      <4>7. \A u \in Threads : pc'[u] = "idle"
        BY <2>1, <4>1, <4>2
      <4>8. Sole'
        BY <4>6 DEF Sole
      <4>9. \A r \in Live' : place'[r] \notin Threads
        BY <4>5, <4>6, ClassFacts
      <4>. QED  BY <3>1, <4>1, <4>7, <4>8, <4>9 DEF FinishSet
    <3>9. ASSUME Taken(t) PROVE FinishSet'
      BY <2>2, <3>3, <3>9 DEF Taken, flagVars, FinishPcs
    <3>10. ASSUME QLock1(t) PROVE FinishSet'
      <4>1. pc[t] = "qlock1" /\ ~freed /\ \A u \in Threads : u # t => pc[u] = "idle"
        BY <1>0, <3>2, <3>10, NotFreed DEF QLock1
      <4>2. ~locked
        BY <1>0, <4>1 DEF LockExclusive, Locking
      <4>3. pc'[t] = "unlock" /\ sigs' = sigs /\ place' = place
        BY <2>2, <3>10, <4>2 DEF QLock1, TryLock
      <4>. QED  BY <3>3, <4>1, <4>3 DEF FinishPcs
    <3>11. ASSUME PopAny(t) PROVE FinishSet'
      <4>1. PICK r \in Refs : Pop(t, r)
        BY <3>11 DEF PopAny
      <4>2. /\ place[r] = ClassOf[t] /\ sigs' = sigs /\ pc'[t] = "taken"
            /\ place' = [place EXCEPT ![r] = t]
        BY <2>2, <4>1 DEF Pop, Call, flagVars
      <4>3. r \in Live
        BY <4>2, ClassFacts DEF Live
      <4>4. \A k \in Refs : k # r => place[k] = "free"
        BY <3>1, <4>3 DEF Sole, Live
      <4>5. place'[r] = t /\ \A k \in Refs : k # r => place'[k] = "free"
        BY <2>2, <4>2, <4>4
      <4>6. Live' = {r}
        BY <4>5, ClassFacts DEF Live
      <4>7. Sole'
        BY <4>6 DEF Sole
      <4>8. \A k \in Live' : place'[k] \in Threads => pc'[place'[k]] # "idle"
        BY <4>2, <4>5, <4>6
      <4>9. \A u \in Threads : pc'[u] \in FinishPcs \cup {"idle"}
        BY <2>1, <3>1, <4>2 DEF FinishPcs
      <4>10. \A u \in Threads : pc'[u] \in {"clear", "enqueue"} => arg'[u] = {FINISH}
        BY <2>1, <3>1, <4>2
      <4>. QED  BY <3>1, <4>2, <4>7, <4>8, <4>9, <4>10 DEF FinishSet
    <3>12. ASSUME \/ Check(t) \/ Lock1(t) \/ OrSignals(t) \/ Lock2(t) \/ QClear(t) \/ QLock2(t)
                  \/ Swap(t) \/ Release(t) \/ Drop(t) \/ ResetRef(t) \/ Finish(t) \/ Exec(t)
                  \/ Result(t) \/ TestRef(t) \/ DDrop(t) \/ DReset(t)
           PROVE  FALSE
      <4>1. pc[t] \notin FinishPcs \cup {"idle"}
        BY <3>12 DEF Check, Lock1, OrSignals, Lock2, QClear, QLock2, Swap, Release, Drop,
                     ResetRef, Finish, Exec, Result, TestRef, DDrop, DReset, FinishPcs
      <4>. QED  BY <3>1, <4>1
    <3>. QED  BY <1>2, <3>4, <3>5, <3>6, <3>7, <3>8, <3>9, <3>10, <3>11, <3>12 DEF Acts, Step
  <2>. QED  BY <2>4, <2>5
<1>. QED  BY <1>1, <1>2 DEF Next, Acts

(* The handler of JS_FINISH starts on a job without other signals, and none*)
(* comes while it runs.                                                    *)
LEMMA FinishRunsStep == IInv /\ [Next]_vars => FinishRuns'
<1>. SUFFICES ASSUME IInv, [Next]_vars PROVE FinishRuns'
  OBVIOUS
<1>0. TypeOK /\ Owns /\ Chosen /\ LastHolder /\ FinishSet /\ FinishRuns
  BY DEF IInv
<1>1. CASE UNCHANGED vars
  BY <1>0, <1>1 DEF vars, FinishRuns
<1>2. ASSUME NEW t \in Threads, Acts(t) PROVE FinishRuns'
  <2>1. SUFFICES ASSUME NEW u \in Threads, pc'[u] = "exec", FINISH \in arg'[u]
                 PROVE  sigs' \cap Allowed = {}
    BY DEF FinishRuns
  <2>2. CASE u # t
    <3>1. pc[u] = "exec" /\ FINISH \in arg[u]
      BY <1>0, <1>2, <2>1, <2>2, OthersKept
    <3>2. Live # {mine[u]}
      BY <1>0, <1>2, <2>2, <3>1, Intruder
    <3>. QED  BY <1>0, <3>1, <3>2 DEF LastHolder
  <2>3. CASE u = t
    <3>1. pc \in [Threads -> {"idle"} \cup Locking \cup Unlocked]
      BY <1>0 DEF TypeOK
    <3>. USE DEF Goto
    <3>2. CASE Clear(t)
      <4>1. arg' = arg /\ pc[t] = "clear" /\ sigs' = sigs \ arg[t]
        BY <3>2 DEF Clear, callVars
      <4>2. PICK s \in Signals : arg[t] = {s} /\ s \in sigs
        BY <1>0, <4>1 DEF Chosen
      <4>3. s = FINISH
        BY <2>1, <2>3, <4>1, <4>2
      <4>4. sigs \cap Allowed = {FINISH}
        BY <1>0, <4>2, <4>3 DEF FinishSet
      <4>. QED  BY <4>1, <4>2, <4>3, <4>4
    <3>3. CASE Use(t)
      <4>1. ASSUME NEW run \in BOOLEAN, Schedule(t, run) PROVE FALSE
        BY <2>1, <2>3, <3>1, <4>1 DEF Schedule
      <4>2. ASSUME NEW r \in Refs, NEW cur \in BOOLEAN, Decref(t, r, cur) PROVE FALSE
        BY <2>1, <2>3, <3>1, <4>2 DEF Decref, Call
      <4>3. ASSUME NEW r \in Refs, NEW cur \in BOOLEAN, NEW s \in Signals, Send(t, r, s, cur)
            PROVE  FALSE
        BY <2>1, <2>3, <3>1, <4>3 DEF Send, Call
      <4>4. ASSUME NEW v \in Threads, NEW r \in Refs, Incref(t, v, r)
            PROVE  pc[t] = "exec" /\ FINISH \in arg[t] /\ sigs' = sigs
        BY <2>1, <2>3, <4>4 DEF Incref, callVars, flagVars
      <4>. QED  BY <1>0, <3>3, <4>1, <4>2, <4>3, <4>4 DEF Use, FinishRuns
    <3>4. CASE PopAny(t)
      BY <2>1, <2>3, <3>1, <3>4 DEF PopAny, Pop, Call
    <3>5. CASE Lock1(t) \/ Lock2(t) \/ QLock1(t) \/ QLock2(t)
      BY <2>1, <2>3, <3>1, <3>5 DEF Lock1, Lock2, QLock1, QLock2, TryLock
    <3>6. CASE \/ Check(t) \/ OrSignals(t) \/ Taken(t) \/ QClear(t) \/ Unlock(t) \/ Swap(t)
               \/ Release(t) \/ ResetRef(t) \/ Finish(t) \/ Result(t) \/ Enqueue(t)
               \/ TestRef(t) \/ DReset(t)
      BY <2>1, <2>3, <3>1, <3>6 DEF Check, OrSignals, Taken, QClear, Unlock, Swap, Release,
         ResetRef, Finish, Result, Enqueue, TestRef, DReset
    <3>7. CASE Drop(t) \/ DDrop(t) \/ Push(t) \/ Exec(t)
      BY <2>1, <2>3, <3>1, <3>7 DEF Drop, DDrop, DropRef, Push, Exec, Return
    <3>. QED  BY <1>2, <3>2, <3>3, <3>4, <3>5, <3>6, <3>7 DEF Acts, Step
  <2>. QED  BY <2>2, <2>3
<1>. QED  BY <1>1, <1>2 DEF Next, Acts

-----------------------------------------------------------------------------
(* The theorems.                                                           *)

(* create_async_job establishes the inductive invariant.                   *)
LEMMA InitHolds == Init => IInv
<1>. SUFFICES ASSUME Init PROVE IInv
  OBVIOUS
<1>1. PICK t0 \in Threads, r0 \in Refs, cur \in BOOLEAN :
         /\ busy = [t \in Threads |-> t = t0 /\ cur]
         /\ place = [r \in Refs |-> IF r = r0 THEN t0 ELSE "free"]
         /\ pc = [t \in Threads |-> IF t = t0 THEN "created" ELSE "idle"]
         /\ mine = [t \in Threads |-> IF t = t0 THEN r0 ELSE NoRef]
  BY DEF Init
<1>2. /\ locked = TRUE /\ queued = {} /\ sigs = {} /\ refcnt = 1 /\ freed = FALSE
      /\ fl = [t \in Threads |-> NoFlags] /\ arg = [t \in Threads |-> {}]
      /\ qf = [t \in Threads |-> {}] /\ sent = 0
  BY DEF Init
<1>3. Live = {r0}
  BY <1>1, ClassFacts DEF Live
<1>4. Cardinality(Live) = 1
  BY <1>3, FS_Singleton
<1>5. TypeOK
  <2>1. busy \in [Threads -> BOOLEAN]
    BY <1>1
  <2>2. fl \in [Threads -> [queued : SUBSET Classes, sigs : SUBSET Signals]]
    BY <1>2 DEF NoFlags
  <2>3. pc \in [Threads -> {"idle"} \cup Locking \cup Unlocked]
    BY <1>1 DEF Locking
  <2>4. place \in [Refs -> {"free"} \cup Threads \cup Queues]
    BY <1>1
  <2>5. mine \in [Threads -> Refs \cup {NoRef}]
    BY <1>1
  <2>. QED  BY <1>2, <2>1, <2>2, <2>3, <2>4, <2>5 DEF TypeOK
<1>6. Owns
  BY <1>1 DEF Owns
<1>7. LockExclusive
  BY <1>1, <1>2 DEF LockExclusive, Locking
<1>8. Counted /\ Gone
  BY <1>1, <1>2, <1>4 DEF Counted, Gone
<1>9. Chosen
  BY <1>1 DEF Chosen
<1>10. QueuedBitHonest /\ NoLostSignal
  BY <1>2 DEF QueuedBitHonest, NoLostSignal
<1>11. LastHolder /\ FinishSet /\ FinishRuns
  BY <1>1, <1>2 DEF LastHolder, FinishSet, FinishRuns
<1>. QED  BY <1>5, <1>6, <1>7, <1>8, <1>9, <1>10, <1>11 DEF IInv

(* Every step of every thread preserves the inductive invariant.           *)
LEMMA StepHolds == IInv /\ [Next]_vars => IInv'
BY TypeStep, RefStep, LockStep, ChosenStep, QueuedStep, LostStep, LastHolderStep,
   FinishSetStep, FinishRunsStep DEF IInv

LEMMA Inductive == Spec => []IInv
BY InitHolds, StepHolds, PTL DEF Spec

(* The invariant implies that the counter counts.                          *)
LEMMA CountExact == IInv => RefsCounted
<1>. SUFFICES ASSUME IInv PROVE RefsCounted
  OBVIOUS
<1>0. TypeOK /\ Owns /\ Counted /\ Gone
  BY DEF IInv
<1>1. CASE freed
  BY <1>0, <1>1 DEF RefsCounted, Gone
<1>2. CASE ~freed /\ Zeroed = {}
  <2>1. Cardinality(Zeroed) = 0
    BY <1>2, FS_EmptySet
  <2>2. refcnt = Cardinality(Live)
    BY <1>0, <1>2 DEF Counted, Zeroed
  <2>3. refcnt \in Nat
    BY <1>0 DEF TypeOK
  <2>. QED  BY <1>2, <2>1, <2>2, <2>3 DEF RefsCounted
<1>3. CASE ~freed /\ Zeroed # {}
  <2>1. PICK t \in Threads : pc[t] \in {"reset", "dreset"}
    BY <1>3 DEF Zeroed
  <2>2. refcnt = 0 /\ Cardinality(Live) = 1
    BY <1>0, <1>3, <2>1 DEF Counted
  <2>3. IsFiniteSet(Live) /\ mine[t] \in Live
    BY <1>0, <2>1, OwnFacts, JobAssumption, FS_Subset DEF Live
  <2>4. Live = {mine[t]}
    BY <2>2, <2>3, FS_Singleton
  <2>5. Zeroed = {t}
    BY <1>0, <2>1, <2>4, AloneInCall DEF Zeroed
  <2>6. Cardinality(Zeroed) = 1
    BY <2>5, FS_Singleton
  <2>. QED  BY <1>3, <2>2, <2>6 DEF RefsCounted
<1>. QED  BY <1>1, <1>2, <1>3

(* Type correctness of the job, its queues and its threads.                *)
THEOREM TypeCorrect == Spec => []TypeOK
<1>1. IInv => TypeOK
  BY DEF IInv
<1>. QED  BY <1>1, Inductive, PTL

(* try_lock_job and unlock_job are a mutual exclusion for any number of    *)
(* threads and classes.                                                    *)
THEOREM Exclusion == Spec => []LockExclusive
<1>1. IInv => LockExclusive
  BY DEF IInv
<1>. QED  BY <1>1, Inductive, PTL

(* j_refcnt counts the references, the reset to 1 included.                *)
THEOREM CountedRight == Spec => []RefsCounted
<1>. QED  BY CountExact, Inductive, PTL

(* A queued bit is never stale.                                            *)
THEOREM BitsHonest == Spec => []QueuedBitHonest
<1>1. IInv => QueuedBitHonest
  BY DEF IInv
<1>. QED  BY <1>1, Inductive, PTL

(* job_send_signals and unlock_job never lose a signal between them.       *)
THEOREM NothingLost == Spec => []NoLostSignal
<1>1. IInv => NoLostSignal
  BY DEF IInv
<1>. QED  BY <1>1, Inductive, PTL

(* JS_FINISH is the last thing that happens to a job, however its last     *)
(* references are dropped.                                                 *)
THEOREM FinishIsLast == Spec => []FinishLast
<1>1. IInv => FinishLast
  BY DEF IInv, LastHolder, FinishRuns, FinishLast
<1>. QED  BY <1>1, Inductive, PTL

-----------------------------------------------------------------------------
(* Jobs and the queue they are handed over in.                             *)

(* Types; the lock of a job excludes and its queued bits are honest; a     *)
(* consumer finds what was pushed, and nobody is in a block that was freed:*)
(* the assertions of jobs.c and mp-queue.c, for any threads.               *)
THEOREM JobsCorrect == JobsSpec => []JobsInv
<1>1. JobsInit => Init /\ QueueInit
  BY DEF JobsInit
<1>2. [JobsNext]_jobsVars => [Next]_vars
  BY DEF JobsNext, jobsVars
<1>3. [JobsNext]_jobsVars => [QueueNext]_queueVars
  BY DEF JobsNext, jobsVars, Pushes, Pops, QueueNext
<1>4. IInv => TypeOK /\ LockExclusive /\ QueuedBitHonest
  BY DEF IInv
<1>5. QInv => QueueTypeOK /\ PopFinds /\ NoFreedBlock
  BY TypesOfQueue, ListSafe DEF QInv
<1>6. IInv /\ QInv => JobsInv
  BY <1>4, <1>5 DEF JobsInv
<1>. QED
  BY <1>1, <1>2, <1>3, <1>6, InitHolds, StepHolds, InitQInv, StepQInv, PTL DEF JobsSpec
=============================================================================
