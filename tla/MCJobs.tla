------------------------------- MODULE MCJobs -------------------------------
(* Threads that hand work to each other: one job with a main thread and a  *)
(* CPU thread (RUN for the CPU class, ABORT for a class that main serves), *)
(* and the queue in which jobs and messages are handed over.  The two      *)
(* models share no state, and a behaviour of this instance is one of the   *)
(* first or one of the second.                                             *)
EXTENDS AsyncJob, MpQueue, TLC

CONSTANTS m, p, r1, r2, r3, p1, p2, c1, c2

VARIABLE part

jobsVars == <<vars, queueVars, part>>

MCClassOf == [t \in Threads |-> IF t = m THEN "main" ELSE "cpu"]

\* JC_CPU for RUN, JC_ENGINE (no threads of its own) for ABORT.
MCSigClass == [s \in Signals |-> CASE s = 0 -> "cpu" [] s = 5 -> "engine"
                                   [] OTHER -> "none"]

MCScript == (p1 :> <<1, 2, 3>>) @@ (p2 :> <<4>>)

\* The references are interchangeable: r1 is the creator's.
JobsInit ==
    /\ part \in {"job", "queue", "crowd"}
    /\ Init /\ place[r1] # "free"
    /\ part # "job" => place[r1] = m /\ ~busy[m]
    /\ QueueInit

\* What a thread of the queue does: two producers and one consumer, or one
\* producer with more values and two consumers.
Pushes(t) == /\ \/ part = "queue" /\ th[t].done < 2
                \/ part = "crowd" /\ t = p1
             /\ PushStep(t)
Pops(t)   == /\ \/ part = "queue" /\ t = c1
                \/ part = "crowd"
             /\ PopStep(t)

JobsNext ==
    /\ \/ part = "job" /\ Next /\ UNCHANGED queueVars
       \/ /\ \/ \E t \in Producers : Pushes(t)
             \/ \E t \in Consumers : Pops(t)
          /\ UNCHANGED vars
    /\ UNCHANGED part

\* Fairness and QueueFair, each for its own part.
JobsFair ==
    /\ \A t \in Threads :
         /\ WF_vars(part = "job" /\ Step(t))
         /\ WF_vars(part = "job" /\ \E run \in BOOLEAN : Schedule(t, run))
         /\ SF_vars(part = "job" /\ PopAny(t))
    /\ \A t \in Producers : WF_queueVars(Pushes(t))
    /\ \A t \in Consumers : WF_queueVars(Pops(t))

JobsSpec == JobsInit /\ [][JobsNext]_jobsVars /\ JobsFair

(* The type invariants, and what the assertions of the queue say of a pop  *)
(* and of the blocks that threads have protected.                          *)
JobsInv == TypeOK /\ QueueTypeOK /\ LockExclusive /\ QueuedBitHonest
           /\ PopFinds /\ NoFreedBlock
=============================================================================
