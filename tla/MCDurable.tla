----------------------------- MODULE MCDurable -----------------------------
(* The state file over restarts, in three scenes of one run.  In "store"   *)
(* the commands change secrets, ids and expiry times and the counters stay *)
(* at zero; in "count" a connection attaches secrets and carries traffic,  *)
(* never disabled, and in "faults" allocations fail and writes are cut     *)
(* short, each within smaller bounds on ids and restarts, at one second.   *)
EXTENDS ExtHandshake, Functions

CONSTANTS s1, s2, CountIds, CountCrashes, FaultIds, FaultCrashes

VARIABLE scene

durableVars == <<vars, scene>>

MCBootstrap == <<s1>>
MCLegacy    == {<<s2, s1>>}
MCCaps      == {2, 4, 8}

Faulty == INSTANCE SecretStore WITH MayOOM <- TRUE, ShortWrites <- TRUE

DurableInit ==
    /\ Init
    /\ scene \in {"store", "count", "faults"}
    /\ scene = "count" => file = NoFile

StoreScene ==
    /\ scene = "store"
    /\ StoreNext
    /\ UNCHANGED <<allowOnlyTls, conn, dead>>

CountScene ==
    /\ scene = "count"
    /\ Next
    /\ clock' = 0 /\ crashes' <= CountCrashes /\ nextId' <= CountIds + 1
    /\ \A i \in DOMAIN store' : store'[i].expires = 0 /\ store'[i].enabled

FaultScene ==
    /\ scene = "faults"
    /\ Faulty!StoreNext
    /\ clock' = 0 /\ crashes' <= FaultCrashes /\ nextId' <= FaultIds + 1
    /\ UNCHANGED <<allowOnlyTls, conn, dead>>

DurableNext == (StoreScene \/ CountScene \/ FaultScene) /\ UNCHANGED scene

DurableSpec == DurableInit /\ [][DurableNext]_durableVars

(* The totals are the sums of the counters.  The two are updated apart (the *)
(* total after the unlock, or by a second atomic add), and rebuilt at each *)
(* start from the entries alone; when every attachment under way has added *)
(* its one, nothing is counted twice or lost, removed secrets included.    *)
TotalsMatch ==
    phase = "run" =>
      /\ totalConns + inflight = FoldFunction(LAMBDA m, a : m.conns + a, 0, metrics)
      /\ totalBytes = FoldFunction(LAMBDA m, a : m.bytes + a, 0, metrics)
=============================================================================
