---------------------------- MODULE MCHandshake ----------------------------
(* The door of the proxy: the handshake against the secret store, and, as  *)
(* a component of its own, the cache of client randoms (three of them, in  *)
(* two buckets, seconds scaled down so that eviction and every branch of   *)
(* the timestamp test happen).  A behaviour is one of the two.             *)
EXTENDS ExtHandshake, ReplayCache

CONSTANTS s1, s2, ra, rb, rc

VARIABLE part

doorVars == <<vars, replayVars, part>>

MCBootstrap == <<s1>>
MCCaps      == {2, 4, 8}
MCBucketOf  == [r \in Randoms |-> IF r = rc THEN 2 ELSE 1]

DoorInit ==
    /\ part \in {"handshake", "replay"}
    /\ Init /\ (part = "replay" => ~allowOnlyTls)
    /\ ReplayInit /\ (part = "handshake" => stamp = [r \in Randoms |-> 0])

DoorNext ==
    /\ \/ part = "handshake" /\ Next /\ UNCHANGED replayVars
       \/ part = "replay" /\ ReplayNext /\ UNCHANGED vars
    /\ UNCHANGED part

DoorSpec == DoorInit /\ [][DoorNext]_doorVars

(* The assertion of delete_old_client_randoms holds, and traffic is charged *)
(* to a secret only under the id it was matched with.                      *)
DoorInv == TypeOK /\ ReplayTypeOK /\ OldestEndsChain /\ NoStrayCharge
=============================================================================
