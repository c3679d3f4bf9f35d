---------------------------- MODULE ReplayCache ----------------------------
(***************************************************************************)
(* The cache of client randoms of net/net-tcp-rpc-ext-server.c, which keeps*)
(* a ClientHello from being accepted twice: a list by time, hash chains,   *)
(* the eviction of old entries and the test of the client's timestamp.     *)
(*                                                                         *)
(* One thread serves the class of the connections (its default number), so *)
(* calls do not overlap; the loop of delete_old_client_randoms is one      *)
(* iteration per action, so that its assertion is a state.  The clock does *)
(* not go back.  A ClientHello carries its timestamp xored into the hash,  *)
(* so that the same client random always has the same timestamp.           *)
(***************************************************************************)
EXTENDS Integers, Sequences

CONSTANTS
    Randoms,      \* client randoms
    Buckets,      \* hash buckets
    BucketOf,     \* get_client_random_bucket
    CacheTime,    \* MAX_CLIENT_RANDOM_CACHE_TIME
    StampError,   \* MAX_ALLOWED_TIMESTAMP_ERROR
    Slack,        \* the 3 seconds a client may be ahead
    LastTime,      \* bound: the last value of the clock
    MaxAdds       \* bound: entries added to the cache

(* Of the numbers only this is needed: an entry lives longer than a request *)
(* stays recent (172800 against 600 + 3).                                  *)
ASSUME ReplayAssumption ==
    /\ Randoms # {}
    /\ BucketOf \in [Randoms -> Buckets]
    /\ CacheTime \in Nat /\ StampError \in Nat /\ Slack \in Nat
    /\ StampError + Slack <= CacheTime
    /\ LastTime \in Nat
    /\ MaxAdds \in Nat

RandomEntry == [random : Randoms, time : Int]

VARIABLES
    now,        \* the thread's clock
    stamp,      \* the timestamp in the ClientHello with a client random
    byTime,     \* first_client_random .. last_client_random
    chain,      \* client_randoms: a chain of entries per bucket, newest first
    pc,         \* where the thread is in the handling of a ClientHello
    cur,        \* the client random being handled
    accepted,   \* history: ClientHellos accepted, by client random
    adds        \* entries added so far

replayVars == <<now, stamp, byTime, chain, pc, cur, accepted, adds>>

\* The type invariant.
ReplayTypeOK ==
    /\ now \in Int
    /\ stamp \in [Randoms -> Int]
    /\ byTime \in Seq(RandomEntry)
    /\ chain \in [Buckets -> Seq(RandomEntry)]
    /\ pc \in {"idle", "evict", "check"}
    /\ cur \in Randoms
    /\ accepted \in [Randoms -> Nat]
    /\ adds \in Nat

-----------------------------------------------------------------------------

ReplayInit ==
    /\ now = 0
    /\ stamp \in [Randoms -> - StampError .. LastTime + Slack]
    /\ byTime = <<>>
    /\ chain = [b \in Buckets |-> <<>>]
    /\ pc = "idle"
    /\ cur = CHOOSE r \in Randoms : TRUE
    /\ accepted = [r \in Randoms |-> 0]
    /\ adds = 0

\* have_client_random
HaveClientRandom(r) ==
    \E i \in DOMAIN chain[BucketOf[r]] : chain[BucketOf[r]][i].random = r

\* add_client_random
AddClientRandom(r) ==
    LET e == [random |-> r, time |-> now] IN
    /\ byTime' = Append(byTime, e)
    /\ chain' = [chain EXCEPT ![BucketOf[r]] = <<e>> \o @]

\* A ClientHello comes in; one whose client random is cached is refused.
Hello(r) ==
    /\ pc = "idle"
    /\ \/ HaveClientRandom(r) /\ UNCHANGED <<byTime, chain, pc, cur, adds>>
       \/ /\ ~HaveClientRandom(r)
          /\ adds < MaxAdds
          /\ adds' = adds + 1
          /\ AddClientRandom(r)
          /\ pc' = "evict"
          /\ cur' = r
    /\ UNCHANGED <<now, stamp, accepted>>

\* The oldest entry may go: it is not the only one, and it is old.
MustEvict == Len(byTime) > 1 /\ byTime[1].time <= now - CacheTime

\* The place of an entry in its chain.
PlaceOf(q, e) == CHOOSE i \in DOMAIN q : q[i] = e

(* One iteration of delete_old_client_randoms: the first entry is taken off *)
(* the list, and its chain is cut where it stood.                          *)
Evict ==
    LET e == byTime[1]
        b == BucketOf[e.random]
    IN  /\ pc = "evict"
        /\ MustEvict
        /\ byTime' = Tail(byTime)
        /\ chain' = [chain EXCEPT ![b] = SubSeq(@, 1, PlaceOf(@, e) - 1)]
        /\ UNCHANGED <<now, stamp, pc, cur, accepted, adds>>

EvictDone ==
    /\ pc = "evict"
    /\ ~MustEvict
    /\ pc' = "check"
    /\ UNCHANGED <<now, stamp, byTime, chain, cur, accepted, adds>>

\* Mutant of IsAllowedTimestamp: the slack is taken off the oldest entry's time.
AllowsOlder(ts) ==
    /\ ts <= now + Slack
    /\ ts > byTime[1].time - Slack \/ ts > now - StampError

\* is_allowed_timestamp; the list has at least the entry just added.
IsAllowedTimestamp(ts) ==
    /\ ts <= now + Slack
    /\ ts > byTime[1].time + Slack \/ ts > now - StampError

\* The ClientHello is accepted if its hash fits an active secret (matched)
\* and its timestamp is allowed; it is refused otherwise.
CheckHello(matched) ==
    /\ pc = "check"
    /\ pc' = "idle"
    /\ accepted' = IF matched /\ IsAllowedTimestamp(stamp[cur])
                   THEN [accepted EXCEPT ![cur] = @ + 1] ELSE accepted
    /\ UNCHANGED <<now, stamp, byTime, chain, cur, adds>>

ReplayTick ==
    /\ pc = "idle"
    /\ now < LastTime
    /\ now' = now + 1
    /\ UNCHANGED <<stamp, byTime, chain, pc, cur, accepted, adds>>

ReplayNext ==
    \/ \E r \in Randoms : Hello(r)
    \/ Evict \/ EvictDone
    \/ \E matched \in BOOLEAN : CheckHello(matched)
    \/ ReplayTick

ReplaySpec == ReplayInit /\ [][ReplayNext]_replayVars

-----------------------------------------------------------------------------
(* Properties.                                                             *)

(* No ClientHello is accepted twice, although its client random is cached  *)
(* for a limited time: when the entry is gone, is_allowed_timestamp refuses*)
(* the timestamp, as its comment argues from the time of the oldest entry. *)
AcceptedOnce == \A r \in Randoms : accepted[r] <= 1

(* The assertion of delete_old_client_randoms, that the oldest entry is the*)
(* last of its chain, holds whenever the loop reaches it; without it, the  *)
(* cut would drop younger client randoms of the bucket.                    *)
OldestEndsChain ==
    pc = "evict" /\ MustEvict =>
      LET q == chain[BucketOf[byTime[1].random]] IN q # <<>> /\ q[Len(q)] = byTime[1]
=============================================================================
