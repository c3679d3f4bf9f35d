----------------------------- MODULE ConnStream -----------------------------
(***************************************************************************)
(* What a connection promises to the code above it and to its peer: two    *)
(* streams, one in each direction, each of which delivers a prefix of what *)
(* was put in, in order and once, for as long as the descriptor is open;   *)
(* and a descriptor that is closed once, after the connection has failed,  *)
(* and stays closed.  ConnSocket is shown to implement it.                 *)
(***************************************************************************)
EXTENDS Naturals, Sequences

VARIABLES
    put,      \* per direction: number of messages put in; they are 1, 2, ...
    got,      \* per direction: the messages that came out
    failed,   \* the connection has failed
    open      \* the descriptor is open

Directions == {"out", "in"}

Upto(n) == [i \in 1 .. n |-> i]

Init ==
    /\ put = [d \in Directions |-> 0]
    /\ got = [d \in Directions |-> <<>>]
    /\ failed = FALSE
    /\ open = TRUE

Put(d) ==
    /\ put' = [put EXCEPT ![d] = @ + 1]
    /\ UNCHANGED <<got, failed, open>>

\* Any number of the next messages come out at once.
Deliver(d) ==
    /\ open
    /\ \E n \in Len(got[d]) + 1 .. put[d] : got' = [got EXCEPT ![d] = Upto(n)]
    /\ UNCHANGED <<put, failed, open>>

Fail  == failed' = TRUE /\ UNCHANGED <<put, got, open>>
Close == failed /\ open /\ open' = FALSE /\ UNCHANGED <<put, got, failed>>

Next == \/ \E d \in Directions : Put(d) \/ Deliver(d)
        \/ Fail
        \/ Close

Spec == Init /\ [][Next]_<<put, got, failed, open>>
=============================================================================
