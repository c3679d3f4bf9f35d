---------------------------- MODULE DomainProbe -----------------------------
(***************************************************************************)
(* tcp_rpc_init_proxy_domains and update_domain_info of                    *)
(* net/net-tcp-rpc-ext-server.c, for one domain: TRIES connections to the  *)
(* real server under one select loop, a TLS 1.3 ServerHello read from each *)
(* as it comes, and what the proxy will imitate computed from all of them, *)
(* or the defaults when anything went wrong.                               *)
(*                                                                         *)
(* A response is four pieces: the header of the first record, the rest of  *)
(* the ServerHello, the two bytes that give the length of the encrypted    *)
(* data, and those data.  Its sizes are numbers of a small set.            *)
(***************************************************************************)
EXTENDS Integers, FiniteSets, FiniteSetsExt

CONSTANTS
    Tries,         \* the connections
    HelloSizes,    \* lengths of encrypted data servers answer with
    DefaultSizes   \* 2500 .. 3619

ASSUME ProbeAssumption ==
    /\ IsFiniteSet(Tries) /\ Tries # {}
    /\ HelloSizes \subseteq Nat \ {0} /\ DefaultSizes \subseteq Nat

VARIABLES
    answer,    \* what the server has answered each try with
    probe,     \* per try: is_written, read_pos, the length known, is_finished
    stat,      \* finished_count, min, max and sum of sizes, min and max of order
    error,     \* have_error
    domain     \* struct domain_info; pc of the check

probeVars == <<answer, probe, stat, error, domain>>

\* check_response: the ServerHello is of TLS 1.3 with the two extensions, the
\* mirrored session id and the cipher that the proxy imitates.
Answers == [good : BOOLEAN, size : HelloSizes, reversed : {0, 1}]
NoAnswer == [good |-> FALSE, size |-> 0, reversed |-> 0]

NoStat == [finished |-> 0, min |-> 0, max |-> 0, sum |-> 0, rmin |-> 0, rmax |-> 0]

Probing == domain.pc = "select" /\ ~error /\ stat.finished < Cardinality(Tries)

ProbeInit ==
    /\ answer = [i \in Tries |-> NoAnswer]
    /\ probe = [i \in Tries |-> [written |-> FALSE, pos |-> 0, len |-> 3, finished |-> FALSE]]
    /\ stat = NoStat
    /\ error = FALSE
    /\ domain = [pc |-> "start", size |-> 0, random |-> FALSE, reversed |-> 0]

\* The domain resolves and all sockets are opened, or the check ends at once.
ProbeStart ==
    /\ domain.pc = "start"
    /\ \E pc \in {"select", "default"} : domain' = [domain EXCEPT !.pc = pc]
    /\ UNCHANGED <<answer, probe, stat, error>>

\* The connection is made and the request is written at once, or not whole.
ProbeWrite(i) ==
    /\ Probing /\ ~probe[i].written
    /\ \E whole \in BOOLEAN :
         /\ probe' = [probe EXCEPT ![i].written = whole]
         /\ error' = ~whole
    /\ UNCHANGED <<answer, stat, domain>>

\* Mutant of Count: the first answer is not told from the others.
CountUnset(st, a) ==
    [finished |-> st.finished + 1,
     min |-> Min({st.min, a.size}), max |-> Max({st.max, a.size}),
     sum |-> st.sum + a.size,
     rmin |-> Min({st.rmin, a.reversed}), rmax |-> Max({st.rmax, a.reversed})]

\* A checked answer is counted.
Count(st, a) ==
    [finished |-> st.finished + 1,
     min |-> IF st.finished = 0 THEN a.size ELSE Min({st.min, a.size}),
     max |-> IF st.finished = 0 THEN a.size ELSE Max({st.max, a.size}),
     sum |-> st.sum + a.size,
     rmin |-> IF st.finished = 0 THEN a.reversed ELSE Min({st.rmin, a.reversed}),
     rmax |-> IF st.finished = 0 THEN a.reversed ELSE Max({st.rmax, a.reversed})]

\* The header: it has to come whole, and be one of TLS 1.2 or later.
ReadHeader(i) ==
    /\ Probing /\ probe[i].written /\ probe[i].pos = 0
    /\ \E whole \in BOOLEAN :
         /\ error' = ~whole
         /\ probe' = [probe EXCEPT ![i].pos = IF whole THEN 1 ELSE 0]
    /\ UNCHANGED <<answer, stat, domain>>

\* The rest, as far as it has come and not beyond the length known; at the end
\* of the first part the length grows by the encrypted data, at the end of all
\* the answer is checked.  A server that stops sending, or closes, makes no such
\* step: a read of nothing changes nothing, until the time is over.
ReadBody(i) ==
    /\ Probing /\ probe[i].pos > 0 /\ ~probe[i].finished
    /\ \E n \in probe[i].pos + 1 .. probe[i].len :
         LET p == [probe[i] EXCEPT !.pos = n]
         IN  CASE n = 3 /\ p.len = 3 ->
                    /\ probe' = [probe EXCEPT ![i] = [p EXCEPT !.len = 4]]
                    /\ UNCHANGED <<answer, stat, error>>
               [] n = 4 -> \E a \in Answers :
                    /\ answer' = [answer EXCEPT ![i] = a]
                    /\ probe' = [probe EXCEPT ![i] = [p EXCEPT !.finished = a.good]]
                    /\ stat' = IF a.good THEN Count(stat, a) ELSE stat
                    /\ error' = ~a.good
               [] OTHER ->
                    /\ probe' = [probe EXCEPT ![i] = p]
                    /\ UNCHANGED <<answer, stat, error>>
    /\ UNCHANGED domain

\* select reports an exceptional condition, or was interrupted and left the sets
\* as they were.
ProbeFails(i) ==
    /\ Probing /\ ~probe[i].finished
    /\ error' = TRUE
    /\ UNCHANGED <<answer, probe, stat, domain>>

Deadline ==
    /\ Probing
    /\ domain' = [domain EXCEPT !.pc = "over"]
    /\ UNCHANGED <<answer, probe, stat, error>>

LoopEnds ==
    /\ domain.pc = "select" /\ ~Probing
    /\ domain' = [domain EXCEPT !.pc = "over"]
    /\ UNCHANGED <<answer, probe, stat, error>>

Half == Cardinality(Tries) \div 2

\* What update_domain_info makes of the counts.
ProbeVerdict ==
    /\ domain.pc = "over"
    /\ domain' =
         IF stat.finished # Cardinality(Tries) THEN [domain EXCEPT !.pc = "default"]
         ELSE [pc |-> "known", reversed |-> stat.rmin,
               random |-> stat.min # stat.max,
               size |-> IF stat.min = stat.max THEN stat.min
                        ELSE IF stat.max - stat.min <= 3 THEN stat.max - 1
                        ELSE (stat.sum + Half) \div Cardinality(Tries)]
    /\ UNCHANGED <<answer, probe, stat, error>>

\* tcp_rpc_init_proxy_domains after a failed check.
ProbeDefault ==
    /\ domain.pc = "default"
    /\ \E s \in DefaultSizes :
         domain' = [pc |-> "guessed", size |-> s, random |-> TRUE, reversed |-> 0]
    /\ UNCHANGED <<answer, probe, stat, error>>

ProbeNext ==
    \/ ProbeStart \/ Deadline \/ LoopEnds \/ ProbeVerdict \/ ProbeDefault
    \/ \E i \in Tries : \/ ProbeWrite(i) \/ ReadHeader(i) \/ ReadBody(i)
                        \/ ProbeFails(i)

ProbeSpec == ProbeInit /\ [][ProbeNext]_probeVars

\* get_domain_server_hello_encrypted_size: the sizes the proxy will answer with.
EmulatedSizes == IF domain.random THEN domain.size - 1 .. domain.size + 1 ELSE {domain.size}

-----------------------------------------------------------------------------
(* Properties.                                                             *)

\* The type invariant of the model.
ProbeTypeOK ==
    /\ domain.pc \in {"start", "select", "over", "default", "known", "guessed"}
    /\ \A i \in Tries : probe[i].pos \in 0 .. 4 /\ probe[i].len \in {3, 4}
    /\ stat.finished = Cardinality({i \in Tries : probe[i].finished})

\* What the proxy imitates is a function of all the answers, whatever the order
\* in which they come in and however they are cut: it imitates a server only if
\* every try was answered well; one size if they all had it, and otherwise sizes
\* that are at most one byte off what was seen, with the largest among them when
\* they are close together.
ProbeExact ==
    domain.pc = "known" =>
      LET sizes == {answer[i].size : i \in Tries}
      IN  /\ \A i \in Tries : answer[i].good
          /\ domain.reversed = Min({answer[i].reversed : i \in Tries})
          /\ Cardinality(sizes) = 1 => EmulatedSizes = sizes
          /\ \A s \in EmulatedSizes : s >= Min(sizes) - 1 /\ s <= Max(sizes) + 1
          /\ Max(sizes) - Min(sizes) <= 3 => Max(sizes) \in EmulatedSizes
=============================================================================
