---------------------------- MODULE Listener ----------------------------
(***************************************************************************)
(* The listening sockets and the limit on client connections (option -C of *)
(* the proxy, special connections in the code).  The main thread accepts;  *)
(* when the limit is reached it takes the listening socket it accepts from *)
(* out of the epoll set.  Connections are closed by other threads; the one *)
(* that brings the number back below the limit signals the job of every    *)
(* listening socket, which puts it back.  epoll is edge-triggered: a       *)
(* client is announced when it arrives, or when the socket is put back.    *)
(***************************************************************************)
EXTENDS Naturals

CONSTANTS ListenFds,   \* the listening sockets
          Closers,     \* the threads that close connections
          MaxSpecial,  \* max_special_connections
          MaxArrivals, \* bound, of each socket: the clients that arrive
          MaxFailures  \* bound: calls of accept that fail

ASSUME LimitAssumption == MaxSpecial \in Nat \ {0}

VARIABLES lsock,   \* of each socket: the clients that wait to be accepted, is it in
                   \* the epoll set, is there an edge, its job's signals, the clients
                   \* still to come, has accept failed since the last edge
          acc,     \* the main thread: where it is in net_accept_new_connections
          special,  \* active_special_connections
          closer,  \* of each thread: the sockets it has yet to signal
          failures \* calls of accept left to fail

listenVars == <<lsock, acc, special, closer, failures>>

ListenTypeOK ==
  /\ lsock \in [ListenFds -> [backlog: Nat, inEpoll: BOOLEAN, edge: BOOLEAN, run: BOOLEAN,
                              aux: BOOLEAN, toCome: Nat, failed: BOOLEAN]]
  /\ acc \in [pc: {"idle", "loop", "check"}, fd: ListenFds]
  /\ special \in Nat /\ failures \in 0 .. MaxFailures
  /\ closer \in [Closers -> SUBSET ListenFds]

\* init_listening_connection_ext
ListenInit ==
  /\ lsock = [l \in ListenFds |-> [backlog |-> 0, inEpoll |-> TRUE, edge |-> FALSE,
                                   run |-> FALSE, aux |-> FALSE, toCome |-> MaxArrivals[l],
                                   failed |-> FALSE]]
  /\ acc \in [pc: {"idle"}, fd: ListenFds]
  /\ special = 0 /\ failures = MaxFailures
  /\ closer = [u \in Closers |-> {}]

ClientArrives(l) ==
  /\ lsock[l].toCome > 0
  /\ lsock' = [lsock EXCEPT ![l].toCome = @ - 1, ![l].backlog = @ + 1,
                            ![l].edge = lsock[l].inEpoll]
  /\ UNCHANGED <<acc, special, closer, failures>>

----------------------------------------------------------------------------
(* The main thread.                                                        *)

MainIdle == acc.pc = "idle"

\* The gateway of the event loop: JS_RUN to the job of the socket.
EdgeSeen(l) ==
  /\ MainIdle /\ lsock[l].edge
  /\ lsock' = [lsock EXCEPT ![l].edge = FALSE, ![l].run = TRUE]
  /\ UNCHANGED <<acc, special, closer, failures>>

\* JS_RUN: net_accept_new_connections.
AcceptBegins(l) ==
  /\ MainIdle /\ lsock[l].run
  /\ lsock' = [lsock EXCEPT ![l].run = FALSE, ![l].failed = FALSE]
  /\ acc' = [pc |-> "loop", fd |-> l]
  /\ UNCHANGED <<special, closer, failures>>

\* The socket has left the epoll set, or accept says EAGAIN.
AcceptEnds ==
  /\ acc.pc = "loop"
  /\ ~lsock[acc.fd].inEpoll \/ lsock[acc.fd].backlog = 0
  /\ acc' = [acc EXCEPT !.pc = "idle"]
  /\ UNCHANGED <<lsock, special, closer, failures>>

MayAccept == acc.pc = "loop" /\ lsock[acc.fd].inEpoll /\ lsock[acc.fd].backlog > 0

\* accept fails for another reason (no descriptor left): the loop ends too.
AcceptFails ==
  /\ MayAccept /\ failures > 0
  /\ failures' = failures - 1
  /\ lsock' = [lsock EXCEPT ![acc.fd].failed = TRUE]
  /\ acc' = [acc EXCEPT !.pc = "idle"]
  /\ UNCHANGED <<special, closer>>

\* A connection over the rate limit, or that cannot be set up, is closed.
AcceptRefuses ==
  /\ MayAccept
  /\ lsock' = [lsock EXCEPT ![acc.fd].backlog = @ - 1]
  /\ UNCHANGED <<acc, special, closer, failures>>

\* alloc_new_connection counts the connection ...
AcceptCounts ==
  /\ MayAccept
  /\ lsock' = [lsock EXCEPT ![acc.fd].backlog = @ - 1]
  /\ special' = special + 1
  /\ acc' = [acc EXCEPT !.pc = "check"]
  /\ UNCHANGED <<closer, failures>>

\* ... and looks at the number again.
LimitReached == special >= MaxSpecial

AcceptChecks ==
  /\ acc.pc = "check"
  /\ lsock' = IF LimitReached
              THEN [lsock EXCEPT ![acc.fd].inEpoll = FALSE, ![acc.fd].edge = FALSE]
              ELSE lsock
  /\ acc' = [acc EXCEPT !.pc = "loop"]
  /\ UNCHANGED <<special, closer, failures>>

\* JS_AUX: epoll_insert, which announces the clients that wait already.
ListenAux(l) ==
  /\ MainIdle /\ lsock[l].aux
  /\ lsock' = [lsock EXCEPT ![l].aux = FALSE, ![l].inEpoll = TRUE,
                            ![l].edge = @ \/ (~lsock[l].inEpoll /\ lsock[l].backlog > 0)]
  /\ UNCHANGED <<acc, special, closer, failures>>

----------------------------------------------------------------------------
(* cpu_server_close_connection in thread u.                                *)

\* Mutant of CloseConnection: the listening sockets are signalled one too early.
CloseOneOff(u) ==
  /\ special > 0 /\ closer[u] = {}
  /\ special' = special - 1
  /\ closer' = [closer EXCEPT ![u] = IF special = MaxSpecial + 1 THEN ListenFds ELSE {}]
  /\ UNCHANGED <<lsock, acc, failures>>

\* The thread that takes the number from the limit signals every socket.
CloseConnection(u) ==
  /\ special > 0 /\ closer[u] = {}
  /\ special' = special - 1
  /\ closer' = [closer EXCEPT ![u] = IF special = MaxSpecial THEN ListenFds ELSE {}]
  /\ UNCHANGED <<lsock, acc, failures>>

CloseSignals(u) ==
  \E l \in closer[u] :
    /\ lsock' = [lsock EXCEPT ![l].aux = TRUE]
    /\ closer' = [closer EXCEPT ![u] = @ \ {l}]
    /\ UNCHANGED <<acc, special, failures>>

AcceptStep ==
  \/ AcceptEnds \/ AcceptRefuses \/ AcceptCounts \/ AcceptChecks
  \/ \E l \in ListenFds : EdgeSeen(l) \/ AcceptBegins(l) \/ ListenAux(l)

ListenNext ==
  \/ AcceptStep \/ AcceptFails
  \/ \E l \in ListenFds : ClientArrives(l)
  \/ \E u \in Closers : CloseConnection(u) \/ CloseSignals(u)

\* The main thread does not stop while there is something to do; every connection
\* ends some time, and a thread that has begun to signal does not stop.
ListenFair ==
  /\ WF_listenVars(AcceptStep)
  /\ \A u \in Closers : WF_listenVars(CloseConnection(u)) /\ WF_listenVars(CloseSignals(u))

ListenSpec == ListenInit /\ [][ListenNext]_listenVars

----------------------------------------------------------------------------
(* Properties.                                                             *)

\* A client that waits is served (or refused): whichever way the number of
\* connections falls back under the limit while sockets are being taken out,
\* every socket comes back and hears of the clients that arrived meanwhile.
\* Only after accept itself has failed may they wait for the next arrival.
ClientsAccepted == []<>(\A l \in ListenFds : lsock[l].backlog = 0 \/ lsock[l].failed)

=============================================================================
