----------------------------- MODULE ExtForward -----------------------------
(***************************************************************************)
(* The forwarding core of the proxy: the ext_connection table of           *)
(* mtproto/mtproto-proxy.c, which ties a client connection to the          *)
(* middle-end (DC) connection its queries go through, together with the    *)
(* life of the connections (net/net-connections.c) and the notification    *)
(* queue that tells the engine of them (net/net-thread.c).                 *)
(*                                                                         *)
(* Three kinds of steps interleave freely: those of a connection's CPU job *)
(* (packets, JS_ABORT, JS_FINISH), those of its socket, and those of the   *)
(* engine, which takes jobs one at a time from a FIFO queue.  The          *)
(* notification job is one entry of that queue and has a queue of its own, *)
(* so a close event can overtake a packet that was received before it.     *)
(*                                                                         *)
(* A connection is named by its generation; its file descriptor is free    *)
(* for the kernel to hand out again once the connection job has finished.  *)
(*                                                                         *)
(* Abstracted: payloads, auth keys and addresses; the random choice of a   *)
(* target and a connection (any eligible one, or none); buffer sizes (a    *)
(* connection over its limit is a choice).  A packet is parsed by a        *)
(* connection that is not yet failing.  HTTP clients are left out.         *)
(***************************************************************************)
EXTENDS Integers, Sequences

CONSTANTS
    Fds,        \* file descriptors the kernel can hand out
    MaxGen,     \* bound: connections ever made
    MaxQueries, \* bound: packets of clients
    MaxReplies  \* bound: packets of middle-ends

ASSUME ForwardAssumption ==
    /\ Fds \subseteq Nat \ {0}
    /\ MaxGen \in Nat
    /\ MaxQueries \in Nat
    /\ MaxReplies \in Nat

Gens   == 1 .. MaxGen
NoExt  == [id |-> 0, inGen |-> 0, outGen |-> 0]

VARIABLES
    kind,     \* "client" (ct_tcp_rpc_ext_server_mtfront), "dc" (..._client_mtfront)
    fd,       \* connection_info.fd
    state,    \* "unused", "open", "error" (C_ERROR), "failed" (C_FAILED), "freed"
    sockUp,   \* the socket_connection is without C_ERROR
    shaken,   \* the RPC handshake with the middle-end is over
    tag,      \* extra_int = get_conn_tag: the middle-end is in use
    dropped,  \* RPC_F_DROPPED
    engine,   \* the queue of the engine's jobs
    events,   \* the queue of the notification job
    table,    \* per slot (= in_fd): the ext_connection, or NoExt
    lastId,   \* per slot: the high part of the last out_conn_id
    lru,      \* ConnLRU: the slots, oldest first
    queries,  \* number of client packets so far
    replies,  \* number of middle-end packets so far
    asked,    \* history: [dc, slot, id, by]: a query of "by" went to "dc"
    answered, \* history: <<asker, receiver>> of each answer passed on
    evicted   \* history: <<asker, client>> of each client failed by RPC_CLOSE_EXT

connVars == <<kind, fd, state, sockUp, shaken, tag, dropped>>
extVars  == <<table, lastId, lru>>
history  == <<asked, answered, evicted>>
vars     == <<connVars, engine, events, extVars, queries, replies, history>>

Exts     == {NoExt} \cup [id : Nat \ {0}, inGen : Gens, outGen : Gens]
Queries  == [dc : Gens, slot : Fds, id : Nat \ {0}, by : Gens]
Jobs     == [op : {"query"}, conn : Gens]
            \cup [op : {"ans", "ack", "close"}, conn : Gens, slot : Fds,
                  id : Nat \ {0}, by : Gens]
            \cup {[op |-> "notify"]}

\* The state of every connection, queue and table stays within its type.
TypeOK ==
    /\ kind \in [Gens -> {"none", "client", "dc"}]
    /\ fd \in [Gens -> Fds \cup {0}]
    /\ state \in [Gens -> {"unused", "open", "error", "failed", "freed"}]
    /\ sockUp \in [Gens -> BOOLEAN]
    /\ shaken \in [Gens -> BOOLEAN]
    /\ tag \in [Gens -> BOOLEAN]
    /\ dropped \in [Gens -> BOOLEAN]
    /\ engine \in Seq(Jobs)
    /\ events \in Seq({"ready", "close"} \X Gens)
    /\ table \in [Fds -> Exts]
    /\ lastId \in [Fds -> Nat]
    /\ lru \in Seq(Fds)
    /\ queries \in 0 .. MaxQueries
    /\ replies \in 0 .. MaxReplies
    /\ asked \subseteq Queries
    /\ answered \subseteq Gens \X Gens
    /\ evicted \subseteq Gens \X Gens

Init ==
    /\ kind = [g \in Gens |-> "none"]
    /\ fd = [g \in Gens |-> 0]
    /\ state = [g \in Gens |-> "unused"]
    /\ sockUp = [g \in Gens |-> FALSE]
    /\ shaken = [g \in Gens |-> FALSE]
    /\ tag = [g \in Gens |-> FALSE]
    /\ dropped = [g \in Gens |-> FALSE]
    /\ engine = <<>>
    /\ events = <<>>
    /\ table = [f \in Fds |-> NoExt]
    /\ lastId = [f \in Fds |-> 0]
    /\ lru = <<>>
    /\ queries = 0
    /\ replies = 0
    /\ asked = {}
    /\ answered = {}
    /\ evicted = {}

-----------------------------------------------------------------------------
(* Connections: creation, failure, release.                                *)

\* A wrong SignalNotify: only an idle engine is signalled.
SignalIfIdle(q) == IF q = <<>> THEN <<[op |-> "notify"]>> ELSE q

\* job_signal(notification_job, JS_RUN): a job that is queued or running
\* already will see the new event, and is not queued again.
SignalNotify(q) ==
    IF \E i \in DOMAIN q : q[i].op = "notify"
    THEN q ELSE Append(q, [op |-> "notify"])

\* notification_event_insert_conn; the event holds a reference to g.
InsertEvent(type, g) ==
    /\ events' = Append(events, <<type, g>>)
    /\ engine' = SignalNotify(engine)

\* A descriptor belongs to its connection until JS_FINISH has closed it.
FdInUse(f) == \E g \in Gens : fd[g] = f /\ state[g] \notin {"unused", "freed"}

\* new_conn_generation: the smallest generation not given out yet.
NextGen(g) == state[g] = "unused" /\ \A h \in 1 .. g - 1 : state[h] # "unused"

\* alloc_new_connection.
NewConnection(g, f, k) ==
    /\ NextGen(g)
    /\ ~FdInUse(f)
    /\ kind' = [kind EXCEPT ![g] = k]
    /\ fd' = [fd EXCEPT ![g] = f]
    /\ state' = [state EXCEPT ![g] = "open"]
    /\ sockUp' = [sockUp EXCEPT ![g] = TRUE]
    /\ UNCHANGED <<shaken, tag, dropped, extVars, queries, replies, history>>

\* A client is accepted: tcp_rpcs_init_accepted_nohs posts its ready event.
Accept(g, f) ==
    /\ NewConnection(g, f, "client")
    /\ InsertEvent("ready", g)

\* A target opens a connection to its middle-end.
Connect(g, f) ==
    /\ NewConnection(g, f, "dc")
    /\ UNCHANGED <<engine, events>>

\* tcp_rpcc_parse_execute takes the last handshake packet.
Handshake(g) ==
    /\ kind[g] = "dc" /\ state[g] = "open" /\ ~shaken[g]
    /\ shaken' = [shaken EXCEPT ![g] = TRUE]
    /\ InsertEvent("ready", g)
    /\ UNCHANGED <<kind, fd, state, sockUp, tag, dropped, extVars, queries,
                   replies, history>>

\* fail_connection on the connections G: the first call sets C_ERROR and
\* signals JS_ABORT.
Failing(st, G) ==
    [g \in Gens |-> IF g \in G /\ st[g] = "open" THEN "error" ELSE st[g]]

\* A connection fails from inside: a bad packet, a timeout, its buffers.
FailConnection(g) ==
    /\ state[g] = "open"
    /\ state' = Failing(state, {g})
    /\ UNCHANGED <<kind, fd, sockUp, shaken, tag, dropped, engine, events,
                   extVars, queries, replies, history>>

\* fail_socket_connection: the peer closed, or JS_ABORT reached the socket.
FailSocket(g) ==
    /\ sockUp[g]
    /\ sockUp' = [sockUp EXCEPT ![g] = FALSE]
    /\ state' = Failing(state, {g})
    /\ UNCHANGED <<kind, fd, shaken, tag, dropped, engine, events, extVars,
                   queries, replies, history>>

\* JS_ABORT of the connection job: tcp_rpcs_close_connection and
\* tcp_rpcc_close_connection post the close event, then
\* cpu_server_close_connection gives up the target and aborts the socket.
Abort(g) ==
    /\ state[g] = "error"
    /\ state' = [state EXCEPT ![g] = "failed"]
    /\ InsertEvent("close", g)
    /\ UNCHANGED <<kind, fd, sockUp, shaken, tag, dropped, extVars, queries,
                   replies, history>>

\* A wrong Referenced: events hold no reference.
ReferencedByJobs(g) ==
    \E i \in DOMAIN engine : engine[i].op # "notify" /\ engine[i].conn = g

\* Jobs and events hold references to the connection they are about.
Referenced(g) ==
    \/ \E i \in DOMAIN engine : engine[i].op # "notify" /\ engine[i].conn = g
    \/ \E i \in DOMAIN events : events[i][2] = g

\* JS_FINISH, on the last reference: cpu_server_free_connection closes fd.
Finish(g) ==
    /\ state[g] = "failed" /\ ~sockUp[g] /\ ~Referenced(g)
    /\ state' = [state EXCEPT ![g] = "freed"]
    /\ UNCHANGED <<kind, fd, sockUp, shaken, tag, dropped, engine, events,
                   extVars, queries, replies, history>>

\* connection_get_by_fd_generation(fd[g], g) finds the connection.
Gettable(g) == g \in Gens /\ sockUp[g]

-----------------------------------------------------------------------------
(* Packets: from the connection jobs to the engine's queue.                *)

\* ext_rpcs_execute: the packet goes to the engine with a reference to c.
ClientPacket(c) ==
    /\ kind[c] = "client" /\ state[c] = "open"
    /\ queries < MaxQueries
    /\ queries' = queries + 1
    /\ engine' = Append(engine, [op |-> "query", conn |-> c])
    /\ UNCHANGED <<connVars, events, extVars, replies, history>>

\* rpcc_execute: a middle-end speaks of a query it was sent on connection d.
MiddleEndPacket(d, q, op) ==
    /\ state[d] = "open" /\ shaken[d]
    /\ q.dc = d
    /\ replies < MaxReplies
    /\ replies' = replies + 1
    /\ engine' = Append(engine, [op |-> op, conn |-> d, slot |-> q.slot,
                                 id |-> q.id, by |-> q.by])
    /\ UNCHANGED <<connVars, events, extVars, queries, history>>

-----------------------------------------------------------------------------
(* The ext_connection table.                                               *)

\* get_ext_connection_by_in_conn_id, mode 2: ids of a slot only grow.
NextId(f) == lastId[f] + 1

\* A wrong LruWithout: an ext_connection is freed without leaving ConnLRU.
LruKept(l, S) == l

\* remove_ext_connection, without its notifications: the slot and the place
\* in ConnLRU are given up (SelectSeq over the list, as a recursive function).
Without(tbl, S) == [f \in Fds |-> IF f \in S THEN NoExt ELSE tbl[f]]
LruWithout(l, S) ==
    LET kept[i \in 0 .. Len(l)] ==
          IF i = 0 THEN <<>>
          ELSE IF l[i] \in S THEN kept[i - 1] ELSE Append(kept[i - 1], l[i])
    IN  kept[Len(l)]

\* lru_insert_conn: only for an ext_connection of this very connection.
LruTouched(c) ==
    IF table[fd[c]].inGen = c
    THEN Append(LruWithout(lru, {fd[c]}), fd[c]) ELSE lru

\* find_ext_connection_by_out_conn_id
Find(job) == table[job.slot].id = job.id

\* The ext_connection is there and belongs to the connection that answers.
FindFor(job) == Find(job) /\ table[job.slot].outGen = job.conn

-----------------------------------------------------------------------------
(* The engine: do_rpcs_execute and forward_tcp_query.                      *)

EngineTakes(op) == engine # <<>> /\ Head(engine).op = op

\* The connection of an existing route can still be used.
RouteUsable(e) == Gettable(e.outGen) /\ state[e.outGen] # "failed"

\* rpc_target_choose_random_connections, then the check of the tag.
Eligible(d) == kind[d] = "dc" /\ state[d] = "open" /\ tag[d]

\* forward_mtproto_packet refuses the packet: bad length or function.
QueryRefused ==
    /\ EngineTakes("query")
    /\ lru' = LruTouched(Head(engine).conn)
    /\ engine' = Tail(engine)
    /\ UNCHANGED <<connVars, events, table, lastId, queries, replies, history>>

\* The client has a route, and the query goes along it.
QueryForwarded ==
    /\ EngineTakes("query")
    /\ LET c == Head(engine).conn
           e == table[fd[c]]
       IN /\ e # NoExt /\ RouteUsable(e)
          /\ lru' = LruTouched(c)
          /\ asked' = asked \cup {[dc |-> e.outGen, slot |-> fd[c],
                                   id |-> e.id, by |-> c]}
    /\ engine' = Tail(engine)
    /\ UNCHANGED <<connVars, events, table, lastId, queries, replies,
                   answered, evicted>>

\* No usable route: an old one is removed, and a connection is looked for.
NeedsRoute(c) == table[fd[c]] = NoExt \/ ~RouteUsable(table[fd[c]])

\* Nowhere to forward to: the query is dropped and the client marked.
QueryDropped ==
    /\ EngineTakes("query")
    /\ LET c == Head(engine).conn
       IN /\ NeedsRoute(c)
          /\ table' = Without(table, {fd[c]})
          /\ lru' = LruWithout(lru, {fd[c]})
          /\ dropped' = [dropped EXCEPT ![c] = TRUE]
    /\ engine' = Tail(engine)
    /\ UNCHANGED <<kind, fd, state, sockUp, shaken, tag, events, lastId,
                   queries, replies, history>>

\* A client that lost a query before is closed instead of served.
QueryAfterDrop(d) ==
    /\ EngineTakes("query")
    /\ Eligible(d)
    /\ LET c == Head(engine).conn
       IN /\ NeedsRoute(c) /\ dropped[c]
          /\ table' = Without(table, {fd[c]})
          /\ lru' = LruWithout(lru, {fd[c]})
          /\ state' = Failing(state, {c})
    /\ engine' = Tail(engine)
    /\ UNCHANGED <<kind, fd, sockUp, shaken, tag, dropped, events, lastId,
                   queries, replies, history>>

\* create_ext_connection: the client gets a route through d.
QueryRouted(d) ==
    /\ EngineTakes("query")
    /\ Eligible(d)
    /\ LET c == Head(engine).conn
           f == fd[c]
       IN /\ NeedsRoute(c) /\ ~dropped[c]
          /\ table' = [table EXCEPT ![f] = [id |-> NextId(f), inGen |-> c,
                                            outGen |-> d]]
          /\ lastId' = [lastId EXCEPT ![f] = NextId(f)]
          /\ lru' = LruWithout(lru, {f})
          /\ asked' = asked \cup {[dc |-> d, slot |-> f, id |-> NextId(f),
                                   by |-> c]}
    /\ engine' = Tail(engine)
    /\ UNCHANGED <<connVars, events, queries, replies, answered, evicted>>

-----------------------------------------------------------------------------
(* The engine: process_client_packet.                                      *)

\* A wrong Receiver: looked up by descriptor only.
ReceiverByFd(job) ==
    {c \in Gens : FindFor(job) /\ fd[c] = job.slot /\ Gettable(c)}

\* Who is given the answer or the acknowledgement "job" carries.
Receiver(job) ==
    IF FindFor(job) /\ Gettable(table[job.slot].inGen)
    THEN {table[job.slot].inGen} ELSE {}

\* RPC_PROXY_ANS and RPC_SIMPLE_ACK.  An answer may find the client's
\* buffers over the limit (check_conn_buffers in client_send_message), before
\* it is copied or after.
Answer(op) ==
    /\ EngineTakes(op)
    /\ LET job == Head(engine)
           to  == Receiver(job)
       IN /\ \/ state' = state
             \/ op = "ans" /\ state' = Failing(state, to)
          /\ \/ answered' = answered \cup {<<job.by, c>> : c \in to}
             \/ op = "ans" /\ state' = Failing(state, to) /\ answered' = answered
    /\ engine' = Tail(engine)
    /\ UNCHANGED <<kind, fd, sockUp, shaken, tag, dropped, events, extVars,
                   queries, replies, asked, evicted>>

\* RPC_CLOSE_EXT: the route is removed and its client failed, whichever
\* connection asked for it.
CloseExt ==
    /\ EngineTakes("close")
    /\ LET job == Head(engine)
           S   == IF Find(job) THEN {job.slot} ELSE {}
           C   == {c \in Gens : Gettable(c) /\ \E f \in S : table[f].inGen = c}
       IN /\ table' = Without(table, S)
          /\ lru' = LruWithout(lru, S)
          /\ state' = Failing(state, C)
          /\ evicted' = evicted \cup {<<job.by, c>> : c \in C}
    /\ engine' = Tail(engine)
    /\ UNCHANGED <<kind, fd, sockUp, shaken, tag, dropped, events, lastId,
                   queries, replies, asked, answered>>

-----------------------------------------------------------------------------
(* The engine: the notification job and cron.                              *)

\* One event is popped; the job ends only when it finds its queue empty.
Notified(type, k) ==
    /\ EngineTakes("notify") /\ events # <<>>
    /\ Head(events)[1] = type
    /\ kind[Head(events)[2]] = k
    /\ events' = Tail(events)
    /\ UNCHANGED <<kind, fd, sockUp, shaken, dropped, engine, lastId, queries,
                   replies, history>>

\* mtproto_ext_rpc_ready
ClientReady ==
    /\ Notified("ready", "client")
    /\ lru' = LruTouched(Head(events)[2])
    /\ UNCHANGED <<state, tag, table>>

\* mtproto_ext_rpc_close
ClientClose ==
    /\ Notified("close", "client")
    /\ LET S == {fd[Head(events)[2]]}
       IN table' = Without(table, S) /\ lru' = LruWithout(lru, S)
    /\ UNCHANGED <<state, tag>>

\* mtfront_client_ready
MiddleEndReady ==
    /\ Notified("ready", "dc")
    /\ tag' = [tag EXCEPT ![Head(events)[2]] = TRUE]
    /\ UNCHANGED <<state, table, lru>>

\* The ext_connections on the list of the middle-end's descriptor.
RoutesOn(f) ==
    {s \in Fds : table[s] # NoExt /\ fd[table[s].outGen] = f}

\* A wrong MiddleEndClose: the list head and the tag are left as they were.
MiddleEndCloseForgets ==
    /\ Notified("close", "dc")
    /\ LET S == RoutesOn(fd[Head(events)[2]])
           C == {c \in Gens : Gettable(c) /\ \E s \in S : table[s].inGen = c}
       IN /\ table' = Without(table, S)
          /\ lru' = LruWithout(lru, S)
          /\ state' = Failing(state, C)
    /\ UNCHANGED tag

\* mtfront_client_close: every client routed through it is failed.
MiddleEndClose ==
    /\ Notified("close", "dc")
    /\ LET d == Head(events)[2]
           S == IF tag[d] THEN RoutesOn(fd[d]) ELSE {}
           C == {c \in Gens : Gettable(c) /\ \E s \in S : table[s].inGen = c}
       IN /\ table' = Without(table, S)
          /\ lru' = LruWithout(lru, S)
          /\ state' = Failing(state, C)
          /\ tag' = [tag EXCEPT ![d] = FALSE]

\* notification_event_run returns.
NotifyDone ==
    /\ EngineTakes("notify") /\ events = <<>>
    /\ engine' = Tail(engine)
    /\ UNCHANGED <<connVars, events, extVars, queries, replies, history>>

\* One turn of the loop of check_all_conn_buffers: the oldest client is
\* failed, or only leaves the list when it is found gone.  The loop takes as
\* many turns as its memory figures ask for.
CheckAllConnBuffers ==
    /\ lru # <<>>
    /\ LET c == table[Head(lru)].inGen
       IN state' = Failing(state, IF Gettable(c) THEN {c} ELSE {})
    /\ lru' = Tail(lru)
    /\ UNCHANGED <<kind, fd, sockUp, shaken, tag, dropped, engine, events,
                   table, lastId, queries, replies, history>>

-----------------------------------------------------------------------------
Notify ==
    \/ ClientReady
    \/ ClientClose
    \/ MiddleEndReady
    \/ MiddleEndClose
    \/ NotifyDone

Engine ==
    \/ QueryRefused
    \/ QueryForwarded
    \/ QueryDropped
    \/ \E d \in Gens : QueryAfterDrop(d) \/ QueryRouted(d)
    \/ \E op \in {"ans", "ack"} : Answer(op)
    \/ CloseExt
    \/ Notify

Network(g) ==
    \/ \E f \in Fds : Accept(g, f) \/ Connect(g, f)
    \/ Handshake(g)
    \/ FailConnection(g)
    \/ ClientPacket(g)
    \/ \E q \in asked, op \in {"ans", "ack", "close"} : MiddleEndPacket(g, q, op)

Next ==
    \/ Engine
    \/ CheckAllConnBuffers
    \/ \E g \in Gens : Network(g) \/ FailSocket(g) \/ Abort(g) \/ Finish(g)

Spec == Init /\ [][Next]_vars

\* The engine and the job threads keep taking jobs, and a socket that was
\* sent JS_ABORT is failed; nothing is assumed of the network or the peers.
Fairness ==
    /\ WF_vars(Engine)
    /\ \A g \in Gens : /\ WF_vars(Abort(g))
                       /\ WF_vars(state[g] = "failed" /\ FailSocket(g))
                       /\ WF_vars(Finish(g))

FairSpec == Spec /\ Fairness

-----------------------------------------------------------------------------
(* Properties.                                                             *)

\* Every route leads through a middle-end connection that is announced and
\* not yet closed to the engine, so that its list head exists: the assertions
\* on o_next in create_ext_connection, remove_ext_connection and
\* mtfront_client_close cannot fail, and no route survives its middle-end.
RoutesLive ==
    \A f \in Fds :
        table[f] # NoExt => /\ tag[table[f].outGen]
                            /\ state[table[f].outGen] # "freed"
                            /\ table[f].id = lastId[f]

\* A descriptor carries at most one announced middle-end connection: the
\* ready event of the next user of a descriptor finds the list head cleared
\* (assert !H->o_prev in mtfront_client_ready), because the descriptor is
\* closed only after the close event of the one before has been handled.
OneMiddleEndPerFd ==
    \A g, h \in Gens : tag[g] /\ tag[h] /\ fd[g] = fd[h] => g = h

\* An answer or acknowledgement reaches the very connection whose query was
\* answered, never a later client on the same descriptor or slot.
AnswerToAsker == \A p \in answered : p[1] = p[2]

\* RPC_CLOSE_EXT, which unlike an answer does not check the connection it
\* comes from, fails only the connection whose query it is about: an
\* out_conn_id is not used again, however late the packet is handled.
EvictsOnlyAsker == \A p \in evicted : p[1] = p[2]

\* ConnLRU holds each live ext_connection at most once and nothing else, so
\* check_all_conn_buffers never follows a freed one.
LruLive ==
    /\ \A i \in DOMAIN lru : table[lru[i]] # NoExt
    /\ \A i, j \in DOMAIN lru : lru[i] = lru[j] => i = j

\* A connection that failed gives up its descriptor in the end: the close
\* event, the packets under way and the socket all let go of it.
FailedIsReleased ==
    \A g \in Gens : state[g] = "error" ~> state[g] = "freed"

\* A query is forwarded under the ext_connection of the connection it came
\* from (the log line of forward_tcp_query names Ex->in_fd~Ex->in_gen as the
\* connection the user query is from).
ForwardedAsOneself ==
    \A p, q \in asked : p.slot = q.slot /\ p.id = q.id => p.by = q.by

=============================================================================
