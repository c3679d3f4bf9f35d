----------------------------- MODULE ConnSocket -----------------------------
(***************************************************************************)
(* One connection of net/net-connections.c and net/net-tcp-connections.c:  *)
(* the connection job C (net-cpu threads), its socket job S (net-io        *)
(* threads, and the main thread for JS_ABORT), the event of its descriptor *)
(* in the main thread's epoll loop, the application that writes to the     *)
(* connection, closes it or fails it from any thread, and the peer.        *)
(*                                                                         *)
(* The jobs run as AsyncJob shows: one handler of a job at a time, the     *)
(* highest pending signal first, JS_FINISH when the last reference is gone.*)
(* A handler is split where it touches what another thread changes         *)
(* meanwhile.  A message is a number: what the application writes is 1, 2, *)
(* ..., and so is what the peer sends.  Encryption, padding, statistics    *)
(* and EINTR (a retry of the same call) are left out.                      *)
(***************************************************************************)
EXTENDS Naturals, Sequences, FiniteSets

CONSTANTS
    MaxOut,     \* bound: messages the application writes
    MaxIn,      \* bound: messages the peer sends
    MaxRoom,    \* bound: messages the kernel takes before EAGAIN
    MaxEagain,  \* EAGAINs in a row before the connection is dropped (100)
    Multithread \* --multithread: the jobs and the application have threads of
                \* their own

ASSUME SocketAssumption ==
    /\ MaxOut \in Nat /\ MaxIn \in Nat /\ MaxRoom \in Nat \ {0}
    /\ MaxEagain \in Nat
    /\ Multithread \in BOOLEAN

VARIABLES
    conn,   \* struct connection_info, and the job: see ConnOK
    sock,   \* struct socket_connection_info, and the job: see SockOK
    ev,     \* the event of the descriptor: in epoll, and bits reported
    app,    \* where the application thread is in a call; how it ends the connection
    wire,   \* the kernel's side and the peer
    put,    \* messages written by the application, and by the peer
    got     \* what came out: at the peer, and at parse_execute

socketVars == <<conn, sock, ev, app, wire, put, got>>

ConnFlags == {"READY_PENDING", "CONNECTED", "ERROR", "FAILED", "STOPREAD"}
\* Bound: in one behaviour the application ends the connection in one way.
Ways == {"close", "fail", "timeout"}

SockFlags == {"WANTRD", "WANTWR", "NORD", "NOWR", "CONNECTED", "ERROR",
              "NET_FAILED", "STOPREAD", "STOPWRITE"}

SeqUpto(n) == UNION {[1 .. k -> 1 .. n] : k \in 0 .. n}

ConnOK ==
    /\ conn.status \in {"connecting", "working", "write_close", "error"}
    /\ conn.flags \subseteq ConnFlags
    /\ conn.io \in BOOLEAN                  \* c->io_conn
    /\ conn.timer \in BOOLEAN               \* armed with set_connection_timeout
    /\ conn.sigs \subseteq {"RUN", "ALARM", "ABORT"}
    /\ conn.pc \in {"idle", "read", "push", "flag", "freed"}
    /\ conn.stop \in BOOLEAN
    /\ conn.inq \in SeqUpto(MaxIn)
    /\ conn.outq \in SeqUpto(MaxOut)

SockOK ==
    /\ sock.flags \subseteq SockFlags
    /\ sock.sigs \subseteq {"RUN", "ABORT"}
    /\ sock.pc \in {"idle", "readv", "merge", "write", "writev",
                    "fail", "status", "freed"}
    /\ sock.stop \in BOOLEAN
    /\ sock.pq \in SeqUpto(MaxOut)          \* out_packet_queue
    /\ sock.out \in SeqUpto(MaxOut)
    /\ sock.eagain \in 0 .. MaxEagain + 1

\* The type invariant of the model.
SocketTypeOK ==
    /\ ConnOK
    /\ SockOK
    /\ ev.data \in BOOLEAN /\ ev.epoll \in BOOLEAN
    /\ ev.ready \subseteq {"IN", "OUT", "HUP"}
    /\ app.pc \in {"idle", "close"} /\ app.way \in Ways
    /\ wire.rx \in SeqUpto(MaxIn)
    /\ wire.room \in 0 .. MaxRoom
    /\ wire.peer \in {"syn", "up", "gone"}
    /\ wire.fd \in BOOLEAN
    /\ put["out"] \in 0 .. MaxOut /\ put["in"] \in 0 .. MaxIn
    /\ got["out"] \in SeqUpto(MaxOut) /\ got["in"] \in SeqUpto(MaxIn)

-----------------------------------------------------------------------------
(* Creation: alloc_new_connection and alloc_new_socket_connection.  An     *)
(* accepted connection is connected; an outbound one waits for the peer.   *)

NewConn(outbound) ==
    [status |-> IF outbound THEN "connecting" ELSE "working",
     flags |-> IF outbound THEN {} ELSE {"CONNECTED"},
     io |-> TRUE, timer |-> FALSE, sigs |-> {}, pc |-> "idle",
     stop |-> FALSE, inq |-> <<>>, outq |-> <<>>]

NewSocket(outbound) ==
    [flags |-> {"WANTRD", "WANTWR"} \cup
               (IF outbound THEN {} ELSE {"CONNECTED"}),
     sigs |-> {}, pc |-> "idle", stop |-> FALSE, pq |-> <<>>,
     out |-> <<>>, eagain |-> 0]

SocketInit ==
    \E outbound \in BOOLEAN :
      /\ conn = NewConn(outbound)
      /\ sock = NewSocket(outbound)
      /\ wire = [rx |-> <<>>, room |-> MaxRoom, fd |-> TRUE,
                 peer |-> IF outbound THEN "syn" ELSE "up"]
      /\ ev = [data |-> TRUE, epoll |-> TRUE,
               ready |-> IF outbound THEN {} ELSE {"OUT"}]
      /\ \E w \in Ways : app = [pc |-> "idle", way |-> w]
      /\ put = [d \in {"out", "in"} |-> 0]
      /\ got = [d \in {"out", "in"} |-> <<>>]

-----------------------------------------------------------------------------
(* Helpers.                                                                *)

\* Without --multithread every handler runs on the main thread: no step of
\* another job or of the application falls inside one.
Busy == {p \in {"conn", "sock", "app"} :
           CASE p = "conn" -> conn.pc \notin {"idle", "freed"}
             [] p = "sock" -> sock.pc \notin {"idle", "freed"}
             [] OTHER      -> app.pc # "idle"}

MayRun(p) == Multithread \/ Busy \subseteq {p}

SignalConn(c, s) == [c EXCEPT !.sigs = @ \cup {s}]
SignalSock(s, g) == [s EXCEPT !.sigs = @ \cup {g}]

\* fail_connection: the first to set C_ERROR ...
FailFlag(c) == [c EXCEPT !.flags = @ \cup {"ERROR"}]
\* ... then sets the status and sends JS_ABORT.
FailStatus(c) == [c EXCEPT !.status = "error", !.sigs = @ \cup {"ABORT"}]

\* Mutant of ConnHeld: the socket has no reference to C.
HeldByCaller == app.pc # "idle"

\* The references that keep C: its socket's, and the application's while it is
\* in a call.  Those that keep S: the event's and c->io_conn.
ConnHeld == sock.pc # "freed" \/ app.pc # "idle"
SockHeld == ev.data \/ conn.io

-----------------------------------------------------------------------------
(* The connection job.                                                     *)

\* do_connection_job, JS_RUN.  The status of a new outbound connection is set by
\* compare-and-swap.
ConnRun ==
    /\ MayRun("conn")
    /\ conn.pc = "idle" /\ conn.sigs = {"RUN"}
    /\ conn' = [conn EXCEPT
         !.sigs = {},
         !.flags = IF "ERROR" \in @ THEN @ ELSE @ \ {"READY_PENDING"},
         !.status = IF @ = "connecting" /\ "READY_PENDING" \in conn.flags
                       /\ "ERROR" \notin conn.flags THEN "working" ELSE @,
         !.pc = IF "ERROR" \in conn.flags THEN "idle" ELSE "read"]
    /\ UNCHANGED <<sock, ev, app, wire, put, got>>

\* cpu_tcp_server_reader: what the socket job queued is parsed, unless the
\* connection has failed or no longer reads.  cpu_tcp_server_writer then looks at
\* the status, ...
ConnRead ==
    /\ MayRun("conn")
    /\ conn.pc = "read"
    /\ conn' = [conn EXCEPT !.pc = "push", !.inq = <<>>,
                  !.stop = conn.status = "write_close"]
    /\ got' = IF conn.flags \cap {"ERROR", "FAILED", "STOPREAD"} = {}
              THEN [got EXCEPT !["in"] = @ \o conn.inq] ELSE got
    /\ UNCHANGED <<sock, ev, app, wire, put>>

\* Mutant of ConnPush: what is new goes first.
PushInFront ==
    /\ MayRun("conn")
    /\ conn.pc = "push"
    /\ LET some == conn.outq # <<>> /\ conn.io
       IN  /\ sock' = IF some THEN [sock EXCEPT !.pq = conn.outq \o @] ELSE sock
           /\ conn' = [conn EXCEPT !.outq = <<>>,
                         !.stop = @ /\ some,
                         !.pc = IF some THEN "flag" ELSE "idle"]
    /\ UNCHANGED <<ev, app, wire, put, got>>

\* ... drains the queue of the application into the queue of the socket, ...
ConnPush ==
    /\ MayRun("conn")
    /\ conn.pc = "push"
    /\ LET some == conn.outq # <<>> /\ conn.io
       IN  /\ sock' = IF some THEN [sock EXCEPT !.pq = @ \o conn.outq] ELSE sock
           /\ conn' = [conn EXCEPT !.outq = <<>>,
                         !.stop = @ /\ some,
                         !.pc = IF some THEN "flag" ELSE "idle"]
    /\ UNCHANGED <<ev, app, wire, put, got>>

\* ... and, if there was something, tells the socket whether more will come.
ConnFlag ==
    /\ MayRun("conn")
    /\ conn.pc = "flag"
    /\ sock' = [sock EXCEPT !.sigs = @ \cup {"RUN"},
                  !.flags = IF conn.stop THEN @ \cup {"STOPWRITE"} ELSE @]
    /\ conn' = [conn EXCEPT !.pc = "idle", !.stop = FALSE]
    /\ UNCHANGED <<ev, app, wire, put, got>>

\* do_connection_job, JS_ALARM: job_timer_check, then the alarm function, which
\* fails the connection.
ConnAlarm ==
    /\ MayRun("conn")
    /\ conn.pc = "idle" /\ "ALARM" \in conn.sigs /\ "ABORT" \notin conn.sigs
    /\ LET c == [conn EXCEPT !.sigs = @ \ {"ALARM"}, !.timer = FALSE]
       IN  conn' = IF conn.timer /\ "ERROR" \notin conn.flags
                   THEN FailStatus(FailFlag(c)) ELSE c
    /\ UNCHANGED <<sock, ev, app, wire, put, got>>

\* Mutant of ConnAbort: the socket is not told.
AbortAlone ==
    /\ MayRun("conn")
    /\ conn.pc = "idle" /\ "ABORT" \in conn.sigs
    /\ conn' = [conn EXCEPT !.sigs = @ \ {"ABORT"}, !.io = FALSE,
                  !.flags = @ \cup {"FAILED"},
                  !.timer = @ /\ "FAILED" \in conn.flags]
    /\ UNCHANGED <<sock, ev, app, wire, put, got>>

\* do_connection_job, JS_ABORT: cpu_server_close_connection, once.  It passes
\* its reference to the socket job with JS_ABORT and removes the timer.
ConnAbort ==
    /\ MayRun("conn")
    /\ conn.pc = "idle" /\ "ABORT" \in conn.sigs
    /\ conn' = [conn EXCEPT !.sigs = @ \ {"ABORT"}, !.io = FALSE,
                  !.flags = @ \cup {"FAILED"},
                  !.timer = @ /\ "FAILED" \in conn.flags]
    /\ sock' = IF "FAILED" \in conn.flags THEN sock
               ELSE SignalSock(sock, "ABORT")
    /\ UNCHANGED <<ev, app, wire, put, got>>

\* JS_FINISH: cpu_server_free_connection; the descriptor is closed here.
ConnFinish ==
    /\ MayRun("conn")
    /\ conn.pc = "idle" /\ conn.sigs = {} /\ ~ConnHeld
    /\ conn' = [conn EXCEPT !.pc = "freed", !.inq = <<>>, !.outq = <<>>]
    /\ wire' = [wire EXCEPT !.fd = FALSE]
    /\ UNCHANGED <<sock, ev, app, put, got>>

-----------------------------------------------------------------------------
(* The socket job.                                                         *)

\* The loop of net_server_socket_reader: C_NORD is set before each readv; what
\* follows the loop is SockMerge.
ReadLoop(s) ==
    IF s.flags \cap {"WANTRD", "NORD", "STOPREAD", "ERROR", "NET_FAILED"} =
         {"WANTRD"}
    THEN [s EXCEPT !.flags = @ \cup {"NORD"}, !.pc = "readv"]
    ELSE [s EXCEPT !.pc = "merge"]

\* do_socket_connection_job, JS_RUN, and the head of
\* net_server_socket_read_write: an outbound socket that may write is taken to
\* be connected.
SockRun ==
    /\ MayRun("sock")
    /\ sock.pc = "idle" /\ sock.sigs = {"RUN"}
    /\ LET s == [sock EXCEPT !.sigs = {}]
       IN  CASE "ERROR" \in sock.flags \/
                sock.flags \cap {"CONNECTED", "NOWR"} = {"NOWR"} ->
                  sock' = s /\ UNCHANGED conn
             [] "CONNECTED" \in sock.flags /\ "ERROR" \notin sock.flags ->
                  sock' = ReadLoop(s) /\ UNCHANGED conn
             [] OTHER ->
                  /\ sock' = ReadLoop([s EXCEPT !.flags = {"WANTRD", "CONNECTED"}])
                  /\ conn' = [SignalConn(conn, "RUN") EXCEPT
                                !.flags = @ \cup {"READY_PENDING", "CONNECTED"}]
    /\ UNCHANGED <<ev, app, wire, put, got>>

\* One readv: data, for which C_NORD is taken back and C woken, EAGAIN, or the
\* end of the stream or an error.
SockReadv ==
    /\ MayRun("sock")
    /\ sock.pc = "readv"
    /\ \/ /\ wire.rx # <<>>
          /\ wire' = [wire EXCEPT !.rx = <<>>]
          /\ conn' = [SignalConn(conn, "RUN") EXCEPT !.inq = @ \o wire.rx]
          /\ sock' = ReadLoop([sock EXCEPT !.flags = @ \ {"NORD"}])
       \/ /\ wire.rx = <<>> /\ wire.peer # "gone"
          /\ sock' = [sock EXCEPT !.pc = "merge"]
          /\ UNCHANGED <<conn, wire>>
       \/ /\ wire.rx = <<>> /\ wire.peer = "gone"
          /\ sock' = [SignalSock(sock, "ABORT") EXCEPT
                        !.flags = @ \cup {"NET_FAILED"}, !.pc = "merge"]
          /\ UNCHANGED <<conn, wire>>
    /\ UNCHANGED <<ev, app, put, got>>

\* The socket job gives up: JS_ABORT to itself.
NetFailed(s) == [SignalSock(s, "ABORT") EXCEPT !.pc = "idle", !.stop = FALSE,
                   !.flags = @ \cup {"NET_FAILED"}]

\* The end of the writer when nothing is left: if C_STOPWRITE was seen, the
\* socket ends itself.
WriterEnds(s, stop) ==
    LET t == [s EXCEPT !.flags = @ \ {"WANTWR"}, !.pc = "idle", !.stop = FALSE]
    IN  IF stop THEN NetFailed(t) ELSE t

\* What the connection job queued joins the output of the socket.
SockMerge ==
    /\ MayRun("sock")
    /\ sock.pc = "merge"
    /\ LET out == sock.out \o sock.pq
           fl  == IF out # <<>> THEN sock.flags \cup {"WANTWR"} ELSE sock.flags
       IN  sock' = [sock EXCEPT !.out = out, !.pq = <<>>, !.flags = fl,
             !.pc = IF fl \cap {"NOWR", "ERROR", "WANTWR", "NET_FAILED"} =
                       {"WANTWR"} THEN "write" ELSE "idle"]
    /\ UNCHANGED <<conn, ev, app, wire, put, got>>

\* net_server_socket_writer: C_STOPWRITE is read on entry and C_NOWR set before
\* the call; with nothing to write the loop ends at once.
SockWrite ==
    /\ MayRun("sock")
    /\ sock.pc = "write"
    /\ LET stop == sock.stop \/ "STOPWRITE" \in sock.flags
       IN  sock' = IF sock.out = <<>> THEN WriterEnds(sock, stop)
                   ELSE [sock EXCEPT !.stop = stop, !.flags = @ \cup {"NOWR"},
                           !.pc = "writev"]
    /\ UNCHANGED <<conn, ev, app, wire, put, got>>

\* One writev: a part of the output, EAGAIN, or an error.
SockWritev ==
    /\ MayRun("sock")
    /\ sock.pc = "writev"
    /\ \/ /\ wire.peer = "up" /\ wire.room > 0
          /\ \E n \in 1 .. Len(sock.out) :
               /\ n <= wire.room
               /\ got' = [got EXCEPT !["out"] = @ \o SubSeq(sock.out, 1, n)]
               /\ wire' = [wire EXCEPT !.room = @ - n]
               /\ LET s == [sock EXCEPT !.out = SubSeq(@, n + 1, Len(@)),
                              !.eagain = 0, !.flags = @ \ {"NOWR"}]
                  IN  sock' = IF s.out = <<>> THEN WriterEnds(s, s.stop)
                              ELSE [s EXCEPT !.flags = @ \cup {"NOWR"}]
       \/ /\ wire.peer = "syn" \/ (wire.peer = "up" /\ wire.room = 0)
          /\ sock' = IF sock.eagain + 1 > MaxEagain
                     THEN [NetFailed(sock) EXCEPT !.eagain = @ + 1]
                     ELSE [sock EXCEPT !.pc = "idle", !.stop = FALSE,
                             !.eagain = @ + 1]
          /\ UNCHANGED <<wire, got>>
       \/ /\ wire.peer = "gone"
          /\ sock' = NetFailed(sock)
          /\ UNCHANGED <<wire, got>>
    /\ UNCHANGED <<conn, ev, app, put>>

\* do_socket_connection_job, JS_ABORT, and fail_socket_connection: the event
\* leaves the heap and epoll, and its reference to S goes.
SockAbort ==
    /\ MayRun("sock")
    /\ sock.pc = "idle" /\ "ABORT" \in sock.sigs
    /\ sock' = [sock EXCEPT !.sigs = @ \ {"ABORT"}, !.flags = @ \cup {"ERROR"},
                  !.pc = IF "ERROR" \in sock.flags THEN "idle" ELSE "fail"]
    /\ ev' = [data |-> FALSE, epoll |-> FALSE, ready |-> {}]
    /\ UNCHANGED <<conn, app, wire, put, got>>

\* Its call of fail_connection.
SockFail ==
    /\ MayRun("sock")
    /\ \/ /\ sock.pc = "fail"
          /\ conn' = FailFlag(conn)
          /\ sock' = [sock EXCEPT
               !.pc = IF "ERROR" \in conn.flags THEN "idle" ELSE "status"]
       \/ /\ sock.pc = "status"
          /\ conn' = FailStatus(conn)
          /\ sock' = [sock EXCEPT !.pc = "idle"]
    /\ UNCHANGED <<ev, app, wire, put, got>>

\* JS_FINISH: net_server_socket_free drops the output and s->conn.
SockFinish ==
    /\ MayRun("sock")
    /\ sock.pc = "idle" /\ sock.sigs = {} /\ ~SockHeld
    /\ sock' = [sock EXCEPT !.pc = "freed", !.pq = <<>>, !.out = <<>>]
    /\ UNCHANGED <<conn, ev, app, wire, put, got>>

-----------------------------------------------------------------------------
(* The main thread: epoll reports, the timer fires.                        *)

\* Mutant of Gateway: C_NORD is left as it is.
GatewayForgets ==
    /\ Multithread \/ Busy = {}
    /\ ev.epoll /\ ev.ready # {}
    /\ ev' = [ev EXCEPT !.ready = {}, !.epoll = "HUP" \notin ev.ready]
    /\ sock' = [sock EXCEPT
         !.flags = @ \ (({}) \cup
                        (IF "OUT" \in ev.ready THEN {"NOWR"} ELSE {})),
         !.sigs = @ \cup (IF "HUP" \in ev.ready THEN {"ABORT"} ELSE {"RUN"})]
    /\ UNCHANGED <<conn, app, wire, put, got>>

\* net_server_socket_read_write_gateway.  A report of a hang-up or an error
\* ends the connection without another read.
Gateway ==
    /\ Multithread \/ Busy = {}
    /\ ev.epoll /\ ev.ready # {}
    /\ ev' = [ev EXCEPT !.ready = {}, !.epoll = "HUP" \notin ev.ready]
    /\ sock' = [sock EXCEPT
         !.flags = @ \ ((IF "IN" \in ev.ready THEN {"NORD"} ELSE {}) \cup
                        (IF "OUT" \in ev.ready THEN {"NOWR"} ELSE {})),
         !.sigs = @ \cup (IF "HUP" \in ev.ready THEN {"ABORT"} ELSE {"RUN"})]
    /\ UNCHANGED <<conn, app, wire, put, got>>

TimerFires ==
    /\ Multithread \/ Busy = {}
    /\ conn.timer /\ "ALARM" \notin conn.sigs /\ conn.pc # "freed"
    /\ conn' = SignalConn(conn, "ALARM")
    /\ UNCHANGED <<sock, ev, app, wire, put, got>>

-----------------------------------------------------------------------------
(* The application, which has a reference to C while it calls.             *)

AppMayCall == MayRun("app") /\ app.pc = "idle" /\ conn.pc # "freed" /\ ConnHeld

\* A message is pushed to out_queue and C is sent JS_RUN.
AppSend ==
    /\ AppMayCall
    /\ put["out"] < MaxOut
    /\ conn.status \in {"connecting", "working"}
    /\ put' = [put EXCEPT !["out"] = @ + 1]
    /\ conn' = [SignalConn(conn, "RUN") EXCEPT !.outq = Append(@, put["out"] + 1)]
    /\ UNCHANGED <<sock, ev, app, wire, got>>

\* set_connection_timeout.
AppSetTimeout ==
    /\ AppMayCall /\ app.way = "timeout"
    /\ "ERROR" \notin conn.flags
    /\ conn' = [conn EXCEPT !.timer = ~@]
    /\ UNCHANGED <<sock, ev, app, wire, put, got>>

\* connection_write_close: the status is tested and the flags are set ...
AppWriteClose ==
    /\ AppMayCall /\ app.way = "close"
    /\ conn.status = "working"
    /\ sock' = IF conn.io THEN [sock EXCEPT !.flags = @ \cup {"STOPREAD"}]
               ELSE sock
    /\ conn' = [conn EXCEPT !.flags = @ \cup {"STOPREAD"}]
    /\ app' = [app EXCEPT !.pc = "close"]
    /\ UNCHANGED <<ev, wire, put, got>>

\* ... then the status is stored and C is sent JS_RUN.
AppStoreClose ==
    /\ app.pc = "close"
    /\ conn' = [SignalConn(conn, "RUN") EXCEPT !.status = "write_close"]
    /\ app' = [app EXCEPT !.pc = "idle"]
    /\ UNCHANGED <<sock, ev, wire, put, got>>

\* fail_connection; where another thread interferes is seen with SockFail.
AppFail ==
    /\ AppMayCall /\ app.way = "fail"
    /\ "ERROR" \notin conn.flags
    /\ conn' = FailStatus(FailFlag(conn))
    /\ UNCHANGED <<sock, ev, app, wire, put, got>>

-----------------------------------------------------------------------------
(* The peer and the kernel.  An edge is reported when something changes;   *)
(* nothing is reported for a descriptor that is not in epoll.              *)

Report(E) == ev' = IF ev.epoll THEN [ev EXCEPT !.ready = @ \cup E] ELSE ev

PeerConnects ==
    /\ wire.fd /\ wire.peer = "syn"
    /\ wire' = [wire EXCEPT !.peer = "up"]
    /\ Report({"OUT"})
    /\ UNCHANGED <<conn, sock, app, put, got>>

PeerSends ==
    /\ wire.fd /\ wire.peer = "up" /\ put["in"] < MaxIn
    /\ put' = [put EXCEPT !["in"] = @ + 1]
    /\ wire' = [wire EXCEPT !.rx = Append(@, put["in"] + 1)]
    /\ Report({"IN"})
    /\ UNCHANGED <<conn, sock, app, got>>

PeerTakes ==
    /\ wire.fd /\ wire.peer = "up" /\ wire.room < MaxRoom
    /\ wire' = [wire EXCEPT !.room = MaxRoom]
    /\ Report({"OUT"})
    /\ UNCHANGED <<conn, sock, app, put, got>>

PeerLeaves ==
    /\ wire.fd /\ wire.peer # "gone"
    /\ wire' = [wire EXCEPT !.peer = "gone"]
    /\ Report({"IN", "HUP"})
    /\ UNCHANGED <<conn, sock, app, put, got>>

ConnStep == ConnRun \/ ConnRead \/ ConnPush \/ ConnFlag \/ ConnAlarm
            \/ ConnAbort \/ ConnFinish
SockStep == SockRun \/ SockReadv \/ SockMerge \/ SockWrite
            \/ SockWritev \/ SockAbort \/ SockFail \/ SockFinish
MainStep == Gateway \/ TimerFires
AppStep  == AppSend \/ AppSetTimeout \/ AppWriteClose \/ AppStoreClose \/ AppFail
PeerStep == PeerConnects \/ PeerSends \/ PeerTakes \/ PeerLeaves

SocketNext == ConnStep \/ SockStep \/ MainStep \/ AppStep \/ PeerStep

\* Threads keep running and a call returns; the application need not call and
\* the peer need not do anything.
SocketFair ==
    /\ WF_socketVars(ConnStep)
    /\ WF_socketVars(SockStep)
    /\ WF_socketVars(Gateway)
    /\ WF_socketVars(AppStoreClose)

SocketSpec == SocketInit /\ [][SocketNext]_socketVars /\ SocketFair

-----------------------------------------------------------------------------
(* Properties.                                                             *)

\* The two jobs, the queues between them and the event loop carry messages in
\* order, once, and only while the descriptor is open; the descriptor is closed
\* once, by the free function of a connection that has failed.
Stream == INSTANCE ConnStream
            WITH failed <- "ERROR" \in conn.flags, open <- wire.fd

StreamSpec == Stream!Spec

\* The assertions of the free functions: a connection that is freed has been
\* closed (C_ERROR, C_FAILED, no io_conn), and a socket that is freed has left
\* the event loop, so the closed descriptor has no event.
FreedClean ==
    /\ sock.pc = "freed" => "ERROR" \in sock.flags /\ ~ev.data /\ ~ev.epoll
    /\ conn.pc = "freed" => /\ {"ERROR", "FAILED"} \subseteq conn.flags
                            /\ sock.pc = "freed" /\ ~conn.io /\ ~wire.fd

\* No wake-up is lost between readv or writev and epoll's edges: when the socket
\* job is at rest and epoll has nothing to report, input that a reading socket
\* has not taken, or output that the kernel has room for, does not exist.
NoLostEdge ==
    (/\ sock.pc = "idle" /\ sock.sigs = {} /\ ev.epoll /\ ev.ready = {}
     /\ sock.flags \cap {"ERROR", "NET_FAILED"} = {}
     /\ "CONNECTED" \in sock.flags) =>
      /\ "STOPREAD" \notin sock.flags => wire.rx = <<>>
      /\ sock.out # <<>> => wire.room = 0 \/ wire.peer # "up"

\* A connection that fails, for whatever reason and on whatever thread, is
\* freed and its descriptor closed.
FailedIsFreed == "ERROR" \in conn.flags ~> (conn.pc = "freed" /\ sock.pc = "freed")

\* net-connections.h, of conn_write_close: write all output buffer, then close.
WriteCloseCloses == conn.status = "write_close" ~> ~wire.fd
=============================================================================
