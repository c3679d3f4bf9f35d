---------------------------- MODULE AdminServer -----------------------------
(***************************************************************************)
(* The admin thread of net/net-tcp-rpc-ext-server.c: one client at a time, *)
(* blocking reads and writes, a text line or an HTTP request per client,   *)
(* and ext_secret_lock, which the thread of the client connections needs   *)
(* for every handshake.                                                    *)
(*                                                                         *)
(* A request is a sequence of pieces, cut wherever recv may cut it.  What  *)
(* a command does to the secrets is module SecretStore; here it is the     *)
(* call that is made (ran), and its outcome is any the call may have.      *)
(***************************************************************************)
EXTENDS Naturals, Sequences, FiniteSets

CONSTANTS
    AdminClients,   \* clients of the admin socket; each may come again
    AdminRequests,  \* what they may ask, see RequestOK
    AdminToken,     \* a token is configured
    AdminBuf,       \* pieces that fit the buffer of ext_admin_handle_client
    AdminSecrets    \* bound: number of secrets a LIST sends

ReadCmds  == {"STATUS", "STATS", "LIST"}
WriteCmds == {"ADD", "REMOVE", "ENABLE", "DISABLE", "UPDATE", "EXPIRE_DISABLE"}

\* auth: it carries the token; secret, opt: it has these arguments.
RequestOK(r) ==
    /\ r.proto \in {"line", "http"}
    /\ r.cmd \in ReadCmds \cup WriteCmds \cup {"PING", "other"}
    /\ r.auth \in BOOLEAN /\ r.secret \in BOOLEAN /\ r.opt \in BOOLEAN

ASSUME AdminAssumption ==
    /\ IsFiniteSet(AdminClients) /\ AdminToken \in BOOLEAN
    /\ AdminBuf \in Nat \ {0} /\ AdminSecrets \in Nat
    /\ \A r \in AdminRequests : RequestOK(r)

VARIABLES
    acl,      \* client -> its connection
    backlog,  \* clients that wait for accept
    asrv,     \* the admin thread
    alock,    \* ext_secret_lock: who holds it for reading, for writing
    proxying, \* the thread of the client connections: where it is in a handshake
    ran       \* the calls made for the client that is being served

adminVars == <<acl, backlog, asrv, alock, proxying, ran>>

-----------------------------------------------------------------------------
(* The stream of a client.                                                 *)

Given(b, piece) == IF b THEN <<piece>> ELSE <<>>

\* The secret of these HTTP requests is part of the path.
InPath(r) == r.proto = "http" /\ r.cmd \in {"REMOVE", "ENABLE", "DISABLE", "UPDATE"}

\* A method is recognised once its first word is whole; the headers end with an
\* empty line, which recv may cut as well.
Body(r) == Given(r.secret /\ ~InPath(r), "secret") \o Given(r.opt, "opt")
Stream(r) ==
    IF r.proto = "http"
    THEN <<"m1", "m2", "head", "e1", "e2">> \o Body(r)
    ELSE <<"cmd">> \o Given(r.auth, "token") \o Body(r) \o <<"nl">>

Got(r, n) == {Stream(r)[i] : i \in 1 .. n}

\* ext_is_http_method_prefix
IsHttp(r, n) == {"m1", "m2"} \subseteq Got(r, n)

\* Mutant of Complete: the length of the body is not waited for.
HeadersOnly(r, n) ==
    IF IsHttp(r, n) THEN "e2" \in Got(r, n) ELSE "nl" \in Got(r, n)

\* The loop of ext_admin_handle_client ends: a line with its newline, or headers
\* with a body of Content-Length bytes.
Complete(r, n) ==
    IF IsHttp(r, n)
    THEN "e2" \in Got(r, n) /\ n >= 5 + Len(Body(r))
    ELSE "nl" \in Got(r, n)

\* What ext_admin_handle_line and ext_admin_handle_http read in n pieces.
Parsed(r, n) ==
    LET whole == IF r.proto = "http" THEN "m2" \in Got(r, n) ELSE "cmd" \in Got(r, n)
    IN  [cmd |-> IF whole THEN r.cmd ELSE "other",
         auth |-> IF r.proto = "http" THEN r.auth /\ "head" \in Got(r, n)
                  ELSE "token" \in Got(r, n),
         secret |-> "secret" \in Got(r, n) \/ (whole /\ r.secret /\ InPath(r)),
         opt |-> "opt" \in Got(r, n)]

-----------------------------------------------------------------------------

\* No client; what it has: pieces in, replies left to send, OOM on the way.
AdminIdle == [pc |-> "accept", client |-> 0, in |-> 0, left |-> 0]

NoClient == [state |-> "out", req |-> 0, sent |-> 0, unread |-> 0, ended |-> FALSE]

AdminInit ==
    /\ acl = [c \in AdminClients |-> NoClient]
    /\ backlog = <<>>
    /\ asrv = AdminIdle
    /\ alock = [readers |-> {}, writer |-> "none"]
    /\ proxying = "idle"
    /\ ran = <<>>

MayRead  == alock.writer = "none"
MayWrite == alock.writer = "none" /\ alock.readers = {}
Take(t, mode) == alock' = IF mode = "read"
                          THEN [alock EXCEPT !.readers = @ \cup {t}]
                          ELSE [alock EXCEPT !.writer = t]
Drop(t) == alock' = [readers |-> alock.readers \ {t},
                     writer |-> IF alock.writer = t THEN "none" ELSE alock.writer]

Me == acl[asrv.client]
Asked == Parsed(Me.req, asrv.in)

\* A reply of n sends, then close.
Reply(n) == asrv' = [asrv EXCEPT !.pc = "send", !.left = n]

-----------------------------------------------------------------------------
(* The admin thread.                                                       *)

\* ext_admin_thread_main: accept.  What this client asks shows from here on; it
\* may have been sent before.
AdminAccept ==
    /\ asrv.pc = "accept" /\ backlog # <<>>
    /\ backlog' = Tail(backlog)
    /\ \E r \in AdminRequests :
         acl' = [acl EXCEPT ![Head(backlog)].state = "served",
                            ![Head(backlog)].req = r]
    /\ asrv' = [AdminIdle EXCEPT !.pc = "recv", !.client = Head(backlog)]
    /\ UNCHANGED <<alock, proxying, ran>>

\* One recv: some of what was sent.  A full buffer ends the loop too.
AdminRecv ==
    /\ asrv.pc = "recv"
    /\ \E n \in asrv.in + 1 .. Me.sent :
         /\ n <= AdminBuf
         /\ asrv' = [asrv EXCEPT !.in = n,
              !.pc = IF Complete(Me.req, n) \/ n = AdminBuf THEN "parse" ELSE "recv"]
    /\ UNCHANGED <<backlog, acl, alock, proxying, ran>>

\* The client has closed its end: what has come is handled as it is.
AdminEof ==
    /\ asrv.pc = "recv" /\ Me.ended /\ Me.sent = asrv.in
    /\ asrv' = [asrv EXCEPT !.pc = IF asrv.in = 0 THEN "close" ELSE "parse"]
    /\ UNCHANGED <<backlog, acl, alock, proxying, ran>>

\* An HTTP request whose headers have not ended, a missing token, a missing
\* argument, an unknown command and PING are answered without the lock.
Refused(q) ==
    \/ IsHttp(Me.req, asrv.in) /\ "e2" \notin Got(Me.req, asrv.in)
    \/ AdminToken /\ ~q.auth
    \/ q.cmd \in {"PING", "other"}
    \/ q.cmd \in WriteCmds \ {"EXPIRE_DISABLE"} /\ ~q.secret
    \/ q.cmd = "UPDATE" /\ ~q.opt

\* ext_admin_handle_line, ext_admin_handle_http: the dispatch.
AdminParse ==
    /\ asrv.pc = "parse"
    /\ CASE Refused(Asked)           -> Reply(1)
         [] ~Refused(Asked) /\ Asked.cmd = "LIST" /\ Me.req.proto = "line" ->
              asrv' = [asrv EXCEPT !.pc = "list"]
         [] ~Refused(Asked) /\ Asked.cmd \in ReadCmds
              /\ ~(Asked.cmd = "LIST" /\ Me.req.proto = "line") ->
              asrv' = [asrv EXCEPT !.pc = "look"]
         [] OTHER                    -> asrv' = [asrv EXCEPT !.pc = "change"]
    /\ UNCHANGED <<backlog, acl, alock, proxying, ran>>

\* The commands of the store: the lock is held over the change and the save.
AdminChange ==
    /\ asrv.pc = "change" /\ MayWrite
    /\ Take("admin", "write")
    /\ ran' = Append(ran, Asked)
    /\ asrv' = [asrv EXCEPT !.pc = "changed"]
    /\ UNCHANGED <<backlog, acl, proxying>>

AdminChanged ==
    /\ asrv.pc = "changed"
    /\ Drop("admin")
    /\ Reply(1)
    /\ UNCHANGED <<backlog, acl, proxying, ran>>

\* STATUS, STATS and the HTTP lists format under the read lock, then send.
AdminLook ==
    /\ asrv.pc = "look" /\ MayRead
    /\ Take("admin", "read")
    /\ asrv' = [asrv EXCEPT !.pc = "format"]
    /\ UNCHANGED <<backlog, acl, proxying, ran>>

\* Mutant of AdminLooked: the path without memory returns with the lock.
LookedNoUnlock ==
    /\ asrv.pc = "format"
    /\ \/ Drop("admin") /\ Reply(2)
       \/ UNCHANGED alock /\ Reply(1)
    /\ UNCHANGED <<backlog, acl, proxying, ran>>

\* ext_http_append_list_json, ext_http_append_stats_json: out of memory ends
\* them early, the lock is released all the same.
AdminLooked ==
    /\ asrv.pc = "format"
    /\ Drop("admin")
    /\ \E n \in {1, 2} : Reply(n)
    /\ UNCHANGED <<backlog, acl, proxying, ran>>

\* The text LIST sends while it holds the read lock; the final line is sent
\* after that.
AdminList ==
    /\ asrv.pc = "list" /\ MayRead
    /\ Take("admin", "read")
    /\ asrv' = [asrv EXCEPT !.pc = "lines", !.left = 1 + AdminSecrets]
    /\ UNCHANGED <<backlog, acl, proxying, ran>>

\* ext_write_all: a send blocks while the client has not read, and fails at
\* once when it is gone.
AdminSend ==
    /\ asrv.pc \in {"send", "lines"} /\ asrv.left > 0
    /\ Me.unread = 0 \/ Me.state = "gone"
    /\ acl' = [acl EXCEPT ![asrv.client].unread = IF Me.state = "gone" THEN 0 ELSE 1]
    /\ asrv' = [asrv EXCEPT !.left = @ - 1]
    /\ UNCHANGED <<backlog, alock, proxying, ran>>

AdminListed ==
    /\ asrv.pc = "lines" /\ asrv.left = 0
    /\ Drop("admin")
    /\ Reply(1)
    /\ UNCHANGED <<backlog, acl, proxying, ran>>

AdminClose ==
    /\ asrv.pc = "close" \/ (asrv.pc = "send" /\ asrv.left = 0)
    /\ acl' = [acl EXCEPT ![asrv.client] = NoClient]
    /\ asrv' = AdminIdle
    /\ ran' = <<>>
    /\ UNCHANGED <<backlog, alock, proxying>>

-----------------------------------------------------------------------------
(* The clients, and a handshake: ext_snapshot_active_secrets reads,        *)
(* ext_metrics_attach_secret_to_connection writes.                         *)

ClientConnects(c) ==
    /\ acl[c].state = "out"
    /\ acl' = [acl EXCEPT ![c].state = "waiting"]
    /\ backlog' = Append(backlog, c)
    /\ UNCHANGED <<asrv, alock, proxying, ran>>

\* It sends its request; AdminRecv takes it in pieces.
ClientSends(c) ==
    /\ acl[c].state = "served" /\ acl[c].sent = 0 /\ ~acl[c].ended
    /\ acl' = [acl EXCEPT ![c].sent = Len(Stream(acl[c].req))]
    /\ UNCHANGED <<backlog, asrv, alock, proxying, ran>>

\* Or a part of it, and closes its end.
ClientCuts(c) ==
    /\ acl[c].state = "served" /\ acl[c].sent = 0 /\ ~acl[c].ended
    /\ \E n \in 0 .. Len(Stream(acl[c].req)) :
         acl' = [acl EXCEPT ![c].sent = n, ![c].ended = TRUE]
    /\ UNCHANGED <<backlog, asrv, alock, proxying, ran>>

\* It goes away without reading.
ClientLeaves(c) ==
    /\ acl[c].state = "served"
    /\ acl' = [acl EXCEPT ![c].ended = TRUE, ![c].state = "gone"]
    /\ UNCHANGED <<backlog, asrv, alock, proxying, ran>>

ClientReads(c) ==
    /\ acl[c].unread > 0
    /\ acl' = [acl EXCEPT ![c].unread = 0]
    /\ UNCHANGED <<backlog, asrv, alock, proxying, ran>>

ProxyStep ==
    /\ \/ proxying = "wantrd" /\ MayRead /\ Take("proxy", "read") /\ proxying' = "rd"
       \/ proxying = "rd" /\ Drop("proxy") /\ proxying' = "wantwr"
       \/ proxying = "wantwr" /\ MayWrite /\ Take("proxy", "write") /\ proxying' = "wr"
       \/ proxying = "wr" /\ Drop("proxy") /\ proxying' = "idle"
    /\ UNCHANGED <<backlog, acl, asrv, ran>>

Handshake ==
    /\ proxying = "idle" /\ proxying' = "wantrd"
    /\ UNCHANGED <<backlog, acl, asrv, alock, ran>>

AdminStep ==
    \/ AdminAccept \/ AdminRecv \/ AdminEof \/ AdminParse \/ AdminChange \/ AdminChanged
    \/ AdminLook \/ AdminLooked \/ AdminList \/ AdminSend \/ AdminListed
    \/ AdminClose

AdminNext ==
    \/ AdminStep \/ ProxyStep \/ Handshake
    \/ \E c \in AdminClients :
         \/ ClientConnects(c) \/ ClientSends(c) \/ ClientCuts(c)
         \/ ClientLeaves(c) \/ ClientReads(c)

\* The threads run, and get the lock when it is often free; a client sends what
\* it began to send, and reads, as there is no timeout against one that does not.
AdminFair ==
    /\ SF_adminVars(AdminStep)
    /\ SF_adminVars(ProxyStep)
    /\ \A c \in AdminClients : WF_adminVars(ClientSends(c)) /\ WF_adminVars(ClientReads(c))

AdminSpec == AdminInit /\ [][AdminNext]_adminVars /\ AdminFair

-----------------------------------------------------------------------------
(* Properties.                                                             *)

\* The type invariant of the model.
AdminTypeOK ==
    /\ \A c \in AdminClients :
         /\ acl[c].state \in {"out", "waiting", "served", "gone"}
         /\ acl[c].unread \in {0, 1}
    /\ asrv.in \in 0 .. AdminBuf
    /\ alock.readers \subseteq {"admin", "proxy"}
    /\ alock.writer # "none" => alock.readers = {}

\* A change is made only as the client asked for it, however its request was cut
\* into pieces on the way: it is executed when it has come whole, once.  Only a
\* client that closes its end early, or sends more than the buffer holds, is
\* taken at the words that have come.
AdminAsAsked ==
    ran # <<>> =>
      /\ Len(ran) = 1
      /\ LET n == Len(Stream(Me.req))
         IN  ran[1] = Parsed(Me.req, n) \/ Me.ended \/ n > AdminBuf

\* Every client is answered, and no handshake waits for ever: whatever a client
\* asks, and whichever error path is taken, ext_secret_lock is released.
AdminAnswers ==
    /\ \A c \in AdminClients : acl[c].state = "waiting" ~> acl[c].state = "out"
    /\ proxying = "wantrd" ~> proxying = "idle"
=============================================================================
