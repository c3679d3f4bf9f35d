---------------------------- MODULE ExtHandshake ----------------------------
(***************************************************************************)
(* Client connections against the runtime secret store:                    *)
(* tcp_rpcs_compact_parse_execute of net/net-tcp-rpc-ext-server.c, run by  *)
(* the threads that own the connections while the admin thread changes the *)
(* store.  A handshake takes ext_secret_lock several times (to count the   *)
(* active secrets, to copy them, to attach the matched id), and works on   *)
(* the copy in between; each locked section is one action.                 *)
(*                                                                         *)
(* Abstracted: a client is the secret it uses at a stage; the hash and the *)
(* cipher match exactly the secret they were made with.  The checks on the *)
(* ClientHello before the secrets are tried (server name, port, length,    *)
(* the client random of module ReplayCache) and after (timestamp, cipher   *)
(* suites) have one outcome, the connection is handed to the domain.       *)
(***************************************************************************)
EXTENDS SecretStore

CONSTANTS
    Conns,         \* connection slots
    NoSecret,      \* a client whose header is keyed without any secret
    TlsModes       \* values of allow_only_tls (TRUE: a domain was given with -D)

ASSUME HandshakeAssumption ==
    /\ TlsModes \subseteq BOOLEAN
    /\ NoSecret \notin Secrets

VARIABLES
    allowOnlyTls,  \* allow_only_tls, set by the options at start
    conn,          \* the connections
    dead           \* history: secrets unusable ever since a connection was accepted

vars == <<storeVars, allowOnlyTls, conn, dead>>

\* Steps in the middle of one call of tcp_rpcs_compact_parse_execute.
Parsing == {"hello", "tlsmatch", "tlstotal", "match", "total"}

\* Steps between two calls.  In "new", "header" and "skip" the packet number
\* is still -3 and the accept timer is armed.
Waiting == {"new", "header", "skip", "open", "proxied"}

Pairs == Secrets \X Ids
Conn  == [pc    : {"closed"} \cup Parsing \cup Waiting,
          tls   : BOOLEAN,                 \* C_IS_TLS
          snap  : SUBSET Pairs,            \* active_secrets
          id    : 0 .. MaxId,              \* extra_int2
          owner : Secrets \cup {NoSecret}, \* history: the secret id was matched with
          via   : Secrets \cup {NoSecret}] \* history: the secret that let it in

NoConn == [pc |-> "closed", tls |-> FALSE, snap |-> {}, id |-> 0,
           owner |-> NoSecret, via |-> NoSecret]

\* The type invariant of the connections.
ConnTypeOK ==
    /\ allowOnlyTls \in BOOLEAN
    /\ conn \in [Conns -> Conn]
    /\ dead \in [Conns -> SUBSET Secrets]

TypeOK == StoreTypeOK /\ ConnTypeOK

\* Mutant of ActivePairs: expiry is left to the command that disables.
EnabledPairs ==
    {<<store[i].secret, store[i].id>> :
        i \in {k \in DOMAIN store : store[k].enabled}}

\* Secrets that open the door at this moment, with their ids.
ActivePairs ==
    {<<store[i].secret, store[i].id>> :
        i \in {k \in DOMAIN store : IsActive(store[k], clock)}}

Usable(q, now) == {q[i].secret : i \in {k \in DOMAIN q : IsActive(q[k], now)}}

\* History: a secret leaves a connection's set as soon as it is usable again.
TrackDead == dead' = [c \in Conns |-> dead[c] \ Usable(store', clock')]

Goto(c, pc) == conn' = [conn EXCEPT ![c].pc = pc]

-----------------------------------------------------------------------------

Init ==
    /\ StoreInit
    /\ allowOnlyTls \in TlsModes
    /\ conn = [c \in Conns |-> NoConn]
    /\ dead = [c \in Conns |-> {}]

\* tcp_rpcs_ext_init_accepted
Accept(c) ==
    /\ phase = "run"
    /\ conn[c].pc = "closed"
    /\ conn' = [conn EXCEPT ![c] = [NoConn EXCEPT !.pc = "new"]]
    /\ dead' = [dead EXCEPT ![c] = Secrets \ Usable(store, clock)]
    /\ UNCHANGED storeVars

\* A ClientHello header: the TLS branch is taken if some secret is active,
\* and the connection goes to the domain otherwise.
ClientHello(c) ==
    /\ conn[c].pc = "new"
    /\ allowOnlyTls
    /\ Goto(c, IF ActivePairs # {} THEN "hello" ELSE "proxied")
    /\ UNCHANGED <<storeVars, dead>>

\* Any other first bytes.
PlainHeader(c) ==
    /\ conn[c].pc = "new"
    /\ Goto(c, IF allowOnlyTls THEN "proxied" ELSE "header")
    /\ UNCHANGED <<storeVars, dead>>

\* ext_snapshot_active_secrets for the ClientHello, or a check before it failed.
SnapshotHello(c) ==
    /\ conn[c].pc = "hello"
    /\ \/ conn' = [conn EXCEPT ![c].pc = "tlsmatch", ![c].snap = ActivePairs]
       \/ Goto(c, "proxied")
    /\ UNCHANGED <<storeVars, dead>>

\* Mutant of Attach: the first secret stays attached.
AttachOnce(c, s, id, counting, after, C) ==
    IF conn[c].id > 0
    THEN /\ conn' = [conn EXCEPT ![c] = [C EXCEPT !.pc = after]]
         /\ UNCHANGED storeVars
    ELSE /\ conn' = [conn EXCEPT ![c] = [C EXCEPT !.pc = counting, !.id = id,
                                                  !.owner = s]]
         /\ CountAttach(id)

\* ext_metrics_attach_secret_to_connection up to its unlock; pc comes after
\* the increment of the total, which is skipped if nothing was attached.
Attach(c, s, id, counting, after, C) ==
    IF conn[c].id = id
    THEN /\ conn' = [conn EXCEPT ![c] = [C EXCEPT !.pc = after]]
         /\ UNCHANGED storeVars
    ELSE /\ conn' = [conn EXCEPT ![c] = [C EXCEPT !.pc = counting, !.id = id,
                                                  !.owner = s]]
         /\ CountAttach(id)

\* The ClientHello of a client with secret s is tried against the copy.
MatchHello(c, s) ==
    /\ conn[c].pc = "tlsmatch"
    /\ \/ \E p \in conn[c].snap :
            /\ p[1] = s
            /\ Attach(c, s, p[2], "tlstotal", "header",
                      [conn[c] EXCEPT !.tls = TRUE, !.snap = {}])
       \/ /\ conn' = [conn EXCEPT ![c].pc = "proxied", ![c].snap = {}]
          /\ UNCHANGED storeVars
    /\ UNCHANGED dead

\* The total's increment, for either stage.
AddTotal(c) ==
    /\ conn[c].pc \in {"tlstotal", "total"}
    /\ Goto(c, IF conn[c].pc = "total" THEN "open" ELSE "header")
    /\ CountTotal
    /\ UNCHANGED dead

\* ext_snapshot_active_secrets for the 64-byte header; without memory the
\* connection enters skip mode.
SnapshotHeader(c) ==
    /\ conn[c].pc = "header"
    /\ \/ conn' = [conn EXCEPT ![c].pc = "match", ![c].snap = ActivePairs]
       \/ MayOOM /\ ActivePairs # {} /\ Goto(c, "skip")
    /\ UNCHANGED <<storeVars, dead>>

(* The header of a client with secret s is tried against the copy: with no *)
(* active secret, against the key made without a secret.  Only the padded  *)
(* tag is accepted with allow_only_tls.                                    *)
Fits(c, s) == IF conn[c].snap = {} THEN s = NoSecret
                                   ELSE \E p \in conn[c].snap : p[1] = s

MatchHeader(c, s, padded) ==
    LET C == [conn[c] EXCEPT !.snap = {}] IN
    /\ conn[c].pc = "match"
    /\ \/ /\ Fits(c, s) /\ (allowOnlyTls => padded)
          /\ IF conn[c].snap = {}
               THEN /\ conn' = [conn EXCEPT ![c] = [C EXCEPT !.pc = "open", !.via = s]]
                    /\ UNCHANGED storeVars
               ELSE \E p \in conn[c].snap :
                      /\ p[1] = s
                      /\ Attach(c, s, p[2], "total", "open", [C EXCEPT !.via = s])
       \/ /\ Fits(c, s) /\ allowOnlyTls /\ ~padded
          /\ conn' = [conn EXCEPT ![c] = [C EXCEPT !.pc = "proxied"]]
          /\ UNCHANGED storeVars
       \/ /\ ~Fits(c, s)
          /\ conn' = [conn EXCEPT ![c] = [C EXCEPT !.pc = "skip"]]
          /\ UNCHANGED storeVars
    /\ UNCHANGED dead

\* tcp_rpcs_ext_alarm: ten seconds without an accepted header.
Alarm(c) ==
    /\ conn[c].pc \in {"new", "header", "skip"}
    /\ allowOnlyTls
    /\ Goto(c, "proxied")
    /\ UNCHANGED <<storeVars, dead>>

\* mtfront_data_received, mtfront_data_sent and the pass-through of a
\* proxied connection charge whatever id the connection carries.
Traffic(c) ==
    /\ conn[c].pc \in Waiting
    /\ conn[c].id > 0
    /\ CountTraffic(conn[c].id)
    /\ UNCHANGED <<conn, dead>>

\* The connection ends: by either side, or by fail_connection.
Close(c) ==
    /\ conn[c].pc \in Waiting
    /\ conn' = [conn EXCEPT ![c] = NoConn]
    /\ dead' = [dead EXCEPT ![c] = {}]
    /\ UNCHANGED storeVars

\* A restart closes every connection.
RestartAll(orderly) ==
    /\ Restart(orderly)
    /\ conn' = [c \in Conns |-> NoConn]
    /\ dead' = [c \in Conns |-> {}]

ConnStep(c) ==
    \/ Accept(c) \/ ClientHello(c) \/ PlainHeader(c) \/ SnapshotHello(c)
    \/ AddTotal(c) \/ SnapshotHeader(c) \/ Alarm(c) \/ Traffic(c) \/ Close(c)
    \/ \E s \in Secrets : MatchHello(c, s)
    \/ \E s \in Secrets \cup {NoSecret}, padded \in BOOLEAN :
         MatchHeader(c, s, padded)

StoreStep == (StartUp \/ Admin \/ Tick) /\ UNCHANGED conn /\ TrackDead

Next ==
    /\ \/ \E c \in Conns : ConnStep(c)
       \/ StoreStep
       \/ \E orderly \in BOOLEAN : RestartAll(orderly)
    /\ UNCHANGED allowOnlyTls

Spec == Init /\ [][Next]_vars

-----------------------------------------------------------------------------
(* Properties.                                                             *)

Settled(c) == conn[c].pc \in {"total", "open"}

(* Revocation takes effect at once for new connections.  README.md: "Secret *)
(* updates affect new handshakes immediately".  A connection that was      *)
(* accepted when a secret was already removed, disabled or expired is not  *)
(* let in by that secret unless it became usable again in between, however *)
(* the steps of the handshake fall between the commands of the admin       *)
(* thread and the seconds of the clock.                                    *)
RevokedStaysOut ==
    \A c \in Conns : Settled(c) => conn[c].via \notin dead[c]

(* An id attached to a connection names the secret it was matched with for *)
(* as long as the connection lives.  The id is read from a copy of the     *)
(* store and attached later, by when the entry may be gone and others      *)
(* added: the traffic of the connection never lands on another secret.     *)
NoStrayCharge ==
    \A c \in Conns : conn[c].id > 0 =>
      \A i \in DOMAIN store :
        store[i].id = conn[c].id => store[i].secret = conn[c].owner

(* An admitted connection is charged to the secret that let it in, also    *)
(* when its ClientHello had been matched with another one and attached it. *)
ChargedToAdmitting ==
    \A c \in Conns :
      Settled(c) /\ conn[c].via # NoSecret => conn[c].owner = conn[c].via

(* README.md: "after expiry, new handshakes are blocked automatically".    *)
(* A connection during whose whole life no secret of a non-empty store has *)
(* been usable is not let in.                                              *)
ExpiryBlocks ==
    [][\A c \in Conns :
         conn[c].pc # "open" /\ conn'[c].pc = "open" =>
           store = <<>> \/ dead[c] # Secrets]_vars
=============================================================================
