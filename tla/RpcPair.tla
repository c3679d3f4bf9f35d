------------------------------ MODULE RpcPair ------------------------------
(***************************************************************************)
(* The two ends of an RPC connection over TCP: net/net-tcp-rpc-client.c    *)
(* and net/net-tcp-rpc-server.c, with the packet framing of                *)
(* net-tcp-rpc-common.c, the keys of net-crypto-aes.c and net-crypto-dh.c  *)
(* and the writer of net-tcp-connections.c.  The proxy is the client of    *)
(* the data centres and the server of its own RPC port; both ends run this *)
(* code.                                                                   *)
(*                                                                         *)
(* Packets -2 (nonce) and -1 (handshake) choose encryption, key and        *)
(* checksum; packets 0, 1, ... carry messages.  Sizes are in 4-byte words, *)
(* because AES-CBC leaves an incomplete 16-byte block behind.  A packet    *)
(* under a key the receiver does not have decrypts to garbage, whose       *)
(* length word is refused.  Modes without a handshake (init_accepted_nohs, *)
(* the compact framings, the switch to HTTP) are other connection types.   *)
(***************************************************************************)
EXTENDS Integers, Sequences

CONSTANTS
    RpcConfigs,   \* the settings and environments considered, see ConfigOK
    MaxSends      \* bound: messages an application end sends

Sides == {"client", "server"}
Peer(s) == IF s = "client" THEN "server" ELSE "client"

PermFlags == {"UNENC", "ENC", "REQ_DH", "SKIP_DH"}
RpcFlags == PermFlags \cup {"ENC_SENT", "CRC32C"}

\* perm: what rpc_check_perm answers; crc: sides whose default flags have
\* RPCF_USE_CRC32C; secret: of the two ends, "prefix" when only the signature
\* is common; skew: clocks more than 30 s apart; pid: the server is who the
\* client expects; ignore: sides with TCP_RPC_IGNORE_PID; busy: sides whose
\* tcp_add_dh_accept refuses; faults: how often the network misbehaves.
ConfigOK(g) ==
    /\ g.perm \in [Sides -> {P \in SUBSET PermFlags : P \cap {"UNENC", "ENC"} # {}}]
    /\ g.crc \in SUBSET Sides
    /\ g.secret \in {"same", "prefix", "different"}
    /\ g.skew \in BOOLEAN /\ g.pid \in BOOLEAN
    /\ g.ignore \in SUBSET Sides /\ g.busy \in SUBSET Sides
    /\ g.faults \in Nat

ASSUME RpcAssumption == MaxSends \in Nat /\ \A g \in RpcConfigs : ConfigOK(g)

VARIABLES
    rcfg,    \* the configuration, fixed
    rend,    \* struct tcp_rpc_data and the connection's buffers, per side
    rwire,   \* the packets on the way to a side
    rsent,   \* the messages a side's application, or its ping answer, queued
    rgot,    \* the messages a side executed
    rfaults  \* faults so far

rpcVars == <<rcfg, rend, rwire, rsent, rgot, rfaults>>

Plain == <<>>

NewEnd == [up |-> FALSE, in |-> -2, num |-> -2, flags |-> {}, crc |-> "crc32",
           key |-> Plain, temp |-> FALSE, outq |-> <<>>, out |-> <<>>,
           error |-> 0]

RpcInit ==
    /\ rcfg \in RpcConfigs
    /\ rend = [s \in Sides |-> NewEnd]
    /\ rwire = [s \in Sides |-> <<>>]
    /\ rsent = [s \in Sides |-> <<>>]
    /\ rgot = [s \in Sides |-> <<>>]
    /\ rfaults = 0

-----------------------------------------------------------------------------
(* Packets.                                                                *)

\* Length, number, body and checksum: a packet is three words longer than its
\* body.
BodyWords == [nonce |-> 8, handshake |-> 8, error |-> 5, msg |-> 1,
              ping |-> 3, pong |-> 3, pad |-> 1]
PacketWords(p) == IF p.type = "pad" THEN 1 ELSE BodyWords[p.type] + 3

TotalWords(q) ==
    LET sum[i \in 0 .. Len(q)] == IF i = 0 THEN 0 ELSE sum[i - 1] + PacketWords(q[i])
    IN  sum[Len(q)]

Packet(body, num, crc) ==
    [type |-> body.type, body |-> body, num |-> num, crc |-> crc, key |-> Plain,
     intact |-> TRUE]

\* Mutant of FlushPad: the last block is not filled up.
FlushNothing(out) == {out}

\* tcp_rpc_flush: words 4, each skipped as an empty packet, up to a whole block
\* (the set has one element).
PadPacket == Packet([type |-> "pad"], 0, "none")
FlushPad(out) ==
    {out \o [i \in 1 .. k |-> PadPacket] :
        k \in {j \in 0 .. 3 : (TotalWords(out) + j) % 4 = 0}}

\* cpu_tcp_aes_crypto_encrypt_output takes whole blocks only.  An incomplete
\* one holds at most three words, so it cuts the last packet, which the receiver
\* cannot read before the rest of it has come.
WholeBlocks(out) ==
    IF TotalWords(out) % 4 = 0 THEN out ELSE SubSeq(out, 1, Len(out) - 1)

\* aes_create_keys: both nonces, the secret and, after a DH exchange, g_ab.
CreateKey(server_nonce, client_nonce, secret, dh) ==
    <<server_nonce, client_nonce, secret, dh>>

OwnNonce(s) == IF s = "client" THEN "nonce_c" ELSE "nonce_s"
OwnSecret(s) == IF rcfg.secret = "same" THEN "secret" ELSE OwnNonce(s)

\* select_best_key_signature of the signature in the peer's packet.
KeyKnown(p) == p.body.key_select /\ rcfg.secret # "different"

\* fail_connection
FailEnd(d, code) == [d EXCEPT !.error = code]

Queue(d, body) == [d EXCEPT !.outq = Append(@, body)]

-----------------------------------------------------------------------------
(* The client opens.                                                       *)

\* tcp_rpcc_init_crypto and tcp_rpcc_init_fake_crypto.
ClientNonce(perm) ==
    LET enc == "ENC" \in perm
    IN  [type |-> "nonce", key_select |-> enc,
         schema |-> IF ~ enc THEN "NONE"
                    ELSE IF "REQ_DH" \in perm THEN "AES_DH" ELSE "AES",
         nonce |-> IF enc THEN OwnNonce("client") ELSE "zero"]

\* tcp_rpcs_init_accepted at one end, tcp_rpcc_init_outbound and then
\* tcp_rpcc_connected at the other: the nonce goes to the output queue.
RpcConnect ==
    LET perm == rcfg.perm["client"]
        dh   == {"ENC", "REQ_DH"} \subseteq perm
        new  == [NewEnd EXCEPT !.up = TRUE,
                               !.flags = perm \cup {"ENC_SENT"}, !.temp = dh]
        refused == "REQ_DH" \in perm /\ "client" \in rcfg.busy
    IN  /\ ~ rend["client"].up
        /\ rend' = [s \in Sides |->
               IF s = "server"
               THEN [NewEnd EXCEPT !.up = TRUE, !.flags = rcfg.perm["server"]]
               ELSE IF refused THEN [NewEnd EXCEPT !.up = TRUE, !.error = -1]
                    ELSE Queue(new, ClientNonce(perm))]
        /\ UNCHANGED <<rcfg, rwire, rsent, rgot, rfaults>>

\* cpu_tcp_server_writer: tcp_rpc_write_packet numbers and checks what is
\* queued, tcp_rpc_flush pads, and whole blocks are encrypted and go out.
RpcWrite(s) ==
    /\ rend[s].up /\ rend[s].error = 0
    /\ rend[s].outq # <<>> \/ rend[s].out # <<>>
    /\ \E d \in {rend[s]} :
       \E out \in {d.out \o [i \in DOMAIN d.outq |->
                               Packet(d.outq[i], d.num + i - 1, d.crc)]} :
       \E full \in IF d.key = Plain THEN {out} ELSE FlushPad(out) :
       \E ready \in {IF d.key = Plain THEN full ELSE WholeBlocks(full)} :
         /\ rend' = [rend EXCEPT ![s].outq = <<>>, ![s].num = @ + Len(d.outq),
                ![s].out = SubSeq(full, Len(ready) + 1, Len(full))]
         /\ rwire' = [rwire EXCEPT ![Peer(s)] = @ \o
                [i \in DOMAIN ready |-> [ready[i] EXCEPT !.key = d.key]]]
    /\ UNCHANGED <<rcfg, rsent, rgot, rfaults>>

-----------------------------------------------------------------------------
(* Nonces.                                                                 *)

\* tcp_rpcs_process_nonce_packet answers without encryption when the client
\* asks for none, or when it cannot encrypt with this client.
ServerFallsBack(d, p) ==
    p.body.schema = "NONE" \/ ~ KeyKnown(p) \/ "ENC" \notin d.flags

SkipsDh(d, p) ==
    "REQ_DH" \in d.flags /\ p.body.schema # "AES_DH" /\ "SKIP_DH" \in d.flags

\* The error it returns, 0 for none.
ServerNonceError(d, p) ==
    IF ServerFallsBack(d, p)
    THEN IF "UNENC" \in d.flags THEN 0
         ELSE IF p.body.schema # "NONE" /\ ~ KeyKnown(p) THEN -3 ELSE -5
    ELSE IF rcfg.skew THEN -6
    ELSE IF "REQ_DH" \notin d.flags \/ SkipsDh(d, p) THEN 0
    ELSE IF p.body.schema # "AES_DH" THEN -7
    ELSE IF "server" \in rcfg.busy THEN -6
    ELSE 0

\* Its flags, and tcp_rpcs_init_crypto or tcp_rpcs_init_fake_crypto, whose
\* answer goes straight to the socket (tcp_rpc_conn_send_init): it is not
\* encrypted though the connection's crypto is set already.
ServerNonce(d, p) ==
    LET flags == IF ServerFallsBack(d, p) THEN {"UNENC"}
                 ELSE (d.flags \ {"UNENC"}) \
                        (IF SkipsDh(d, p) THEN {"REQ_DH", "SKIP_DH"} ELSE {})
        dh    == "REQ_DH" \in flags
        reply == IF flags = {"UNENC"}
                 THEN [type |-> "nonce", key_select |-> FALSE,
                       schema |-> "NONE", nonce |-> "zero"]
                 ELSE [type |-> "nonce", key_select |-> TRUE,
                       schema |-> IF dh THEN "AES_DH" ELSE "AES",
                       nonce |-> OwnNonce("server")]
    IN  [end |-> [d EXCEPT !.flags = flags \cup {"ENC_SENT"}, !.in = @ + 1,
                           !.num = @ + 1,
                           !.key = IF flags = {"UNENC"} THEN Plain
                                   ELSE CreateKey(OwnNonce("server"), p.body.nonce,
                                                  OwnSecret("server"), dh)],
         reply |-> Packet(reply, d.num, d.crc)]

\* tcp_rpcc_process_nonce_packet; rest: input that came with the nonce, which
\* tcp_rpcc_start_crypto refuses.
ClientNonceError(d, p, rest) ==
    IF p.body.schema = "NONE" THEN IF "UNENC" \in d.flags THEN 0 ELSE -5
    ELSE IF p.body.schema = "AES_DH" /\ ~ d.temp THEN -7
    ELSE IF ~ KeyKnown(p) THEN -3
    ELSE IF "ENC" \notin d.flags THEN -5
    ELSE IF rcfg.skew THEN -6
    ELSE IF "REQ_DH" \in d.flags /\ "SKIP_DH" \notin d.flags
                 /\ p.body.schema # "AES_DH" THEN -7
    ELSE IF d.key # Plain \/ rest \/ d.out # <<>> THEN -6
    ELSE 0

\* tcp_rpcc_start_crypto, and tcp_rpcc_send_handshake_packet.
ClientAnswer(d, p) ==
    LET plain == p.body.schema = "NONE"
        next  == [d EXCEPT !.in = @ + 1, !.temp = @ /\ plain,
                           !.flags = IF plain THEN {"UNENC"} ELSE @,
                           !.key = IF plain THEN Plain
                                   ELSE CreateKey(p.body.nonce, OwnNonce("client"),
                                                  OwnSecret("client"),
                                                  p.body.schema = "AES_DH")]
    IN  Queue(next, [type |-> "handshake", crc32c |-> "client" \in rcfg.crc])

-----------------------------------------------------------------------------
(* Handshakes.                                                             *)

PidRefused(s) == ~ rcfg.pid /\ s \notin rcfg.ignore

\* A refused handshake is answered by an error packet, which the failed
\* connection's writer never sends.
RefuseHandshake(d, code) == FailEnd(Queue(d, [type |-> "error"]), code)

\* tcp_rpcs_process_handshake_packet, tcp_rpcs_send_handshake_packet and the
\* change of checksum: the answer is numbered and checked at once
\* (tcp_rpc_conn_send_im), with the checksum in use so far.
ServerHandshake(d, p) ==
    LET crc32c == p.body.crc32c /\ "server" \in rcfg.crc
        reply  == Packet([type |-> "handshake", crc32c |-> crc32c], d.num, d.crc)
    IN  IF PidRefused("server") THEN RefuseHandshake(d, -4)
        ELSE [d EXCEPT !.in = @ + 1, !.num = @ + 1, !.out = Append(@, reply),
                       !.flags = @ \cup (IF crc32c THEN {"CRC32C"} ELSE {}),
                       !.crc = IF crc32c THEN "crc32c" ELSE @]

\* tcp_rpcc_process_handshake_packet
ClientHandshake(d, p) ==
    IF PidRefused("client") THEN RefuseHandshake([d EXCEPT !.in = @ + 1], -6)
    ELSE IF p.body.crc32c /\ "client" \notin rcfg.crc
    THEN RefuseHandshake([d EXCEPT !.in = @ + 1], -8)
    ELSE [d EXCEPT !.in = @ + 1,
                   !.flags = @ \cup (IF p.body.crc32c THEN {"CRC32C"} ELSE {}),
                   !.crc = IF p.body.crc32c THEN "crc32c" ELSE @]

-----------------------------------------------------------------------------
(* tcp_rpcc_parse_execute and tcp_rpcs_parse_execute, one packet at a time. *)

CanParse(s) == rend[s].up /\ rend[s].error = 0 /\ rwire[s] # <<>>

\* Mutant of FrameError: the number of the packet is not compared.
FrameErrorUnnumbered(s, p) ==
    LET d == rend[s]
    IN  IF p.key # d.key THEN -1
        ELSE IF ~ p.intact \/ p.crc # d.crc THEN IF s = "client" THEN -3 ELSE -1
        ELSE 0

\* Refused before it is looked into: garbage, a wrong checksum, and a number
\* that is not the next.
FrameError(s, p) ==
    LET d == rend[s]
    IN  IF p.key # d.key THEN -1
        ELSE IF ~ p.intact \/ p.crc # d.crc THEN IF s = "client" THEN -3 ELSE -1
        ELSE IF p.num # d.in THEN IF s = "client" THEN -4 ELSE -1
        ELSE 0

ParseFrame(s) ==
    /\ CanParse(s)
    /\ LET p == Head(rwire[s])
       IN  /\ \/ /\ p.type = "pad" /\ p.key = rend[s].key
                 /\ UNCHANGED rend
              \/ /\ p.type # "pad" \/ p.key # rend[s].key
                 /\ FrameError(s, p) # 0
                 /\ rend' = [rend EXCEPT ![s] = FailEnd(@, FrameError(s, p))]
    /\ rwire' = [rwire EXCEPT ![s] = Tail(@)]
    /\ UNCHANGED <<rcfg, rsent, rgot, rfaults>>

\* The packet to look into, when the next one is good.
Good(s) ==
    IF CanParse(s)
    THEN {p \in {Head(rwire[s])} : p.type # "pad" /\ FrameError(s, p) = 0}
    ELSE {}

ParseServerNonce ==
    \E p \in Good("server") :
        /\ p.num = -2
        /\ LET d == rend["server"]
               code == ServerNonceError(d, p)
               done == ServerNonce(d, p)
           IN  \/ /\ code # 0
                  /\ rend' = [rend EXCEPT !["server"] = FailEnd(@, code)]
                  /\ rwire' = [rwire EXCEPT !["server"] = Tail(@)]
               \/ /\ code = 0
                  /\ rend' = [rend EXCEPT !["server"] = done.end]
                  /\ rwire' = [rwire EXCEPT !["server"] = Tail(@),
                                            !["client"] = Append(@, done.reply)]
        /\ UNCHANGED <<rcfg, rsent, rgot, rfaults>>

ParseClientNonce ==
    \E p \in Good("client"), rest \in {FALSE, Len(rwire["client"]) > 1} :
        /\ p.num = -2
        /\ LET d == rend["client"]
               code == ClientNonceError(d, p, rest)
           IN  rend' = [rend EXCEPT !["client"] =
                   IF code # 0 THEN FailEnd([d EXCEPT !.in = @ + 1], code)
                   ELSE ClientAnswer(d, p)]
        /\ rwire' = [rwire EXCEPT !["client"] = Tail(@)]
        /\ UNCHANGED <<rcfg, rsent, rgot, rfaults>>

ParseHandshake(s) ==
    \E p \in Good(s) :
        /\ p.num = -1
        /\ rend' = [rend EXCEPT ![s] = IF s = "server" THEN ServerHandshake(@, p)
                                       ELSE ClientHandshake(@, p)]
        /\ rwire' = [rwire EXCEPT ![s] = Tail(@)]
        /\ UNCHANGED <<rcfg, rsent, rgot, rfaults>>

\* A message is executed; a ping is answered (tcp_rpc_default_execute and
\* tcp_rpcs_default_execute).
ParseMessage(s) ==
    \E p \in Good(s) :
        /\ p.num >= 0
        /\ rgot' = [rgot EXCEPT ![s] = Append(@, p.body)]
        /\ LET d == [rend[s] EXCEPT !.in = @ + 1]
               pong == [type |-> "pong", id |-> p.body.id]
           IN  IF p.type = "ping"
               THEN /\ rend' = [rend EXCEPT ![s] = Queue(d, pong)]
                    /\ rsent' = [rsent EXCEPT ![s] = Append(@, pong)]
               ELSE /\ rend' = [rend EXCEPT ![s] = d]
                    /\ UNCHANGED rsent
        /\ rwire' = [rwire EXCEPT ![s] = Tail(@)]
        /\ UNCHANGED <<rcfg, rfaults>>

-----------------------------------------------------------------------------
(* The applications, the clock and the network.                            *)

\* The connection is offered to its application: cr_ok of
\* tcp_rpcc_default_check_ready, tcp_conn_ready of the server.
Ready(s) == rend[s].up /\ rend[s].error = 0 /\ rend[s].in >= 0

\* tcp_rpc_conn_send, tcp_rpc_send_ping
RpcSend(s) ==
    /\ Ready(s)
    /\ Len(SelectSeq(rsent[s], LAMBDA b : b.type # "pong")) < MaxSends
    /\ \E type \in {"msg", "ping"} :
         LET body == [type |-> type, id |-> Len(rsent[s]) + 1]
         IN  /\ rend' = [rend EXCEPT ![s] = Queue(@, body)]
             /\ rsent' = [rsent EXCEPT ![s] = Append(@, body)]
    /\ UNCHANGED <<rcfg, rwire, rgot, rfaults>>

Quiet == \A s \in Sides : /\ rwire[s] = <<>>
                          /\ rend[s].error = 0 => rend[s].outq \o rend[s].out = <<>>

\* tcp_rpcc_default_check_ready, 3 seconds after the connection was opened:
\* nothing more is on its way, or the network was slow, which is a fault.
RpcTimeout ==
    /\ rend["client"].up /\ rend["client"].error = 0 /\ rend["client"].in < 0
    /\ \/ Quiet /\ UNCHANGED rfaults
       \/ ~ Quiet /\ rfaults < rcfg.faults /\ rfaults' = rfaults + 1
    /\ rend' = [rend EXCEPT !["client"] = FailEnd(@, -6)]
    /\ UNCHANGED <<rcfg, rwire, rsent, rgot>>

\* The socket reports that the peer closed.
PeerClosed(s) ==
    /\ rend[s].up /\ rend[s].error = 0
    /\ rend[Peer(s)].error # 0 /\ rwire[s] = <<>>
    /\ rend' = [rend EXCEPT ![s] = FailEnd(@, -1)]
    /\ UNCHANGED <<rcfg, rwire, rsent, rgot, rfaults>>

\* A packet is damaged, lost or repeated on the way.
NetFault(s) ==
    /\ rfaults < rcfg.faults /\ rwire[s] # <<>>
    /\ \/ rwire' = [rwire EXCEPT ![s][1].intact = FALSE]
       \/ rwire' = [rwire EXCEPT ![s] = Tail(@)]
       \/ rwire' = [rwire EXCEPT ![s] = <<Head(@)>> \o @]
    /\ rfaults' = rfaults + 1
    /\ UNCHANGED <<rcfg, rend, rsent, rgot>>

RpcStep(s) ==
    RpcWrite(s) \/ ParseFrame(s) \/ ParseHandshake(s) \/ ParseMessage(s)
        \/ PeerClosed(s)

RpcNext ==
    \/ RpcConnect
    \/ \E s \in Sides : RpcStep(s) \/ RpcSend(s) \/ NetFault(s)
    \/ ParseServerNonce \/ ParseClientNonce
    \/ RpcTimeout

\* The jobs of the connections run while they are signalled, and check_ready is
\* called by the target's job again and again.
RpcFair ==
    /\ WF_rpcVars(RpcConnect)
    /\ \A s \in Sides : WF_rpcVars(RpcStep(s))
    /\ WF_rpcVars(ParseServerNonce) /\ WF_rpcVars(ParseClientNonce)
    /\ WF_rpcVars(RpcTimeout)

RpcSpec == RpcInit /\ [][RpcNext]_rpcVars /\ RpcFair

-----------------------------------------------------------------------------
(* Properties.                                                             *)

\* The type invariant of the model.
RpcTypeOK ==
    /\ rcfg.secret \in {"same", "different", "prefix"} /\ rcfg.faults \in Nat
    /\ \A s \in Sides :
         /\ rend[s].up \in BOOLEAN /\ rend[s].temp \in BOOLEAN
         /\ rend[s].in \in Int /\ rend[s].num \in Int /\ rend[s].error \in -8 .. 0
         /\ rend[s].flags \subseteq RpcFlags
         /\ rend[s].crc \in {"crc32", "crc32c"}
    /\ rfaults \in 0 .. rcfg.faults

\* What two ends with these settings must agree on, said without the order in
\* which the packets are looked at.
CanEncrypt == (\A s \in Sides : "ENC" \in rcfg.perm[s]) /\ rcfg.secret # "different"
BothDh == \A s \in Sides : "REQ_DH" \in rcfg.perm[s]
Agreed ==
    [key |-> CanEncrypt, dh |-> CanEncrypt /\ BothDh,
     crc |-> IF rcfg.crc = Sides THEN "crc32c" ELSE "crc32"]
Agreeable ==
    /\ "REQ_DH" \in rcfg.perm["client"] => "client" \notin rcfg.busy
    /\ IF CanEncrypt
       THEN /\ ~ rcfg.skew /\ rcfg.secret = "same"
            /\ BothDh => "server" \notin rcfg.busy
            /\ ~ BothDh => \A s \in Sides :
                   "REQ_DH" \in rcfg.perm[s] => "SKIP_DH" \in rcfg.perm[s]
       ELSE \A s \in Sides : "UNENC" \in rcfg.perm[s]

\* An end offers the connection to its application only when the settings of
\* both allow one, and then with the encryption, the Diffie-Hellman exchange and
\* the checksum that they imply (no downgrade): the handshakes of
\* tcp_rpcc_process_nonce_packet, tcp_rpcs_process_nonce_packet and after.
RpcNegotiated ==
    \A s \in Sides : Ready(s) =>
        /\ Agreeable /\ (rcfg.pid \/ s \in rcfg.ignore)
        /\ Agreed = [key |-> rend[s].key # Plain,
                     dh  |-> rend[s].key # Plain /\ rend[s].key[4],
                     crc |-> rend[s].crc]
        /\ Ready(Peer(s)) => rend[s].key = rend[Peer(s)].key

\* The messages an end executes are the first ones its peer sent, in order and
\* each once, whatever the network does to packets: the checks of checksum and
\* packet number of the two parse_execute functions.
RpcInOrder ==
    \A s \in Sides : rgot[s] = SubSeq(rsent[Peer(s)], 1, Len(rgot[s]))

\* Both: what two ends agreed on, and what they then say to each other.
RpcAgreed == RpcNegotiated /\ RpcInOrder

Served == \A s \in Sides : Ready(s) /\ (rfaults = 0 => rgot[s] = rsent[Peer(s)])
Closed ==
    /\ \A s \in Sides : rend[s].error # 0
    /\ ~ Agreeable \/ (~ rcfg.pid /\ rcfg.ignore # Sides) \/ rfaults > 0

\* Every connection that begins ends served, at both ends and with nothing left
\* in an incomplete block, or closed at both ends, and closed only for a reason:
\* the order of the handshake's packets, padding, checksum change and timeout.
RpcSettles == [](\A s \in Sides : rend[s] = NewEnd) \/ <>[]Served \/ <>[]Closed
=============================================================================
