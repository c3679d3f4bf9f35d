----------------------------- MODULE MCServices -----------------------------
(* The servers of the proxy and what they run on: an RPC connection, the   *)
(* admin server, the probe of a camouflage domain, the event loop, the     *)
(* table of descriptors, the timers, the listening sockets, the HTTP server*)
(* and the configuration.  The models share no state, and a behaviour of   *)
(* this instance is one of one of them.                                    *)
EXTENDS RpcPair, AdminServer, DomainProbe, EventLoop, EventSlot, JobTimers,
        Listener, HttpServer, ProxyConfig, TLC

CONSTANTS f1, f2, f3, j1, j2, j3, l1, l2

VARIABLE part

serviceVars == <<rpcVars, adminVars, probeVars, loopVars, slotVars, timerVars,
                 listenVars, httpVars, cfgVars, part>>

-----------------------------------------------------------------------------
(* RpcPair: every pair of permissions; checksums and process ids; skew and *)
(* load; and a byte that is changed on the way.                            *)

Base  == [perm |-> [s \in Sides |-> {"ENC", "REQ_DH"}], crc |-> Sides,
          secret |-> "same", skew |-> FALSE, pid |-> TRUE, ignore |-> {},
          busy |-> {}, faults |-> 0]
Perms == {P \in SUBSET PermFlags : P \cap {"UNENC", "ENC"} # {}}
MCConfigs ==
       {[Base EXCEPT !.perm = p, !.secret = k] :
           p \in [Sides -> Perms], k \in {"same", "different"}}
  \cup {[Base EXCEPT !.crc = r, !.pid = b, !.ignore = i] :
           r \in SUBSET Sides, b \in BOOLEAN, i \in SUBSET Sides}
  \cup {[Base EXCEPT !.skew = b, !.busy = y, !.secret = k, !.perm["client"] = @ \cup p] :
           b \in BOOLEAN, y \in SUBSET Sides, k \in {"same", "prefix"},
           p \in {{}, {"UNENC"}}}
  \cup {[Base EXCEPT !.perm = [s \in Sides |-> p], !.faults = 1] :
           p \in {{"ENC"}, {"UNENC"}}}

(* AdminServer: both protocols, with and without the lock, allowed or not. *)

Ask(p, c, a, s, o) == [proto |-> p, cmd |-> c, auth |-> a, secret |-> s, opt |-> o]
MCRequests ==
    {Ask("line", "ADD", TRUE, TRUE, TRUE), Ask("http", "ADD", TRUE, TRUE, TRUE),
     Ask("line", "LIST", TRUE, FALSE, FALSE), Ask("http", "STATS", TRUE, FALSE, FALSE),
     Ask("http", "REMOVE", FALSE, TRUE, FALSE)}

(* EventLoop, JobTimers, Listener.                                         *)

MCPriority  == (f1 :> 0) @@ (f2 :> 0) @@ (f3 :> 1)
MCMaxRaised == (f1 :> 2) @@ (f2 :> 1) @@ (f3 :> 1)
MCManagerOf == (j1 :> MainThread) @@ (j2 :> 2) @@ (j3 :> NoManager)
MCMaxSets   == (j1 :> 1) @@ (j2 :> 1) @@ (j3 :> 2)
MCArrivals  == (l1 :> 2) @@ (l2 :> 1)

(* HttpServer: one request that keeps the connection, and another.         *)

Line(m, u, v) == m \o <<" ">> \o u \o <<" ">> \o v \o <<CR, LF>>
Stats     == <<"/st", "ats">>
V11       == <<"HTTP/1.", "1">>
V10       == <<"HTTP/1.", "0">>
KeepAlive == <<"connec", "tion", ":", " ", "keep-", "alive", CR, LF>>
Size(ds)  == <<"content-", "length", ":", " ">> \o ds \o <<LF>>
HostLine  == <<"ho", "st", ":", "x", CR, LF>>
End       == <<CR, LF>>
Get11     == Line(<<"GE", "T">>, Stats, V11)
Post11    == Line(<<"PO", "ST">>, Stats, V11)
Req(units, code, keep) == [units |-> units, code |-> code, keep |-> keep]
Keeping ==
    {Req(Get11 \o HostLine \o KeepAlive \o End, 200, TRUE),
     Req(Line(<<"GE", "T">>, <<"/x">>, V10) \o KeepAlive \o End, 404, TRUE),
     Req(Post11 \o KeepAlive \o <<LF>>, 411, TRUE)}
Closing ==
    {Req(Get11 \o <<"x", ":", " ", "y", CR, LF>> \o End, 200, FALSE),
     Req(<<"GE", "T", " ", "/st", "ats", LF>>, 200, FALSE),
     Req(Post11 \o KeepAlive \o Size(<<"1">>) \o End, 501, FALSE),
     Req(Get11 \o Size(<<"1", "0">>) \o KeepAlive \o End, 413, FALSE),
     Req(Get11 \o KeepAlive \o Size(<<"0">>) \o Size(<<"0">>) \o End, 400, FALSE),
     Req(Get11 \o KeepAlive \o Size(<<"5", "5", "5">>) \o End, 400, FALSE),
     Req(Line(<<"PUT">>, Stats, V11), 400, FALSE)}
MCStreams == {<<k, l>> : k \in Keeping, l \in Keeping \cup Closing}

(* ProxyConfig: all short files over these directives, and two longer.     *)

Dir(w, n, h, p) == [word |-> w, num |-> n, host |-> h, port |-> p, wellFormed |-> TRUE]
Lines ==
    {Dir("proxy", Missing, "a", 1), Dir("proxy_for", 2, "b", 1), Dir("proxy_for", 2, "a", 1),
     Dir("default", 2, "", 0), Dir("min_connections", 3, "", 0),
     Dir("max_connections", 2, "", 0), Dir("timeout", Missing, "", 0),
     [Dir("proxy", Missing, "b", 1) EXCEPT !.wellFormed = FALSE], Dir("proxy", Missing, "b", 0)}
MCFiles ==
    UNION {[1 .. n -> Lines] : n \in 1 .. 2}
    \cup {<<Dir("proxy", Missing, "a", 1), x, Dir("proxy", Missing, "b", 1)>> : x \in Lines}
    \cup {<<Dir("proxy", Missing, "a", 1), Dir("proxy_for", 2, "b", 1),
            Dir("proxy_for", 3, "b", 1), Dir("proxy_for", 3, "a", 1)>>}

-----------------------------------------------------------------------------

Parts == {"rpc", "admin", "probe", "loop", "slot", "timers", "listen", "http", "config"}

\* What does not run has one initial state.
ServiceInit ==
    /\ part \in Parts
    /\ RpcInit /\ (part = "rpc" \/ rcfg = Base)
    /\ AdminInit /\ ProbeInit /\ LoopInit /\ SlotInit /\ TimersInit
    /\ ListenInit /\ (part = "listen" \/ acc.fd = l1)
    /\ HttpInit /\ (part = "http" \/ hstream = CHOOSE q \in MCStreams : TRUE)
    /\ ConfigInit /\ (part = "config" \/ resolved = CfgHosts)

Others(p) ==
    /\ p # "rpc" => UNCHANGED rpcVars
    /\ p # "admin" => UNCHANGED adminVars
    /\ p # "probe" => UNCHANGED probeVars
    /\ p # "loop" => UNCHANGED loopVars
    /\ p # "slot" => UNCHANGED slotVars
    /\ p # "timers" => UNCHANGED timerVars
    /\ p # "listen" => UNCHANGED listenVars
    /\ p # "http" => UNCHANGED httpVars
    /\ p # "config" => UNCHANGED cfgVars

ServiceNext ==
    /\ \/ part = "rpc" /\ RpcNext
       \/ part = "admin" /\ AdminNext
       \/ part = "probe" /\ ProbeNext
       \/ part = "loop" /\ LoopNext
       \/ part = "slot" /\ SlotNext
       \/ part = "timers" /\ TimersNext
       \/ part = "listen" /\ ListenNext
       \/ part = "http" /\ HttpNext
       \/ part = "config" /\ ConfigNext
    /\ Others(part)
    /\ UNCHANGED part

\* The fairness of the parts, each for its own.
ServiceFair ==
    /\ WF_rpcVars(part = "rpc" /\ RpcConnect)
    /\ \A s \in Sides : WF_rpcVars(part = "rpc" /\ RpcStep(s))
    /\ WF_rpcVars(part = "rpc" /\ ParseServerNonce)
    /\ WF_rpcVars(part = "rpc" /\ ParseClientNonce)
    /\ WF_rpcVars(part = "rpc" /\ RpcTimeout)
    /\ SF_adminVars(part = "admin" /\ AdminStep)
    /\ SF_adminVars(part = "admin" /\ ProxyStep)
    /\ \A c \in AdminClients : /\ WF_adminVars(part = "admin" /\ ClientSends(c))
                               /\ WF_adminVars(part = "admin" /\ ClientReads(c))
    /\ WF_loopVars(part = "loop" /\ LoopStep)
    /\ WF_timerVars(part = "timers" /\ Tick)
    /\ WF_timerVars(part = "timers" /\ CheckAllTimers)
    /\ \A j \in TimerJobs : WF_timerVars(part = "timers" /\ Alarm(j))
    /\ \A m \in Managers : /\ WF_timerVars(part = "timers" /\ ManagerRun(m))
                           /\ WF_timerVars(part = "timers" /\ RunTimers(m))
                           /\ WF_timerVars(part = "timers" /\ AuxEnds(m))
    /\ WF_listenVars(part = "listen" /\ AcceptStep)
    /\ \A u \in Closers : /\ WF_listenVars(part = "listen" /\ CloseConnection(u))
                          /\ WF_listenVars(part = "listen" /\ CloseSignals(u))

ServiceSpec == ServiceInit /\ [][ServiceNext]_serviceVars /\ ServiceFair

(* The type invariants; the two heaps are heaps; the references to a job   *)
(* with a timer are counted; and a thread that takes a socket's job from   *)
(* the table of descriptors takes a living one.                            *)
ServicesInv ==
    /\ RpcTypeOK /\ AdminTypeOK /\ ProbeTypeOK /\ LoopTypeOK /\ SlotTypeOK
    /\ TimersTypeOK /\ ListenTypeOK /\ HttpTypeOK /\ ConfigTypeOK
    /\ EventHeapOrdered /\ HeapOrdered /\ TimerRefsCounted /\ TakenJobLives
=============================================================================
