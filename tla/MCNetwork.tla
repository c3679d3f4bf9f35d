----------------------------- MODULE MCNetwork -----------------------------
(* The connection layer: a connection with its socket, and the targets     *)
(* with their pools of connections.  The two models share no state, and a  *)
(* behaviour of this instance is one of the first or one of the second.    *)
EXTENDS ConnSocket, ConnTarget

CONSTANT MaxBoth   \* bound: messages of both directions together

VARIABLE part

networkVars == <<socketVars, targetVars, part>>

NetworkInit ==
    /\ part \in {"socket", "target"}
    /\ SocketInit
    /\ part = "target" => sock = NewSocket(FALSE) /\ app.way = CHOOSE w \in Ways : TRUE
    /\ TargetInit

NetworkNext ==
    /\ \/ /\ part = "socket" /\ SocketNext /\ UNCHANGED targetVars
          /\ put'["out"] + put'["in"] <= MaxBoth
       \/ part = "target" /\ TargetNext /\ UNCHANGED socketVars
    /\ UNCHANGED part

\* SocketFair and TargetFair, each for its own part.
NetworkFair ==
    /\ WF_socketVars(part = "socket" /\ ConnStep)
    /\ WF_socketVars(part = "socket" /\ SockStep)
    /\ WF_socketVars(part = "socket" /\ Gateway)
    /\ WF_socketVars(part = "socket" /\ AppStoreClose)
    /\ \A t \in Targets : WF_targetVars(part = "target" /\ MainFree /\ TargetWork(t))
    /\ \A c \in Conns : WF_targetVars(part = "target" /\ ConnCount(c))
    /\ \A c \in Conns : WF_targetVars(part = "target" /\ MainFree /\ ConnCloses(c))

NetworkSpec == NetworkInit /\ [][NetworkNext]_networkVars /\ NetworkFair

(* The type invariants, and what the free functions assert of what they    *)
(* free.                                                                   *)
NetworkInv == SocketTypeOK /\ TargetTypeOK /\ FreedClean
=============================================================================
