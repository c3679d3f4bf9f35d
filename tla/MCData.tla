------------------------------- MODULE MCData -------------------------------
(* What bytes are kept in: messages, and the allocator of their buffers.   *)
(* The two models share no state (a buffer of the first is a number), and  *)
(* a behaviour of this instance is one of the first or one of the second.  *)
EXTENDS NetMsg, MsgBuffers

VARIABLE part

dataVars == <<msgVars, bufVars, part>>

MCDatas == {<<0, 1>>}

DataInit == part \in {"msg", "buffers"} /\ MsgInit /\ BufInit

DataNext ==
    /\ \/ part = "msg" /\ MsgNext /\ UNCHANGED bufVars
       \/ part = "buffers" /\ BufNext /\ UNCHANGED msgVars
    /\ UNCHANGED part

DataSpec == DataInit /\ [][DataNext]_dataVars

(* The type invariants; the references of parts and buffers are counted;   *)
(* the chunks add up, with every buffer in one place.                      *)
DataInv == MsgTypeOK /\ MsgRefsCounted /\ BufTypeOK /\ BuffersAccounted
=============================================================================
