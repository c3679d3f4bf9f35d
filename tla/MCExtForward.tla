---------------------------- MODULE MCExtForward ----------------------------
(***************************************************************************)
(* Instances of ExtForward for TLC.                                        *)
(***************************************************************************)
EXTENDS ExtForward

(* The types; an RPC_CLOSE_EXT closes only the connection it is about; the *)
(* list for the oldest connections holds those in use.                     *)
RoutesInv == TypeOK /\ EvictsOnlyAsker /\ LruLive
=============================================================================
