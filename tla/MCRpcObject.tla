----------------------------- MODULE MCRpcObject -----------------------------
(***************************************************************************)
(* Instances of RpcObject for TLC.                                         *)
(***************************************************************************)
EXTENDS RpcObject, TLC
=============================================================================
