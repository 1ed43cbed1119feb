------------------------- MODULE MCRpcStreamSession ---------------------------
(* RpcStreamSession with finite bounds for TLC.                              *)
EXTENDS RpcStreamSession
=============================================================================
