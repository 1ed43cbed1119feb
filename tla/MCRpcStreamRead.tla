--------------------------- MODULE MCRpcStreamRead ----------------------------
(* RpcStreamRead with finite bounds for TLC.                                 *)
EXTENDS RpcStreamRead
=============================================================================
