----------------------------- MODULE MCRpcWritev -----------------------------
(* RpcWritev with finite bounds for TLC.                                     *)
EXTENDS RpcWritev
=============================================================================
