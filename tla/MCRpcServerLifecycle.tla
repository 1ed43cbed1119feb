------------------------- MODULE MCRpcServerLifecycle -------------------------
(* RpcServerLifecycle with finite bounds for TLC.                            *)
EXTENDS RpcServerLifecycle
=============================================================================
