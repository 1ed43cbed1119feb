-------------------------- MODULE MCRpcAsyncRegistry --------------------------
(* RpcAsyncRegistry with finite bounds for TLC.                              *)
EXTENDS RpcAsyncRegistry
=============================================================================
