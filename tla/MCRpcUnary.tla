----------------------------- MODULE MCRpcUnary ------------------------------
(* RpcUnary with finite bounds for TLC.                                      *)
EXTENDS RpcUnary
=============================================================================
