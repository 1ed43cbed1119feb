----------------------------- MODULE MCRpcParsers -----------------------------
(* RpcParsers with finite bounds for TLC.                                    *)
EXTENDS RpcParsers
=============================================================================
