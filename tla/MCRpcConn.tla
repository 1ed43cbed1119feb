------------------------------ MODULE MCRpcConn ------------------------------
(* Small instances of RpcConn for TLC.                                       *)
EXTENDS RpcConn
=============================================================================
