---------------------------- MODULE MCRpcRouting ----------------------------
(* A small instance of RpcRouting: two services, one of them with the empty  *)
(* name, one method in all four modes, a cache of two entries and a hash     *)
(* under which all routes of a service collide.                              *)
EXTENDS RpcRouting, TLC

CONSTANTS s1, empty

MCServices == {s1, empty}
MCMethods == {empty}
MCHash == [r \in Routes |-> IF r.service = s1 THEN 0 ELSE 7]
=============================================================================
