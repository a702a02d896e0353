---------------------------- MODULE MCRpcServer ----------------------------
(* RpcServer for TLC: which requests are interchangeable.                  *)
EXTENDS RpcServer, TLC

MCSymmetry == Permutations(Requests) \cup Permutations(Clients)
=============================================================================
