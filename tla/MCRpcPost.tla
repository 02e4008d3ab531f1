----------------------------- MODULE MCRpcPost -----------------------------
(* RpcPost with a few calls.                                                 *)
EXTENDS RpcPost

CONSTANTS c1, c2, c3, h1, h2

=============================================================================
