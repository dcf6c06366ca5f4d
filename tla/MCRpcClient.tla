----------------------------- MODULE MCRpcClient -----------------------------
(* RpcClient, instantiated for TLC: one thread adds 15 and 25, twice; one   *)
(* adds 1 and -1.                                                            *)
EXTENDS RpcClient, TLC

CONSTANTS t1, t2

Sums  == t1 :> 40 @@ t2 :> 0
Calls == t1 :> 2 @@ t2 :> 1

=============================================================================
