----------------------------- MODULE MCRegistry -----------------------------
(* Registry with the names RpcServer registers.                            *)
EXTENDS Registry

TwoNames == <<"EchoService", "CalculatorService">>

=============================================================================
