------------------------ MODULE MCReplicatedRegistry ------------------------
(* ReplicatedRegistry with two instances of one service.                   *)
EXTENDS ReplicatedRegistry

Symmetry == Permutations(Replica)
Echoes == {<<"EchoService", 1>>, <<"EchoService", 2>>}

=============================================================================
