-------------------------- MODULE MCConnectionPool --------------------------
(* ConnectionPool with interchangeable clients and connections.            *)
EXTENDS ConnectionPool, TLC

Symmetry == Permutations(Client) \cup Permutations(Conn)

=============================================================================
