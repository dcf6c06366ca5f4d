----------------------------- MODULE MCRaftNode -----------------------------
(* RaftNode with interchangeable nodes.                                    *)
EXTENDS RaftNode, TLC

Symmetry == Permutations(Node)

=============================================================================
