--------------------------- MODULE ReplicatedLog ----------------------------
(* What DistributedRegistryServer takes its RaftNode for: a leader with     *)
(* entries, and a committed prefix of them that no change of leader takes   *)
(* back. It is a promise, not a model of RaftNode, which module RaftNode    *)
(* is, and whose nodes commit nothing. That is a behaviour of this module,  *)
(* too: nothing here has to be committed, sooner or later.                  *)
EXTENDS Naturals, Sequences

CONSTANTS Replica, None

VARIABLES
  leader,    \* the replica whose isLeader() holds
  log,       \* its entries
  committed  \* how many of them no change of leader takes back

raftVars == <<leader, log, committed>>

Empty == leader \in Replica /\ log = << >> /\ committed = 0

\* proposeLogEntry: what replica r makes of the log
Proposed(r, entry) == IF leader = r THEN Append(log, entry) ELSE log

CommitNext ==
  /\ leader # None /\ committed < Len(log) /\ committed' = committed + 1
  /\ UNCHANGED <<leader, log>>

\* the new leader may lack entries that are not committed
Elect(r) ==
  /\ leader # r /\ leader' = r /\ UNCHANGED committed
  /\ \E k \in committed..Len(log) : log' = SubSeq(log, 1, k)

Lose(r) ==
  /\ leader' = IF leader = r THEN None ELSE leader
  /\ UNCHANGED <<log, committed>>

=============================================================================
