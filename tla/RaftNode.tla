------------------------------ MODULE RaftNode ------------------------------
(***************************************************************************)
(* A cluster of RaftNode objects (registry/raft_node.cpp and               *)
(* registry/raft_node_rpc.cpp).                                            *)
(*                                                                         *)
(* Every node runs an election thread, a heartbeat thread, and one         *)
(* detached thread per incoming connection.  All of them serialise on      *)
(* state_mutex_, and the first two keep it locked while they wait, with    *)
(* no timeout, for the answer of each peer in turn.  thread[n] says who    *)
(* holds state_mutex_ of n.  A thread that locks a mutex it already holds  *)
(* (std::mutex is not recursive; the pthread mutex under it blocks) is     *)
(* "deadlocked", and so is its node for ever.                              *)
(*                                                                         *)
(* On the wire every request is first parsed as a RequestVoteRequest.      *)
(* Fields 1-4 of AppendEntriesRequest have the same numbers and types, so  *)
(* the parse succeeds and an AppendEntries is answered by                  *)
(* handleRequestVote, with leader_id as the candidate and prev_log_* as    *)
(* the candidate's last entry; its entries are dropped.  The leader reads  *)
(* the RequestVoteResponse back as an AppendEntriesResponse in which       *)
(* vote_granted is success and match_index is 0.                           *)
(***************************************************************************)
EXTENDS Integers, Sequences, FiniteSets

CONSTANTS
    Node,       \* the cluster: a node and its peers_
    Nil,        \* the empty node id ""
    MaxTerm,    \* bound: no election is started in this term
    MaxLog,     \* bound: proposals accepted by one node
    MaxFaults   \* bound: crashes and broken connections, in all

ASSUME NodeAssumption  == IsFiniteSet(Node) /\ Nil \notin Node
ASSUME BoundAssumption == MaxTerm \in Nat /\ MaxLog \in Nat /\ MaxFaults \in Nat

VARIABLES
    role, currentTerm, votedFor, leaderId, log, nextIndex,
    thread,     \* who holds state_mutex_
    votes,      \* the voters that `int votes` of startElection counts
    todo,       \* peers the loop over peers_ has still to call
    call,       \* the peer whose answer the loop waits for
    reply,      \* the answer in the caller's socket
    requests,   \* requests sent and not yet handled
    faults,     \* crashes and broken connections so far
    ballot,     \* history: the last vote of a node in each term
    elected     \* history: the <<term, node>> that became leader

raftVars == <<role, currentTerm, votedFor, leaderId, log, nextIndex>>
callVars == <<votes, todo, call, reply>>
vars     == <<raftVars, thread, callVars, requests, faults, ballot, elected>>

-----------------------------------------------------------------------------

Terms   == 1 .. MaxTerm
Request == [from : Node, to : Node, term : Terms,
            lastLogIndex : 0 .. MaxLog, lastLogTerm : 0 .. MaxTerm,
            live : BOOLEAN]   \* the sender still waits on the connection
Reply   == [term : 0 .. MaxTerm, granted : BOOLEAN]
NoReply == [term |-> -1, granted |-> FALSE]

Peers(n) == Node \ {n}

Majority_half == Cardinality(Node) \div 2           \* mutant: half of the cluster will do
Majority      == Cardinality(Node) \div 2 + 1

LastLogIndex(n) == Len(log[n])
LastLogTerm(n)  == IF log[n] = <<>> THEN 0 ELSE log[n][Len(log[n])]

\* prev_log_term of an AppendEntriesRequest
TermAt(n, i) == IF i \in 1 .. Len(log[n]) THEN log[n][i] ELSE 0

LogOk(m) == \/ m.lastLogTerm > LastLogTerm(m.to)
            \/ /\ m.lastLogTerm = LastLogTerm(m.to)
               /\ m.lastLogIndex >= LastLogIndex(m.to)

Idle(n)  == thread[n] = "none"          \* up, with state_mutex_ free
InLoop(n) == thread[n] \in {"election", "heartbeat"}

\* The caller waits in receive() and the peer's end of the connection is gone.
Disconnected(n) == /\ call[n] # Nil
                   /\ reply[n] = NoReply
                   /\ \A m \in requests : ~(m.from = n /\ m.live)

Init ==
    /\ role        = [n \in Node |-> "FOLLOWER"]
    /\ currentTerm = [n \in Node |-> 0]
    /\ votedFor    = [n \in Node |-> Nil]
    /\ leaderId    = [n \in Node |-> Nil]
    /\ log         = [n \in Node |-> <<>>]
    /\ nextIndex   = [n \in Node |-> [p \in Node |-> 1]]
    /\ thread      = [n \in Node |-> "none"]
    /\ votes       = [n \in Node |-> {}]
    /\ todo        = [n \in Node |-> {}]
    /\ call        = [n \in Node |-> Nil]
    /\ reply       = [n \in Node |-> NoReply]
    /\ requests    = {}
    /\ faults      = 0
    /\ ballot      = [n \in Node |-> [t \in Terms |-> Nil]]
    /\ elected     = {}

-----------------------------------------------------------------------------
(* The election thread: electionTimerLoop, startElection, sendRequestVote. *)

\* The timeout fires, and startElection runs up to its loop over peers_.
StartElection(n) ==
    /\ Idle(n)
    /\ role[n] # "LEADER"
    /\ currentTerm[n] < MaxTerm
    /\ role'        = [role EXCEPT ![n] = "CANDIDATE"]
    /\ leaderId'    = [leaderId EXCEPT ![n] = Nil]
    /\ currentTerm' = [currentTerm EXCEPT ![n] = @ + 1]
    /\ votedFor'    = [votedFor EXCEPT ![n] = n]
    /\ ballot'      = [ballot EXCEPT ![n][currentTerm[n] + 1] = n]
    /\ votes'       = [votes EXCEPT ![n] = {n}]
    /\ todo'        = [todo EXCEPT ![n] = Peers(n)]
    /\ thread'      = [thread EXCEPT ![n] = "election"]
    /\ UNCHANGED <<log, nextIndex, call, reply, requests, faults, elected>>

\* connect() and send() succeed; the thread blocks in receive().
Send(n, p, lastIndex, lastTerm) ==
    /\ call[n] = Nil
    /\ p \in todo[n]
    /\ thread[p] # "down"
    /\ call'     = [call EXCEPT ![n] = p]
    /\ todo'     = [todo EXCEPT ![n] = @ \ {p}]
    /\ requests' = requests \cup
                     {[from |-> n, to |-> p, term |-> currentTerm[n],
                       lastLogIndex |-> lastIndex, lastLogTerm |-> lastTerm,
                       live |-> TRUE]}
    /\ UNCHANGED <<raftVars, thread, votes, reply, faults, ballot, elected>>

SendRequestVote(n, p) ==
    /\ thread[n] = "election"
    /\ Send(n, p, LastLogIndex(n), LastLogTerm(n))

\* connect() or send() fails: the peer is down, or out of reach.
ConnectFails(n, p) ==
    /\ InLoop(n)
    /\ call[n] = Nil
    /\ p \in todo[n]
    /\ todo' = [todo EXCEPT ![n] = @ \ {p}]
    /\ UNCHANGED <<raftVars, thread, votes, call, reply, requests, faults, ballot, elected>>

HangUp(n) ==
    /\ call'  = [call EXCEPT ![n] = Nil]
    /\ reply' = [reply EXCEPT ![n] = NoReply]

\* A response of a later term: becomeFollower is to run under state_mutex_,
\* which this very thread holds.
Relock(n) ==
    /\ InLoop(n)
    /\ reply[n].term > currentTerm[n]
    /\ thread' = [thread EXCEPT ![n] = "deadlocked"]
    /\ UNCHANGED <<raftVars, callVars, requests, faults, ballot, elected>>

RequestVoteReply(n) ==
    /\ thread[n] = "election"
    /\ reply[n] # NoReply
    /\ reply[n].term <= currentTerm[n]
    /\ votes' = IF reply[n].granted
                THEN [votes EXCEPT ![n] = @ \cup {call[n]}]
                ELSE votes
    /\ HangUp(n)
    /\ UNCHANGED <<raftVars, thread, todo, requests, faults, ballot, elected>>

ElectionWon(n) ==
    /\ thread[n] = "election"
    /\ call[n] = Nil
    /\ todo[n] = {}
    /\ Cardinality(votes[n]) >= Majority
    /\ role'      = [role EXCEPT ![n] = "LEADER"]
    /\ leaderId'  = [leaderId EXCEPT ![n] = n]
    /\ nextIndex' = [nextIndex EXCEPT ![n] = [p \in Node |-> LastLogIndex(n) + 1]]
    /\ thread'    = [thread EXCEPT ![n] = "none"]
    /\ elected'   = elected \cup {<<currentTerm[n], n>>}
    /\ UNCHANGED <<currentTerm, votedFor, log, callVars, requests, faults, ballot>>

\* becomeFollower(current_term_) also forgets the candidate's own vote.
ElectionLost(n) ==
    /\ thread[n] = "election"
    /\ call[n] = Nil
    /\ todo[n] = {}
    /\ Cardinality(votes[n]) < Majority
    /\ role'     = [role EXCEPT ![n] = "FOLLOWER"]
    /\ votedFor' = [votedFor EXCEPT ![n] = Nil]
    /\ leaderId' = [leaderId EXCEPT ![n] = Nil]
    /\ thread'   = [thread EXCEPT ![n] = "none"]
    /\ UNCHANGED <<currentTerm, log, nextIndex, callVars, requests, faults, ballot, elected>>

-----------------------------------------------------------------------------
(* The heartbeat thread: heartbeatLoop, sendAppendEntries.                 *)

HeartbeatTick(n) ==
    /\ Idle(n)
    /\ role[n] = "LEADER"
    /\ thread' = [thread EXCEPT ![n] = "heartbeat"]
    /\ todo'   = [todo EXCEPT ![n] = Peers(n)]
    /\ UNCHANGED <<raftVars, votes, call, reply, requests, faults, ballot, elected>>

SendAppendEntries(n, p) ==
    /\ thread[n] = "heartbeat"
    /\ LET prev == nextIndex[n][p] - 1 IN Send(n, p, prev, TermAt(n, prev))

\* updateCommitIndex locks log_mutex_, which heartbeatLoop holds.
AppendEntriesAccepted(n) ==
    /\ thread[n] = "heartbeat"
    /\ reply[n] # NoReply
    /\ reply[n].term <= currentTerm[n]
    /\ reply[n].granted
    /\ nextIndex' = [nextIndex EXCEPT ![n][call[n]] = 1]
    /\ thread'    = [thread EXCEPT ![n] = "deadlocked"]
    /\ UNCHANGED <<role, currentTerm, votedFor, leaderId, log, callVars,
                   requests, faults, ballot, elected>>

Retreat(i) == IF i > 1 THEN i - 1 ELSE i

AppendEntriesRejected(n) ==
    /\ thread[n] = "heartbeat"
    /\ reply[n] # NoReply
    /\ reply[n].term <= currentTerm[n]
    /\ ~reply[n].granted
    /\ nextIndex' = [nextIndex EXCEPT ![n][call[n]] = Retreat(@)]
    /\ HangUp(n)
    /\ UNCHANGED <<role, currentTerm, votedFor, leaderId, log, thread, votes,
                   todo, requests, faults, ballot, elected>>

HeartbeatDone(n) ==
    /\ thread[n] = "heartbeat"
    /\ call[n] = Nil
    /\ todo[n] = {}
    /\ thread' = [thread EXCEPT ![n] = "none"]
    /\ UNCHANGED <<raftVars, callVars, requests, faults, ballot, elected>>

-----------------------------------------------------------------------------
(* Connection threads and clients.                                         *)

\* becomeFollower runs first, and forgets the vote, for a later term.
Newer_anyTerm(m) == m.term # currentTerm[m.to]      \* mutant: an older term is adopted
Newer_orEqual(m) == m.term >= currentTerm[m.to]     \* mutant: the vote of this term is forgotten
Newer(m)         == m.term > currentTerm[m.to]

VoteBefore(m) == IF Newer(m) THEN Nil ELSE votedFor[m.to]

Grants(m) == /\ m.term >= currentTerm[m.to]
             /\ VoteBefore(m) \in {Nil, m.from}
             /\ LogOk(m)

\* handleConnection: whatever the request was, handleRequestVote answers it.
HandleRequestVote(m) ==
    LET n == m.to
    IN  /\ Idle(n)
        /\ role'        = IF Newer(m) THEN [role EXCEPT ![n] = "FOLLOWER"] ELSE role
        /\ leaderId'    = IF Newer(m) THEN [leaderId EXCEPT ![n] = Nil] ELSE leaderId
        /\ currentTerm' = IF Newer(m) THEN [currentTerm EXCEPT ![n] = m.term] ELSE currentTerm
        /\ votedFor'    = [votedFor EXCEPT ![n] = IF Grants(m) THEN m.from ELSE VoteBefore(m)]
        /\ ballot'      = IF Grants(m) THEN [ballot EXCEPT ![n][m.term] = m.from] ELSE ballot
        /\ reply'       = IF m.live
                          THEN [reply EXCEPT ![m.from] =
                                  [term |-> currentTerm[n], granted |-> Grants(m)]]
                          ELSE reply
        /\ requests'    = requests \ {m}
        /\ UNCHANGED <<log, nextIndex, thread, votes, todo, call, faults, elected>>

Proposer_any(n) == Idle(n)                          \* mutant: a follower accepts as well
Proposer(n)     == Idle(n) /\ role[n] = "LEADER"

\* proposeLogEntry returns true, and DistributedRegistryServer answers the
\* client, once the entry is in the leader's own log.
ProposeLogEntry(n) ==
    /\ Proposer(n)
    /\ Len(log[n]) < MaxLog
    /\ log' = [log EXCEPT ![n] = Append(@, currentTerm[n])]
    /\ UNCHANGED <<role, currentTerm, votedFor, leaderId, nextIndex, thread, callVars,
                   requests, faults, ballot, elected>>

-----------------------------------------------------------------------------
(* The environment.                                                        *)

\* n's end of its connection closes.  The peer may have the request already,
\* and handle it later, or never.
Abandon(n, rs) ==
    {IF m.from = n THEN [m EXCEPT !.live = FALSE] ELSE m : m \in rs}

\* receive() fails: the peer's process closed the connection by dying.
PeerGone_unnoticed(n) == FALSE                      \* mutant: receive() goes on waiting
PeerGone(n) ==
    /\ InLoop(n)
    /\ Disconnected(n)
    /\ HangUp(n)
    /\ UNCHANGED <<raftVars, thread, votes, todo, requests, faults, ballot, elected>>

\* receive() fails: the network broke the connection.
ConnectionBreaks(n) ==
    /\ InLoop(n)
    /\ call[n] # Nil
    /\ reply[n] = NoReply
    /\ ~Disconnected(n)
    /\ faults < MaxFaults
    /\ faults'   = faults + 1
    /\ requests' = Abandon(n, requests)
    /\ HangUp(n)
    /\ UNCHANGED <<raftVars, thread, votes, todo, ballot, elected>>

\* The process dies; nothing of its state is on disk.
Crash(n) ==
    /\ thread[n] # "down"
    /\ faults < MaxFaults
    /\ faults'   = faults + 1
    /\ thread'   = [thread EXCEPT ![n] = "down"]
    /\ requests' = Abandon(n, {m \in requests : m.to # n})
    /\ HangUp(n)
    /\ todo'     = [todo EXCEPT ![n] = {}]
    /\ UNCHANGED <<raftVars, votes, ballot, elected>>

\* The constructor: a restarted process starts from term 0 without a vote.
Restart(n) ==
    /\ thread[n] = "down"
    /\ role'        = [role EXCEPT ![n] = "FOLLOWER"]
    /\ currentTerm' = [currentTerm EXCEPT ![n] = 0]
    /\ votedFor'    = [votedFor EXCEPT ![n] = Nil]
    /\ leaderId'    = [leaderId EXCEPT ![n] = Nil]
    /\ log'         = [log EXCEPT ![n] = <<>>]
    /\ nextIndex'   = [nextIndex EXCEPT ![n] = [p \in Node |-> 1]]
    /\ thread'      = [thread EXCEPT ![n] = "none"]
    /\ UNCHANGED <<callVars, requests, faults, ballot, elected>>

ElectionStep(n) ==
    \/ \E p \in Node : SendRequestVote(n, p)
    \/ RequestVoteReply(n)
    \/ ElectionWon(n)
    \/ ElectionLost(n)

HeartbeatStep(n) ==
    \/ \E p \in Node : SendAppendEntries(n, p)
    \/ AppendEntriesAccepted(n)
    \/ AppendEntriesRejected(n)
    \/ HeartbeatDone(n)

LoopStep(n) ==
    \/ ElectionStep(n)
    \/ HeartbeatStep(n)
    \/ \E p \in Node : ConnectFails(n, p)
    \/ Relock(n)
    \/ PeerGone(n)

NodeNext(n) ==
    \/ StartElection(n)
    \/ HeartbeatTick(n)
    \/ LoopStep(n)
    \/ ProposeLogEntry(n)
    \/ ConnectionBreaks(n)
    \/ Crash(n)

Next == \/ \E n \in Node : NodeNext(n)
        \/ \E m \in requests : HandleRequestVote(m)

Spec == Init /\ [][Next]_vars

\* The same cluster when crashed processes are started again.
RestartSpec == Init /\ [][Next \/ \E n \in Node : Restart(n)]_vars

\* A thread that can go on does.  state_mutex_ is released for at least 50 ms
\* between two rounds of a loop, so a handler that keeps waiting for it gets it.
AnswerTo(n) == \E m \in requests : m.from = n /\ m.live /\ HandleRequestVote(m)

FairSpec == /\ Spec
            /\ \A n \in Node : WF_vars(LoopStep(n)) /\ SF_vars(AnswerTo(n))

-----------------------------------------------------------------------------
(* Safety.                                                                 *)

\* Types of every variable.
TypeOK ==
    /\ role \in [Node -> {"FOLLOWER", "CANDIDATE", "LEADER"}]
    /\ currentTerm \in [Node -> 0 .. MaxTerm]
    /\ votedFor \in [Node -> Node \cup {Nil}]
    /\ leaderId \in [Node -> Node \cup {Nil}]
    /\ log \in [Node -> Seq(Terms)]
    /\ \A n \in Node : Len(log[n]) <= MaxLog
    /\ nextIndex \in [Node -> [Node -> 1 .. MaxLog + 1]]
    /\ thread \in [Node -> {"none", "election", "heartbeat", "deadlocked", "down"}]
    /\ votes \in [Node -> SUBSET Node]
    /\ todo \in [Node -> SUBSET Node]
    /\ call \in [Node -> Node \cup {Nil}]
    /\ reply \in [Node -> Reply \cup {NoReply}]
    /\ requests \subseteq Request
    /\ faults \in 0 .. MaxFaults
    /\ ballot \in [Node -> [Terms -> Node \cup {Nil}]]
    /\ elected \subseteq Terms \X Node

\* Election safety: no two nodes become leader in one term.  The guards of
\* handleRequestVote and the mutex held by startElection have to add up to
\* this although a lost election clears voted_for_ in the term it was cast in.
OneLeaderPerTerm == \A t \in Terms, n, p \in Node :
                        <<t, n>> \in elected /\ <<t, p>> \in elected => n = p

\* Entries of one term were all accepted by proposeLogEntry of one node.
OneWriterPerTerm == \A n, p \in Node, i, j \in 1 .. MaxLog :
                        /\ i <= Len(log[n])
                        /\ j <= Len(log[p])
                        /\ log[n][i] = log[p][j]
                        => n = p

\* becomeFollower drops voted_for_, but never a vote given to another node
\* while its term lasts.
VoteStable == [][\A n \in Node : /\ votedFor[n] \notin {Nil, n}
                                 /\ currentTerm'[n] = currentTerm[n]
                                 => votedFor'[n] = votedFor[n]]_vars

\* becomeFollower takes the term of a request or a response: current_term_
\* never goes back.
TermsOnlyGrow == [][\A n \in Node : currentTerm'[n] >= currentTerm[n]]_vars

\* A leader is only unseated by a later term, never by a rival of its own.
LeaderKeepsItsTerm == [][\A n \in Node : /\ role[n] = "LEADER"
                                         /\ role'[n] # "LEADER"
                                         => currentTerm'[n] > currentTerm[n]]_vars

\* What no step of a node takes back while a term lasts, crashes aside: the
\* term itself, a vote given to another node, and being its leader.
TermDiscipline == TermsOnlyGrow /\ VoteStable /\ LeaderKeepsItsTerm

-----------------------------------------------------------------------------
(* The inductive invariant behind the properties above.                    *)

\* Who is calling, and in which role, while state_mutex_ is held.
LoopInv == \A n \in Node :
    /\ thread[n] = "election"  => role[n] = "CANDIDATE" /\ currentTerm[n] \in Terms
    /\ thread[n] = "heartbeat" => role[n] = "LEADER"
    /\ thread[n] = "none" => call[n] = Nil
    /\ reply[n] # NoReply => call[n] # Nil

\* A request somebody waits for is the only one of its sender, and says what
\* its sender still is.
RequestInv == \A m \in requests : m.live =>
    /\ InLoop(m.from)
    /\ call[m.from] = m.to
    /\ reply[m.from] = NoReply
    /\ m.term = currentTerm[m.from]
    /\ \A r \in requests : r.live /\ r.from = m.from => r = m

\* voted_for_ is the last vote of the current term.  It is empty only if this
\* term's vote was never cast, or was the node's own in an election it lost.
VoteRecorded(v) ==
    /\ \A t \in Terms : t > currentTerm[v] => ballot[v][t] = Nil
    /\ votedFor[v] # Nil =>
          currentTerm[v] \in Terms /\ ballot[v][currentTerm[v]] = votedFor[v]
    /\ votedFor[v] = Nil =>
          /\ \A t \in Terms : t = currentTerm[v] => ballot[v][t] \in {Nil, v}
          /\ <<currentTerm[v], v>> \notin elected

BallotInv == \A v \in Node : VoteRecorded(v)

\* The votes startElection has counted, or is about to, are still the votes of
\* their voters.
CampaignInv == \A n \in Node : thread[n] = "election" =>
    /\ votedFor[n] = n
    /\ <<currentTerm[n], n>> \notin elected
    /\ \A v \in votes[n] : ballot[v][currentTerm[n]] = n
    /\ reply[n].granted => ballot[call[n]][currentTerm[n]] = n

\* A leader's majority still stands by it.
ElectedInv == \A t \in Terms, n \in Node : <<t, n>> \in elected =>
    /\ t <= currentTerm[n]
    /\ t = currentTerm[n] => votedFor[n] = n
    /\ \E Q \in SUBSET Node : /\ Cardinality(Q) >= Majority
                              /\ \A v \in Q : ballot[v][t] = n

\* A node leads, and writes entries, in terms it was elected in.
LeaderInv == \A n \in Node :
    /\ role[n] = "LEADER" => <<currentTerm[n], n>> \in elected
    /\ \A i \in 1 .. Len(log[n]) : <<log[n][i], n>> \in elected

\* Every vote counted and every leader recorded is backed by ballots that no
\* interleaving of handlers, elections and crashes takes back.
IInv == TypeOK /\ LoopInv /\ RequestInv /\ BallotInv /\ CampaignInv /\ ElectedInv /\ LeaderInv

-----------------------------------------------------------------------------
(* Waiting.  A set of nodes is wedged when each of them is deadlocked with *)
(* itself or waits, holding its state_mutex_, for an answer of another one *)
(* of the set.                                                             *)

Waits(n) == InLoop(n) /\ call[n] # Nil /\ reply[n] = NoReply /\ ~Disconnected(n)

Wedged == UNION {S \in SUBSET Node : \A n \in S : \/ thread[n] = "deadlocked"
                                                  \/ Waits(n) /\ call[n] \in S}

\* A thread holding state_mutex_ gives it back unless its node is wedged: a
\* wait cycle and a mutex locked twice are the only ways to hold it for ever.
LoopEnds == \A n \in Node : InLoop(n) ~> (~InLoop(n) \/ n \in Wedged)

\* An entry acknowledged to a client is in the log of every later leader
\* ("log replication makes sure that no data is lost").
AcknowledgedSurvive == \A n, p \in Node :
    role[n] = "LEADER" =>
        \A i \in 1 .. Len(log[p]) : log[p][i] < currentTerm[n] =>
            i <= Len(log[n]) /\ log[n][i] = log[p][i]

=============================================================================
