--------------------------- MODULE RaftNodeProofs ---------------------------
(***************************************************************************)
(* Election safety of RaftNode for every cluster and all bounds.           *)
(***************************************************************************)
EXTENDS RaftNode, FiniteSetTheorems, TLAPS

\* The initial states satisfy the invariant.
LEMMA InitInv == Init => IInv
<1>1. SUFFICES ASSUME Init PROVE IInv
  OBVIOUS
<1>2. TypeOK
  BY <1>1, BoundAssumption DEF Init, TypeOK, NoReply, Terms, Reply
<1>3. LoopInv /\ RequestInv /\ CampaignInv /\ ElectedInv /\ LeaderInv
  BY <1>1 DEF Init, LoopInv, RequestInv, CampaignInv, ElectedInv, LeaderInv, InLoop
<1>4. BallotInv
  BY <1>1 DEF Init, BallotInv, VoteRecorded, Terms
<1>5. QED
  BY <1>2, <1>3, <1>4 DEF IInv

\* What getLastLogIndex and getLastLogTerm return, and prev_log_term.
LEMMA LogLookup ==
  ASSUME TypeOK, NEW n \in Node
  PROVE  /\ LastLogIndex(n) \in 0 .. MaxLog
         /\ LastLogTerm(n) \in 0 .. MaxTerm
         /\ \A i \in Int : TermAt(n, i) \in 0 .. MaxTerm
<1>1. log[n] \in Seq(Terms) /\ Len(log[n]) \in 0 .. MaxLog
  BY BoundAssumption DEF TypeOK
<1>2. \A i \in 1 .. Len(log[n]) : log[n][i] \in 0 .. MaxTerm
  <2>1. \A i \in 1 .. Len(log[n]) : log[n][i] \in Terms
    BY <1>1
  <2>2. Terms \subseteq 0 .. MaxTerm
    BY BoundAssumption DEF Terms
  <2>3. QED
    BY <2>1, <2>2
<1>3. 0 \in 0 .. MaxTerm
  BY BoundAssumption
<1>4. log[n] # <<>> => Len(log[n]) \in 1 .. Len(log[n])
  BY <1>1
<1>5. QED
  BY <1>1, <1>2, <1>3, <1>4 DEF LastLogIndex, LastLogTerm, TermAt

\* The fields of a request that name nodes and a term.
LEMMA RequestType ==
  ASSUME TypeOK, NEW m \in requests
  PROVE  m.from \in Node /\ m.to \in Node /\ m.term \in Terms /\ m.term \in Int
<1>1. m \in Request
  BY DEF TypeOK
<1>2. m.from \in Node /\ m.to \in Node /\ m.term \in Terms
  BY <1>1 DEF Request
<1>3. \A t \in Terms : t \in Int
  BY BoundAssumption DEF Terms
<1>4. QED
  BY <1>2, <1>3

\* A closed connection orphans its sender's requests and touches no other.
LEMMA AbandonKeepsOthers ==
  ASSUME NEW n \in Node, NEW rs \in SUBSET Request
  PROVE  /\ Abandon(n, rs) \subseteq Request
         /\ \A m \in Abandon(n, rs) : m.live => m \in rs /\ m.from # n
<1>1. ASSUME NEW m \in rs
      PROVE  LET o == [m EXCEPT !.live = FALSE]
             IN  o \in Request /\ ~o.live
  <2>1. m \in Request
    OBVIOUS
  <2>2. QED
    BY <2>1 DEF Request
<1>2. ASSUME NEW o \in Abandon(n, rs)
      PROVE  o \in Request /\ (o.live => o \in rs /\ o.from # n)
  <2>1. PICK m \in rs : o = IF m.from = n THEN [m EXCEPT !.live = FALSE] ELSE m
    BY <1>2 DEF Abandon
  <2>2. QED
    BY <2>1, <1>1
<1>3. QED
  BY <1>2

\* Both loops send well-formed requests.
LEMMA SendType ==
  ASSUME TypeOK, NEW n \in Node, NEW p \in Node,
         NEW i \in 0 .. MaxLog, NEW t \in 0 .. MaxTerm,
         currentTerm[n] \in Terms, Send(n, p, i, t)
  PROVE  TypeOK'
<1> DEFINE m == [from |-> n, to |-> p, term |-> currentTerm[n],
                 lastLogIndex |-> i, lastLogTerm |-> t, live |-> TRUE]
<1>1. m \in Request
  BY DEF Request
<1>2. requests' = requests \cup {m}
  BY DEF Send
<1> HIDE DEF m
<1>3. requests' \subseteq Request
  BY <1>1, <1>2 DEF TypeOK
<1>4. QED
  BY <1>3 DEF Send, TypeOK, raftVars

\* next_index_[i] = v keeps the type of next_index_.
LEMMA NextIndexType ==
  ASSUME TypeOK, NEW n \in Node, NEW p, NEW v \in 1 .. MaxLog + 1
  PROVE  [nextIndex EXCEPT ![n][p] = v] \in [Node -> [Node -> 1 .. MaxLog + 1]]
<1>1. nextIndex[n] \in [Node -> 1 .. MaxLog + 1]
  BY DEF TypeOK
<1>2. [nextIndex[n] EXCEPT ![p] = v] \in [Node -> 1 .. MaxLog + 1]
  BY <1>1
<1>3. QED
  BY <1>2 DEF TypeOK

\* A step keeps every variable in its type.
LEMMA TypeStep == ASSUME IInv, Next PROVE TypeOK'
<1> USE NodeAssumption, BoundAssumption
<1>1. TypeOK /\ LoopInv /\ LeaderInv
  BY DEF IInv
<1>2. ASSUME NEW n \in Node, StartElection(n) PROVE TypeOK'
  BY <1>1, <1>2 DEF StartElection, TypeOK, Idle, Terms, Peers
<1>3. ASSUME NEW n \in Node, HeartbeatTick(n) PROVE TypeOK'
  BY <1>1, <1>3 DEF HeartbeatTick, TypeOK, Peers, raftVars
<1>4. ASSUME NEW n \in Node, NEW p \in Node, SendRequestVote(n, p) PROVE TypeOK'
  <2>1. LastLogIndex(n) \in 0 .. MaxLog /\ LastLogTerm(n) \in 0 .. MaxTerm
    BY <1>1, LogLookup
  <2>2. QED
    BY <1>1, <1>4, <2>1, SendType DEF SendRequestVote, LoopInv
<1>5. ASSUME NEW n \in Node, NEW p \in Node, SendAppendEntries(n, p) PROVE TypeOK'
  <2> DEFINE prev == nextIndex[n][p] - 1
  <2>1. prev \in 0 .. MaxLog /\ TermAt(n, prev) \in 0 .. MaxTerm
    <3>1. nextIndex[n][p] \in 1 .. MaxLog + 1
      BY <1>1 DEF TypeOK
    <3>2. prev \in 0 .. MaxLog /\ prev \in Int
      BY <3>1
    <3>3. QED
      BY <1>1, <3>2, LogLookup
  <2>2. currentTerm[n] \in Terms
    BY <1>1, <1>5 DEF SendAppendEntries, LoopInv, LeaderInv, TypeOK
  <2>3. Send(n, p, prev, TermAt(n, prev))
    BY <1>5 DEF SendAppendEntries
  <2> HIDE DEF prev
  <2>4. QED
    BY <1>1, <2>1, <2>2, <2>3, SendType
<1>6. ASSUME NEW n \in Node, RequestVoteReply(n) PROVE TypeOK'
  BY <1>1, <1>6 DEF RequestVoteReply, HangUp, TypeOK, raftVars, LoopInv
<1>7. ASSUME NEW n \in Node, ElectionWon(n) PROVE TypeOK'
  BY <1>1, <1>7 DEF ElectionWon, TypeOK, callVars, LoopInv, LastLogIndex
<1>8. ASSUME NEW n \in Node, ElectionLost(n) PROVE TypeOK'
  BY <1>1, <1>8 DEF ElectionLost, TypeOK, callVars
<1>9. ASSUME NEW n \in Node, AppendEntriesAccepted(n) PROVE TypeOK'
  <2>1. nextIndex' \in [Node -> [Node -> 1 .. MaxLog + 1]]
    BY <1>1, <1>9, NextIndexType DEF AppendEntriesAccepted
  <2>2. QED
    BY <1>1, <1>9, <2>1 DEF AppendEntriesAccepted, TypeOK, callVars
<1>10. ASSUME NEW n \in Node, AppendEntriesRejected(n) PROVE TypeOK'
  <2>1. \A i \in 1 .. MaxLog + 1 : Retreat(i) \in 1 .. MaxLog + 1
    BY DEF Retreat
  <2>2. nextIndex' \in [Node -> [Node -> 1 .. MaxLog + 1]]
    <3>1. call[n] \in Node /\ nextIndex[n][call[n]] \in 1 .. MaxLog + 1
      BY <1>1, <1>10 DEF AppendEntriesRejected, LoopInv, TypeOK
    <3>2. nextIndex' = [nextIndex EXCEPT ![n][call[n]] = Retreat(nextIndex[n][call[n]])]
      BY <1>1, <1>10 DEF AppendEntriesRejected, TypeOK
    <3>3. QED
      BY <1>1, <2>1, <3>1, <3>2, NextIndexType
  <2>3. QED
    BY <1>1, <1>10, <2>2 DEF AppendEntriesRejected, HangUp, TypeOK
<1>11. ASSUME NEW n \in Node, HeartbeatDone(n) PROVE TypeOK'
  BY <1>1, <1>11 DEF HeartbeatDone, TypeOK, raftVars, callVars
<1>12. ASSUME NEW n \in Node, NEW p \in Node, ConnectFails(n, p) PROVE TypeOK'
  BY <1>1, <1>12 DEF ConnectFails, TypeOK, raftVars
<1>13. ASSUME NEW n \in Node, Relock(n) PROVE TypeOK'
  BY <1>1, <1>13 DEF Relock, TypeOK, raftVars, callVars
<1>14. ASSUME NEW n \in Node, PeerGone(n) PROVE TypeOK'
  BY <1>1, <1>14 DEF PeerGone, HangUp, TypeOK, raftVars
<1>15. ASSUME NEW n \in Node, ProposeLogEntry(n) PROVE TypeOK'
  <2>1. currentTerm[n] \in Terms /\ log[n] \in Seq(Terms)
    BY <1>1, <1>15 DEF ProposeLogEntry, Proposer, LeaderInv, TypeOK
  <2>2. /\ Append(log[n], currentTerm[n]) \in Seq(Terms)
        /\ Len(Append(log[n], currentTerm[n])) <= MaxLog
    BY <1>1, <1>15, <2>1 DEF ProposeLogEntry, TypeOK
  <2>3. QED
    BY <1>1, <1>15, <2>2 DEF ProposeLogEntry, TypeOK, callVars
<1>16. ASSUME NEW n \in Node, ConnectionBreaks(n) PROVE TypeOK'
  <2>1. requests' \subseteq Request
    BY <1>1, <1>16, AbandonKeepsOthers DEF ConnectionBreaks, TypeOK
  <2>2. QED
    BY <1>1, <1>16, <2>1 DEF ConnectionBreaks, HangUp, TypeOK, raftVars
<1>17. ASSUME NEW n \in Node, Crash(n) PROVE TypeOK'
  <2>1. requests' \subseteq Request
    <3>1. {m \in requests : m.to # n} \in SUBSET Request
      BY <1>1 DEF TypeOK
    <3>2. QED
      BY <1>17, <3>1, AbandonKeepsOthers DEF Crash
  <2>2. QED
    BY <1>1, <1>17, <2>1 DEF Crash, HangUp, TypeOK, raftVars
<1>18. ASSUME NEW m \in requests, HandleRequestVote(m) PROVE TypeOK'
  <2>1. /\ m \in Request
        /\ m.to \in Node /\ m.from \in Node
        /\ m.term \in Terms /\ m.term \in 0 .. MaxTerm
    <3>1. m \in Request
      BY <1>1 DEF TypeOK
    <3>2. QED
      BY <3>1 DEF Request, Terms
  <2>2. VoteBefore(m) \in Node \cup {Nil} /\ Grants(m) \in BOOLEAN
    BY <1>1, <2>1 DEF VoteBefore, Grants, TypeOK
  <2>3. [term |-> currentTerm[m.to], granted |-> Grants(m)] \in Reply
    BY <1>1, <2>1, <2>2 DEF Reply, TypeOK
  <2>4. /\ role' \in [Node -> {"FOLLOWER", "CANDIDATE", "LEADER"}]
        /\ currentTerm' \in [Node -> 0 .. MaxTerm]
        /\ leaderId' \in [Node -> Node \cup {Nil}]
    BY <1>1, <1>18, <2>1 DEF HandleRequestVote, TypeOK
  <2>5. votedFor' \in [Node -> Node \cup {Nil}]
    BY <1>1, <1>18, <2>1, <2>2 DEF HandleRequestVote, TypeOK
  <2>6. ballot' \in [Node -> [Terms -> Node \cup {Nil}]]
    BY <1>1, <1>18, <2>1 DEF HandleRequestVote, TypeOK
  <2>7. reply' \in [Node -> Reply \cup {NoReply}]
    BY <1>1, <1>18, <2>1, <2>3 DEF HandleRequestVote, TypeOK
  <2>8. QED
    BY <1>1, <1>18, <2>4, <2>5, <2>6, <2>7 DEF HandleRequestVote, TypeOK
<1>19. QED
  BY <1>2, <1>3, <1>4, <1>5, <1>6, <1>7, <1>8, <1>9, <1>10, <1>11, <1>12, <1>13, <1>14,
     <1>15, <1>16, <1>17, <1>18 DEF Next, NodeNext, LoopStep, ElectionStep, HeartbeatStep

-----------------------------------------------------------------------------

\* No step takes back a vote for another node, nor the vote of a node for
\* itself while it counts: during its campaign, and once it has won.
LEMMA VotesKept ==
  ASSUME IInv, Next, NEW v \in Node, NEW n \in Node, NEW t \in Terms,
         ballot[v][t] = n,
         n = v => \/ thread[v] = "election" /\ t = currentTerm[v]
                  \/ <<t, v>> \in elected
  PROVE  ballot'[v][t] = n
<1> USE NodeAssumption
<1>1. TypeOK /\ BallotInv /\ CampaignInv /\ ElectedInv
  BY DEF IInv
<1>2. t \in Int /\ currentTerm[v] \in Int /\ t <= currentTerm[v]
  <2>1. t \in Int /\ currentTerm[v] \in Int
    BY <1>1, BoundAssumption DEF TypeOK, Terms
  <2>2. ballot[v][t] # Nil
    OBVIOUS
  <2>3. ~(t > currentTerm[v])
    BY <1>1, <2>2 DEF BallotInv, VoteRecorded
  <2>4. QED
    BY <2>1, <2>3
<1>3. CASE \E k \in Node : StartElection(k)
  <2>1. PICK k \in Node : StartElection(k)
    BY <1>3
  <2>2. CASE k = v /\ t = currentTerm[v] + 1
    BY <1>2, <2>2
  <2>3. CASE ~(k = v /\ t = currentTerm[v] + 1)
    BY <1>1, <2>1, <2>3 DEF StartElection, TypeOK
  <2>4. QED
    BY <2>2, <2>3
<1>4. CASE \E m \in requests : HandleRequestVote(m)
  <2>1. PICK m \in requests : HandleRequestVote(m)
    BY <1>4
  <2>2. m.to \in Node /\ m.from \in Node /\ m.term \in Terms
    BY <1>1 DEF TypeOK, Request
  <2>3. CASE Grants(m) /\ m.to = v /\ m.term = t
    <3>1. t >= currentTerm[v] /\ VoteBefore(m) \in {Nil, m.from}
      BY <2>3 DEF Grants
    <3>2. t = currentTerm[v]
      BY <1>2, <3>1
    <3>3. votedFor[v] = n
      BY <1>1, <2>1, <2>3, <3>2 DEF BallotInv, VoteRecorded, TypeOK, HandleRequestVote, Idle
    <3>4. m.from = n
      BY <1>1, <2>3, <3>1, <3>2, <3>3 DEF VoteBefore, Newer, TypeOK
    <3>5. QED
      BY <1>1, <2>1, <2>2, <2>3, <3>4 DEF HandleRequestVote, TypeOK
  <2>4. CASE ~(Grants(m) /\ m.to = v /\ m.term = t)
    BY <1>1, <2>1, <2>2, <2>4 DEF HandleRequestVote, TypeOK
  <2>5. QED
    BY <2>3, <2>4
<1>5. CASE UNCHANGED ballot
  BY <1>5
<1>6. QED
  BY ZenonT(60), <1>3, <1>4, <1>5 DEF Next, NodeNext, LoopStep, ElectionStep, HeartbeatStep,
     HeartbeatTick, SendRequestVote, SendAppendEntries, Send, RequestVoteReply, ElectionWon,
     ElectionLost, AppendEntriesAccepted, AppendEntriesRejected, HeartbeatDone, ConnectFails,
     Relock, PeerGone, ProposeLogEntry, ConnectionBreaks, Crash

\* A step keeps the rules of who waits for whom.
LEMMA WaitingStep == ASSUME IInv, Next PROVE LoopInv' /\ RequestInv'
<1> USE NodeAssumption
<1>1. TypeOK /\ LoopInv /\ RequestInv
  BY DEF IInv
<1>2. \A m \in requests : m \in Request /\ m.from \in Node /\ m.to \in Node
  BY <1>1 DEF TypeOK, Request
<1>3. \A n \in Node, m \in requests :
         m.live /\ m.from = n => InLoop(n) /\ call[n] # Nil /\ reply[n] = NoReply
  BY <1>1, <1>2 DEF RequestInv
<1>4. ASSUME NEW n \in Node, StartElection(n) PROVE LoopInv' /\ RequestInv'
  <2>1. \A m \in requests : m.live => m.from # n
    BY <1>3, <1>4 DEF StartElection, Idle, InLoop
  <2>2. LoopInv'
    <3>1. currentTerm[n] + 1 \in Terms
      BY <1>1, <1>4, BoundAssumption DEF StartElection, TypeOK, Terms
    <3>2. QED
      BY <1>1, <1>4, <3>1 DEF StartElection, Idle, TypeOK, LoopInv
  <2>3. RequestInv'
    BY <1>1, <1>2, <1>4, <2>1 DEF StartElection, Idle, TypeOK, RequestInv, InLoop
  <2>4. QED
    BY <2>2, <2>3
<1>5. ASSUME NEW n \in Node, HeartbeatTick(n) PROVE LoopInv' /\ RequestInv'
  <2>1. \A m \in requests : m.live => m.from # n
    BY <1>3, <1>5 DEF HeartbeatTick, raftVars, Idle, InLoop
  <2>2. LoopInv'
    BY <1>1, <1>5 DEF HeartbeatTick, raftVars, Idle, TypeOK, LoopInv
  <2>3. RequestInv'
    BY <1>1, <1>2, <1>5, <2>1 DEF HeartbeatTick, raftVars, Idle, TypeOK, RequestInv, InLoop
  <2>4. QED
    BY <2>2, <2>3
<1>6. ASSUME NEW n \in Node, NEW p \in Node, SendRequestVote(n, p) PROVE LoopInv' /\ RequestInv'
  <2>1. PICK m : /\ m.from = n /\ m.to = p /\ m.term = currentTerm[n] /\ m.live
                 /\ requests' = requests \cup {m}
    BY <1>6 DEF SendRequestVote, Send
  <2>2. \A r \in requests : r.live => r.from # n
    BY <1>3, <1>6 DEF SendRequestVote, Send
  <2>3. LoopInv'
    BY <1>1, <1>6 DEF SendRequestVote, Send, raftVars, TypeOK, LoopInv
  <2>4. reply[n] = NoReply /\ InLoop(n)
    BY <1>1, <1>6 DEF SendRequestVote, Send, LoopInv, InLoop
  <2>5. RequestInv'
    BY <1>1, <1>2, <1>6, <2>1, <2>2, <2>4 DEF SendRequestVote, Send, raftVars, TypeOK, RequestInv, InLoop
  <2>6. QED
    BY <2>3, <2>5
<1>7. ASSUME NEW n \in Node, NEW p \in Node, SendAppendEntries(n, p) PROVE LoopInv' /\ RequestInv'
  <2>1. PICK m : /\ m.from = n /\ m.to = p /\ m.term = currentTerm[n] /\ m.live
                 /\ requests' = requests \cup {m}
    BY <1>7 DEF SendAppendEntries, Send
  <2>2. \A r \in requests : r.live => r.from # n
    BY <1>3, <1>7 DEF SendAppendEntries, Send
  <2>3. LoopInv'
    BY <1>1, <1>7 DEF SendAppendEntries, Send, raftVars, TypeOK, LoopInv
  <2>4. reply[n] = NoReply /\ InLoop(n)
    BY <1>1, <1>7 DEF SendAppendEntries, Send, LoopInv, InLoop
  <2>5. RequestInv'
    BY <1>1, <1>2, <1>7, <2>1, <2>2, <2>4 DEF SendAppendEntries, Send, raftVars, TypeOK, RequestInv, InLoop
  <2>6. QED
    BY <2>3, <2>5
<1>8. ASSUME NEW n \in Node, RequestVoteReply(n) PROVE LoopInv' /\ RequestInv'
  <2>1. \A m \in requests : m.live => m.from # n
    BY <1>3, <1>8 DEF RequestVoteReply, HangUp, raftVars, InLoop
  <2>2. LoopInv'
    BY <1>1, <1>8 DEF RequestVoteReply, HangUp, raftVars, TypeOK, LoopInv
  <2>3. RequestInv'
    BY <1>1, <1>2, <1>8, <2>1 DEF RequestVoteReply, HangUp, raftVars, TypeOK, RequestInv, InLoop
  <2>4. QED
    BY <2>2, <2>3
<1>9. ASSUME NEW n \in Node, ElectionWon(n) PROVE LoopInv' /\ RequestInv'
  <2>1. \A m \in requests : m.live => m.from # n
    BY <1>3, <1>9 DEF ElectionWon, callVars, InLoop
  <2>2. LoopInv'
    BY <1>1, <1>9 DEF ElectionWon, callVars, TypeOK, LoopInv
  <2>3. RequestInv'
    BY <1>1, <1>2, <1>9, <2>1 DEF ElectionWon, callVars, TypeOK, RequestInv, InLoop
  <2>4. QED
    BY <2>2, <2>3
<1>10. ASSUME NEW n \in Node, ElectionLost(n) PROVE LoopInv' /\ RequestInv'
  <2>1. \A m \in requests : m.live => m.from # n
    BY <1>3, <1>10 DEF ElectionLost, callVars, InLoop
  <2>2. LoopInv'
    BY <1>1, <1>10 DEF ElectionLost, callVars, TypeOK, LoopInv
  <2>3. RequestInv'
    BY <1>1, <1>2, <1>10, <2>1 DEF ElectionLost, callVars, TypeOK, RequestInv, InLoop
  <2>4. QED
    BY <2>2, <2>3
<1>11. ASSUME NEW n \in Node, AppendEntriesAccepted(n) PROVE LoopInv' /\ RequestInv'
  <2>1. \A m \in requests : m.live => m.from # n
    BY <1>3, <1>11 DEF AppendEntriesAccepted, callVars, InLoop
  <2>2. LoopInv'
    BY <1>1, <1>11 DEF AppendEntriesAccepted, callVars, TypeOK, LoopInv
  <2>3. RequestInv'
    BY <1>1, <1>2, <1>11, <2>1 DEF AppendEntriesAccepted, callVars, TypeOK, RequestInv, InLoop
  <2>4. QED
    BY <2>2, <2>3
<1>12. ASSUME NEW n \in Node, AppendEntriesRejected(n) PROVE LoopInv' /\ RequestInv'
  <2>1. \A m \in requests : m.live => m.from # n
    BY <1>3, <1>12 DEF AppendEntriesRejected, HangUp, InLoop
  <2>2. LoopInv'
    BY <1>1, <1>12 DEF AppendEntriesRejected, HangUp, TypeOK, LoopInv
  <2>3. RequestInv'
    BY <1>1, <1>2, <1>12, <2>1 DEF AppendEntriesRejected, HangUp, TypeOK, RequestInv, InLoop
  <2>4. QED
    BY <2>2, <2>3
<1>13. ASSUME NEW n \in Node, HeartbeatDone(n) PROVE LoopInv' /\ RequestInv'
  <2>1. \A m \in requests : m.live => m.from # n
    BY <1>3, <1>13 DEF HeartbeatDone, raftVars, callVars, InLoop
  <2>2. LoopInv'
    BY <1>1, <1>13 DEF HeartbeatDone, raftVars, callVars, TypeOK, LoopInv
  <2>3. RequestInv'
    BY <1>1, <1>2, <1>13, <2>1 DEF HeartbeatDone, raftVars, callVars, TypeOK, RequestInv, InLoop
  <2>4. QED
    BY <2>2, <2>3
<1>14. ASSUME NEW n \in Node, NEW p \in Node, ConnectFails(n, p) PROVE LoopInv' /\ RequestInv'
  BY <1>1, <1>2, <1>14 DEF ConnectFails, raftVars, TypeOK, LoopInv, RequestInv, InLoop
<1>15. ASSUME NEW n \in Node, Relock(n) PROVE LoopInv' /\ RequestInv'
  <2>1. reply[n] # NoReply
    BY <1>1, <1>15 DEF Relock, LoopInv, InLoop, TypeOK, NoReply, Terms
  <2>2. \A m \in requests : m.live => m.from # n
    BY <1>3, <2>1
  <2>3. LoopInv'
    BY <1>1, <1>15 DEF Relock, raftVars, callVars, TypeOK, LoopInv
  <2>4. RequestInv'
    BY <1>1, <1>2, <1>15, <2>2 DEF Relock, raftVars, callVars, TypeOK, RequestInv, InLoop
  <2>5. QED
    BY <2>3, <2>4
<1>16. ASSUME NEW n \in Node, PeerGone(n) PROVE LoopInv' /\ RequestInv'
  <2>1. \A m \in requests : m.live => m.from # n
    BY <1>3, <1>16 DEF PeerGone, HangUp, raftVars, Disconnected, InLoop
  <2>2. LoopInv'
    BY <1>1, <1>16 DEF PeerGone, HangUp, raftVars, Disconnected, TypeOK, LoopInv
  <2>3. RequestInv'
    BY <1>1, <1>2, <1>16, <2>1 DEF PeerGone, HangUp, raftVars, Disconnected, TypeOK, RequestInv, InLoop
  <2>4. QED
    BY <2>2, <2>3
<1>17. ASSUME NEW n \in Node, ProposeLogEntry(n) PROVE LoopInv' /\ RequestInv'
  BY <1>1, <1>2, <1>17 DEF ProposeLogEntry, Proposer, callVars, TypeOK, LoopInv, RequestInv, InLoop
<1>18. ASSUME NEW n \in Node, ConnectionBreaks(n) PROVE LoopInv' /\ RequestInv'
  <2>1. \A m \in requests' : m.live => m \in requests /\ m.from # n
    BY <1>1, <1>18, AbandonKeepsOthers DEF ConnectionBreaks, TypeOK
  <2>2. LoopInv'
    BY <1>1, <1>18 DEF ConnectionBreaks, HangUp, raftVars, TypeOK, LoopInv
  <2>3. RequestInv'
    BY <1>1, <1>2, <1>18, <2>1 DEF ConnectionBreaks, HangUp, raftVars, TypeOK, RequestInv, InLoop
  <2>4. QED
    BY <2>2, <2>3
<1>19. ASSUME NEW n \in Node, Crash(n) PROVE LoopInv' /\ RequestInv'
  <2>1. \A m \in requests' : m.live => m \in requests /\ m.from # n
    <3>1. {m \in requests : m.to # n} \in SUBSET Request
      BY <1>2
    <3>2. QED
      BY <1>19, <3>1, AbandonKeepsOthers DEF Crash
  <2>2. LoopInv'
    BY <1>1, <1>19 DEF Crash, HangUp, raftVars, TypeOK, LoopInv
  <2>3. RequestInv'
    BY <1>1, <1>2, <1>19, <2>1 DEF Crash, HangUp, raftVars, TypeOK, RequestInv, InLoop
  <2>4. QED
    BY <2>2, <2>3
<1>20. ASSUME NEW m \in requests, HandleRequestVote(m) PROVE LoopInv' /\ RequestInv'
  <2>1. Idle(m.to) /\ requests' = requests \ {m} /\ UNCHANGED <<thread, call>>
    BY <1>20 DEF HandleRequestVote
  <2>2. \A n \in Node : n # m.to => role'[n] = role[n] /\ currentTerm'[n] = currentTerm[n]
    BY <1>1, <1>2, <1>20 DEF HandleRequestVote, TypeOK
  <2>3. \A n \in Node : reply'[n] # reply[n] => m.live /\ n = m.from
    BY <1>1, <1>2, <1>20 DEF HandleRequestVote, TypeOK
  <2>4. LoopInv'
    BY <1>1, <1>2, <1>3, <2>1, <2>2, <2>3 DEF LoopInv, Idle
  <2>5. \A r \in requests' : r.live => r.from # m.to /\ reply'[r.from] = reply[r.from]
    BY <1>1, <1>2, <2>1, <2>3 DEF RequestInv, Idle, InLoop
  <2>6. RequestInv'
    BY <1>1, <1>2, <2>1, <2>2, <2>5 DEF RequestInv, InLoop
  <2>7. QED
    BY <2>4, <2>6
<1>21. QED
  BY <1>4, <1>5, <1>6, <1>7, <1>8, <1>9, <1>10, <1>11, <1>12, <1>13, <1>14,
     <1>15, <1>16, <1>17, <1>18, <1>19, <1>20
  DEF Next, NodeNext, LoopStep, ElectionStep, HeartbeatStep

-----------------------------------------------------------------------------

\* current_term_ never goes back.
LEMMA TermStep ==
  ASSUME IInv, Next, NEW n \in Node
  PROVE  currentTerm'[n] >= currentTerm[n]
<1>1. TypeOK
  BY DEF IInv
<1>2. currentTerm[n] \in Int
  BY <1>1, BoundAssumption DEF TypeOK
<1>3. ASSUME NEW k \in Node, StartElection(k) PROVE currentTerm'[n] >= currentTerm[n]
  BY <1>1, <1>2, <1>3 DEF StartElection, TypeOK
<1>4. ASSUME NEW m \in requests, HandleRequestVote(m) PROVE currentTerm'[n] >= currentTerm[n]
  <2>1. m.to \in Node /\ m.term \in Int
    BY <1>1, RequestType
  <2>2. CASE m.to = n /\ Newer(m)
    <3>1. currentTerm'[n] = m.term
      BY <1>1, <1>4, <2>2 DEF HandleRequestVote, TypeOK
    <3>2. m.term > currentTerm[n]
      BY <2>2 DEF Newer
    <3>3. QED
      BY <1>2, <2>1, <3>1, <3>2
  <2>3. CASE ~(m.to = n /\ Newer(m))
    <3>1. currentTerm'[n] = currentTerm[n]
      BY <1>1, <1>4, <2>1, <2>3 DEF HandleRequestVote, TypeOK
    <3>2. QED
      BY <1>2, <3>1
  <2>4. QED
    BY <2>2, <2>3
<1>5. CASE UNCHANGED currentTerm
  BY <1>2, <1>5
<1>6. QED
  BY ZenonT(60), <1>3, <1>4, <1>5 DEF Next, NodeNext, LoopStep, ElectionStep, HeartbeatStep,
     HeartbeatTick, SendRequestVote, SendAppendEntries, Send, RequestVoteReply, ElectionWon,
     ElectionLost, AppendEntriesAccepted, AppendEntriesRejected, HeartbeatDone, ConnectFails,
     Relock, PeerGone, ProposeLogEntry, ConnectionBreaks, Crash, raftVars

\* voted_for_ keeps a vote for another node, and the vote of a leader for
\* itself, while the term lasts.
LEMMA VotedForStep ==
  ASSUME IInv, Next, NEW n \in Node,
         votedFor[n] # Nil,
         votedFor[n] = n => <<currentTerm[n], n>> \in elected,
         currentTerm'[n] = currentTerm[n]
  PROVE  votedFor'[n] = votedFor[n]
<1>1. TypeOK /\ CampaignInv
  BY DEF IInv
<1>2. currentTerm[n] \in Int
  BY <1>1, BoundAssumption DEF TypeOK
<1>3. ASSUME NEW k \in Node, StartElection(k) PROVE votedFor'[n] = votedFor[n]
  BY <1>1, <1>2, <1>3 DEF StartElection, TypeOK
<1>4. ASSUME NEW k \in Node, ElectionLost(k) PROVE votedFor'[n] = votedFor[n]
  BY <1>1, <1>4 DEF ElectionLost, TypeOK, CampaignInv
<1>5. ASSUME NEW m \in requests, HandleRequestVote(m) PROVE votedFor'[n] = votedFor[n]
  <2>1. m.to \in Node /\ m.term \in Int
    BY <1>1, RequestType
  <2>2. CASE m.to = n
    <3>1. ~Newer(m)
      BY <1>1, <1>2, <1>5, <2>1, <2>2 DEF HandleRequestVote, Newer, TypeOK
    <3>2. VoteBefore(m) = votedFor[n]
      BY <2>2, <3>1 DEF VoteBefore
    <3>3. votedFor'[n] = IF Grants(m) THEN m.from ELSE votedFor[n]
      BY <1>1, <1>5, <2>2, <3>2 DEF HandleRequestVote, TypeOK
    <3>4. Grants(m) => m.from = votedFor[n]
      BY <3>2 DEF Grants
    <3>5. QED
      BY <3>3, <3>4
  <2>3. CASE m.to # n
    BY <1>1, <1>5, <2>3 DEF HandleRequestVote, TypeOK
  <2>4. QED
    BY <2>2, <2>3
<1>6. CASE UNCHANGED votedFor
  BY <1>6
<1>7. QED
  BY ZenonT(60), <1>3, <1>4, <1>5, <1>6 DEF Next, NodeNext, LoopStep, ElectionStep, HeartbeatStep,
     HeartbeatTick, SendRequestVote, SendAppendEntries, Send, RequestVoteReply, ElectionWon,
     AppendEntriesAccepted, AppendEntriesRejected, HeartbeatDone, ConnectFails,
     Relock, PeerGone, ProposeLogEntry, ConnectionBreaks, Crash, raftVars

\* becomeLeader is reached in one place only.
LEMMA ElectedStep ==
  ASSUME Next
  PROVE  \/ \E n \in Node : ElectionWon(n)
         \/ UNCHANGED elected
BY ZenonT(60) DEF Next, NodeNext, LoopStep, ElectionStep, HeartbeatStep, StartElection, HandleRequestVote,
   HeartbeatTick, SendRequestVote, SendAppendEntries, Send, RequestVoteReply,
   ElectionLost, AppendEntriesAccepted, AppendEntriesRejected, HeartbeatDone, ConnectFails,
   Relock, PeerGone, ProposeLogEntry, ConnectionBreaks, Crash

\* A leader keeps its majority, and a new one has it.
LEMMA ElectedInvStep == ASSUME IInv, Next PROVE ElectedInv'
<1>1. TypeOK /\ BallotInv /\ CampaignInv /\ ElectedInv /\ TypeOK'
  BY TypeStep DEF IInv
<1>2. ASSUME NEW t \in Terms, NEW n \in Node, <<t, n>> \in elected
      PROVE  /\ t <= currentTerm'[n]
             /\ t = currentTerm'[n] => votedFor'[n] = n
             /\ \E Q \in SUBSET Node : /\ Cardinality(Q) >= Majority
                                       /\ \A v \in Q : ballot'[v][t] = n
  <2>1. /\ t \in Int /\ currentTerm[n] \in Int /\ currentTerm'[n] \in Int
        /\ t <= currentTerm[n] /\ currentTerm'[n] >= currentTerm[n]
    BY <1>1, <1>2, TermStep, BoundAssumption DEF TypeOK, Terms, ElectedInv
  <2>2. t <= currentTerm'[n]
    BY <2>1
  <2>3. ASSUME t = currentTerm'[n] PROVE votedFor'[n] = n
    <3>1. t = currentTerm[n] /\ currentTerm'[n] = currentTerm[n]
      BY <2>1, <2>3
    <3>2. votedFor[n] = n /\ n # Nil
      BY <1>1, <1>2, <3>1, NodeAssumption DEF ElectedInv
    <3>3. QED
      BY <1>2, <3>1, <3>2, VotedForStep
  <2>4. PICK Q \in SUBSET Node : Cardinality(Q) >= Majority /\ \A v \in Q : ballot[v][t] = n
    BY <1>1, <1>2 DEF ElectedInv
  <2>5. ASSUME NEW v \in Q PROVE ballot'[v][t] = n
    <3>1. v \in Node /\ ballot[v][t] = n
      BY <2>4
    <3>2. QED
      BY ZenonT(60), <1>2, <3>1, VotesKept
  <2>6. QED
    BY <2>2, <2>3, <2>4, <2>5
<1>3. CASE UNCHANGED elected
  BY <1>2, <1>3 DEF ElectedInv, Majority
<1>4. CASE \E n \in Node : ElectionWon(n)
  <2>1. PICK n \in Node : ElectionWon(n)
    BY <1>4
  <2>2. /\ elected' = elected \cup {<<currentTerm[n], n>>}
        /\ UNCHANGED <<currentTerm, votedFor, ballot>>
        /\ Cardinality(votes[n]) >= Majority
        /\ votedFor[n] = n
        /\ \A v \in votes[n] : ballot[v][currentTerm[n]] = n
    BY <1>1, <2>1 DEF ElectionWon, CampaignInv
  <2>3. votes[n] \in SUBSET Node /\ currentTerm[n] \in Int
    BY <1>1, BoundAssumption DEF TypeOK
  <2>4. QED
    BY <1>2, <2>2, <2>3 DEF ElectedInv, Majority
<1>5. QED
  BY <1>3, <1>4, ElectedStep

-----------------------------------------------------------------------------

\* voted_for_ stays the last vote of the current term.
LEMMA BallotInvStep == ASSUME IInv, Next PROVE BallotInv'
<1> USE NodeAssumption
<1>1. TypeOK /\ BallotInv /\ CampaignInv /\ ElectedInv
  BY DEF IInv
<1>2. \A v \in Node : currentTerm[v] \in Int
  BY <1>1, BoundAssumption DEF TypeOK
<1>3. \A t \in Terms : t \in Int
  BY BoundAssumption DEF Terms
<1>4. \A v \in Node, t \in Terms : t > currentTerm[v] => <<t, v>> \notin elected
  BY <1>1, <1>2, <1>3 DEF ElectedInv
<1>5. ASSUME NEW n \in Node, StartElection(n) PROVE BallotInv'
  <2> DEFINE t1 == currentTerm[n] + 1
  <2>1. t1 \in Terms
    BY <1>1, <1>5, BoundAssumption DEF StartElection, TypeOK, Terms
  <2>2. \A v \in Node : v # n => /\ currentTerm'[v] = currentTerm[v]
                                 /\ votedFor'[v] = votedFor[v]
                                 /\ ballot'[v] = ballot[v]
    BY <1>1, <1>5 DEF StartElection, TypeOK
  <2>3. /\ currentTerm'[n] = t1
        /\ votedFor'[n] = n
        /\ \A t \in Terms : ballot'[n][t] = IF t = t1 THEN n ELSE ballot[n][t]
        /\ UNCHANGED elected
    BY <1>1, <1>5, <2>1 DEF StartElection, TypeOK
  <2>4. \A t \in Terms : t > t1 => t > currentTerm[n] /\ t # t1
    BY <1>2, <1>3, <2>1
  <2> HIDE DEF t1
  <2>5. VoteRecorded(n)'
    BY ZenonT(60), <1>1, <2>1, <2>3, <2>4 DEF BallotInv, VoteRecorded
  <2>6. ASSUME NEW v \in Node, v # n PROVE VoteRecorded(v)'
    BY <1>1, <2>2, <2>3, <2>6 DEF BallotInv, VoteRecorded
  <2>7. QED
    BY <2>5, <2>6 DEF BallotInv
<1>6. ASSUME NEW m \in requests, HandleRequestVote(m) PROVE BallotInv'
  <2> DEFINE n == m.to
  <2>1. m.from \in Node /\ n \in Node /\ m.term \in Terms /\ m.term \in Int
    BY <1>1, RequestType
  <2>2. \A v \in Node : v # n => /\ currentTerm'[v] = currentTerm[v]
                                 /\ votedFor'[v] = votedFor[v]
                                 /\ ballot'[v] = ballot[v]
    BY <1>1, <1>6, <2>1 DEF HandleRequestVote, TypeOK
  <2>3. /\ currentTerm'[n] = IF m.term > currentTerm[n] THEN m.term ELSE currentTerm[n]
        /\ votedFor'[n] = IF Grants(m) THEN m.from ELSE VoteBefore(m)
        /\ \A t \in Terms : ballot'[n][t] = IF Grants(m) /\ t = m.term
                                            THEN m.from ELSE ballot[n][t]
        /\ UNCHANGED elected
    BY <1>1, <1>6, <2>1 DEF HandleRequestVote, Newer, TypeOK
  <2>4. VoteBefore(m) = IF m.term > currentTerm[n] THEN Nil ELSE votedFor[n]
    BY DEF Newer, VoteBefore
  <2>5. Grants(m) => m.term >= currentTerm[n]
    BY DEF Grants
  <2>6. currentTerm[n] \in Int /\ VoteRecorded(n)
    BY <1>1, <1>2, <2>1 DEF BallotInv
  <2> HIDE DEF n
  <2>7. ASSUME Grants(m) PROVE VoteRecorded(n)'
    <3>1. currentTerm'[n] = m.term
      BY <2>1, <2>3, <2>5, <2>6, <2>7
    <3>2. \A t \in Terms : t > m.term => t > currentTerm[n] /\ t # m.term
      BY <1>3, <2>1, <2>5, <2>6, <2>7
    <3>3. QED
      BY <2>1, <2>3, <2>6, <2>7, <3>1, <3>2 DEF VoteRecorded
  <2>8. ASSUME ~Grants(m) /\ m.term > currentTerm[n] PROVE VoteRecorded(n)'
    <3>1. \A t \in Terms : t > m.term => t > currentTerm[n]
      BY <1>3, <2>1, <2>6, <2>8
    <3>2. <<m.term, n>> \notin elected /\ ballot[n][m.term] = Nil
      BY <1>4, <2>1, <2>6, <2>8 DEF VoteRecorded
    <3>3. QED
      BY <2>1, <2>3, <2>4, <2>6, <2>8, <3>1, <3>2 DEF VoteRecorded
  <2>9. ASSUME ~Grants(m) /\ ~(m.term > currentTerm[n]) PROVE VoteRecorded(n)'
    BY <2>3, <2>4, <2>6, <2>9 DEF VoteRecorded
  <2>10. VoteRecorded(n)'
    BY <2>7, <2>8, <2>9
  <2>11. ASSUME NEW v \in Node, v # n PROVE VoteRecorded(v)'
    BY <1>1, <2>2, <2>3, <2>11 DEF BallotInv, VoteRecorded
  <2>12. QED
    BY <2>10, <2>11 DEF BallotInv
<1>7. ASSUME NEW n \in Node, ElectionWon(n) PROVE BallotInv'
  <2>1. votedFor[n] = n
    BY <1>1, <1>7 DEF ElectionWon, CampaignInv
  <2>2. QED
    BY <1>1, <1>7, <2>1 DEF ElectionWon, BallotInv, VoteRecorded
<1>8. ASSUME NEW n \in Node, ElectionLost(n) PROVE BallotInv'
  <2>1. votedFor[n] = n /\ <<currentTerm[n], n>> \notin elected
    BY <1>1, <1>8 DEF ElectionLost, CampaignInv
  <2>2. /\ \A v \in Node : v # n => votedFor'[v] = votedFor[v]
        /\ votedFor'[n] = Nil
        /\ UNCHANGED <<currentTerm, ballot, elected>>
    BY <1>1, <1>8 DEF ElectionLost, TypeOK
  <2>3. QED
    BY <1>1, <2>1, <2>2 DEF BallotInv, VoteRecorded
<1>9. CASE UNCHANGED <<currentTerm, votedFor, ballot, elected>>
  BY <1>1, <1>9 DEF BallotInv, VoteRecorded
<1>10. QED
  BY ZenonT(60), <1>5, <1>6, <1>7, <1>8, <1>9 DEF Next, NodeNext, LoopStep, ElectionStep, HeartbeatStep,
     HeartbeatTick, SendRequestVote, SendAppendEntries, Send, RequestVoteReply,
     AppendEntriesAccepted, AppendEntriesRejected, HeartbeatDone, ConnectFails,
     Relock, PeerGone, ProposeLogEntry, ConnectionBreaks, Crash, raftVars


\* The votes of a running campaign stay its votes.
LEMMA CampaignInvStep == ASSUME IInv, Next PROVE CampaignInv'
<1> USE NodeAssumption
<1>1. TypeOK /\ LoopInv /\ RequestInv /\ CampaignInv /\ ElectedInv
  BY DEF IInv
<1>2. \A v \in Node : currentTerm[v] \in Int
  BY <1>1, BoundAssumption DEF TypeOK
<1>3. SUFFICES ASSUME NEW n \in Node, thread'[n] = "election"
               PROVE  /\ votedFor'[n] = n
                      /\ <<currentTerm'[n], n>> \notin elected'
                      /\ \A v \in votes'[n] : ballot'[v][currentTerm'[n]] = n
                      /\ reply'[n].granted => ballot'[call'[n]][currentTerm'[n]] = n
  BY DEF CampaignInv
<1>4. CASE StartElection(n)
  <2> DEFINE t1 == currentTerm[n] + 1
  <2>1. t1 \in Terms /\ t1 > currentTerm[n]
    BY <1>1, <1>2, <1>4, BoundAssumption DEF StartElection, TypeOK, Terms
  <2>2. /\ currentTerm'[n] = t1
        /\ votedFor'[n] = n
        /\ ballot'[n][t1] = n
        /\ votes'[n] = {n}
        /\ UNCHANGED <<elected, reply>>
    BY <1>1, <1>4, <2>1 DEF StartElection, TypeOK
  <2>3. ~reply[n].granted
    BY <1>1, <1>4 DEF StartElection, Idle, LoopInv, NoReply
  <2>4. <<t1, n>> \notin elected
    BY <1>1, <1>2, <2>1 DEF ElectedInv
  <2> HIDE DEF t1
  <2>5. QED
    BY <2>2, <2>3, <2>4
<1>5. CASE ~StartElection(n)
  <2>1. /\ thread[n] = "election"
        /\ votedFor'[n] = votedFor[n]
        /\ currentTerm'[n] = currentTerm[n]
    <3>1. ASSUME NEW k \in Node, StartElection(k) PROVE <2>1!1 /\ <2>1!2 /\ <2>1!3
      BY <1>1, <1>3, <1>5, <3>1 DEF StartElection, TypeOK
    <3>2. ASSUME NEW m \in requests, HandleRequestVote(m) PROVE <2>1!1 /\ <2>1!2 /\ <2>1!3
      BY <1>1, <1>3, <3>2, RequestType DEF HandleRequestVote, Idle, TypeOK
    <3>3. ASSUME NEW k \in Node, ElectionLost(k) PROVE <2>1!1 /\ <2>1!2 /\ <2>1!3
      BY <1>1, <1>3, <3>3 DEF ElectionLost, TypeOK
    <3>4. ASSUME NEW k \in Node, \/ ElectionWon(k) \/ HeartbeatTick(k) \/ HeartbeatDone(k)
                                 \/ AppendEntriesAccepted(k) \/ Relock(k) \/ Crash(k)
          PROVE <2>1!1 /\ <2>1!2 /\ <2>1!3
      BY <1>1, <1>3, <3>4 DEF ElectionWon, HeartbeatTick, HeartbeatDone, AppendEntriesAccepted,
         Relock, Crash, TypeOK, raftVars
    <3>5. CASE UNCHANGED <<thread, votedFor, currentTerm>>
      BY <1>3, <3>5
    <3>6. QED
      BY <3>1, <3>2, <3>3, <3>4, <3>5 DEF Next, NodeNext, LoopStep, ElectionStep, HeartbeatStep,
         SendRequestVote, SendAppendEntries, Send, RequestVoteReply, AppendEntriesRejected,
         ConnectFails, PeerGone, ProposeLogEntry, ConnectionBreaks, raftVars
  <2>2. currentTerm[n] \in Terms /\ votedFor[n] = n /\ <<currentTerm[n], n>> \notin elected
    BY <1>1, <2>1 DEF LoopInv, CampaignInv
  <2>3. ASSUME NEW v \in Node, ballot[v][currentTerm[n]] = n
        PROVE  ballot'[v][currentTerm[n]] = n
    <3>1. PICK t \in Terms : t = currentTerm[n]
      BY <2>2
    <3>2. n = v => thread[v] = "election" /\ t = currentTerm[v]
      BY <2>1, <3>1
    <3>3. ballot'[v][t] = n
      BY ZenonT(60), <2>3, <3>1, <3>2, VotesKept
    <3>4. QED
      BY <3>1, <3>3
  <2>4. <<currentTerm[n], n>> \notin elected'
    <3>1. ASSUME NEW k \in Node, ElectionWon(k) PROVE k # n
      BY <1>1, <1>3, <3>1 DEF ElectionWon, TypeOK
    <3>2. ASSUME NEW k \in Node, ElectionWon(k) PROVE elected' = elected \cup {<<currentTerm[k], k>>}
      BY <3>2 DEF ElectionWon
    <3>3. QED
      BY <2>2, <3>1, <3>2, ElectedStep
  <2>5. votes'[n] = votes[n] \/ (votes'[n] = votes[n] \cup {call[n]} /\ reply[n].granted)
    <3>1. ASSUME NEW k \in Node, RequestVoteReply(k)
          PROVE votes'[n] = votes[n] \/ (votes'[n] = votes[n] \cup {call[n]} /\ reply[n].granted)
      BY <1>1, <3>1 DEF RequestVoteReply, TypeOK
    <3>2. ASSUME NEW k \in Node, StartElection(k) PROVE votes'[n] = votes[n]
      BY <1>1, <1>5, <3>2 DEF StartElection, TypeOK
    <3>3. CASE UNCHANGED votes
      BY <3>3
    <3>4. QED
      BY ZenonT(60), <3>1, <3>2, <3>3 DEF Next, NodeNext, LoopStep, ElectionStep, HeartbeatStep,
         HeartbeatTick, SendRequestVote, SendAppendEntries, Send, ElectionWon, HandleRequestVote,
         ElectionLost, AppendEntriesAccepted, AppendEntriesRejected, HeartbeatDone, ConnectFails,
         Relock, PeerGone, ProposeLogEntry, ConnectionBreaks, Crash, callVars
  <2>6. reply[n].granted => call[n] \in Node /\ ballot[call[n]][currentTerm[n]] = n
    <3>1. reply[n].granted => reply[n] # NoReply
      BY DEF NoReply
    <3>2. reply[n] # NoReply => call[n] \in Node
      BY <1>1 DEF LoopInv, TypeOK
    <3>3. reply[n].granted => ballot[call[n]][currentTerm[n]] = n
      BY <1>1, <2>1 DEF CampaignInv
    <3>4. QED
      BY <3>1, <3>2, <3>3
  <2>7. \A v \in votes[n] : v \in Node /\ ballot[v][currentTerm[n]] = n
    BY <1>1, <2>1 DEF CampaignInv, TypeOK
  <2>8. \A v \in votes'[n] : ballot'[v][currentTerm[n]] = n
    BY <2>3, <2>5, <2>6, <2>7
  <2>9. ASSUME reply'[n].granted PROVE ballot'[call'[n]][currentTerm[n]] = n
    <3>1. CASE reply'[n] = reply[n] /\ call'[n] = call[n]
      BY <2>3, <2>6, <2>9, <3>1
    <3>2. ASSUME NEW m \in requests, HandleRequestVote(m)
          PROVE  ballot'[call'[n]][currentTerm[n]] = n
      <4>1. CASE m.live /\ m.from = n
        <5>1. m.to \in Node /\ call'[n] = m.to /\ m.term = currentTerm[n]
          BY <1>1, <3>2, <4>1, RequestType DEF HandleRequestVote, RequestInv
        <5>2. Grants(m)
          BY <1>1, <2>9, <3>2, <4>1 DEF HandleRequestVote, TypeOK
        <5>3. ballot' = [ballot EXCEPT ![m.to][m.term] = n]
          BY <3>2, <4>1, <5>2 DEF HandleRequestVote
        <5>4. QED
          BY <1>1, <2>2, <5>1, <5>3 DEF TypeOK
      <4>2. CASE ~(m.live /\ m.from = n)
        <5>1. reply'[n] = reply[n] /\ call'[n] = call[n]
          BY <1>1, <3>2, <4>2, RequestType DEF HandleRequestVote, TypeOK
        <5>2. QED
          BY <3>1, <5>1
      <4>3. QED
        BY <4>1, <4>2
    <3>3. ASSUME NEW k \in Node, HangUp(k) PROVE ballot'[call'[n]][currentTerm[n]] = n
      BY <1>1, <2>9, <3>1, <3>3 DEF HangUp, NoReply, TypeOK
    <3>4. ASSUME NEW k \in Node, NEW p \in Node, NEW i, NEW t, Send(k, p, i, t)
          PROVE  ballot'[call'[n]][currentTerm[n]] = n
      <4>1. reply'[n] = reply[n] /\ reply[n] # NoReply /\ call[n] # Nil
        BY <1>1, <2>9, <3>4 DEF Send, NoReply, LoopInv
      <4>2. call'[n] = call[n]
        BY <1>1, <3>4, <4>1 DEF Send, TypeOK
      <4>3. QED
        BY <3>1, <4>1, <4>2
    <3>5. CASE UNCHANGED <<reply, call>>
      BY <3>1, <3>5
    <3>6. QED
      BY ZenonT(60), <3>2, <3>3, <3>4, <3>5 DEF Next, NodeNext, LoopStep, ElectionStep, HeartbeatStep,
         StartElection, HeartbeatTick, SendRequestVote, SendAppendEntries, RequestVoteReply,
         ElectionWon, ElectionLost, AppendEntriesAccepted, AppendEntriesRejected, HeartbeatDone,
         ConnectFails, Relock, PeerGone, ProposeLogEntry, ConnectionBreaks, Crash, callVars
  <2>10. QED
    BY <2>1, <2>2, <2>4, <2>8, <2>9
<1>6. QED
  BY <1>4, <1>5

\* A node leads, and writes, only in terms it won.
LEMMA LeaderInvStep == ASSUME IInv, Next PROVE LeaderInv'
<1>1. TypeOK /\ LeaderInv
  BY DEF IInv
<1>2. elected \subseteq elected'
  BY ElectedStep DEF ElectionWon
<1>3. ASSUME NEW n \in Node, role'[n] = "LEADER" PROVE <<currentTerm'[n], n>> \in elected'
  <2>1. ASSUME NEW k \in Node, StartElection(k) PROVE <<currentTerm'[n], n>> \in elected'
    BY <1>1, <1>2, <1>3, <2>1 DEF StartElection, LeaderInv, TypeOK
  <2>2. ASSUME NEW k \in Node, ElectionWon(k) PROVE <<currentTerm'[n], n>> \in elected'
    BY <1>1, <1>2, <1>3, <2>2 DEF ElectionWon, LeaderInv, TypeOK
  <2>3. ASSUME NEW k \in Node, ElectionLost(k) PROVE <<currentTerm'[n], n>> \in elected'
    BY <1>1, <1>2, <1>3, <2>3 DEF ElectionLost, LeaderInv, TypeOK
  <2>4. ASSUME NEW m \in requests, HandleRequestVote(m)
        PROVE  <<currentTerm'[n], n>> \in elected'
    BY <1>1, <1>2, <1>3, <2>4, RequestType DEF HandleRequestVote, LeaderInv, TypeOK
  <2>5. CASE UNCHANGED <<role, currentTerm>>
    BY <1>1, <1>2, <1>3, <2>5 DEF LeaderInv
  <2>6. QED
    BY ZenonT(60), <2>1, <2>2, <2>3, <2>4, <2>5 DEF Next, NodeNext, LoopStep, ElectionStep, HeartbeatStep,
       HeartbeatTick, SendRequestVote, SendAppendEntries, Send, RequestVoteReply,
       AppendEntriesAccepted, AppendEntriesRejected, HeartbeatDone, ConnectFails,
       Relock, PeerGone, ProposeLogEntry, ConnectionBreaks, Crash, raftVars
<1>4. ASSUME NEW n \in Node, NEW i \in 1 .. Len(log'[n])
      PROVE  <<log'[n][i], n>> \in elected'
  <2>1. ASSUME NEW k \in Node, ProposeLogEntry(k) PROVE <<log'[n][i], n>> \in elected'
    <3>1. CASE k = n
      <4>1. log[n] \in Seq(Terms) /\ currentTerm[n] \in Terms
        BY <1>1, <2>1, <3>1 DEF ProposeLogEntry, Proposer, LeaderInv, TypeOK
      <4>2. log'[n] = Append(log[n], currentTerm[n])
        BY <1>1, <2>1, <3>1 DEF ProposeLogEntry, TypeOK
      <4>3. CASE i = Len(log[n]) + 1
        <5>1. log'[n][i] = currentTerm[n]
          BY <4>1, <4>2, <4>3
        <5>2. QED
          BY <1>1, <1>2, <2>1, <3>1, <5>1 DEF ProposeLogEntry, Proposer, LeaderInv
      <4>4. CASE i # Len(log[n]) + 1
        <5>1. i \in 1 .. Len(log[n]) /\ log'[n][i] = log[n][i]
          BY <4>1, <4>2, <4>4
        <5>2. QED
          BY <1>1, <1>2, <5>1 DEF LeaderInv
      <4>5. QED
        BY <4>3, <4>4
    <3>2. CASE k # n
      BY <1>1, <1>2, <2>1, <3>2 DEF ProposeLogEntry, LeaderInv, TypeOK
    <3>3. QED
      BY <3>1, <3>2
  <2>2. CASE UNCHANGED log
    BY <1>1, <1>2, <2>2 DEF LeaderInv
  <2>3. QED
    BY ZenonT(60), <2>1, <2>2 DEF Next, NodeNext, LoopStep, ElectionStep, HeartbeatStep, StartElection,
       HeartbeatTick, SendRequestVote, SendAppendEntries, Send, RequestVoteReply, ElectionWon,
       ElectionLost, AppendEntriesAccepted, AppendEntriesRejected, HeartbeatDone, ConnectFails,
       HandleRequestVote, Relock, PeerGone, ConnectionBreaks, Crash, raftVars
<1>5. QED
  BY <1>3, <1>4 DEF LeaderInv


-----------------------------------------------------------------------------

\* The invariant is inductive.
LEMMA InvariantStep == IInv /\ [Next]_vars => IInv'
<1>1. ASSUME IInv, Next PROVE IInv'
  BY <1>1, TypeStep, WaitingStep, BallotInvStep, CampaignInvStep, ElectedInvStep, LeaderInvStep
     DEF IInv
<1>2. ASSUME IInv, UNCHANGED vars PROVE IInv'
  <2> USE <1>2 DEF IInv, vars, raftVars, callVars
  <2>1. TypeOK' /\ LoopInv'
    BY DEF TypeOK, LoopInv
  <2>2. RequestInv'
    BY DEF RequestInv, InLoop
  <2>3. BallotInv' /\ CampaignInv'
    BY DEF BallotInv, VoteRecorded, CampaignInv
  <2>4. ElectedInv' /\ LeaderInv'
    BY DEF ElectedInv, Majority, LeaderInv
  <2>5. QED
    BY <2>1, <2>2, <2>3, <2>4
<1>3. QED
  BY <1>1, <1>2

\* IInv holds in every state a cluster without restarts can reach.
THEOREM Invariant == Spec => []IInv
BY InitInv, InvariantStep, PTL DEF Spec

\* Every variable keeps its type: in particular no loop over peers_ indexes
\* next_index_ below 1, and no response is read for nobody.
THEOREM TypeCorrect == Spec => []TypeOK
<1>1. IInv => TypeOK
  BY DEF IInv
<1>2. QED
  BY <1>1, Invariant, PTL

\* Two majorities of one cluster share a voter.
LEMMA MajoritiesMeet ==
  ASSUME NEW Q \in SUBSET Node, NEW R \in SUBSET Node,
         Cardinality(Q) >= Majority, Cardinality(R) >= Majority
  PROVE  Q \cap R # {}
<1>1. /\ Cardinality(Node) \in Nat /\ IsFiniteSet(Node)
      /\ Cardinality(Q) \in Nat /\ Cardinality(R) \in Nat
  BY NodeAssumption, FS_Subset, FS_CardinalityType
<1>2. Cardinality(Q) + Cardinality(R) > Cardinality(Node)
  BY <1>1 DEF Majority
<1>3. QED
  BY <1>1, <1>2, FS_MajoritiesIntersect

\* The ballots behind two leaders of a term would have a voter in common.
LEMMA OneLeader == IInv => OneLeaderPerTerm
<1>1. SUFFICES ASSUME IInv, NEW t \in Terms, NEW n \in Node, NEW p \in Node,
                      <<t, n>> \in elected, <<t, p>> \in elected
               PROVE  n = p
  BY DEF OneLeaderPerTerm
<1>2. ElectedInv
  BY <1>1 DEF IInv
<1>3. PICK Q \in SUBSET Node : Cardinality(Q) >= Majority /\ \A v \in Q : ballot[v][t] = n
  BY <1>1, <1>2 DEF ElectedInv
<1>4. PICK R \in SUBSET Node : Cardinality(R) >= Majority /\ \A v \in R : ballot[v][t] = p
  BY <1>1, <1>2 DEF ElectedInv
<1>5. Q \cap R # {}
  BY <1>3, <1>4, MajoritiesMeet
<1>6. QED
  BY <1>3, <1>4, <1>5

\* Election safety: whatever the cluster's size and however calls, handlers,
\* lost connections and crashes interleave, a term has at most one leader.
THEOREM ElectionSafety == Spec => []OneLeaderPerTerm
BY Invariant, OneLeader, PTL

\* Entries of one term come from one node's proposeLogEntry.
THEOREM WriterSafety == Spec => []OneWriterPerTerm
<1>1. ASSUME IInv PROVE OneWriterPerTerm
  <2>1. OneLeaderPerTerm /\ LeaderInv /\ TypeOK
    BY <1>1, OneLeader DEF IInv
  <2>2. ASSUME NEW n \in Node, NEW p \in Node, NEW i \in 1 .. MaxLog, NEW j \in 1 .. MaxLog,
               i <= Len(log[n]), j <= Len(log[p]), log[n][i] = log[p][j]
        PROVE  n = p
    <3>1. i \in 1 .. Len(log[n]) /\ j \in 1 .. Len(log[p])
      BY <2>1, <2>2 DEF TypeOK
    <3>2. <<log[n][i], n>> \in elected /\ <<log[n][i], p>> \in elected
      BY <2>1, <2>2, <3>1 DEF LeaderInv
    <3>3. log[n][i] \in Terms
      BY <2>1, <3>1 DEF TypeOK
    <3>4. QED
      BY <2>1, <3>2, <3>3 DEF OneLeaderPerTerm
  <2>3. QED
    BY <2>2 DEF OneWriterPerTerm
<1>2. QED
  BY <1>1, Invariant, PTL

\* A vote for another node outlives everything but its term.
THEOREM VotesAreKept == Spec => VoteStable
<1> DEFINE Kept == \A n \in Node : /\ votedFor[n] \notin {Nil, n}
                                   /\ currentTerm'[n] = currentTerm[n]
                                   => votedFor'[n] = votedFor[n]
<1>1. IInv /\ [Next]_vars => [Kept]_vars
  <2>1. ASSUME IInv, Next, NEW n \in Node, votedFor[n] \notin {Nil, n},
               currentTerm'[n] = currentTerm[n]
        PROVE  votedFor'[n] = votedFor[n]
    BY <2>1, VotedForStep
  <2>2. QED
    BY <2>1
<1>2. QED
  BY <1>1, Invariant, PTL DEF Spec, VoteStable

\* current_term_ of a running node never goes back.
THEOREM TermsGrow == Spec => TermsOnlyGrow
<1>1. IInv /\ [Next]_vars => [\A n \in Node : currentTerm'[n] >= currentTerm[n]]_vars
  BY TermStep
<1>2. QED
  BY <1>1, Invariant, PTL DEF Spec, TermsOnlyGrow

\* becomeFollower in the office of a leader: a vote for a rival of its own term
\* never unseats it.
LEMMA UnseatedStep ==
  ASSUME IInv, Next, NEW n \in Node, role[n] = "LEADER", role'[n] # "LEADER"
  PROVE  currentTerm'[n] > currentTerm[n]
<1>1. TypeOK /\ LoopInv
  BY DEF IInv
<1>2. ASSUME NEW m \in requests, HandleRequestVote(m)
      PROVE  currentTerm'[n] > currentTerm[n]
  <2>1. m.to = n /\ Newer(m)
    BY <1>1, <1>2 DEF HandleRequestVote, TypeOK
  <2>2. QED
    BY <1>1, <1>2, <2>1, RequestType DEF HandleRequestVote, Newer, TypeOK
<1>3. ASSUME NEW k \in Node, StartElection(k) PROVE FALSE
  BY <1>1, <1>3 DEF StartElection, TypeOK
<1>4. ASSUME NEW k \in Node, ElectionWon(k) PROVE FALSE
  BY <1>1, <1>4 DEF ElectionWon, TypeOK
<1>5. ASSUME NEW k \in Node, ElectionLost(k) PROVE FALSE
  BY <1>1, <1>5 DEF ElectionLost, LoopInv, TypeOK
<1>6. CASE UNCHANGED role
  BY <1>6
<1>7. QED
  BY ZenonT(60), <1>2, <1>3, <1>4, <1>5, <1>6 DEF Next, NodeNext, LoopStep, ElectionStep, HeartbeatStep,
     HeartbeatTick, SendRequestVote, SendAppendEntries, Send, RequestVoteReply,
     AppendEntriesAccepted, AppendEntriesRejected, HeartbeatDone, ConnectFails,
     Relock, PeerGone, ProposeLogEntry, ConnectionBreaks, Crash, raftVars

\* What a node takes back of a term, crashes aside: nothing.  Its term does not go
\* back, its vote for another stays, and a leader is unseated by a later term only.
THEOREM Discipline == Spec => TermDiscipline
<1> DEFINE Stays == \A n \in Node : /\ role[n] = "LEADER"
                                    /\ role'[n] # "LEADER"
                                    => currentTerm'[n] > currentTerm[n]
<1>1. IInv /\ [Next]_vars => [Stays]_vars
  <2>1. ASSUME IInv, Next, NEW n \in Node, role[n] = "LEADER", role'[n] # "LEADER"
        PROVE  currentTerm'[n] > currentTerm[n]
    BY <2>1, UnseatedStep
  <2>2. QED
    BY <2>1
<1>2. Spec => LeaderKeepsItsTerm
  BY <1>1, Invariant, PTL DEF Spec, LeaderKeepsItsTerm
<1>3. QED
  BY <1>2, TermsGrow, VotesAreKept DEF TermDiscipline

=============================================================================
