-------------------------- MODULE EpollServerProofs --------------------------
(***************************************************************************)
(* EpollServer for any number of clients, descriptors and workers: the     *)
(* table of connections, the counter of the limit, the edges of epoll and  *)
(* the descriptors that tasks carry agree, and an answer goes astray only  *)
(* when its client has gone.  Then one connection of it, byte by byte:     *)
(* Framing for messages of any number and length.                          *)
(***************************************************************************)
EXTENDS EpollServer, DataProofs, SequenceTheorems

\* The requests of clients that the loop has still to read have their type.
LEMMA NextRequests ==
  ASSUME TypeOK, NEW c \in Client, NEW n \in read[c] + 1 .. sent[c]
  PROVE  /\ read[c] \in Nat /\ n \in Nat /\ n - read[c] \in Nat \ {0} /\ n <= sent[c]
         /\ \A i \in 1 .. (n - read[c]) : <<c, read[c] + i>> \in Request
<1>1. /\ read[c] \in Nat /\ sent[c] \in Nat /\ MaxRequests[c] \in Nat
      /\ sent[c] <= MaxRequests[c]
  BY MaxAssumption DEF TypeOK
<1>2. ASSUME NEW i \in 1 .. (n - read[c]) PROVE <<c, read[c] + i>> \in Request
  <2>1. read[c] + i \in 1 .. MaxRequests[c]
    BY <1>1
  <2>2. <<c, read[c] + i>> \in {c} \X (1 .. MaxRequests[c])
    BY <2>1
  <2>3. QED
    BY <2>2 DEF Request
<1>3. QED
  BY <1>1, <1>2

\* What recv() and extractMessages give: a task for each message, on the
\* descriptor the loop is at.
LEMMA Received ==
  ASSUME TypeOK, LoopInv, NEW c \in Client, ReadRequest(c)
  PROVE  /\ cur \in Fd /\ socket[cur] = c /\ messages = <<>>
         /\ \E n \in read[c] + 1 .. sent[c] :
               /\ n \in Nat /\ read[c] \in Nat /\ n - read[c] \in Nat \ {0} /\ n <= sent[c]
               /\ read' = [read EXCEPT ![c] = n]
               /\ messages' \in Seq(Task) /\ DOMAIN messages' = 1 .. (n - read[c])
               /\ messages' # <<>>
               /\ \A i \in 1 .. (n - read[c]) :
                     messages'[i].fd = cur /\ messages'[i].of = <<c, read[c] + i>>
<1>1. cur \in Fd /\ socket[cur] = c /\ messages = <<>>
  BY DEF ReadRequest, Reading, LoopInv
<1>2. PICK n \in read[c] + 1 .. sent[c] :
         /\ read' = [read EXCEPT ![c] = n]
         /\ messages' = [i \in 1..(n - read[c]) |-> [fd |-> cur, of |-> <<c, read[c] + i>>]]
  BY DEF ReadRequest
<1>3. /\ n \in Nat /\ read[c] \in Nat /\ n - read[c] \in Nat \ {0} /\ n <= sent[c]
      /\ \A i \in 1 .. (n - read[c]) : <<c, read[c] + i>> \in Request
  BY NextRequests
<1> DEFINE k == n - read[c]
<1>4. \A i \in 1 .. k : [fd |-> cur, of |-> <<c, read[c] + i>>] \in Task
  BY <1>1, <1>3 DEF Task
<1>5. k \in Nat /\ k # 0
  BY <1>3
<1>6. messages' = [i \in 1..k |-> [fd |-> cur, of |-> <<c, read[c] + i>>]]
  BY <1>2
<1> HIDE DEF k
<1>7. messages' \in [1 .. k -> Task] /\ DOMAIN messages' = 1 .. k
  BY <1>4, <1>6
<1>8. messages' \in Seq(Task)
  BY <1>5, <1>7
<1>9. \A i \in 1 .. k : messages'[i].fd = cur /\ messages'[i].of = <<c, read[c] + i>>
  BY <1>6
<1>10. messages' # <<>>
  BY <1>5, <1>7
<1>11. QED
  BY <1>1, <1>2, <1>3, <1>7, <1>8, <1>9, <1>10 DEF k

\* What a worker has in hand.
LEMMA JobType ==
  ASSUME TypeOK, NEW w \in Worker, job[w] # NoJob
  PROVE  /\ job[w] \in [at : {"handling", "sending"}, task : Task]
         /\ job[w].task \in Task /\ job[w].task.fd \in Fd /\ job[w].task.of \in Request
<1>1. job[w] \in [at : {"handling", "sending"}, task : Task]
  BY DEF TypeOK
<1>2. job[w].task \in Task
  BY <1>1
<1>3. QED
  BY <1>1, <1>2 DEF Task

\* A worker that has no job is at no point of one.
LEMMA NoJobAt == ASSUME NEW w, job[w].at \in {"handling", "sending"} PROVE job[w] # NoJob
BY DEF NoJob

\* A request names its client.
LEMMA RequestClient == ASSUME NEW r \in Request PROVE r[1] \in Client
BY DEF Request

\* accept() gives a number that nobody has.
LEMMA FreeFdIsFree == ASSUME Of(Nil) # {} PROVE FreeFd \in Fd /\ socket[FreeFd] = Nil
BY DEF Of, FreeFd

-----------------------------------------------------------------------------
(* The limit.                                                              *)

\* The accepted sockets are counted, but for the one that is being registered.
LEMMA CountedType ==
  ASSUME NEW S, S \subseteq Fd
  PROVE  IsFiniteSet(S) /\ Cardinality(S) \in Nat
BY FdAssumption, FS_Subset, FS_CardinalityType

\* One more element makes a set larger by one at most.
LEMMA AddOne ==
  ASSUME NEW S, NEW x, IsFiniteSet(S)
  PROVE  IsFiniteSet(S \cup {x}) /\ Cardinality(S \cup {x}) <= Cardinality(S) + 1
<1>1. Cardinality(S) \in Nat
  BY FS_CardinalityType
<1>2. Cardinality(S \cup {x}) = IF x \in S THEN Cardinality(S) ELSE Cardinality(S) + 1
  BY FS_AddElement
<1>3. QED
  BY <1>1, <1>2, FS_AddElement

\* There is room for the socket that is not counted.
LEMMA Limit == ASSUME TypeOK, CountInv PROVE LimitKept
<1> DEFINE S == {f \in Fd : socket[f] # Nil}
<1>1. active \in 0 .. MaxConnections /\ MaxConnections \in Nat
  BY MaxAssumption DEF TypeOK
<1>2. S \subseteq Fd /\ Counted \subseteq Fd
  BY DEF Counted
<1>3. Cardinality(Counted) \in Nat /\ Cardinality(S) \in Nat /\ IsFiniteSet(Counted)
  BY <1>2, CountedType
<1>4. CASE loop = "accepted"
  <2>1. S \subseteq Counted \cup {cur}
    BY DEF Counted
  <2>2. /\ IsFiniteSet(Counted \cup {cur})
        /\ Cardinality(Counted \cup {cur}) <= Cardinality(Counted) + 1
        /\ Cardinality(Counted \cup {cur}) \in Nat
    BY <1>3, AddOne, FS_CardinalityType
  <2>3. Cardinality(S) <= Cardinality(Counted \cup {cur})
    BY <2>1, <2>2, FS_Subset
  <2>4. Cardinality(Counted) <= active /\ active < MaxConnections
    BY <1>4 DEF CountInv
  <2>5. Cardinality(S) <= MaxConnections
    BY <1>1, <1>3, <2>2, <2>3, <2>4
  <2>6. QED
    BY <2>5 DEF LimitKept
<1>5. CASE loop # "accepted"
  <2>1. S = Counted
    BY <1>5 DEF Counted
  <2>2. Cardinality(S) <= active
    BY <2>1 DEF CountInv
  <2>3. Cardinality(S) <= MaxConnections
    BY <1>1, <1>3, <2>2
  <2>4. QED
    BY <2>3 DEF LimitKept
<1>6. QED
  BY <1>4, <1>5

\* The initial states satisfy the invariant.
LEMMA InitInv == Init => IInv
<1>1. SUFFICES ASSUME Init PROVE IInv
  OBVIOUS
<1>2. TypeOK
  <2>1. messages \in Seq(Task) /\ queue \in Seq(Task) /\ stream \in [Client -> Seq(Request)]
    BY <1>1 DEF Init
  <2>2. job \in [Worker -> {NoJob} \cup [at : {"handling", "sending"}, task : Task]]
    BY <1>1 DEF Init
  <2>3. QED
    BY <1>1, <2>1, <2>2, MaxAssumption DEF Init, TypeOK
<1>3. LoopInv /\ BatchInv /\ SocketInv /\ EntriesOwnSockets /\ NothingStranded
  BY <1>1, FdAssumption DEF Init, LoopInv, BatchInv, SocketInv, EntriesOwnSockets, NothingStranded, Of
<1>4. TaskInv
  BY <1>1 DEF Init, TaskInv, NoJob
<1>5. CountInv
  <2>1. Counted = {}
    BY <1>1 DEF Init, Counted
  <2>2. Cardinality(Counted) = 0 /\ active = 0 /\ loop # "accepted"
    BY <1>1, <2>1, FS_EmptySet DEF Init
  <2>3. QED
    BY <2>2 DEF CountInv
<1>6. LimitKept
  BY <1>2, <1>5, Limit
<1>7. QED
  BY <1>2, <1>3, <1>4, <1>5, <1>6 DEF IInv

-----------------------------------------------------------------------------
(* Types.                                                                  *)

\* A step of a client or of stop() keeps the types.
LEMMA TypeOutside ==
  ASSUME IInv, \/ \E c \in Client : ClientStep(c)
               \/ StopBegin \/ StopStep
  PROVE  TypeOK'
<1> USE MaxAssumption
<1>1. TypeOK
  BY DEF IInv
<1>2. ASSUME NEW c \in Client, Connect(c) PROVE TypeOK'
  BY <1>1, <1>2 DEF Connect, TypeOK, clients, life, tasks
<1>3. ASSUME NEW c \in Client, SendRequest(c) PROVE TypeOK'
  <2>1. Of(c) \subseteq Fd
    BY DEF Of
  <2>2. \A d \in Client : read'[d] <= sent'[d] /\ sent'[d] <= MaxRequests[d]
    <3>1. \A d \in Client : read[d] \in Nat /\ sent[d] \in Nat /\ MaxRequests[d] \in Nat
      BY <1>1 DEF TypeOK
    <3>2. QED
      BY <1>1, <1>3, <3>1 DEF SendRequest, TypeOK
  <2>3. sent' \in [Client -> Nat]
    BY <1>1, <1>3 DEF SendRequest, TypeOK
  <2>4. QED
    BY <1>1, <1>3, <2>1, <2>2, <2>3 DEF SendRequest, TypeOK, clients, life, tasks
<1>4. ASSUME NEW c \in Client, Disconnect(c) PROVE TypeOK'
  <2>1. Of(c) \subseteq Fd
    BY DEF Of
  <2>2. QED
    BY <1>1, <1>4, <2>1 DEF Disconnect, TypeOK, clients, life, tasks
<1>5. CASE StopBegin
  BY <1>1, <1>5 DEF StopBegin, TypeOK, kernel, clients, tasks
<1>6. CASE StopClients
  BY <1>1, <1>6 DEF StopClients, TypeOK, tasks
<1>7. CASE StopEpoll
  BY <1>1, <1>7 DEF StopEpoll, TypeOK, clients, tasks
<1>8. CASE StopPool
  BY <1>1, <1>8 DEF StopPool, TypeOK, kernel, clients, tasks
<1>9. CASE StopJoin
  BY <1>1, <1>9 DEF StopJoin, TypeOK, kernel, clients, tasks
<1>10. QED
  BY <1>2, <1>3, <1>4, <1>5, <1>6, <1>7, <1>8, <1>9 DEF ClientStep, StopStep

\* A step of the event loop keeps the types.
LEMMA TypeLoop == ASSUME IInv, LoopStep PROVE TypeOK'
<1> USE MaxAssumption
<1>1. TypeOK /\ LoopInv /\ CountInv
  BY DEF IInv
<1>2. Nil \notin Client /\ Listen \notin Fd /\ Nil \notin Fd
  BY FdAssumption
<1>3. CASE EpollWait
  BY <1>1, <1>3 DEF EpollWait, TypeOK, clients, life, tasks
<1>4. CASE LoopExit
  BY <1>1, <1>4 DEF LoopExit, TypeOK, kernel, clients, life, tasks
<1>5. CASE HandleNewConnection
  BY <1>1, <1>5 DEF HandleNewConnection, TypeOK, kernel, clients, life, tasks
<1>6. ASSUME NEW c \in Client, Accept(c) PROVE TypeOK'
  <2>1. FreeFd \in Fd
    BY <1>6, FreeFdIsFree DEF Accept
  <2>2. QED
    BY <1>1, <1>6, <2>1 DEF Accept, TypeOK, clients, life, tasks
<1>7. ASSUME NEW c \in Client, Reject(c) PROVE TypeOK'
  BY <1>1, <1>7 DEF Reject, TypeOK, clients, life, tasks
<1>8. CASE AcceptDone
  BY <1>1, <1>8 DEF AcceptDone, TypeOK, kernel, clients, life, tasks
<1>9. CASE Register
  <2>1. active + 1 \in 0 .. MaxConnections
    BY <1>1, <1>9 DEF Register, TypeOK, CountInv
  <2>2. connections' \in [Fd -> Client \cup {Nil}]
    BY <1>1, <1>9 DEF Register, TypeOK, LoopInv
  <2>3. QED
    BY <1>1, <1>9, <2>1, <2>2 DEF Register, TypeOK, kernel, life, tasks
<1>10. ASSUME NEW f \in Fd, HandleClientData(f) PROVE TypeOK'
  BY <1>1, <1>10 DEF HandleClientData, TypeOK, kernel, clients, life, tasks
<1>11. ASSUME NEW c \in Client, ReadRequest(c) PROVE TypeOK'
  <2>1. PICK n \in Nat : /\ n <= sent[c] /\ read' = [read EXCEPT ![c] = n]
                         /\ messages' \in Seq(Task)
    BY <1>1, <1>11, Received
  <2>2. /\ read' \in [Client -> Nat]
        /\ \A d \in Client : read'[d] <= sent'[d] /\ sent'[d] <= MaxRequests[d]
    BY <1>1, <1>11, <2>1 DEF ReadRequest, TypeOK, kernel
  <2>3. QED
    BY <1>1, <1>11, <2>1, <2>2 DEF ReadRequest, TypeOK, kernel, clients, life
<1>12. CASE Enqueue
  <2>1. messages \in Seq(Task) /\ messages # <<>> /\ queue \in Seq(Task)
    BY <1>1, <1>12 DEF Enqueue, TypeOK
  <2>2. Head(messages) \in Task /\ Tail(messages) \in Seq(Task)
    BY <2>1
  <2>3. Append(queue, Head(messages)) \in Seq(Task)
    BY <2>1, <2>2
  <2>4. QED
    BY <1>1, <1>12, <2>2, <2>3 DEF Enqueue, TypeOK, kernel, clients, life
<1>17. ASSUME EnqueueAfterStop \/ \E c \in Client : ReadAgain(c) PROVE TypeOK'
  BY <1>1, <1>17 DEF EnqueueAfterStop, ReadAgain, TypeOK, kernel, clients, life, tasks
<1>13. ASSUME NEW c \in Client, ReadEnd(c) PROVE TypeOK'
  BY <1>1, <1>13 DEF ReadEnd, Erased, TypeOK, kernel, life, tasks
<1>14. CASE ReadClosed
  BY <1>1, <1>14 DEF ReadClosed, TypeOK, kernel, clients, life, tasks
<1>15. CASE CloseConnection
  <2>1. active - 1 \in 0 .. MaxConnections
    <3>1. cur \in Counted
      BY <1>1, <1>15 DEF CloseConnection, LoopInv, Counted
    <3>2. Cardinality(Counted) # 0 /\ Cardinality(Counted) \in Nat
      BY <3>1, CountedType, FS_EmptySet DEF Counted
    <3>3. QED
      BY <1>1, <3>2 DEF CountInv, TypeOK
  <2>2. QED
    BY <1>1, <1>15, <2>1 DEF CloseConnection, TypeOK, life, tasks
<1>16. QED
  BY <1>3, <1>4, <1>5, <1>6, <1>7, <1>8, <1>9, <1>10, <1>11, <1>12, <1>13, <1>14, <1>15, <1>17
     DEF LoopStep

\* A step of a worker keeps the types.
LEMMA TypeWorker == ASSUME IInv, NEW w \in Worker, WorkerStep(w) PROVE TypeOK'
<1> DEFINE Jobs == [at : {"handling", "sending"}, task : Task]
<1>1. TypeOK
  BY DEF IInv
<1>2. ASSUME NEW j \in {NoJob} \cup Jobs, job' = [job EXCEPT ![w] = j]
      PROVE  job' \in [Worker -> {NoJob} \cup Jobs]
  BY <1>1, <1>2 DEF TypeOK
<1>3. CASE StartJob(w)
  <2>1. queue # <<>> /\ queue \in Seq(Task)
    BY <1>1, <1>3 DEF StartJob, TypeOK
  <2>2. Head(queue) \in Task /\ Tail(queue) \in Seq(Task)
    BY <2>1
  <2>3. [at |-> "handling", task |-> Head(queue)] \in Jobs
    BY <2>2
  <2>4. job' = [job EXCEPT ![w] = [at |-> "handling", task |-> Head(queue)]]
    BY <1>3 DEF StartJob
  <2> HIDE DEF Jobs
  <2>5. job' \in [Worker -> {NoJob} \cup Jobs]
    BY <1>2, <2>3, <2>4
  <2>6. QED
    BY <1>1, <1>3, <2>2, <2>5 DEF StartJob, Popped, TypeOK, kernel, clients, life, Jobs
<1>4. CASE FindConnection(w)
  <2>1. job[w] \in Jobs
    BY <1>1, <1>4, JobType, NoJobAt DEF FindConnection
  <2>2. [job[w] EXCEPT !.at = "sending"] \in Jobs
    BY <2>1
  <2>3. PICK j \in {NoJob} \cup Jobs : job' = [job EXCEPT ![w] = j]
    <3>1. job' = [job EXCEPT ![w] = IF connections[Target(job[w].task)] = Nil
                                    THEN NoJob
                                    ELSE [job[w] EXCEPT !.at = "sending"]]
      BY <1>1, <1>4 DEF FindConnection, TypeOK
    <3>2. QED
      BY <2>2, <3>1
  <2> HIDE DEF Jobs
  <2>4. job' \in [Worker -> {NoJob} \cup Jobs]
    BY <1>2, <2>3
  <2>5. QED
    BY <1>1, <1>4, <2>4 DEF FindConnection, TypeOK, kernel, clients, life, Jobs
<1>5. CASE SendResponse(w)
  <2>1. job[w].task.of \in Request
    BY <1>1, <1>5, JobType, NoJobAt DEF SendResponse
  <2>2. job' \in [Worker -> {NoJob} \cup Jobs]
    BY <1>2, <1>5 DEF SendResponse
  <2>3. stream' \in [Client -> Seq(Request)]
    <3>1. CASE UNCHANGED stream
      BY <1>1, <3>1 DEF TypeOK
    <3>2. ASSUME NEW c \in Client, stream' = [stream EXCEPT ![c] = Append(@, job[w].task.of)]
          PROVE  stream' \in [Client -> Seq(Request)]
      <4>1. stream[c] \in Seq(Request)
        BY <1>1 DEF TypeOK
      <4>2. Append(stream[c], job[w].task.of) \in Seq(Request)
        BY <2>1, <4>1
      <4>3. QED
        BY <1>1, <3>2, <4>2 DEF TypeOK
    <3>3. ASSUME NEW f \in Fd, socket[f] # Nil PROVE socket[f] \in Client
      BY <1>1, <3>3 DEF TypeOK
    <3>4. Target(job[w].task) \in Fd
      <4>1. job[w].task \in Task
        BY <1>1, <1>5, JobType, NoJobAt DEF SendResponse
      <4>2. QED
        BY <4>1 DEF Target, Task
    <3>5. QED
      BY <1>5, <3>1, <3>2, <3>3, <3>4 DEF SendResponse
  <2>4. QED
    BY <1>1, <1>5, <2>2, <2>3 DEF SendResponse, TypeOK, kernel, clients, life
<1>6. QED
  BY <1>3, <1>4, <1>5 DEF WorkerStep

\* A step keeps every variable in its type.
LEMMA TypeStep == ASSUME IInv, Next PROVE TypeOK'
BY TypeOutside, TypeLoop, TypeWorker DEF Next

-----------------------------------------------------------------------------
(* What a step does to the table, to the descriptors and to the events.    *)

\* Every step but three leaves the descriptors with whom they are.
LEMMA SocketCases ==
  ASSUME Next
  PROVE  \/ \E c \in Client : Accept(c)
         \/ CloseConnection
         \/ StopClients
         \/ UNCHANGED socket
BY DEF Next, ClientStep, LoopStep, WorkerStep, StopStep, Connect, SendRequest, Disconnect,
   EpollWait, LoopExit, HandleNewConnection, Reject, AcceptDone, Register, HandleClientData,
   ReadRequest, Enqueue, EnqueueAfterStop, ReadAgain, ReadEnd, ReadClosed, StartJob, FindConnection,
   SendResponse, StopBegin, StopEpoll, StopPool, StopJoin, kernel

\* A client connects once, and what the backlog holds has connected.
LEMMA SocketInvStep == ASSUME IInv, Next PROVE SocketInv'
<1>1. TypeOK /\ SocketInv /\ LoopInv
  BY DEF IInv
<1>2. Nil \notin Client /\ Nil \notin Fd
  BY FdAssumption
<1>3. ASSUME NEW c \in Client, Accept(c) PROVE SocketInv'
  <2>1. FreeFd \in Fd /\ socket[FreeFd] = Nil
    BY <1>3, FreeFdIsFree DEF Accept
  <2>2. socket' = [socket EXCEPT ![FreeFd] = c] /\ backlog' = backlog \ {c} /\ peer' = peer /\ c \in backlog
    BY <1>3 DEF Accept
  <2> HIDE DEF FreeFd
  <2>3. \A f \in Fd : socket[f] # c
    BY <1>1, <2>2 DEF SocketInv, Of
  <2>4. \A f, g \in Fd : socket'[f] # Nil /\ socket'[f] = socket'[g] => f = g
    BY <1>1, <2>1, <2>2, <2>3 DEF SocketInv, TypeOK
  <2>5. ASSUME NEW d \in Client, d \in backlog' \/ peer'[d] = "new"
        PROVE  \A f \in Fd : socket'[f] # d
    <3>1. d # c
      BY <1>1, <2>2, <2>5 DEF SocketInv
    <3>2. \A f \in Fd : socket[f] # d
      BY <1>1, <2>2, <2>5 DEF SocketInv, Of
    <3>3. QED
      BY <1>1, <2>1, <2>2, <3>1, <3>2 DEF TypeOK
  <2>6. \A d \in backlog' : peer'[d] # "new"
    BY <1>1, <2>2 DEF SocketInv
  <2>7. QED
    BY <2>4, <2>5, <2>6 DEF SocketInv, Of
<1>4. ASSUME \A f \in Fd : socket'[f] \in {socket[f], Nil}, UNCHANGED <<peer, backlog>> PROVE SocketInv'
  <2>1. \A f, g \in Fd : socket'[f] # Nil /\ socket'[f] = socket'[g] => f = g
    BY <1>1, <1>4 DEF SocketInv, TypeOK
  <2>2. ASSUME NEW d \in Client, d \in backlog' \/ peer'[d] = "new"
        PROVE  \A f \in Fd : socket'[f] # d
    BY <1>1, <1>2, <1>4, <2>2 DEF SocketInv, Of
  <2>3. QED
    BY <1>1, <1>4, <2>1, <2>2 DEF SocketInv, Of
<1>5. CASE CloseConnection \/ StopClients
  <2>1. (\A f \in Fd : socket'[f] \in {socket[f], Nil}) /\ UNCHANGED <<peer, backlog>>
    BY <1>1, <1>5 DEF CloseConnection, StopClients, TypeOK
  <2>2. QED
    BY <1>4, <2>1
<1>6. ASSUME NEW c \in Client, Connect(c) PROVE SocketInv'
  BY <1>1, <1>6 DEF Connect, SocketInv, Of, TypeOK
<1>7. ASSUME NEW c \in Client, Disconnect(c) PROVE SocketInv'
  BY <1>1, <1>7 DEF Disconnect, SocketInv, Of, TypeOK
<1>8. ASSUME NEW c \in Client, Reject(c) PROVE SocketInv'
  BY <1>1, <1>8 DEF Reject, SocketInv, Of
<1>9. CASE StopEpoll
  BY <1>1, <1>9 DEF StopEpoll, SocketInv, Of
<1>10. CASE UNCHANGED <<socket, backlog, peer>>
  BY <1>1, <1>10 DEF SocketInv, Of
<1>11. QED
  BY <1>3, <1>5, <1>6, <1>7, <1>8, <1>9, <1>10
     DEF Next, ClientStep, LoopStep, WorkerStep, StopStep, SendRequest,
     EpollWait, LoopExit, HandleNewConnection, AcceptDone, Register, HandleClientData,
     ReadRequest, Enqueue, EnqueueAfterStop, ReadAgain, ReadEnd, ReadClosed, StartJob, FindConnection,
     SendResponse, StopBegin, StopPool, StopJoin, kernel

\* The table follows the descriptors: an entry is made for the connection that
\* has the number, and goes before the number does.
LEMMA EntriesStep == ASSUME IInv, Next PROVE EntriesOwnSockets'
<1>1. TypeOK /\ LoopInv /\ EntriesOwnSockets
  BY DEF IInv
<1>2. ASSUME NEW c \in Client, Accept(c) PROVE EntriesOwnSockets'
  <2>1. FreeFd \in Fd /\ socket[FreeFd] = Nil
    BY <1>2, FreeFdIsFree DEF Accept
  <2>2. connections[FreeFd] = Nil
    BY <1>1, <2>1 DEF EntriesOwnSockets
  <2>3. QED
    BY <1>1, <1>2, <2>1, <2>2 DEF Accept, clients, EntriesOwnSockets, TypeOK
<1>3. CASE CloseConnection
  BY <1>1, <1>3 DEF CloseConnection, LoopInv, EntriesOwnSockets, TypeOK
<1>4. CASE StopClients
  BY <1>4 DEF StopClients, EntriesOwnSockets
<1>5. CASE Register
  BY <1>1, <1>5 DEF Register, kernel, EntriesOwnSockets, TypeOK
<1>6. ASSUME NEW c \in Client, ReadEnd(c) PROVE EntriesOwnSockets'
  BY <1>1, <1>6 DEF ReadEnd, Erased, kernel, EntriesOwnSockets, TypeOK
<1>7. CASE UNCHANGED <<socket, connections>>
  BY <1>1, <1>7 DEF EntriesOwnSockets
<1>8. QED
  BY <1>2, <1>3, <1>4, <1>5, <1>6, <1>7
     DEF Next, ClientStep, LoopStep, WorkerStep, StopStep, Connect, SendRequest, Disconnect,
     EpollWait, LoopExit, HandleNewConnection, Reject, AcceptDone, HandleClientData,
     ReadRequest, Enqueue, EnqueueAfterStop, ReadAgain, ReadClosed, StartJob, FindConnection,
     SendResponse, StopBegin, StopEpoll, StopPool, StopJoin, kernel, clients

\* Where run() is: the new socket is not in the table yet, the closing one no
\* more, and what a new connection has sent has its event.
LEMMA LoopInvStep == ASSUME IInv, Next PROVE LoopInv'
<1>1. TypeOK /\ LoopInv
  BY DEF IInv
<1>2. Nil \notin Fd /\ Nil \notin Client
  BY FdAssumption
<1>3. ASSUME NEW c \in Client, Accept(c) PROVE LoopInv'
  <2>1. FreeFd \in Fd /\ socket[FreeFd] = Nil
    BY <1>3, FreeFdIsFree DEF Accept
  <2>2. connections[FreeFd] = Nil
    BY <2>1 DEF IInv, EntriesOwnSockets
  <2> HIDE DEF FreeFd
  <2>3. socket'[FreeFd] = c /\ loop' = "accepted" /\ cur' = FreeFd /\ connections' = connections
    BY <1>1, <1>3, <2>1 DEF Accept, TypeOK, clients
  <2>4. (Unread(c) \/ peer[c] = "closed") => FreeFd \in ready'
    BY <1>3 DEF Accept
  <2>5. (Unread(c)' <=> Unread(c)) /\ peer' = peer
    BY <1>3 DEF Accept, Unread
  <2>6. QED
    BY <1>2, <2>1, <2>2, <2>3, <2>4, <2>5 DEF LoopInv, Unread
<1>4. ASSUME NEW c \in Client, SendRequest(c) PROVE LoopInv'
  <2>1. \A f \in Fd : socket[f] = c => f \in ready'
    BY <1>4 DEF SendRequest, Of
  <2>2. \A d \in Client : d # c => (Unread(d)' <=> Unread(d))
    BY <1>1, <1>4 DEF SendRequest, Unread, TypeOK
  <2>3. UNCHANGED <<loop, cur, socket, connections, peer, batch>> /\ ready \subseteq ready'
    BY <1>4 DEF SendRequest, clients
  <2>4. loop = "accepted" => socket[cur] \in Client
    BY <1>1 DEF LoopInv, TypeOK
  <2>5. QED
    BY <1>1, <2>1, <2>2, <2>3, <2>4 DEF LoopInv, Unread
<1>5. ASSUME NEW c \in Client, Disconnect(c) PROVE LoopInv'
  <2>1. \A f \in Fd : socket[f] = c => f \in ready'
    BY <1>5 DEF Disconnect, Of
  <2>2. \A d \in Client : d # c => peer'[d] = peer[d]
    BY <1>1, <1>5 DEF Disconnect, TypeOK
  <2>3. UNCHANGED <<loop, cur, socket, connections, sent, read, batch>> /\ ready \subseteq ready'
    BY <1>5 DEF Disconnect, clients
  <2>4. loop = "accepted" => socket[cur] \in Client
    BY <1>1 DEF LoopInv, TypeOK
  <2>5. QED
    BY <1>1, <2>1, <2>2, <2>3, <2>4 DEF LoopInv, Unread
<1>6. ASSUME NEW c \in Client, Connect(c) PROVE LoopInv'
  <2>1. peer' = [peer EXCEPT ![c] = "open"]
    BY <1>6 DEF Connect
  <2>2. \A d \in Client : peer'[d] = "closed" => peer[d] = "closed"
    BY <1>1, <2>1 DEF TypeOK
  <2>3. UNCHANGED <<loop, cur, socket, connections, sent, read, batch, ready>>
    BY <1>6 DEF Connect, clients
  <2>4. loop = "accepted" => socket[cur] \in Client
    BY <1>1 DEF LoopInv, TypeOK
  <2>5. QED
    BY <1>1, <2>2, <2>3, <2>4 DEF LoopInv, Unread
<1>7. CASE StopClients
  BY <1>1, <1>7 DEF StopClients, LoopInv, Unread, TypeOK
<1>8. CASE \/ EpollWait \/ LoopExit \/ HandleNewConnection
           \/ AcceptDone \/ Register \/ Enqueue \/ EnqueueAfterStop \/ ReadClosed \/ CloseConnection
           \/ \E c \in Client : \/ ReadRequest(c) \/ ReadAgain(c)
           \/ \E f \in Fd : HandleClientData(f)
  BY <1>1, <1>8 DEF EpollWait, LoopExit, HandleNewConnection, AcceptDone, Register,
     HandleClientData, ReadRequest, Enqueue, EnqueueAfterStop, ReadAgain, ReadClosed, CloseConnection,
     LoopInv, kernel, clients, TypeOK, Reading
<1>9. ASSUME NEW c \in Client, ReadEnd(c) PROVE LoopInv'
  <2>1. cur \in Fd /\ socket[cur] # Nil
    BY <1>1, <1>2, <1>9 DEF ReadEnd, Reading, LoopInv
  <2>2. QED
    BY <1>1, <1>9, <2>1 DEF ReadEnd, Erased, LoopInv, kernel, TypeOK
<1>10. CASE UNCHANGED <<loop, cur, peer, sent, read, socket, connections, ready, batch>>
  BY <1>1, <1>10 DEF LoopInv, Unread
<1>11. QED
  BY <1>3, <1>4, <1>5, <1>6, <1>7, <1>8, <1>9, <1>10
     DEF Next, ClientStep, LoopStep, WorkerStep, StopStep, Reject, StartJob, FindConnection,
     SendResponse, StopBegin, StopEpoll, StopPool, StopJoin, kernel, clients

\* The loop leaves a descriptor, or receives again, when every message has become
\* a task.
LEMMA BatchStep == ASSUME IInv, Next PROVE BatchInv'
<1>1. LoopInv /\ BatchInv
  BY DEF IInv
<1>2. ASSUME NEW c \in Client, \/ ReadRequest(c) \/ ReadAgain(c) \/ ReadEnd(c)
                               \/ Accept(c) \/ Reject(c) \/ ClientStep(c)
      PROVE  BatchInv'
  BY <1>1, <1>2 DEF ReadRequest, ReadAgain, ReadEnd, Reading, Accept, Reject, ClientStep, Connect,
     SendRequest, Disconnect, BatchInv, tasks
<1>3. CASE \/ EpollWait \/ LoopExit \/ HandleNewConnection \/ AcceptDone \/ Register
           \/ Enqueue \/ EnqueueAfterStop \/ ReadClosed \/ CloseConnection
           \/ \E f \in Fd : HandleClientData(f)
  BY <1>1, <1>3 DEF EpollWait, LoopExit, HandleNewConnection, AcceptDone, Register, Enqueue,
     EnqueueAfterStop, ReadClosed, Reading, CloseConnection, HandleClientData, BatchInv, tasks
<1>4. CASE \/ StopBegin \/ StopStep \/ \E w \in Worker : WorkerStep(w)
  BY <1>1, <1>4 DEF StopBegin, StopStep, StopClients, StopEpoll, StopPool, StopJoin,
     WorkerStep, StartJob, FindConnection, SendResponse, BatchInv, tasks
<1>5. QED
  BY <1>2, <1>3, <1>4 DEF Next, LoopStep

\* The counter covers the sockets: it is raised after a socket is there, for
\* which the loop has left room, and lowered after one is gone.
LEMMA CountStep == ASSUME IInv, Next PROVE CountInv'
<1>1. TypeOK /\ LoopInv /\ CountInv
  BY DEF IInv
<1>2. active \in Nat /\ MaxConnections \in Nat /\ Nil \notin Client
  BY <1>1, MaxAssumption, FdAssumption DEF TypeOK
<1>3. IsFiniteSet(Counted) /\ Cardinality(Counted) \in Nat /\ Cardinality(Counted) <= active
  BY <1>1, CountedType DEF Counted, CountInv
<1>4. ASSUME NEW c \in Client, Accept(c) PROVE CountInv'
  <2>1. FreeFd \in Fd /\ socket[FreeFd] = Nil
    BY <1>4, FreeFdIsFree DEF Accept
  <2>2. /\ socket' = [socket EXCEPT ![FreeFd] = c] /\ cur' = FreeFd
        /\ loop = "accepting" /\ loop' = "accepted" /\ active' = active
        /\ ~(active >= MaxConnections)
    BY <1>4 DEF Accept, clients, Full
  <2> HIDE DEF FreeFd
  <2>3. Counted' = Counted
    BY <1>1, <2>1, <2>2 DEF Counted, TypeOK
  <2>4. active' < MaxConnections
    BY <1>2, <2>2
  <2>5. Cardinality(Counted') <= active'
    BY <1>3, <2>2, <2>3
  <2>6. QED
    BY <2>4, <2>5 DEF CountInv
<1>5. CASE Register
  <2>1. Counted' \subseteq Counted \cup {cur} /\ loop' # "accepted" /\ active' = active + 1
    BY <1>5 DEF Register, Counted, kernel
  <2>2. /\ IsFiniteSet(Counted \cup {cur})
        /\ Cardinality(Counted \cup {cur}) <= Cardinality(Counted) + 1
    BY <1>3, AddOne
  <2>3. Cardinality(Counted') <= Cardinality(Counted \cup {cur})
    BY <2>1, <2>2, FS_Subset
  <2>4. Cardinality(Counted \cup {cur}) \in Nat /\ Cardinality(Counted') \in Nat
    BY <2>1, <2>2, FS_Subset, FS_CardinalityType
  <2>5. Cardinality(Counted') <= active'
    BY <1>2, <1>3, <2>1, <2>2, <2>3, <2>4
  <2>6. QED
    BY <2>1, <2>5 DEF CountInv
<1>6. CASE CloseConnection
  <2>1. cur \in Counted /\ loop' = "events" /\ active' = active - 1
    BY <1>1, <1>6 DEF CloseConnection, LoopInv, Counted
  <2>2. Counted' = Counted \ {cur}
    BY <1>1, <1>6 DEF CloseConnection, Counted, TypeOK
  <2>3. Cardinality(Counted \ {cur}) = Cardinality(Counted) - 1
    BY <1>3, <2>1, FS_RemoveElement
  <2>4. Cardinality(Counted') <= active'
    BY <1>2, <1>3, <2>1, <2>2, <2>3
  <2>5. QED
    BY <2>1, <2>4 DEF CountInv
<1>7. CASE StopClients
  <2>1. Counted' \subseteq Counted /\ UNCHANGED <<loop, active>>
    BY <1>1, <1>7 DEF StopClients, Counted, TypeOK
  <2>2. Cardinality(Counted') <= Cardinality(Counted) /\ Cardinality(Counted') \in Nat
    BY <1>3, <2>1, FS_Subset, FS_CardinalityType
  <2>3. Cardinality(Counted') <= active'
    BY <1>2, <1>3, <2>1, <2>2
  <2>4. QED
    BY <1>1, <2>1, <2>3 DEF CountInv
<1>8. ASSUME UNCHANGED <<socket, active>>,
             UNCHANGED <<loop, cur>> \/ (loop # "accepted" /\ loop' # "accepted")
      PROVE  CountInv'
  <2>1. Counted' = Counted
    BY <1>8 DEF Counted
  <2>2. Cardinality(Counted') <= active'
    BY <1>3, <1>8, <2>1
  <2>3. QED
    BY <1>1, <1>8, <2>2 DEF CountInv
<1>9. CASE \/ EpollWait \/ LoopExit \/ HandleNewConnection \/ AcceptDone \/ ReadClosed
           \/ Enqueue \/ EnqueueAfterStop
           \/ \E c \in Client : \/ ReadRequest(c) \/ ReadAgain(c)
                                \/ ReadEnd(c) \/ Reject(c) \/ ClientStep(c)
           \/ \E f \in Fd : HandleClientData(f)
           \/ \E w \in Worker : WorkerStep(w)
           \/ StopBegin \/ StopEpoll \/ StopPool \/ StopJoin
  <2>1. UNCHANGED <<socket, active>>
    BY <1>9 DEF ClientStep, WorkerStep, Connect, SendRequest, Disconnect,
       EpollWait, LoopExit, HandleNewConnection, Reject, AcceptDone, HandleClientData,
       ReadRequest, Enqueue, EnqueueAfterStop, ReadAgain, ReadEnd, ReadClosed, StartJob, FindConnection,
       SendResponse, StopBegin, StopEpoll, StopPool, StopJoin, kernel, clients
  <2>2. UNCHANGED <<loop, cur>> \/ (loop # "accepted" /\ loop' # "accepted")
    BY <1>9 DEF ClientStep, WorkerStep, Connect, SendRequest, Disconnect,
       EpollWait, LoopExit, HandleNewConnection, Reject, AcceptDone, HandleClientData, Reading,
       ReadRequest, Enqueue, EnqueueAfterStop, ReadAgain, ReadEnd, ReadClosed, StartJob, FindConnection,
       SendResponse, StopBegin, StopEpoll, StopPool, StopJoin
  <2>3. QED
    BY <1>8, <2>1, <2>2
<1>10. QED
  BY <1>4, <1>5, <1>6, <1>7, <1>9 DEF Next, LoopStep, StopStep

\* An edge that is taken out of ready or batch is of the descriptor the loop goes
\* on with, and the loop leaves a descriptor only when there is nothing left to
\* read, or no entry any more.
LEMMA StrandedStep == ASSUME IInv, Next PROVE NothingStranded'
<1>1. TypeOK /\ LoopInv /\ EntriesOwnSockets /\ NothingStranded
  BY DEF IInv
<1>2. Nil \notin Fd /\ Nil \notin Client /\ Listen \notin Fd
  BY FdAssumption
<1>3. \A f \in Fd : connections[f] # Nil => connections[f] \in Client /\ socket[f] = connections[f]
  BY <1>1 DEF TypeOK, EntriesOwnSockets
<1>4. ASSUME NEW c \in Client, Connect(c) PROVE NothingStranded'
  <2>1. \A d \in Client : peer'[d] = "closed" => peer[d] = "closed"
    BY <1>1, <1>4 DEF Connect, TypeOK
  <2>2. UNCHANGED <<connections, sent, read, ready, batch, cur>>
    BY <1>4 DEF Connect, clients
  <2>3. QED
    BY <1>1, <1>3, <2>1, <2>2 DEF NothingStranded, Unread
<1>5. ASSUME NEW c \in Client, SendRequest(c) PROVE NothingStranded'
  <2>1. \A f \in Fd : socket[f] = c => f \in ready'
    BY <1>5 DEF SendRequest, Of
  <2>2. \A d \in Client : d # c => (Unread(d)' <=> Unread(d))
    BY <1>1, <1>5 DEF SendRequest, Unread, TypeOK
  <2>3. UNCHANGED <<connections, peer, batch, cur>> /\ ready \subseteq ready'
    BY <1>5 DEF SendRequest, clients
  <2>4. QED
    BY <1>1, <1>3, <2>1, <2>2, <2>3 DEF NothingStranded, Unread
<1>6. ASSUME NEW c \in Client, Disconnect(c) PROVE NothingStranded'
  <2>1. \A f \in Fd : socket[f] = c => f \in ready'
    BY <1>6 DEF Disconnect, Of
  <2>2. \A d \in Client : d # c => peer'[d] = peer[d]
    BY <1>1, <1>6 DEF Disconnect, TypeOK
  <2>3. UNCHANGED <<connections, sent, read, batch, cur>> /\ ready \subseteq ready'
    BY <1>6 DEF Disconnect, clients
  <2>4. QED
    BY <1>1, <1>3, <2>1, <2>2, <2>3 DEF NothingStranded, Unread
<1>7. CASE EpollWait
  <2>1. UNCHANGED <<connections, sent, read, peer, cur>> /\ ready \cup batch \subseteq batch'
    BY <1>7 DEF EpollWait, clients
  <2>2. QED
    BY <1>1, <2>1 DEF NothingStranded, Unread
<1>8. CASE HandleNewConnection
  <2>1. /\ UNCHANGED <<connections, sent, read, peer, ready, cur>>
        /\ batch' = batch \ {Listen}
    BY <1>8 DEF HandleNewConnection, kernel, clients
  <2>2. QED
    BY <1>1, <1>2, <2>1 DEF NothingStranded, Unread
<1>9. ASSUME NEW c \in Client, Accept(c) PROVE NothingStranded'
  <2>1. /\ UNCHANGED <<connections, sent, read, peer, batch>>
        /\ ready \subseteq ready' /\ cur = Nil
    BY <1>1, <1>9 DEF Accept, clients, LoopInv
  <2>2. QED
    BY <1>1, <1>2, <2>1 DEF NothingStranded, Unread
<1>10. CASE Register
  <2>1. /\ UNCHANGED <<sent, read, peer, ready, batch, socket>> /\ cur \in Fd
        /\ connections' = [connections EXCEPT ![cur] = socket[cur]]
        /\ loop = "accepted"
    BY <1>1, <1>10 DEF Register, kernel, LoopInv
  <2>2. \A f \in Fd : f # cur => connections'[f] = connections[f]
    BY <1>1, <2>1 DEF TypeOK
  <2>3. connections'[cur] = socket[cur]
    BY <1>1, <2>1 DEF TypeOK
  <2>4. QED
    BY <1>1, <2>1, <2>2, <2>3 DEF NothingStranded, Unread, LoopInv
<1>11. ASSUME NEW f \in Fd, HandleClientData(f) PROVE NothingStranded'
  <2>1. /\ UNCHANGED <<connections, sent, read, peer, ready>>
        /\ batch' = batch \ {f} /\ cur = Nil
        /\ connections[f] # Nil => cur' = f
    BY <1>1, <1>11 DEF HandleClientData, kernel, clients, LoopInv
  <2>2. QED
    BY <1>1, <1>2, <2>1 DEF NothingStranded, Unread
<1>12. ASSUME NEW c \in Client, ReadRequest(c) PROVE NothingStranded'
  <2>1. UNCHANGED <<connections, sent, peer, ready, batch, cur>>
    BY <1>12 DEF ReadRequest, kernel, clients
  <2>2. PICK n \in Nat : read[c] \in Nat /\ n - read[c] \in Nat /\ read' = [read EXCEPT ![c] = n]
    BY <1>1, <1>12, Received
  <2>3. \A d \in Client : Unread(d)' => Unread(d)
    BY <1>1, <2>1, <2>2 DEF Unread, TypeOK
  <2>4. QED
    BY <1>1, <1>3, <2>1, <2>3 DEF NothingStranded, Unread
<1>13. ASSUME NEW c \in Client, ReadAgain(c) PROVE NothingStranded'
  <2>1. /\ UNCHANGED <<connections, sent, read, peer, ready, batch>>
        /\ socket[cur] = c /\ ~Unread(c) /\ peer[c] = "open" /\ cur \in Fd
    BY <1>1, <1>13 DEF ReadAgain, Reading, Drained, kernel, clients, LoopInv
  <2>2. QED
    BY <1>1, <1>3, <2>1 DEF NothingStranded, Unread
<1>14. ASSUME NEW c \in Client, ReadEnd(c) PROVE NothingStranded'
  <2>1. /\ UNCHANGED <<sent, read, peer, ready, batch>> /\ cur \in Fd
        /\ IF connections[cur] = Nil
           THEN connections' = connections
           ELSE connections' = [connections EXCEPT ![cur] = Nil]
    BY <1>1, <1>14 DEF ReadEnd, Erased, Reading, kernel, LoopInv
  <2>2. connections'[cur] = Nil /\ \A f \in Fd : f # cur => connections'[f] = connections[f]
    BY <1>1, <2>1 DEF TypeOK
  <2>3. QED
    BY <1>1, <2>1, <2>2 DEF NothingStranded, Unread
<1>15. CASE ReadClosed
  <2>1. /\ UNCHANGED <<connections, sent, read, peer, ready, batch>>
        /\ socket[cur] = Nil /\ cur \in Fd
    BY <1>1, <1>15 DEF ReadClosed, Reading, kernel, clients, LoopInv
  <2>2. connections[cur] = Nil
    BY <1>2, <1>3, <2>1
  <2>3. QED
    BY <1>1, <2>1, <2>2 DEF NothingStranded, Unread
<1>16. CASE CloseConnection
  <2>1. /\ UNCHANGED <<connections, sent, read, peer, batch>>
        /\ ready' = ready \ {cur} /\ connections[cur] = Nil /\ cur \in Fd
    BY <1>1, <1>16 DEF CloseConnection, LoopInv
  <2>2. QED
    BY <1>1, <2>1 DEF NothingStranded, Unread
<1>17. CASE StopClients
  BY <1>17 DEF StopClients, NothingStranded
<1>18. CASE UNCHANGED <<connections, sent, read, peer, ready, batch, cur>>
  BY <1>1, <1>18 DEF NothingStranded, Unread
<1>19. QED
  BY <1>4, <1>5, <1>6, <1>7, <1>8, <1>9, <1>10, <1>11, <1>12, <1>13, <1>14, <1>15, <1>16, <1>17, <1>18
     DEF Next, ClientStep, LoopStep, WorkerStep, StopStep, LoopExit, Reject, AcceptDone,
     Enqueue, EnqueueAfterStop, StartJob, FindConnection, SendResponse, StopBegin, StopEpoll, StopPool,
     StopJoin, kernel, clients

-----------------------------------------------------------------------------
(* Whose descriptor a task carries.                                        *)

\* A client whose connection has ended does not come back.
LEMMA GoneStays ==
  ASSUME IInv, Next, NEW c \in Client, Gone(c)
  PROVE  Gone(c)'
<1>1. TypeOK
  BY DEF IInv
<1>2. Nil \notin Client
  BY FdAssumption
<1>3. \A f \in Fd : socket[f] # c
  BY DEF Gone, Of
<1>4. c \notin backlog' /\ peer'[c] # "new"
  <2>1. ASSUME NEW d \in Client, Connect(d) PROVE c \notin backlog' /\ peer'[c] # "new"
    BY <1>1, <2>1 DEF Connect, Gone, TypeOK
  <2>2. ASSUME NEW d \in Client, Disconnect(d) PROVE c \notin backlog' /\ peer'[c] # "new"
    BY <1>1, <2>2 DEF Disconnect, Gone, TypeOK
  <2>3. CASE backlog' \subseteq backlog /\ UNCHANGED peer
    BY <2>3 DEF Gone
  <2>4. QED
    BY <2>1, <2>2, <2>3
       DEF Next, ClientStep, LoopStep, WorkerStep, StopStep, SendRequest,
       EpollWait, LoopExit, HandleNewConnection, Accept, Reject, AcceptDone, Register,
       HandleClientData, ReadRequest, Enqueue, EnqueueAfterStop, ReadAgain, ReadEnd, ReadClosed,
       CloseConnection, StartJob, FindConnection, SendResponse, StopBegin, StopClients,
       StopEpoll, StopPool, StopJoin, kernel
<1>5. \A f \in Fd : socket'[f] # c
  <2>1. ASSUME NEW d \in Client, Accept(d) PROVE \A f \in Fd : socket'[f] # c
    BY <1>1, <1>3, <2>1 DEF Accept, Gone, TypeOK
  <2>2. CASE CloseConnection
    BY <1>1, <1>2, <1>3, <2>2 DEF CloseConnection, TypeOK
  <2>3. CASE StopClients
    BY <1>1, <1>2, <1>3, <2>3 DEF StopClients, TypeOK
  <2>4. QED
    BY <1>3, <2>1, <2>2, <2>3, SocketCases
<1>6. QED
  BY <1>4, <1>5 DEF Gone, Of

\* A descriptor stays with its client until the client has gone.
LEMMA OwnerStays ==
  ASSUME IInv, Next, NEW f \in Fd, NEW c \in Client, socket[f] = c
  PROVE  socket'[f] = c \/ Gone(c)'
<1>1. TypeOK /\ SocketInv
  BY DEF IInv
<1>2. Nil \notin Client
  BY FdAssumption
<1>3. ASSUME NEW d \in Client, Accept(d) PROVE socket'[f] = c
  <2>1. FreeFd \in Fd /\ socket[FreeFd] = Nil
    BY <1>3, FreeFdIsFree DEF Accept
  <2>2. QED
    BY <1>1, <1>2, <1>3, <2>1 DEF Accept, TypeOK
<1>4. ASSUME CloseConnection \/ StopClients, socket'[f] # c PROVE Gone(c)'
  <2>1. \A g \in Fd : socket'[g] \in {socket[g], Nil}
    BY <1>1, <1>4 DEF CloseConnection, StopClients, TypeOK
  <2>2. \A g \in Fd : socket'[g] # c
    BY <1>1, <1>2, <1>4, <2>1 DEF SocketInv
  <2>3. c \notin backlog /\ peer[c] # "new"
    BY <1>1 DEF SocketInv, Of
  <2>4. backlog' = backlog /\ peer' = peer
    BY <1>4 DEF CloseConnection, StopClients
  <2>5. QED
    BY <2>2, <2>3, <2>4 DEF Gone, Of
<1>5. QED
  BY <1>3, <1>4, SocketCases

\* A task keeps its descriptor or loses its client.
LEMMA OfLiveStays ==
  ASSUME IInv, Next, NEW t \in Task, OfLive(t)
  PROVE  OfLive(t)'
<1>1. t.fd \in Fd /\ t.of \in Request /\ t.of[1] \in Client
  BY RequestClient DEF Task
<1>2. QED
  BY <1>1, GoneStays, OwnerStays DEF OfLive

\* The messages in hand: those there were, or those of the connection being read.
LEMMA MessagesStep ==
  ASSUME IInv, Next, NEW i \in DOMAIN messages'
  PROVE  \E t \in Task : t = messages'[i] /\ OfLive(t)
<1>1. TypeOK /\ TaskInv /\ LoopInv /\ messages \in Seq(Task)
  BY DEF IInv, TypeOK
<1>2. \A j \in DOMAIN messages : messages[j] \in Task /\ OfLive(messages[j])
  BY <1>1 DEF TaskInv
<1>3. ASSUME NEW c \in Client, ReadRequest(c) PROVE \E t \in Task : t = messages'[i] /\ OfLive(t)
  <2>1. /\ socket[cur] = c /\ messages' \in Seq(Task)
        /\ messages'[i].fd = cur /\ messages'[i].of[1] = c
    BY <1>1, <1>3, Received
  <2>2. messages'[i] \in Task
    BY <2>1
  <2>3. QED
    BY <2>1, <2>2 DEF OfLive
<1>4. ASSUME Enqueue PROVE \E t \in Task : t = messages'[i] /\ OfLive(t)
  <2>1. messages' = Tail(messages) /\ messages # <<>>
    BY <1>4 DEF Enqueue
  <2>2. i + 1 \in DOMAIN messages /\ messages'[i] = messages[i + 1]
    BY <1>1, <2>1
  <2>3. QED
    BY <1>2, <2>2
<1>5. CASE UNCHANGED messages
  BY <1>2, <1>5
<1>6. QED
  BY <1>3, <1>4, <1>5
     DEF Next, ClientStep, LoopStep, WorkerStep, StopStep, Connect, SendRequest, Disconnect,
     EpollWait, LoopExit, HandleNewConnection, Accept, Reject, AcceptDone, Register,
     HandleClientData, EnqueueAfterStop, ReadAgain, ReadEnd, ReadClosed, CloseConnection, StartJob,
     FindConnection, SendResponse, StopBegin, StopClients, StopEpoll, StopPool, StopJoin, tasks

\* The tasks of the queue: those it had, and the first message in hand.
LEMMA QueueStep ==
  ASSUME IInv, Next, NEW i \in DOMAIN queue'
  PROVE  \E t \in Task : t = queue'[i] /\ OfLive(t)
<1>1. TypeOK /\ TaskInv /\ LoopInv /\ queue \in Seq(Task) /\ messages \in Seq(Task)
  BY DEF IInv, TypeOK
<1>2. \A j \in DOMAIN queue : queue[j] \in Task /\ OfLive(queue[j])
  BY <1>1 DEF TaskInv
<1>3. ASSUME Enqueue PROVE \E t \in Task : t = queue'[i] /\ OfLive(t)
  <2> DEFINE r == Head(messages)
  <2>1. messages # <<>> /\ queue' = Append(queue, r)
    BY <1>3 DEF Enqueue
  <2>2. r \in Task /\ r = messages[1] /\ 1 \in DOMAIN messages
    BY <1>1, <2>1
  <2>3. OfLive(r)
    BY <1>1, <2>2 DEF TaskInv
  <2> HIDE DEF r
  <2>4. queue'[i] = r \/ (i \in DOMAIN queue /\ queue'[i] = queue[i])
    BY <1>1, <2>1, <2>2
  <2>5. QED
    BY <1>2, <2>2, <2>3, <2>4
<1>4. ASSUME NEW w \in Worker, StartJob(w) PROVE \E t \in Task : t = queue'[i] /\ OfLive(t)
  <2>1. queue' = Tail(queue) /\ queue # <<>>
    BY <1>4 DEF StartJob, Popped
  <2>2. i + 1 \in DOMAIN queue /\ queue'[i] = queue[i + 1]
    BY <1>1, <2>1
  <2>3. QED
    BY <1>2, <2>2
<1>5. CASE UNCHANGED queue
  BY <1>2, <1>5
<1>6. QED
  BY <1>3, <1>4, <1>5
     DEF Next, ClientStep, LoopStep, WorkerStep, StopStep, Connect, SendRequest, Disconnect,
     EpollWait, LoopExit, HandleNewConnection, Accept, Reject, AcceptDone, Register,
     HandleClientData, ReadRequest, EnqueueAfterStop, ReadAgain, ReadEnd, ReadClosed, CloseConnection,
     FindConnection, SendResponse, StopBegin, StopClients, StopEpoll, StopPool, StopJoin, tasks

\* The tasks of the workers: those they had, and the first of the queue.
LEMMA JobStep ==
  ASSUME IInv, Next, NEW w \in Worker, job'[w] # NoJob
  PROVE  \E t \in Task : t = job'[w].task /\ OfLive(t)
<1>1. TypeOK /\ TaskInv /\ queue \in Seq(Task)
  BY DEF IInv, TypeOK
<1>2. job[w] # NoJob => job[w].task \in Task /\ OfLive(job[w].task)
  BY <1>1, JobType DEF TaskInv
<1>3. ASSUME NEW v \in Worker, StartJob(v) PROVE \E t \in Task : t = job'[w].task /\ OfLive(t)
  <2>1. Head(queue) \in Task /\ OfLive(Head(queue))
    BY <1>1, <1>3 DEF StartJob, TaskInv
  <2>2. job'[w] = job[w] \/ job'[w].task = Head(queue)
    BY <1>1, <1>3 DEF StartJob, TypeOK
  <2>3. QED
    BY <1>2, <2>1, <2>2
<1>4. ASSUME NEW v \in Worker, FindConnection(v) PROVE \E t \in Task : t = job'[w].task /\ OfLive(t)
  <2>1. CASE v = w
    <3>1. job[w] \in [at : {"handling", "sending"}, task : Task] /\ job[w] # NoJob
      BY <1>1, <1>4, <2>1, JobType, NoJobAt DEF FindConnection
    <3>2. job'[w] = [job[w] EXCEPT !.at = "sending"]
      BY <1>1, <1>4, <2>1 DEF FindConnection, TypeOK
    <3>3. job'[w].task = job[w].task
      BY <3>1, <3>2
    <3>4. QED
      BY <1>2, <3>1, <3>3
  <2>2. CASE v # w
    BY <1>1, <1>2, <1>4, <2>2 DEF FindConnection, TypeOK
  <2>3. QED
    BY <2>1, <2>2
<1>5. ASSUME NEW v \in Worker, SendResponse(v) PROVE \E t \in Task : t = job'[w].task /\ OfLive(t)
  BY <1>1, <1>2, <1>5 DEF SendResponse, TypeOK
<1>6. CASE UNCHANGED job
  BY <1>2, <1>6
<1>7. QED
  BY <1>3, <1>4, <1>5, <1>6
     DEF Next, ClientStep, LoopStep, WorkerStep, StopStep, Connect, SendRequest, Disconnect,
     EpollWait, LoopExit, HandleNewConnection, Accept, Reject, AcceptDone, Register,
     HandleClientData, ReadRequest, Enqueue, EnqueueAfterStop, ReadAgain, ReadEnd, ReadClosed,
     CloseConnection, StopBegin, StopClients, StopEpoll, StopPool, StopJoin, tasks

\* The answers on a connection: those it had, and one whose task still has the
\* descriptor of its client, or whose client has gone.
LEMMA StreamStep ==
  ASSUME IInv, Next, NEW c \in Client, NEW i \in DOMAIN stream'[c]
  PROVE  \E d \in Client : d = stream'[c][i][1] /\ (d = c \/ Gone(d))
<1>1. TypeOK /\ TaskInv /\ stream \in [Client -> Seq(Request)]
  BY DEF IInv, TypeOK
<1>2. \A j \in DOMAIN stream[c] :
         /\ stream[c][j] \in Request
         /\ stream[c][j][1] \in Client
         /\ stream[c][j][1] = c \/ Gone(stream[c][j][1])
  BY <1>1, RequestClient DEF TaskInv
<1>3. CASE stream'[c] = stream[c]
  BY <1>2, <1>3
<1>4. ASSUME NEW w \in Worker, SendResponse(w), stream'[c] # stream[c]
      PROVE  \E d \in Client : d = stream'[c][i][1] /\ (d = c \/ Gone(d))
  <2> DEFINE r == job[w].task.of
  <2>1. r \in Request /\ r[1] \in Client /\ OfLive(job[w].task)
    BY <1>1, <1>4, JobType, NoJobAt, RequestClient DEF SendResponse, TaskInv
  <2>2. stream'[c] = Append(stream[c], r) /\ socket[job[w].task.fd] = c
    BY <1>1, <1>4 DEF SendResponse, Target
  <2>3. r[1] = c \/ Gone(r[1])
    BY <2>1, <2>2 DEF OfLive
  <2> HIDE DEF r
  <2>4. stream'[c][i] = r \/ (i \in DOMAIN stream[c] /\ stream'[c][i] = stream[c][i])
    BY <1>1, <2>1, <2>2
  <2>5. QED
    BY <1>2, <2>1, <2>3, <2>4
<1>5. (\E w \in Worker : SendResponse(w)) \/ stream'[c] = stream[c]
  BY DEF Next, ClientStep, LoopStep, WorkerStep, StopStep, Connect, SendRequest, Disconnect,
     EpollWait, LoopExit, HandleNewConnection, Accept, Reject, AcceptDone, Register,
     HandleClientData, ReadRequest, Enqueue, EnqueueAfterStop, ReadAgain, ReadEnd, ReadClosed,
     CloseConnection, StartJob, FindConnection, StopBegin, StopClients, StopEpoll, StopPool, StopJoin
<1>6. QED
  BY <1>3, <1>4, <1>5

\* No task or answer finds its client alive with another descriptor.
LEMMA TaskInvStep == ASSUME IInv, Next PROVE TaskInv'
<1>1. \A t \in Task : OfLive(t) => OfLive(t)'
  BY OfLiveStays
<1>2. \A c \in Client : Gone(c) => Gone(c)'
  BY GoneStays
<1>3. \A i \in DOMAIN queue' : \E t \in Task : t = queue'[i] /\ OfLive(t)'
  BY <1>1, QueueStep
<1>10. \A i \in DOMAIN messages' : \E t \in Task : t = messages'[i] /\ OfLive(t)'
  BY <1>1, MessagesStep
<1>4. \A w \in Worker : job'[w] # NoJob => \E t \in Task : t = job'[w].task /\ OfLive(t)'
  BY <1>1, JobStep
<1>5. \A c \in Client : \A i \in DOMAIN stream'[c] :
         \E d \in Client : d = stream'[c][i][1] /\ (d = c \/ Gone(d)')
  BY <1>2, StreamStep
<1>6. (\A i \in DOMAIN queue : OfLive(queue[i]))'
  BY <1>3 DEF OfLive, Gone, Of
<1>11. (\A i \in DOMAIN messages : OfLive(messages[i]))'
  BY <1>10 DEF OfLive, Gone, Of
<1>7. (\A w \in Worker : job[w] # NoJob => OfLive(job[w].task))'
  BY <1>4 DEF OfLive, Gone, Of
<1>8. (\A c \in Client : \A i \in DOMAIN stream[c] : stream[c][i][1] = c \/ Gone(stream[c][i][1]))'
  BY <1>5 DEF Gone, Of
<1>9. QED
  BY <1>6, <1>7, <1>8, <1>11 DEF TaskInv

-----------------------------------------------------------------------------

\* The invariant is inductive.
LEMMA InvariantStep == IInv /\ [Next]_vars => IInv'
<1>1. ASSUME IInv, Next PROVE IInv'
  <2>1. TypeOK' /\ LoopInv' /\ BatchInv' /\ CountInv' /\ SocketInv' /\ TaskInv'
    BY <1>1, TypeStep, LoopInvStep, BatchStep, CountStep, SocketInvStep, TaskInvStep
  <2>2. EntriesOwnSockets' /\ NothingStranded'
    BY <1>1, EntriesStep, StrandedStep
  <2>3. LimitKept'
    BY <2>1, Limit, PTL
  <2>4. QED
    BY <2>1, <2>2, <2>3 DEF IInv
<1>2. ASSUME IInv, UNCHANGED vars PROVE IInv'
  <2> USE <1>2 DEF vars, kernel, clients, life, tasks
  <2>1. TypeOK'
    BY DEF IInv, TypeOK
  <2>2. LoopInv' /\ BatchInv' /\ SocketInv' /\ EntriesOwnSockets' /\ NothingStranded'
    BY DEF IInv, LoopInv, BatchInv, SocketInv, EntriesOwnSockets, NothingStranded, Unread, Of
  <2>3. CountInv'
    <3>1. Counted' = Counted
      BY DEF Counted
    <3>2. QED
      BY <3>1 DEF IInv, CountInv
  <2>4. TaskInv'
    BY DEF IInv, TaskInv, OfLive, Gone, Of
  <2>5. LimitKept'
    BY <2>1, <2>3, Limit, PTL
  <2>6. QED
    BY <2>1, <2>2, <2>3, <2>4, <2>5 DEF IInv
<1>3. QED
  BY <1>1, <1>2

\* At every point of the loop, the workers, stop() and the clients the table, the
\* counter, the events and the descriptors of tasks agree.
THEOREM Invariant == Spec => []IInv
BY InitInv, InvariantStep, PTL DEF Spec

\* max_connections bounds the accepted sockets, although the counter is checked
\* before it is raised and stop() closes sockets without lowering it.
THEOREM Limited == Spec => []LimitKept
<1>1. IInv => LimitKept
  BY DEF IInv
<1>2. QED
  BY <1>1, Invariant, PTL

\* No edge of an edge-triggered socket is lost: what a registered connection has
\* to read is announced, or the loop is at it.
THEOREM NoLostEdge == Spec => []NothingStranded
<1>1. IInv => NothingStranded
  BY DEF IInv
<1>2. QED
  BY <1>1, Invariant, PTL

\* sendResponse knows a connection by its number only, and numbers are given away
\* again; still no client that is there loses its answer to another one.
THEOREM Delivery == Spec => []OnlyOrphansStray
<1>1. IInv => OnlyOrphansStray
  BY DEF IInv, TaskInv, Gone, OnlyOrphansStray
<1>2. QED
  BY <1>1, Invariant, PTL

-----------------------------------------------------------------------------
(* The way of a request from the loop to a worker and to a stream.         *)

InHand(r)    == {i \in DOMAIN messages : messages[i].of = r}
Queued(r)   == {i \in DOMAIN queue : queue[i].of = r}
Handled(r)  == {w \in Worker : job[w] # NoJob /\ job[w].task.of = r}
Answered(r) == {p \in Client \X Nat : p[2] \in DOMAIN stream[p[1]] /\ stream[p[1]][p[2]] = r}

AtMostOne(S) == \A x, y \in S : x = y
Once(r) ==
    /\ AtMostOne(InHand(r)) /\ AtMostOne(Queued(r)) /\ AtMostOne(Handled(r)) /\ AtMostOne(Answered(r))
    /\ InHand(r) # {} => Queued(r) = {} /\ Handled(r) = {} /\ Answered(r) = {}
    /\ Queued(r) # {} => Handled(r) = {} /\ Answered(r) = {}
    /\ Handled(r) # {} => Answered(r) = {}
    /\ ~Begun(r) => InHand(r) = {} /\ Queued(r) = {} /\ Handled(r) = {} /\ Answered(r) = {}

\* A set with one element at most, counted.
LEMMA FewElements ==
  ASSUME NEW S, AtMostOne(S)
  PROVE  Cardinality(S) = IF S = {} THEN 0 ELSE 1
<1>1. CASE S = {}
  BY <1>1, FS_EmptySet
<1>2. ASSUME NEW x \in S PROVE Cardinality(S) = 1
  <2>1. S = {x}
    BY DEF AtMostOne
  <2>2. QED
    BY <2>1, FS_Singleton
<1>3. QED
  BY <1>1, <1>2

\* What AnsweredOnce counts.
LEMMA OnceCounts == (\A r \in Request : Once(r)) => AnsweredOnce
<1> SUFFICES ASSUME \A r \in Request : Once(r), NEW r \in Request
             PROVE  LET taken    == {i \in DOMAIN messages : messages[i].of = r}
                        queued   == {i \in DOMAIN queue : queue[i].of = r}
                        handled  == {w \in Worker : job[w] # NoJob /\ job[w].task.of = r}
                        answered == {p \in Client \X (1..Cardinality(Request)) :
                                       p[2] \in DOMAIN stream[p[1]] /\ stream[p[1]][p[2]] = r}
                    IN  Cardinality(taken) + Cardinality(queued) + Cardinality(handled) + Cardinality(answered)
                          <= IF Begun(r) THEN 1 ELSE 0
  BY DEF AnsweredOnce
<1> DEFINE answered == {p \in Client \X (1..Cardinality(Request)) :
                          p[2] \in DOMAIN stream[p[1]] /\ stream[p[1]][p[2]] = r}
<1>1. Once(r)
  OBVIOUS
<1>2. answered \subseteq Answered(r)
  BY DEF Answered
<1> HIDE DEF answered
<1>3. AtMostOne(answered) /\ (Answered(r) = {} => answered = {})
  BY <1>1, <1>2 DEF Once, AtMostOne
<1>4. /\ Cardinality(InHand(r)) = IF InHand(r) = {} THEN 0 ELSE 1
      /\ Cardinality(Queued(r)) = IF Queued(r) = {} THEN 0 ELSE 1
      /\ Cardinality(Handled(r)) = IF Handled(r) = {} THEN 0 ELSE 1
      /\ Cardinality(answered) = IF answered = {} THEN 0 ELSE 1
  BY <1>1, <1>3, FewElements DEF Once
<1>5. Cardinality(InHand(r)) + Cardinality(Queued(r)) + Cardinality(Handled(r)) + Cardinality(answered)
        <= IF Begun(r) THEN 1 ELSE 0
  BY <1>1, <1>3, <1>4 DEF Once
<1>6. QED
  BY <1>5 DEF InHand, Queued, Handled, answered

\* A request moves nowhere.
LEMMA OnceKept ==
  ASSUME NEW r, Once(r), UNCHANGED <<messages, queue, job, stream, read>>
  PROVE  Once(r)'
BY DEF Once, AtMostOne, InHand, Queued, Handled, Answered, Begun

\* A request is read: it was nowhere, and the loop has it now.
LEMMA OnceRead ==
  ASSUME IInv, NEW r \in Request, Once(r), NEW c \in Client, ReadRequest(c)
  PROVE  Once(r)'
<1>1. TypeOK /\ LoopInv /\ UNCHANGED <<queue, job, stream>>
  BY DEF IInv, ReadRequest
<1>2. messages = <<>>
  BY <1>1, Received
<1>3. PICK n \in Nat : /\ read[c] \in Nat /\ n - read[c] \in Nat
                       /\ read' = [read EXCEPT ![c] = n]
                       /\ DOMAIN messages' = 1 .. (n - read[c])
                       /\ \A i \in 1 .. (n - read[c]) : messages'[i].of = <<c, read[c] + i>>
  BY <1>1, Received
<1>4. r[1] \in Client /\ r[2] \in Nat /\ r = <<r[1], r[2]>> /\ read \in [Client -> Nat]
  BY <1>1, MaxAssumption DEF Request, TypeOK
<1>5. Queued(r)' = Queued(r) /\ Handled(r)' = Handled(r) /\ Answered(r)' = Answered(r)
  BY <1>1 DEF Queued, Handled, Answered
<1>6. InHand(r) = {}
  BY <1>2 DEF InHand
<1>7. \A i \in InHand(r)' : /\ i \in Nat /\ r[1] = c /\ r[2] = read[c] + i
                           /\ r[2] > read[c] /\ r[2] <= n
  BY <1>3, <1>4 DEF InHand
<1>8. AtMostOne(InHand(r)')
  BY <1>3, <1>7 DEF AtMostOne
<1>9. Begun(r) => Begun(r)'
  BY <1>3, <1>4 DEF Begun
<1>10. InHand(r)' # {} => Begun(r)' /\ ~Begun(r)
  BY <1>3, <1>4, <1>7 DEF Begun
<1>11. QED
  BY <1>5, <1>6, <1>8, <1>9, <1>10 DEF Once, AtMostOne

\* A message becomes a task: the first of those in hand is the last of the queue.
LEMMA OnceEnqueued ==
  ASSUME IInv, NEW r \in Request, Once(r), Enqueue
  PROVE  Once(r)'
<1> DEFINE first == Head(messages)
<1>1. /\ messages \in Seq(Task) /\ messages # <<>> /\ messages' = Tail(messages)
      /\ queue \in Seq(Task) /\ queue' = Append(queue, first)
      /\ UNCHANGED <<job, stream, read>>
  BY DEF IInv, TypeOK, Enqueue
<1>2. first \in Task /\ first = messages[1] /\ 1 \in DOMAIN messages
  BY <1>1
<1> HIDE DEF first
<1>3. Handled(r)' = Handled(r) /\ Answered(r)' = Answered(r) /\ (Begun(r)' <=> Begun(r))
  BY <1>1 DEF Handled, Answered, Begun
<1>4. Queued(r)' = Queued(r) \cup (IF first.of = r THEN {Len(queue) + 1} ELSE {})
  <2>1. /\ DOMAIN queue' = DOMAIN queue \cup {Len(queue) + 1} /\ queue'[Len(queue) + 1] = first
        /\ \A i \in DOMAIN queue : queue'[i] = queue[i] /\ i # Len(queue) + 1
    BY <1>1, <1>2
  <2>2. QED
    BY <1>2, <2>1 DEF Queued
<1>5. /\ \A i \in InHand(r)' : i \in Nat /\ i + 1 \in InHand(r) /\ i # 0
      /\ first.of = r => 1 \in InHand(r)
  <2>1. \A i \in DOMAIN messages' : i \in Nat /\ i # 0 /\ i + 1 \in DOMAIN messages /\ messages'[i] = messages[i + 1]
    BY <1>1
  <2>2. QED
    BY <1>2, <2>1 DEF InHand
<1>6. AtMostOne(InHand(r)')
  <2>1. ASSUME NEW i \in InHand(r)', NEW j \in InHand(r)' PROVE i = j
    <3>1. i \in Nat /\ j \in Nat /\ i + 1 = j + 1
      BY <1>5 DEF Once, AtMostOne
    <3>2. QED
      BY <3>1
  <2>2. QED
    BY <2>1 DEF AtMostOne
<1>7. CASE first.of = r
  <2>1. 1 \in InHand(r) /\ Queued(r) = {} /\ Handled(r) = {} /\ Answered(r) = {} /\ Begun(r)
    BY <1>5, <1>7 DEF Once
  <2>2. InHand(r)' = {}
    <3>1. ASSUME NEW i \in InHand(r)' PROVE FALSE
      <4>1. i + 1 = 1 /\ i \in Nat /\ i # 0
        BY <1>5, <2>1 DEF Once, AtMostOne
      <4>2. QED
        BY <4>1
    <3>2. QED
      BY <3>1
  <2>3. Queued(r)' = {Len(queue) + 1}
    BY <1>4, <1>7, <2>1
  <2>4. QED
    BY <1>3, <2>1, <2>2, <2>3 DEF Once, AtMostOne
<1>8. CASE first.of # r
  <2>1. Queued(r)' = Queued(r) /\ (InHand(r) = {} => InHand(r)' = {})
    BY <1>4, <1>5, <1>8
  <2>2. QED
    BY <1>3, <1>6, <2>1 DEF Once, AtMostOne
<1>9. QED
  BY <1>7, <1>8

\* A worker takes the first task of the queue.
LEMMA OnceStarted ==
  ASSUME IInv, NEW r \in Request, Once(r), NEW w \in Worker, StartJob(w)
  PROVE  Once(r)'
<1> DEFINE first == Head(queue)
           new == [at |-> "handling", task |-> first]
<1>1. /\ TypeOK /\ queue \in Seq(Task) /\ queue # <<>> /\ queue' = Tail(queue)
      /\ job[w] = NoJob /\ job' = [job EXCEPT ![w] = new] /\ UNCHANGED <<messages, stream, read>>
  BY DEF IInv, TypeOK, StartJob, Popped
<1>2. first \in Task /\ first = queue[1] /\ 1 \in DOMAIN queue
  BY <1>1
<1>3. new # NoJob /\ new.task = first
  BY DEF NoJob
<1>4. /\ job'[w] = new /\ \A v \in Worker : v # w => job'[v] = job[v]
  BY <1>1 DEF TypeOK
<1> HIDE DEF first, new
<1>5. Handled(r)' = Handled(r) \cup (IF first.of = r THEN {w} ELSE {})
  BY <1>1, <1>3, <1>4 DEF Handled
<1>6. /\ \A i \in Queued(r)' : i \in Nat /\ i + 1 \in Queued(r) /\ i # 0
      /\ first.of = r => 1 \in Queued(r)
  <2>1. \A i \in DOMAIN queue' : i \in Nat /\ i # 0 /\ i + 1 \in DOMAIN queue /\ queue'[i] = queue[i + 1]
    BY <1>1
  <2>2. QED
    BY <1>2, <2>1 DEF Queued
<1>7. InHand(r)' = InHand(r) /\ Answered(r)' = Answered(r) /\ (Begun(r)' <=> Begun(r))
  BY <1>1 DEF InHand, Answered, Begun
<1>8. AtMostOne(Queued(r)')
  <2>1. ASSUME NEW i \in Queued(r)', NEW j \in Queued(r)' PROVE i = j
    <3>1. i \in Nat /\ j \in Nat /\ i + 1 = j + 1
      BY <1>6 DEF Once, AtMostOne
    <3>2. QED
      BY <3>1
  <2>2. QED
    BY <2>1 DEF AtMostOne
<1>9. CASE first.of = r
  <2>1. 1 \in Queued(r) /\ InHand(r) = {} /\ Handled(r) = {} /\ Answered(r) = {} /\ Begun(r)
    BY <1>6, <1>9 DEF Once
  <2>2. Queued(r)' = {}
    <3>1. ASSUME NEW i \in Queued(r)' PROVE FALSE
      <4>1. i + 1 = 1 /\ i \in Nat /\ i # 0
        BY <1>6, <2>1 DEF Once, AtMostOne
      <4>2. QED
        BY <4>1
    <3>2. QED
      BY <3>1
  <2>3. QED
    BY <1>5, <1>7, <1>9, <2>1, <2>2 DEF Once, AtMostOne
<1>10. CASE first.of # r
  <2>1. Handled(r)' = Handled(r) /\ (Queued(r) = {} => Queued(r)' = {})
    BY <1>5, <1>6, <1>10
  <2>2. QED
    BY <1>7, <1>8, <2>1 DEF Once, AtMostOne
<1>11. QED
  BY <1>9, <1>10

\* sendResponse looks the descriptor up, and may give the response up.
LEMMA OnceFound ==
  ASSUME IInv, NEW r \in Request, Once(r), NEW w \in Worker, FindConnection(w)
  PROVE  Once(r)'
<1>1. /\ TypeOK /\ job[w] # NoJob /\ UNCHANGED <<messages, queue, stream, read>>
      /\ job' = [job EXCEPT ![w] = IF connections[Target(job[w].task)] = Nil
                                   THEN NoJob ELSE [@ EXCEPT !.at = "sending"]]
  BY NoJobAt DEF IInv, FindConnection
<1>2. job[w] \in [at : {"handling", "sending"}, task : Task]
  BY <1>1, JobType
<1>3. \A v \in Worker : job'[v] # NoJob => job[v] # NoJob /\ job'[v].task = job[v].task
  BY <1>1, <1>2 DEF TypeOK
<1>4. Handled(r)' \subseteq Handled(r)
  BY <1>3 DEF Handled
<1>5. InHand(r)' = InHand(r) /\ Queued(r)' = Queued(r) /\ Answered(r)' = Answered(r) /\ (Begun(r)' <=> Begun(r))
  BY <1>1 DEF InHand, Queued, Answered, Begun
<1>6. QED
  BY <1>4, <1>5 DEF Once, AtMostOne

\* Where the elements of a sequence are when one more follows.
LEMMA AppendPlaces ==
  ASSUME NEW S, NEW s \in Seq(S), NEW e \in S
  PROVE  /\ Len(s) + 1 \in Nat
         /\ DOMAIN Append(s, e) = DOMAIN s \cup {Len(s) + 1} /\ Append(s, e)[Len(s) + 1] = e
         /\ \A i \in DOMAIN s : Append(s, e)[i] = s[i] /\ i # Len(s) + 1
OBVIOUS

\* The worker has sent the response, or send() has failed.
LEMMA OnceSent ==
  ASSUME IInv, NEW r \in Request, Once(r), NEW w \in Worker, SendResponse(w)
  PROVE  Once(r)'
<1> DEFINE of == job[w].task.of
           c == socket[Target(job[w].task)]
<1>1. /\ TypeOK /\ job[w] # NoJob /\ UNCHANGED <<messages, queue, read>> /\ job' = [job EXCEPT ![w] = NoJob]
      /\ stream \in [Client -> Seq(Request)]
      /\ \/ stream' = stream
         \/ c # Nil /\ stream' = [stream EXCEPT ![c] = Append(@, of)]
  BY NoJobAt DEF IInv, SendResponse, TypeOK
<1>2. of \in Request /\ job[w].task.fd \in Fd
  BY <1>1, JobType
<1>3. c \in Client \cup {Nil}
  BY <1>1, <1>2 DEF TypeOK, Target
<1> HIDE DEF c
<1>4. /\ Handled(r)' \subseteq Handled(r) /\ (of = r => w \in Handled(r) /\ w \notin Handled(r)')
  BY <1>1 DEF TypeOK, Handled
<1>5. InHand(r)' = InHand(r) /\ Queued(r)' = Queued(r) /\ (Begun(r)' <=> Begun(r))
  BY <1>1 DEF InHand, Queued, Begun
<1> HIDE DEF of
<1>6. CASE stream' = stream
  <2>1. Answered(r)' = Answered(r)
    BY <1>6 DEF Answered
  <2>2. QED
    BY <1>4, <1>5, <2>1 DEF Once, AtMostOne
<1>7. CASE c # Nil /\ stream' = [stream EXCEPT ![c] = Append(@, of)]
  <2>1. c \in Client /\ stream[c] \in Seq(Request) /\ Len(stream[c]) \in Nat
    BY <1>1, <1>3, <1>7
  <2>2. /\ stream'[c] = Append(stream[c], of)
        /\ \A d \in Client : d # c => stream'[d] = stream[d]
    BY <1>1, <1>7, <2>1
  <2> DEFINE n == Len(stream[c]) + 1
  <2>3. /\ DOMAIN stream'[c] = DOMAIN stream[c] \cup {n} /\ stream'[c][n] = of
        /\ \A i \in DOMAIN stream[c] : stream'[c][i] = stream[c][i] /\ i # n
        /\ n \in Nat
    BY <1>2, <2>1, <2>2, AppendPlaces
  <2> HIDE DEF n
  <2>4. Answered(r)' = Answered(r) \cup (IF of = r THEN {<<c, n>>} ELSE {})
    BY <2>1, <2>2, <2>3, SMTT(30) DEF Answered
  <2>5. CASE of = r
    <3>1. w \in Handled(r) /\ InHand(r) = {} /\ Queued(r) = {} /\ Answered(r) = {} /\ Begun(r)
      BY <1>4, <2>5 DEF Once
    <3>2. Handled(r)' = {}
      BY <1>4, <2>5 DEF Once, AtMostOne
    <3>3. Answered(r)' = {<<c, n>>}
      BY <2>4, <2>5, <3>1
    <3>4. QED
      BY <1>5, <3>1, <3>2, <3>3 DEF Once, AtMostOne
  <2>6. CASE of # r
    <3>1. Answered(r)' = Answered(r)
      BY <2>4, <2>6
    <3>2. QED
      BY <1>4, <1>5, <3>1 DEF Once, AtMostOne
  <2>7. QED
    BY <2>5, <2>6
<1>8. QED
  BY <1>1, <1>6, <1>7

\* A request is in one place at most after every step.
LEMMA OnceStep ==
  ASSUME IInv, [Next]_vars, NEW r \in Request, Once(r)
  PROVE  Once(r)'
<1>1. CASE UNCHANGED <<messages, queue, job, stream, read>>
  BY <1>1, OnceKept
<1>2. CASE \E c \in Client : ReadRequest(c)
  BY <1>2, OnceRead
<1>5. CASE Enqueue
  BY <1>5, OnceEnqueued
<1>3. CASE \E w \in Worker : StartJob(w) \/ FindConnection(w) \/ SendResponse(w)
  BY <1>3, OnceStarted, OnceFound, OnceSent
<1>4. QED
  BY <1>1, <1>2, <1>3, <1>5
     DEF Next, ClientStep, LoopStep, WorkerStep, StopStep, Connect, SendRequest, Disconnect,
     EpollWait, LoopExit, HandleNewConnection, Accept, Reject, AcceptDone, Register,
     HandleClientData, EnqueueAfterStop, ReadAgain, ReadEnd, ReadClosed, CloseConnection,
     StopBegin, StopClients, StopEpoll, StopPool, StopJoin, tasks, vars

\* No request is anywhere before it is read.
LEMMA OnceInit == Init => \A r \in Request : Once(r)
<1> SUFFICES ASSUME Init, NEW r \in Request PROVE Once(r)
  OBVIOUS
<1>1. InHand(r) = {} /\ Queued(r) = {} /\ Handled(r) = {} /\ Answered(r) = {}
  BY DEF Init, InHand, Queued, Handled, Answered
<1>2. QED
  BY <1>1 DEF Once, AtMostOne

\* However the loop, the workers, the clients and stop() interleave, no request
\* is handled or answered twice.
THEOREM AtMostOneAnswer == Spec => []AnsweredOnce
<1> DEFINE Inv == IInv /\ \A r \in Request : Once(r)
<1>1. Init => Inv
  BY InitInv, OnceInit
<1>2. Inv /\ [Next]_vars => Inv'
  <2> SUFFICES ASSUME Inv, [Next]_vars PROVE Inv'
    OBVIOUS
  <2>1. IInv'
    BY InvariantStep
  <2>2. (\A r \in Request : Once(r))'
    <3>1. \A r \in Request : Once(r)'
      BY OnceStep
    <3>2. Request' = Request
      BY DEF Request
    <3>3. QED
      BY <3>1, <3>2
  <2>3. QED
    BY <2>1, <2>2
<1>3. Inv => AnsweredOnce
  BY OnceCounts
<1>4. QED
  BY <1>1, <1>2, <1>3, PTL DEF Spec

-----------------------------------------------------------------------------
(* Framing: the bytes between one TcpConnection and the server.              *)

CONSTANTS Requests, Answers, Stray, PrefixSize, MaxLength, Room, ConnectionTimeout
VARIABLES client, server, up, down, asked, buffer, extracted, waiting, reading, received, strays, cut, overlap, expired

Stream == INSTANCE Framing WITH Request <- Requests, Answer <- Answers, sent <- asked

\* Sums are numbers.
LEMMA Sums == \A i, j \in Nat : i + j \in Nat
OBVIOUS

\* Where the byte before the i-th of a message is.
LEMMA Before == \A i, j, n \in Nat : n # 0 => /\ (i + n + j) - i - 1 \in Nat
                                               /\ i + ((i + n + j) - i - 1) < i + n + j
                                               /\ 1 + ((i + n + j) - i - 1) = n + j
OBVIOUS

\* The places of two neighbours among the last n of n + k.
LEMMA Neighbours == \A k, n \in Nat : \A i \in 1..(n - 1) :
  /\ i \in 1..n /\ i + 1 \in 1..n /\ k + i \in 1..((k + n) - 1) /\ k + (i + 1) = (k + i) + 1
OBVIOUS

\* The bytes of s from the n-th on.
LEMMA FromPart ==
  ASSUME NEW S, NEW s \in Seq(S), NEW n \in 1..(Len(s) + 1)
  PROVE  /\ Stream!From(s, n) \in Seq(S) /\ Len(Stream!From(s, n)) = Len(s) - n + 1
         /\ \A i \in 1..(Len(s) - n + 1) : Stream!From(s, n)[i] = s[n + i - 1]
<1>1. Len(s) \in Nat /\ \A i \in n..Len(s) : s[i] \in S
  BY LenProperties
<1>2. QED
  BY <1>1, SubSeqProperties DEF Stream!From

\* The first n bytes of s.
LEMMA FirstPart ==
  ASSUME NEW S, NEW s \in Seq(S), NEW n \in 0..Len(s)
  PROVE  /\ SubSeq(s, 1, n) \in Seq(S) /\ Len(SubSeq(s, 1, n)) = n
         /\ \A i \in 1..n : SubSeq(s, 1, n)[i] = s[i]
<1>1. Len(s) \in Nat /\ \A i \in 1..n : s[i] \in S
  BY LenProperties
<1>2. QED
  BY <1>1, SubSeqProperties

\* A message that is sent, byte by byte, and its body.
LEMMA MessageShape ==
  ASSUME Stream!LengthAssumption, NEW lengths \in Seq(Nat), NEW r \in 1..Len(lengths)
  PROVE  /\ Stream!Message(r, lengths[r]) \in Seq(Stream!Bytes(lengths))
         /\ Len(Stream!Message(r, lengths[r])) = PrefixSize + lengths[r]
         /\ \A i \in 1..(PrefixSize + lengths[r]) : Stream!Message(r, lengths[r])[i] = [of |-> r, at |-> i]
<1> DEFINE m == Stream!Message(r, lengths[r])
           n == PrefixSize + lengths[r]
<1>1. n \in Nat
  BY DEF Stream!LengthAssumption
<1>2. m = [i \in 1..n |-> [of |-> r, at |-> i]]
  BY DEF Stream!Message
<1>3. \A i \in 1..n : [of |-> r, at |-> i] \in Stream!Bytes(lengths)
  BY <1>1 DEF Stream!Bytes
<1> HIDE DEF m, n
<1>4. m \in [1..n -> Stream!Bytes(lengths)]
  BY <1>2, <1>3
<1>5. m \in Seq(Stream!Bytes(lengths)) /\ Len(m) = n
  BY <1>1, <1>4
<1>6. QED
  BY <1>2, <1>5 DEF m, n

\* The body of a message, byte by byte.
LEMMA BodyShape ==
  ASSUME Stream!LengthAssumption, NEW lengths \in Seq(Nat), NEW r \in 1..Len(lengths)
  PROVE  /\ Stream!Body(r, lengths[r]) \in Seq(Stream!Bytes(lengths))
         /\ Len(Stream!Body(r, lengths[r])) = lengths[r]
         /\ \A i \in 1..lengths[r] : Stream!Body(r, lengths[r])[i] = [of |-> r, at |-> PrefixSize + i]
<1> DEFINE m == Stream!Message(r, lengths[r])
           l == lengths[r]
<1>1. l \in Nat /\ PrefixSize \in Nat
  BY DEF Stream!LengthAssumption
<1>2. Stream!Body(r, l) = SubSeq(m, PrefixSize + 1, PrefixSize + l)
  BY DEF Stream!Body
<1>3. /\ Len(m) = PrefixSize + l /\ m \in Seq(Stream!Bytes(lengths))
      /\ \A i \in 1..(PrefixSize + l) : m[i] = [of |-> r, at |-> i]
  BY MessageShape
<1>4. \A i \in (PrefixSize + 1)..(PrefixSize + l) : m[i] \in Stream!Bytes(lengths)
  <2>1. \A i \in 1..Len(m) : m[i] \in Stream!Bytes(lengths)
    BY <1>3, ElementOfSeq
  <2> HIDE DEF m, l
  <2>2. QED
    BY <1>1, <1>3, <2>1
<1> HIDE DEF m, l
<1> DEFINE b == SubSeq(m, PrefixSize + 1, PrefixSize + l)
<1>5. /\ b \in Seq(Stream!Bytes(lengths))
      /\ Len(b) = IF PrefixSize + 1 <= PrefixSize + l THEN PrefixSize + l - (PrefixSize + 1) + 1 ELSE 0
      /\ \A i \in 1..(PrefixSize + l - (PrefixSize + 1) + 1) : b[i] = m[PrefixSize + 1 + i - 1]
  BY <1>1, <1>4, SubSeqProperties
<1>6. Len(b) = l /\ \A i \in 1..l : b[i] = m[PrefixSize + i]
  <2> HIDE DEF b
  <2>1. QED
    BY <1>1, <1>5
<1>7. \A i \in 1..l : b[i] = [of |-> r, at |-> PrefixSize + i]
  <2> HIDE DEF b
  <2>1. \A i \in 1..l : PrefixSize + i \in 1..(PrefixSize + l)
    BY <1>1
  <2>2. QED
    BY <1>3, <1>6, <2>1
<1>8. QED
  BY <1>2, <1>5, <1>6, <1>7 DEF l

\* Bytes have a message and a place in it.
LEMMA ByteType ==
  ASSUME NEW lengths \in Seq(Nat), NEW s \in Seq(Stream!Bytes(lengths)), NEW i \in 1..Len(s)
  PROVE  /\ s[i].of \in 1..Len(lengths) /\ s[i].at \in Nat \ {0} /\ lengths[s[i].of] \in Nat
         /\ s[i] = [of |-> s[i].of, at |-> s[i].at]
<1>1. s[i] \in Stream!Bytes(lengths)
  BY ElementOfSeq
<1>2. s[i].of \in 1..Len(lengths) /\ s[i].at \in Nat \ {0} /\ s[i] = [of |-> s[i].of, at |-> s[i].at]
  BY <1>1 DEF Stream!Bytes
<1>3. QED
  BY <1>2

\* From a byte on, its message runs as far as it goes.
LEMMA RunOn ==
  ASSUME Stream!LengthAssumption, NEW lengths \in Seq(Nat), NEW s \in Seq(Stream!Bytes(lengths)),
         Stream!Runs(lengths, s), NEW i \in 1..Len(s)
  PROVE  \A j \in Nat : i + j <= Len(s) /\ s[i].at + j <= PrefixSize + lengths[s[i].of]
           => s[i + j] = [of |-> s[i].of, at |-> s[i].at + j]
<1> DEFINE r == s[i].of
           a == s[i].at
           l == lengths[r]
           run == {j \in Nat : i + j <= Len(s) /\ a + j <= PrefixSize + l
                               => s[i + j] = [of |-> r, at |-> a + j]}
<1>1. /\ PrefixSize \in Nat /\ a \in Nat /\ l \in Nat /\ Len(s) \in Nat /\ i \in Nat
      /\ s[i] = [of |-> r, at |-> a] /\ DOMAIN s = 1..Len(s)
  BY ByteType, LenProperties DEF Stream!LengthAssumption
<1>2. 0 \in run
  <2> HIDE DEF r, a, l
  <2>1. QED
    BY <1>1
<1>3. ASSUME NEW j \in Nat, j \in run PROVE j + 1 \in run
  <2>1. SUFFICES ASSUME i + (j + 1) <= Len(s), a + (j + 1) <= PrefixSize + l
                 PROVE  s[i + (j + 1)] = [of |-> r, at |-> a + (j + 1)]
    <3> HIDE DEF r, a, l
    <3>1. QED
      OBVIOUS
  <2>2. s[i + j] = [of |-> r, at |-> a + j]
    <3> HIDE DEF r, a, l
    <3>1. QED
      BY <1>1, <1>3, <2>1
  <2>3. i + j \in DOMAIN s /\ i + j < Len(s)
    <3> HIDE DEF r, a, l, run
    <3>1. QED
      BY <1>1, <2>1
  <2>4. IF Stream!Final(lengths, s[i + j]) THEN s[i + j + 1].at = 1
        ELSE s[i + j + 1] = [of |-> s[i + j].of, at |-> s[i + j].at + 1]
    BY <2>3 DEF Stream!Runs
  <2>5. s[i + j].of = r /\ s[i + j].at = a + j
    BY <2>2
  <2> HIDE DEF r, a
  <2>6. ~Stream!Final(lengths, s[i + j])
    BY <1>1, <2>1, <2>5 DEF Stream!Final
  <2>7. i + j + 1 = i + (j + 1) /\ a + j + 1 = a + (j + 1)
    BY <1>1
  <2>8. QED
    BY <2>4, <2>5, <2>6, <2>7
<1>4. Nat \subseteq run
  <2> HIDE DEF run
  <2>1. QED
    BY <1>2, <1>3, NatInductive
<1>5. QED
  BY <1>4

\* A message that has come to its length at least says how long it is.
LEMMA Front ==
  ASSUME Stream!LengthAssumption, NEW lengths \in Seq(Nat), NEW s \in Seq(Stream!Bytes(lengths)),
         Stream!Runs(lengths, s), Len(s) >= PrefixSize, s[1].at = 1
  PROVE  /\ 1 \in 1..Len(s) /\ Stream!Lengths(s, lengths) = {lengths[s[1].of]}
<1>1. PrefixSize \in Nat \ {0} /\ Len(s) \in Nat /\ 1 \in 1..Len(s)
  BY LenProperties DEF Stream!LengthAssumption
<1>2. lengths[s[1].of] \in Nat
  BY <1>1, ByteType
<1>3. \A j \in Nat : 1 + j <= Len(s) /\ s[1].at + j <= PrefixSize + lengths[s[1].of]
        => s[1 + j] = [of |-> s[1].of, at |-> s[1].at + j]
  BY <1>1, RunOn
<1>4. ASSUME NEW i \in 1..PrefixSize PROVE s[i] = [of |-> s[1].of, at |-> i]
  <2>1. i - 1 \in Nat /\ 1 + (i - 1) = i /\ i <= Len(s) /\ 1 + (i - 1) <= PrefixSize + lengths[s[1].of]
    BY <1>1, <1>2, SMTT(30)
  <2>2. QED
    BY <1>3, <2>1
<1>5. QED
  BY <1>1, <1>4 DEF Stream!Lengths

\* Message k is in b from c on, up to e.
MessageAt(b, c, e, k) ==
  /\ e = c + PrefixSize + Requests[k] /\ e <= Len(b) + 1
  /\ SubSeq(b, c + PrefixSize, e - 1) = Stream!Body(k, Requests[k])
  /\ b[e - 1] = [of |-> k, at |-> PrefixSize + Requests[k]]
  /\ e <= Len(b) => b[e].at = 1

\* A message that is complete at the front of what has come is there to its
\* last byte, and another one begins behind it.
LEMMA NextMessage ==
  ASSUME Stream!LengthAssumption, NEW b \in Seq(Stream!Bytes(Requests)), Stream!Runs(Requests, b),
         NEW c \in 1..(Len(b) + 1), c <= Len(b) => b[c].at = 1, Stream!Complete(Stream!From(b, c))
  PROVE  /\ c \in 1..Len(b) /\ b[c].of \in 1..Len(Requests)
         /\ (CHOOSE n \in Stream!Lengths(Stream!From(b, c), Requests) : TRUE) = Requests[b[c].of]
         /\ MessageAt(b, c, c + PrefixSize + Requests[b[c].of], b[c].of)
<1> DEFINE rest == Stream!From(b, c)
           k == b[c].of
           l == Requests[k]
<1>1. PrefixSize \in Nat \ {0} /\ Len(b) \in Nat /\ Requests \in Seq(Nat) /\ DOMAIN b = 1..Len(b)
  BY LenProperties DEF Stream!LengthAssumption
<1>2. /\ rest \in Seq(Stream!Bytes(Requests)) /\ Len(rest) = Len(b) - c + 1
      /\ \A i \in 1..(Len(b) - c + 1) : rest[i] = b[c + i - 1]
  BY FromPart
<1>3. Len(rest) >= PrefixSize /\ Len(rest) >= PrefixSize + CHOOSE n \in Stream!Lengths(rest, Requests) : TRUE
  BY DEF Stream!Complete
<1>4. c \in 1..Len(b) /\ b[c].at = 1 /\ rest[1] = b[c]
  <2> HIDE DEF rest
  <2>1. c <= Len(b) /\ 1 \in 1..(Len(b) - c + 1)
    BY <1>1, <1>2, <1>3
  <2>2. QED
    BY <1>2, <2>1
<1>5. k \in 1..Len(Requests) /\ l \in Nat /\ b[c] = [of |-> k, at |-> 1]
  <2>1. /\ b[c].of \in 1..Len(Requests) /\ Requests[b[c].of] \in Nat
        /\ b[c] = [of |-> b[c].of, at |-> b[c].at]
    BY <1>1, <1>4, ByteType, ZenonT(30)
  <2>2. QED
    BY <1>4, <2>1
<1>6. Stream!Runs(Requests, rest)
  <2> HIDE DEF rest
  <2>1. SUFFICES ASSUME NEW i \in 1..Len(rest)
                 PROVE  /\ rest[i].at <= PrefixSize + Requests[rest[i].of]
                        /\ i < Len(rest) => IF Stream!Final(Requests, rest[i]) THEN rest[i + 1].at = 1
                             ELSE rest[i + 1] = [of |-> rest[i].of, at |-> rest[i].at + 1]
    <3>1. DOMAIN rest = 1..Len(rest)
      BY <1>2, LenProperties
    <3>2. QED
      BY <2>1, <3>1 DEF Stream!Runs
  <2>2. c + i - 1 \in DOMAIN b /\ rest[i] = b[c + i - 1]
    <3>1. c + i - 1 \in 1..Len(b) /\ i \in 1..(Len(b) - c + 1)
      <4> HIDE DEF k, l
      <4>1. i \in Nat \ {0} /\ i <= Len(b) - c + 1
        BY <1>1, <1>2
      <4>2. QED
        BY <1>1, <4>1
    <3>2. QED
      BY <1>1, <1>2, <3>1
  <2>3. i < Len(rest) => c + i - 1 < Len(b) /\ rest[i + 1] = b[c + i - 1 + 1]
    <3>1. SUFFICES ASSUME i < Len(rest) PROVE c + i - 1 < Len(b) /\ rest[i + 1] = b[c + i - 1 + 1]
      OBVIOUS
    <3>2. i + 1 \in 1..(Len(b) - c + 1) /\ c + (i + 1) - 1 = c + i - 1 + 1 /\ c + i - 1 < Len(b)
      BY <1>1, <1>2, <3>1
    <3>3. QED
      BY <1>2, <3>2
  <2>4. QED
    BY <2>2, <2>3 DEF Stream!Runs
<1>7. Stream!Lengths(rest, Requests) = {l}
  BY <1>1, <1>2, <1>3, <1>4, <1>6, Front
<1>8. (CHOOSE n \in Stream!Lengths(rest, Requests) : TRUE) = l
  BY <1>7
<1>15. Len(rest) >= PrefixSize + l
  BY <1>3, <1>8
<1> DEFINE e == c + PrefixSize + l
<1> HIDE DEF rest, k, l
<1>9. e <= Len(b) + 1 /\ e - 1 \in 1..Len(b) /\ e \in Nat /\ c \in Nat /\ l \in Nat /\ e - 1 = c + (e - c - 1)
  BY <1>1, <1>2, <1>4, <1>5, <1>15
<1>10. ASSUME NEW j \in Nat, c + j < e PROVE b[c + j] = [of |-> k, at |-> 1 + j]
  <2>1. c + j <= Len(b) /\ b[c].at + j <= PrefixSize + Requests[b[c].of]
    <3>1. c + j <= Len(b) /\ 1 + j <= PrefixSize + l
      BY <1>1, <1>9, <1>10
    <3>2. QED
      BY <1>4, <3>1 DEF k, l
  <2>2. b[c + j] = [of |-> b[c].of, at |-> b[c].at + j]
    BY <1>1, <1>4, <2>1, RunOn
  <2>3. QED
    BY <1>4, <2>2 DEF k
<1>11. b[e - 1] = [of |-> k, at |-> PrefixSize + l]
  <2>1. e - c - 1 \in Nat /\ c + (e - c - 1) < e /\ 1 + (e - c - 1) = PrefixSize + l
    <3>1. c \in Nat /\ l \in Nat /\ PrefixSize \in Nat /\ PrefixSize # 0
      BY <1>1, <1>9
    <3>2. QED
      BY <3>1, Before
  <2>2. QED
    BY <1>9, <1>10, <2>1
<1>12. ASSUME e <= Len(b) PROVE b[e].at = 1
  <2>1. e - 1 \in DOMAIN b /\ e - 1 < Len(b) /\ e - 1 + 1 = e
    BY <1>1, <1>9, <1>12
  <2>2. Stream!Final(Requests, b[e - 1])
    <3>1. b[e - 1].of = k /\ b[e - 1].at = PrefixSize + l
      BY <1>11
    <3>2. QED
      BY <3>1 DEF Stream!Final, l
  <2>3. QED
    BY <2>1, <2>2 DEF Stream!Runs
<1>13. SubSeq(b, c + PrefixSize, e - 1) = Stream!Body(k, l)
  <2> DEFINE m == SubSeq(b, c + PrefixSize, e - 1)
             B == Stream!Body(k, l)
  <2>1. \A i \in (c + PrefixSize)..(e - 1) : b[i] \in Stream!Bytes(Requests)
    <3>1. \A i \in (c + PrefixSize)..(e - 1) : i \in 1..Len(b)
      BY <1>1, <1>9
    <3>2. QED
      BY <3>1, ElementOfSeq
  <2>2. /\ m \in Seq(Stream!Bytes(Requests))
        /\ Len(m) = IF c + PrefixSize <= e - 1 THEN e - 1 - (c + PrefixSize) + 1 ELSE 0
        /\ \A i \in 1..(e - 1 - (c + PrefixSize) + 1) : m[i] = b[c + PrefixSize + i - 1]
    <3>1. c + PrefixSize \in Int /\ e - 1 \in Int
      <4>1. \A x, y, z \in Nat : x + y \in Int /\ z - 1 \in Int
        OBVIOUS
      <4>2. c \in Nat /\ PrefixSize \in Nat /\ e \in Nat
        BY <1>1, <1>9
      <4> HIDE DEF e, m, B
      <4>3. QED
        BY <4>1, <4>2
    <3> DEFINE from == c + PrefixSize
               to == e - 1
    <3>2. from \in Int /\ to \in Int /\ m = SubSeq(b, from, to) /\ \A i \in from..to : b[i] \in Stream!Bytes(Requests)
      BY <2>1, <3>1
    <3> HIDE DEF from, to, m, B
    <3>3. /\ m \in Seq(Stream!Bytes(Requests))
          /\ Len(m) = IF from <= to THEN to - from + 1 ELSE 0
          /\ \A i \in 1..(to - from + 1) : m[i] = b[from + i - 1]
      BY <3>2, SubSeqProperties
    <3>4. QED
      BY <3>3 DEF from, to
  <2>3. /\ B \in Seq(Stream!Bytes(Requests)) /\ Len(B) = l
        /\ \A i \in 1..l : B[i] = [of |-> k, at |-> PrefixSize + i]
    BY <1>1, <1>5, BodyShape DEF l
  <2> HIDE DEF m, B
  <2>4. Len(m) = l /\ \A i \in 1..l : m[i] = b[c + PrefixSize + i - 1]
    <3>1. \A i \in 1..l : i \in 1..(e - 1 - (c + PrefixSize) + 1)
      BY <1>1, <1>9, SMTT(30)
    <3>2. Len(m) = l
      BY <1>1, <1>9, <2>2
    <3>3. QED
      BY <2>2, <3>1, <3>2
  <2>5. ASSUME NEW i \in 1..l PROVE m[i] = B[i]
    <3>1. PrefixSize + i - 1 \in Nat /\ c + (PrefixSize + i - 1) < e
          /\ c + (PrefixSize + i - 1) = c + PrefixSize + i - 1 /\ 1 + (PrefixSize + i - 1) = PrefixSize + i
      BY <1>1, <1>9
    <3>2. QED
      BY <1>10, <2>3, <2>4, <3>1
  <2>6. m = B
    BY <2>2, <2>3, <2>4, <2>5, SeqEqual
  <2>7. QED
    BY <2>6 DEF m, B
<1>14. MessageAt(b, c, e, k)
  BY <1>9, <1>11, <1>12, <1>13, Zenon DEF MessageAt, l
<1>16. QED
  BY <1>4, <1>5, <1>8, <1>14 DEF k, l, rest

\* Going on from a first value step by step is a function.
Iterated(f, L, T, first, next) ==
  f \in [0..L -> T] /\ f[0] = first /\ \A n \in 1..L : f[n] = next[f[n - 1]]

\* There is such a function for each first value and step.
LEMMA Iterates ==
  ASSUME NEW L \in Nat, NEW T, NEW first \in T, NEW next \in [T -> T]
  PROVE  \E f : Iterated(f, L, T, first, next)
<1> DEFINE Defined(k) == \E f \in [0..k -> T] : f[0] = first /\ \A n \in 1..k : f[n] = next[f[n - 1]]
           defined == {k \in Nat : Defined(k)}
<1>1. 0 \in defined
  <2> DEFINE f == [i \in 0..0 |-> first]
  <2>1. f \in [0..0 -> T] /\ f[0] = first /\ \A n \in 1..0 : f[n] = next[f[n - 1]]
    OBVIOUS
  <2>2. QED
    BY <2>1
<1>2. ASSUME NEW k \in Nat, k \in defined PROVE k + 1 \in defined
  <2>1. PICK f \in [0..k -> T] : f[0] = first /\ \A n \in 1..k : f[n] = next[f[n - 1]]
    BY <1>2
  <2> DEFINE g == [n \in 0..(k + 1) |-> IF n <= k THEN f[n] ELSE next[f[k]]]
  <2>2. g \in [0..(k + 1) -> T] /\ g[0] = first
    BY <2>1
  <2>3. ASSUME NEW n \in 1..(k + 1) PROVE g[n] = next[g[n - 1]]
    <3>1. n \in 0..(k + 1) /\ n - 1 \in 0..(k + 1) /\ n - 1 <= k /\ n - 1 \in 0..k
      OBVIOUS
    <3>2. g[n - 1] = f[n - 1]
      BY <3>1
    <3>3. CASE n <= k
      <4>1. g[n] = f[n] /\ n \in 1..k
        BY <3>1, <3>3
      <4>2. QED
        BY <2>1, <3>2, <4>1
    <3>4. CASE ~(n <= k)
      <4>1. g[n] = next[f[k]] /\ n - 1 = k
        BY <3>1, <3>4
      <4>2. QED
        BY <3>2, <4>1
    <3>5. QED
      BY <3>3, <3>4
  <2> HIDE DEF g
  <2>4. QED
    BY <2>2, <2>3
<1> HIDE DEF defined
<1>3. L \in defined
  BY <1>1, <1>2, NatInductive
<1>4. QED
  BY <1>3 DEF defined, Iterated

-----------------------------------------------------------------------------
\* Where the message that begins at c ends, if it is complete.
Beyond(b, c) ==
  IF Stream!Complete(Stream!From(b, c))
  THEN c + PrefixSize + CHOOSE n \in Stream!Lengths(Stream!From(b, c), Requests) : TRUE
  ELSE c

\* The steps of extractMessages, and what it returns.
Cuts(b, cuts) ==
  /\ cuts \in [0..Len(b) -> Nat \ {0}] /\ cuts[0] = 1
  /\ \A n \in 1..Len(b) : cuts[n] = Beyond(b, cuts[n - 1])
  /\ Stream!ExtractMessages(b) =
       [messages |-> [n \in {n \in 1..Len(b) : cuts[n] > cuts[n - 1]} |->
                        SubSeq(b, cuts[n - 1] + PrefixSize, cuts[n] - 1)],
        rest |-> Stream!From(b, cuts[Len(b)])]

\* What bytes may say is a length.
LEMMA BeyondType ==
  ASSUME Stream!LengthAssumption, NEW b \in Seq(Stream!Bytes(Requests)), NEW c \in Nat \ {0}
  PROVE  Beyond(b, c) \in Nat \ {0}
<1> DEFINE rest == Stream!From(b, c)
<1>0. PrefixSize \in Nat \ {0} /\ MaxLength \in Nat /\ Requests \in Seq(Nat) /\ Len(b) \in Nat
  BY LenProperties DEF Stream!LengthAssumption
<1>1. SUFFICES ASSUME Stream!Complete(rest) PROVE c + PrefixSize + (CHOOSE n \in Stream!Lengths(rest, Requests) : TRUE) \in Nat \ {0}
  BY DEF Beyond
<1>2. rest \in Seq(Stream!Bytes(Requests))
  <2>1. \A i \in c..Len(b) : i \in 1..Len(b)
    BY <1>0
  <2>2. \A i \in c..Len(b) : b[i] \in Stream!Bytes(Requests)
    BY <2>1, ElementOfSeq
  <2>3. QED
    BY <1>0, <2>2, SubSeqProperties DEF Stream!From
<1>3. Len(rest) >= PrefixSize
  BY <1>1 DEF Stream!Complete
<1> HIDE DEF rest
<1>4. 1 \in 1..Len(rest)
  BY <1>0, <1>2, <1>3, LenProperties
<1>5. Requests[rest[1].of] \in Nat
  BY <1>0, <1>2, <1>4, ByteType
<1>6. \A n \in Stream!Lengths(rest, Requests) : n \in Nat
  BY <1>0, <1>5 DEF Stream!Lengths
<1>7. \E n \in Stream!Lengths(rest, Requests) : TRUE
  <2>1. 0 \in 0..(MaxLength + 1)
    BY <1>0
  <2>2. QED
    BY <2>1 DEF Stream!Lengths
<1> DEFINE l == CHOOSE n \in Stream!Lengths(rest, Requests) : TRUE
<1>8. l \in Stream!Lengths(rest, Requests)
  BY <1>7
<1> HIDE DEF l
<1>9. l \in Nat
  BY <1>6, <1>8
<1>10. c + PrefixSize + l \in Nat \ {0}
  BY <1>0, <1>9
<1>11. QED
  BY <1>10 DEF l

\* extractMessages finds a sequence of places where messages begin.
LEMMA CutSteps ==
  ASSUME Stream!LengthAssumption, NEW b \in Seq(Stream!Bytes(Requests))
  PROVE  \E cuts : Cuts(b, cuts)
<1> DEFINE T == Nat \ {0}
           next == [c \in T |-> Beyond(b, c)]
           body(g, n) == IF n = 0 THEN 1
                         ELSE LET rest == Stream!From(b, g[n - 1])
                              IN  IF Stream!Complete(rest)
                                  THEN g[n - 1] + PrefixSize + CHOOSE k \in Stream!Lengths(rest, Requests) : TRUE
                                  ELSE g[n - 1]
           cuts == CHOOSE g : g = [n \in 0..Len(b) |-> body(g, n)]
<1>1. Len(b) \in Nat /\ 1 \in T
  BY LenProperties
<1>2. next \in [T -> T]
  BY BeyondType
<1>3. Stream!ExtractMessages(b) =
       [messages |-> [n \in {n \in 1..Len(b) : cuts[n] > cuts[n - 1]} |->
                        SubSeq(b, cuts[n - 1] + PrefixSize, cuts[n] - 1)],
        rest |-> Stream!From(b, cuts[Len(b)])]
  BY DEF Stream!ExtractMessages, Stream!Rest
<1>4. \A g, n : n # 0 => body(g, n) = Beyond(b, g[n - 1])
  BY DEF Beyond
<1>5. \A g : body(g, 0) = 1
  OBVIOUS
<1> HIDE DEF body, cuts, T, next
<1>6. PICK f \in [0..Len(b) -> T] : f[0] = 1 /\ \A n \in 1..Len(b) : f[n] = next[f[n - 1]]
  <2>1. \E f : Iterated(f, Len(b), T, 1, next)
    BY <1>1, <1>2, Iterates
  <2>2. QED
    BY <2>1 DEF Iterated
<1>7. ASSUME NEW n \in 0..Len(b) PROVE f[n] = body(f, n)
  <2>1. CASE n = 0
    BY <1>5, <1>6, <2>1
  <2>2. CASE n # 0
    <3>1. n \in 1..Len(b) /\ n - 1 \in 0..Len(b)
      BY <1>1, <2>2
    <3>2. f[n - 1] \in T
      BY <1>6, <3>1
    <3>3. f[n] = Beyond(b, f[n - 1])
      BY <1>6, <3>1, <3>2 DEF next
    <3>4. QED
      BY <1>4, <2>2, <3>3
  <2>3. QED
    BY <2>1, <2>2
<1>8. f = [n \in 0..Len(b) |-> body(f, n)]
  <2>1. f = [n \in 0..Len(b) |-> f[n]]
    BY <1>6
  <2>2. QED
    BY <1>7, <2>1
<1>9. cuts = [n \in 0..Len(b) |-> body(cuts, n)]
  BY <1>8 DEF cuts
<1>10. cuts[0] = 1
  <2>1. 0 \in 0..Len(b)
    BY <1>1
  <2>2. QED
    BY <1>5, <1>9, <2>1
<1>11. ASSUME NEW n \in 1..Len(b) PROVE cuts[n] = Beyond(b, cuts[n - 1])
  <2>1. n \in 0..Len(b) /\ n # 0
    BY <1>1
  <2>2. QED
    BY <1>4, <1>9, <2>1
<1> DEFINE typed == {n \in Nat : n <= Len(b) => cuts[n] \in T}
<1>12. 0 \in typed
  BY <1>1, <1>10
<1>13. ASSUME NEW n \in Nat, n \in typed PROVE n + 1 \in typed
  <2>1. SUFFICES ASSUME n + 1 <= Len(b) PROVE cuts[n + 1] \in T
    OBVIOUS
  <2>2. n + 1 \in 1..Len(b) /\ (n + 1) - 1 = n /\ cuts[n] \in T /\ n + 1 \in Nat
    BY <1>1, <1>13, <2>1
  <2>3. cuts[n + 1] = Beyond(b, cuts[n])
    BY <1>11, <2>2
  <2>4. QED
    BY <2>2, <2>3, BeyondType DEF T
<1>14. \A n \in 0..Len(b) : cuts[n] \in T
  <2> HIDE DEF typed
  <2>1. Nat \subseteq typed
    BY <1>12, <1>13, NatInductive
  <2>2. QED
    BY <1>1, <2>1 DEF typed
<1>15. cuts \in [0..Len(b) -> T]
  <2>1. \A n \in 0..Len(b) : body(cuts, n) \in T
    BY <1>9, <1>14
  <2>2. QED
    BY <1>9, <2>1
<1>16. QED
  BY <1>3, <1>10, <1>11, <1>15 DEF T, Cuts

FinalByte(k) == [of |-> k, at |-> PrefixSize + Requests[k]]

\* The j-th message of b, the one after the last + (j - 1)-th.
Taken(b, last, cuts, j) ==
  /\ cuts[j - 1] < cuts[j] /\ last + j \in 1..Len(Requests)
  /\ SubSeq(b, cuts[j - 1] + PrefixSize, cuts[j] - 1) = Stream!Body(last + j, Requests[last + j])
  /\ \E i \in 1..Len(b) : b[i] = FinalByte(last + j)

\* The first m messages of b have been found; they follow the last-th one.
Found(b, last, cuts, m) ==
  /\ cuts[m] \in (m + 1)..(Len(b) + 1)
  /\ cuts[m] <= Len(b) => b[cuts[m]] = [of |-> last + m + 1, at |-> 1]
  /\ IF m = 0 THEN cuts[m] = 1 ELSE b[cuts[m] - 1] = FinalByte(last + m)
  /\ \A j \in 1..m : Taken(b, last, cuts, j)

\* m messages have been found when n times has been looked for one.
Searched(b, last, cuts, n, m) ==
  /\ m \in 0..n /\ Found(b, last, cuts, m)
  /\ \A j \in m..n : cuts[j] = cuts[m]
  /\ m < n => ~Stream!Complete(Stream!From(b, cuts[m]))

\* When one more message is complete, it is the next one.
LEMMA FindNext ==
  ASSUME Stream!LengthAssumption, NEW b \in Seq(Stream!Bytes(Requests)), Stream!Runs(Requests, b),
         NEW last \in Nat, Stream!InOrder(b, last), NEW cuts, Cuts(b, cuts),
         NEW n \in Nat, n + 1 <= Len(b), Found(b, last, cuts, n), Stream!Complete(Stream!From(b, cuts[n]))
  PROVE  Found(b, last, cuts, n + 1)
<1> DEFINE c == cuts[n]
           k == last + n + 1
           e == c + PrefixSize + Requests[k]
<1>1. /\ PrefixSize \in Nat \ {0} /\ Len(b) \in Nat /\ Requests \in Seq(Nat) /\ DOMAIN b = 1..Len(b)
      /\ n + 1 \in 1..Len(b) /\ (n + 1) - 1 = n /\ \A i \in 1..Len(Requests) : Requests[i] \in Nat
  <2>1. PrefixSize \in Nat \ {0} /\ Requests \in Seq(Nat)
    BY DEF Stream!LengthAssumption
  <2>2. Len(b) \in Nat /\ DOMAIN b = 1..Len(b) /\ \A i \in 1..Len(Requests) : Requests[i] \in Nat
    BY <2>1, LenProperties, ElementOfSeq
  <2>3. n + 1 \in 1..Len(b) /\ (n + 1) - 1 = n
    BY <2>2
  <2>4. QED
    BY <2>1, <2>2, <2>3
<1>2. cuts[n + 1] = Beyond(b, c)
  BY <1>1 DEF Cuts
<1>3. /\ c \in (n + 1)..(Len(b) + 1) /\ c \in Nat /\ c \in 1..(Len(b) + 1)
      /\ c <= Len(b) => b[c] = [of |-> k, at |-> 1]
  BY <1>1, SMTT(30) DEF Found
<1>4. c <= Len(b) => b[c].of = k /\ b[c].at = 1
  BY <1>3
<1>5. /\ c \in 1..Len(b) /\ b[c].of \in 1..Len(Requests)
      /\ (CHOOSE l \in Stream!Lengths(Stream!From(b, c), Requests) : TRUE) = Requests[b[c].of]
      /\ MessageAt(b, c, c + PrefixSize + Requests[b[c].of], b[c].of)
  <2> HIDE DEF c, k
  <2>1. QED
    BY <1>1, <1>3, <1>4, NextMessage DEF c
<1>6. b[c].of = k
  BY <1>1, <1>4, <1>5
<1>7. /\ k \in 1..Len(Requests) /\ cuts[n + 1] = e /\ MessageAt(b, c, e, k)
  BY <1>2, <1>5, <1>6 DEF Beyond
<1> HIDE DEF c, k
<1>8. Requests[k] \in Nat
  BY <1>1, <1>7
<1> HIDE DEF e
<1>9. /\ e <= Len(b) + 1 /\ b[e - 1] = FinalByte(k)
      /\ SubSeq(b, c + PrefixSize, e - 1) = Stream!Body(k, Requests[k])
      /\ e <= Len(b) => b[e].at = 1
  BY <1>7, Zenon DEF MessageAt, FinalByte
<1>10. /\ e \in ((n + 1) + 1)..(Len(b) + 1) /\ e - 1 \in 1..Len(b) /\ c < e
  <2>1. e \in Nat /\ c < e
    <3>1. c \in Nat /\ Requests[k] \in Nat /\ PrefixSize \in Nat \ {0}
      BY <1>1, <1>3, <1>8
    <3>2. \A x, l \in Nat : x + PrefixSize + l \in Nat /\ x < x + PrefixSize + l
      BY <3>1
    <3>3. QED
      BY <3>1, <3>2 DEF e
  <2>2. e <= Len(b) + 1
    BY <1>9
  <2>3. c \in (n + 1)..(Len(b) + 1)
    BY <1>3
  <2>4. QED
    BY <1>1, <2>1, <2>2, <2>3
<1>11. ASSUME e <= Len(b) PROVE b[e] = [of |-> last + (n + 1) + 1, at |-> 1]
  <2>1. e \in 1..Len(b) /\ e # 1
    BY <1>1, <1>10, <1>11
  <2>2. b[e].of = b[e - 1].of + 1
    <3>0. e - 1 \in 1..(Len(b) - 1) /\ (e - 1) + 1 = e
      BY <1>1, <1>11, <2>1
    <3>1. b[e].at = 1 => b[e].of = b[e - 1].of + 1
      BY <3>0 DEF Stream!InOrder
    <3>2. b[e].at = 1
      BY <1>9, <1>11
    <3>3. QED
      BY <2>1, <3>1, <3>2
  <2>3. b[e] = [of |-> b[e].of, at |-> b[e].at]
    BY <1>1, <2>1, ByteType, ZenonT(30)
  <2>4. b[e].of = k + 1
    BY <1>9, <2>2 DEF FinalByte
  <2>5. k + 1 = last + (n + 1) + 1
    BY DEF k
  <2>6. QED
    BY <1>9, <1>11, <2>3, <2>4, <2>5
<1>12. last + (n + 1) = k
  BY DEF k
<1>13. ASSUME NEW j \in 1..(n + 1) PROVE Taken(b, last, cuts, j)
  <2>1. CASE j \in 1..n
    BY <2>1 DEF Found
  <2>2. CASE j = n + 1
    <3>1. j - 1 = n /\ last + j = k
      BY <2>2, <1>12
    <3>2. cuts[j] = e /\ cuts[j - 1] = c
      BY <1>7, <2>2, <3>1 DEF c
    <3>3. QED
      BY <1>7, <1>9, <1>10, <3>1, <3>2 DEF Taken
  <2>3. QED
    BY <2>1, <2>2
<1>14. n + 1 # 0
  OBVIOUS
<1>15. QED
  BY <1>7, <1>9, <1>10, <1>11, <1>12, <1>13, <1>14 DEF Found

\* What extractMessages takes out of b, which goes on after the last-th message.
Extracts(b, last, m, c) ==
  LET found == Stream!ExtractMessages(b)
  IN  /\ m \in Nat /\ c \in 1..(Len(b) + 1)
      /\ found.messages \in Seq(Seq(Stream!Bytes(Requests))) /\ Len(found.messages) = m
      /\ \A j \in 1..m :
           /\ last + j \in 1..Len(Requests)
           /\ found.messages[j] = Stream!Body(last + j, Requests[last + j])
           /\ \E i \in 1..Len(b) : b[i] = FinalByte(last + j)
      /\ found.rest = Stream!From(b, c) /\ ~Stream!Complete(Stream!From(b, c))
      /\ c <= Len(b) => b[c] = [of |-> last + m + 1, at |-> 1]
      /\ IF c = 1 THEN m = 0 ELSE b[c - 1] = FinalByte(last + m)

\* All the complete messages at the front of the buffer are taken out, whole and
\* in order, and nothing else.
LEMMA Extraction ==
  ASSUME Stream!LengthAssumption, NEW b \in Seq(Stream!Bytes(Requests)), Stream!Runs(Requests, b),
         NEW last \in Nat, Stream!InOrder(b, last)
  PROVE  \E m, c : Extracts(b, last, m, c)
<1> PICK cuts : Cuts(b, cuts)
  BY CutSteps
<1>1. /\ PrefixSize \in Nat \ {0} /\ Len(b) \in Nat /\ Requests \in Seq(Nat) /\ DOMAIN b = 1..Len(b)
  BY LenProperties DEF Stream!LengthAssumption
<1> DEFINE searched == {n \in Nat : n <= Len(b) => \E m : Searched(b, last, cuts, n, m)}
<1>2. 0 \in searched
  <2>1. cuts[0] = 1 /\ \A j \in 0..0 : j = 0
    BY DEF Cuts
  <2>2. 1 <= Len(b) => b[1] = [of |-> last + 0 + 1, at |-> 1]
    <3>1. SUFFICES ASSUME 1 <= Len(b) PROVE b[1] = [of |-> last + 0 + 1, at |-> 1]
      OBVIOUS
    <3>3. b # << >>
      BY <3>1, EmptySeq
    <3>4. last + 0 + 1 = last + 1
      OBVIOUS
    <3>5. QED
      BY <3>3, <3>4 DEF Stream!InOrder
  <2>3. Found(b, last, cuts, 0)
    BY <1>1, <2>1, <2>2 DEF Found
  <2>4. Searched(b, last, cuts, 0, 0)
    BY <2>1, <2>3 DEF Searched
  <2>5. QED
    BY <2>4
<1>3. ASSUME NEW n \in Nat, n \in searched PROVE n + 1 \in searched
  <2>1. SUFFICES ASSUME n + 1 <= Len(b) PROVE \E m : Searched(b, last, cuts, n + 1, m)
    OBVIOUS
  <2>2. PICK m : Searched(b, last, cuts, n, m)
    BY <1>1, <1>3, <2>1
  <2> HIDE DEF searched
  <2>3. m \in 0..n /\ Found(b, last, cuts, m) /\ (\A j \in m..n : cuts[j] = cuts[m]) /\ cuts[n] = cuts[m]
    BY <2>2 DEF Searched
  <2>4. cuts[n + 1] = Beyond(b, cuts[m])
    <3>1. n + 1 \in 1..Len(b) /\ (n + 1) - 1 = n
      BY <1>1, <2>1
    <3>2. QED
      BY <2>3, <3>1 DEF Cuts
  <2>5. CASE Stream!Complete(Stream!From(b, cuts[m]))
    <3>1. m = n
      BY <2>2, <2>3, <2>5 DEF Searched
    <3>2. Found(b, last, cuts, n + 1)
      BY <2>1, <2>3, <2>5, <3>1, FindNext
    <3>3. \A j \in (n + 1)..(n + 1) : j = n + 1
      OBVIOUS
    <3>4. Searched(b, last, cuts, n + 1, n + 1)
      BY <3>2, <3>3 DEF Searched
    <3>5. QED
      BY <3>4
  <2>6. CASE ~Stream!Complete(Stream!From(b, cuts[m]))
    <3>1. cuts[n + 1] = cuts[m]
      BY <2>4, <2>6 DEF Beyond
    <3>2. \A j \in m..(n + 1) : j \in m..n \/ j = n + 1
      BY <2>3
    <3>3. m \in 0..(n + 1)
      BY <2>3
    <3>4. Searched(b, last, cuts, n + 1, m)
      BY <2>3, <2>6, <3>1, <3>2, <3>3 DEF Searched
    <3>5. QED
      BY <3>4
  <2>7. QED
    BY <2>5, <2>6
<1>4. Len(b) \in searched
  <2> HIDE DEF searched
  <2>1. QED
    BY <1>1, <1>2, <1>3, NatInductive
<1>5. PICK m : Searched(b, last, cuts, Len(b), m)
  BY <1>1, <1>4
<1> HIDE DEF searched
<1>6. /\ m \in 0..Len(b) /\ Found(b, last, cuts, m) /\ \A j \in m..Len(b) : cuts[j] = cuts[m]
      /\ m < Len(b) => ~Stream!Complete(Stream!From(b, cuts[m]))
  BY <1>5 DEF Searched
<1> DEFINE c == cuts[m]
           found == Stream!ExtractMessages(b)
<1>7. /\ c \in (m + 1)..(Len(b) + 1) /\ cuts[Len(b)] = c
      /\ c <= Len(b) => b[c] = [of |-> last + m + 1, at |-> 1]
      /\ IF m = 0 THEN c = 1 ELSE b[c - 1] = FinalByte(last + m)
      /\ \A j \in 1..m : Taken(b, last, cuts, j)
  BY <1>1, <1>6 DEF Found
<1>8. {n \in 1..Len(b) : cuts[n] > cuts[n - 1]} = 1..m
  <2>1. ASSUME NEW n \in 1..Len(b), n > m PROVE ~(cuts[n] > cuts[n - 1])
    <3>1. n \in m..Len(b) /\ n - 1 \in m..Len(b)
      BY <1>1, <1>6, <2>1
    <3>2. cuts[n] = cuts[n - 1] /\ cuts[n] = c
      BY <1>6, <3>1
    <3>3. QED
      BY <1>1, <1>6, <1>7, <3>2
  <2>2. \A n \in 1..m : n \in 1..Len(b)
    BY <1>1, <1>6
  <2>3. ASSUME NEW n \in 1..m PROVE cuts[n] > cuts[n - 1]
    <3>1. n \in 0..Len(b) /\ n - 1 \in 0..Len(b)
      BY <1>1, <1>6
    <3>2. cuts[n] \in Nat /\ cuts[n - 1] \in Nat
      BY <3>1 DEF Cuts
    <3>3. QED
      BY <1>7, <3>2 DEF Taken
  <2>4. QED
    BY <1>6, <2>1, <2>2, <2>3
<1>9. /\ found.messages = [n \in 1..m |-> SubSeq(b, cuts[n - 1] + PrefixSize, cuts[n] - 1)]
      /\ found.rest = Stream!From(b, c)
  BY <1>7, <1>8 DEF Cuts
<1> HIDE DEF found, c
<1>10. \A j \in 1..m : found.messages[j] = Stream!Body(last + j, Requests[last + j])
  BY <1>7, <1>9 DEF Taken
<1>11. found.messages \in Seq(Seq(Stream!Bytes(Requests))) /\ Len(found.messages) = m
  <2>1. ASSUME NEW j \in 1..m PROVE found.messages[j] \in Seq(Stream!Bytes(Requests))
    <3>1. last + j \in 1..Len(Requests)
      BY <1>7 DEF Taken
    <3>2. Stream!Body(last + j, Requests[last + j]) \in Seq(Stream!Bytes(Requests))
      BY <1>1, <3>1, BodyShape
    <3>3. QED
      BY <1>10, <3>2
  <2>2. found.messages \in [1..m -> Seq(Stream!Bytes(Requests))]
    BY <1>9, <2>1
  <2>3. m \in Nat
    BY <1>1, <1>6
  <2>4. QED
    BY <2>2, <2>3
<1>12. ~Stream!Complete(Stream!From(b, c))
  <2>1. CASE m < Len(b)
    BY <1>6, <2>1 DEF c
  <2>2. CASE ~(m < Len(b))
    <3>1. c = Len(b) + 1
      BY <1>1, <1>6, <1>7, <2>2
    <3>2. c \in 1..(Len(b) + 1)
      BY <1>1, <3>1
    <3>3. Len(Stream!From(b, c)) = Len(b) - c + 1
      BY <3>2, FromPart
    <3>4. Len(Stream!From(b, c)) = 0
      BY <1>1, <3>1, <3>3
    <3>5. QED
      BY <1>1, <3>4 DEF Stream!Complete
  <2>3. QED
    BY <2>1, <2>2
<1>13. m \in Nat /\ c \in 1..(Len(b) + 1) /\ (IF c = 1 THEN m = 0 ELSE b[c - 1] = FinalByte(last + m))
  BY <1>1, <1>6, <1>7
<1>16. \A j \in 1..m : last + j \in 1..Len(Requests) /\ \E i \in 1..Len(b) : b[i] = FinalByte(last + j)
  BY <1>7 DEF Taken
<1>14. Extracts(b, last, m, c)
  BY <1>7, <1>16, <1>9, <1>10, <1>11, <1>12, <1>13 DEF Extracts, found
<1>15. QED
  BY <1>14

\* A part of a stream is a stream.
LEMMA RunsPart ==
  ASSUME NEW lengths \in Seq(Nat), NEW s \in Seq(Stream!Bytes(lengths)), Stream!Runs(lengths, s),
         NEW t \in Seq(Stream!Bytes(lengths)), NEW k \in Nat, k + Len(t) <= Len(s),
         \A i \in 1..Len(t) : t[i] = s[k + i]
  PROVE  Stream!Runs(lengths, t)
<1>1. Len(s) \in Nat /\ Len(t) \in Nat /\ DOMAIN s = 1..Len(s) /\ DOMAIN t = 1..Len(t)
  BY LenProperties
<1>2. ASSUME NEW i \in 1..Len(t)
      PROVE  /\ t[i].at <= PrefixSize + lengths[t[i].of]
             /\ i < Len(t) => IF Stream!Final(lengths, t[i]) THEN t[i + 1].at = 1
                              ELSE t[i + 1] = [of |-> t[i].of, at |-> t[i].at + 1]
  <2>1. k + i \in 1..Len(s) /\ t[i] = s[k + i]
    BY <1>1
  <2>2. i < Len(t) => k + i < Len(s) /\ t[i + 1] = s[k + i + 1]
    <3>1. SUFFICES ASSUME i < Len(t) PROVE k + i < Len(s) /\ t[i + 1] = s[k + i + 1]
      OBVIOUS
    <3>2. i + 1 \in 1..Len(t) /\ k + (i + 1) = k + i + 1 /\ k + i < Len(s)
      BY <1>1, <3>1
    <3>3. QED
      BY <3>2
  <2>3. /\ s[k + i].at <= PrefixSize + lengths[s[k + i].of]
        /\ k + i < Len(s) => IF Stream!Final(lengths, s[k + i]) THEN s[k + i + 1].at = 1
                             ELSE s[k + i + 1] = [of |-> s[k + i].of, at |-> s[k + i].at + 1]
    BY <1>1, <2>1 DEF Stream!Runs
  <2>4. QED
    BY <2>1, <2>2, <2>3
<1>3. QED
  BY <1>1, <1>2 DEF Stream!Runs

\* After a whole message another one may begin.
LEMMA RunsConcat ==
  ASSUME NEW lengths \in Seq(Nat), NEW s \in Seq(Stream!Bytes(lengths)), Stream!Runs(lengths, s),
         NEW t \in Seq(Stream!Bytes(lengths)), Stream!Runs(lengths, t),
         s # << >> /\ t # << >> => Stream!Final(lengths, s[Len(s)]) /\ t[1].at = 1
  PROVE  Stream!Runs(lengths, s \o t)
<1> DEFINE u == s \o t
<1>1. /\ Len(s) \in Nat /\ Len(t) \in Nat /\ DOMAIN s = 1..Len(s) /\ DOMAIN t = 1..Len(t)
      /\ u \in Seq(Stream!Bytes(lengths)) /\ Len(u) = Len(s) + Len(t)
      /\ \A i \in 1..(Len(s) + Len(t)) : u[i] = IF i <= Len(s) THEN s[i] ELSE t[i - Len(s)]
  BY LenProperties, ConcatProperties
<1>2. DOMAIN u = 1..Len(u)
  BY <1>1, LenProperties
<1> HIDE DEF u
<1>3. /\ \A i \in 1..Len(s) : i \in 1..Len(u) /\ u[i] = s[i]
      /\ \A i \in 1..Len(t) : Len(s) + i \in 1..Len(u) /\ u[Len(s) + i] = t[i]
  <2>1. \A i \in 1..Len(s) : i \in 1..(Len(s) + Len(t)) /\ i <= Len(s)
    BY <1>1
  <2>2. \A i \in 1..Len(t) : Len(s) + i \in 1..(Len(s) + Len(t)) /\ ~(Len(s) + i <= Len(s)) /\ (Len(s) + i) - Len(s) = i
    BY <1>1
  <2>3. QED
    BY <1>1, <2>1, <2>2
<1> DEFINE Good(x, i) == /\ x[i].at <= PrefixSize + lengths[x[i].of]
                         /\ i < Len(x) => IF Stream!Final(lengths, x[i]) THEN x[i + 1].at = 1
                              ELSE x[i + 1] = [of |-> x[i].of, at |-> x[i].at + 1]
<1>4. (\A i \in 1..Len(s) : Good(s, i)) /\ (\A i \in 1..Len(t) : Good(t, i))
  BY <1>1 DEF Stream!Runs
<1>5. ASSUME NEW i \in 1..Len(s) PROVE Good(u, i)
  <2>1. i \in Nat /\ u[i] = s[i] /\ Good(s, i)
    BY <1>1, <1>3, <1>4
  <2>2. CASE i < Len(s)
    <3>1. i + 1 \in 1..Len(s)
      BY <1>1, <2>2
    <3>2. u[i + 1] = s[i + 1]
      BY <1>3, <3>1
    <3>3. QED
      BY <2>1, <2>2, <3>2
  <2>3. CASE ~(i < Len(s))
    <3>1. i = Len(s)
      BY <1>1, <2>3
    <3>2. SUFFICES ASSUME i < Len(u) PROVE Stream!Final(lengths, u[i]) /\ u[i + 1].at = 1
      BY <2>1
    <3>3. 1 \in 1..Len(t)
      BY <1>1, <3>1, <3>2
    <3>4. u[i + 1] = t[1]
      BY <1>3, <3>1, <3>3
    <3>5. s # << >> /\ t # << >>
      BY <1>1, <3>3, EmptySeq
    <3>6. QED
      BY <2>1, <3>1, <3>4, <3>5
  <2>4. QED
    BY <2>2, <2>3
<1>6. ASSUME NEW i \in 1..Len(t) PROVE Good(u, Len(s) + i)
  <2>1. i \in Nat /\ u[Len(s) + i] = t[i] /\ Good(t, i)
    BY <1>1, <1>3, <1>4
  <2>2. ASSUME Len(s) + i < Len(u) PROVE i < Len(t) /\ u[Len(s) + i + 1] = t[i + 1]
    <3>1. i + 1 \in 1..Len(t) /\ i < Len(t) /\ Len(s) + (i + 1) = Len(s) + i + 1
      BY <1>1, <2>2
    <3>2. QED
      BY <1>3, <3>1
  <2>3. QED
    BY <2>1, <2>2
<1>7. ASSUME NEW i \in 1..Len(u) PROVE Good(u, i)
  <2>1. CASE i \in 1..Len(s)
    BY <1>5, <2>1
  <2>2. CASE i \notin 1..Len(s)
    <3>1. i - Len(s) \in 1..Len(t) /\ Len(s) + (i - Len(s)) = i
      BY <1>1, <2>2
    <3>2. QED
      BY <1>6, <3>1
  <2>3. QED
    BY <2>1, <2>2
<1>8. QED
  BY <1>2, <1>7 DEF Stream!Runs, u

\* The first bytes of a message.
Opens(lengths, m, r) ==
  /\ m \in Seq(Stream!Bytes(lengths)) /\ Len(m) \in 1..(PrefixSize + lengths[r])
  /\ \A i \in 1..Len(m) : m[i] = [of |-> r, at |-> i]

\* The bytes of one message follow each other.
LEMMA RunsOpen ==
  ASSUME Stream!LengthAssumption, NEW lengths \in Seq(Nat), NEW r \in 1..Len(lengths), NEW m, Opens(lengths, m, r)
  PROVE  Stream!Runs(lengths, m)
<1>1. /\ Len(m) \in Nat /\ DOMAIN m = 1..Len(m) /\ lengths[r] \in Nat /\ PrefixSize \in Nat
      /\ Len(m) <= PrefixSize + lengths[r]
  BY LenProperties, ElementOfSeq DEF Opens, Stream!LengthAssumption
<1>2. ASSUME NEW i \in 1..Len(m)
      PROVE  /\ m[i].at <= PrefixSize + lengths[m[i].of]
             /\ i < Len(m) => IF Stream!Final(lengths, m[i]) THEN m[i + 1].at = 1
                              ELSE m[i + 1] = [of |-> m[i].of, at |-> m[i].at + 1]
  <2>1. m[i] = [of |-> r, at |-> i] /\ m[i].of = r /\ m[i].at = i
    BY DEF Opens
  <2>2. i \in Nat /\ i <= PrefixSize + lengths[r]
    BY <1>1
  <2>3. ASSUME i < Len(m) PROVE ~Stream!Final(lengths, m[i]) /\ m[i + 1] = [of |-> r, at |-> i + 1]
    <3>1. i + 1 \in 1..Len(m) /\ i # PrefixSize + lengths[r]
      BY <1>1, <2>3, SMTT(30)
    <3>2. QED
      BY <2>1, <3>1 DEF Opens, Stream!Final
  <2>4. QED
    BY <2>1, <2>2, <2>3
<1>3. QED
  BY <1>1, <1>2 DEF Stream!Runs

\* A message, and every part of it from its first byte on, is such bytes.
LEMMA MessageOpens ==
  ASSUME Stream!LengthAssumption, NEW lengths \in Seq(Nat), NEW r \in 1..Len(lengths),
         NEW n \in 1..(PrefixSize + lengths[r])
  PROVE  /\ Opens(lengths, SubSeq(Stream!Message(r, lengths[r]), 1, n), r)
         /\ Len(SubSeq(Stream!Message(r, lengths[r]), 1, n)) = n
         /\ SubSeq(Stream!Message(r, lengths[r]), 1, PrefixSize + lengths[r]) = Stream!Message(r, lengths[r])
<1> DEFINE M == Stream!Message(r, lengths[r])
           l == PrefixSize + lengths[r]
<1>1. M \in Seq(Stream!Bytes(lengths)) /\ Len(M) = l /\ \A i \in 1..l : M[i] = [of |-> r, at |-> i]
  BY MessageShape
<1>2. l \in Nat /\ n \in 0..l
  BY ElementOfSeq DEF Stream!LengthAssumption
<1> HIDE DEF M, l
<1>3. /\ SubSeq(M, 1, n) \in Seq(Stream!Bytes(lengths)) /\ Len(SubSeq(M, 1, n)) = n
      /\ \A i \in 1..n : SubSeq(M, 1, n)[i] = M[i]
  BY <1>1, <1>2, FirstPart
<1>4. n \in 1..l
  BY DEF l
<1>5. \A i \in 1..n : i \in 1..l
  BY <1>2, <1>4
<1>6. SubSeq(M, 1, l) = M
  BY <1>1, SubSeqFull
<1>7. QED
  BY <1>1, <1>3, <1>4, <1>5, <1>6 DEF Opens, M, l

\* Two sequences, one after the other.
LEMMA ConcatShape ==
  ASSUME NEW S, NEW s \in Seq(S), NEW t \in Seq(S)
  PROVE  /\ s \o t \in Seq(S) /\ Len(s) \in Nat /\ Len(t) \in Nat /\ Len(s \o t) = Len(s) + Len(t)
         /\ \A i \in 1..Len(s) : i \in 1..(Len(s) + Len(t)) /\ (s \o t)[i] = s[i]
         /\ \A i \in 1..Len(t) : Len(s) + i \in 1..(Len(s) + Len(t)) /\ (s \o t)[Len(s) + i] = t[i]
         /\ \A i \in 1..(Len(s) + Len(t)) : i \in 1..Len(s) \/ (i - Len(s) \in 1..Len(t) /\ i = Len(s) + (i - Len(s)))
<1> DEFINE u == s \o t
<1>1. /\ Len(s) \in Nat /\ Len(t) \in Nat /\ u \in Seq(S) /\ Len(u) = Len(s) + Len(t)
      /\ \A i \in 1..(Len(s) + Len(t)) : u[i] = IF i <= Len(s) THEN s[i] ELSE t[i - Len(s)]
  BY LenProperties, ConcatProperties
<1> HIDE DEF u
<1>2. \A i \in 1..Len(s) : i \in 1..(Len(s) + Len(t)) /\ i <= Len(s)
  BY <1>1
<1>3. \A i \in 1..Len(t) : Len(s) + i \in 1..(Len(s) + Len(t)) /\ ~(Len(s) + i <= Len(s)) /\ (Len(s) + i) - Len(s) = i
  BY <1>1
<1>4. \A i \in 1..(Len(s) + Len(t)) : i \in 1..Len(s) \/ (i - Len(s) \in 1..Len(t) /\ i = Len(s) + (i - Len(s)))
  BY <1>1
<1>5. QED
  BY <1>1, <1>2, <1>3, <1>4 DEF u

\* A message that is sent, or a part of it, goes on after what has come.
LEMMA QueuedConcat ==
  ASSUME Stream!LengthAssumption, NEW A \in Seq(Stream!Bytes(Requests)), NEW last \in Nat, NEW n \in Nat,
         Stream!Queued(A, last, n), Stream!Reaches(A, last, n),
         NEW m, NEW r \in 1..Len(Requests), r = n + 1, Opens(Requests, m, r), NEW k \in {n, r},
         k = n => Len(m) # PrefixSize + Requests[r]
  PROVE  Stream!Queued(A \o m, last, k)
<1> DEFINE B == A \o m
<1>1. PrefixSize \in Nat \ {0} /\ Requests \in Seq(Nat) /\ Requests[r] \in Nat
  BY ElementOfSeq DEF Stream!LengthAssumption
<1>2. /\ m \in Seq(Stream!Bytes(Requests)) /\ Len(m) \in 1..(PrefixSize + Requests[r]) /\ 1 \in 1..Len(m)
      /\ \A i \in 1..Len(m) : m[i] = [of |-> r, at |-> i]
  <2>1. /\ m \in Seq(Stream!Bytes(Requests)) /\ Len(m) \in 1..(PrefixSize + Requests[r])
        /\ \A i \in 1..Len(m) : m[i] = [of |-> r, at |-> i]
    BY DEF Opens
  <2>2. QED
    BY <1>1, <2>1
<1>3. ASSUME NEW i \in 1..Len(m) PROVE m[i].of = r /\ m[i].at = i
  <2>1. m[i] = [of |-> r, at |-> i]
    BY <1>2
  <2>2. QED
    BY <2>1
<1>4. /\ B \in Seq(Stream!Bytes(Requests)) /\ Len(A) \in Nat /\ Len(m) \in Nat /\ Len(B) = Len(A) + Len(m)
      /\ \A i \in 1..Len(A) : i \in 1..(Len(A) + Len(m)) /\ B[i] = A[i]
      /\ \A i \in 1..Len(m) : Len(A) + i \in 1..(Len(A) + Len(m)) /\ B[Len(A) + i] = m[i]
      /\ \A i \in 1..(Len(A) + Len(m)) : i \in 1..Len(A) \/ (i - Len(A) \in 1..Len(m) /\ i = Len(A) + (i - Len(A)))
  BY <1>2, ConcatShape
<1>5. DOMAIN A = 1..Len(A) /\ DOMAIN B = 1..Len(B)
  BY <1>4, LenProperties
<1>6. /\ Stream!Runs(Requests, A) /\ Stream!InOrder(A, last)
      /\ \A i \in 1..Len(A) : A[i].of <= n \/ (A[i].of = r /\ ~Stream!Final(Requests, A[i]))
      /\ A = << >> => last = n
      /\ A # << >> => A[Len(A)].of = n /\ Stream!Final(Requests, A[Len(A)])
  BY <1>5 DEF Stream!Queued, Stream!Reaches
<1>7. Stream!Runs(Requests, B)
  <2>1. Stream!Runs(Requests, m)
    BY <1>1, RunsOpen
  <2>2. QED
    BY <1>1, <1>2, <1>3, <1>6, <2>1, RunsConcat
<1> HIDE DEF B
<1>8. B # << >> => B[1] = [of |-> last + 1, at |-> 1]
  <2>1. CASE A = << >>
    <3>1. Len(A) = 0 /\ 0 + 1 = 1
      BY <2>1, EmptySeq
    <3>2. B[1] = m[1]
      BY <1>2, <1>4, <3>1
    <3>3. QED
      BY <1>2, <1>6, <2>1, <3>2
  <2>2. CASE A # << >>
    <3>1. Len(A) # 0
      BY <2>2, EmptySeq
    <3>2. 1 \in 1..Len(A)
      BY <1>4, <3>1
    <3>3. A[1] = [of |-> last + 1, at |-> 1]
      BY <1>6, <2>2 DEF Stream!InOrder
    <3>4. QED
      BY <1>4, <3>2, <3>3
  <2>3. QED
    BY <2>1, <2>2
<1>9. ASSUME NEW i \in 1..(Len(B) - 1), B[i + 1].at = 1 PROVE B[i + 1].of = B[i].of + 1
  <2>0. i \in Nat /\ i \in 1..(Len(A) + Len(m)) /\ i + 1 \in 1..(Len(A) + Len(m))
    BY <1>4
  <2>1. CASE i < Len(A)
    <3>1. i \in 1..Len(A) /\ i + 1 \in 1..Len(A) /\ i \in 1..(Len(A) - 1)
      BY <1>4, <2>0, <2>1, SMTT(30)
    <3>2. B[i + 1] = A[i + 1] /\ B[i] = A[i]
      BY <1>4, <3>1
    <3>3. \A j \in 1..(Len(A) - 1) : A[j + 1].at = 1 => A[j + 1].of = A[j].of + 1
      BY <1>6 DEF Stream!InOrder
    <3>4. QED
      BY <1>9, <3>1, <3>2, <3>3
  <2>2. CASE i = Len(A)
    <3>1. Len(A) # 0 /\ i \in 1..Len(A)
      BY <1>4, <2>0, <2>2
    <3>2. A # << >>
      BY <3>1, EmptySeq
    <3>3. B[i + 1] = m[1] /\ B[i] = A[i] /\ A[i].of = n
      BY <1>2, <1>4, <1>6, <2>2, <3>1, <3>2
    <3>4. QED
      BY <1>2, <1>3, <3>3
  <2>3. CASE i > Len(A)
    <3>1. (i + 1) - Len(A) \in 1..Len(m) /\ i + 1 = Len(A) + ((i + 1) - Len(A)) /\ (i + 1) - Len(A) # 1
      BY <1>4, <2>0, <2>3, SMTT(30)
    <3>2. B[i + 1] = m[(i + 1) - Len(A)]
      BY <1>4, <3>1
    <3>3. FALSE
      BY <1>3, <1>9, <3>1, <3>2
    <3>4. QED
      BY <3>3
  <2>4. QED
    BY <1>4, <2>0, <2>1, <2>2, <2>3
<1>10. ASSUME NEW i \in 1..Len(B) PROVE B[i].of <= k \/ (B[i].of = k + 1 /\ ~Stream!Final(Requests, B[i]))
  <2>1. CASE i \in 1..Len(A)
    <3>1. B[i] = A[i]
      BY <1>4, <2>1
    <3>2. A[i].of \in 1..Len(Requests)
      BY <1>1, <2>1, ByteType
    <3>3. A[i].of <= n \/ (A[i].of = r /\ ~Stream!Final(Requests, A[i]))
      BY <1>6, <2>1
    <3>7. A[i].of \in Nat
      <4>1. Len(Requests) \in Nat
        BY <1>1, LenProperties
      <4>2. \A n1 \in Nat : \A x \in 1..n1 : x \in Nat
        OBVIOUS
      <4>3. QED
        BY <3>2, <4>1, <4>2
    <3>4. CASE A[i].of <= n
      <4>1. \A x \in Nat : x <= n => x <= k
        BY SMTT(30)
      <4>2. QED
        BY <3>1, <3>4, <3>7, <4>1
    <3>5. CASE A[i].of = r /\ ~Stream!Final(Requests, A[i])
      BY <3>1, <3>5
    <3>6. QED
      BY <3>3, <3>4, <3>5
  <2>2. CASE i \notin 1..Len(A)
    <3>1. i - Len(A) \in 1..Len(m) /\ i = Len(A) + (i - Len(A))
      BY <1>4, <2>2
    <3>2. B[i] = m[i - Len(A)]
      BY <1>4, <3>1
    <3>3. B[i].of = r /\ B[i].at = i - Len(A)
      BY <1>3, <3>1, <3>2
    <3>4. CASE k = r
      BY <3>3, <3>4
    <3>5. CASE k = n
      <4>1. i - Len(A) # PrefixSize + Requests[r]
        <5>1. Len(m) \in 1..(PrefixSize + Requests[r]) /\ Len(m) # PrefixSize + Requests[r]
          BY <1>2, <3>5
        <5>2. \A l \in Nat : Len(m) \in 1..l /\ Len(m) # l => i - Len(A) # l
          BY <3>1
        <5>3. PrefixSize + Requests[r] \in Nat
          <6>1. QED
            BY <1>1, Sums
        <5>4. QED
          BY <5>1, <5>2, <5>3
      <4>2. ~Stream!Final(Requests, B[i])
        BY <3>3, <4>1 DEF Stream!Final
      <4>3. QED
        BY <3>3, <3>5, <4>2
    <3>6. QED
      BY <3>4, <3>5
  <2>3. QED
    BY <2>1, <2>2
<1>11. Stream!InOrder(B, last)
  BY <1>8, <1>9 DEF Stream!InOrder
<1>12. Stream!Queued(B, last, k)
  BY <1>5, <1>7, <1>10, <1>11 DEF Stream!Queued
<1>13. QED
  BY <1>12 DEF B

\* A whole message that is sent is what the stream ends with.
LEMMA ReachesConcat ==
  ASSUME Stream!LengthAssumption, NEW A \in Seq(Stream!Bytes(Requests)), NEW last \in Nat,
         NEW m, NEW r \in 1..Len(Requests), Opens(Requests, m, r), Len(m) >= PrefixSize + Requests[r]
  PROVE  Stream!Reaches(A \o m, last, r)
<1> DEFINE B == A \o m
<1>1. PrefixSize \in Nat \ {0} /\ Requests \in Seq(Nat) /\ Requests[r] \in Nat
  BY ElementOfSeq DEF Stream!LengthAssumption
<1>2. /\ m \in Seq(Stream!Bytes(Requests)) /\ \A i \in 1..Len(m) : m[i] = [of |-> r, at |-> i]
  BY DEF Opens
<1>3. Len(m) \in 1..Len(m)
  BY <1>1 DEF Opens
<1>4. /\ B \in Seq(Stream!Bytes(Requests)) /\ Len(A) \in Nat /\ Len(m) \in Nat /\ Len(B) = Len(A) + Len(m)
      /\ B[Len(A) + Len(m)] = m[Len(m)]
  <2>1. /\ B \in Seq(Stream!Bytes(Requests)) /\ Len(A) \in Nat /\ Len(m) \in Nat /\ Len(B) = Len(A) + Len(m)
        /\ \A i \in 1..Len(m) : Len(A) + i \in 1..(Len(A) + Len(m)) /\ B[Len(A) + i] = m[i]
    <3>1. m \in Seq(Stream!Bytes(Requests))
      BY <1>2
    <3>2. QED
      BY <3>1, ConcatShape
  <2> HIDE DEF B
  <2>2. QED
    BY <1>3, <2>1
<1> HIDE DEF B
<1>5. B[Len(B)].of = r /\ B[Len(B)].at = PrefixSize + Requests[r]
  <2>1. B[Len(B)] = [of |-> r, at |-> Len(m)]
    BY <1>2, <1>3, <1>4
  <2>3. Len(m) = PrefixSize + Requests[r]
    BY <1>1, SMTT(30) DEF Opens
  <2>2. QED
    BY <2>1, <2>3
<1>6. B # << >>
  <2>1. Len(B) # 0
    BY <1>3, <1>4
  <2>2. QED
    BY <2>1, EmptySeq
<1>7. QED
  BY <1>5, <1>6 DEF Stream!Reaches, Stream!Final, B

\* m messages that begin what has come end where c is.
After(A, last, m, c) ==
  /\ c <= Len(A) => A[c] = [of |-> last + m + 1, at |-> 1]
  /\ IF c = 1 THEN m = 0 ELSE A[c - 1] = FinalByte(last + m)

\* What is left of the stream is what was sent after those messages.
LEMMA QueuedRest ==
  ASSUME Stream!LengthAssumption, NEW A \in Seq(Stream!Bytes(Requests)), NEW last \in Nat, NEW n \in Nat,
         Stream!Queued(A, last, n), NEW m \in Nat, NEW c \in 1..(Len(A) + 1), After(A, last, m, c)
  PROVE  /\ Stream!Queued(Stream!From(A, c), last + m, n)
         /\ Stream!Reaches(A, last, n) => Stream!Reaches(Stream!From(A, c), last + m, n)
<1> DEFINE R == Stream!From(A, c)
<1>1. /\ R \in Seq(Stream!Bytes(Requests)) /\ Len(R) = Len(A) - c + 1
      /\ \A i \in 1..(Len(A) - c + 1) : R[i] = A[c + i - 1]
  BY FromPart
<1>2. Len(A) \in Nat /\ DOMAIN A = 1..Len(A) /\ DOMAIN R = 1..Len(R) /\ Requests \in Seq(Nat) /\ Len(R) \in Nat
  BY <1>1, LenProperties DEF Stream!LengthAssumption
<1> HIDE DEF R
<1>3. ASSUME NEW i \in 1..Len(R) PROVE (c - 1) + i \in 1..Len(A) /\ R[i] = A[(c - 1) + i]
  <2>1. (c - 1) + i \in 1..Len(A) /\ i \in 1..(Len(A) - c + 1) /\ c + i - 1 = (c - 1) + i
    BY <1>1, <1>2, SMTT(30)
  <2>2. QED
    BY <1>1, <2>1
<1>4. c - 1 \in Nat /\ (c - 1) + Len(R) = Len(A)
  BY <1>1, <1>2, SMTT(30)
<1>5. /\ Stream!Runs(Requests, A) /\ Stream!InOrder(A, last)
      /\ \A i \in 1..Len(A) : A[i].of <= n \/ (A[i].of = n + 1 /\ ~Stream!Final(Requests, A[i]))
  BY <1>2 DEF Stream!Queued
<1>6. Stream!Runs(Requests, R)
  <2>1. (c - 1) + Len(R) <= Len(A)
    BY <1>2, <1>4
  <2>2. QED
    BY <1>1, <1>2, <1>3, <1>4, <1>5, <2>1, RunsPart
<1>7. R # << >> => R[1] = [of |-> last + m + 1, at |-> 1]
  <2>1. SUFFICES ASSUME R # << >> PROVE R[1] = [of |-> last + m + 1, at |-> 1]
    OBVIOUS
  <2>2. Len(R) # 0
    BY <1>1, <2>1, EmptySeq
  <2>3. 1 \in 1..Len(R) /\ c <= Len(A) /\ (c - 1) + 1 = c
    BY <1>2, <1>4, <2>2
  <2>4. R[1] = A[c]
    BY <1>3, <2>3
  <2>5. QED
    BY <2>3, <2>4 DEF After
<1>8. ASSUME NEW i \in 1..(Len(R) - 1), R[i + 1].at = 1 PROVE R[i + 1].of = R[i].of + 1
  <2>1. /\ i \in 1..Len(R) /\ i + 1 \in 1..Len(R)
        /\ (c - 1) + i \in 1..(Len(A) - 1) /\ (c - 1) + (i + 1) = ((c - 1) + i) + 1
    <3> DEFINE k == c - 1
               d == Len(R)
    <3>1. k \in Nat /\ d \in Nat /\ i \in 1..(d - 1) /\ k + d = Len(A)
      BY <1>2, <1>4
    <3> HIDE DEF k, d
    <3>2. /\ i \in 1..d /\ i + 1 \in 1..d
          /\ k + i \in 1..((k + d) - 1) /\ k + (i + 1) = (k + i) + 1
      BY <3>1, Neighbours
    <3>3. QED
      BY <3>1, <3>2 DEF k, d
  <2>2. R[i] = A[(c - 1) + i] /\ R[i + 1] = A[((c - 1) + i) + 1]
    BY <1>3, <2>1
  <2>3. \A j \in 1..(Len(A) - 1) : A[j + 1].at = 1 => A[j + 1].of = A[j].of + 1
    BY <1>5 DEF Stream!InOrder
  <2>4. QED
    BY <1>8, <2>1, <2>2, <2>3
<1>9. Stream!InOrder(R, last + m)
  BY <1>7, <1>8 DEF Stream!InOrder
<1>10. \A i \in 1..Len(R) : R[i].of <= n \/ (R[i].of = n + 1 /\ ~Stream!Final(Requests, R[i]))
  BY <1>3, <1>5
<1>11. Stream!Queued(R, last + m, n)
  BY <1>2, <1>6, <1>9, <1>10 DEF Stream!Queued
<1>12. ASSUME Stream!Reaches(A, last, n) PROVE Stream!Reaches(R, last + m, n)
  <2>1. CASE R = << >>
    <3>1. Len(R) = 0
      BY <2>1, EmptySeq
    <3>2. c - 1 = Len(A)
      BY <1>2, <1>4, <3>1
    <3>3. CASE c = 1
      <4>1. Len(A) = 0 /\ m = 0
        BY <1>2, <3>2, <3>3 DEF After
      <4>2. A = << >>
        BY <4>1, EmptySeq
      <4>3. last = n /\ last + m = n
        BY <1>12, <4>1, <4>2 DEF Stream!Reaches
      <4>4. QED
        BY <2>1, <4>3 DEF Stream!Reaches
    <3>4. CASE c # 1
      <4>1. A[Len(A)] = FinalByte(last + m) /\ Len(A) # 0
        BY <1>2, <3>2, <3>4 DEF After
      <4>2. A # << >>
        BY <4>1, EmptySeq
      <4>3. A[Len(A)].of = n
        BY <1>12, <4>2 DEF Stream!Reaches
      <4>4. last + m = n
        BY <4>1, <4>3 DEF FinalByte
      <4>5. QED
        BY <2>1, <4>4 DEF Stream!Reaches
    <3>5. QED
      BY <3>3, <3>4
  <2>2. CASE R # << >>
    <3>1. Len(R) # 0
      BY <1>1, <2>2, EmptySeq
    <3>2. Len(R) \in 1..Len(R) /\ Len(A) # 0
      BY <1>2, <1>4, <3>1
    <3>3. R[Len(R)] = A[Len(A)]
      BY <1>3, <1>4, <3>2
    <3>4. A # << >>
      BY <3>2, EmptySeq
    <3>5. QED
      BY <1>12, <2>2, <3>3, <3>4 DEF Stream!Reaches
  <2>3. QED
    BY <2>1, <2>2
<1>13. QED
  BY <1>11, <1>12 DEF R

\* Parts of the stream are what was sent, too.
LEMMA QueuedFront ==
  ASSUME Stream!LengthAssumption, NEW A \in Seq(Stream!Bytes(Requests)), NEW last \in Nat, NEW n \in Nat,
         Stream!Queued(A, last, n), NEW b \in Seq(Stream!Bytes(Requests)), Len(b) <= Len(A),
         \A i \in 1..Len(b) : b[i] = A[i]
  PROVE  /\ Stream!Runs(Requests, b) /\ Stream!InOrder(b, last)
         /\ \A k : \A i \in 1..Len(b) : b[i] = FinalByte(k) => k <= n
<1>1. Len(A) \in Nat /\ Len(b) \in Nat /\ DOMAIN A = 1..Len(A) /\ DOMAIN b = 1..Len(b) /\ Requests \in Seq(Nat)
  BY LenProperties DEF Stream!LengthAssumption
<1>2. /\ Stream!Runs(Requests, A) /\ Stream!InOrder(A, last)
      /\ \A i \in 1..Len(A) : A[i].of <= n \/ (A[i].of = n + 1 /\ ~Stream!Final(Requests, A[i]))
  BY <1>1 DEF Stream!Queued
<1>3. \A i \in 1..Len(b) : b[i] = A[0 + i] /\ i \in 1..Len(A)
  BY <1>1
<1>4. Stream!Runs(Requests, b)
  <2>1. 0 \in Nat /\ 0 + Len(b) <= Len(A)
    BY <1>1
  <2>2. QED
    BY <1>1, <1>2, <1>3, <2>1, RunsPart
<1>5. b # << >> => b[1] = [of |-> last + 1, at |-> 1]
  <2>1. SUFFICES ASSUME b # << >> PROVE b[1] = [of |-> last + 1, at |-> 1]
    OBVIOUS
  <2>2. Len(b) # 0
    BY <2>1, EmptySeq
  <2>3. 1 \in 1..Len(b) /\ Len(A) # 0
    BY <1>1, <2>2
  <2>4. A # << >>
    BY <2>3, EmptySeq
  <2>5. A[1] = [of |-> last + 1, at |-> 1]
    BY <1>2, <2>4 DEF Stream!InOrder
  <2>6. QED
    BY <2>3, <2>5
<1>6. ASSUME NEW i \in 1..(Len(b) - 1), b[i + 1].at = 1 PROVE b[i + 1].of = b[i].of + 1
  <2>1. i \in 1..Len(b) /\ i + 1 \in 1..Len(b) /\ i \in 1..(Len(A) - 1)
    BY <1>1
  <2>2. \A j \in 1..(Len(A) - 1) : A[j + 1].at = 1 => A[j + 1].of = A[j].of + 1
    BY <1>2 DEF Stream!InOrder
  <2>3. b[i] = A[i] /\ b[i + 1] = A[i + 1]
    BY <2>1
  <2>4. QED
    BY <1>6, <2>1, <2>2, <2>3
<1>7. ASSUME NEW k, NEW i \in 1..Len(b), b[i] = FinalByte(k) PROVE k <= n
  <2>1. A[i].of = k /\ A[i].at = PrefixSize + Requests[k]
    BY <1>7 DEF FinalByte
  <2>2. Stream!Final(Requests, A[i]) /\ i \in 1..Len(A)
    BY <1>3, <2>1 DEF Stream!Final
  <2>3. QED
    BY <1>2, <2>1, <2>2
<1>8. QED
  BY <1>4, <1>5, <1>6, <1>7 DEF Stream!InOrder

\* The types of what the server reads.
LEMMA UpType ==
  ASSUME Stream!LengthAssumption, Stream!TypeOK
  PROVE  /\ PrefixSize \in Nat \ {0} /\ Requests \in Seq(Nat) /\ Len(Requests) \in Nat
         /\ buffer \in Seq(Stream!Bytes(Requests)) /\ up \in Seq(Stream!Bytes(Requests))
         /\ Len(buffer) \in Nat /\ Len(up) \in Nat /\ buffer \o up \in Seq(Stream!Bytes(Requests))
         /\ asked \in 0..Len(Requests) /\ asked \in Nat
         /\ extracted \in Seq(Seq(Stream!Bytes(Requests))) /\ Len(extracted) \in Nat
         /\ DOMAIN extracted = 1..Len(extracted)
         /\ client \in [connected : BOOLEAN, fd : BOOLEAN, closed : BOOLEAN]
<1>1. /\ PrefixSize \in Nat \ {0} /\ Requests \in Seq(Nat)
      /\ buffer \in Seq(Stream!Bytes(Requests)) /\ up \in Seq(Stream!Bytes(Requests))
      /\ extracted \in Seq(Seq(Stream!Bytes(Requests))) /\ asked \in 0..Len(Requests)
      /\ client \in [connected : BOOLEAN, fd : BOOLEAN, closed : BOOLEAN]
  BY DEF Stream!LengthAssumption, Stream!TypeOK
<1>2. /\ Len(Requests) \in Nat /\ Len(buffer) \in Nat /\ Len(up) \in Nat
      /\ Len(extracted) \in Nat /\ DOMAIN extracted = 1..Len(extracted)
  BY <1>1, LenProperties
<1>3. buffer \o up \in Seq(Stream!Bytes(Requests))
  BY <1>1, ConcatProperties
<1>4. QED
  BY <1>1, <1>2, <1>3

\* Nothing is sent, and nothing read.
LEMMA UpSame ==
  ASSUME Stream!UpStream, UNCHANGED <<asked, buffer, up, extracted>>,
         client'.connected /\ server' => client.connected /\ server
  PROVE  Stream!UpStream'
BY DEF Stream!UpStream

\* What is sent comes behind what is on its way.
LEMMA ConcatTwice ==
  ASSUME NEW a \in Seq(Stream!Bytes(Requests)), NEW b \in Seq(Stream!Bytes(Requests)),
         NEW c \in Seq(Stream!Bytes(Requests))
  PROVE  a \o (b \o c) = (a \o b) \o c
BY ConcatAssociative, SMTT(30)

\* The next message of a client, or the part of it that a client that dies has
\* sent, comes after the others.
LEMMA UpArrives ==
  ASSUME Stream!LengthAssumption, Stream!TypeOK, Stream!UpStream, client.connected, server,
         NEW r \in 1..Len(Requests), r = asked + 1, NEW m, Opens(Requests, m, r),
         buffer' = buffer, extracted' = extracted, up' = up \o m, asked' \in {asked, r},
         asked' = asked => Len(m) # PrefixSize + Requests[r] /\ ~client'.connected,
         asked' = r => Len(m) >= PrefixSize + Requests[r]
  PROVE  Stream!UpStream'
<1> DEFINE A == buffer \o up
           last == Len(extracted)
<1>1. /\ A \in Seq(Stream!Bytes(Requests)) /\ last \in Nat /\ asked \in Nat
      /\ buffer \in Seq(Stream!Bytes(Requests)) /\ up \in Seq(Stream!Bytes(Requests))
  BY UpType
<1>2. Stream!Queued(A, last, asked) /\ Stream!Reaches(A, last, asked)
  BY DEF Stream!UpStream
<1>3. m \in Seq(Stream!Bytes(Requests))
  BY DEF Opens
<1>4. (buffer \o up)' = A \o m
  <2>1. buffer \o (up \o m) = (buffer \o up) \o m
    BY <1>1, <1>3, ConcatTwice, ZenonT(30)
  <2>2. (buffer \o up)' = buffer \o (up \o m)
    OBVIOUS
  <2>3. QED
    BY <2>1, <2>2
<1> HIDE DEF A, last
<1>5. Stream!Queued(A \o m, last, asked')
  BY <1>1, <1>2, QueuedConcat
<1>6. client'.connected => Stream!Reaches(A \o m, last, asked')
  <2>1. asked' = r => Stream!Reaches(A \o m, last, asked')
    BY <1>1, ReachesConcat
  <2>2. QED
    BY <2>1
<1>7. Len(extracted) <= asked'
  <2>1. Len(extracted) <= asked
    BY DEF Stream!UpStream
  <2>2. asked' = asked \/ asked' = asked + 1
    OBVIOUS
  <2>3. QED
    BY <1>1, <2>1, <2>2, SMTT(30) DEF last
<1>8. /\ Stream!Queued(buffer \o up, Len(extracted), asked)'
      /\ client'.connected => Stream!Reaches(buffer \o up, Len(extracted), asked)'
  BY <1>4, <1>5, <1>6 DEF last
<1>9. QED
  BY <1>7, <1>8 DEF Stream!UpStream

\* TcpConnection::send() puts the next request behind the others.
LEMMA UpSend ==
  ASSUME Stream!LengthAssumption, Stream!TypeOK, Stream!UpStream, Stream!Send
  PROVE  Stream!UpStream'
<1> DEFINE r == asked + 1
           m == Stream!Message(r, Requests[r])
<1>1. /\ client.connected /\ asked < Len(Requests) /\ asked' = r /\ UNCHANGED <<buffer, extracted, server>>
      /\ up' = (IF server THEN up \o m ELSE up)
  BY DEF Stream!Send
<1>2. /\ PrefixSize \in Nat \ {0} /\ Requests \in Seq(Nat) /\ Len(Requests) \in Nat
      /\ asked \in Nat /\ Len(extracted) \in Nat
      /\ client \in [connected : BOOLEAN, fd : BOOLEAN, closed : BOOLEAN]
  BY UpType
<1>3. r \in 1..Len(Requests)
  BY <1>1, <1>2, SMTT(30)
<1>4. CASE server
  <2>1. PrefixSize + Requests[r] \in 1..(PrefixSize + Requests[r])
    <3>1. Requests[r] \in Nat
      BY <1>2, <1>3, ElementOfSeq
    <3>2. \A x \in Nat \ {0} : \A y \in Nat : x + y \in 1..(x + y)
      OBVIOUS
    <3>3. QED
      BY <1>2, <3>1, <3>2
  <2>2. Opens(Requests, m, r) /\ Len(m) = PrefixSize + Requests[r]
    <3> DEFINE l == PrefixSize + Requests[r]
    <3>1. /\ Opens(Requests, SubSeq(m, 1, l), r) /\ Len(SubSeq(m, 1, l)) = l
          /\ SubSeq(m, 1, l) = m
      <4> HIDE DEF r
      <4>1. QED
        BY <1>2, <1>3, <2>1, MessageOpens
    <3> HIDE DEF m, l, r
    <3>2. Opens(Requests, m, r) /\ Len(m) = l
      BY <3>1
    <3>3. QED
      BY <3>2 DEF l
  <2>3. Len(m) >= PrefixSize + Requests[r]
    BY <2>1, <2>2
  <2> HIDE DEF m
  <2>4. r # asked /\ r = asked + 1
    BY <1>2
  <2>5. asked' # asked /\ asked' \in {asked, r} /\ up' = up \o m
    BY <1>1, <1>4, <2>4
  <2>6. QED
    BY <1>1, <1>3, <1>4, <2>2, <2>3, <2>4, <2>5, UpArrives
<1>5. CASE ~server
  <2>1. ~server' /\ UNCHANGED <<buffer, extracted, up>>
    BY <1>1, <1>5
  <2>2. Stream!Queued(buffer \o up, Len(extracted), r)
    <3>1. Stream!Queued(buffer \o up, Len(extracted), asked)
      BY DEF Stream!UpStream
    <3>2. \A i \in DOMAIN (buffer \o up) : (buffer \o up)[i].of \in Nat
      <4>1. ASSUME NEW i \in DOMAIN (buffer \o up) PROVE (buffer \o up)[i].of \in Nat
        <5>1. buffer \o up \in Seq(Stream!Bytes(Requests))
          BY UpType
        <5>2. i \in 1..Len(buffer \o up)
          BY <5>1, LenProperties
        <5>3. (buffer \o up)[i].of \in 1..Len(Requests)
          BY <1>2, <5>1, <5>2, ByteType
        <5>4. QED
          BY <1>2, <5>3
      <4>2. QED
        BY <4>1
    <3>3. \A x \in Nat : x <= asked => x <= r
      BY <1>2
    <3>4. \A x : x = asked + 1 => x <= r
      BY <1>2
    <3>5. QED
      BY <3>1, <3>2, <3>3, <3>4 DEF Stream!Queued
  <2>3. Len(extracted) <= r
    BY <1>2 DEF Stream!UpStream
  <2>4. QED
    BY <1>1, <2>1, <2>2, <2>3 DEF Stream!UpStream
<1>6. QED
  BY <1>4, <1>5

\* A client that dies, or whose send() fails, has sent a part of its next request,
\* at most.
LEMMA UpCutShort ==
  ASSUME Stream!LengthAssumption, Stream!TypeOK, Stream!UpStream,
         ~client'.connected, UNCHANGED <<buffer, extracted, server, asked>>,
         \/ UNCHANGED up
         \/ /\ client.connected /\ server /\ asked < Len(Requests)
            /\ \E n \in 1..(PrefixSize + Requests[asked + 1] - 1) :
                 up' = up \o SubSeq(Stream!Message(asked + 1, Requests[asked + 1]), 1, n)
  PROVE  Stream!UpStream'
<1> DEFINE r == asked + 1
           l == PrefixSize + Requests[r]
           M == Stream!Message(r, Requests[r])
<1>1. /\ ~client'.connected /\ UNCHANGED <<buffer, extracted, server, asked>>
      /\ \/ UNCHANGED up
         \/ /\ client.connected /\ server /\ asked < Len(Requests)
            /\ \E n \in 1..(PrefixSize + Requests[r] - 1) : up' = up \o SubSeq(M, 1, n)
  OBVIOUS
<1>2. /\ PrefixSize \in Nat \ {0} /\ Requests \in Seq(Nat) /\ Len(Requests) \in Nat /\ asked \in Nat
  BY UpType
<1>3. CASE UNCHANGED up
  BY <1>1, <1>3, UpSame
<1>4. CASE /\ client.connected /\ server /\ asked < Len(Requests)
           /\ \E n \in 1..(PrefixSize + Requests[r] - 1) : up' = up \o SubSeq(M, 1, n)
  <2>1. PICK n \in 1..(PrefixSize + Requests[r] - 1) : up' = up \o SubSeq(M, 1, n)
    BY <1>4
  <2>2. r \in 1..Len(Requests) /\ r = asked + 1 /\ r # asked
    BY <1>2, <1>4
  <2>3. Requests[r] \in Nat
    BY <1>2, <2>2, ElementOfSeq
  <2>4. n \in 1..l /\ n # l
    <3>1. l \in Nat
      <4>1. \A x, y \in Nat : x + y \in Nat
        OBVIOUS
      <4>2. QED
        BY <1>2, <2>3, <4>1
    <3>2. \A x \in Nat : \A y \in Nat : \A z \in 1..(x + y - 1) : z \in 1..(x + y) /\ z # x + y
      OBVIOUS
    <3> HIDE DEF r, M
    <3>3. n \in 1..(PrefixSize + Requests[r] - 1)
      OBVIOUS
    <3>4. QED
      BY <1>2, <2>3, <3>2, <3>3
  <2> DEFINE m == SubSeq(M, 1, n)
  <2>5. Opens(Requests, m, r) /\ Len(m) = n
    BY <1>2, <2>2, <2>4, MessageOpens
  <2> HIDE DEF m, r, l
  <2>6. up' = up \o m /\ Len(m) # PrefixSize + Requests[r]
    BY <2>1, <2>4, <2>5 DEF m, l
  <2>7. asked' \in {asked, r} /\ asked' # r
    BY <1>1, <2>2
  <2>8. QED
    BY <1>1, <1>4, <2>2, <2>5, <2>6, <2>7, UpArrives
<1>5. QED
  BY <1>1, <1>3, <1>4

\* A send() that fails leaves a part of its message, maybe none of it.
LEMMA UpSendFails ==
  ASSUME Stream!LengthAssumption, Stream!TypeOK, Stream!UpStream, Stream!SendFails
  PROVE  Stream!UpStream'
<1> DEFINE r == asked + 1
           l == PrefixSize + Requests[r] - 1
           M == Stream!Message(r, Requests[r])
<1>1. /\ UNCHANGED <<buffer, extracted, server, asked>>
      /\ client.connected /\ asked < Len(Requests) /\ client' = [client EXCEPT !.connected = FALSE]
      /\ server => \E n \in 0..l : up' = up \o SubSeq(M, 1, n)
      /\ ~server => UNCHANGED up
  BY Zenon DEF Stream!SendFails
<1>2. /\ PrefixSize \in Nat \ {0} /\ Requests \in Seq(Nat) /\ Len(Requests) \in Nat /\ asked \in Nat
      /\ client \in [connected : BOOLEAN, fd : BOOLEAN, closed : BOOLEAN]
      /\ up \in Seq(Stream!Bytes(Requests))
  BY UpType
<1>3. ~client'.connected
  BY <1>1, <1>2
<1>4. CASE ~server
  BY <1>1, <1>3, <1>4, UpCutShort
<1>5. CASE server
  <2>1. PICK n \in 0..l : up' = up \o SubSeq(M, 1, n)
    BY <1>1, <1>5
  <2>2. CASE n = 0
    <3>1. r \in 1..Len(Requests)
      <4>1. asked \in Nat /\ Len(Requests) \in Nat /\ asked < Len(Requests)
        BY <1>1, <1>2
      <4> HIDE DEF l, M
      <4>2. QED
        BY <4>1
    <3>2. M \in Seq(Stream!Bytes(Requests)) /\ Len(M) \in Nat
      BY <1>2, <3>1, MessageShape, LenProperties
    <3> HIDE DEF M
    <3>3. SubSeq(M, 1, 0) \in Seq(Stream!Bytes(Requests)) /\ Len(SubSeq(M, 1, 0)) = 0
      BY <3>2, FirstPart
    <3>4. SubSeq(M, 1, 0) = << >>
      BY <3>3, EmptySeq
    <3>5. up \o << >> = up
      BY <1>2, ConcatEmptySeq
    <3>6. UNCHANGED up
      BY <2>1, <2>2, <3>4, <3>5
    <3>7. QED
      BY <1>1, <1>3, <3>6, UpCutShort
  <2>3. CASE n # 0
    <3>1. n \in 1..l
      <4>1. \A k : \A x \in 0..k : x # 0 => x \in 1..k
        OBVIOUS
      <4> HIDE DEF l, M
      <4>2. QED
        BY <2>3, <4>1
    <3>2. \E x \in 1..(PrefixSize + Requests[asked + 1] - 1) :
            up' = up \o SubSeq(Stream!Message(asked + 1, Requests[asked + 1]), 1, x)
      BY <2>1, <3>1, Zenon
    <3>3. QED
      BY <1>1, <1>3, <1>5, <3>2, UpCutShort, Zenon
  <2>4. QED
    BY <2>2, <2>3
<1>6. QED
  BY <1>4, <1>5

\* Reading n bytes of u moves them behind those of b, in their order.
LEMMA ReadFront ==
  ASSUME NEW S, NEW b \in Seq(S), NEW u \in Seq(S), NEW n \in 1..Len(u)
  PROVE  /\ b \o SubSeq(u, 1, n) \in Seq(S) /\ Len(b \o SubSeq(u, 1, n)) = Len(b) + n
         /\ Len(b \o SubSeq(u, 1, n)) <= Len(b \o u)
         /\ \A i \in 1..(Len(b) + n) : (b \o SubSeq(u, 1, n))[i] = (b \o u)[i]
<1> DEFINE f == SubSeq(u, 1, n)
           x == b \o f
           y == b \o u
<1>1. Len(b) \in Nat /\ Len(u) \in Nat /\ n \in 0..Len(u)
  BY LenProperties
<1>2. f \in Seq(S) /\ Len(f) = n /\ \A i \in 1..n : f[i] = u[i]
  BY <1>1, FirstPart
<1> HIDE DEF f
<1>3. /\ x \in Seq(S) /\ Len(x) = Len(b) + n
      /\ \A i \in 1..(Len(b) + n) : x[i] = IF i <= Len(b) THEN b[i] ELSE f[i - Len(b)]
  BY <1>2, ConcatProperties
<1>4. /\ y \in Seq(S) /\ Len(y) = Len(b) + Len(u)
      /\ \A i \in 1..(Len(b) + Len(u)) : y[i] = IF i <= Len(b) THEN b[i] ELSE u[i - Len(b)]
  BY ConcatProperties
<1> HIDE DEF x, y
<1>5. ASSUME NEW i \in 1..(Len(b) + n) PROVE x[i] = y[i]
  <2>1. i \in 1..(Len(b) + Len(u)) /\ (~(i <= Len(b)) => i - Len(b) \in 1..n)
    BY <1>1
  <2>2. QED
    BY <1>2, <1>3, <1>4, <2>1
<1>6. QED
  BY <1>1, <1>3, <1>4, <1>5 DEF x, y, f

\* Nothing is lost between the buffer and what has not been read yet.
LEMMA ReadRest ==
  ASSUME NEW S, NEW b \in Seq(S), NEW u \in Seq(S), NEW n \in 1..Len(u), NEW c \in 1..(Len(b) + n + 1)
  PROVE  Stream!From(b \o SubSeq(u, 1, n), c) \o Stream!From(u, n + 1) = Stream!From(b \o u, c)
<1> DEFINE f == b \o SubSeq(u, 1, n)
           A == b \o u
           x == Stream!From(f, c)
           y == Stream!From(u, n + 1)
           z == Stream!From(A, c)
<1>1. Len(b) \in Nat /\ Len(u) \in Nat /\ n \in Nat /\ c \in Nat /\ n + 1 \in 1..(Len(u) + 1)
  BY LenProperties
<1>2. /\ f \in Seq(S) /\ Len(f) = Len(b) + n
      /\ \A i \in 1..(Len(b) + n) : f[i] = A[i]
  BY ReadFront
<1>3. /\ A \in Seq(S) /\ Len(A) = Len(b) + Len(u)
      /\ \A i \in 1..Len(u) : A[Len(b) + i] = u[i]
  BY ConcatShape
<1> HIDE DEF f, A
<1>4. c \in 1..(Len(f) + 1) /\ c \in 1..(Len(A) + 1)
  BY <1>1, <1>2, <1>3
<1>5. /\ x \in Seq(S) /\ Len(x) = Len(f) - c + 1
      /\ \A i \in 1..(Len(f) - c + 1) : x[i] = f[c + i - 1]
  BY <1>2, <1>4, FromPart
<1>6. /\ y \in Seq(S) /\ Len(y) = Len(u) - (n + 1) + 1
      /\ \A i \in 1..(Len(u) - (n + 1) + 1) : y[i] = u[(n + 1) + i - 1]
  BY <1>1, FromPart
<1>7. /\ z \in Seq(S) /\ Len(z) = Len(A) - c + 1
      /\ \A i \in 1..(Len(A) - c + 1) : z[i] = A[c + i - 1]
  BY <1>3, <1>4, FromPart
<1> HIDE DEF x, y, z
<1>8. /\ x \o y \in Seq(S) /\ Len(x \o y) = Len(x) + Len(y)
      /\ \A i \in 1..(Len(x) + Len(y)) : (x \o y)[i] = IF i <= Len(x) THEN x[i] ELSE y[i - Len(x)]
  BY <1>5, <1>6, ConcatProperties
<1>9. /\ Len(x) = Len(b) + n + 1 - c /\ Len(y) = Len(u) - n /\ Len(z) = Len(b) + Len(u) + 1 - c
      /\ Len(x) \in Nat /\ Len(y) \in Nat
  BY <1>1, <1>2, <1>3, <1>4, <1>5, <1>6, <1>7
<1>10. ASSUME NEW i \in 1..(Len(x) + Len(y)) PROVE (x \o y)[i] = z[i]
  <2>1. i \in 1..(Len(A) - c + 1)
    BY <1>1, <1>3, <1>9
  <2>2. z[i] = A[c + i - 1]
    BY <1>7, <2>1
  <2>3. CASE i <= Len(x)
    <3>1. i \in 1..(Len(f) - c + 1) /\ c + i - 1 \in 1..(Len(b) + n)
      BY <1>1, <1>2, <1>9, <2>3
    <3>2. x[i] = A[c + i - 1]
      BY <1>2, <1>5, <3>1
    <3>3. QED
      BY <1>8, <2>2, <2>3, <3>2
  <2>4. CASE ~(i <= Len(x))
    <3>1. /\ i - Len(x) \in 1..(Len(u) - (n + 1) + 1) /\ (n + 1) + (i - Len(x)) - 1 \in 1..Len(u)
          /\ Len(b) + ((n + 1) + (i - Len(x)) - 1) = c + i - 1
      BY <1>1, <1>9, <2>4
    <3>2. y[i - Len(x)] = u[(n + 1) + (i - Len(x)) - 1]
      BY <1>6, <3>1
    <3>3. A[c + i - 1] = u[(n + 1) + (i - Len(x)) - 1]
      BY <1>3, <3>1
    <3>4. QED
      BY <1>8, <2>2, <2>4, <3>2, <3>3
  <2>5. QED
    BY <2>3, <2>4
<1>11. Len(x \o y) = Len(z)
  BY <1>1, <1>8, <1>9
<1>12. \A i \in 1..Len(x \o y) : (x \o y)[i] = z[i]
  BY <1>8, <1>10
<1>13. x \o y = z
  BY <1>7, <1>8, <1>11, <1>12, SeqEqual
<1>14. QED
  BY <1>13 DEF x, y, z, f, A

\* What extractMessages makes of b and the n first bytes of u.
TakesOut(b, u, n, last, k, m) ==
  LET found == Stream!ExtractMessages(b \o SubSeq(u, 1, n))
      rest == found.rest \o Stream!From(u, n + 1)
  IN  /\ m \in Nat /\ found.messages \in Seq(Seq(Stream!Bytes(Requests))) /\ Len(found.messages) = m
      /\ \A j \in 1..m : found.messages[j] = Stream!Body(last + j, Requests[last + j])
      /\ last + m <= k
      /\ found.rest \in Seq(Stream!Bytes(Requests)) /\ ~Stream!Complete(found.rest)
      /\ Stream!From(u, n + 1) \in Seq(Stream!Bytes(Requests))
      /\ Stream!Queued(rest, last + m, k)
      /\ Stream!Reaches(b \o u, last, k) => Stream!Reaches(rest, last + m, k)

\* What is extracted from the stream: the next messages, whole and in order.
LEMMA Extracting ==
  ASSUME Stream!LengthAssumption, NEW b \in Seq(Stream!Bytes(Requests)), NEW u \in Seq(Stream!Bytes(Requests)),
         NEW last \in Nat, NEW k \in Nat, last <= k, Stream!Queued(b \o u, last, k), NEW n \in 1..Len(u)
  PROVE  \E m \in Nat : TakesOut(b, u, n, last, k, m)
<1> DEFINE f == b \o SubSeq(u, 1, n)
           A == b \o u
           found == Stream!ExtractMessages(f)
<1>1. /\ A \in Seq(Stream!Bytes(Requests)) /\ Len(A) = Len(b) + Len(u) /\ Len(b) \in Nat /\ Len(u) \in Nat
      /\ f \in Seq(Stream!Bytes(Requests)) /\ Len(f) = Len(b) + n /\ Len(f) <= Len(A)
      /\ \A i \in 1..(Len(b) + n) : f[i] = A[i]
  BY ConcatShape, ReadFront
<1> HIDE DEF f, A
<1>2. /\ Stream!Runs(Requests, f) /\ Stream!InOrder(f, last)
      /\ \A j : \A i \in 1..Len(f) : f[i] = FinalByte(j) => j <= k
  <2>1. Stream!Queued(A, last, k)
    BY DEF A
  <2>2. QED
    BY <1>1, <2>1, QueuedFront
<1>3. PICK m, c : Extracts(f, last, m, c)
  BY <1>1, <1>2, Extraction
<1>4. /\ m \in Nat /\ c \in 1..(Len(f) + 1)
      /\ found.messages \in Seq(Seq(Stream!Bytes(Requests))) /\ Len(found.messages) = m
      /\ \A j \in 1..m :
           /\ found.messages[j] = Stream!Body(last + j, Requests[last + j])
           /\ \E i \in 1..Len(f) : f[i] = FinalByte(last + j)
      /\ found.rest = Stream!From(f, c) /\ ~Stream!Complete(Stream!From(f, c))
      /\ c <= Len(f) => f[c] = [of |-> last + m + 1, at |-> 1]
      /\ IF c = 1 THEN m = 0 ELSE f[c - 1] = FinalByte(last + m)
  BY <1>3 DEF Extracts
<1> HIDE DEF found
<1>5. last + m <= k
  <2>1. CASE m = 0
    BY <2>1
  <2>2. CASE m # 0
    <3>1. m \in 1..m
      BY <1>4, <2>2
    <3>2. QED
      BY <1>2, <1>4, <3>1
  <2>3. QED
    BY <2>1, <2>2
<1>6. c \in 1..(Len(b) + n + 1) /\ c \in 1..(Len(A) + 1) /\ n + 1 \in 1..(Len(u) + 1)
  <2>1. \A x, y \in Nat : \A z \in 1..y : \A p \in 1..(x + z + 1) : p \in 1..(x + y + 1) /\ z + 1 \in 1..(y + 1)
    OBVIOUS
  <2>2. c \in 1..(Len(b) + n + 1)
    BY <1>1, <1>4
  <2>3. QED
    BY <1>1, <2>1, <2>2
<1>7. found.rest \o Stream!From(u, n + 1) = Stream!From(A, c)
  <2>1. Stream!From(b \o SubSeq(u, 1, n), c) \o Stream!From(u, n + 1) = Stream!From(b \o u, c)
    BY <1>6, ReadRest
  <2>2. found.rest = Stream!From(f, c)
    BY <1>4
  <2>3. QED
    BY <2>1, <2>2 DEF f, A
<1>8. Stream!From(u, n + 1) \in Seq(Stream!Bytes(Requests)) /\ found.rest \in Seq(Stream!Bytes(Requests))
  <2>1. Stream!From(u, n + 1) \in Seq(Stream!Bytes(Requests))
    BY <1>6, FromPart
  <2>2. c \in 1..(Len(f) + 1) /\ found.rest = Stream!From(f, c) /\ f \in Seq(Stream!Bytes(Requests))
    BY <1>1, <1>4
  <2>3. Stream!From(f, c) \in Seq(Stream!Bytes(Requests))
    BY <2>2, FromPart
  <2>4. QED
    BY <2>1, <2>2, <2>3
<1>9. After(A, last, m, c)
  <2>1. c # 1 => A[c - 1] = FinalByte(last + m)
    <3>1. SUFFICES ASSUME c # 1 PROVE A[c - 1] = FinalByte(last + m)
      OBVIOUS
    <3>2. c - 1 \in 1..(Len(b) + n)
      BY <1>1, <1>6, <3>1, SMTT(30)
    <3>3. QED
      BY <1>1, <1>4, <3>1, <3>2
  <2>2. CASE c <= Len(f)
    <3>1. c \in 1..(Len(b) + n)
      BY <1>1, <1>6, <2>2
    <3>2. A[c] = [of |-> last + m + 1, at |-> 1]
      BY <1>1, <1>4, <2>2, <3>1
    <3>3. QED
      BY <1>4, <2>1, <3>2 DEF After
  <2>3. CASE ~(c <= Len(f))
    <3>1. c = Len(f) + 1 /\ c # 1 /\ c - 1 = Len(f) /\ c - 1 \in Nat
      <4>1. \A x, y \in Nat : \A p \in 1..(x + y + 1) :
              y # 0 /\ ~(p <= x + y) => p = x + y + 1 /\ p # 1 /\ p - 1 = x + y /\ p - 1 \in Nat
        OBVIOUS
      <4>2. n \in Nat /\ n # 0 /\ Len(f) = Len(b) + n /\ ~(c <= Len(b) + n)
        BY <1>1, <2>3
      <4>3. c = Len(b) + n + 1 /\ c # 1 /\ c - 1 = Len(b) + n /\ c - 1 \in Nat
        BY <1>1, <1>6, <4>1, <4>2
      <4>4. QED
        BY <4>2, <4>3
    <3>2. SUFFICES ASSUME c <= Len(A) PROVE A[c] = [of |-> last + m + 1, at |-> 1]
      BY <1>4, <2>1 DEF After
    <3>3. c - 1 \in 1..Len(A) /\ c - 1 < Len(A) /\ (c - 1) + 1 = c /\ c - 1 \in 1..(Len(A) - 1) /\ c \in 1..Len(A)
      BY <1>1, <1>6, <3>1, <3>2
    <3>4. A[c - 1].of = last + m /\ Stream!Final(Requests, A[c - 1])
      <4>1. A[c - 1] = FinalByte(last + m)
        BY <2>1, <3>1
      <4>2. QED
        BY <4>1 DEF FinalByte, Stream!Final
    <3>5. DOMAIN A = 1..Len(A)
      BY <1>1, LenProperties
    <3>6. Stream!Runs(Requests, A) /\ Stream!InOrder(A, last)
      BY DEF Stream!Queued, A
    <3>7. A[c].at = 1
      BY <3>3, <3>4, <3>5, <3>6 DEF Stream!Runs
    <3>8. A[c].of = A[c - 1].of + 1
      <4>1. \A i \in 1..(Len(A) - 1) : A[i + 1].at = 1 => A[i + 1].of = A[i].of + 1
        BY <3>6 DEF Stream!InOrder
      <4>2. QED
        BY <3>3, <3>7, <4>1
    <3>9. A[c] = [of |-> A[c].of, at |-> A[c].at]
      <4>1. Requests \in Seq(Nat)
        BY DEF Stream!LengthAssumption
      <4>2. QED
        BY <1>1, <3>3, <4>1, ByteType, ZenonT(30)
    <3>10. QED
      BY <3>4, <3>7, <3>8, <3>9
  <2>4. QED
    BY <2>2, <2>3
<1>10. /\ Stream!Queued(Stream!From(A, c), last + m, k)
       /\ Stream!Reaches(A, last, k) => Stream!Reaches(Stream!From(A, c), last + m, k)
  <2>1. Stream!Queued(A, last, k)
    BY DEF A
  <2>2. QED
    BY <1>1, <1>4, <1>6, <1>9, <2>1, QueuedRest
<1>11. QED
  <2>1. TakesOut(b, u, n, last, k, m)
    BY <1>4, <1>5, <1>7, <1>8, <1>10 DEF TakesOut, found, f, A
  <2>2. QED
    BY <1>4, <2>1

\* Messages that are extracted come after those that were.
LEMMA MoreExtracted ==
  ASSUME Stream!LengthAssumption, NEW S, NEW old \in Seq(S), NEW new \in Seq(S),
         \A r \in DOMAIN old : old[r] = Stream!Body(r, Requests[r]),
         \A j \in 1..Len(new) : new[j] = Stream!Body(Len(old) + j, Requests[Len(old) + j])
  PROVE  \A r \in DOMAIN (old \o new) : (old \o new)[r] = Stream!Body(r, Requests[r])
<1>1. /\ old \o new \in Seq(S) /\ Len(old) \in Nat /\ Len(new) \in Nat /\ Len(old \o new) = Len(old) + Len(new)
      /\ \A i \in 1..Len(old) : (old \o new)[i] = old[i]
      /\ \A i \in 1..Len(new) : (old \o new)[Len(old) + i] = new[i]
      /\ \A i \in 1..(Len(old) + Len(new)) :
           i \in 1..Len(old) \/ (i - Len(old) \in 1..Len(new) /\ i = Len(old) + (i - Len(old)))
  BY ConcatShape
<1>2. DOMAIN (old \o new) = 1..(Len(old) + Len(new)) /\ DOMAIN old = 1..Len(old)
  BY <1>1, LenProperties
<1>3. ASSUME NEW r \in 1..(Len(old) + Len(new)) PROVE (old \o new)[r] = Stream!Body(r, Requests[r])
  <2>1. CASE r \in 1..Len(old)
    BY <1>1, <1>2, <2>1
  <2>2. CASE r - Len(old) \in 1..Len(new) /\ r = Len(old) + (r - Len(old))
    <3> DEFINE j == r - Len(old)
    <3>1. j \in 1..Len(new) /\ Len(old) + j = r
      BY <2>2
    <3> HIDE DEF j
    <3>2. (old \o new)[Len(old) + j] = new[j]
      BY <1>1, <3>1
    <3>3. new[j] = Stream!Body(Len(old) + j, Requests[Len(old) + j])
      BY <3>1
    <3>4. QED
      BY <3>1, <3>2, <3>3
  <2>3. QED
    BY <1>1, <2>1, <2>2
<1>4. QED
  BY <1>2, <1>3

\* What one recv() of handleClientData leaves of the stream.
LEMMA UpRead ==
  ASSUME Stream!LengthAssumption, Stream!TypeOK, Stream!UpStream, Stream!HandleClientData
  PROVE  /\ Stream!UpStream'
         /\ up' \in Seq(Stream!Bytes(Requests)) /\ buffer' \in Seq(Stream!Bytes(Requests))
         /\ extracted' \in Seq(Seq(Stream!Bytes(Requests))) /\ Len(extracted) <= Len(extracted')
<1> DEFINE last == Len(extracted)
<1>1. /\ buffer \in Seq(Stream!Bytes(Requests)) /\ up \in Seq(Stream!Bytes(Requests))
      /\ last \in Nat /\ asked \in Nat /\ extracted \in Seq(Seq(Stream!Bytes(Requests)))
  BY UpType
<1>2. /\ last <= asked /\ Stream!Queued(buffer \o up, last, asked)
      /\ client.connected /\ server => Stream!Reaches(buffer \o up, last, asked)
      /\ \A r \in DOMAIN extracted : extracted[r] = Stream!Body(r, Requests[r])
  BY DEF Stream!UpStream
<1>3. PICK n \in 1..Len(up) :
        LET found == Stream!ExtractMessages(buffer \o SubSeq(up, 1, n))
        IN  /\ up' = Stream!From(up, n + 1) /\ buffer' = found.rest
            /\ extracted' = extracted \o found.messages
  BY DEF Stream!HandleClientData
<1>4. UNCHANGED client /\ UNCHANGED server /\ UNCHANGED asked
  BY DEF Stream!HandleClientData
<1> DEFINE found == Stream!ExtractMessages(buffer \o SubSeq(up, 1, n))
<1>5. PICK m \in Nat : TakesOut(buffer, up, n, last, asked, m)
  BY <1>1, <1>2, Extracting
<1>6. /\ found.messages \in Seq(Seq(Stream!Bytes(Requests))) /\ Len(found.messages) = m
      /\ \A j \in 1..m : found.messages[j] = Stream!Body(last + j, Requests[last + j])
      /\ last + m <= asked
      /\ buffer' \in Seq(Stream!Bytes(Requests)) /\ ~Stream!Complete(buffer')
      /\ up' \in Seq(Stream!Bytes(Requests))
      /\ Stream!Queued(buffer' \o up', last + m, asked)
      /\ Stream!Reaches(buffer \o up, last, asked) => Stream!Reaches(buffer' \o up', last + m, asked)
  BY <1>3, <1>5 DEF TakesOut
<1> DEFINE new == found.messages
<1>7. extracted' = extracted \o new
  BY <1>3
<1> HIDE DEF found, new
<1>8. new \in Seq(Seq(Stream!Bytes(Requests))) /\ Len(new) = m
  BY <1>6 DEF new
<1>9. /\ extracted' \in Seq(Seq(Stream!Bytes(Requests))) /\ Len(extracted') = last + m
  BY <1>1, <1>7, <1>8, ConcatProperties
<1>10. \A r \in DOMAIN extracted' : extracted'[r] = Stream!Body(r, Requests[r])
  <2>1. \A j \in 1..Len(new) : new[j] = Stream!Body(last + j, Requests[last + j])
    BY <1>6, <1>8 DEF new
  <2>2. \A r \in DOMAIN (extracted \o new) : (extracted \o new)[r] = Stream!Body(r, Requests[r])
    <3>1. /\ extracted \in Seq(Seq(Stream!Bytes(Requests))) /\ new \in Seq(Seq(Stream!Bytes(Requests)))
          /\ \A r \in DOMAIN extracted : extracted[r] = Stream!Body(r, Requests[r])
          /\ \A j \in 1..Len(new) : new[j] = Stream!Body(Len(extracted) + j, Requests[Len(extracted) + j])
      BY <1>1, <1>2, <1>8, <2>1
    <3>2. QED
      BY <3>1, MoreExtracted, ZenonT(30)
  <2>3. QED
    BY <1>7, <2>2
<1>11. client'.connected /\ server' => Stream!Reaches(buffer \o up, Len(extracted), asked)'
  BY <1>2, <1>4, <1>6, <1>9
<1>12. Stream!Queued(buffer \o up, Len(extracted), asked)'
  BY <1>4, <1>6, <1>9
<1>13. Len(extracted') <= asked' /\ ~Stream!Complete(buffer')
  BY <1>4, <1>6, <1>9
<1>14. Stream!UpStream'
  BY <1>10, <1>11, <1>12, <1>13 DEF Stream!UpStream
<1>15. last <= last + m
  BY <1>1
<1>16. QED
  BY <1>6, <1>9, <1>14, <1>15

\* The stream of requests stays as it is, whatever happens.
LEMMA UpStep ==
  ASSUME Stream!LengthAssumption, Stream!TypeOK, Stream!UpStream, [Stream!Next]_(Stream!vars)
  PROVE  Stream!UpStream'
<1>0. client \in [connected : BOOLEAN, fd : BOOLEAN, closed : BOOLEAN]
  BY UpType
<1>1. CASE Stream!Send
  BY <1>1, UpSend
<1>2. CASE Stream!Die
  <2>1. ~client'.connected
    BY <1>2 DEF Stream!Die
  <2>2. QED
    BY <1>2, <2>1, UpCutShort DEF Stream!Die
<1>3. CASE Stream!HandleClientData
  BY <1>3, UpRead
<1>4. CASE Stream!Receive
  BY <1>4, UpSame DEF Stream!Receive
<1>5. CASE Stream!ReceivePrefix
  <2>1. /\ UNCHANGED <<asked, buffer, up, extracted, server>>
        /\ client' = client \/ client' = [client EXCEPT !.connected = FALSE]
    BY <1>5 DEF Stream!ReceivePrefix
  <2>2. client'.connected => client.connected
    BY <1>0, <2>1
  <2>3. QED
    BY <2>1, <2>2, UpSame
<1>6. CASE Stream!ReceiveBody
  BY <1>6, UpSame DEF Stream!ReceiveBody
<1>7. CASE Stream!ReceiveFails
  <2>1. /\ UNCHANGED <<asked, buffer, up, extracted, server>> /\ client' = [client EXCEPT !.connected = FALSE]
    BY <1>7 DEF Stream!ReceiveFails
  <2>2. ~client'.connected
    BY <1>0, <2>1
  <2>3. QED
    BY <2>1, <2>2, UpSame
<1>8. CASE Stream!Close
  <2>1. UNCHANGED <<asked, buffer, up, extracted, server>> /\ ~client'.connected
    BY <1>8 DEF Stream!Close
  <2>2. QED
    BY <2>1, UpSame
<1>9. CASE Stream!CloseConnection \/ Stream!Stop
  BY <1>9, UpSame DEF Stream!CloseConnection, Stream!Stop
<1>10. CASE Stream!AnswerAstray
  BY <1>10, UpSame DEF Stream!AnswerAstray
<1>11. CASE \E r \in waiting : Stream!HandleRequest(r)
  BY <1>11, UpSame DEF Stream!HandleRequest
<1>12. CASE UNCHANGED Stream!vars
  BY <1>12, UpSame DEF Stream!vars
<1>13. CASE Stream!SendFails
  BY <1>13, UpSendFails
<1>14. QED
  BY <1>1, <1>2, <1>3, <1>4, <1>5, <1>6, <1>7, <1>8, <1>9, <1>10, <1>11, <1>12, <1>13
     DEF Stream!Next, Stream!ClientStep, Stream!ServerStep

\* What the server may answer: each request, or one of another client.
LEMMA RepliesShape ==
  ASSUME Stream!LengthAssumption
  PROVE  /\ Stream!Replies \in Seq(Nat) /\ Len(Stream!Replies) = Len(Requests) + 1
         /\ Len(Requests) \in Nat /\ Stream!StrayId = Len(Requests) + 1
         /\ \A r \in 1..Len(Requests) : Stream!Replies[r] = Answers[r]
         /\ Stream!Replies[Stream!StrayId] = Stray
<1>1. Answers \in Seq(Nat) /\ Stray \in Nat /\ Len(Answers) = Len(Requests) /\ Requests \in Seq(Nat)
  BY DEF Stream!LengthAssumption
<1>2. Len(Requests) \in Nat
  BY <1>1, LenProperties
<1>3. QED
  BY <1>1, <1>2, AppendProperties DEF Stream!Replies, Stream!StrayId

\* What comes after the first bytes of a stream of whole messages.
LEMMA WholeRest ==
  ASSUME Stream!LengthAssumption, NEW lengths \in Seq(Nat), NEW s \in Seq(Stream!Bytes(lengths)),
         Stream!Whole(lengths, s), NEW n \in 1..(Len(s) + 1)
  PROVE  Stream!Whole(lengths, Stream!From(s, n))
<1> DEFINE t == Stream!From(s, n)
<1>0. Len(s) \in Nat /\ n \in Nat \ {0}
  BY LenProperties
<1>1. /\ t \in Seq(Stream!Bytes(lengths)) /\ Len(t) = Len(s) - n + 1 /\ Len(s) \in Nat /\ n \in Nat \ {0}
      /\ \A i \in 1..(Len(s) - n + 1) : t[i] = s[n + i - 1]
  BY <1>0, FromPart
<1> HIDE DEF t
<1>2. DOMAIN s = 1..Len(s) /\ DOMAIN t = 1..Len(t) /\ Len(t) \in Nat
  BY <1>1, LenProperties
<1>3. \A i \in 1..Len(t) : (n - 1) + i \in 1..Len(s) /\ (n - 1) + i = n + i - 1 /\ t[i] = s[(n - 1) + i]
  <2>1. \A x, y \in Nat : \A z \in 1..(x - y + 1) : y # 0 => (y - 1) + z \in 1..x /\ (y - 1) + z = y + z - 1
    OBVIOUS
  <2>2. ASSUME NEW i \in 1..Len(t)
        PROVE  (n - 1) + i \in 1..Len(s) /\ (n - 1) + i = n + i - 1 /\ t[i] = s[(n - 1) + i]
    <3>1. i \in 1..(Len(s) - n + 1)
      BY <1>1
    <3>2. (n - 1) + i \in 1..Len(s) /\ (n - 1) + i = n + i - 1
      BY <1>0, <2>1, <3>1
    <3>3. t[i] = s[n + i - 1]
      BY <1>1, <3>1
    <3>4. QED
      BY <3>2, <3>3
  <2>3. QED
    BY <2>2
<1>4. Stream!Runs(lengths, t)
  <2>1. n - 1 \in Nat /\ (n - 1) + Len(t) <= Len(s)
    BY <1>1
  <2>2. Stream!Runs(lengths, s)
    BY DEF Stream!Whole
  <2>3. \A i \in 1..Len(t) : t[i] = s[(n - 1) + i]
    BY <1>3
  <2> DEFINE k == n - 1
  <2> HIDE DEF k
  <2>4. k \in Nat /\ k + Len(t) <= Len(s) /\ \A i \in 1..Len(t) : t[i] = s[k + i]
    BY <2>1, <2>3 DEF k
  <2>5. QED
    BY <1>1, <2>2, <2>4, RunsPart
<1>5. ASSUME NEW i \in 1..Len(t), NEW j \in 1..Len(t), t[i].of = t[j].of
      PROVE  t[i].at + j = t[j].at + i
  <2>1. /\ (n - 1) + i \in DOMAIN s /\ (n - 1) + j \in DOMAIN s
        /\ t[i] = s[(n - 1) + i] /\ t[j] = s[(n - 1) + j]
    BY <1>2, <1>3
  <2>2. t[i].at + ((n - 1) + j) = t[j].at + ((n - 1) + i)
    BY <1>5, <2>1, SMTT(30) DEF Stream!Whole
  <2>3. t[i].at \in Nat /\ t[j].at \in Nat
    BY <1>1, ByteType
  <2>4. \A x, y, k, v, w \in Nat : x + (k + v) = y + (k + w) => x + v = y + w
    OBVIOUS
  <2>5. n - 1 \in Nat /\ i \in Nat /\ j \in Nat
    BY <1>1, <1>2
  <2> DEFINE k == n - 1
             x == t[i].at
             y == t[j].at
  <2>6. k \in Nat /\ x \in Nat /\ y \in Nat /\ x + (k + j) = y + (k + i)
    BY <2>2, <2>3, <2>5
  <2> HIDE DEF k, x, y
  <2>7. x + j = y + i
    BY <2>4, <2>5, <2>6
  <2>8. QED
    BY <2>7 DEF x, y
<1>6. t # << >> => Stream!Final(lengths, t[Len(t)])
  <2>1. SUFFICES ASSUME t # << >> PROVE Stream!Final(lengths, t[Len(t)])
    OBVIOUS
  <2>2. Len(t) \in 1..Len(t)
    BY <1>1, <1>2, <2>1, EmptySeq
  <2>3. t[Len(t)] = s[Len(s)] /\ s # << >>
    <3>1. (n - 1) + Len(t) = Len(s) /\ Len(s) # 0
      BY <1>1, <2>2
    <3>2. s # << >>
      BY <3>1, EmptySeq
    <3>3. QED
      BY <1>3, <2>2, <3>1, <3>2
  <2>4. QED
    BY <2>3 DEF Stream!Whole
<1>7. QED
  BY <1>2, <1>4, <1>5, <1>6 DEF Stream!Whole, t

\* A stream of whole messages with one more.
LEMMA WholeMore ==
  ASSUME Stream!LengthAssumption, NEW lengths \in Seq(Nat), NEW s \in Seq(Stream!Bytes(lengths)),
         Stream!Whole(lengths, s), NEW r \in 1..Len(lengths), \A i \in DOMAIN s : s[i].of # r
  PROVE  /\ Stream!Whole(lengths, s \o Stream!Message(r, lengths[r]))
         /\ \A i \in DOMAIN (s \o Stream!Message(r, lengths[r])) :
              \/ (s \o Stream!Message(r, lengths[r]))[i].of = r
              \/ \E j \in DOMAIN s : (s \o Stream!Message(r, lengths[r]))[i].of = s[j].of
         /\ s \o Stream!Message(r, lengths[r]) # << >>
         /\ IF s = << >> THEN (s \o Stream!Message(r, lengths[r]))[1].at = 1
            ELSE (s \o Stream!Message(r, lengths[r]))[1] = s[1]
<1> DEFINE m == Stream!Message(r, lengths[r])
           t == s \o m
           l == PrefixSize + lengths[r]
<1>0. PrefixSize \in Nat \ {0} /\ lengths[r] \in Nat
  BY ElementOfSeq DEF Stream!LengthAssumption
<1>1. /\ m \in Seq(Stream!Bytes(lengths)) /\ Len(m) = l /\ \A i \in 1..l : m[i] = [of |-> r, at |-> i]
  BY MessageShape
<1>2. l \in Nat \ {0} /\ l \in 1..l /\ 1 \in 1..l
  BY <1>0, SMTT(30)
<1> HIDE DEF l, m
<1>3. /\ t \in Seq(Stream!Bytes(lengths)) /\ Len(s) \in Nat /\ Len(t) = Len(s) + l
      /\ \A i \in 1..Len(s) : t[i] = s[i]
      /\ \A i \in 1..l : t[Len(s) + i] = m[i]
      /\ \A i \in 1..(Len(s) + l) : i \in 1..Len(s) \/ (i - Len(s) \in 1..l /\ i = Len(s) + (i - Len(s)))
  <2>1. /\ t \in Seq(Stream!Bytes(lengths)) /\ Len(s) \in Nat /\ Len(t) = Len(s) + Len(m)
        /\ \A i \in 1..Len(s) : t[i] = s[i]
        /\ \A i \in 1..Len(m) : t[Len(s) + i] = m[i]
        /\ \A i \in 1..(Len(s) + Len(m)) : i \in 1..Len(s) \/ (i - Len(s) \in 1..Len(m) /\ i = Len(s) + (i - Len(s)))
    <3>1. m \in Seq(Stream!Bytes(lengths))
      BY <1>1
    <3>2. QED
      BY <3>1, ConcatShape, SMTT(30)
  <2> HIDE DEF t
  <2>2. QED
    BY <1>1, <2>1
<1> HIDE DEF t
<1>4. DOMAIN s = 1..Len(s) /\ DOMAIN t = 1..(Len(s) + l)
  BY <1>3, LenProperties
<1>5. \A i \in 1..(Len(s) + l) :
        (i \in 1..Len(s) /\ t[i] = s[i]) \/ (i - Len(s) \in 1..l /\ t[i] = [of |-> r, at |-> i - Len(s)])
  <2>1. ASSUME NEW i \in 1..(Len(s) + l), i - Len(s) \in 1..l, i = Len(s) + (i - Len(s))
        PROVE  t[i] = [of |-> r, at |-> i - Len(s)]
    <3> DEFINE k == i - Len(s)
    <3>1. k \in 1..l /\ i = Len(s) + k
      BY <2>1
    <3> HIDE DEF k
    <3>2. t[Len(s) + k] = m[k] /\ m[k] = [of |-> r, at |-> k]
      BY <1>1, <1>3, <3>1
    <3>3. QED
      BY <3>1, <3>2 DEF k
  <2>2. QED
    BY <1>3, <2>1
<1>6. Stream!Runs(lengths, t)
  <2>1. Opens(lengths, m, r)
    BY <1>1, <1>2 DEF Opens, l
  <2>2. Stream!Runs(lengths, m) /\ Stream!Runs(lengths, s)
    BY <2>1, RunsOpen DEF Stream!Whole
  <2>3. s # << >> => Stream!Final(lengths, s[Len(s)])
    BY DEF Stream!Whole
  <2>4. m[1].at = 1
    BY <1>1, <1>2
  <2>5. QED
    BY <1>1, <2>2, <2>3, <2>4, RunsConcat DEF t
<1>7. ASSUME NEW i \in DOMAIN t, NEW j \in DOMAIN t, t[i].of = t[j].of
      PROVE  t[i].at + j = t[j].at + i
  <2>0. i \in 1..(Len(s) + l) /\ j \in 1..(Len(s) + l)
    BY <1>4
  <2>1. CASE i \in 1..Len(s) /\ t[i] = s[i] /\ j \in 1..Len(s) /\ t[j] = s[j]
    BY <1>4, <1>7, <2>1 DEF Stream!Whole
  <2>2. CASE i - Len(s) \in 1..l /\ t[i] = [of |-> r, at |-> i - Len(s)]
             /\ j - Len(s) \in 1..l /\ t[j] = [of |-> r, at |-> j - Len(s)]
    BY <1>3, <2>0, <2>2
  <2>3. CASE i \in 1..Len(s) /\ t[i] = s[i] /\ t[j] = [of |-> r, at |-> j - Len(s)]
    BY <1>4, <1>7, <2>3
  <2>4. CASE j \in 1..Len(s) /\ t[j] = s[j] /\ t[i] = [of |-> r, at |-> i - Len(s)]
    BY <1>4, <1>7, <2>4
  <2>5. QED
    BY <1>5, <2>0, <2>1, <2>2, <2>3, <2>4
<1>8. Stream!Final(lengths, t[Len(t)])
  <2>1. t[Len(s) + l] = [of |-> r, at |-> l]
    BY <1>1, <1>2, <1>3
  <2>2. QED
    BY <1>3, <2>1 DEF Stream!Final, l
<1>9. ASSUME NEW i \in DOMAIN t PROVE t[i].of = r \/ \E j \in DOMAIN s : t[i].of = s[j].of
  <2>1. (i \in 1..Len(s) /\ t[i] = s[i]) \/ (i - Len(s) \in 1..l /\ t[i] = [of |-> r, at |-> i - Len(s)])
    BY <1>4, <1>5
  <2>2. CASE i \in 1..Len(s) /\ t[i] = s[i]
    BY <1>4, <2>2
  <2>3. CASE i - Len(s) \in 1..l /\ t[i] = [of |-> r, at |-> i - Len(s)]
    BY <2>3
  <2>4. QED
    BY <2>1, <2>2, <2>3
<1>10. t # << >>
  BY <1>2, <1>3, EmptySeq
<1>11. IF s = << >> THEN t[1].at = 1 ELSE t[1] = s[1]
  <2>1. CASE s = << >>
    <3>1. Len(s) = 0 /\ 1 \in 1..(Len(s) + l)
      BY <1>2, <1>3, <2>1, EmptySeq
    <3>2. ~(1 \in 1..Len(s)) /\ 1 - Len(s) = 1
      BY <3>1
    <3>3. t[1] = [of |-> r, at |-> 1]
      BY <1>5, <3>1, <3>2
    <3>4. QED
      BY <2>1, <3>3
  <2>2. CASE s # << >>
    <3>1. 1 \in 1..Len(s)
      BY <1>3, <2>2, EmptySeq
    <3>2. QED
      BY <1>3, <2>2, <3>1
  <2>3. QED
    BY <2>1, <2>2
<1>12. QED
  BY <1>4, <1>6, <1>7, <1>8, <1>9, <1>10, <1>11 DEF Stream!Whole, t, m

\* After the prefix of a message comes its body.
LEMMA PrefixRead ==
  ASSUME Stream!LengthAssumption, NEW lengths \in Seq(Nat), NEW s \in Seq(Stream!Bytes(lengths)),
         Stream!Whole(lengths, s), Len(s) >= PrefixSize, s[1].at = 1, lengths[s[1].of] # 0
  PROVE  /\ Stream!From(s, PrefixSize + 1) # << >>
         /\ Stream!From(s, PrefixSize + 1)[1] = [of |-> s[1].of, at |-> PrefixSize + 1]
<1> DEFINE t == Stream!From(s, PrefixSize + 1)
           r == s[1].of
<1>1. PrefixSize \in Nat \ {0} /\ Len(s) \in Nat /\ 1 \in 1..Len(s) /\ PrefixSize + 1 \in 1..(Len(s) + 1)
  BY LenProperties DEF Stream!LengthAssumption
<1>2. lengths[r] \in Nat \ {0} /\ DOMAIN s = 1..Len(s)
  BY <1>1, ByteType, LenProperties
<1>3. Stream!Runs(lengths, s)
  BY DEF Stream!Whole
<1>4. \A j \in Nat : 1 + j <= Len(s) /\ s[1].at + j <= PrefixSize + lengths[r]
        => s[1 + j] = [of |-> r, at |-> s[1].at + j]
  BY <1>1, <1>3, RunOn
<1>5. Len(s) # PrefixSize
  <2>1. SUFFICES ASSUME Len(s) = PrefixSize PROVE FALSE
    OBVIOUS
  <2>2. /\ PrefixSize - 1 \in Nat /\ 1 + (PrefixSize - 1) = PrefixSize
        /\ 1 + (PrefixSize - 1) <= PrefixSize + lengths[r]
    <3>1. \A x, y \in Nat : x # 0 => x - 1 \in Nat /\ 1 + (x - 1) = x /\ 1 + (x - 1) <= x + y
      OBVIOUS
    <3>2. PrefixSize \in Nat /\ PrefixSize # 0 /\ lengths[r] \in Nat
      BY <1>1, <1>2
    <3>3. QED
      BY <3>1, <3>2
  <2>3. s[PrefixSize] = [of |-> r, at |-> PrefixSize]
    BY <1>4, <2>1, <2>2
  <2>4. Stream!Final(lengths, s[PrefixSize])
    <3>1. s # << >>
      BY <1>1, EmptySeq
    <3>2. QED
      BY <2>1, <3>1 DEF Stream!Whole
  <2>5. PrefixSize = PrefixSize + lengths[r]
    BY <2>3, <2>4 DEF Stream!Final
  <2>6. \A x, y \in Nat : y # 0 => x # x + y
    OBVIOUS
  <2>7. PrefixSize \in Nat /\ lengths[r] \in Nat /\ lengths[r] # 0
    BY <1>1, <1>2
  <2>8. QED
    BY <2>5, <2>6, <2>7, ZenonT(30)
<1>6. 1 + PrefixSize <= Len(s) /\ 1 + PrefixSize <= PrefixSize + lengths[r]
  <2>1. \A x, y, z \in Nat : x >= y /\ x # y /\ z # 0 => 1 + y <= x /\ 1 + y <= y + z
    OBVIOUS
  <2> DEFINE l == lengths[r]
  <2>2. l \in Nat /\ l # 0
    BY <1>2
  <2> HIDE DEF l, r, t
  <2>3. 1 + PrefixSize <= Len(s) /\ 1 + PrefixSize <= PrefixSize + l
    BY <1>1, <1>5, <2>1, <2>2
  <2>4. QED
    BY <2>3 DEF l
<1>7. s[1 + PrefixSize] = [of |-> r, at |-> 1 + PrefixSize]
  BY <1>1, <1>4, <1>6
<1>8. /\ t \in Seq(Stream!Bytes(lengths)) /\ Len(t) = Len(s) - (PrefixSize + 1) + 1
      /\ \A i \in 1..(Len(s) - (PrefixSize + 1) + 1) : t[i] = s[PrefixSize + 1 + i - 1]
  BY <1>1, FromPart
<1> HIDE DEF t
<1>9. /\ 1 \in 1..(Len(s) - (PrefixSize + 1) + 1) /\ PrefixSize + 1 + 1 - 1 = 1 + PrefixSize
      /\ 1 + PrefixSize = PrefixSize + 1 /\ Len(t) # 0
  BY <1>1, <1>6, <1>8
<1>10. t # << >>
  BY <1>8, <1>9, EmptySeq
<1>11. t[1] = [of |-> r, at |-> PrefixSize + 1]
  BY <1>7, <1>8, <1>9
<1>12. QED
  BY <1>10, <1>11 DEF t, r

\* x is the body of message r, of n bytes, and t, which begins with another
\* message, has none of it.
BodyTaken(lengths, s, r, n, x, t) ==
  /\ r \in 1..Len(lengths) /\ x = Stream!Body(r, n) /\ x # << >> /\ x[1].of = r
  /\ \A i \in DOMAIN t : t[i].of # r /\ \E j \in DOMAIN s : t[i].of = s[j].of
  /\ t # << >> => t[1].at = 1

\* What is read of a body is the whole of it, and nothing of it is left.
LEMMA BodyRead ==
  ASSUME Stream!LengthAssumption, NEW lengths \in Seq(Nat), NEW s \in Seq(Stream!Bytes(lengths)),
         Stream!Whole(lengths, s), s # << >>, s[1].at = PrefixSize + 1,
         lengths[s[1].of] # 0, lengths[s[1].of] <= Len(s)
  PROVE  BodyTaken(lengths, s, s[1].of, lengths[s[1].of],
                   SubSeq(s, 1, lengths[s[1].of]), Stream!From(s, lengths[s[1].of] + 1))
<1>0. ASSUME NEW i \in 1..Len(s)
      PROVE  s[i].of \in 1..Len(lengths) /\ lengths[s[i].of] \in Nat /\ s[i] = [of |-> s[i].of, at |-> s[i].at]
  BY ByteType, ZenonT(30)
<1> DEFINE r == s[1].of
           n == lengths[r]
           x == SubSeq(s, 1, n)
           t == Stream!From(s, n + 1)
           B == Stream!Body(r, n)
<1>1. PrefixSize \in Nat \ {0} /\ Len(s) \in Nat
  BY LenProperties DEF Stream!LengthAssumption
<1>2. 1 \in 1..Len(s) /\ DOMAIN s = 1..Len(s)
  BY <1>1, EmptySeq, LenProperties
<1>3. n \in Nat /\ n # 0 /\ n <= Len(s) /\ r \in 1..Len(lengths) /\ s[1] = [of |-> r, at |-> PrefixSize + 1]
  <2>0. /\ s[1].of \in 1..Len(lengths) /\ lengths[s[1].of] \in Nat
        /\ s[1] = [of |-> s[1].of, at |-> s[1].at]
    BY <1>0, <1>2
  <2>1. r \in 1..Len(lengths) /\ lengths[r] \in Nat /\ s[1] = [of |-> s[1].of, at |-> s[1].at]
    BY <2>0
  <2>2. s[1] = [of |-> r, at |-> PrefixSize + 1]
    BY <2>1
  <2>3. QED
    BY <2>1, <2>2
<1>4. Stream!Runs(lengths, s)
  BY DEF Stream!Whole
<1>5. \A j \in Nat : 1 + j <= Len(s) /\ s[1].at + j <= PrefixSize + n => s[1 + j] = [of |-> r, at |-> s[1].at + j]
  BY <1>2, <1>4, RunOn
<1>6. /\ B \in Seq(Stream!Bytes(lengths)) /\ Len(B) = n /\ \A i \in 1..n : B[i] = [of |-> r, at |-> PrefixSize + i]
  BY <1>3, BodyShape
<1>13. s[1].at = PrefixSize + 1
  OBVIOUS
<1> HIDE DEF n, r, B
<1>7. n \in 0..Len(s) /\ n + 1 \in 1..(Len(s) + 1) /\ n \in 1..Len(s) /\ 1 \in 1..n
  <2>1. \A p, y \in Nat : p # 0 /\ p <= y => p \in 0..y /\ p + 1 \in 1..(y + 1) /\ p \in 1..y /\ 1 \in 1..p
    OBVIOUS
  <2>2. QED
    BY <1>1, <1>3, <2>1
<1>8. x \in Seq(Stream!Bytes(lengths)) /\ Len(x) = n /\ \A i \in 1..n : x[i] = s[i]
  BY <1>7, FirstPart
<1>9. /\ t \in Seq(Stream!Bytes(lengths)) /\ Len(t) = Len(s) - (n + 1) + 1
      /\ \A i \in 1..(Len(s) - (n + 1) + 1) : t[i] = s[n + 1 + i - 1]
  BY <1>7, FromPart
<1> HIDE DEF x, t
<1>10. ASSUME NEW i \in 1..n PROVE s[i] = [of |-> r, at |-> PrefixSize + i]
  <2>1. /\ i - 1 \in Nat /\ 1 + (i - 1) = i /\ 1 + (i - 1) <= Len(s)
        /\ (PrefixSize + 1) + (i - 1) = PrefixSize + i /\ (PrefixSize + 1) + (i - 1) <= PrefixSize + n
    BY <1>1, <1>3
  <2>2. s[1].at + (i - 1) = (PrefixSize + 1) + (i - 1)
    BY <1>13
  <2> DEFINE j == i - 1
  <2>3. /\ j \in Nat /\ 1 + j = i /\ 1 + j <= Len(s) /\ s[1].at + j = PrefixSize + i
        /\ s[1].at + j <= PrefixSize + n
    BY <2>1, <2>2
  <2> HIDE DEF j
  <2>4. s[1 + j] = [of |-> r, at |-> s[1].at + j]
    BY <1>5, <2>3
  <2>5. QED
    BY <2>3, <2>4
<1>11. x = B
  <2>1. Len(x) = Len(B) /\ \A i \in 1..Len(x) : x[i] = B[i]
    BY <1>6, <1>8, <1>10, <1>7
  <2>2. QED
    BY <1>6, <1>8, <2>1, SeqEqual
<1>12. x # << >> /\ x[1].of = r
  <2>1. Len(x) # 0
    BY <1>3, <1>8
  <2>2. x # << >>
    BY <1>8, <2>1, EmptySeq
  <2>3. x[1] = [of |-> r, at |-> PrefixSize + 1]
    BY <1>7, <1>8, <1>10
  <2>4. QED
    BY <2>2, <2>3
<1>14. DOMAIN t = 1..Len(t) /\ Len(t) \in Nat
  BY <1>9, LenProperties
<1>15. \A i \in DOMAIN t : n + i \in 1..Len(s) /\ t[i] = s[n + i]
  <2>1. ASSUME NEW i \in DOMAIN t PROVE n + i \in 1..Len(s) /\ t[i] = s[n + i]
    <3>1. n + i \in 1..Len(s) /\ n + 1 + i - 1 = n + i /\ i \in 1..(Len(s) - (n + 1) + 1)
      <4>1. \A p, y \in Nat : \A z \in 1..(y - (p + 1) + 1) :
              p + z \in 1..y /\ p + 1 + z - 1 = p + z /\ z \in 1..(y - (p + 1) + 1)
        OBVIOUS
      <4>2. i \in 1..(Len(s) - (n + 1) + 1)
        BY <1>9, <1>14
      <4>3. QED
        BY <1>1, <1>3, <4>1, <4>2
    <3>2. QED
      BY <1>9, <3>1
  <2>2. QED
    BY <2>1
<1>16. ASSUME NEW i \in DOMAIN t PROVE t[i].of # r /\ \E j \in DOMAIN s : t[i].of = s[j].of
  <2>1. n + i \in DOMAIN s /\ t[i] = s[n + i] /\ 1 \in DOMAIN s
    BY <1>2, <1>15
  <2>2. SUFFICES ASSUME t[i].of = r PROVE FALSE
    BY <2>1
  <2>3. s[1].of = s[n + i].of
    BY <2>1, <2>2 DEF r
  <2>4. \A a, b \in DOMAIN s : s[a].of = s[b].of => s[a].at + b = s[b].at + a
    BY DEF Stream!Whole
  <2>5. s[1].at + (n + i) = s[n + i].at + 1
    BY <2>1, <2>3, <2>4
  <2>6. s[n + i].at <= PrefixSize + lengths[s[n + i].of]
    BY <1>4, <2>1 DEF Stream!Runs
  <2>7. s[n + i].at <= PrefixSize + n /\ s[n + i].at \in Nat
    <3>1. lengths[s[n + i].of] = n
      BY <2>3 DEF n, r
    <3>2. s[n + i].at \in Nat
      BY <1>15, ByteType
    <3>3. QED
      BY <2>6, <3>1, <3>2
  <2> DEFINE a == s[n + i].at
  <2>8. (PrefixSize + 1) + (n + i) = a + 1 /\ a <= PrefixSize + n /\ a \in Nat
    <3>1. (PrefixSize + 1) + (n + i) = s[n + i].at + 1
      BY <1>13, <2>5, Zenon
    <3>2. QED
      BY <2>7, <3>1
  <2> HIDE DEF a
  <2>9. i \in Nat \ {0}
    BY <1>14
  <2>10. \A p, k, y \in Nat : \A z \in Nat \ {0} : ~((p + 1) + (k + z) = y + 1 /\ y <= p + k)
    OBVIOUS
  <2>11. QED
    BY <1>1, <1>3, <2>8, <2>9, <2>10
<1>17. t # << >> => t[1].at = 1
  <2>1. SUFFICES ASSUME t # << >> PROVE t[1].at = 1
    OBVIOUS
  <2>2. 1 \in DOMAIN t
    BY <1>9, <1>14, <2>1, EmptySeq
  <2>3. n + 1 \in 1..Len(s) /\ t[1] = s[n + 1]
    BY <1>15, <2>2
  <2>4. s[n] = [of |-> r, at |-> PrefixSize + n]
    <3>1. n \in 1..n
      BY <1>3
    <3>2. QED
      BY <1>10, <3>1
  <2>5. Stream!Final(lengths, s[n])
    BY <2>4 DEF Stream!Final, n
  <2>6. n \in DOMAIN s /\ n < Len(s)
    BY <1>1, <1>2, <1>7, <2>3
  <2>7. s[n + 1].at = 1
    BY <1>4, <2>5, <2>6 DEF Stream!Runs
  <2>8. QED
    BY <2>3, <2>7
<1>18. QED
  <2>1. BodyTaken(lengths, s, r, n, x, t)
    BY <1>3, <1>11, <1>12, <1>16, <1>17 DEF BodyTaken, B
  <2>2. QED
    BY <2>1 DEF x, t, n, r

\* The types of what the client reads.
LEMMA DownType ==
  ASSUME Stream!LengthAssumption, Stream!TypeOK
  PROVE  /\ PrefixSize \in Nat \ {0} /\ MaxLength \in Nat /\ Room \in Nat /\ Len(Requests) \in Nat
         /\ Stream!Replies \in Seq(Nat) /\ Len(Stream!Replies) = Len(Requests) + 1
         /\ down \in Seq(Stream!Bytes(Stream!Replies)) /\ Len(down) \in Nat /\ Len(down) <= Room
         /\ DOMAIN down = 1..Len(down)
         /\ received \in Seq(Seq(Stream!Bytes(Stream!Replies))) /\ Len(received) \in Nat
         /\ DOMAIN received = 1..Len(received)
         /\ Len(extracted) \in Nat /\ asked \in Nat
         /\ waiting \subseteq 1..Len(Requests) /\ {cut, overlap, expired} \subseteq BOOLEAN /\ strays \in 0..1
         /\ client \in [connected : BOOLEAN, fd : BOOLEAN, closed : BOOLEAN]
<1>1. /\ PrefixSize \in Nat \ {0} /\ MaxLength \in Nat /\ Room \in Nat
  BY DEF Stream!LengthAssumption
<1>2. /\ down \in Seq(Stream!Bytes(Stream!Replies)) /\ Len(down) <= Room
      /\ received \in Seq(Seq(Stream!Bytes(Stream!Replies)))
      /\ waiting \subseteq 1..Len(Requests) /\ {cut, overlap, expired} \subseteq BOOLEAN /\ strays \in 0..1
      /\ client \in [connected : BOOLEAN, fd : BOOLEAN, closed : BOOLEAN]
  BY DEF Stream!TypeOK
<1>3. Len(down) \in Nat /\ DOMAIN down = 1..Len(down)
      /\ Len(received) \in Nat /\ DOMAIN received = 1..Len(received)
  BY <1>2, LenProperties
<1>4. Len(extracted) \in Nat /\ asked \in Nat
  BY UpType
<1>5. QED
  BY <1>1, <1>2, <1>3, <1>4, RepliesShape

\* An answer is written as far as there is room for it.
LEMMA ResponseSent ==
  ASSUME Stream!LengthAssumption, Stream!TypeOK, NEW m \in Seq(Stream!Bytes(Stream!Replies)),
         Stream!SendResponse(m)
  PROVE  /\ down' \in Seq(Stream!Bytes(Stream!Replies)) /\ Len(down') <= Room /\ cut' \in BOOLEAN
         /\ cut => cut'
         /\ ~cut' => down' = down \/ down' = down \o m
<1>1. /\ down \in Seq(Stream!Bytes(Stream!Replies)) /\ Len(down) \in Nat /\ Len(down) <= Room
      /\ Room \in Nat /\ cut \in BOOLEAN
  BY DownType
<1>2. CASE ~(server /\ client.fd)
  BY <1>1, <1>2 DEF Stream!SendResponse
<1>3. CASE server /\ client.fd
  <2> DEFINE k == Stream!Least(Len(m), Room - Len(down))
             w == SubSeq(m, 1, k)
  <2>1. down' = down \o w /\ cut' = (cut \/ Len(w) < Len(m))
    BY <1>3 DEF Stream!SendResponse, Stream!Written
  <2>2. Len(m) \in Nat
    BY LenProperties
  <2>3. k \in 0..Len(m) /\ Len(down) + k <= Room
    <3>1. \A x, y, z \in Nat : y <= z =>
            /\ Stream!Least(x, z - y) \in 0..x
            /\ y + Stream!Least(x, z - y) <= z
      BY DEF Stream!Least
    <3>2. QED
      BY <1>1, <2>2, <3>1
  <2> HIDE DEF k
  <2>4. w \in Seq(Stream!Bytes(Stream!Replies)) /\ Len(w) = k
    BY <2>3, FirstPart
  <2>5. ~(k < Len(m)) => w = m
    <3>1. SUFFICES ASSUME ~(k < Len(m)) PROVE w = m
      OBVIOUS
    <3>2. k = Len(m)
      BY <2>2, <2>3, <3>1
    <3>3. \A i \in 1..k : w[i] = m[i]
      BY <2>3, FirstPart
    <3>4. QED
      BY <2>4, <3>2, <3>3, SeqEqual
  <2> HIDE DEF w
  <2>6. down \o w \in Seq(Stream!Bytes(Stream!Replies)) /\ Len(down \o w) = Len(down) + k
    BY <1>1, <2>4, ConcatProperties
  <2>7. down' \in Seq(Stream!Bytes(Stream!Replies)) /\ Len(down') <= Room
    BY <2>1, <2>3, <2>6
  <2>8. cut' \in BOOLEAN /\ (cut => cut') /\ (~cut' => ~(k < Len(m)))
    BY <1>1, <2>1, <2>4
  <2>9. QED
    BY <2>1, <2>5, <2>7, <2>8
<1>4. QED
  BY <1>2, <1>3

\* What a prefix may say, if receive() takes it.
LEMMA LengthType ==
  ASSUME Stream!LengthAssumption, NEW lengths \in Seq(Nat), NEW s \in Seq(Stream!Bytes(lengths)), Len(s) >= PrefixSize,
         NEW length \in Stream!Lengths(s, lengths)
  PROVE  length \in Nat /\ (~Stream!Refused(length) => length \in 1..MaxLength)
<1>1. PrefixSize \in Nat \ {0} /\ MaxLength \in Nat /\ Len(s) \in Nat
  BY LenProperties DEF Stream!LengthAssumption
<1>2. 1 \in 1..Len(s)
  BY <1>1
<1>3. lengths[s[1].of] \in Nat
  BY <1>2, ByteType
<1>4. length \in {lengths[s[1].of]} \/ length \in 0..(MaxLength + 1)
  BY DEF Stream!Lengths
<1>5. length \in Nat
  BY <1>1, <1>3, <1>4
<1>6. QED
  BY <1>1, <1>5 DEF Stream!Refused

\* receive() takes a prefix.
LEMMA TypePrefix ==
  ASSUME Stream!LengthAssumption, Stream!TypeOK, Stream!ReceivePrefix
  PROVE  Stream!TypeOK'
<1>1. /\ down \in Seq(Stream!Bytes(Stream!Replies)) /\ Len(down) \in Nat /\ Len(down) <= Room
      /\ Room \in Nat /\ PrefixSize \in Nat \ {0} /\ Stream!Replies \in Seq(Nat)
      /\ client \in [connected : BOOLEAN, fd : BOOLEAN, closed : BOOLEAN]
  BY DownType
<1>2. /\ Len(down) >= PrefixSize /\ down' = Stream!From(down, PrefixSize + 1)
      /\ UNCHANGED <<server, up, asked, buffer, extracted, waiting, received, strays, cut, overlap, expired>>
  BY DEF Stream!ReceivePrefix
<1>3. PICK length \in Stream!Lengths(down, Stream!Replies) :
        IF Stream!Refused(length)
        THEN reading' = Stream!Nothing /\ client' = [client EXCEPT !.connected = FALSE]
        ELSE reading' = Stream!BodyOf(length) /\ UNCHANGED client
  BY DEF Stream!ReceivePrefix
<1>4. ~Stream!Refused(length) => length \in 1..MaxLength
  BY <1>1, <1>2, LengthType
<1>5. PrefixSize + 1 \in 1..(Len(down) + 1)
  BY <1>1, <1>2
<1>6. down' \in Seq(Stream!Bytes(Stream!Replies)) /\ Len(down') = Len(down) - (PrefixSize + 1) + 1
  BY <1>1, <1>2, <1>5, FromPart
<1>7. Len(down') <= Room
  BY <1>1, <1>2, <1>6
<1>8. reading' \in {Stream!Nothing, Stream!Prefix} \union {Stream!BodyOf(n) : n \in 1..MaxLength}
  BY <1>3, <1>4
<1>9. client' \in [connected : BOOLEAN, fd : BOOLEAN, closed : BOOLEAN]
  BY <1>1, <1>3
<1>10. QED
  BY <1>2, <1>6, <1>7, <1>8, <1>9 DEF Stream!TypeOK

\* receive() takes a body.
LEMMA TypeBody ==
  ASSUME Stream!LengthAssumption, Stream!TypeOK, Stream!ReceiveBody
  PROVE  Stream!TypeOK'
<1>1. /\ down \in Seq(Stream!Bytes(Stream!Replies)) /\ Len(down) \in Nat /\ Len(down) <= Room
      /\ Room \in Nat /\ received \in Seq(Seq(Stream!Bytes(Stream!Replies)))
      /\ MaxLength \in Nat
  BY DownType
<1>2. /\ reading.stage = "body" /\ reading' = Stream!Nothing
      /\ UNCHANGED <<client, server, up, asked, buffer, extracted, waiting, strays, cut, overlap, expired>>
  BY DEF Stream!ReceiveBody
<1>3. PICK n \in Stream!Portion(reading.length) :
        received' = Append(received, SubSeq(down, 1, n)) /\ down' = Stream!From(down, n + 1)
  BY DEF Stream!ReceiveBody
<1>4. n = reading.length /\ n <= Len(down)
  BY <1>3 DEF Stream!Portion
<1>5. reading.length \in Nat
  <2>1. reading \in {Stream!Nothing, Stream!Prefix} \union {Stream!BodyOf(k) : k \in 1..MaxLength}
    BY DEF Stream!TypeOK
  <2>2. PICK k \in 1..MaxLength : reading = Stream!BodyOf(k)
    BY <1>2, <2>1 DEF Stream!Nothing, Stream!Prefix
  <2>3. reading.length = k
    BY <2>2 DEF Stream!BodyOf
  <2>4. QED
    BY <1>1, <2>3
<1>6. n \in 0..Len(down) /\ n + 1 \in 1..(Len(down) + 1)
  BY <1>1, <1>4, <1>5
<1>7. SubSeq(down, 1, n) \in Seq(Stream!Bytes(Stream!Replies))
  BY <1>1, <1>6, FirstPart
<1>8. received' \in Seq(Seq(Stream!Bytes(Stream!Replies)))
  BY <1>1, <1>3, <1>7, AppendProperties
<1>9. down' \in Seq(Stream!Bytes(Stream!Replies)) /\ Len(down') = Len(down) - (n + 1) + 1
  BY <1>1, <1>3, <1>6, FromPart
<1>10. Len(down') <= Room
  BY <1>1, <1>6, <1>9
<1>11. QED
  BY <1>2, <1>8, <1>9, <1>10 DEF Stream!TypeOK

\* Messages that the server may send.
LEMMA AnswerType ==
  ASSUME Stream!LengthAssumption
  PROVE  /\ \A r \in 1..Len(Requests) :
              /\ r \in 1..Len(Stream!Replies) /\ Stream!Replies[r] = Answers[r]
              /\ Stream!Message(r, Answers[r]) \in Seq(Stream!Bytes(Stream!Replies))
         /\ Stream!StrayId \in 1..Len(Stream!Replies) /\ Stream!Replies[Stream!StrayId] = Stray
         /\ Stream!Message(Stream!StrayId, Stray) \in Seq(Stream!Bytes(Stream!Replies))
<1>1. /\ Stream!Replies \in Seq(Nat) /\ Len(Stream!Replies) = Len(Requests) + 1
      /\ Len(Requests) \in Nat /\ Stream!StrayId = Len(Requests) + 1
      /\ \A r \in 1..Len(Requests) : Stream!Replies[r] = Answers[r]
      /\ Stream!Replies[Stream!StrayId] = Stray
  BY RepliesShape
<1>2. (\A r \in 1..Len(Requests) : r \in 1..Len(Stream!Replies)) /\ Stream!StrayId \in 1..Len(Stream!Replies)
  BY <1>1
<1>3. \A r \in 1..Len(Stream!Replies) :
        Stream!Message(r, Stream!Replies[r]) \in Seq(Stream!Bytes(Stream!Replies))
  BY <1>1, MessageShape
<1>4. Stream!Message(Stream!StrayId, Stray) \in Seq(Stream!Bytes(Stream!Replies))
  BY <1>1, <1>2, <1>3
<1>5. ASSUME NEW r \in 1..Len(Requests)
      PROVE  Stream!Message(r, Answers[r]) \in Seq(Stream!Bytes(Stream!Replies))
  <2>1. Stream!Message(r, Stream!Replies[r]) \in Seq(Stream!Bytes(Stream!Replies)) /\ Stream!Replies[r] = Answers[r]
    BY <1>1, <1>2, <1>3
  <2>2. QED
    BY <2>1
<1>6. QED
  BY <1>1, <1>2, <1>4, <1>5

\* The client sends a request, or fails or dies in the middle of it.
LEMMA TypeSend ==
  ASSUME Stream!LengthAssumption, Stream!TypeOK, Stream!Send \/ Stream!SendFails \/ Stream!Die
  PROVE  Stream!TypeOK'
<1> DEFINE r == asked + 1
           m == Stream!Message(r, Requests[r])
           B == Seq(Stream!Bytes(Requests))
<1>1. /\ Requests \in Seq(Nat) /\ Len(Requests) \in Nat /\ asked \in 0..Len(Requests) /\ up \in B
      /\ PrefixSize \in Nat \ {0}
      /\ client \in [connected : BOOLEAN, fd : BOOLEAN, closed : BOOLEAN]
  BY UpType
<1>2. ASSUME asked < Len(Requests)
      PROVE  /\ r \in 0..Len(Requests) /\ Requests[r] \in Nat /\ up \o m \in B
             /\ \A n \in 0..(PrefixSize + Requests[r] - 1) : up \o SubSeq(m, 1, n) \in B
  <2>1. r \in 1..Len(Requests) /\ r \in 0..Len(Requests)
    BY <1>1, <1>2
  <2>2. Requests[r] \in Nat
    BY <1>1, <2>1, ElementOfSeq
  <2>3. m \in B /\ Len(m) = PrefixSize + Requests[r]
    BY <1>1, <2>1, MessageShape
  <2> DEFINE l == Requests[r]
  <2>4. l \in Nat /\ Len(m) = PrefixSize + l
    BY <2>2, <2>3
  <2> HIDE DEF m, r, l
  <2>5. \A n \in 0..(PrefixSize + l - 1) : n \in 0..Len(m)
    <3>1. \A p, x \in Nat : \A n \in 0..(p + x - 1) : n \in 0..(p + x)
      OBVIOUS
    <3>2. QED
      BY <1>1, <2>4, <3>1
  <2>6. \A n \in 0..(PrefixSize + l - 1) : SubSeq(m, 1, n) \in B
    BY <2>3, <2>5, FirstPart
  <2>7. \A n \in 0..(PrefixSize + l - 1) : up \o SubSeq(m, 1, n) \in B
    BY <1>1, <2>6, ConcatProperties
  <2>8. up \o m \in B
    BY <1>1, <2>3, ConcatProperties
  <2>9. QED
    BY <2>1, <2>2, <2>7, <2>8 DEF l
<1> HIDE DEF r, m
<1>3. CASE Stream!Send
  <2>1. /\ asked < Len(Requests) /\ asked' = r
        /\ up' = up \o m \/ up' = up
        /\ overlap' = (overlap \/ Len(received) < asked)
        /\ UNCHANGED <<client, server, down, buffer, extracted, waiting, reading, received, strays, cut, expired>>
    BY <1>3 DEF Stream!Send, r, m
  <2>2. up' \in B /\ asked' \in 0..Len(Requests)
    BY <1>1, <1>2, <2>1
  <2>3. overlap' \in BOOLEAN
    BY <2>1 DEF Stream!TypeOK
  <2>4. QED
    BY <2>1, <2>2, <2>3 DEF Stream!TypeOK
<1>4. CASE Stream!Die
  <2>1. /\ \/ UNCHANGED up
           \/ asked < Len(Requests) /\ \E n \in 1..(PrefixSize + Requests[r] - 1) : up' = up \o SubSeq(m, 1, n)
        /\ client' = [connected |-> FALSE, fd |-> FALSE, closed |-> TRUE] /\ reading' = Stream!Nothing
        /\ UNCHANGED <<server, down, asked, buffer, extracted, waiting, received, strays, cut, overlap, expired>>
    BY <1>4 DEF Stream!Die, r, m
  <2>2. up' \in B
    <3>1. \A p : \A n \in 1..p : n \in 0..p
      OBVIOUS
    <3>2. QED
      BY <1>1, <1>2, <2>1, <3>1
  <2>3. client' \in [connected : BOOLEAN, fd : BOOLEAN, closed : BOOLEAN]
    BY <2>1
  <2>4. QED
    BY <2>1, <2>2, <2>3 DEF Stream!TypeOK
<1>5. CASE Stream!SendFails
  <2>1. /\ asked < Len(Requests)
        /\ \/ UNCHANGED up
           \/ \E n \in 0..(PrefixSize + Requests[r] - 1) : up' = up \o SubSeq(m, 1, n)
        /\ client' = [client EXCEPT !.connected = FALSE] /\ expired' = (expired \/ server)
        /\ UNCHANGED <<server, down, asked, buffer, extracted, waiting, reading, received, strays, cut, overlap>>
    BY <1>5 DEF Stream!SendFails, r, m
  <2>2. up' \in B
    BY <1>1, <1>2, <2>1
  <2>3. client' \in [connected : BOOLEAN, fd : BOOLEAN, closed : BOOLEAN]
    BY <1>1, <2>1
  <2>4. expired' \in BOOLEAN
    BY <2>1 DEF Stream!TypeOK
  <2>5. QED
    BY <2>1, <2>2, <2>3, <2>4 DEF Stream!TypeOK
<1>6. QED
  BY <1>3, <1>4, <1>5

\* receive() gives up.
LEMMA TypeFails ==
  ASSUME Stream!LengthAssumption, Stream!TypeOK, Stream!ReceiveFails
  PROVE  Stream!TypeOK'
<1>1. /\ client \in [connected : BOOLEAN, fd : BOOLEAN, closed : BOOLEAN] /\ Room \in Nat
  BY DownType
<1>2. /\ client' = [client EXCEPT !.connected = FALSE] /\ down' = << >> /\ reading' = Stream!Nothing
      /\ expired' = (expired \/ server)
      /\ UNCHANGED <<server, up, asked, buffer, extracted, waiting, received, strays, cut, overlap>>
  BY DEF Stream!ReceiveFails
<1>3. << >> \in Seq(Stream!Bytes(Stream!Replies)) /\ Len(<< >>) = 0
  BY EmptySeq
<1>4. down' \in Seq(Stream!Bytes(Stream!Replies)) /\ Len(down') <= Room
  BY <1>1, <1>2, <1>3
<1>5. client' \in [connected : BOOLEAN, fd : BOOLEAN, closed : BOOLEAN] /\ expired' \in BOOLEAN
  BY <1>1, <1>2 DEF Stream!TypeOK
<1>6. QED
  BY <1>2, <1>4, <1>5 DEF Stream!TypeOK

\* The other steps of the client.
LEMMA TypeClient ==
  ASSUME Stream!LengthAssumption, Stream!TypeOK, Stream!Receive \/ Stream!Close
  PROVE  Stream!TypeOK'
<1>1. client \in [connected : BOOLEAN, fd : BOOLEAN, closed : BOOLEAN]
  BY UpType
<1>2. /\ UNCHANGED <<server, up, down, asked, buffer, extracted, waiting, received, strays, cut, overlap, expired>>
      /\ reading' = Stream!Prefix \/ reading' = reading
      /\ client' = client \/ client' = [connected |-> FALSE, fd |-> Stream!ClosedFd, closed |-> TRUE]
  BY DEF Stream!Receive, Stream!Close
<1>3. Stream!ClosedFd \in BOOLEAN
  BY DEF Stream!ClosedFd
<1>4. client' \in [connected : BOOLEAN, fd : BOOLEAN, closed : BOOLEAN]
  <2>1. CASE client' = client
    BY <1>1, <2>1
  <2>2. CASE client' = [connected |-> FALSE, fd |-> Stream!ClosedFd, closed |-> TRUE]
    BY <1>3, <2>2, Zenon
  <2>3. QED
    BY <1>2, <2>1, <2>2
<1>5. QED
  BY <1>2, <1>4 DEF Stream!TypeOK

\* The steps of the server.
LEMMA TypeServer ==
  ASSUME Stream!LengthAssumption, Stream!TypeOK, Stream!UpStream,
         \/ Stream!HandleClientData \/ Stream!CloseConnection \/ Stream!Stop \/ Stream!AnswerAstray
         \/ \E r \in waiting : Stream!HandleRequest(r)
  PROVE  Stream!TypeOK'
<1>1. CASE Stream!CloseConnection \/ Stream!Stop
  BY <1>1 DEF Stream!CloseConnection, Stream!Stop, Stream!TypeOK
<1>2. CASE Stream!HandleClientData
  <2>1. /\ Stream!UpStream' /\ extracted' \in Seq(Seq(Stream!Bytes(Requests)))
        /\ up' \in Seq(Stream!Bytes(Requests)) /\ buffer' \in Seq(Stream!Bytes(Requests))
    BY <1>2, UpRead
  <2>2. /\ waiting' = waiting \union (Len(extracted) + 1)..Len(extracted')
        /\ UNCHANGED <<client, server, down, asked, reading, received, strays, cut, overlap, expired>>
    BY <1>2 DEF Stream!HandleClientData
  <2>3. asked \in 0..Len(Requests) /\ Len(extracted) \in Nat /\ waiting \subseteq 1..Len(Requests) /\ Len(Requests) \in Nat
    BY UpType, DownType
  <2>4. Len(extracted') <= asked /\ Len(extracted') \in Nat
    BY <2>1, <2>2, LenProperties DEF Stream!UpStream
  <2>5. waiting' \subseteq 1..Len(Requests)
    <3>1. \A x, y, z \in Nat : y <= z => (x + 1)..y \subseteq 1..z
      OBVIOUS
    <3>2. asked \in Nat /\ asked <= Len(Requests) /\ Len(extracted') <= Len(Requests)
      BY <2>3, <2>4
    <3>3. (Len(extracted) + 1)..Len(extracted') \subseteq 1..Len(Requests)
      BY <2>3, <2>4, <3>1, <3>2
    <3>4. QED
      BY <2>2, <2>3, <3>3
  <2>6. QED
    BY <2>1, <2>2, <2>5 DEF Stream!TypeOK
<1>3. CASE Stream!AnswerAstray
  <2>1. Stream!SendResponse(Stream!Message(Stream!StrayId, Stray)) /\ strays' = 1
        /\ UNCHANGED <<client, server, up, asked, buffer, extracted, waiting, reading, received, overlap, expired>>
    BY <1>3 DEF Stream!AnswerAstray
  <2>2. down' \in Seq(Stream!Bytes(Stream!Replies)) /\ Len(down') <= Room /\ cut' \in BOOLEAN
    BY <2>1, AnswerType, ResponseSent
  <2>3. QED
    BY <2>1, <2>2 DEF Stream!TypeOK
<1>4. CASE \E r \in waiting : Stream!HandleRequest(r)
  <2>1. PICK r \in waiting : Stream!HandleRequest(r)
    BY <1>4
  <2>2. Stream!SendResponse(Stream!Message(r, Answers[r])) /\ waiting' = waiting \ {r}
        /\ UNCHANGED <<client, server, up, asked, buffer, extracted, reading, received, strays, overlap, expired>>
    BY <2>1 DEF Stream!HandleRequest
  <2>3. r \in 1..Len(Requests) /\ waiting' \subseteq 1..Len(Requests)
    BY <2>1, <2>2, DownType
  <2>4. down' \in Seq(Stream!Bytes(Stream!Replies)) /\ Len(down') <= Room /\ cut' \in BOOLEAN
    BY <2>2, <2>3, AnswerType, ResponseSent
  <2>5. QED
    BY <2>2, <2>3, <2>4 DEF Stream!TypeOK
<1>5. QED
  BY <1>1, <1>2, <1>3, <1>4

\* Every step keeps the types.
LEMMA StreamTypes ==
  ASSUME Stream!LengthAssumption, Stream!TypeOK, Stream!UpStream, [Stream!Next]_(Stream!vars)
  PROVE  Stream!TypeOK'
<1>1. CASE UNCHANGED Stream!vars
  BY <1>1 DEF Stream!vars, Stream!TypeOK
<1>2. CASE Stream!ReceivePrefix
  BY <1>2, TypePrefix
<1>3. CASE Stream!ReceiveBody
  BY <1>3, TypeBody
<1>4. CASE Stream!Receive \/ Stream!Close
  BY <1>4, TypeClient
<1>5. CASE Stream!Send \/ Stream!SendFails \/ Stream!Die
  BY <1>5, TypeSend
<1>6. CASE \/ Stream!HandleClientData \/ Stream!CloseConnection \/ Stream!Stop \/ Stream!AnswerAstray
           \/ \E r \in waiting : Stream!HandleRequest(r)
  BY <1>6, TypeServer
<1>7. CASE Stream!ReceiveFails
  BY <1>7, TypeFails
<1>8. QED
  BY <1>1, <1>2, <1>3, <1>4, <1>5, <1>6, <1>7 DEF Stream!Next, Stream!ClientStep, Stream!ServerStep

\* What holds of the answers as long as none was cut.
DownPart == (~cut => Stream!Answered) /\ (~cut /\ client.connected => Stream!DownStream)

\* A step that neither sends nor takes an answer.
LEMMA DownQuiet ==
  ASSUME DownPart, UNCHANGED <<down, received, waiting, extracted, strays, cut>>,
         ~overlap' => ~overlap /\ (asked <= Len(received) + 1 => asked' <= Len(received') + 1),
         client'.connected =>
           client.connected /\ (reading' = reading \/ (reading.stage # "body" /\ reading'.stage # "body"))
  PROVE  DownPart'
<1>1. ASSUME ~cut PROVE Stream!Answered'
  <2>1. Stream!Answered
    BY <1>1 DEF DownPart
  <2>2. ~overlap' => asked' <= Len(received') + 1
    BY <2>1 DEF Stream!Answered
  <2>3. QED
    BY <2>1, <2>2 DEF Stream!Answered, Stream!Returned, Stream!Coming, Stream!Astray
<1>2. ASSUME ~cut, client'.connected PROVE Stream!DownStream'
  <2>1. Stream!DownStream
    BY <1>2 DEF DownPart
  <2>2. CASE reading' = reading
    BY <2>1, <2>2, ZenonT(30) DEF Stream!DownStream, Stream!Returned, Stream!Coming
  <2>3. CASE reading.stage # "body" /\ reading'.stage # "body"
    BY <2>1, <2>3 DEF Stream!DownStream, Stream!Returned, Stream!Coming
  <2>4. QED
    BY <1>2, <2>2, <2>3
<1>3. QED
  BY <1>1, <1>2 DEF DownPart

\* receive() gives up: the connection will not be used again.
LEMMA DownFails ==
  ASSUME Stream!LengthAssumption, Stream!TypeOK, DownPart, Stream!ReceiveFails
  PROVE  DownPart'
<1>1. client \in [connected : BOOLEAN, fd : BOOLEAN, closed : BOOLEAN]
  BY UpType
<1>2. /\ down' = << >> /\ client' = [client EXCEPT !.connected = FALSE]
      /\ UNCHANGED <<received, waiting, extracted, strays, cut, overlap, asked>>
  BY DEF Stream!ReceiveFails
<1>3. ~client'.connected
  BY <1>1, <1>2
<1>4. ASSUME ~cut PROVE Stream!Answered'
  <2>1. Stream!Answered
    BY <1>4 DEF DownPart
  <2>2. Stream!Coming' = {}
    BY <1>2 DEF Stream!Coming
  <2>3. Stream!Returned' = Stream!Returned /\ Stream!Astray' = Stream!Astray
    BY <1>2 DEF Stream!Returned, Stream!Astray
  <2>4. QED
    BY <1>2, <2>1, <2>2, <2>3 DEF Stream!Answered
<1>5. QED
  BY <1>2, <1>3, <1>4 DEF DownPart

\* The next messages are extracted.
LEMMA DownHandle ==
  ASSUME Stream!LengthAssumption, Stream!TypeOK, Stream!UpStream, DownPart, Stream!HandleClientData
  PROVE  DownPart'
<1> DEFINE L == Len(extracted)
           M == Len(extracted')
<1>1. /\ waiting' = waiting \union (L + 1)..M
      /\ UNCHANGED <<client, down, asked, reading, received, strays, cut, overlap>>
  BY DEF Stream!HandleClientData
<1>2. L \in Nat /\ M \in Nat /\ L <= M
  BY DownType, UpRead, LenProperties
<1>3. ASSUME ~cut PROVE Stream!Answered'
  <2>1. Stream!Answered
    BY <1>3 DEF DownPart
  <2>2. waiting \subseteq 1..L /\ Stream!Returned \union Stream!Coming \subseteq ((1..L) \ waiting) \union Stream!Astray
    BY <2>1 DEF Stream!Answered
  <2>3. 1..L \subseteq 1..M /\ (L + 1)..M \subseteq 1..M /\ \A r \in 1..L : r \notin (L + 1)..M
    <3>1. \A x, y \in Nat : x <= y =>
            1..x \subseteq 1..y /\ (x + 1)..y \subseteq 1..y /\ \A r \in 1..x : r \notin (x + 1)..y
      OBVIOUS
    <3> HIDE DEF L, M
    <3>2. QED
      BY <1>2, <3>1
  <2>4. Stream!Returned' = Stream!Returned /\ Stream!Coming' = Stream!Coming /\ Stream!Astray' = Stream!Astray
    BY <1>1 DEF Stream!Returned, Stream!Coming, Stream!Astray
  <2> DEFINE X == Stream!Returned \union Stream!Coming
             U == 1..L
             V == 1..M
             W == (L + 1)..M
             Y == Stream!Astray
  <2>5. waiting' \subseteq V /\ X \subseteq (V \ waiting') \union Y
    <3>1. /\ waiting \subseteq U /\ X \subseteq (U \ waiting) \union Y /\ U \subseteq V /\ W \subseteq V
          /\ (\A r \in U : r \notin W) /\ waiting' = waiting \union W
      BY <1>1, <2>2, <2>3
    <3> HIDE DEF X, Y, U, V, W
    <3>2. QED
      BY <3>1
  <2>6. /\ waiting' \subseteq 1..Len(extracted')
        /\ (Stream!Returned \union Stream!Coming)' \subseteq ((1..Len(extracted')) \ waiting') \union Stream!Astray'
    BY <2>4, <2>5
  <2>7. QED
    BY <1>1, <2>1, <2>6 DEF Stream!Answered
<1>4. ASSUME ~cut, client.connected PROVE Stream!DownStream'
  <2>1. Stream!DownStream
    BY <1>4 DEF DownPart
  <2>2. QED
    BY <1>1, <2>1, ZenonT(30) DEF Stream!DownStream, Stream!Returned, Stream!Coming
<1>5. QED
  BY <1>1, <1>3, <1>4 DEF DownPart

\* What a message adds to a stream are bytes of its own.
LEMMA MoreOf ==
  ASSUME Stream!LengthAssumption, NEW lengths \in Seq(Nat), NEW s \in Seq(Stream!Bytes(lengths)),
         NEW r \in 1..Len(lengths)
  PROVE  \A i \in DOMAIN (s \o Stream!Message(r, lengths[r])) :
           \/ (s \o Stream!Message(r, lengths[r]))[i].of = r
           \/ \E j \in DOMAIN s : (s \o Stream!Message(r, lengths[r]))[i].of = s[j].of
<1> DEFINE m == Stream!Message(r, lengths[r])
           t == s \o m
           l == PrefixSize + lengths[r]
<1>1. m \in Seq(Stream!Bytes(lengths)) /\ Len(m) = l /\ \A i \in 1..l : m[i] = [of |-> r, at |-> i]
  BY MessageShape
<1> HIDE DEF l, m
<1>2. \A i \in 1..Len(m) : m[i].of = r
  BY <1>1
<1>3. m \in Seq(Stream!Bytes(lengths))
  BY <1>1
<1>4. /\ t \in Seq(Stream!Bytes(lengths)) /\ Len(s) \in Nat /\ Len(m) \in Nat /\ Len(t) = Len(s) + Len(m)
      /\ \A i \in 1..Len(s) : t[i] = s[i]
      /\ \A i \in 1..Len(m) : t[Len(s) + i] = m[i]
      /\ \A i \in 1..(Len(s) + Len(m)) : i \in 1..Len(s) \/ (i - Len(s) \in 1..Len(m) /\ i = Len(s) + (i - Len(s)))
  <2> DEFINE S == Stream!Bytes(lengths)
  <2>1. s \in Seq(S) /\ m \in Seq(S)
    BY <1>3
  <2> HIDE DEF S
  <2>2. /\ s \o m \in Seq(S) /\ Len(s) \in Nat /\ Len(m) \in Nat /\ Len(s \o m) = Len(s) + Len(m)
        /\ \A i \in 1..Len(s) : (s \o m)[i] = s[i]
        /\ \A i \in 1..Len(m) : (s \o m)[Len(s) + i] = m[i]
        /\ \A i \in 1..(Len(s) + Len(m)) : i \in 1..Len(s) \/ (i - Len(s) \in 1..Len(m) /\ i = Len(s) + (i - Len(s)))
    BY <2>1, ConcatShape
  <2>3. QED
    BY <2>2 DEF S
<1> HIDE DEF t
<1>5. DOMAIN t = 1..(Len(s) + Len(m)) /\ DOMAIN s = 1..Len(s)
  BY <1>4, LenProperties
<1>6. ASSUME NEW i \in DOMAIN t PROVE t[i].of = r \/ \E j \in DOMAIN s : t[i].of = s[j].of
  <2>1. i \in 1..Len(s) \/ (i - Len(s) \in 1..Len(m) /\ i = Len(s) + (i - Len(s)))
    BY <1>4, <1>5
  <2>2. CASE i \in 1..Len(s)
    BY <1>4, <1>5, <2>2
  <2>3. CASE i - Len(s) \in 1..Len(m) /\ i = Len(s) + (i - Len(s))
    <3> DEFINE k == i - Len(s)
    <3>1. k \in 1..Len(m) /\ i = Len(s) + k
      BY <2>3
    <3> HIDE DEF k
    <3>2. t[i] = m[k] /\ m[k].of = r
      BY <1>2, <1>4, <3>1
    <3>3. QED
      BY <3>2
  <2>4. QED
    BY <2>1, <2>2, <2>3
<1>7. QED
  BY <1>6 DEF t, m

\* An answer that is written to its end.
LEMMA AnswerComes ==
  ASSUME Stream!LengthAssumption, Stream!TypeOK, NEW id \in 1..Len(Stream!Replies),
         id \notin Stream!Coming, down' = down \o Stream!Message(id, Stream!Replies[id]),
         UNCHANGED <<received, reading>>
  PROVE  /\ Stream!Coming' \subseteq Stream!Coming \union {id}
         /\ id \notin Stream!Returned /\ Stream!DownStream => Stream!DownStream'
<1> DEFINE m == Stream!Message(id, Stream!Replies[id])
<1>1. down \in Seq(Stream!Bytes(Stream!Replies)) /\ Stream!Replies \in Seq(Nat)
  BY DownType
<1>2. \A i \in DOMAIN down : down[i].of # id
  BY DEF Stream!Coming
<1>3. \A i \in DOMAIN (down \o m) : (down \o m)[i].of = id \/ \E j \in DOMAIN down : (down \o m)[i].of = down[j].of
  BY <1>1, MoreOf
<1>4. Stream!Whole(Stream!Replies, down) =>
        /\ Stream!Whole(Stream!Replies, down \o m)
        /\ down \o m # << >>
        /\ IF down = << >> THEN (down \o m)[1].at = 1 ELSE (down \o m)[1] = down[1]
  BY <1>1, <1>2, WholeMore
<1>5. down' = down \o m
  OBVIOUS
<1> HIDE DEF m
<1>6. \A i \in DOMAIN down' : down'[i].of = id \/ \E j \in DOMAIN down : down'[i].of = down[j].of
  BY <1>3, <1>5
<1>7. Stream!Coming' \subseteq Stream!Coming \union {id}
  <2>1. ASSUME NEW x \in Stream!Coming' PROVE x \in Stream!Coming \union {id}
    <3>1. PICK i \in DOMAIN down' : x = down'[i].of
      BY DEF Stream!Coming
    <3>2. CASE down'[i].of = id
      BY <3>1, <3>2
    <3>3. CASE \E j \in DOMAIN down : down'[i].of = down[j].of
      BY <3>1, <3>3 DEF Stream!Coming
    <3>4. QED
      BY <1>6, <3>2, <3>3
  <2>2. QED
    BY <2>1
<1>8. ASSUME id \notin Stream!Returned, Stream!DownStream PROVE Stream!DownStream'
  <2>0. /\ Stream!Whole(Stream!Replies, down') /\ down' # << >>
        /\ IF down = << >> THEN down'[1].at = 1 ELSE down'[1] = down[1]
    BY <1>4, <1>5, <1>8 DEF Stream!DownStream
  <2>1. Stream!Returned' = Stream!Returned
    BY DEF Stream!Returned
  <2>2. Stream!Coming' \cap Stream!Returned' = {}
    BY <1>7, <1>8, <2>1 DEF Stream!DownStream
  <2>3. IF reading'.stage = "body"
        THEN down' # << >> /\ down'[1].at = PrefixSize + 1 /\ reading'.length = Stream!Replies[down'[1].of]
        ELSE down' # << >> => down'[1].at = 1
    <3>1. reading' = reading
      OBVIOUS
    <3>2. IF reading.stage = "body"
          THEN down # << >> /\ down[1].at = PrefixSize + 1 /\ reading.length = Stream!Replies[down[1].of]
          ELSE down # << >> => down[1].at = 1
      BY <1>8 DEF Stream!DownStream
    <3>3. CASE down = << >>
      BY <2>0, <3>1, <3>2, <3>3
    <3>4. CASE down # << >>
      BY <2>0, <3>1, <3>2, <3>4
    <3>5. QED
      BY <3>3, <3>4
  <2>4. Stream!Whole(Stream!Replies, down)'
    BY <2>0
  <2>5. QED
    BY <2>2, <2>3, <2>4 DEF Stream!DownStream
<1>9. QED
  BY <1>7, <1>8

\* A worker, or one that mistakes the connection, sends an answer.
LEMMA DownAnswer ==
  ASSUME Stream!LengthAssumption, Stream!TypeOK, Stream!UpStream, DownPart,
         Stream!AnswerAstray \/ \E r \in waiting : Stream!HandleRequest(r)
  PROVE  DownPart'
<1>1. /\ waiting \subseteq 1..Len(Requests) /\ Len(extracted) \in Nat /\ cut \in BOOLEAN
      /\ Len(Requests) \in Nat /\ strays \in 0..1
  BY DownType
<1>2. ASSUME NEW id \in 1..Len(Stream!Replies),
             Stream!SendResponse(Stream!Message(id, Stream!Replies[id])),
             UNCHANGED <<client, received, reading, extracted, overlap, asked>>,
             waiting' \subseteq waiting, strays' = 0 => strays = 0,
             Stream!Astray \subseteq Stream!Astray',
             ~cut /\ Stream!Answered => /\ id \in ((1..Len(extracted)) \ waiting') \union Stream!Astray'
                                        /\ id \notin Stream!Returned \union Stream!Coming
      PROVE  DownPart'
  <2>1. Stream!Message(id, Stream!Replies[id]) \in Seq(Stream!Bytes(Stream!Replies))
    BY DownType, MessageShape
  <2>2. /\ cut' \in BOOLEAN /\ (cut => cut')
        /\ ~cut' => down' = down \/ down' = down \o Stream!Message(id, Stream!Replies[id])
    BY <1>2, <2>1, ResponseSent
  <2>3. SUFFICES ASSUME ~cut'
                 PROVE  Stream!Answered' /\ (client'.connected => Stream!DownStream')
    BY DEF DownPart
  <2>4. ~cut /\ Stream!Answered /\ (client.connected => Stream!DownStream)
    BY <2>2, <2>3 DEF DownPart
  <2>5. Stream!Coming' \subseteq Stream!Coming \union {id}
    <3>1. CASE down' = down
      BY <3>1 DEF Stream!Coming
    <3>2. CASE down' = down \o Stream!Message(id, Stream!Replies[id])
      BY <1>2, <2>4, <3>2, AnswerComes
    <3>3. QED
      BY <2>2, <2>3, <3>1, <3>2
  <2>6. Stream!Returned' = Stream!Returned
    BY <1>2 DEF Stream!Returned
  <2>7. client'.connected => Stream!DownStream'
    <3>1. CASE down' = down
      <4>1. Stream!Coming' = Stream!Coming
        BY <3>1 DEF Stream!Coming
      <4>2. QED
        BY <1>2, <2>4, <2>6, <3>1, <4>1 DEF Stream!DownStream
    <3>2. CASE down' = down \o Stream!Message(id, Stream!Replies[id])
      BY <1>2, <2>4, <3>2, AnswerComes
    <3>3. QED
      BY <2>2, <2>3, <3>1, <3>2
  <2>8. /\ waiting' \subseteq 1..Len(extracted')
        /\ (Stream!Returned \union Stream!Coming)' \subseteq ((1..Len(extracted')) \ waiting') \union Stream!Astray'
    <3> DEFINE U == 1..Len(extracted)
               Y == Stream!Astray
               Z == Stream!Astray'
               R == Stream!Returned
               C == Stream!Coming
               D == Stream!Coming'
    <3>1. /\ waiting \subseteq U /\ waiting' \subseteq waiting /\ Y \subseteq Z /\ D \subseteq C \union {id}
          /\ R \union C \subseteq (U \ waiting) \union Y /\ id \in (U \ waiting') \union Z
      BY <1>2, <2>4, <2>5 DEF Stream!Answered
    <3>2. waiting' \subseteq U /\ R \union D \subseteq (U \ waiting') \union Z
      <4> HIDE DEF U, Y, Z, R, C, D
      <4>1. QED
        BY <3>1
    <3>3. QED
      BY <1>2, <2>6, <3>2
  <2>9. Stream!Answered'
    BY <1>2, <2>4, <2>8 DEF Stream!Answered
  <2>10. QED
    BY <2>7, <2>9
<1>3. CASE Stream!AnswerAstray
  <2>1. /\ strays = 0 /\ strays' = 1 /\ Stream!SendResponse(Stream!Message(Stream!StrayId, Stray))
        /\ UNCHANGED <<client, received, reading, extracted, overlap, asked, waiting>>
    BY <1>3 DEF Stream!AnswerAstray
  <2>2. Stream!Replies[Stream!StrayId] = Stray /\ Stream!StrayId \in 1..Len(Stream!Replies)
    BY AnswerType
  <2>3. Stream!Astray = {} /\ Stream!Astray' = {Stream!StrayId}
    BY <2>1 DEF Stream!Astray
  <2>4. Stream!StrayId \notin 1..Len(Requests)
    BY <1>1 DEF Stream!StrayId
  <2>5. ASSUME Stream!Answered PROVE Stream!StrayId \notin Stream!Returned \union Stream!Coming
    <3>1. Stream!Returned \union Stream!Coming \subseteq 1..Len(extracted)
      BY <2>3, <2>5 DEF Stream!Answered
    <3>2. 1..Len(extracted) \subseteq 1..Len(Requests)
      <4>1. Len(extracted) <= asked /\ asked \in 0..Len(Requests)
        BY UpType DEF Stream!UpStream
      <4>2. QED
        BY <1>1, <4>1
    <3>3. QED
      BY <2>4, <3>1, <3>2
  <2>6. QED
    BY <1>2, <2>1, <2>2, <2>3, <2>5
<1>4. CASE \E r \in waiting : Stream!HandleRequest(r)
  <2>1. PICK r \in waiting : Stream!HandleRequest(r)
    BY <1>4
  <2>2. /\ waiting' = waiting \ {r} /\ Stream!SendResponse(Stream!Message(r, Answers[r]))
        /\ UNCHANGED <<client, received, reading, extracted, overlap, asked, strays>>
    BY <2>1 DEF Stream!HandleRequest
  <2>3. r \in 1..Len(Stream!Replies) /\ Stream!Replies[r] = Answers[r] /\ r \in 1..Len(Requests)
    BY <1>1, <2>1, AnswerType
  <2>4. Stream!Astray' = Stream!Astray
    BY <2>2 DEF Stream!Astray
  <2>5. r \notin Stream!Astray
    BY <1>1, <2>3 DEF Stream!Astray, Stream!StrayId
  <2>6. ASSUME Stream!Answered
        PROVE  r \in (1..Len(extracted)) \ waiting' /\ r \notin Stream!Returned \union Stream!Coming
    BY <2>1, <2>2, <2>5, <2>6 DEF Stream!Answered
  <2>7. QED
    BY <1>2, <2>2, <2>3, <2>4, <2>6
<1>5. QED
  BY <1>3, <1>4

\* What is on its way when part of it has been taken.
LEMMA ComingLess ==
  ASSUME NEW S, down \in Seq(S), NEW n \in 1..(Len(down) + 1), down' = Stream!From(down, n)
  PROVE  Stream!Coming' \subseteq Stream!Coming
<1>1. /\ down' \in Seq(S) /\ Len(down') = Len(down) - n + 1 /\ Len(down) \in Nat
      /\ \A i \in 1..(Len(down) - n + 1) : down'[i] = down[n + i - 1]
  BY FromPart, LenProperties
<1>2. DOMAIN down' = 1..(Len(down) - n + 1) /\ DOMAIN down = 1..Len(down)
  BY <1>1, LenProperties
<1>3. ASSUME NEW x \in Stream!Coming' PROVE x \in Stream!Coming
  <2>1. PICK i \in DOMAIN down' : x = down'[i].of
    BY DEF Stream!Coming
  <2>2. n + i - 1 \in 1..Len(down) /\ down'[i] = down[n + i - 1]
    <3>1. i \in 1..(Len(down) - n + 1)
      BY <1>2
    <3>2. QED
      <4>1. \A l \in Nat : \A m \in 1..(l + 1) : \A y \in 1..(l - m + 1) : m + y - 1 \in 1..l
        OBVIOUS
      <4>2. n + i - 1 \in 1..Len(down)
        BY <1>1, <3>1, <4>1
      <4>3. QED
        BY <1>1, <3>1, <4>2
  <2>3. QED
    BY <1>2, <2>1, <2>2 DEF Stream!Coming
<1>4. QED
  BY <1>3

\* receive() takes a prefix: what follows is the body that it says.
LEMMA DownPrefix ==
  ASSUME Stream!LengthAssumption, Stream!TypeOK, DownPart, Stream!FailsForAReason, client.connected,
         Stream!ReceivePrefix
  PROVE  /\ DownPart' /\ Stream!FailsForAReason'
         /\ reading' # Stream!Nothing => client'.connected
<1>1. /\ down \in Seq(Stream!Bytes(Stream!Replies)) /\ Len(down) \in Nat /\ DOMAIN down = 1..Len(down)
      /\ PrefixSize \in Nat \ {0} /\ Stream!Replies \in Seq(Nat)
      /\ client \in [connected : BOOLEAN, fd : BOOLEAN, closed : BOOLEAN]
  BY DownType
<1>2. /\ reading = Stream!Prefix /\ Len(down) >= PrefixSize /\ down' = Stream!From(down, PrefixSize + 1)
      /\ UNCHANGED <<server, up, asked, buffer, extracted, waiting, received, strays, cut, overlap, expired>>
  BY DEF Stream!ReceivePrefix
<1>3. PICK length \in Stream!Lengths(down, Stream!Replies) :
        IF Stream!Refused(length)
        THEN reading' = Stream!Nothing /\ client' = [client EXCEPT !.connected = FALSE]
        ELSE reading' = Stream!BodyOf(length) /\ UNCHANGED client
  BY DEF Stream!ReceivePrefix
<1>4. reading' # Stream!Nothing => client'.connected
  BY <1>1, <1>3
<1>5. PrefixSize + 1 \in 1..(Len(down) + 1) /\ 1 \in 1..Len(down)
  BY <1>1, <1>2
<1>6. Stream!Coming' \subseteq Stream!Coming
  BY <1>1, <1>2, <1>5, ComingLess
<1>7. Stream!Returned' = Stream!Returned /\ Stream!Astray' = Stream!Astray
  BY <1>2 DEF Stream!Returned, Stream!Astray
<1>8. ASSUME ~cut PROVE Stream!Answered'
  <2>1. Stream!Answered
    BY <1>8 DEF DownPart
  <2>2. (Stream!Returned \union Stream!Coming)' \subseteq ((1..Len(extracted')) \ waiting') \union Stream!Astray'
    <3>1. Stream!Returned \union Stream!Coming \subseteq ((1..Len(extracted)) \ waiting) \union Stream!Astray
      BY <2>1 DEF Stream!Answered
    <3>2. QED
      BY <1>2, <1>6, <1>7, <3>1
  <2>3. QED
    BY <1>2, <2>1, <2>2 DEF Stream!Answered
<1>9. ASSUME ~cut
      PROVE  /\ Stream!DownStream /\ down[1].at = 1 /\ Stream!Whole(Stream!Replies, down)
             /\ length = Stream!Replies[down[1].of] /\ down[1].of \in Stream!Coming
  <2>1. Stream!DownStream
    BY <1>9 DEF DownPart
  <2>2. down # << >> /\ reading.stage # "body"
    BY <1>1, <1>2, <1>5, EmptySeq DEF Stream!Prefix
  <2>3. down[1].at = 1 /\ Stream!Whole(Stream!Replies, down)
    BY <2>1, <2>2 DEF Stream!DownStream
  <2>4. Stream!Lengths(down, Stream!Replies) = {Stream!Replies[down[1].of]}
    BY <1>1, <1>2, <2>3, Front DEF Stream!Whole
  <2>5. down[1].of \in Stream!Coming
    BY <1>1, <1>5 DEF Stream!Coming
  <2>6. QED
    BY <1>3, <2>1, <2>3, <2>4, <2>5
<1>10. ASSUME ~cut, client'.connected PROVE Stream!DownStream'
  <2>1. ~Stream!Refused(length) /\ reading' = Stream!BodyOf(length)
    BY <1>1, <1>3, <1>10
  <2>2. Stream!Replies[down[1].of] # 0
    BY <1>9, <1>10, <2>1 DEF Stream!Refused
  <2>3. down' # << >> /\ down'[1] = [of |-> down[1].of, at |-> PrefixSize + 1]
    BY <1>1, <1>2, <1>9, <1>10, <2>2, PrefixRead
  <2>4. Stream!Whole(Stream!Replies, down')
    BY <1>1, <1>2, <1>5, <1>9, <1>10, WholeRest
  <2>5. Stream!Coming' \cap Stream!Returned' = {}
    <3>1. Stream!Coming \cap Stream!Returned = {}
      BY <1>9, <1>10 DEF Stream!DownStream
    <3>2. QED
      BY <1>6, <1>7, <3>1
  <2>6. down'[1].at = PrefixSize + 1 /\ reading'.length = Stream!Replies[down'[1].of] /\ reading'.stage = "body"
    <3>1. reading'.length = length /\ reading'.stage = "body"
      BY <2>1 DEF Stream!BodyOf
    <3>2. down'[1].at = PrefixSize + 1 /\ down'[1].of = down[1].of
      BY <2>3
    <3>3. length = Stream!Replies[down[1].of]
      BY <1>9, <1>10
    <3>4. QED
      BY <3>1, <3>2, <3>3
  <2>7. QED
    BY <2>3, <2>4, <2>5, <2>6 DEF Stream!DownStream
<1>11. Stream!FailsForAReason'
  <2>1. CASE Stream!Refused(length)
    <3>1. SUFFICES ASSUME ~cut'
          PROVE  \E r \in 1..Len(extracted') \union Stream!Astray' : Stream!Refused(Stream!Replies[r])
      BY DEF Stream!FailsForAReason, Stream!Astray
    <3>2. down[1].of \in 1..Len(extracted) \union Stream!Astray
      BY <1>2, <1>9, <3>1 DEF DownPart, Stream!Answered
    <3>3. length = Stream!Replies[down[1].of]
      BY <1>2, <1>9, <3>1
    <3>4. Stream!Refused(Stream!Replies[down[1].of])
      BY <2>1, <3>3
    <3>5. QED
      BY <1>2, <1>7, <3>2, <3>4
  <2>2. CASE ~Stream!Refused(length)
    BY <1>2, <1>3, <2>2 DEF Stream!FailsForAReason
  <2>3. QED
    BY <2>1, <2>2
<1>12. QED
  BY <1>2, <1>4, <1>8, <1>10, <1>11 DEF DownPart

\* What has been returned when x is.
LEMMA Appended ==
  ASSUME NEW S, NEW s \in Seq(S), NEW x \in S
  PROVE  /\ Len(s) \in Nat /\ DOMAIN s = 1..Len(s) /\ Len(Append(s, x)) = Len(s) + 1
         /\ DOMAIN Append(s, x) = 1..(Len(s) + 1)
         /\ \A k \in 1..(Len(s) + 1) :
              (k \in 1..Len(s) /\ Append(s, x)[k] = s[k]) \/ (k = Len(s) + 1 /\ Append(s, x)[k] = x)
<1>1. /\ Append(s, x) \in Seq(S) /\ Len(Append(s, x)) = Len(s) + 1
      /\ \A i \in 1..Len(s) : Append(s, x)[i] = s[i]
      /\ Append(s, x)[Len(s) + 1] = x
  BY AppendProperties
<1>2. Len(s) \in Nat /\ DOMAIN s = 1..Len(s) /\ DOMAIN Append(s, x) = 1..Len(Append(s, x))
  BY <1>1, LenProperties
<1>3. \A k \in 1..(Len(s) + 1) : k \in 1..Len(s) \/ k = Len(s) + 1
  BY <1>2
<1>4. QED
  BY <1>1, <1>2, <1>3

\* receive() takes a body: the whole of an answer that was not returned before.
LEMMA DownBody ==
  ASSUME Stream!LengthAssumption, Stream!TypeOK, Stream!UpStream, DownPart, client.connected, Stream!ReceiveBody
  PROVE  DownPart'
<1> DEFINE K == Len(received)
           r == down[1].of
           S == Stream!Bytes(Stream!Replies)
<1>1. /\ down \in Seq(S) /\ Len(down) \in Nat /\ DOMAIN down = 1..Len(down)
      /\ Stream!Replies \in Seq(Nat) /\ received \in Seq(Seq(S)) /\ K \in Nat
      /\ Len(extracted) \in Nat /\ asked \in Nat /\ strays \in 0..1
  BY DownType
<1>2. /\ reading.stage = "body" /\ reading' = Stream!Nothing
      /\ UNCHANGED <<client, server, up, asked, buffer, extracted, waiting, strays, cut, overlap>>
  BY DEF Stream!ReceiveBody
<1>3. PICK n \in Stream!Portion(reading.length) :
        received' = Append(received, SubSeq(down, 1, n)) /\ down' = Stream!From(down, n + 1)
  BY DEF Stream!ReceiveBody
<1>4. n = reading.length /\ n <= Len(down)
  BY <1>3 DEF Stream!Portion
<1>5. n \in Nat \ {0}
  <2>1. reading \in {Stream!Nothing, Stream!Prefix} \union {Stream!BodyOf(k) : k \in 1..MaxLength}
    BY DEF Stream!TypeOK
  <2>2. PICK k \in 1..MaxLength : reading = Stream!BodyOf(k)
    BY <1>2, <2>1 DEF Stream!Nothing, Stream!Prefix
  <2>3. reading.length = k
    BY <2>2 DEF Stream!BodyOf
  <2>4. MaxLength \in Nat
    BY DownType
  <2>5. QED
    BY <1>4, <2>3, <2>4
<1>6. SUFFICES ASSUME ~cut PROVE Stream!Answered' /\ Stream!DownStream'
  BY <1>2 DEF DownPart
<1>7. Stream!Answered /\ Stream!DownStream
  BY <1>6 DEF DownPart
<1>8. /\ Stream!Whole(Stream!Replies, down) /\ down # << >> /\ down[1].at = PrefixSize + 1
      /\ n = Stream!Replies[r] /\ Stream!Coming \cap Stream!Returned = {}
  BY <1>2, <1>4, <1>7 DEF Stream!DownStream
<1> DEFINE x == SubSeq(down, 1, n)
           t == Stream!From(down, n + 1)
<1>9. /\ r \in 1..Len(Stream!Replies) /\ x = Stream!Body(r, Stream!Replies[r]) /\ x # << >> /\ x[1].of = r
      /\ \A i \in DOMAIN t : t[i].of # r /\ \E j \in DOMAIN down : t[i].of = down[j].of
      /\ t # << >> => t[1].at = 1
  <2>1. Stream!Replies[r] # 0 /\ Stream!Replies[r] <= Len(down)
    BY <1>4, <1>5, <1>8
  <2> DEFINE k == Stream!Replies[r]
  <2>2. BodyTaken(Stream!Replies, down, r, k, SubSeq(down, 1, k), Stream!From(down, k + 1))
    BY <1>1, <1>8, <2>1, BodyRead
  <2>3. n = k
    BY <1>8
  <2> HIDE DEF k
  <2>4. BodyTaken(Stream!Replies, down, r, k, x, t)
    BY <2>2, <2>3
  <2>5. QED
    BY <2>4 DEF BodyTaken, k
<1>10. n \in 0..Len(down) /\ n + 1 \in 1..(Len(down) + 1)
  BY <1>1, <1>4, <1>5
<1>11. x \in Seq(S) /\ Stream!Whole(Stream!Replies, t)
  BY <1>1, <1>8, <1>10, FirstPart, WholeRest
<1>12. received' = Append(received, x) /\ down' = t
  BY <1>3
<1>13. r \in Stream!Coming
  <2>1. 1 \in DOMAIN down
    BY <1>1, <1>8, EmptySeq
  <2>2. QED
    BY <2>1 DEF Stream!Coming
<1> HIDE DEF x, t, S
<1>14. /\ DOMAIN received = 1..K /\ DOMAIN received' = 1..(K + 1) /\ Len(received') = K + 1
       /\ \A k \in 1..(K + 1) :
            (k \in 1..K /\ received'[k] = received[k]) \/ (k = K + 1 /\ received'[k] = x)
  BY <1>1, <1>11, <1>12, Appended
<1>15. Stream!Returned' = Stream!Returned \union {r}
  <2>1. \A y \in Stream!Returned' : y \in Stream!Returned \union {r}
    <3>1. ASSUME NEW y \in Stream!Returned' PROVE y \in Stream!Returned \union {r}
      <4>1. PICK k \in DOMAIN received' : y = received'[k][1].of
        BY DEF Stream!Returned
      <4>2. CASE k \in 1..K /\ received'[k] = received[k]
        BY <1>14, <4>1, <4>2 DEF Stream!Returned
      <4>3. CASE k = K + 1 /\ received'[k] = x
        BY <1>9, <4>1, <4>3
      <4>4. QED
        BY <1>14, <4>2, <4>3
    <3>2. QED
      BY <3>1
  <2>2. \A y \in Stream!Returned : y \in Stream!Returned'
    <3>1. ASSUME NEW k \in DOMAIN received PROVE received[k][1].of \in Stream!Returned'
      <4>1. k \in 1..(K + 1) /\ k # K + 1
        BY <1>1, <1>14
      <4>2. received'[k] = received[k] /\ k \in DOMAIN received'
        BY <1>14, <4>1
      <4>3. QED
        BY <4>2 DEF Stream!Returned
    <3>2. QED
      BY <3>1 DEF Stream!Returned
  <2>3. r \in Stream!Returned'
    <3>1. K + 1 \in 1..(K + 1) /\ K + 1 \notin 1..K
      BY <1>1
    <3>2. received'[K + 1] = x /\ K + 1 \in DOMAIN received'
      BY <1>14, <3>1
    <3>3. QED
      BY <1>9, <3>2 DEF Stream!Returned
  <2>4. QED
    BY <2>1, <2>2, <2>3
<1>16. Stream!Coming' \subseteq Stream!Coming \ {r}
  <2>1. ASSUME NEW y \in Stream!Coming' PROVE y \in Stream!Coming \ {r}
    <3>1. PICK i \in DOMAIN t : y = t[i].of
      BY <1>12 DEF Stream!Coming
    <3>2. QED
      BY <1>9, <3>1 DEF Stream!Coming
  <2>2. QED
    BY <2>1
<1>17. r \notin Stream!Returned
  BY <1>8, <1>13
<1>18. Stream!DownStream'
  <2>1. Stream!Coming' \cap Stream!Returned' = {}
    BY <1>8, <1>15, <1>16
  <2>2. reading'.stage # "body"
    BY <1>2 DEF Stream!Nothing
  <2>3. Stream!Whole(Stream!Replies, down') /\ (down' # << >> => down'[1].at = 1)
    BY <1>9, <1>11, <1>12
  <2>4. QED
    BY <2>1, <2>2, <2>3 DEF Stream!DownStream
<1>19. /\ \A k \in DOMAIN received :
            received[k] # << >> /\ received[k] = Stream!Body(received[k][1].of, Stream!Replies[received[k][1].of])
       /\ \A j, k \in DOMAIN received : received[j][1].of = received[k][1].of => j = k
       /\ waiting \subseteq 1..Len(extracted)
       /\ Stream!Returned \union Stream!Coming \subseteq ((1..Len(extracted)) \ waiting) \union Stream!Astray
       /\ ~overlap => asked <= K + 1
       /\ strays = 0 /\ ~overlap => \A k \in DOMAIN received : received[k][1].of = k
  BY <1>7 DEF Stream!Answered
<1>20. ASSUME NEW k \in DOMAIN received'
       PROVE  received'[k] # << >> /\ received'[k] = Stream!Body(received'[k][1].of, Stream!Replies[received'[k][1].of])
  <2>1. CASE k \in 1..K /\ received'[k] = received[k]
    BY <1>14, <1>19, <2>1
  <2>2. CASE k = K + 1 /\ received'[k] = x
    BY <1>9, <2>2
  <2>3. QED
    BY <1>14, <2>1, <2>2
<1>21. \A k \in 1..K : received[k][1].of # r
  BY <1>14, <1>17 DEF Stream!Returned
<1>22. ASSUME NEW j \in DOMAIN received', NEW k \in DOMAIN received', received'[j][1].of = received'[k][1].of
       PROVE  j = k
  <2>1. /\ (j \in 1..K /\ received'[j] = received[j]) \/ (j = K + 1 /\ received'[j] = x)
        /\ (k \in 1..K /\ received'[k] = received[k]) \/ (k = K + 1 /\ received'[k] = x)
    BY <1>14
  <2>2. CASE j = K + 1 /\ received'[j] = x /\ k = K + 1
    BY <2>2
  <2>3. CASE j = K + 1 /\ received'[j] = x /\ k \in 1..K /\ received'[k] = received[k]
    BY <1>9, <1>21, <1>22, <2>3
  <2>4. CASE k = K + 1 /\ received'[k] = x /\ j \in 1..K /\ received'[j] = received[j]
    BY <1>9, <1>21, <1>22, <2>4
  <2>5. CASE j \in 1..K /\ received'[j] = received[j] /\ k \in 1..K /\ received'[k] = received[k]
    BY <1>14, <1>19, <1>22, <2>5
  <2>6. QED
    BY <2>1, <2>2, <2>3, <2>4, <2>5
<1>23. /\ waiting' \subseteq 1..Len(extracted')
       /\ (Stream!Returned \union Stream!Coming)' \subseteq ((1..Len(extracted')) \ waiting') \union Stream!Astray'
  <2>1. Stream!Astray' = Stream!Astray
    BY <1>2 DEF Stream!Astray
  <2>2. QED
    BY <1>2, <1>13, <1>15, <1>16, <1>19, <2>1
<1>24. ~overlap' => asked' <= Len(received') + 1
  <2>1. \A y, z \in Nat : y <= z + 1 => y <= (z + 1) + 1
    OBVIOUS
  <2>2. QED
    BY <1>1, <1>2, <1>14, <1>19, <2>1
<1>25. ASSUME strays = 0, ~overlap PROVE r = K + 1
  <2>1. Stream!Astray = {}
    BY <1>25 DEF Stream!Astray
  <2>2. r \in 1..Len(extracted)
    BY <1>13, <1>19, <2>1
  <2>3. Len(extracted) <= asked /\ asked <= K + 1
    BY <1>19, <1>25 DEF Stream!UpStream
  <2>4. r \notin 1..K
    <3>1. \A k \in 1..K : received[k][1].of = k
      BY <1>14, <1>19, <1>25
    <3>2. QED
      BY <1>21, <3>1
  <2> HIDE DEF r, K
  <2>5. \A y \in 1..Len(extracted) : y \notin 1..K => y = K + 1
    <3>1. \A a, b, c \in Nat : a <= b /\ b <= c + 1 => \A y \in 1..a : y \notin 1..c => y = c + 1
      OBVIOUS
    <3>2. QED
      BY <1>1, <2>3, <3>1 DEF K
  <2>6. QED
    BY <2>2, <2>4, <2>5
<1>26. ASSUME strays' = 0, ~overlap', NEW k \in DOMAIN received' PROVE received'[k][1].of = k
  <2>1. CASE k \in 1..K /\ received'[k] = received[k]
    BY <1>2, <1>14, <1>19, <1>26, <2>1
  <2>2. CASE k = K + 1 /\ received'[k] = x
    BY <1>2, <1>9, <1>25, <1>26, <2>2
  <2>3. QED
    BY <1>14, <2>1, <2>2
<1>27. Stream!Answered'
  BY <1>20, <1>22, <1>23, <1>24, <1>26 DEF Stream!Answered
<1>28. QED
  BY <1>18, <1>27

\* A connection fails for the same reason as before.
LEMMA FailsSame ==
  ASSUME Stream!LengthAssumption, Stream!TypeOK, Stream!FailsForAReason,
         ~client'.connected /\ client'.fd /\ server' /\ ~cut' /\ ~expired' =>
           ~client.connected /\ client.fd /\ server /\ ~cut /\ ~expired,
         Len(extracted') \in Nat, Len(extracted) <= Len(extracted'), strays > 0 => strays' > 0
  PROVE  Stream!FailsForAReason'
<1>1. SUFFICES ASSUME ~client'.connected, client'.fd, server', ~cut', ~expired'
               PROVE  \E r \in 1..Len(extracted') \union (IF strays' > 0 THEN {Stream!StrayId} ELSE {}) :
                        Stream!Refused(Stream!Replies[r])
  BY DEF Stream!FailsForAReason
<1>2. PICK r \in 1..Len(extracted) \union (IF strays > 0 THEN {Stream!StrayId} ELSE {}) :
        Stream!Refused(Stream!Replies[r])
  BY <1>1 DEF Stream!FailsForAReason
<1>3. 1..Len(extracted) \subseteq 1..Len(extracted')
  <2>1. Len(extracted) \in Nat
    BY DownType
  <2>2. QED
    BY <2>1
<1>4. QED
  BY <1>2, <1>3

\* receive() waits only on a connection that is up.
LEMMA ReadingStep ==
  ASSUME Stream!LengthAssumption, Stream!TypeOK, reading # Stream!Nothing => client.connected,
         [Stream!Next]_(Stream!vars), ~Stream!ReceivePrefix
  PROVE  reading' # Stream!Nothing => client'.connected
<1>1. client \in [connected : BOOLEAN, fd : BOOLEAN, closed : BOOLEAN]
  BY UpType
<1>2. CASE Stream!Receive
  BY <1>2 DEF Stream!Receive
<1>3. CASE Stream!ReceiveBody \/ Stream!ReceiveFails \/ Stream!Die \/ Stream!Close \/ Stream!Send
  <2>1. reading' = Stream!Nothing
    BY <1>3 DEF Stream!ReceiveBody, Stream!ReceiveFails, Stream!Die, Stream!Close, Stream!Send
  <2>2. QED
    BY <2>1
<1>4. CASE \/ Stream!HandleClientData \/ Stream!CloseConnection \/ Stream!Stop \/ Stream!AnswerAstray
           \/ UNCHANGED Stream!vars \/ \E r \in waiting : Stream!HandleRequest(r)
  <2>1. UNCHANGED reading /\ UNCHANGED client
    BY <1>4 DEF Stream!HandleClientData, Stream!CloseConnection, Stream!Stop, Stream!AnswerAstray,
                Stream!vars, Stream!HandleRequest
  <2>2. QED
    BY <2>1
<1>5. CASE Stream!SendFails
  BY <1>5 DEF Stream!SendFails
<1>6. QED
  BY <1>2, <1>3, <1>4, <1>5 DEF Stream!Next, Stream!ClientStep, Stream!ServerStep

\* A step that is no prefix adds no reason to fail, and needs none.
LEMMA FailsStep ==
  ASSUME Stream!LengthAssumption, Stream!TypeOK, Stream!UpStream, Stream!FailsForAReason,
         [Stream!Next]_(Stream!vars), ~Stream!ReceivePrefix
  PROVE  Stream!FailsForAReason'
<1>1. /\ client \in [connected : BOOLEAN, fd : BOOLEAN, closed : BOOLEAN]
      /\ Len(extracted) \in Nat /\ cut \in BOOLEAN
  BY UpType, DownType
<1>2. CASE Stream!HandleClientData
  <2>1. Len(extracted') \in Nat /\ Len(extracted) <= Len(extracted')
    BY <1>2, UpRead, LenProperties
  <2>2. UNCHANGED client /\ UNCHANGED server /\ UNCHANGED cut /\ UNCHANGED strays /\ UNCHANGED expired
    BY <1>2 DEF Stream!HandleClientData
  <2>3. QED
    BY <2>1, <2>2, FailsSame
<1>3. CASE Stream!AnswerAstray
  <2>1. /\ strays' = 1 /\ strays = 0 /\ UNCHANGED extracted /\ UNCHANGED client /\ UNCHANGED server /\ UNCHANGED expired
        /\ Stream!SendResponse(Stream!Message(Stream!StrayId, Stray))
    BY <1>3 DEF Stream!AnswerAstray
  <2>2. cut => cut'
    BY <2>1, AnswerType, ResponseSent
  <2>3. QED
    BY <1>1, <2>1, <2>2, FailsSame
<1>4. CASE \E r \in waiting : Stream!HandleRequest(r)
  <2>1. PICK r \in waiting : Stream!HandleRequest(r)
    BY <1>4
  <2>2. /\ UNCHANGED extracted /\ UNCHANGED client /\ UNCHANGED server /\ UNCHANGED strays /\ UNCHANGED expired
        /\ Stream!SendResponse(Stream!Message(r, Answers[r]))
    BY <2>1 DEF Stream!HandleRequest
  <2>3. r \in 1..Len(Requests)
    BY <2>1, DownType
  <2>4. cut => cut'
    BY <2>2, <2>3, AnswerType, ResponseSent
  <2>5. QED
    BY <1>1, <2>2, <2>4, FailsSame
<1>5. CASE \/ Stream!Receive \/ Stream!ReceiveBody \/ Stream!CloseConnection \/ Stream!Stop
           \/ UNCHANGED Stream!vars
  <2>1. /\ UNCHANGED extracted /\ UNCHANGED client /\ (server' => server) /\ UNCHANGED strays
        /\ UNCHANGED cut /\ UNCHANGED expired
    BY <1>5 DEF Stream!Receive, Stream!ReceiveBody, Stream!CloseConnection, Stream!Stop, Stream!vars
  <2>2. QED
    BY <1>1, <2>1, FailsSame
<1>6. CASE Stream!Send \/ Stream!SendFails \/ Stream!ReceiveFails
  <2>1. /\ UNCHANGED extracted /\ UNCHANGED server /\ UNCHANGED strays /\ UNCHANGED cut
        /\ \/ UNCHANGED client /\ UNCHANGED expired
           \/ server => expired'
    BY <1>6 DEF Stream!Send, Stream!SendFails, Stream!ReceiveFails
  <2>2. QED
    BY <1>1, <2>1, FailsSame
<1>7. CASE Stream!Close \/ Stream!Die
  <2>1. /\ UNCHANGED extracted /\ UNCHANGED server /\ UNCHANGED strays /\ UNCHANGED cut /\ UNCHANGED expired
        /\ client'.fd => client.fd /\ ~client.connected
    <3>1. CASE Stream!Close
      <4>1. /\ UNCHANGED extracted /\ UNCHANGED server /\ UNCHANGED strays /\ UNCHANGED cut /\ UNCHANGED expired
            /\ client'.fd = Stream!ClosedFd
        BY <3>1 DEF Stream!Close
      <4>2. QED
        BY <4>1 DEF Stream!ClosedFd
    <3>2. CASE Stream!Die
      BY <3>2 DEF Stream!Die
    <3>3. QED
      BY <1>7, <3>1, <3>2
  <2>2. QED
    BY <1>1, <2>1, FailsSame
<1>8. QED
  BY <1>2, <1>3, <1>4, <1>5, <1>6, <1>7 DEF Stream!Next, Stream!ClientStep, Stream!ServerStep

\* The answers stay as they should be, whatever happens.
LEMMA DownStep ==
  ASSUME Stream!LengthAssumption, Stream!TypeOK, Stream!UpStream, DownPart,
         reading # Stream!Nothing => client.connected,
         [Stream!Next]_(Stream!vars), ~Stream!ReceivePrefix
  PROVE  DownPart'
<1>1. /\ client \in [connected : BOOLEAN, fd : BOOLEAN, closed : BOOLEAN]
      /\ Len(received) \in Nat /\ asked \in Nat
  BY UpType, DownType
<1>2. CASE Stream!HandleClientData
  BY <1>2, DownHandle
<1>3. CASE Stream!AnswerAstray \/ \E r \in waiting : Stream!HandleRequest(r)
  BY <1>3, DownAnswer
<1>4. CASE Stream!ReceiveBody
  <2>1. reading # Stream!Nothing
    BY <1>4 DEF Stream!ReceiveBody, Stream!Nothing
  <2>2. QED
    BY <1>4, <2>1, DownBody
<1>5. CASE Stream!Send
  <2>1. UNCHANGED <<down, received, waiting, extracted, strays, cut, reading>>
    BY <1>5 DEF Stream!Send
  <2>2. client.connected /\ asked' = asked + 1 /\ overlap' = (overlap \/ Len(received) < asked)
    BY <1>5 DEF Stream!Send
  <2>3. ~overlap' => ~overlap /\ asked' <= Len(received') + 1
    BY <1>1, <2>1, <2>2
  <2>4. QED
    BY <2>1, <2>2, <2>3, DownQuiet
<1>6. CASE Stream!SendFails \/ Stream!Close \/ Stream!Die
  <2>1. UNCHANGED <<down, received, waiting, extracted, strays, cut, asked, overlap>>
    BY <1>6 DEF Stream!SendFails, Stream!Close, Stream!Die
  <2>2. ~client'.connected
    BY <1>1, <1>6 DEF Stream!SendFails, Stream!Close, Stream!Die
  <2>3. QED
    BY <2>1, <2>2, DownQuiet
<1>7. CASE Stream!Receive
  <2>1. UNCHANGED <<down, received, waiting, extracted, strays, cut, asked, overlap, client>>
    BY <1>7 DEF Stream!Receive
  <2>2. reading.stage # "body" /\ reading'.stage # "body"
    BY <1>7 DEF Stream!Receive, Stream!Nothing, Stream!Prefix
  <2>3. QED
    BY <2>1, <2>2, DownQuiet
<1>8. CASE Stream!CloseConnection \/ Stream!Stop \/ UNCHANGED Stream!vars
  <2>1. UNCHANGED <<down, received, waiting, extracted, strays, cut, asked, overlap, client, reading>>
    BY <1>8 DEF Stream!CloseConnection, Stream!Stop, Stream!vars
  <2>2. QED
    BY <2>1, DownQuiet
<1>9. CASE Stream!ReceiveFails
  BY <1>9, DownFails
<1>10. QED
  BY <1>2, <1>3, <1>4, <1>5, <1>6, <1>7, <1>8, <1>9 DEF Stream!Next, Stream!ClientStep, Stream!ServerStep

\* At first nothing is on its way.
LEMMA ConnectionInit ==
  ASSUME Stream!LengthAssumption, Stream!Init
  PROVE  Stream!IInv
<1>1. /\ client = [connected |-> TRUE, fd |-> TRUE, closed |-> FALSE] /\ server = TRUE
      /\ up = << >> /\ down = << >> /\ asked = 0
      /\ buffer = << >> /\ extracted = << >> /\ waiting = {}
      /\ reading = Stream!Nothing /\ received = << >> /\ strays = 0
      /\ cut = FALSE /\ overlap = FALSE /\ expired = FALSE
  BY DEF Stream!Init
<1>2. PrefixSize \in Nat \ {0} /\ Room \in Nat /\ Len(Requests) \in Nat
  BY LenProperties DEF Stream!LengthAssumption
<1>3. \A S : << >> \in Seq(S) /\ Len(<< >>) = 0 /\ DOMAIN << >> = {}
  <2>1. \A S : << >> \in Seq(S) /\ Len(<< >>) = 0
    BY EmptySeq
  <2>2. DOMAIN << >> = {}
    OBVIOUS
  <2>3. QED
    BY <2>1, <2>2
<1>4. buffer \o up = << >>
  BY <1>1
<1>5. Stream!TypeOK
  <2>1. /\ client \in [connected : BOOLEAN, fd : BOOLEAN, closed : BOOLEAN] /\ server \in BOOLEAN
        /\ waiting \subseteq 1..Len(Requests) /\ strays \in 0..1 /\ {cut, overlap, expired} \subseteq BOOLEAN
        /\ reading \in {Stream!Nothing, Stream!Prefix} \union {Stream!BodyOf(n) : n \in 1..MaxLength}
    <3>0. server \in BOOLEAN /\ {cut, overlap, expired} \subseteq BOOLEAN
      BY <1>1, Zenon
    <3>1. strays \in 0..1
      BY <1>1
    <3>2. client \in [connected : BOOLEAN, fd : BOOLEAN, closed : BOOLEAN]
      BY <1>1
    <3>3. waiting \subseteq 1..Len(Requests)
      BY <1>1
    <3>4. reading \in {Stream!Nothing, Stream!Prefix} \union {Stream!BodyOf(n) : n \in 1..MaxLength}
      BY <1>1
    <3>5. QED
      BY <3>0, <3>1, <3>2, <3>3, <3>4
  <2>2. /\ up \in Seq(Stream!Bytes(Requests)) /\ buffer \in Seq(Stream!Bytes(Requests))
        /\ down \in Seq(Stream!Bytes(Stream!Replies))
        /\ extracted \in Seq(Seq(Stream!Bytes(Requests))) /\ received \in Seq(Seq(Stream!Bytes(Stream!Replies)))
    BY <1>1, <1>3
  <2>3. asked \in 0..Len(Requests) /\ Len(down) <= Room
    BY <1>1, <1>2, <1>3
  <2>4. QED
    BY <2>1, <2>2, <2>3 DEF Stream!TypeOK
<1>6. Stream!UpStream
  <2>1. Stream!Queued(<< >>, 0, 0)
    BY <1>3 DEF Stream!Queued, Stream!Runs, Stream!InOrder
  <2>2. Stream!Reaches(<< >>, 0, 0)
    BY DEF Stream!Reaches
  <2>3. ~Stream!Complete(<< >>)
    BY <1>2, <1>3 DEF Stream!Complete
  <2>4. QED
    BY <1>1, <1>3, <1>4, <2>1, <2>2, <2>3 DEF Stream!UpStream
<1>7. Stream!Coming = {} /\ Stream!Returned = {}
  BY <1>1, <1>3 DEF Stream!Coming, Stream!Returned
<1>8. Stream!Answered
  BY <1>1, <1>3, <1>7 DEF Stream!Answered
<1>9. Stream!DownStream
  <2>1. Stream!Whole(Stream!Replies, down)
    BY <1>1, <1>3 DEF Stream!Whole, Stream!Runs
  <2>2. reading.stage # "body"
    BY <1>1 DEF Stream!Nothing
  <2>3. QED
    BY <1>1, <1>7, <2>1, <2>2 DEF Stream!DownStream
<1>10. Stream!FailsForAReason
  BY <1>1 DEF Stream!FailsForAReason
<1>11. QED
  BY <1>1, <1>5, <1>6, <1>8, <1>9, <1>10 DEF Stream!IInv

\* Every step keeps the invariant.
LEMMA ConnectionStep ==
  ASSUME Stream!LengthAssumption, Stream!IInv, [Stream!Next]_(Stream!vars)
  PROVE  Stream!IInv'
<1>1. /\ Stream!TypeOK /\ Stream!UpStream /\ DownPart /\ Stream!FailsForAReason
      /\ reading # Stream!Nothing => client.connected
  BY DEF Stream!IInv, DownPart
<1>2. Stream!TypeOK' /\ Stream!UpStream'
  BY <1>1, StreamTypes, UpStep
<1>3. CASE Stream!ReceivePrefix
  <2>1. reading # Stream!Nothing
    BY <1>3 DEF Stream!ReceivePrefix, Stream!Prefix, Stream!Nothing
  <2>2. DownPart' /\ Stream!FailsForAReason' /\ (reading' # Stream!Nothing => client'.connected)
    BY <1>1, <1>3, <2>1, DownPrefix
  <2>3. QED
    BY <1>2, <2>2 DEF Stream!IInv, DownPart
<1>4. CASE ~Stream!ReceivePrefix
  <2>1. DownPart' /\ Stream!FailsForAReason' /\ (reading' # Stream!Nothing => client'.connected)
    BY <1>1, <1>4, DownStep, FailsStep, ReadingStep
  <2>2. QED
    BY <1>2, <2>1 DEF Stream!IInv, DownPart
<1>5. QED
  BY <1>3, <1>4

\* The invariant holds of every connection.
THEOREM ConnectionInvariant ==
  ASSUME Stream!LengthAssumption
  PROVE  Stream!Spec => []Stream!IInv
<1>1. Stream!Init => Stream!IInv
  BY ConnectionInit
<1>2. Stream!IInv /\ [Stream!Next]_(Stream!vars) => Stream!IInv'
  BY ConnectionStep
<1>3. QED
  BY <1>1, <1>2, PTL DEF Stream!Spec

\* The workers get the client's requests, each once, whole and in order
\* (extractMessages), however TCP cuts the stream and wherever the client dies.
THEOREM RequestsArriveWhole ==
  ASSUME Stream!LengthAssumption
  PROVE  Stream!Spec => []Stream!RequestsWhole
<1>1. Stream!IInv => Stream!RequestsWhole
  BY DEF Stream!IInv, Stream!UpStream, Stream!RequestsWhole
<1>2. QED
  BY <1>1, ConnectionInvariant, PTL

\* receive() returns whole answers, no two the same, unless one was cut; a client
\* with one request under way gets its own, unless a stray one has come.
THEOREM AnswersArriveWhole ==
  ASSUME Stream!LengthAssumption
  PROVE  Stream!Spec => []Stream!AnswersWhole
<1>1. ASSUME Stream!IInv PROVE Stream!AnswersWhole
  <2>1. SUFFICES ASSUME ~cut
                 PROVE  /\ \A k \in DOMAIN received :
                             \E r \in 1..Stream!StrayId : received[k] = Stream!Body(r, Stream!Replies[r])
                        /\ \A j, k \in DOMAIN received : received[j] = received[k] => j = k
                        /\ strays = 0 /\ ~overlap =>
                             \A k \in DOMAIN received : received[k] = Stream!Body(k, Stream!Replies[k])
    BY DEF Stream!AnswersWhole
  <2>2. Stream!Answered /\ Stream!TypeOK
    BY <1>1, <2>1 DEF Stream!IInv
  <2>3. /\ \A k \in DOMAIN received :
             received[k] = Stream!Body(received[k][1].of, Stream!Replies[received[k][1].of])
        /\ \A j, k \in DOMAIN received : received[j][1].of = received[k][1].of => j = k
        /\ strays = 0 /\ ~overlap => \A k \in DOMAIN received : received[k][1].of = k
    BY <2>2 DEF Stream!Answered
  <2>4. ASSUME NEW k \in DOMAIN received PROVE received[k][1].of \in 1..Stream!StrayId
    <3>1. received[k][1].of \in Stream!Returned
      BY DEF Stream!Returned
    <3>2. received[k][1].of \in 1..Len(extracted) \union Stream!Astray
      BY <2>2, <3>1 DEF Stream!Answered
    <3>3. /\ Len(extracted) \in Nat /\ Len(Requests) \in Nat /\ asked \in 0..Len(Requests) /\ Len(extracted) <= asked
      BY <1>1, <2>2, UpType DEF Stream!IInv, Stream!UpStream
    <3>4. QED
      BY <3>2, <3>3 DEF Stream!Astray, Stream!StrayId
  <2>5. QED
    BY <2>3, <2>4
<1>2. QED
  BY <1>1, ConnectionInvariant, PTL

\* A connection fails only for an answer that receive() refuses, that was cut or
\* that is late, or because the server has gone or takes nothing; nothing else makes
\* close() leave the descriptor open.
THEOREM ConnectionsFailForAReason ==
  ASSUME Stream!LengthAssumption
  PROVE  Stream!Spec => []Stream!FailsForAReason
<1>1. Stream!IInv => Stream!FailsForAReason
  BY DEF Stream!IInv
<1>2. QED
  BY <1>1, ConnectionInvariant, PTL

=============================================================================
