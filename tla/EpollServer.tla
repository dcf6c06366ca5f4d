----------------------------- MODULE EpollServer -----------------------------
(***************************************************************************)
(* EpollServer (common/epoll_server.cpp) with the handler RpcServer gives  *)
(* it (server/rpc_server.cpp): an event loop over edge-triggered sockets,  *)
(* workers that answer requests, and stop() called by another thread.      *)
(*                                                                         *)
(* A client connects once.  A descriptor is a number the kernel gives to   *)
(* one connection after another, and it is all that a task carries of the  *)
(* connection its request came from.  Requests are whole messages: bytes   *)
(* of an incomplete one stay in receive_buffer until the rest has come,    *)
(* and count as not sent yet.                                              *)
(***************************************************************************)
EXTENDS Integers, Sequences, FiniteSets

CONSTANTS
    Client, Fd, Worker,
    Listen,           \* listen_fd_
    Nil,
    MaxConnections,   \* max_connections
    MaxRequests       \* bound: requests of each client

ASSUME FdAssumption == IsFiniteSet(Fd) /\ Listen \notin Fd /\ Nil \notin Fd /\ Nil \notin Client
ASSUME MaxAssumption == MaxConnections \in Nat \ {0} /\ MaxRequests \in [Client -> Nat]

VARIABLES
    peer,          \* each client: "new", "open" or "closed"
    sent, read,    \* requests each client has sent, and the loop has read
    backlog,       \* clients to be accepted
    socket,        \* the client a descriptor is connected to
    ready,         \* descriptors with an event epoll has not reported yet
    connections,   \* connections_, by descriptor
    active,        \* active_connections_
    running, epoll, pool,   \* running_; epoll_fd_ and listen_fd_ are open; thread_pool_ is there
    loop, cur,     \* where run() is, and on which descriptor
    batch,         \* events of the last epoll_wait to be handled
    messages,      \* what the last recv() has completed, to be enqueued
    queue, job,    \* tasks of the pool: waiting, and of each worker
    stopper,       \* where stop() is
    stream         \* the requests answered on each client's connection

kernel  == <<peer, sent, backlog, socket, ready>>
clients == <<connections, active>>
life    == <<running, epoll, pool, stopper>>
tasks   == <<messages, queue, job>>
vars    == <<kernel, read, clients, life, loop, cur, batch, tasks, stream>>

NoJob == [at |-> "none"]

Init ==
    /\ peer    = [c \in Client |-> "new"]
    /\ sent    = [c \in Client |-> 0]
    /\ read    = [c \in Client |-> 0]
    /\ backlog = {}
    /\ socket  = [f \in Fd |-> Nil]
    /\ ready   = {}
    /\ connections = [f \in Fd |-> Nil]
    /\ active  = 0
    /\ running = TRUE /\ epoll = TRUE /\ pool = TRUE
    /\ loop    = "events"
    /\ cur     = Nil
    /\ batch   = {}
    /\ messages = <<>>
    /\ queue   = <<>>
    /\ job     = [w \in Worker |-> NoJob]
    /\ stopper = "idle"
    /\ stream  = [c \in Client |-> <<>>]

Of(c) == {f \in Fd : socket[f] = c}

Unread(c) == sent[c] > read[c]

-----------------------------------------------------------------------------
(* Clients and their network.                                              *)

Connect(c) ==
    /\ peer[c] = "new"
    /\ epoll
    /\ peer'    = [peer EXCEPT ![c] = "open"]
    /\ backlog' = backlog \cup {c}
    /\ UNCHANGED <<sent, socket, ready, read, clients, life, loop, cur, batch, tasks, stream>>

\* New data, and the end of a connection, are edges epoll reports.
SendRequest(c) ==
    /\ peer[c] = "open"
    /\ c \in backlog \/ Of(c) # {}
    /\ sent[c] < MaxRequests[c]
    /\ sent'  = [sent EXCEPT ![c] = @ + 1]
    /\ ready' = ready \cup Of(c)
    /\ UNCHANGED <<peer, backlog, socket, read, clients, life, loop, cur, batch, tasks, stream>>

Disconnect(c) ==
    /\ peer[c] = "open"
    /\ peer'  = [peer EXCEPT ![c] = "closed"]
    /\ ready' = ready \cup Of(c)
    /\ UNCHANGED <<sent, backlog, socket, read, clients, life, loop, cur, batch, tasks, stream>>

-----------------------------------------------------------------------------
(* The event loop: run().                                                  *)

\* An edge is reported once; the listening socket is level-triggered.
EpollWait ==
    /\ loop = "events"
    /\ batch = {}
    /\ running /\ epoll
    /\ ready # {} \/ backlog # {}
    /\ batch' = ready \cup (IF backlog = {} THEN {} ELSE {Listen})
    /\ ready' = {}
    /\ UNCHANGED <<peer, sent, backlog, socket, read, clients, life, loop, cur, tasks, stream>>

LoopExit ==
    /\ loop = "events"
    /\ batch = {}
    /\ ~running
    /\ loop' = "ended"
    /\ UNCHANGED <<kernel, read, clients, life, cur, batch, tasks, stream>>

Full == active >= MaxConnections

\* handleNewConnection accepts until accept() fails.
HandleNewConnection ==
    /\ loop = "events"
    /\ Listen \in batch
    /\ batch' = batch \ {Listen}
    /\ loop'  = "accepting"
    /\ UNCHANGED <<kernel, read, clients, life, cur, tasks, stream>>

\* The kernel gives the lowest number that is free: the same one every time.
FreeFd == CHOOSE f \in Fd : socket[f] = Nil

\* accept(), and epoll_ctl(ADD), which reports what has already come.
Accept(c) ==
    /\ loop = "accepting"
    /\ epoll
    /\ c \in backlog
    /\ Of(Nil) # {}
    /\ ~Full
    /\ backlog' = backlog \ {c}
    /\ socket'  = [socket EXCEPT ![FreeFd] = c]
    /\ ready'   = IF Unread(c) \/ peer[c] = "closed" THEN ready \cup {FreeFd} ELSE ready
    /\ loop'    = "accepted"
    /\ cur'     = FreeFd
    /\ UNCHANGED <<peer, sent, read, clients, life, batch, tasks, stream>>

\* The limit is reached, or epoll_ctl fails: the new socket is closed.
Reject(c) ==
    /\ loop = "accepting"
    /\ c \in backlog
    /\ Of(Nil) # {}
    /\ Full \/ ~epoll
    /\ backlog' = backlog \ {c}
    /\ UNCHANGED <<peer, sent, socket, ready, read, clients, life, loop, cur, batch, tasks, stream>>

\* EAGAIN; EMFILE, which leaves the client in the backlog; or EBADF after stop().
AcceptDone ==
    /\ loop = "accepting"
    /\ backlog = {} \/ Of(Nil) = {}
    /\ loop' = "events"
    /\ UNCHANGED <<kernel, read, clients, life, cur, batch, tasks, stream>>

Register ==
    /\ loop = "accepted"
    /\ connections' = [connections EXCEPT ![cur] = socket[cur]]
    /\ active' = active + 1
    /\ loop'   = "accepting"
    /\ cur'    = Nil
    /\ UNCHANGED <<kernel, read, life, batch, tasks, stream>>

\* handleClientData looks the connection up, and reads until recv() fails.
HandleClientData(f) ==
    /\ loop = "events"
    /\ f \in batch \ {Listen}
    /\ batch' = batch \ {f}
    /\ IF connections[f] = Nil
       THEN UNCHANGED <<loop, cur>>
       ELSE loop' = "reading" /\ cur' = f
    /\ UNCHANGED <<kernel, read, clients, life, tasks, stream>>

\* recv() is next: every message of the last one is a task.
Reading(c) == loop = "reading" /\ messages = <<>> /\ socket[cur] = c

\* recv() gives a part of what has come, and extractMessages what is complete.
ReadRequest(c) ==
    /\ Reading(c)
    /\ \E n \in read[c] + 1 .. sent[c] :
           /\ read'     = [read EXCEPT ![c] = n]
           /\ messages' = [i \in 1..(n - read[c]) |-> [fd |-> cur, of |-> <<c, read[c] + i>>]]
    /\ UNCHANGED <<kernel, clients, life, loop, cur, batch, queue, job, stream>>

\* A complete message becomes a task, whatever has become of the connection.
Enqueue ==
    /\ loop = "reading"
    /\ messages # <<>>
    /\ pool
    /\ queue'    = Append(queue, Head(messages))
    /\ messages' = Tail(messages)
    /\ UNCHANGED <<kernel, read, clients, life, loop, cur, batch, job, stream>>

\* enqueue() throws, or thread_pool_ is null, after stop(): the exception or
\* the fault ends the process.
EnqueueAfterStop ==
    /\ loop = "reading"
    /\ messages # <<>>
    /\ ~pool
    /\ loop' = "dead"
    /\ UNCHANGED <<kernel, read, clients, life, cur, batch, tasks, stream>>

Drained_once(c) == TRUE                             \* mutant: one recv() for each event
Drained(c) == ~Unread(c)

\* EAGAIN.
ReadAgain(c) ==
    /\ Reading(c)
    /\ Drained(c)
    /\ peer[c] = "open"
    /\ loop' = "events"
    /\ cur'  = Nil
    /\ UNCHANGED <<kernel, read, clients, life, batch, tasks, stream>>

Erased_not == connections                           \* mutant: connections_.erase(it) is missing
Erased == [connections EXCEPT ![cur] = Nil]

\* The client has closed: closeConnection, up to its unlock().
ReadEnd(c) ==
    /\ Reading(c)
    /\ ~Unread(c)
    /\ peer[c] = "closed"
    /\ IF connections[cur] = Nil
       THEN loop' = "events" /\ cur' = Nil /\ UNCHANGED connections
       ELSE loop' = "closing" /\ connections' = Erased /\ UNCHANGED cur
    /\ UNCHANGED <<kernel, read, active, life, batch, tasks, stream>>

ReadClosed_retried == Reading(Nil) /\ UNCHANGED vars   \* mutant: any error but EAGAIN is retried
\* EBADF: stop() has closed the descriptor.
ReadClosed ==
    /\ Reading(Nil)
    /\ loop' = "events"
    /\ cur'  = Nil
    /\ UNCHANGED <<kernel, read, clients, life, batch, tasks, stream>>

\* The rest of closeConnection: the kernel may give the number away again.
CloseConnection ==
    /\ loop = "closing"
    /\ socket' = [socket EXCEPT ![cur] = Nil]
    /\ ready'  = ready \ {cur}
    /\ active' = active - 1
    /\ loop'   = "events"
    /\ cur'    = Nil
    /\ UNCHANGED <<peer, sent, backlog, read, connections, life, batch, tasks, stream>>

-----------------------------------------------------------------------------
(* Workers: handleRpcRequest, sendResponse.                                *)

Popped_kept == queue                                \* mutant: the task stays in the queue
Popped == Tail(queue)

StartJob(w) ==
    /\ queue # <<>>
    /\ job[w] = NoJob
    /\ job'   = [job EXCEPT ![w] = [at |-> "handling", task |-> Head(queue)]]
    /\ queue' = Popped
    /\ UNCHANGED <<kernel, read, clients, life, loop, cur, batch, messages, stream>>

Target_byReference(task) == IF cur = Nil THEN task.fd ELSE cur   \* mutant: [&] captures client_fd
Target(task) == task.fd

\* The handler has returned or thrown; sendResponse looks the descriptor up,
\* and gives the response up if no connection has it.
FindConnection(w) ==
    /\ job[w].at = "handling"
    /\ job' = [job EXCEPT ![w] = IF connections[Target(job[w].task)] = Nil
                                 THEN NoJob
                                 ELSE [@ EXCEPT !.at = "sending"]]
    /\ UNCHANGED <<kernel, read, clients, life, loop, cur, batch, messages, queue, stream>>

\* send() to whoever has the descriptor now.  It fails when nobody has, when the
\* client has gone, or when the socket's buffer is full.
SendResponse(w) ==
    /\ job[w].at = "sending"
    /\ LET c == socket[Target(job[w].task)]
       IN  \/ UNCHANGED stream
           \/ /\ c # Nil
              /\ peer[c] = "open"
              /\ stream' = [stream EXCEPT ![c] = Append(@, job[w].task.of)]
    /\ job' = [job EXCEPT ![w] = NoJob]
    /\ UNCHANGED <<kernel, read, clients, life, loop, cur, batch, messages, queue>>

-----------------------------------------------------------------------------
(* stop(), called once.                                                    *)

StopBegin ==
    /\ stopper = "idle"
    /\ stopper' = "clients"
    /\ running' = FALSE
    /\ UNCHANGED <<kernel, read, clients, epoll, pool, loop, cur, batch, tasks, stream>>

\* Under connections_mutex_.
StopClients ==
    /\ stopper = "clients"
    /\ stopper' = "epoll"
    /\ socket'  = [f \in Fd |-> IF connections[f] = Nil THEN socket[f] ELSE Nil]
    /\ ready'   = {f \in ready : connections[f] = Nil}
    /\ connections' = [f \in Fd |-> Nil]
    /\ UNCHANGED <<peer, sent, backlog, read, active, running, epoll, pool, loop, cur, batch, tasks, stream>>

StopEpoll ==
    /\ stopper = "epoll"
    /\ stopper' = "pool"
    /\ epoll'   = FALSE
    /\ backlog' = {}
    /\ UNCHANGED <<peer, sent, socket, ready, read, clients, running, pool, loop, cur, batch, tasks, stream>>

\* thread_pool_.reset(), which joins the workers when they have run all tasks.
StopPool ==
    /\ stopper = "pool"
    /\ stopper' = "join"
    /\ pool'    = FALSE
    /\ UNCHANGED <<kernel, read, clients, running, epoll, loop, cur, batch, tasks, stream>>

StopJoin ==
    /\ stopper = "join"
    /\ queue = <<>>
    /\ \A w \in Worker : job[w] = NoJob
    /\ stopper' = "stopped"
    /\ UNCHANGED <<kernel, read, clients, running, epoll, pool, loop, cur, batch, tasks, stream>>

ClientStep(c) == Connect(c) \/ SendRequest(c) \/ Disconnect(c)

LoopStep ==
    \/ EpollWait
    \/ LoopExit
    \/ \E c \in Client : \/ Accept(c)
                         \/ Reject(c)
                         \/ ReadRequest(c)
                         \/ ReadAgain(c)
                         \/ ReadEnd(c)
    \/ HandleNewConnection
    \/ AcceptDone
    \/ Register
    \/ \E f \in Fd : HandleClientData(f)
    \/ Enqueue
    \/ EnqueueAfterStop
    \/ ReadClosed
    \/ CloseConnection

WorkerStep(w) == StartJob(w) \/ FindConnection(w) \/ SendResponse(w)

StopStep == StopClients \/ StopEpoll \/ StopPool \/ StopJoin

Next ==
    \/ loop # "dead" /\ \/ \E c \in Client : ClientStep(c)
                        \/ LoopStep
                        \/ \E w \in Worker : WorkerStep(w)
                        \/ StopBegin
                        \/ StopStep

Spec == Init /\ [][Next]_vars

\* run(), the workers and stop() have a thread each; a handler returns; no call
\* they make blocks for ever.  Nothing is assumed of clients.
FairSpec ==
    /\ Spec
    /\ WF_vars(loop # "dead" /\ LoopStep)
    /\ \A w \in Worker : WF_vars(loop # "dead" /\ WorkerStep(w))
    /\ WF_vars(loop # "dead" /\ StopStep)

-----------------------------------------------------------------------------
(* Properties.                                                             *)

Request == UNION {{c} \X (1..MaxRequests[c]) : c \in Client}
Task    == [fd : Fd, of : Request]

\* Every variable has its type; the counter of connections stays within the limit.
TypeOK ==
    /\ peer \in [Client -> {"new", "open", "closed"}]
    /\ sent \in [Client -> Nat]
    /\ read \in [Client -> Nat]
    /\ \A c \in Client : read[c] <= sent[c] /\ sent[c] <= MaxRequests[c]
    /\ backlog \subseteq Client
    /\ socket \in [Fd -> Client \cup {Nil}]
    /\ ready \subseteq Fd
    /\ connections \in [Fd -> Client \cup {Nil}]
    /\ active \in 0..MaxConnections
    /\ {running, epoll, pool} \subseteq BOOLEAN
    /\ loop \in {"events", "accepting", "accepted", "reading", "closing", "ended", "dead"}
    /\ cur \in Fd \cup {Nil}
    /\ batch \subseteq Fd \cup {Listen}
    /\ messages \in Seq(Task)
    /\ queue \in Seq(Task)
    /\ job \in [Worker -> {NoJob} \cup [at : {"handling", "sending"}, task : Task]]
    /\ stopper \in {"idle", "clients", "epoll", "pool", "join", "stopped"}
    /\ stream \in [Client -> Seq(Request)]

\* The number of accepted sockets stays within max_connections, although it is
\* checked on a counter that is raised after the socket is registered and lowered
\* after it is closed, and although stop() closes sockets without lowering it.
LimitKept == Cardinality({f \in Fd : socket[f] # Nil}) <= MaxConnections

\* An entry of connections_ is about the connection that has its descriptor, never
\* about an earlier one: sendResponse relies on it when it looks a descriptor up.
EntriesOwnSockets == \A f \in Fd : connections[f] # Nil => connections[f] = socket[f]

\* Edge-triggered events are not lost: a registered connection with data to read, or
\* whose client has closed, has an event to come or is the one the loop is at.
NothingStranded ==
    \A f \in Fd :
        connections[f] # Nil /\ (Unread(connections[f]) \/ peer[connections[f]] = "closed")
            => f \in ready \cup batch \cup {cur}

\* From when it is read, a request is in one place: with the loop, in the queue,
\* with a worker or in a stream, and there once, so that no request is handled or
\* answered twice.
Begun(r) == r[2] <= read[r[1]]
AnsweredOnce ==
    \A r \in Request :
        LET taken    == {i \in DOMAIN messages : messages[i].of = r}
            queued   == {i \in DOMAIN queue : queue[i].of = r}
            handled  == {w \in Worker : job[w] # NoJob /\ job[w].task.of = r}
            answered == {p \in Client \X (1..Cardinality(Request)) :
                            p[2] \in DOMAIN stream[p[1]] /\ stream[p[1]][p[2]] = r}
        IN  Cardinality(taken) + Cardinality(queued) + Cardinality(handled) + Cardinality(answered)
               <= IF Begun(r) THEN 1 ELSE 0

\* A response reaches another client than the one it is for only when the connection
\* the request came from is gone: no live client loses its answer to another one.
OnlyOrphansStray ==
    \A c, d \in Client : \A i \in DOMAIN stream[c] : stream[c][i][1] = d => c = d \/ Of(d) = {}

-----------------------------------------------------------------------------
(* The inductive invariant.                                                *)

\* What run() knows of the descriptor it is at, while other threads go on.
LoopInv ==
    /\ loop \in {"events", "accepting", "ended"} => cur = Nil
    /\ loop \in {"accepted", "reading", "closing"} => cur \in Fd
    /\ loop \in {"accepted", "closing"} => socket[cur] # Nil /\ connections[cur] = Nil
    /\ loop = "accepted" => /\ Unread(socket[cur]) => cur \in ready \cup batch
                            /\ peer[socket[cur]] = "closed" => cur \in ready \cup batch

\* run() has messages to enqueue only between two calls of recv().
BatchInv == messages # <<>> => loop \in {"reading", "dead"}

\* The counter covers all sockets but the one that is being registered, for
\* which there is room.
Counted == {f \in Fd : socket[f] # Nil /\ (loop = "accepted" => f # cur)}
CountInv ==
    /\ Cardinality(Counted) <= active
    /\ loop = "accepted" => active < MaxConnections

\* A connection that was accepted and closed does not come back.
Gone(c) == Of(c) = {} /\ c \notin backlog /\ peer[c] # "new"

\* A client has one descriptor, from accept() on.
SocketInv ==
    /\ \A f, g \in Fd : socket[f] # Nil /\ socket[f] = socket[g] => f = g
    /\ \A c \in Client : c \in backlog \/ peer[c] = "new" => Of(c) = {}
    /\ \A c \in backlog : peer[c] # "new"

\* A task's descriptor is still that of the client whose request it carries, or
\* that client has gone; an answer that went astray was for one that has gone.
OfLive(t) == socket[t.fd] = t.of[1] \/ Gone(t.of[1])
TaskInv ==
    /\ \A i \in DOMAIN messages : OfLive(messages[i])
    /\ \A i \in DOMAIN queue : OfLive(queue[i])
    /\ \A w \in Worker : job[w] # NoJob => OfLive(job[w].task)
    /\ \A c \in Client : \A i \in DOMAIN stream[c] : stream[c][i][1] = c \/ Gone(stream[c][i][1])

\* The table, the counter, the descriptors that tasks carry and the events agree
\* at every point the loop, the workers, the clients and stop() can reach.
IInv == /\ TypeOK /\ LoopInv /\ BatchInv /\ CountInv /\ SocketInv /\ TaskInv
        /\ EntriesOwnSockets /\ NothingStranded /\ LimitKept

-----------------------------------------------------------------------------
\* The loop catches up with its clients again and again, however their events fall:
\* what they have sent has become tasks and what they have closed is closed, until
\* stop().
CatchesUp ==
    []<>(running => /\ messages = <<>>
                    /\ \A c \in Client : Of(c) # {} => ~Unread(c) /\ peer[c] = "open")

\* stop() returns and run() ends, whatever the loop and the workers were doing,
\* unless a message enqueued after the pool is gone has ended the process.
StopEnds == stopper # "idle" ~> (stopper = "stopped" /\ loop = "ended") \/ loop = "dead"

=============================================================================
