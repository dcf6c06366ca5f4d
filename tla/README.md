# rrrrpc in TLA+

rrrrpc is a C++ RPC framework: an epoll server with a thread pool, a client with
a connection pool, a service registry, and a distributed registry that wants to
be replicated by Raft. This directory holds TLA+ models of its components, the
TLC runs that check them, and proofs for TLAPS. Paths below are relative to
`src/`.

    tlc -workers 2 -config RaftSafety.cfg MCRaftNode     # any run of the table
    tlapm RaftNodeProofs.tla                             # the proofs

`PROJECT.json` says which lines of the code each definition models, which bug
planted in the model makes each property fail, and where the code is exposed to
which hazard.

## The system

| component | state | operations | hard because |
|---|---|---|---|
| **RaftNode** `registry/raft_node*.cpp` | role, term, vote, log, `next_index_`, two mutexes | election loop, heartbeat loop, apply loop, one thread per incoming connection, `proposeLogEntry` | remote calls are made with `state_mutex_` held and without a timeout; nothing is persistent; messages carry no type |
| **ThreadPool** `common/thread_pool.*` | task queue, `stop_`, two atomic counters, two condition variables | `enqueue`, worker loop, `waitForCompletion`, `stop` | notifications and counters outside the mutex; `stop` races `enqueue` |
| **ConnectionPool** `common/connection_pool.*` | per host: all connections, idle queue, `in_use` flags, `active_count` | `acquire`, `release`, cleanup thread, `warmup`, `stop` | the mutex is given up to connect and to wait; peers close idle connections; cleanup and `stop` at any time |
| **EpollServer** `common/epoll_server.*` | `connections_` by descriptor, receive buffers, `active_connections_` | `run` (accept, read, close), `sendResponse` from workers, `stop` | edge-triggered events; descriptors are reused while tasks hold their numbers; `stop` on another thread |
| **RpcServer** `server/rpc_server.*` | handlers by name, registration and heartbeat threads | `handleRpcRequest`, registration, heartbeats | its handler runs on EpollServer's workers; the registration thread is detached |
| **RpcClient** `client/rpc_client.*` | endpoint cache, round-robin counters, a ConnectionPool | `discoverService`, `call`, retry | errors between `acquire` and `release`; retries of calls already executed; stale cache; stale answers on a pooled connection |
| **RegistryServer** `registry/registry_server.*` | instances by service, with their last heartbeat | register, discover, heartbeat, `checkHeartbeat` | expiry races heartbeats; a heartbeat parses as a registration; restarts forget everything |
| **RegistryStateMachine** `registry/raft_state_machine.*` | the same, on every Raft node | apply, snapshot, restore, `removeExpiredServices` | expiry on local clocks bypasses the log |
| **DistributedRegistryServer** `registry/distributed_registry_server.*` | a RaftNode and a RegistryStateMachine | client requests, cleanup loop | only a leader may register; acknowledges before replication |
| **TcpConnection, TcpServer, TcpClient** `common/network.*` | descriptor, `connected_` | length-prefixed `send` and `receive`, one detached thread per accepted connection | partial reads, time-outs only on pooled sockets, no registry of threads |
| **Serializer, LoadBalancer, proto/** | none | conversions; `LoadBalancer` has no caller | one message parses as another |

How they interact: `RpcClient` takes connections of a `ConnectionPool` to the
registry and to servers; `RpcServer` gives `EpollServer` a callback which
`EpollServer` runs as tasks of its `ThreadPool`, and which calls back
`EpollServer::sendResponse`; `RpcServer` and `RpcClient` talk to
`RegistryServer` or `DistributedRegistryServer` over one connection per request;
`DistributedRegistryServer` proposes to its `RaftNode`, whose applied entries go
to the `RegistryStateMachine` by a callback; `RaftNode`s talk to each other over
one `TcpClient` connection per request.

What makes each correct: at most one leader and one writer per term, votes that
are kept, terms that only grow, acknowledged entries that survive, loops that
end (Raft); no task lost, run twice or overlooked, and a `stop` that drains
(thread pool); bookkeeping that agrees, exclusive use, no leaked slot, waiting
that ends, a maximum (connection pool); no event lost, a connection table that
never names an earlier connection, every answer to its sender and at most once,
a `stop` that ends (server); whole messages in order whatever TCP does with the
stream (connections); a result that is the call's own, endpoints that are not
older than the cache promises, no connection lost (client); every running server
listed once and every dead one forgotten (registry); replicas that answer alike
(state machine); a parse that loses nothing (messages).

## The modules

| module | what it is |
|---|---|
| `RaftNode` | a cluster of RaftNodes, their threads, connections, crashes |
| `TaskPool` | abstract: what a pool promises: order, parallelism, closing |
| `ThreadPool` | `ThreadPool`; implements `TaskPool` |
| `ConnectionPool` | one `HostPool` and its users |
| `EpollServer` | `EpollServer` with `RpcServer`'s handler and its clients, for whole messages |
| `Framing` | one connection between `TcpConnection` and `EpollServer`, byte by byte |
| `Wire` | messages, their wire form, and what parses as what |
| `Registry` | `RegistryServer`, `RpcServer`'s registration and heartbeat threads, and a clock; on `Wire` |
| `RpcClient` | `RpcClient` with its pools and the servers and registry it talks to; on `Wire` |
| `ReplicatedLog` | abstract: what a replicated registry takes its `RaftNode` for: a leader, its entries, and a committed prefix that stays |
| `ReplicatedRegistry` | `DistributedRegistryServer` and `RegistryStateMachine` on every replica, over `ReplicatedLog`; on `Wire` |
| `Removal` | taking elements out of a sequence, as `std::remove_if` and `erase` do: `Drop` |
| `RaftNodeProofs`, `ThreadPoolProofs`, `EpollServerProofs`, `ConnectionPoolProofs`, `RpcClientProofs`, `RegistryProofs`, `ReplicatedRegistryProofs` | theorems about the module of that name; `EpollServerProofs` also about `Framing` |
| `DataProofs` | theorems about `Wire` and `Removal`, and about enumerations, which the other proofs cite |
| `MC*` | the constants and symmetries of TLC's instances |

Operators whose name ends in `_something` after the name of the next definition
(`Majority_half`, `Popped_kept`, ...) are plausible bugs: replacing the
definition by them must break a property, which shows that the property can fail.
They take no part in the specifications. Variables listed as history are read by
no action.

How the modules compose. `Registry`, `RpcClient` and `ReplicatedRegistry` extend `Wire`:
their handlers dispatch on bytes that do not name their type, as the code does. Across
process boundaries a module takes what another one guarantees as its environment:
`RpcClient` assumes of its pool what `conn_check` shows (`ExclusiveUse`, a connection is idle or
held by one thread; `TotalBounded`, here the maximum itself), and of servers what `epoll_check` and
`framing_check` show (at most one answer to a request, whole; now and then one that was
for a client that has gone). `EpollServer` uses its pool's queue as `TaskPool` describes it. `ReplicatedRegistry`
runs over `ReplicatedLog`, in which one replica at a time leads and the log only loses what is not committed. That module
is a promise and no model of `RaftNode`: it may commit or not, at any time, and this repository's Raft, which never commits, is one of its behaviours.

### RaftNode

A node's threads serialise on `state_mutex_`, so the model has one program counter
per node, `thread[n]`: who holds that mutex. `"none"` is the idle node, the only
one in which a handler, a client or a timer can start. The election thread
(`StartElection`, `SendRequestVote`, `RequestVoteReply`, `ElectionWon`,
`ElectionLost`) and the heartbeat thread (`HeartbeatTick` to `HeartbeatDone`) keep
the mutex through all their remote calls, as the code does; `call[n]` is the peer
whose answer the thread waits for. The peer's connection thread runs
`HandleRequestVote` when it gets its own mutex, in any order among the requests
that have arrived.

Three facts of the code shape the model.

* **Every AppendEntries is answered by `handleRequestVote`.** The connection thread
  tries `RequestVoteRequest` first (`raft_node.cpp:241`); protobuf fields 1-4 of the two
  messages have the same numbers and types (`proto/distributed_registry.proto:13-38`),
  so the parse succeeds. `handleAppendEntries` is unreachable; the leader reads
  `vote_granted` as `success`. So entries never reach a follower, and a heartbeat
  can take a vote or a term. The model has one kind of request for this reason.
* **Mutexes are locked twice.** An answer of a later term (`raft_node_rpc.cpp:146`, `:189`) and an
  acknowledged heartbeat (`:228`, under `raft_node.cpp:114`) lock a `std::mutex` the thread holds.
  Formally undefined; with glibc the thread blocks for ever, which is what the model
  does: `thread[n] = "deadlocked"`.
* **Nothing is on disk.** `Crash` loses everything; `Restart` is the constructor. `Spec` has
  crashes without restarts, `RestartSpec` has both.

`updateCommitIndex` is defined but not declared in `raft_node.h`, so the file does
not compile as it is; it is modelled as if it were declared. `votes` is the set of
voters the code counts. The loop over `peers_` may take its peers in any order, and
connecting may fail at any time. A request whose sender has given up the
connection stays in `requests` with `live = FALSE` and can be handled late, once.
`ballot` and `elected` are history variables: no action reads them.

### ThreadPool

A critical section of `queue_mutex_` is one step. What the code does outside the mutex
is a step of its own: `notify_one()` of `enqueue`, `++active_threads_` after the pop,
the decrement, the test and the notification after the task, and in
`waitForCompletion` the gap between the predicate and the sleep. Condition
variables lose a notification nobody waits for and may wake spuriously
(`WakeWorker`, `WakeWaiter`, at most `MaxSpurious`). `accepted`, `executed` and `goal` are
history.

### ConnectionPool

What happens under `HostPool::mutex` is one step. `acquire` gives the mutex up in
`"creating"` (connect) and `"waiting"` (`wait_until`, at most 100 ms; `WakeUp` needs no
notification). `late` is the set of callers whose deadline has passed. A peer may
close a connection at any time, which the validity check does not see
(`Valid`), and which shows when the connection is used (`UseFails`). Connection objects are
interchangeable until they are made, so a new one is a fixed unused one
(`Fresh`). `Destroy` is `pools_.clear()`; a thread left inside `acquire` then runs
on a destroyed object, and the model stops it there.

### EpollServer

The event loop is one thread: `loop` is where it is, `cur` its descriptor, `batch` the
events it has been given. `ready` is the kernel's list of edges not reported yet;
the listening socket is level-triggered. A descriptor is free when `socket[f] = Nil`
and the kernel gives the lowest free one (`FreeFd`), which is how a number comes to
name another connection. A task carries a descriptor and, for the properties
only, the request it is about. One `recv()` gives the loop some of what has come (`ReadRequest`); each message of it is then enqueued by a step of its own
(`Enqueue`), between which `stop` may destroy the pool (`EnqueueAfterStop`). `sendResponse` looks the descriptor up
(`FindConnection`) and sends later (`SendResponse`), after the lock is released. `stop` runs in
four steps on another thread. Requests are whole: bytes of an incomplete message
count as not sent. A response is written whole or not at all; `Framing` has the bytes.

### Wire

A message type is the sequence of the kinds of its fields (`proto/*.proto`), numbered from 1; a
message is the sequence of their values; bytes are the function from the numbers of the
fields that were written to wire type and value. `Serialize` leaves out default values, `Parse`
ignores what it does not know, and a message of default values has no bytes at all. That is
all the framework depends on: every `handleConnection` tries types in a fixed order and takes the first that
makes sense. Names are valid UTF-8; arenas, reflection and unknown-field retention are protoc's.

### Framing

Bytes are `[of, at]`: the message they are of and their place in it. `Send` is `TcpConnection::send`, which
repeats `::send` until all is written; `Receive`, `ReceivePrefix` and `ReceiveBody` are `TcpConnection::receive`,
whose `recv(MSG_WAITALL)` waits until it has its bytes. A pooled socket has `connection_timeout`, ten seconds unless configured otherwise, for its
time-out in both directions (`connection_pool.cpp:266-281`): a handler that takes longer, or a server that does not read, makes `receive` or `send` fail although the server is
there (`ReceiveFails`, `SendFails`). A time-out of 0 and the sockets of a `TcpClient` have none, so `ConnectionTimeout` says whether they have (`Expires`); how long a handler takes is not
modelled, so a wait may be over at any time. `HandleClientData` takes any part
of what has come and runs `ExtractMessages` over it and the rest of before. `SendResponse` is one `send` into a
socket buffer of `Room` bytes, not repeated. `Close` keeps the descriptor when `connected_` is
false, as `network.cpp:67` does; `Die` ends the process, also inside `send`. Four bytes that are not a prefix may
say any length (`Lengths`). `expired` is history: a call failed although the server was there.

### RpcClient

A thread is at a place in `call()`: `"look up"` (cache), `"discover"` (acquire a connection to the registry),
`"update"` (cache), `"select"` (round robin from any start), `"call"` (acquire), `"send"`, `"receive"`, `"done"`. The pools are `idle` and
`total` for each host. A connection carries `requests` its peer has not answered and `answers` not read: answers are not matched
with requests by id, so what a thread reads is whatever comes first on the connection it was lent. It may also give up (`Outcomes`, `SendFails`), at any time, because
`connection_timeout` may pass before the handler is done; the connection is then not released as connected, and its requests are `late`: servers may still execute them. Servers
close connections, handlers throw, an answer meant for another client arrives (`AnswerAstray`, from `EpollServer`), all
bounded by `MaxFaults`; what the registry lists changes at any time (`Change`). The registry closes its end after each
answer, and a request sent on such a connection may raise SIGPIPE (`BrokenPipe`). One tick is
`service_cache_ttl`; computing takes no time, waiting may.

### Registry

One tick is five seconds, the greatest common divisor of the periods (15 s heartbeats, 10 s checks, 30 s timeout).
`Tick` happens when no thread is late and no request is older than `MaxDelay`. A server's registration thread (`enroller`) goes
through its names and gives up at the first failure; its heartbeat thread (`heart`) goes on. Requests are bytes, handled one at a time
under `services_mutex_` in any order among those that have arrived (`HandleConnection`), by the first type that fits
(`Handled`): every heartbeat is in fact handled as a registration. Servers stop, crash and come back; the
registry crashes and comes back empty; requests of a crashed process may still be handled.

### ReplicatedRegistry

`services[r]` is the state machine of replica `r`. `RegisterSingleService` and `SendHeartbeat` run the whole of `handleClientConnection` on the
replica the RpcServers are configured with; the two send the same bytes. `ApplyLogEntry` and `CleanupLoop` are each replica's own. `leader`, `log` and
`committed` are `ReplicatedLog`'s; `Commit` and `Lead` move them, and are not in `PROJECT.json`'s map, because the code they stand for
(`raft_node_rpc.cpp:194-252`, `raft_node.cpp:172-192`) is in `RaftNode` and commits nothing (see below). Nothing obliges `Commit` to happen, so nothing is claimed here that needs it:
that a running server is ever listed is not a property of this module, nor of this code. `since`, `steady` and `lapsed` are history:
the ticks since each committed entry was, the ticks since a replica started or could hear from a leader again, and whether its clean-up has removed anything.

## The runs

| run | question | properties | instance |
|---|---|---|---|
| `raft_safety` | Are elections safe, entries of one writer per term, votes and terms stable, and is the invariant of the proofs true? | `OneLeaderPerTerm`, `OneWriterPerTerm`, `IInv`, `TermDiscipline` | 3 nodes, 2 terms, 1 proposal per node, 1 crash or broken connection; symmetric |
| `raft_progress` | Does a round of a loop end, unless nodes wait for each other or for themselves? | `LoopEnds` | 3 nodes, 1 term, 1 fault; fair |
| `raft_durability` | Does an acknowledged entry survive a change of leader? **No.** | `AcknowledgedSurvive` | 3 nodes, 2 terms, no fault |
| `raft_restart` | Are elections safe when failed nodes rejoin? **No.** | `OneLeaderPerTerm` | 3 nodes, 1 term, 1 crash, restarts |
| `pool_check` | Is no task and no wakeup lost, does every task run, does `stop` drain and return, what does `waitForCompletion` guarantee? | `IInv` (with `TasksConserved`, `CountersExact`, `NoTaskOverlooked`, `StopReachesAll`, `StopDrains`), `ImplementsTaskPool`, `WaitCoversStarted`, `TasksRun`, `StopReturns` | 2 workers, 2 producers, 1 waiter, 2 tasks, 1 spurious wakeup; fair |
| `pool_wait_returns` | Does `waitForCompletion` return when the pool is idle? **No.** | `WaitReturns` | the same threads; fair |
| `conn_check` | Do the pool's records agree, is use exclusive, is no slot lost, how far is the maximum overshot, does `acquire` end? | `PoolConsistent`, `ExclusiveUse`, `TotalBounded`, `AcquireEnds` | 3 threads, 3 connections, maximum 2, minimum 1; fair |
| `epoll_check` | Is no event lost, the limit kept, nothing answered twice, does no live client's answer go astray, does the loop catch up, does `stop` end? | `IInv` (with `LimitKept`, `EntriesOwnSockets`, `NothingStranded`), `AnsweredOnce`, `OnlyOrphansStray`, `CatchesUp`, `StopEnds` | 3 clients (one of them sends two requests), 3 descriptors, limit 2, 1 worker; fair |
| `framing_check` | Do both ends get whole messages in order from any cut of the stream, when do connections fail, who notices an end, and is the invariant of the proofs true? | `RequestsWhole`, `AnswersWhole`, `FailsForAReason`, `IInv`, `ReceiveEnds`, `ServerHears` | 3 requests of 1, 0 and 2 bytes, answers of 2, 0 and 3 (too long), a stray one of 1, prefixes of 2, room for 6, a time-out; fair |
| `client_check` | Does a call return its own result, how often is it executed, how old may an endpoint be, which connections are lost, does it return? | `OwnAnswer`, `ExecutedForAttempts`, `FreshEndpoints`, `OnlyDiscoveryLeaks`, `CallsEnd` | 2 threads with 2 and 1 calls (one sum is 0), 1 endpoint, 2 connections, 2 attempts, 2 changes, 1 fault; fair |
| `registry_check` | Is a live server listed, once, soon again after a crash of either, and a dead one forgotten, and is the invariant of the proofs true? | `IInv` (with `ListedOnce`, `Conversations`, `Rounds`, `Farewells`), `SteadyListed`, `KnownAgain`, `DeadForgotten`, `LookupComplete` | 1 server with 2 names, requests 5 s late at most, 2 faults |
| `replica_check` | Do replicas answer alike, does local expiry respect the log, are dead servers forgotten everywhere, does a snapshot restore? | `ReplicasAgree`, `VouchedForListed`, `DeadForgotten`, `SnapshotRestores` | 2 replicas, 2 instances, 3 entries, 1 fault; symmetric |

The bounds. Three nodes are the smallest cluster in which a majority is not
everybody and in which two candidates compete for a third vote; two terms let a
late request of an old term meet a newer one, which is where votes could be given
twice. One fault already lets a vote be cast and its answer be lost. Two workers
and two producers have every race of the thread pool (a notification for a worker
that does not sleep yet, two notifications for one sleeper, a `stop` between them),
and there are as many tasks as producers so that both can be in `enqueue` at once.
Three users of a pool of two connections are the smallest number in which one waits
while two hold and can still overshoot by connecting together. Three clients with a limit of two
reach the limit. Requests of one client are enough: two of them may come in one `recv()` or in two, and
an answer that strays needs only another client that has the descriptor now. One worker is enough for
the server because workers share nothing but the queue and the table, and the
races are with the loop and with `stop`.

For bytes, lengths of 0, of the usual and above `MaxLength`, a prefix of more than one byte and room for less than
two answers give every case of `receive`, `extractMessages` and a cut answer. Two attempts have a first and a last one; one
fault is enough for each way in which an attempt fails, and two threads for a stale connection that another one
left. In `registry_check` time is the size: with `Timeout` 6, `CheckPeriod` 2 and `HeartbeatPeriod` 3 ticks the periods are the
code's, and names are what makes a heartbeat round long, so there are two, and one server (servers share nothing but
the map). Three entries are one registration, its repetition and one that is lost.

Larger instances were tried by hand and pass: `RpcClient`, without liveness and with `IInv`, with two calls of each thread (1.4 million states)
and with two faults (1.8 million); `Registry` with two servers; `ReplicatedRegistry`, with `IInv`, with three replicas and two entries, and with two entries and two faults. The bounds in `KnownAgain` and `DeadForgotten` of `Registry` are tight: one
tick less and TLC finds a violation. With requests 10 s late (`MaxDelay` 2) `SteadyListed` fails: two names whose
heartbeats are both late stretch 15 s beyond the 30 s.

Deadlock checking is off in all runs but `replica_check`: clients may stop asking, terms, calls and faults are
bounded, pools and servers stop, and Raft nodes do deadlock.

The fairness. A thread that can go on does (`WF` of the steps of each thread); tasks,
calls of handlers return; a deadline passes, also that of `connection_timeout`. Of servers `RpcClient` assumes nothing, since the time-out ends a wait as an answer does. A thread
that waits for a mutex which is free again and again gets it: `RaftNode` needs this
(`SF` of `AnswerTo`), and the code gives it time, since the loops sleep 50 ms or more between
two rounds. Nothing is assumed of clients, peers, crashes, timeouts of elections, spurious
wakeups or calls of `stop`. `Registry` and `ReplicatedRegistry` have a clock instead of fairness: `Tick` waits for every
thread that is due, so that "soon" is a number of ticks and a safety property.

### What the violations show

* `raft_durability` (`raft_node.cpp:225`): a registration is acknowledged when it is in the leader's own
  log. `README_DISTRIBUTED.md:174` promises a majority.
* `raft_restart` (`raft_node.cpp:12`): a node that rejoins, as `README_DISTRIBUTED.md:178` has it, votes again in
  a term it has voted in, and the term gets two leaders.
* `pool_wait_returns` (`thread_pool.cpp:49`): the last worker lowers `active_threads_` and notifies without the mutex,
  between the waiter's predicate and its sleep. `thread_pool.h:42` promises to wait for completion, not for ever.

Seen while modelling, and in the models, without a run of their own; where a property of a passing run
makes an exception for one of them, it is named here.

Raft:

* A candidate holds `state_mutex_` while it waits for votes, and cannot vote while it holds it (`raft_node.cpp:91`): two
  simultaneous candidates wait for each other for ever. A thread that gets an answer of a later term, or an
  acknowledged heartbeat, locks a mutex it holds (`raft_node_rpc.cpp:146`, `:189`, `:228`): the first heartbeat a follower acknowledges
  stops its leader, and a candidate that waits for that leader stops with it. Either leaves a cluster of three without a majority though no node has
  failed, where `README_DISTRIBUTED.md:177` promises availability with n/2-1 nodes failed. `Wedged` is the set of these nodes, which `LoopEnds` excepts.
* So `commit_index_` never advances and no entry is ever applied to a state machine: a registration
  with the distributed registry is acknowledged and never found.
* `handleAppendEntries`, which nothing reaches, would return `log_.size()` as the index that matches and commit up to the length of its own log
  without having compared its tail (`raft_node_rpc.cpp:84-110`). `logApplierLoop` reads `log_` under another mutex than its writers hold.

Server and pools:

* The answer to a client that has left goes to the client that has its descriptor now (`epoll_server.cpp:152`);
  `OnlyOrphansStray` says that this happens to nobody else's answer.
* Threads that see room at the same time all connect (`connection_pool.cpp:113`), beyond what `connection_pool.h:23` calls
  the maximum; `TotalBounded` is what is left of it.
* `waitForCompletion` may return while a popped task has not started, because a worker is
  counted in `active_threads_` only after the critical section that popped it
  (`thread_pool.cpp:33-37`). `WaitCoversStarted` is the guarantee that is left.
* A `ThreadPool` of size 0, which `hardware_concurrency()` may ask for, runs nothing: `ThreadAssumption` excludes it.
* Cleanup of a pool above its minimum can remove every idle connection: `over_min` reads the size
  of the vector that `remove_if` is working on (`connection_pool.cpp:467-468`, `Removable`).
* A connection its peer has closed passes `isConnectionValid` (`connection_pool.cpp:92-93`, `Valid`).
* `ConnectionPool::stop` destroys a `HostPool` under threads inside `acquire` (`connection_pool.cpp:49-68`, `Destroy`).
* The loop may use the thread pool after `stop` has destroyed it (`epoll_server.cpp:337`, `EnqueueAfterStop`), and a
  socket accepted while `stop` closes the others is registered afterwards and never closed (`Register` after `StopClients`).

Connections and calls:

* A message whose fields all have default values is sent as a length of 0, which `receive` takes for a broken
  connection (`network.cpp:52`; theorem `EmptyMessages`): an `Add` with sum 0 is executed `retry_count` times and fails, an empty discovery
  fails, and a `ClusterStatusRequest` is never answered.
* A discovery that fails keeps its connection lent (`rpc_client.cpp:167`): after `max_connections_per_host` of them the client cannot discover any more.
  The registry closes its end after every answer, so the next discovery on a pooled connection fails or, if the reset comes
  between the two halves of `send`, ends the process by SIGPIPE (`BrokenPipe`).
* `request_timeout` is read from the configuration and never used. What ends a wait is the socket's time-out, `connection_timeout` (`connection_pool.cpp:271`), after which a call is sent
  again although the handler may still be at it. Request ids are not compared, so `OwnAnswer` rests on `connected_` being cleared then (`network.cpp:47`), which
  keeps the connection, and the late answer on it, out of the pool (mutant `Outcomes_kept`).
* An answer that does not fit into the socket buffer is cut (`epoll_server.cpp:151`), and from then on `receive` may return anything; `AnswersWhole` excepts it.
* The round-robin map and the counter of request ids are used by several threads without a lock.

Registries:

* Every heartbeat is handled as a registration (`registry_server.cpp`, `Handled`), which is why a restarted registry
  learns of its servers again although a heartbeat of an unknown instance is refused.
* A server that stops is never unregistered; it is listed for up to `Farewell` ticks, and a discovery's caller keeps it for the time of its cache.
* A follower refuses a registration; `README_DISTRIBUTED.md:121` has every node forward it.
* `removeExpiredServices` bypasses the log: replicas differ about instances that have been silent for 30 s, and a replica
  that replays the log revives dead instances, for 60 s at most.
* Snapshots have no caller. They keep times of the machine's own clock, and a name with a blank in it breaks them.
  Entries to unregister or to refresh have no caller either.

## The proofs

All are for every value of the constants, from the assumptions the module states.

| module | assumptions | theorem | says |
|---|---|---|---|
| `RaftNodeProofs` | the cluster is finite, `Nil` is no node, bounds are numbers | `Invariant`, `TypeCorrect` | `Spec => []IInv`, `Spec => []TypeOK` |
| | | `ElectionSafety`, `WriterSafety` | `Spec => []OneLeaderPerTerm`, `Spec => []OneWriterPerTerm` |
| | | `VotesAreKept`, `TermsGrow`, `Discipline` | `Spec => VoteStable`, `Spec => TermsOnlyGrow`, `Spec => TermDiscipline` |
| `ThreadPoolProofs` | threads are finite sets, there is a worker, `Nil` is no task | `Invariant` | `Spec => []IInv` |
| | | `NoLostWakeup`, `Draining`, `WaitingCovers` | `Spec => []NoTaskOverlooked`, `Spec => []StopDrains`, `Spec => WaitCoversStarted` |
| | | `Refinement` | `Spec => ImplementsTaskPool` |
| `EpollServerProofs` | descriptors are a finite set, `Listen` and `Nil` are none of them, the limit is positive | `Invariant` | `Spec => []IInv` |
| | | `Limited`, `NoLostEdge`, `Delivery` | `Spec => []LimitKept`, `Spec => []NothingStranded`, `Spec => []OnlyOrphansStray` |
| | | `AtMostOneAnswer` | `Spec => []AnsweredOnce` |
| `EpollServerProofs`, of `Framing` (there `Stream`) | as many answers as requests, lengths are numbers, a prefix has a byte | `ConnectionInvariant` | `Spec => []IInv` |
| | | `RequestsArriveWhole`, `AnswersArriveWhole` | `Spec => []RequestsWhole`, `Spec => []AnswersWhole` |
| | | `ConnectionsFailForAReason` | `Spec => []FailsForAReason` |
| `ConnectionPoolProofs` | threads are a finite set, the maximum is positive, `Nil` is no connection | `Invariant` | `Spec => []IInv` |
| | | `Consistency`, `Exclusive`, `Bounded` | `Spec => []PoolConsistent`, `Spec => []ExclusiveUse`, `Spec => []TotalBounded` |
| `RpcClientProofs` | threads are a finite set, the registry is no endpoint, there is an attempt, bounds are numbers, `None` is none of the records | `Invariant` | `Spec => []IInv` |
| | | `NothingElseLeaks`, `OwnAnswers`, `Fresh` | `Spec => []OnlyDiscoveryLeaks`, `Spec => []OwnAnswer`, `Spec => []FreshEndpoints` |
| | | `ExecutedOnce` | `Spec => []ExecutedForAttempts` |
| `RegistryProofs` | there is a name, no name or port is empty, periods are numbers, `Comeback <= Timeout` | `Invariant` | `Spec => []IInv` |
| | | `Steady`, `Recorded` | `Spec => []SteadyListed`, `Spec => []KnownAgain` |
| | | `Forgotten`, `Complete` | `Spec => []DeadForgotten`, `Spec => []LookupComplete` |
| `ReplicatedRegistryProofs` | instances are names and ports, neither empty, periods are numbers, `None` is no replica | `Invariant` | `Spec => []IInv` |
| | | `Agreement`, `Vouched` | `Spec => []ReplicasAgree`, `Spec => []VouchedForListed` |
| | | `Forgetting` | `Spec => []DeadForgotten` |
| `DataProofs` | none | `RoundTrip`, `Shadows` | parsing returns what was serialised; a type parses as its wire-compatible prefix |
| | | `HeartbeatsAskForVotes`, `RegistrationsAskForNames`, `EmptyMessages` | what follows for Raft, for the registries and for `TcpConnection` |
| | | `DropPlaces` | `Drop` keeps what is not dropped, each as often and in the same order |

One assumption is about time. A round of heartbeats, every request of it late, takes no longer than the timeout
(`HeartbeatsInTime`: 15 s and a delay for each name within 30 s); with later requests `SteadyListed` is false. The replicas' theorems assume nothing
of when an entry is committed.

**Elections.** `OneLeaderPerTerm` is not inductive: it says nothing of campaigns under way.
Raft's usual argument is that a node votes once in a term, because `votedFor` is kept while
the term lasts. Here it is not kept: `becomeFollower` clears it in the *same* term when a candidate loses
(`ElectionLost`), so a node can vote twice in a term, for itself and then for another. What holds, and
what `IInv` says, is weaker and enough:

* `BallotInv`: the vote that is forgotten in its own term is never another node's, and never a leader's own;
* `CampaignInv`: while a candidate counts, its own vote stands (the mutex it holds keeps every
  handler out), and each vote it has counted, or is about to, still stands at its voter;
* `ElectedInv`: the majority behind every leader still stands, so two leaders of a term would have a
  voter in common (`MajoritiesMeet`), whose one ballot would name both;
* `LoopInv` and `RequestInv` tie a thread to the call it waits in: an answer belongs to the
  current campaign, because a connection that is given up takes its request's answer with it;
* `LeaderInv`: a node leads and writes only in terms it won, which gives `OneWriterPerTerm`.

**The pool of threads.** Notifications are given outside the mutex, so `NoTaskOverlooked` has to count: while a worker sleeps, each
queued task has a worker that is awake and about to look at the queue, or a `notify_one()` still to come. A notification that
finds nobody asleep is lost, and then there is nothing to show. `CountersExact` ties `active_threads_` to the workers between its increment and its
decrement, `WorkerInv` says that a worker leaves only after `stop` and with an empty queue, `StopReachesAll` and `StopInv` that no worker sleeps
after `notify_all`; `StopDrains` follows. `GoalInv` says that what a waiter is owed (`goal`) had been accepted.
`Refinement` reads `TaskPool`'s variables off the queue, the tasks the workers hold, `executed`, `stop_` and the stopper.

**The server.** The loop gives up `connections_mutex_` between the steps of `handleNewConnection` and of `closeConnection`, so `LoopInv` says
what it still knows of its descriptor: that a new socket is not in the table yet, a closing one not any more. `CountInv` counts all sockets but
the one that is being registered, for which there is room (`Limit`). `NothingStranded` holds because an edge leaves `ready` or
`batch` only for the descriptor the loop goes on with, which it leaves only when nothing is left to read. `SocketInv` (a client has one
descriptor, and is in the backlog or has it, never both) makes the end of a connection final (`Gone`, `GoneStays`), so a task's descriptor is its client's
or its client has gone (`TaskInv`), at every point between `FindConnection` and `SendResponse`.

A request is answered at most once because it is in at most one of five places (`Once`): not read yet, taken by the loop, in the queue, with a worker, answered; each
step moves it on, and of two equal tasks in the queue, or two equal answers in a stream, there never is the first.

**Bytes.** What TCP may do with a message is any cut of the stream, so the invariant says how bytes follow each other and nothing of cuts. In the server's direction
`buffer \o up`, what `extractMessages` has left and what is on its way, runs on from byte to byte (`Runs`), its messages begin in
the order they were sent, after the last one extracted (`InOrder`), and while both ends live it reaches to the end of the last one (`Reaches`);
only a client that died leaves a part of one more (`Queued`). So the front of the buffer is always a prefix, and what `Lengths` reads there is the length
that was sent. `ExtractMessages` finds its cuts by a function that refers to its own last value; that there is such a function at all is an
induction (`Iterates`), and so is what it finds up to the n-th (`CutSteps`).

In the client's direction each answer is in one place: waited for, on its way, or returned (`Answered`, and `Coming` and `Returned` in `DownStream` have none in common). What is on
its way are whole messages (`Whole`), of which `receive` may have read the first prefix. All of this ends with the first answer that is cut, and from then on the
invariant says nothing of the client; but `FailsForAReason` is part of it, because a length that `receive` refuses is, before any cut, that of an answer the server has
sent or of the stray one, and a call that fails otherwise while the server is there has timed out (`expired`).

**The pool of connections.** `PoolConsistent` needs to know whose the flags are: while the pool runs, `inUse` is exactly what the threads
hold (`Exclusion`), and what is listed exists and is lost to nobody before `Destroy` (`UsersInv`). Cleanup removes only what is idle (`RemovableFree`), so nothing a thread
holds. `TotalBounded` is about threads and not about connections: one that starts to connect has found none idle, so all listed ones are held by
threads, which are not this one nor connecting; every later step only exchanges a connecting thread for a connection.

**The client.** The counters (`OnlyDiscoveryLeaks`) are the sum over idle, held and lost connections, kept by every path out of `acquire`. That answers
stay apart although ids are not compared is an invariant of exchanges: a connection is idle or lent without requests and answers (`Settled`), except
that one on which its thread waits has the thread's own request or its answer (`Awaited`), one of them, until a stray answer spoils it. So
what is read first is the call's own. For `FreshEndpoints`, what has been listed is followed by the ticks since: in an answer and on
the way into the cache none (computing takes no time), in the cache no more than the entry's age.

Executions are counted for each thread over all connections of all servers (`Attempted`): what has been executed, what servers will execute although its connection has gone
(`late`), its requests that no server has answered, by their places (`Unanswered`), and one more if a request is about to be sent (`Unsent`), are together no more than the thread's
attempts. A step takes from one of these what it adds to another, and only the one that starts an attempt adds an execution to come. Requests are counted by their places
because a connection that a stray answer has come to may be given back with requests still on it, of more than one call; those of earlier calls of the
thread do not count (a request's call is never later than its thread's).
A wait that times out changes nothing of this: the connection goes, and its requests become `late`.

**One registry.** Its bounds are sums of delays, so the invariant follows what is left of them. A thread has one request on its way at most, and it is the
one for the name it is at (`Conversations`). `Until(s, j)` is then how long it takes at most until the next heartbeat for name `j` is handled: the rest of the pause, of
the delay of the request on its way, and of the names between (`Ahead`). For a steady instance, silence and `Until` together never exceed a round
(`Rounds`); `SteadyListed` follows by the assumption, and `KnownAgain` likewise with the time both have run. For a
server that is gone the invariant runs backwards (`Farewells`): it has been silent for no longer than its oldest request is old, its registration thread has spent on
earlier names, or its entry has been silent, or can still be in the table before the next check (`Grace`).

**Replicas.** `ReplicasAgree` compares two tables that were filled at different times. Both are the replay of one log (`Replays`): the
ports of a service are those of the first entries about each instance, in the order of the log, as an enumeration that is ascending and complete. There is only one such
enumeration (`Enumerations`, an induction), hence one answer. `Vouches` says that an instance is no longer silent than the time since any applied entry about it was committed:
both are counted by the same ticks, and an entry is applied in the tick in which the replica hears of it, never before it was committed. `Fades` is `DeadForgotten` in the making: an instance is
listed no longer than it may be silent, unless the replica was not steady then, or an entry committed not much earlier explains it. It needs
`Abreast`: a replica that hears from a leader has applied what was committed before the last tick, so an entry that it still applies is a new one.

**Messages.** Fields are known by number and wire type only, so a type that begins with the kinds of another parses as it (`Shadows`); the rest are instances.

**Sequences.** What `Drop` and enumerations do for every sequence is an induction over its length. It is done over sets of numbers (`NatInductive`: a set that has 0 and
with each number the next has all; the least one outside would be a counterexample), because an induction over predicates is out of the provers' reach.

TLC has checked each `IInv` before it was proved; those of `RaftNode`, `ThreadPool`, `EpollServer`, `Framing` and `Registry` are in a run, that of `ConnectionPool` is
there by its parts. Those of `RpcClient` and `ReplicatedRegistry` can be added to their configurations and take little longer.

Only model-checked: `SnapshotRestores`, a fold over the tokens of a snapshot; `AcknowledgedSurvive` and `WaitReturns`, which are false, as is
`OneLeaderPerTerm` with restarts; and what TLAPS cannot do here:
liveness under fairness (`LoopEnds`, `TasksRun`, `StopReturns`, `AcquireEnds`, `CatchesUp`, `StopEnds`, `ReceiveEnds`, `ServerHears`, `CallsEnd`) and `ENABLED`.

## Not modelled

* `RaftNode::stop`; `handleAppendEntries` (theorem `HeartbeatsAskForVotes`: no request reaches it) and, with it, the advance of
  `commit_index_`, which the double lock in `updateCommitIndex` prevents in any case. What the applier would do is `ApplyLogEntry` of
  `ReplicatedRegistry`.
* `TcpServer::stop` under a blocked `accept()`; a second `start` of a server.
* Several hosts of a ConnectionPool (they share only `running_`); statistics everywhere.
* `RegistryServer::stop` and `DistributedRegistryServer::stop`: the programs call them on the way to their end, which is the models' crash.
* `RpcClient::stop` and `warmupConnections`: calls of `ConnectionPool`, whose module has them for the pool alone.
* `LoadBalancer`: it has no caller.
* Of the generated protobuf code, everything but which fields are written and how they are known: arenas, reflection, merging, copying.
* Examples, tests, scripts and configuration files: programs without state of their own.

Hazards that are in a model but not in a property: connections that are dead and pass `isConnectionValid`, `over_min` above the minimum (a
matter of efficiency, no promise is broken), the loop's use of the pool after `stop`. Not in a model: a length prefix of up to 2^32-1 makes
the server keep bytes without bound (`epoll_server.cpp:414`).

## What is left

1. `RaftNode` with `handleAppendEntries` and a commit that does not lock twice, that is a repaired program: it could then be shown to
   implement `ReplicatedLog`, with `OneLeaderPerTerm` for the first part.
2. `EpollServer` composed with `Framing` and with an instance of `TaskPool` for its queue.
3. `SnapshotRestores` as a theorem, with the fold over tokens turned into an induction over their number, as `CutSteps` does it for bytes.
