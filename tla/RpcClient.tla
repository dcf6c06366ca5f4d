------------------------------ MODULE RpcClient ------------------------------
(* RpcClient: threads that look a service up, in the cache or at the         *)
(* registry, and call one of its servers. A ConnectionPool is what           *)
(* ConnectionPool.tla promises: connections lent to one thread at a time, up *)
(* to a maximum for each host. Time passes in ticks of service_cache_ttl.    *)
EXTENDS Wire, FiniteSets, SequencesExt

CONSTANTS
  Thread, Endpoint,
  Registry,        \* the host of the registry
  None,            \* no connection, no result
  Sum,             \* what the method called by each thread computes
  MaxConnections,  \* max_connections_per_host
  Retries,         \* retry_count
  Ttl,             \* service_cache_ttl, in ticks
  MaxCalls,        \* bound: calls of each thread
  MaxChanges,      \* bound: changes of what the registry lists
  MaxFaults        \* bound: refused or closed connections, handlers that throw, stray answers

ASSUME ClientAssumption ==
  /\ IsFiniteSet(Thread) /\ Registry \notin Endpoint /\ Sum \in [Thread -> Int]
  /\ {MaxConnections, Retries, Ttl, MaxChanges, MaxFaults} \subseteq Nat /\ Retries > 0
  /\ MaxCalls \in [Thread -> Nat]

VARIABLES
  cache,     \* service_cache_ of the service: its endpoints, and their age
  total,     \* of each host: connections the pool counts
  idle,      \* of each host: those that are not lent, in the order they are lent again
  thread,    \* of each thread: where it is in call(), and what it holds there
  listed,    \* the endpoints the registry lists
  executed,  \* how often a server has executed the present call of a thread
  late,      \* requests of it on connections that have gone: servers may still execute them
  alive,     \* the client's process has not been killed by SIGPIPE
  faults, changes,
  \* history:
  unlisted,  \* ticks since the registry listed an endpoint
  lost       \* connections held by discoveries that failed

vars == <<cache, total, idle, thread, listed, executed, late, alive, faults, changes, unlisted, lost>>
world == <<listed, alive, changes, unlisted>>

Host == Endpoint \union {Registry}

\* the calls of all threads, and what a host answers
Request == Thread \X Nat
Answer(h) == IF h = Registry
             THEN [bytes : Nat, endpoints : SUBSET Endpoint]
             ELSE [bytes : {1}, of : Request \union {None}, data : {"", "sum"}]

\* [connected: connected_, open: the peer has not closed it, requests: not
\* answered yet, answers: not read yet, strayed: history]
PoolConnection(h) == [connected : BOOLEAN, open : BOOLEAN, requests : Seq(Request),
                      answers : Seq(Answer(h)), strayed : BOOLEAN]
Result == [of : Request \union {None}, strayed : BOOLEAN]

ASSUME NoneAssumption ==
  \A h \in Host : None \notin PoolConnection(h) \union Answer(h) \union Result

NewConnection ==
  [connected |-> TRUE, open |-> TRUE, requests |-> << >>, answers |-> << >>, strayed |-> FALSE]

Idle(n) == [at |-> "idle", call |-> n, endpoints |-> {}, host |-> Registry, attempt |-> 0,
            conn |-> None, result |-> None]

Init ==
  /\ cache = [endpoints |-> {}, age |-> 0]
  /\ total = [h \in Host |-> 0] /\ idle = [h \in Host |-> << >>]
  /\ thread = [t \in Thread |-> Idle(0)]
  /\ listed = {} /\ executed = [t \in Thread |-> 0] /\ late = [t \in Thread |-> 0]
  /\ alive = TRUE /\ faults = 0 /\ changes = 0
  /\ unlisted = [e \in Endpoint |-> Ttl + 1] /\ lost = 0

At(t, place) == alive /\ thread[t].at = place
Holds(t, h) == thread[t].conn # None /\ thread[t].host = h
CallId(t) == <<t, thread[t].call>>
Fault == faults < MaxFaults /\ faults' = faults + 1
Becomes(t, r) == thread' = [thread EXCEPT ![t] = r]

\* call() returns
Done(t, result) == [Idle(thread[t].call) EXCEPT !.at = "done", !.endpoints = thread[t].endpoints,
                                                !.attempt = thread[t].attempt, !.result = result]

-----------------------------------------------------------------------------
\* call(), discoverService()

Call(t) ==
  /\ At(t, "idle") \/ At(t, "done")
  /\ thread[t].call < MaxCalls[t]
  /\ Becomes(t, [Idle(thread[t].call + 1) EXCEPT !.at = "look up"])
  /\ executed' = [executed EXCEPT ![t] = 0] /\ late' = [late EXCEPT ![t] = 0]
  /\ UNCHANGED <<cache, total, idle, faults, lost, world>>

CacheHit == cache.endpoints # {} /\ cache.age <= Ttl

Hit_slides(t) == cache' = [cache EXCEPT !.age = 0]  \* mutant: a hit makes the entry young
Hit(t) == UNCHANGED cache

DiscoverService(t) ==
  /\ At(t, "look up")
  /\ IF CacheHit
     THEN /\ Becomes(t, [thread[t] EXCEPT !.at = "select", !.endpoints = cache.endpoints])
          /\ Hit(t)
     ELSE Becomes(t, [thread[t] EXCEPT !.at = "discover"]) /\ UNCHANGED cache
  /\ UNCHANGED <<total, idle, executed, late, faults, lost, world>>

\* an answer without endpoints is empty, and has failed before
UpdateCache(t) ==
  /\ At(t, "update")
  /\ cache' = [endpoints |-> thread[t].endpoints, age |-> 0]
  /\ Becomes(t, [thread[t] EXCEPT !.at = "select"])
  /\ UNCHANGED <<total, idle, executed, late, faults, lost, world>>

\* round robin, whose counters start anywhere
SelectEndpoint(t) ==
  /\ At(t, "select")
  /\ \E e \in thread[t].endpoints :
       Becomes(t, [thread[t] EXCEPT !.at = "call", !.host = e, !.attempt = 1])
  /\ UNCHANGED <<cache, total, idle, executed, late, faults, lost, world>>

-----------------------------------------------------------------------------
\* discoverServiceFromRegistry(), callWithRetry(), callEndpoint()

Acquiring(t) == At(t, "discover") \/ At(t, "call")

AcquireIdle(t) ==
  /\ Acquiring(t)
  /\ LET h == thread[t].host
     IN  /\ idle[h] # << >>
         /\ Becomes(t, [thread[t] EXCEPT !.at = "send", !.conn = Head(idle[h])])
         /\ idle' = [idle EXCEPT ![h] = Tail(@)]
  /\ UNCHANGED <<cache, total, executed, late, faults, lost, world>>

AcquireNew(t) ==
  /\ Acquiring(t)
  /\ LET h == thread[t].host
     IN  /\ idle[h] = << >> /\ total[h] < MaxConnections
         /\ Becomes(t, [thread[t] EXCEPT !.at = "send", !.conn = NewConnection])
         /\ total' = [total EXCEPT ![h] = @ + 1]
  /\ UNCHANGED <<cache, idle, executed, late, faults, lost, world>>

NextAttempt_same(t) == [thread[t] EXCEPT !.at = "call", !.conn = None]  \* mutant: ++attempt is skipped
NextAttempt(t) ==
  IF thread[t].attempt = Retries THEN Done(t, None)
  ELSE [thread[t] EXCEPT !.at = "call", !.conn = None, !.attempt = @ + 1]

\* what follows an exception of acquire(), or one of the code that uses the connection
Failed(t) == IF thread[t].host = Registry THEN Done(t, None) ELSE NextAttempt(t)

\* no connection within acquire_timeout
AcquireFails(t) ==
  /\ Acquiring(t) /\ idle[thread[t].host] = << >>
  /\ IF total[thread[t].host] = MaxConnections THEN UNCHANGED faults
     ELSE Fault  \* connect() fails
  /\ Becomes(t, Failed(t))
  /\ UNCHANGED <<cache, total, idle, executed, late, lost, world>>

\* the requests of a connection that goes are left to its server
Requests(c, t) == Cardinality({i \in DOMAIN c.requests : c.requests[i] = CallId(t)})
Left(h, c) == late' = IF h = Registry THEN late ELSE [t \in Thread |-> late[t] + Requests(c, t)]

\* the pool keeps what is released connected, and forgets the rest
Release_valid(h, c) ==  \* mutant: a broken connection stays in all_connections
  /\ idle' = IF c.connected THEN [idle EXCEPT ![h] = Append(@, c)] ELSE idle
  /\ UNCHANGED total
  /\ IF c.connected THEN UNCHANGED late ELSE Left(h, c)
Release(h, c) ==
  IF c.connected THEN idle' = [idle EXCEPT ![h] = Append(@, c)] /\ UNCHANGED <<total, late>>
  ELSE total' = [total EXCEPT ![h] = @ - 1] /\ UNCHANGED idle /\ Left(h, c)

Disconnected(c) == [c EXCEPT !.connected = FALSE]

Asked(c, id) == IF c.open THEN [c EXCEPT !.requests = Append(@, id)] ELSE c

\* send() on a connection its peer has closed reports no error
Send(t) ==
  /\ At(t, "send")
  /\ Becomes(t, [thread[t] EXCEPT !.at = "receive", !.conn = Asked(@, CallId(t))])
  /\ UNCHANGED <<cache, total, idle, executed, late, faults, lost, world>>

\* it fails on a connection that has been reset, and when connection_timeout
\* passes before the socket takes the request; a discovery does not release the
\* connection then
SendFails(t) ==
  /\ At(t, "send")
  /\ Becomes(t, Failed(t))
  /\ IF thread[t].host = Registry THEN lost' = lost + 1 /\ UNCHANGED <<total, idle, late>>
     ELSE Release(thread[t].host, Disconnected(thread[t].conn)) /\ UNCHANGED lost
  /\ UNCHANGED <<cache, executed, faults, world>>

\* unless the peer's reset comes between its two halves
BrokenPipe(t) ==
  /\ At(t, "send") /\ ~thread[t].conn.open
  /\ alive' = FALSE
  /\ UNCHANGED <<cache, total, idle, thread, executed, late, faults, lost, listed, changes, unlisted>>

\* TcpConnection::receive: an answer, or "" when the connection has ended, and
\* when connection_timeout (not 0, SO_RCVTIMEO) passes without one; an empty
\* answer reads as an end
Nothing(c) == [data |-> None, conn |-> Disconnected(c)]
Received(c) == [data |-> Head(c.answers), conn |-> [c EXCEPT !.answers = Tail(@)]]
Outcomes_patient(c) ==  \* mutant: the socket has no SO_RCVTIMEO
  IF c.answers # << >> THEN {IF Head(c.answers).bytes = 0 THEN Nothing(c) ELSE Received(c)}
  ELSE IF c.open THEN {} ELSE {Nothing(c)}
Outcomes_kept(c) ==  \* mutant: the connection stays connected when the wait for an answer is over
  IF c.answers = << >> THEN {[data |-> None, conn |-> c]} ELSE {Received(c)}
Outcomes(c) == {IF c.answers = << >> \/ Head(c.answers).bytes = 0 THEN Nothing(c) ELSE Received(c)}

\* the connection is released only when all has gone well
ReceiveEndpoints(t) ==
  /\ At(t, "receive") /\ thread[t].host = Registry
  /\ \E o \in Outcomes(thread[t].conn) :
       IF o.data = None
       THEN Becomes(t, Failed(t)) /\ lost' = lost + 1 /\ UNCHANGED <<idle, total, late>>
       ELSE /\ Becomes(t, [thread[t] EXCEPT !.at = "update", !.endpoints = o.data.endpoints, !.conn = None])
            /\ Release(Registry, o.conn)
            /\ UNCHANGED lost
  /\ UNCHANGED <<cache, executed, faults, world>>

\* an error and an empty result are failures, too; the connection is released
\* in any case
ReceiveResult(t) ==
  /\ At(t, "receive") /\ thread[t].host # Registry
  /\ \E o \in Outcomes(thread[t].conn) :
       /\ Becomes(t, IF o.data # None /\ o.data.data # ""
                     THEN Done(t, [of |-> o.data.of, strayed |-> o.conn.strayed]) ELSE Failed(t))
       /\ Release(thread[t].host, o.conn)
  /\ UNCHANGED <<cache, executed, faults, lost, world>>

-----------------------------------------------------------------------------
\* the registry, and the servers

\* the connections of a host, lent and idle
Connections(h) == {<<"lent", t>> : t \in {u \in Thread : Holds(u, h)}} \union {<<"idle", i>> : i \in DOMAIN idle[h]}
Connection(h, k) == IF k[1] = "lent" THEN thread[k[2]].conn ELSE idle[h][k[2]]
Put(h, k, c) ==
  IF k[1] = "lent" THEN thread' = [thread EXCEPT ![k[2]].conn = c] /\ UNCHANGED idle
                   ELSE idle' = [idle EXCEPT ![h][k[2]] = c] /\ UNCHANGED thread

Waiting(h, k) == Connection(h, k).requests # << >>
Answered(c, a) == [c EXCEPT !.requests = Tail(@), !.answers = Append(@, a)]

\* the registry's end is closed as soon as it has answered
RegistryAnswers ==
  /\ \E k \in Connections(Registry) :
       /\ Waiting(Registry, k)
       /\ LET bytes == Serialize(ServiceDiscoveryResponse, <<SetToSeq(listed)>>)
              answer == [bytes |-> Cardinality(DOMAIN bytes), endpoints |-> listed]
          IN  Put(Registry, k, [Answered(Connection(Registry, k), answer) EXCEPT !.open = FALSE])
  /\ UNCHANGED <<cache, total, executed, late, faults, lost, world>>

Data(t) == IF NoBytes(Serialize(AddResponse, <<Sum[t]>>)) THEN "" ELSE "sum"
Present(id) == thread[id[1]].call = id[2]
Executed(id) == IF Present(id) THEN [executed EXCEPT ![id[1]] = @ + 1] ELSE executed

\* a handler that throws is answered by an error
ServerAnswers(h) ==
  /\ h # Registry
  /\ \E k \in Connections(h) :
       /\ Waiting(h, k)
       /\ LET id == Head(Connection(h, k).requests)
              answer(data) == [bytes |-> 1, of |-> id, data |-> data]
          IN  /\ executed' = Executed(id)
              /\ \/ Put(h, k, Answered(Connection(h, k), answer(Data(id[1])))) /\ UNCHANGED faults
                 \/ Put(h, k, Answered(Connection(h, k), answer(""))) /\ Fault
  /\ UNCHANGED <<cache, total, late, lost, world>>

\* a request that has arrived is executed also if its connection ends, or its
\* client waits no longer
LateExecution(t) ==
  /\ late[t] > 0
  /\ late' = [late EXCEPT ![t] = @ - 1]
  /\ executed' = [executed EXCEPT ![t] = @ + 1]
  /\ UNCHANGED <<cache, total, idle, thread, faults, lost, world>>

PeerCloses(h) ==
  /\ Fault
  /\ \E k \in Connections(h) :
       /\ Connection(h, k).open
       /\ Put(h, k, [Connection(h, k) EXCEPT !.open = FALSE, !.requests = << >>])
       /\ Left(h, Connection(h, k))
  /\ UNCHANGED <<cache, total, executed, lost, world>>

\* EpollServer::sendResponse to a descriptor that was another client's
AnswerAstray(h) ==
  /\ h # Registry /\ Fault
  /\ \E k \in Connections(h) :
       /\ Connection(h, k).open
       /\ Put(h, k, [Connection(h, k) EXCEPT !.strayed = TRUE,
                        !.answers = Append(@, [bytes |-> 1, of |-> None, data |-> "sum"])])
  /\ UNCHANGED <<cache, total, executed, late, lost, world>>

Change ==
  /\ changes < MaxChanges /\ changes' = changes + 1
  /\ \E new \in SUBSET Endpoint \ {listed} :
       /\ listed' = new
       /\ unlisted' = [e \in Endpoint |-> IF e \in new \union listed THEN 0 ELSE unlisted[e]]
  /\ UNCHANGED <<cache, total, idle, thread, executed, late, alive, faults, lost>>

-----------------------------------------------------------------------------
Older(age) == IF age > Ttl THEN age ELSE age + 1

\* what is computed without waiting takes no time
Prompt(t) ==
  /\ thread[t].at \notin {"look up", "update", "select"}
  /\ thread[t].at = "receive" => thread[t].conn.answers = << >>

Tick ==
  /\ \A t \in Thread : Prompt(t)
  /\ cache' = [cache EXCEPT !.age = Older(@)]
  /\ unlisted' = [e \in Endpoint |-> IF e \in listed THEN 0 ELSE Older(unlisted[e])]
  /\ UNCHANGED <<total, idle, thread, listed, executed, late, alive, faults, changes, lost>>

Steps(t) ==
  \/ DiscoverService(t) \/ UpdateCache(t) \/ SelectEndpoint(t)
  \/ AcquireIdle(t) \/ AcquireNew(t) \/ AcquireFails(t) \/ Send(t) \/ SendFails(t)
  \/ ReceiveEndpoints(t) \/ ReceiveResult(t)
Served == RegistryAnswers \/ \E h \in Host : ServerAnswers(h)

Next ==
  \/ \E t \in Thread : Call(t) \/ Steps(t) \/ BrokenPipe(t) \/ LateExecution(t)
  \/ \E h \in Host : PeerCloses(h) \/ AnswerAstray(h)
  \/ Served \/ Change \/ Tick

Spec == Init /\ [][Next]_vars

\* a thread that can go on does, whatever the servers do
FairSpec == Spec /\ \A t \in Thread : WF_vars(Steps(t))

-----------------------------------------------------------------------------
Places == {"idle", "look up", "discover", "send", "receive", "update", "select", "call", "done"}

ThreadRecord(t, h) ==
  [at : Places, call : 0..MaxCalls[t], endpoints : SUBSET Endpoint, host : {h}, attempt : 0..Retries,
   conn : PoolConnection(h) \union {None}, result : Result \union {None}]

\* what a thread holds, and for which host, is what its place asks for
Placed(r) ==
  /\ r.at \in {"send", "receive"} <=> r.conn # None
  /\ r.at \in {"look up", "discover"} => r.host = Registry
  /\ r.at = "call" => r.host # Registry
  /\ r.result # None => r.at = "done"

TypeOK ==
  /\ cache \in [endpoints : SUBSET Endpoint, age : 0..(Ttl + 1)]
  /\ total \in [Host -> 0..MaxConnections]
  /\ idle = [h \in Host |-> idle[h]] /\ \A h \in Host : idle[h] \in Seq(PoolConnection(h))
  /\ thread = [t \in Thread |-> thread[t]]
  /\ \A t \in Thread : /\ thread[t].host \in Host /\ thread[t] \in ThreadRecord(t, thread[t].host)
                       /\ Placed(thread[t])
  /\ listed \subseteq Endpoint /\ executed \in [Thread -> Nat] /\ late \in [Thread -> Nat]
  /\ alive \in BOOLEAN /\ faults \in 0..MaxFaults /\ changes \in 0..MaxChanges /\ lost \in Nat
  /\ unlisted \in [Endpoint -> 0..(Ttl + 1)]

\* Every connection the pool counts is idle, or held by a thread, except those
\* that a discovery held when it failed: nobody releases these. Calls lose none.
OnlyDiscoveryLeaks ==
  /\ TypeOK
  /\ \A h \in Host : total[h] = Len(idle[h]) + Cardinality({t \in Thread : Holds(t, h)})
                                + IF h = Registry THEN lost ELSE 0

\* A server executes a call once for each attempt at most, executions still to
\* come included: after an answer that was lost, an empty result, or a wait that
\* was over before the handler was, as after a connection that broke.
ExecutedForAttempts ==
  \A t \in Thread :
    LET waiting(h) == {<<h, k>> : k \in {l \in Connections(h) : Requests(Connection(h, l), t) > 0}}
    IN  executed[t] + late[t] + Cardinality(UNION {waiting(h) : h \in Endpoint}) <= thread[t].attempt

\* A connection that no stray answer has come to is lent and given back without
\* requests and answers, and in between it holds the thread's own, one at most.
Settled(h, c) == (c.requests = << >> /\ c.answers = << >>) \/ (h # Registry /\ c.strayed)

Own(t, a) == IF thread[t].host = Registry THEN \A e \in a.endpoints : unlisted[e] = 0
                                          ELSE a.of = CallId(t) /\ executed[t] > 0
Awaited(t, c) ==
  \/ c.requests = <<CallId(t)>> /\ c.answers = << >>
  \/ c.requests = << >> /\ Len(c.answers) = 1 /\ Own(t, Head(c.answers))

Exchanges ==
  /\ \A h \in Host : \A i \in DOMAIN idle[h] : Settled(h, idle[h][i])
  /\ \A t \in Thread :
       /\ thread[t].at \in {"send", "receive"} =>
            \/ Settled(thread[t].host, thread[t].conn)
            \/ thread[t].at = "receive" /\ Awaited(t, thread[t].conn)

\* A call that succeeds has been executed, and returns its own result, unless a
\* stray answer had come to its connection: request ids are not compared, only
\* the way connections are used keeps the exchanges of different calls apart. A
\* connection whose answer may still come, because send() or receive() gave up
\* after connection_timeout, is not lent again.
OwnAnswer ==
  /\ Exchanges
  /\ \A t \in Thread : thread[t].result # None /\ ~thread[t].result.strayed =>
       thread[t].result.of = CallId(t) /\ executed[t] > 0

\* An endpoint is chosen only if the registry has listed it within
\* service_cache_ttl, whichever thread wrote the cache last: what is on its way
\* into the cache is listed, and what is in it was as long ago as it is old.
FreshEndpoints ==
  /\ \A e \in listed : unlisted[e] = 0
  /\ cache.age <= Ttl => \A e \in cache.endpoints : unlisted[e] <= cache.age
  /\ \A t \in Thread : /\ thread[t].at = "update" => \A e \in thread[t].endpoints : unlisted[e] = 0
                       /\ thread[t].at = "select" => \A e \in thread[t].endpoints : unlisted[e] <= Ttl

\* the requests on connections to servers, by their places, and whose each is
Slots == UNION {UNION {{<<h, k, i>> : i \in DOMAIN Connection(h, k).requests} :
                       k \in Connections(h)} : h \in Endpoint}
Asks(s) == Connection(s[1], s[2]).requests[s[3]]
Unanswered(t) == {s \in Slots : Asks(s) = CallId(t)}

\* an attempt has been counted, and its request is still to be sent
Unsent(t) == thread[t].at = "call" \/ (thread[t].at = "send" /\ thread[t].host # Registry)
Discovers(t) == \/ thread[t].at \in {"look up", "discover"}
                \/ thread[t].at \in {"send", "receive"} /\ thread[t].host = Registry

\* Every execution, past or to come, has an attempt of its own.
Attempted(t) ==
  /\ Discovers(t) => thread[t].attempt = 0 /\ thread[t].endpoints = {}
  /\ thread[t].at \in {"update", "select"} => thread[t].attempt = 0
  /\ IsFiniteSet(Unanswered(t))
  /\ executed[t] + late[t] + Cardinality(Unanswered(t)) + (IF Unsent(t) THEN 1 ELSE 0) <= thread[t].attempt

Attempts ==
  /\ \A s \in Slots : Asks(s)[2] <= thread[Asks(s)[1]].call
  /\ \A t \in Thread : Attempted(t)

\* They are inductive together (module RpcClientProofs).
IInv == OnlyDiscoveryLeaks /\ OwnAnswer /\ FreshEndpoints /\ Attempts

\* Every call returns, whether servers answer or not, unless SIGPIPE kills the process.
CallsEnd == \A t \in Thread : (thread[t].at \notin {"idle", "done"}) ~> (thread[t].at = "done" \/ ~alive)

=============================================================================
