--------------------------- MODULE RpcClientProofs ---------------------------
(* Theorems about RpcClient: what a call may return, whom it may ask, and   *)
(* which connections the pool loses, for any number of threads and servers. *)
EXTENDS RpcClient, FiniteSetTheorems, TLAPS

-----------------------------------------------------------------------------
(* Types.                                                                   *)

ThreadsTyped ==
  /\ thread = [t \in Thread |-> thread[t]]
  /\ \A t \in Thread : /\ thread[t].host \in Host /\ thread[t] \in ThreadRecord(t, thread[t].host)
                       /\ Placed(thread[t])
IdleTyped == idle = [h \in Host |-> idle[h]] /\ \A h \in Host : idle[h] \in Seq(PoolConnection(h))

\* The assumption on the constants, by its parts.
LEMMA Numbers ==
  /\ Registry \in Host /\ Registry \notin Endpoint /\ Endpoint \subseteq Host /\ IsFiniteSet(Thread)
  /\ MaxConnections \in Nat /\ Retries \in Nat /\ Retries > 0 /\ Ttl \in Nat
  /\ MaxChanges \in Nat /\ MaxFaults \in Nat
BY ClientAssumption DEF Host

\* The types of a thread's fields.
LEMMA Fields ==
  ASSUME TypeOK, NEW t \in Thread
  PROVE  /\ thread[t].at \in Places /\ thread[t].call \in 0..MaxCalls[t]
         /\ thread[t].endpoints \subseteq Endpoint /\ thread[t].host \in Host
         /\ thread[t].attempt \in 0..Retries
         /\ thread[t].conn \in PoolConnection(thread[t].host) \union {None}
         /\ thread[t].result \in Result \union {None}
BY DEF TypeOK, ThreadRecord

\* The number of a call.
LEMMA CallNumbers ==
  ASSUME TypeOK, NEW t \in Thread
  PROVE  MaxCalls[t] \in Nat /\ thread[t].call \in Nat /\ CallId(t) \in Request
<1>1. MaxCalls[t] \in Nat /\ thread[t].call \in 0..MaxCalls[t]
  BY Fields, ClientAssumption
<1>2. QED
  BY <1>1 DEF CallId, Request

\* What the place of a thread says of the connection and the result it has.
LEMMA Place ==
  ASSUME TypeOK, NEW t \in Thread
  PROVE  /\ thread[t].host \in Host /\ thread[t] \in ThreadRecord(t, thread[t].host)
         /\ thread[t].at \in {"send", "receive"} <=> thread[t].conn # None
         /\ thread[t].at \in {"look up", "discover"} => thread[t].host = Registry
         /\ thread[t].at = "call" => thread[t].host # Registry
         /\ thread[t].result # None => thread[t].at = "done"
BY DEF TypeOK, Placed

\* a thread that does not use a connection, or has no result yet
LEMMA IdleRecord ==
  ASSUME NEW t \in Thread, NEW n \in 0..MaxCalls[t]
  PROVE  /\ Idle(n) \in ThreadRecord(t, Registry) /\ Idle(n).conn = None /\ Idle(n).result = None
         /\ Idle(n).host = Registry /\ Idle(n).call = n
<1>1. 0 \in 0..Retries
  BY Numbers
<1>2. QED
  BY <1>1 DEF Idle, ThreadRecord, Places

\* What call() leaves when it returns.
LEMMA DoneRecord ==
  ASSUME TypeOK, NEW t \in Thread, NEW result \in Result \union {None}
  PROVE  /\ Done(t, result) \in ThreadRecord(t, Registry) /\ Placed(Done(t, result))
         /\ Done(t, result).at = "done" /\ Done(t, result).conn = None /\ Done(t, result).result = result
         /\ Done(t, result).call = thread[t].call /\ Done(t, result).host = Registry
<1> DEFINE i == Idle(thread[t].call)
<1>1. i \in ThreadRecord(t, Registry) /\ i.conn = None /\ i.call = thread[t].call /\ i.host = Registry
  BY Fields, IdleRecord
<1>2. thread[t].endpoints \subseteq Endpoint /\ thread[t].attempt \in 0..Retries
  BY Fields
<1>3. Done(t, result) = [i EXCEPT !.at = "done", !.endpoints = thread[t].endpoints,
                                  !.attempt = thread[t].attempt, !.result = result]
  BY DEF Done
<1> HIDE DEF i
<1>4. QED
  BY <1>1, <1>2, <1>3 DEF ThreadRecord, Placed, Places

\* thread t becomes what its place asks for, and the others stay
LEMMA BecomesTyped ==
  ASSUME TypeOK, NEW t \in Thread, NEW h \in Host, NEW r \in ThreadRecord(t, h), Placed(r), Becomes(t, r)
  PROVE  /\ ThreadsTyped' /\ thread'[t] = r
         /\ \A u \in Thread : u # t => thread'[u] = thread[u]
<1>1. r.host = h
  BY DEF ThreadRecord
<1>2. /\ thread' = [u \in Thread |-> thread'[u]] /\ thread'[t] = r
      /\ \A u \in Thread : u # t => thread'[u] = thread[u]
  BY DEF TypeOK, Becomes
<1>3. ASSUME NEW u \in Thread
      PROVE  /\ thread'[u].host \in Host /\ thread'[u] \in ThreadRecord(u, thread'[u].host)
             /\ Placed(thread'[u])
  BY <1>1, <1>2 DEF TypeOK
<1>4. QED
  BY <1>2, <1>3 DEF ThreadsTyped, Placed, ThreadRecord

\* A connection of a host is one that a thread holds, or an idle one.
LEMMA ConnectionTyped ==
  ASSUME TypeOK, NEW h \in Host, NEW k \in Connections(h)
  PROVE  /\ Connection(h, k) \in PoolConnection(h)
         /\ \/ \E t \in Thread : Holds(t, h) /\ k = <<"lent", t>> /\ Connection(h, k) = thread[t].conn
            \/ \E i \in DOMAIN idle[h] : k = <<"idle", i>> /\ Connection(h, k) = idle[h][i]
<1>1. CASE \E t \in Thread : Holds(t, h) /\ k = <<"lent", t>>
  BY <1>1, Fields DEF Connection, Holds
<1>2. CASE \E i \in DOMAIN idle[h] : k = <<"idle", i>>
  BY <1>2 DEF Connection, TypeOK
<1>3. QED
  BY <1>1, <1>2 DEF Connections

\* one of the connections to h changes, and nothing else
LEMMA PutTyped ==
  ASSUME TypeOK, NEW h \in Host, NEW k \in Connections(h), NEW c \in PoolConnection(h), Put(h, k, c)
  PROVE  /\ ThreadsTyped' /\ IdleTyped'
         /\ \A t \in Thread : /\ thread'[t] = thread[t]
                                 \/ (Holds(t, h) /\ k = <<"lent", t>> /\ thread'[t] = [thread[t] EXCEPT !.conn = c])
                              /\ \A g \in Host : Holds(t, g)' <=> Holds(t, g)
         /\ \A g \in Host : /\ Len(idle'[g]) = Len(idle[g])
                            /\ \A i \in DOMAIN idle[g] :
                                 idle'[g][i] = idle[g][i] \/ (g = h /\ k = <<"idle", i>> /\ idle'[g][i] = c)
<1>0. c # None
  BY NoneAssumption
<1>1. CASE \E t \in Thread : Holds(t, h) /\ k = <<"lent", t>>
  <2>1. PICK t \in Thread : Holds(t, h) /\ k = <<"lent", t>>
    BY <1>1
  <2>2. thread' = [thread EXCEPT ![t].conn = c] /\ idle' = idle
    BY <2>1 DEF Put
  <2> DEFINE r == [thread[t] EXCEPT !.conn = c]
  <2>3. r \in ThreadRecord(t, h) /\ Placed(r)
    BY <2>1, <1>0 DEF TypeOK, ThreadRecord, Placed, Holds
  <2>4. Becomes(t, r)
    BY <2>2 DEF Becomes
  <2>5. /\ ThreadsTyped' /\ thread'[t] = r
        /\ \A u \in Thread : u # t => thread'[u] = thread[u]
    BY <2>3, <2>4, BecomesTyped
  <2>6. r.conn = c /\ r.host = thread[t].host
    BY <2>1 DEF TypeOK, ThreadRecord
  <2>7. \A u \in Thread : \A g \in Host : Holds(u, g)' <=> Holds(u, g)
    BY <2>1, <2>5, <2>6, <1>0 DEF Holds
  <2>8. IdleTyped'
    BY <2>2 DEF TypeOK, IdleTyped
  <2>9. QED
    BY <2>1, <2>2, <2>5, <2>7, <2>8
<1>2. CASE \E i \in DOMAIN idle[h] : k = <<"idle", i>>
  <2>1. PICK i \in DOMAIN idle[h] : k = <<"idle", i>>
    BY <1>2
  <2>2. idle' = [idle EXCEPT ![h][i] = c] /\ thread' = thread
    BY <2>1 DEF Put
  <2>3. /\ idle' = [g \in Host |-> idle'[g]] /\ idle'[h] = [idle[h] EXCEPT ![i] = c]
        /\ \A g \in Host : g # h => idle'[g] = idle[g]
    BY <2>2 DEF TypeOK
  <2>4. idle[h] \in Seq(PoolConnection(h)) /\ idle'[h] \in Seq(PoolConnection(h))
    BY <2>1, <2>3 DEF TypeOK
  <2>5. IdleTyped'
    BY <2>3, <2>4 DEF TypeOK, IdleTyped
  <2>6. ThreadsTyped'
    BY <2>2 DEF TypeOK, ThreadsTyped
  <2>7. ASSUME NEW g \in Host
        PROVE /\ Len(idle'[g]) = Len(idle[g])
              /\ \A j \in DOMAIN idle[g] :
                   idle'[g][j] = idle[g][j] \/ (g = h /\ k = <<"idle", j>> /\ idle'[g][j] = c)
    BY <2>1, <2>3, <2>4
  <2>8. QED
    BY <2>2, <2>5, <2>6, <2>7 DEF Holds
<1>3. QED
  BY <1>1, <1>2 DEF Connections

-----------------------------------------------------------------------------
(* The parts of the inductive invariant.                                    *)

Holders(h) == {t \in Thread : Holds(t, h)}
Counted(h) == total[h] = Len(idle[h]) + Cardinality(Holders(h)) + IF h = Registry THEN lost ELSE 0
IdleSettled(h) == \A i \in DOMAIN idle[h] : Settled(h, idle[h][i])

Exchange(t) == thread[t].at \in {"send", "receive"} =>
  \/ Settled(thread[t].host, thread[t].conn)
  \/ thread[t].at = "receive" /\ Awaited(t, thread[t].conn)
OwnResult(t) == thread[t].result # None /\ ~thread[t].result.strayed =>
  thread[t].result.of = CallId(t) /\ executed[t] > 0
Aged(t) ==
  /\ thread[t].at = "update" => \A e \in thread[t].endpoints : unlisted[e] = 0
  /\ thread[t].at = "select" => \A e \in thread[t].endpoints : unlisted[e] <= Ttl
ThreadInv(t) == Exchange(t) /\ OwnResult(t) /\ Aged(t)

CacheInv ==
  /\ \A e \in listed : unlisted[e] = 0
  /\ cache.age <= Ttl => \A e \in cache.endpoints : unlisted[e] <= cache.age

Parts ==
  /\ TypeOK /\ CacheInv
  /\ \A h \in Host : Counted(h) /\ IdleSettled(h)
  /\ \A t \in Thread : ThreadInv(t)

\* The inductive invariant, by threads and by hosts.
LEMMA PartsOfInv == IInv <=> Parts /\ Attempts
BY DEF IInv, Parts, OnlyDiscoveryLeaks, OwnAnswer, Exchanges, FreshEndpoints, Counted, Holders, IdleSettled,
       Exchange, OwnResult, Aged, ThreadInv, CacheInv

\* the variables but for the threads and the idle connections
RestTyped ==
  /\ cache \in [endpoints : SUBSET Endpoint, age : 0..(Ttl + 1)]
  /\ total \in [Host -> 0..MaxConnections]
  /\ listed \subseteq Endpoint /\ executed \in [Thread -> Nat] /\ late \in [Thread -> Nat]
  /\ alive \in BOOLEAN /\ faults \in 0..MaxFaults /\ changes \in 0..MaxChanges /\ lost \in Nat
  /\ unlisted \in [Endpoint -> 0..(Ttl + 1)]

\* The type invariant, by its variables.
LEMMA PartsOfType == TypeOK <=> ThreadsTyped /\ IdleTyped /\ RestTyped
BY DEF TypeOK, ThreadsTyped, IdleTyped, RestTyped

\* what does not concern a thread
LEMMA ThreadKept ==
  ASSUME NEW t \in Thread, ThreadInv(t), thread'[t] = thread[t], unlisted' = unlisted,
         executed[t] > 0 => executed'[t] > 0
  PROVE  ThreadInv(t)'
BY DEF ThreadInv, Exchange, OwnResult, Aged, Settled, Awaited, Own, CallId

\* what does not concern a host
LEMMA HostKept ==
  ASSUME NEW h \in Host, Counted(h), IdleSettled(h), idle'[h] = idle[h], total'[h] = total[h], lost' = lost,
         \A t \in Thread : Holds(t, h)' <=> Holds(t, h)
  PROVE  Counted(h)' /\ IdleSettled(h)'
<1>1. Holders(h)' = Holders(h)
  BY DEF Holders
<1>2. QED
  BY <1>1 DEF Counted, IdleSettled, Settled

-----------------------------------------------------------------------------
(* The steps of a thread that neither holds a connection nor gets one.      *)

\* A thread without a connection goes on to a place where it needs none.
LEMMA FreeMove ==
  ASSUME Parts, NEW t \in Thread, NEW h \in Host, NEW r \in ThreadRecord(t, h), Placed(r), Becomes(t, r),
         thread[t].conn = None, r.conn = None, r.result = None,
         UNCHANGED <<total, idle, lost, world>>,
         \A u \in Thread : u # t => executed'[u] = executed[u],
         r.at = "update" => \A e \in r.endpoints : unlisted[e] = 0,
         r.at = "select" => \A e \in r.endpoints : unlisted[e] <= Ttl,
         RestTyped', CacheInv'
  PROVE  Parts'
<1>1. /\ TypeOK /\ ThreadsTyped' /\ thread'[t] = r
      /\ \A u \in Thread : u # t => thread'[u] = thread[u]
  BY BecomesTyped DEF Parts
<1>2. TypeOK'
  <2>1. IdleTyped'
    BY <1>1 DEF TypeOK, IdleTyped
  <2>2. QED
    BY <1>1, <2>1, PartsOfType DEF ThreadsTyped, IdleTyped, RestTyped, TypeOK
<1>3. \A u \in Thread : \A g \in Host : Holds(u, g)' <=> Holds(u, g)
  BY <1>1 DEF Holds
<1>4. ASSUME NEW g \in Host PROVE Counted(g)' /\ IdleSettled(g)'
  BY <1>3, HostKept DEF Parts
<1>5. ASSUME NEW u \in Thread PROVE ThreadInv(u)'
  <2>1. CASE u # t
    BY <1>1, <2>1, ThreadKept DEF Parts, world
  <2>2. CASE u = t
    BY <1>1, <2>2 DEF ThreadInv, Exchange, OwnResult, Aged, Placed, world
  <2>3. QED
    BY <2>1, <2>2
<1>6. QED
  BY <1>2, <1>4, <1>5 DEF Parts

\* call() begins.
LEMMA CallStep ==
  ASSUME Parts, NEW t \in Thread, Call(t)
  PROVE  Parts'
<1> DEFINE r == [Idle(thread[t].call + 1) EXCEPT !.at = "look up"]
<1>1. /\ TypeOK /\ thread[t].at \in {"idle", "done"} /\ thread[t].call < MaxCalls[t] /\ Becomes(t, r)
      /\ executed' = [executed EXCEPT ![t] = 0] /\ late' = [late EXCEPT ![t] = 0]
      /\ UNCHANGED <<cache, total, idle, faults, lost, world>>
  BY DEF Parts, Call, At
<1>2. thread[t].call + 1 \in 0..MaxCalls[t]
  <2>1. MaxCalls[t] \in Nat /\ thread[t].call \in Nat
    BY <1>1, CallNumbers
  <2>2. thread[t].call < MaxCalls[t]
    BY DEF Call
  <2>3. QED
    BY <2>1, <2>2
<1>3. thread[t].conn = None
  BY <1>1, Place
<1> DEFINE i == Idle(thread[t].call + 1)
<1>4. /\ i \in ThreadRecord(t, Registry) /\ i.conn = None /\ i.result = None /\ i.host = Registry
      /\ r = [i EXCEPT !.at = "look up"]
  BY <1>2, IdleRecord
<1> HIDE DEF i, r
<1>5. /\ r \in ThreadRecord(t, Registry) /\ Placed(r) /\ r.at = "look up" /\ r.conn = None
      /\ r.result = None
  BY <1>4 DEF ThreadRecord, Placed, Places
<1>6. \A u \in Thread : u # t => executed'[u] = executed[u]
  BY <1>1 DEF TypeOK
<1>7. RestTyped' /\ CacheInv'
  BY <1>1 DEF Parts, TypeOK, RestTyped, CacheInv, world
<1>8. QED
  BY <1>1, <1>3, <1>5, <1>6, <1>7, Numbers, FreeMove

\* discoverService(): the cache answers, or the registry has to.
LEMMA DiscoverStep ==
  ASSUME Parts, NEW t \in Thread, DiscoverService(t)
  PROVE  Parts'
<1>1. /\ TypeOK /\ thread[t].at = "look up" /\ thread[t].conn = None /\ thread[t].result = None
      /\ UNCHANGED <<cache, total, idle, executed, late, faults, lost, world>>
  BY DEF Parts, DiscoverService, Hit, At, TypeOK, Placed
<1>2. RestTyped' /\ CacheInv'
  BY <1>1 DEF Parts, TypeOK, RestTyped, CacheInv, world
<1>3. thread[t].host \in Host /\ thread[t] \in ThreadRecord(t, thread[t].host)
  BY <1>1 DEF TypeOK
<1>4. CASE CacheHit
  <2> DEFINE r == [thread[t] EXCEPT !.at = "select", !.endpoints = cache.endpoints]
  <2>1. Becomes(t, r)
    BY <1>4 DEF DiscoverService
  <2>2. /\ r \in ThreadRecord(t, thread[t].host) /\ Placed(r)
        /\ r.at = "select" /\ r.endpoints = cache.endpoints /\ r.conn = None /\ r.result = None
    BY <1>1, <1>3 DEF TypeOK, ThreadRecord, Placed, Places
  <2>3. \A e \in cache.endpoints : unlisted[e] <= Ttl
    <3>1. cache.age \in 0..(Ttl + 1) /\ cache.endpoints \subseteq Endpoint /\ cache.age <= Ttl
      BY <1>1, <1>4 DEF CacheHit, TypeOK
    <3>2. ASSUME NEW e \in cache.endpoints PROVE unlisted[e] \in 0..(Ttl + 1) /\ unlisted[e] <= cache.age
      <4>1. e \in Endpoint
        BY <3>1
      <4>2. unlisted \in [Endpoint -> 0..(Ttl + 1)]
        BY <1>1 DEF TypeOK
      <4>3. unlisted[e] <= cache.age
        BY <3>1 DEF Parts, CacheInv
      <4>4. QED
        BY <4>1, <4>2, <4>3
    <3>3. QED
      BY <3>1, <3>2, Numbers
  <2> HIDE DEF r
  <2>4. QED
    BY <1>1, <1>2, <1>3, <2>1, <2>2, <2>3, FreeMove
<1>5. CASE ~CacheHit
  <2> DEFINE r == [thread[t] EXCEPT !.at = "discover"]
  <2>1. Becomes(t, r)
    BY <1>5 DEF DiscoverService
  <2>2. thread[t].host = Registry
    BY <1>1, Place
  <2>3. /\ r \in ThreadRecord(t, thread[t].host) /\ Placed(r)
        /\ r.at = "discover" /\ r.conn = None /\ r.result = None
    BY <1>1, <1>3, <2>2 DEF TypeOK, ThreadRecord, Placed, Places
  <2> HIDE DEF r
  <2>4. QED
    BY <1>1, <1>2, <1>3, <2>1, <2>3, FreeMove
<1>6. QED
  BY <1>4, <1>5

\* The cache takes what the registry has answered.
LEMMA UpdateStep ==
  ASSUME Parts, NEW t \in Thread, UpdateCache(t)
  PROVE  Parts'
<1> DEFINE r == [thread[t] EXCEPT !.at = "select"]
<1>1. /\ TypeOK /\ thread[t].at = "update" /\ thread[t].conn = None /\ thread[t].result = None
      /\ cache' = [endpoints |-> thread[t].endpoints, age |-> 0] /\ Becomes(t, r)
      /\ UNCHANGED <<total, idle, executed, late, faults, lost, world>>
  BY DEF Parts, UpdateCache, At, TypeOK, Placed
<1>2. /\ thread[t].host \in Host /\ thread[t] \in ThreadRecord(t, thread[t].host)
      /\ thread[t].endpoints \subseteq Endpoint
  BY <1>1, Fields DEF TypeOK
<1>3. \A e \in thread[t].endpoints : unlisted[e] = 0 /\ 0 <= Ttl
  BY <1>1, ClientAssumption DEF Parts, ThreadInv, Aged
<1>4. RestTyped' /\ CacheInv'
  <2>1. cache' \in [endpoints : SUBSET Endpoint, age : 0..(Ttl + 1)]
    BY <1>1, <1>2, Numbers
  <2>2. RestTyped'
    BY <1>1, <2>1 DEF TypeOK, RestTyped, world
  <2>3. cache'.age = 0 /\ cache'.endpoints = thread[t].endpoints
    BY <1>1
  <2>4. CacheInv'
    BY <1>1, <1>3, <2>3 DEF Parts, CacheInv, world
  <2>5. QED
    BY <2>2, <2>4
<1>5. /\ r \in ThreadRecord(t, thread[t].host) /\ Placed(r)
      /\ r.at = "select" /\ r.endpoints = thread[t].endpoints /\ r.conn = None /\ r.result = None
  BY <1>1, <1>2 DEF TypeOK, ThreadRecord, Placed, Places
<1> HIDE DEF r
<1>6. QED
  BY <1>1, <1>2, <1>3, <1>4, <1>5, FreeMove

\* selectEndpoint() chooses among endpoints that are fresh enough.
LEMMA SelectStep ==
  ASSUME Parts, NEW t \in Thread, SelectEndpoint(t)
  PROVE  Parts'
<1>1. PICK e \in thread[t].endpoints :
        Becomes(t, [thread[t] EXCEPT !.at = "call", !.host = e, !.attempt = 1])
  BY DEF SelectEndpoint
<1> DEFINE r == [thread[t] EXCEPT !.at = "call", !.host = e, !.attempt = 1]
<1>2. /\ TypeOK /\ thread[t].at = "select" /\ thread[t].conn = None /\ thread[t].result = None
      /\ UNCHANGED <<cache, total, idle, executed, late, faults, lost, world>>
  BY DEF Parts, SelectEndpoint, At, TypeOK, Placed
<1>3. /\ thread[t].host \in Host /\ thread[t] \in ThreadRecord(t, thread[t].host)
      /\ e \in Endpoint /\ e \in Host /\ e # Registry /\ 1 \in 0..Retries
  <2>1. thread[t].host \in Host /\ thread[t] \in ThreadRecord(t, thread[t].host)
    BY <1>2, Place
  <2>2. e \in Endpoint
    BY <1>2, Fields
  <2>3. QED
    BY <2>1, <2>2, Numbers
<1>4. RestTyped' /\ CacheInv'
  BY <1>2 DEF Parts, TypeOK, RestTyped, CacheInv, world
<1>5. /\ r \in ThreadRecord(t, e) /\ Placed(r) /\ r.at = "call" /\ r.conn = None /\ r.result = None
  BY <1>2, <1>3 DEF ThreadRecord, Placed, Places
<1>6. Becomes(t, r)
  BY <1>1
<1> HIDE DEF r
<1>7. QED
  BY <1>2, <1>3, <1>4, <1>5, <1>6, FreeMove

\* what a thread is after an attempt that failed
LEMMA FailedTyped ==
  ASSUME TypeOK, NEW t \in Thread, thread[t].at \in {"discover", "call", "send", "receive"}
  PROVE  \E h \in Host : /\ Failed(t) \in ThreadRecord(t, h) /\ Placed(Failed(t))
                         /\ Failed(t).at \in {"done", "call"}
                         /\ Failed(t).conn = None /\ Failed(t).result = None
<1>1. /\ thread[t].host \in Host /\ thread[t] \in ThreadRecord(t, thread[t].host)
      /\ thread[t].result = None /\ Registry \in Host
  BY Place, Numbers
<1>4. CASE thread[t].host = Registry \/ thread[t].attempt = Retries
  BY <1>1, <1>4, DoneRecord DEF Failed, NextAttempt
<1>5. CASE thread[t].host # Registry /\ thread[t].attempt # Retries
  <2> DEFINE r == [thread[t] EXCEPT !.at = "call", !.conn = None, !.attempt = @ + 1]
  <2>1. thread[t].attempt + 1 \in 0..Retries
    <3>1. thread[t].attempt \in 0..Retries
      BY Fields
    <3>2. QED
      BY <1>5, <3>1, Numbers
  <2>2. r \in ThreadRecord(t, thread[t].host) /\ Placed(r) /\ r.at = "call" /\ r.conn = None /\ r.result = None
    BY <1>1, <1>5, <2>1 DEF ThreadRecord, Placed, Places
  <2>3. Failed(t) = r
    BY <1>5 DEF Failed, NextAttempt
  <2>4. QED
    BY <1>1, <2>2, <2>3
<1>6. QED
  BY <1>4, <1>5

\* acquire() throws: the next attempt, or the end of the call.
LEMMA AcquireFailsStep ==
  ASSUME Parts, NEW t \in Thread, AcquireFails(t)
  PROVE  Parts'
<1>0. TypeOK /\ faults \in 0..MaxFaults
  BY DEF Parts, TypeOK
<1>1. /\ TypeOK /\ thread[t].at \in {"discover", "call"} /\ thread[t].conn = None
      /\ Becomes(t, Failed(t)) /\ faults' \in 0..MaxFaults
      /\ UNCHANGED <<cache, total, idle, executed, late, lost, world>>
  <2>1. thread[t].at \in {"discover", "call"}
    BY DEF AcquireFails, Acquiring, At
  <2>2. thread[t].conn = None
    BY <1>0, <2>1, Place
  <2>3. faults' \in 0..MaxFaults
    BY <1>0, Numbers DEF AcquireFails, Fault
  <2>4. QED
    BY <1>0, <2>1, <2>2, <2>3 DEF AcquireFails
<1>2. RestTyped' /\ CacheInv'
  BY <1>1 DEF Parts, TypeOK, RestTyped, CacheInv, world
<1>3. PICK h \in Host : /\ Failed(t) \in ThreadRecord(t, h) /\ Placed(Failed(t))
                        /\ Failed(t).at \in {"done", "call"}
                        /\ Failed(t).conn = None /\ Failed(t).result = None
  BY <1>1, FailedTyped
<1>4. QED
  BY <1>1, <1>2, <1>3, FreeMove

-----------------------------------------------------------------------------
(* The steps that take a connection from the pool, or give one back.        *)

\* A host's connections are held by finitely many threads.
LEMMA HoldersFinite ==
  ASSUME NEW h
  PROVE  IsFiniteSet(Holders(h)) /\ Cardinality(Holders(h)) \in Nat
<1>1. Holders(h) \subseteq Thread
  BY DEF Holders
<1>2. QED
  BY <1>1, Numbers, FS_Subset, FS_CardinalityType

\* The terms of the pool's count are numbers.
LEMMA PoolNumbers ==
  ASSUME TypeOK, NEW h \in Host
  PROVE  total[h] \in Nat /\ Len(idle[h]) \in Nat /\ lost \in Nat
<1>1. total[h] \in 0..MaxConnections /\ idle[h] \in Seq(PoolConnection(h)) /\ lost \in Nat
  BY DEF TypeOK
<1>2. QED
  BY <1>1, Numbers

\* one connection more that a thread holds: an idle one, or a new one
LEMMA LentCount ==
  ASSUME TypeOK, NEW h \in Host, Counted(h), NEW d \in {0, 1}, Len(idle'[h]) = Len(idle[h]) - d,
         total'[h] = total[h] + 1 - d, lost' = lost,
         Cardinality(Holders(h)') = Cardinality(Holders(h)) + 1
  PROVE  Counted(h)'
<1> DEFINE leaked == IF h = Registry THEN lost ELSE 0
<1>1. /\ total[h] \in Nat /\ Len(idle[h]) \in Nat /\ lost \in Nat
      /\ Cardinality(Holders(h)) \in Nat
  BY PoolNumbers, HoldersFinite
<1>2. leaked \in Nat /\ leaked' = leaked
  BY <1>1
<1>3. total[h] = Len(idle[h]) + Cardinality(Holders(h)) + leaked
  BY DEF Counted
<1> HIDE DEF leaked
<1>4. \A a, b, n, l \in Nat : a = b + n + l => a + 1 - d = (b - d) + (n + 1) + l
  OBVIOUS
<1>5. total[h] + 1 - d = (Len(idle[h]) - d) + (Cardinality(Holders(h)) + 1) + leaked
  <2>1. PICK a, b, n, l \in Nat : total[h] = a /\ Len(idle[h]) = b /\ Cardinality(Holders(h)) = n /\ leaked = l
    BY <1>1, <1>2
  <2>2. a = b + n + l
    BY <1>3, <2>1
  <2>3. a + 1 - d = (b - d) + (n + 1) + l
    BY <1>4, <2>2
  <2>4. QED
    BY <2>1, <2>3
<1>6. total'[h] = Len(idle'[h]) + Cardinality(Holders(h)') + leaked'
  BY <1>2, <1>5
<1>7. QED
  BY <1>6 DEF Counted, leaked

\* t is lent a connection to its host: the first idle one, or a new one
LEMMA LentStep ==
  ASSUME Parts, NEW t \in Thread, thread[t].at \in {"discover", "call"},
         NEW h \in Host, h = thread[t].host, NEW c \in PoolConnection(h), Settled(h, c),
         Becomes(t, [thread[t] EXCEPT !.at = "send", !.conn = c]),
         IdleTyped', total' \in [Host -> 0..MaxConnections],
         \A g \in Host : g # h => idle'[g] = idle[g] /\ total'[g] = total[g],
         NEW d \in {0, 1}, Len(idle'[h]) = Len(idle[h]) - d, total'[h] = total[h] + 1 - d,
         IdleSettled(h)', UNCHANGED <<cache, executed, late, faults, lost, world>>
  PROVE  Parts'
<1> DEFINE r == [thread[t] EXCEPT !.at = "send", !.conn = c]
<1>1. /\ TypeOK /\ h \in Host /\ thread[t] \in ThreadRecord(t, h) /\ thread[t].conn = None
      /\ thread[t].result = None /\ c # None
  BY Place, NoneAssumption DEF Parts
<1>2. /\ r \in ThreadRecord(t, h) /\ Placed(r) /\ r.at = "send" /\ r.conn = c /\ r.host = h /\ r.result = None
  BY <1>1 DEF ThreadRecord, Placed, Places
<1>3. Becomes(t, r)
  OBVIOUS
<1> HIDE DEF r
<1>4. /\ ThreadsTyped' /\ thread'[t] = r
      /\ \A u \in Thread : u # t => thread'[u] = thread[u]
  BY <1>1, <1>2, <1>3, BecomesTyped
<1>5. TypeOK'
  <2>1. RestTyped'
    BY <1>1 DEF TypeOK, RestTyped, world
  <2>2. QED
    BY <1>4, <2>1, PartsOfType DEF ThreadsTyped, IdleTyped, RestTyped, TypeOK
<1>6. CacheInv'
  BY DEF Parts, CacheInv, world
<1>7. ASSUME NEW u \in Thread PROVE ThreadInv(u)'
  <2>1. CASE u # t
    BY <1>4, <2>1, ThreadKept DEF Parts, world
  <2>2. CASE u = t
    BY <1>2, <1>4, <2>2 DEF ThreadInv, Exchange, OwnResult, Aged, Settled
  <2>3. QED
    BY <2>1, <2>2
<1>8. Holders(h)' = Holders(h) \union {t} /\ t \notin Holders(h)
  BY <1>1, <1>2, <1>4 DEF Holders, Holds
<1>9. Cardinality(Holders(h)') = Cardinality(Holders(h)) + 1
  <2>1. Cardinality(Holders(h) \union {t}) = Cardinality(Holders(h)) + 1
    BY <1>8, HoldersFinite, FS_AddElement
  <2>2. QED
    BY <1>8, <2>1
<1>10. ASSUME NEW g \in Host PROVE Counted(g)' /\ IdleSettled(g)'
  <2>1. CASE g # h
    <3>1. \A u \in Thread : Holds(u, g)' <=> Holds(u, g)
      BY <1>1, <1>2, <1>4, <2>1 DEF Holds
    <3>2. QED
      BY <2>1, <3>1, HostKept DEF Parts
  <2>2. CASE g = h
    BY <1>1, <1>9, <2>2, LentCount DEF Parts
  <2>3. QED
    BY <2>1, <2>2
<1>11. QED
  BY <1>5, <1>6, <1>7, <1>10 DEF Parts

\* acquire() lends an idle connection.
LEMMA AcquireIdleStep ==
  ASSUME Parts, NEW t \in Thread, AcquireIdle(t)
  PROVE  Parts'
<1>0. PICK h \in Host : h = thread[t].host
  BY Place DEF Parts
<1>1. /\ TypeOK /\ thread[t].at \in {"discover", "call"} /\ idle[h] # << >>
      /\ Becomes(t, [thread[t] EXCEPT !.at = "send", !.conn = Head(idle[h])])
      /\ idle' = [idle EXCEPT ![h] = Tail(idle[h])]
      /\ UNCHANGED <<cache, total, executed, late, faults, lost, world>>
  BY <1>0 DEF Parts, AcquireIdle, Acquiring, At
<1>2. h \in Host /\ idle[h] \in Seq(PoolConnection(h)) /\ IdleSettled(h)
  BY <1>1, Place DEF TypeOK, Parts
<1>3. /\ Head(idle[h]) \in PoolConnection(h) /\ Tail(idle[h]) \in Seq(PoolConnection(h))
      /\ Len(Tail(idle[h])) = Len(idle[h]) - 1 /\ Len(idle[h]) \in Nat
      /\ Head(idle[h]) = idle[h][1] /\ 1 \in DOMAIN idle[h]
      /\ \A i \in DOMAIN Tail(idle[h]) : i + 1 \in DOMAIN idle[h] /\ Tail(idle[h])[i] = idle[h][i + 1]
  BY <1>1, <1>2
<1>4. /\ idle' = [g \in Host |-> idle'[g]] /\ idle'[h] = Tail(idle[h])
      /\ \A g \in Host : g # h => idle'[g] = idle[g]
  BY <1>1, <1>2 DEF TypeOK
<1>5. IdleTyped'
  BY <1>1, <1>3, <1>4 DEF TypeOK, IdleTyped
<1>6. Settled(h, Head(idle[h]))
  BY <1>2, <1>3 DEF IdleSettled
<1>7. \A i \in DOMAIN idle'[h] : Settled(h, idle'[h][i])
  BY <1>2, <1>3, <1>4 DEF IdleSettled
<1>8. total'[h] = total[h] + 1 - 1 /\ Len(idle'[h]) = Len(idle[h]) - 1
  <2>1. total[h] \in Nat /\ total' = total
    BY <1>1, <1>2, PoolNumbers
  <2>2. QED
    BY <1>3, <1>4, <2>1
<1>9. total' \in [Host -> 0..MaxConnections]
  BY <1>1 DEF TypeOK
<1>10. IdleSettled(h)'
  BY <1>7 DEF IdleSettled, Settled
<1>11. \A g \in Host : g # h => idle'[g] = idle[g] /\ total'[g] = total[g]
  BY <1>1, <1>4
<1>12. QED
  BY <1>0, <1>1, <1>2, <1>3, <1>5, <1>6, <1>8, <1>9, <1>10, <1>11, LentStep

\* acquire() lends a new connection.
LEMMA AcquireNewStep ==
  ASSUME Parts, NEW t \in Thread, AcquireNew(t)
  PROVE  Parts'
<1>0. PICK h \in Host : h = thread[t].host
  BY Place DEF Parts
<1>1. /\ TypeOK /\ thread[t].at \in {"discover", "call"} /\ idle[h] = << >> /\ total[h] < MaxConnections
      /\ Becomes(t, [thread[t] EXCEPT !.at = "send", !.conn = NewConnection])
      /\ total' = [total EXCEPT ![h] = @ + 1]
      /\ UNCHANGED <<cache, idle, executed, late, faults, lost, world>>
  BY <1>0 DEF Parts, AcquireNew, Acquiring, At
<1>2. h \in Host /\ IdleTyped'
  BY <1>1, Place DEF TypeOK, IdleTyped
<1>3. NewConnection \in PoolConnection(h) /\ Settled(h, NewConnection)
  BY DEF NewConnection, PoolConnection, Settled
<1>4. total[h] \in 0..MaxConnections /\ total \in [Host -> 0..MaxConnections]
  BY <1>1, <1>2 DEF TypeOK
<1>5. /\ total' \in [Host -> 0..MaxConnections] /\ total'[h] = total[h] + 1
      /\ \A g \in Host : g # h => total'[g] = total[g]
  BY <1>1, <1>2, <1>4, Numbers
<1>6. total'[h] = total[h] + 1 - 0 /\ Len(idle'[h]) = Len(idle[h]) - 0
  BY <1>1, <1>4, <1>5, Numbers
<1>7. IdleSettled(h)'
  BY <1>1 DEF IdleSettled
<1>8. QED
  BY <1>0, <1>1, <1>2, <1>3, <1>5, <1>6, <1>7, LentStep

\* A request goes out on a connection that is settled.
LEMMA SendStep ==
  ASSUME Parts, NEW t \in Thread, Send(t)
  PROVE  Parts'
<1>0. PICK h \in Host : h = thread[t].host
  BY Place DEF Parts
<1> DEFINE c == thread[t].conn
           a == Asked(c, CallId(t))
           r == [thread[t] EXCEPT !.at = "receive", !.conn = a]
<1>1. /\ TypeOK /\ thread[t].at = "send" /\ Becomes(t, r)
      /\ UNCHANGED <<cache, total, idle, executed, late, faults, lost, world>>
  BY DEF Parts, Send, At
<1>2. /\ thread[t] \in ThreadRecord(t, h) /\ c \in PoolConnection(h) /\ thread[t].result = None
      /\ CallId(t) \in Request /\ c # None
  BY <1>0, <1>1, Place, Fields, CallNumbers
<1>3. Settled(h, c)
  BY <1>0, <1>1 DEF Parts, ThreadInv, Exchange
<1> HIDE DEF c
<1>4. /\ a \in PoolConnection(h) /\ a.answers = c.answers /\ a.strayed = c.strayed
      /\ a.requests = IF c.open THEN Append(c.requests, CallId(t)) ELSE c.requests
  BY <1>2 DEF Asked, PoolConnection
<1>5. a # None
  BY <1>4, NoneAssumption
<1> HIDE DEF a
<1>6. /\ r \in ThreadRecord(t, h) /\ Placed(r) /\ r.at = "receive" /\ r.conn = a /\ r.host = h
      /\ r.result = None /\ r.call = thread[t].call
  BY <1>0, <1>1, <1>2, <1>4, <1>5 DEF ThreadRecord, Placed, Places
<1> HIDE DEF r
<1>7. /\ ThreadsTyped' /\ thread'[t] = r
      /\ \A u \in Thread : u # t => thread'[u] = thread[u]
  BY <1>1, <1>6, BecomesTyped
<1>8. TypeOK'
  <2>1. RestTyped' /\ IdleTyped'
    BY <1>1 DEF TypeOK, RestTyped, IdleTyped, world
  <2>2. QED
    BY <1>7, <2>1, PartsOfType DEF ThreadsTyped, IdleTyped, RestTyped, TypeOK
<1>9. CacheInv'
  BY <1>1 DEF Parts, CacheInv, world
<1>10. Settled(h, a) \/ (a.requests = <<CallId(t)>> /\ a.answers = << >>)
  <2>1. CASE h # Registry /\ c.strayed
    BY <1>4, <2>1 DEF Settled
  <2>2. CASE c.requests = << >> /\ c.answers = << >>
    <3>1. a.answers = << >> /\ (a.requests = << >> \/ a.requests = Append(<< >>, CallId(t)))
      BY <1>4, <2>2
    <3>2. Append(<< >>, CallId(t)) = <<CallId(t)>>
      OBVIOUS
    <3>3. QED
      BY <3>1, <3>2 DEF Settled
  <2>3. QED
    BY <1>3, <2>1, <2>2 DEF Settled
<1>11. ASSUME NEW u \in Thread PROVE ThreadInv(u)'
  <2>1. CASE u # t
    BY <1>1, <1>7, <2>1, ThreadKept DEF Parts, world
  <2>2. CASE u = t
    <3>1. Exchange(t)'
      BY <1>6, <1>7, <1>10 DEF Exchange, Awaited, Settled, CallId
    <3>2. QED
      BY <1>6, <1>7, <2>2, <3>1 DEF ThreadInv, OwnResult, Aged
  <2>3. QED
    BY <2>1, <2>2
<1>12. \A u \in Thread : \A g \in Host : Holds(u, g)' <=> Holds(u, g)
  BY <1>0, <1>2, <1>5, <1>6, <1>7 DEF Holds, c
<1>13. ASSUME NEW g \in Host PROVE Counted(g)' /\ IdleSettled(g)'
  BY <1>1, <1>12, HostKept DEF Parts
<1>14. QED
  BY <1>8, <1>9, <1>11, <1>13 DEF Parts

\* one connection less that a thread holds: it is idle again, or closed, or
\* lost by a discovery
LEMMA GivenCount ==
  ASSUME TypeOK, NEW h \in Host, Counted(h), NEW d \in {0, 1}, NEW e \in {0, 1},
         Len(idle'[h]) = Len(idle[h]) + d, total'[h] = total[h] - 1 + d + e,
         lost' = lost + e, e = 1 => h = Registry,
         Cardinality(Holders(h)) \in Nat \ {0}, Cardinality(Holders(h)') = Cardinality(Holders(h)) - 1
  PROVE  Counted(h)' /\ total'[h] \in Nat
<1> DEFINE leaked == IF h = Registry THEN lost ELSE 0
<1>1. /\ total[h] \in Nat /\ Len(idle[h]) \in Nat /\ lost \in Nat
  BY PoolNumbers
<1>2. leaked \in Nat /\ leaked' = leaked + e
  BY <1>1
<1>3. total[h] = Len(idle[h]) + Cardinality(Holders(h)) + leaked
  BY DEF Counted
<1> HIDE DEF leaked
<1>4. PICK a, b, n, l \in Nat : total[h] = a /\ Len(idle[h]) = b /\ Cardinality(Holders(h)) = n /\ leaked = l
  BY <1>1, <1>2
<1>5. a = b + n + l /\ n # 0
  BY <1>3, <1>4
<1>6. a - 1 + d + e = (b + d) + (n - 1) + (l + e) /\ a - 1 + d + e \in Nat
  BY <1>5
<1>7. total'[h] = Len(idle'[h]) + Cardinality(Holders(h)') + leaked' /\ total'[h] \in Nat
  BY <1>2, <1>4, <1>6
<1>8. QED
  BY <1>7 DEF Counted, leaked

\* t gives its connection to h up
LEMMA GivenStep ==
  ASSUME Parts, NEW t \in Thread, thread[t].at \in {"send", "receive"}, NEW h \in Host, h = thread[t].host,
         NEW g \in Host, NEW r \in ThreadRecord(t, g), Placed(r), Becomes(t, r), r.conn = None,
         IdleTyped', total' = [f \in Host |-> total'[f]],
         \A f \in Host : f # h => idle'[f] = idle[f] /\ total'[f] = total[f],
         NEW d \in {0, 1}, NEW e \in {0, 1}, d = 0 \/ e = 0, Len(idle'[h]) = Len(idle[h]) + d,
         total'[h] = total[h] - 1 + d + e, lost' = lost + e, e = 1 => h = Registry,
         IdleSettled(h)', UNCHANGED <<cache, executed, world>>, faults' = faults, late' \in [Thread -> Nat],
         r.result # None /\ ~r.result.strayed => r.result.of = <<t, r.call>> /\ executed[t] > 0,
         r.at = "update" => \A i \in r.endpoints : unlisted[i] = 0, r.at # "select"
  PROVE  Parts'
<1>1. TypeOK /\ thread[t].conn # None
  BY Place DEF Parts
<1>2. /\ ThreadsTyped' /\ thread'[t] = r
      /\ \A u \in Thread : u # t => thread'[u] = thread[u]
  BY <1>1, BecomesTyped
<1>3. Holders(h)' = Holders(h) \ {t} /\ t \in Holders(h)
  BY <1>1, <1>2 DEF Holders, Holds
<1>4. Cardinality(Holders(h)) \in Nat \ {0} /\ Cardinality(Holders(h)') = Cardinality(Holders(h)) - 1
  <2>1. IsFiniteSet(Holders(h)) /\ Cardinality(Holders(h)) \in Nat
    BY HoldersFinite
  <2>2. Cardinality(Holders(h) \ {t}) = Cardinality(Holders(h)) - 1
    BY <1>3, <2>1, FS_RemoveElement
  <2>3. Cardinality(Holders(h)) # 0
    BY <1>3, <2>1, FS_EmptySet
  <2>4. QED
    BY <1>3, <2>1, <2>2, <2>3
<1>5. Counted(h)' /\ total'[h] \in Nat
  BY <1>1, <1>4, GivenCount DEF Parts
<1>6. total' \in [Host -> 0..MaxConnections]
  <2>1. \A f \in Host : total[f] \in 0..MaxConnections
    BY <1>1 DEF TypeOK
  <2>2. total[h] \in 0..MaxConnections /\ MaxConnections \in Nat
    BY <2>1, Numbers
  <2>3. total'[h] \in 0..MaxConnections
    <3>1. PICK a, m \in Nat : total[h] = a /\ MaxConnections = m /\ a <= m
      BY <2>2
    <3>2. a - 1 + d + e <= m \/ (d = 1 /\ e = 1)
      BY <3>1
    <3>3. ~(d = 1 /\ e = 1)
      OBVIOUS
    <3>4. QED
      BY <1>5, <3>1, <3>2, <3>3
  <2>4. QED
    BY <2>1, <2>3
<1>7. TypeOK'
  <2>1. lost' \in Nat
    BY <1>1 DEF TypeOK
  <2>2. RestTyped'
    BY <1>1, <1>6, <2>1 DEF TypeOK, RestTyped, world
  <2>3. QED
    BY <1>2, <2>2, PartsOfType DEF ThreadsTyped, IdleTyped, RestTyped, TypeOK
<1>8. CacheInv'
  BY DEF Parts, CacheInv, world
<1>9. ASSUME NEW u \in Thread PROVE ThreadInv(u)'
  <2>1. CASE u # t
    BY <1>2, <2>1, ThreadKept DEF Parts, world
  <2>2. CASE u = t
    <3>1. r.at \notin {"send", "receive"}
      BY DEF Placed
    <3>2. QED
      BY <1>2, <2>2, <3>1 DEF ThreadInv, Exchange, OwnResult, Aged, CallId, world
  <2>3. QED
    BY <2>1, <2>2
<1>10. ASSUME NEW f \in Host PROVE Counted(f)' /\ IdleSettled(f)'
  <2>1. CASE f # h
    <3>1. \A u \in Thread : Holds(u, f)' <=> Holds(u, f)
      BY <1>1, <1>2, <2>1 DEF Holds
    <3>2. Holders(f)' = Holders(f) /\ Counted(f) /\ IdleSettled(f)
      BY <3>1 DEF Holders, Parts
    <3>3. f # Registry \/ lost' = lost
      <4>1. lost \in Nat
        BY <1>1, PoolNumbers
      <4>2. f = Registry => e = 0
        BY <2>1
      <4>3. QED
        BY <4>1, <4>2
    <3>4. QED
      BY <2>1, <3>2, <3>3 DEF Counted, IdleSettled, Settled
  <2>2. CASE f = h
    BY <1>5, <2>2
  <2>3. QED
    BY <2>1, <2>2
<1>11. QED
  BY <1>7, <1>8, <1>9, <1>10 DEF Parts

\* what receive() leaves of a connection
LEMMA OutcomeTyped ==
  ASSUME Parts, NEW t \in Thread, thread[t].at = "receive", NEW h \in Host, h = thread[t].host,
         NEW o \in Outcomes(thread[t].conn)
  PROVE  /\ o.conn \in PoolConnection(h)
         /\ o.data = None => o.conn.connected = FALSE
         /\ o.data # None => /\ o.data \in Answer(h) /\ Settled(h, o.conn)
                             /\ o.conn.strayed = thread[t].conn.strayed
                             /\ (h # Registry /\ o.conn.strayed) \/ Own(t, o.data)
<1> DEFINE c == thread[t].conn
<1>1. c \in PoolConnection(h) /\ (Settled(h, c) \/ Awaited(t, c))
  <2>1. c \in PoolConnection(h) \union {None} /\ c # None
    BY Fields, Place DEF Parts
  <2>2. Settled(h, c) \/ Awaited(t, c)
    BY DEF Parts, ThreadInv, Exchange
  <2>3. QED
    BY <2>1, <2>2
<1> HIDE DEF c
<1>2. c.answers \in Seq(Answer(h))
  BY <1>1 DEF PoolConnection
<1>3. CASE c.answers # << >> /\ Head(c.answers).bytes # 0
  <2>1. o = [data |-> Head(c.answers), conn |-> [c EXCEPT !.answers = Tail(@)]]
    BY <1>3 DEF Outcomes, Received, c
  <2>2. /\ Head(c.answers) \in Answer(h) /\ Tail(c.answers) \in Seq(Answer(h))
        /\ Len(c.answers) = 1 => Tail(c.answers) = << >>
    <3> DEFINE A == Answer(h)
               answers == c.answers
    <3>1. answers \in Seq(A) /\ answers # << >>
      BY <1>2, <1>3
    <3> HIDE DEF A, answers
    <3>2. /\ Head(answers) \in A /\ Tail(answers) \in Seq(A)
          /\ Len(answers) = 1 => Tail(answers) = << >>
      <4>1. Head(answers) \in A
        BY <3>1
      <4>2. Tail(answers) \in Seq(A) /\ Len(Tail(answers)) = Len(answers) - 1
        BY <3>1
      <4>3. ASSUME NEW u \in Seq(A), Len(u) = 0 PROVE u = << >>
        BY <4>3
      <4>4. QED
        BY <4>1, <4>2, <4>3
    <3>3. QED
      BY <3>2 DEF A, answers
  <2>3. /\ o.conn \in PoolConnection(h) /\ o.conn.strayed = c.strayed /\ o.conn.requests = c.requests
        /\ o.conn.answers = Tail(c.answers) /\ o.data = Head(c.answers)
    BY <1>1, <2>1, <2>2 DEF PoolConnection
  <2>4. o.data # None
    BY <2>2, <2>3, NoneAssumption
  <2>5. CASE h # Registry /\ c.strayed
    BY <2>2, <2>3, <2>4, <2>5 DEF Settled, c
  <2>6. CASE Awaited(t, c)
    <3>1. c.requests = << >> /\ Len(c.answers) = 1 /\ Own(t, Head(c.answers))
      BY <1>3, <2>6 DEF Awaited
    <3>2. QED
      BY <2>2, <2>3, <2>4, <3>1 DEF Settled, c
  <2>7. QED
    BY <1>1, <1>3, <2>5, <2>6 DEF Settled
<1>4. CASE c.answers = << >> \/ Head(c.answers).bytes = 0
  <2>1. o = [data |-> None, conn |-> [c EXCEPT !.connected = FALSE]]
    BY <1>4 DEF Outcomes, Nothing, Disconnected, c
  <2>2. o.data = None /\ o.conn \in PoolConnection(h) /\ o.conn.connected = FALSE
    BY <1>1, <2>1 DEF PoolConnection
  <2>3. QED
    BY <2>2
<1>5. QED
  BY <1>3, <1>4

\* The requests that a connection leaves to its server are counted as late.
LEMMA LeftTyped ==
  ASSUME TypeOK, NEW h \in Host, NEW c \in PoolConnection(h), Left(h, c)
  PROVE  late' \in [Thread -> Nat]
<1>1. late \in [Thread -> Nat]
  BY DEF TypeOK
<1>2. ASSUME NEW t \in Thread PROVE late[t] + Requests(c, t) \in Nat
  <2>1. c.requests \in Seq(Request)
    BY DEF PoolConnection
  <2>2. IsFiniteSet(1..Len(c.requests)) /\ DOMAIN c.requests = 1..Len(c.requests)
    BY <2>1, FS_Interval
  <2>3. Requests(c, t) \in Nat
    BY <2>2, FS_Subset, FS_CardinalityType DEF Requests
  <2>4. late[t] \in Nat
    BY <1>1
  <2>5. QED
    BY <2>3, <2>4
<1>3. QED
  BY <1>1, <1>2 DEF Left

\* what release() does with a connection
LEMMA ReleaseTyped ==
  ASSUME Parts, NEW h \in Host, NEW c \in PoolConnection(h), c.connected => Settled(h, c), Release(h, c)
  PROVE  /\ IdleTyped' /\ total' = [f \in Host |-> total'[f]]
         /\ \A f \in Host : f # h => idle'[f] = idle[f] /\ total'[f] = total[f]
         /\ \E d \in {0, 1} : Len(idle'[h]) = Len(idle[h]) + d /\ total'[h] = total[h] - 1 + d
         /\ IdleSettled(h)' /\ late' \in [Thread -> Nat]
<1>1. /\ TypeOK /\ idle = [f \in Host |-> idle[f]] /\ \A f \in Host : idle[f] \in Seq(PoolConnection(f))
      /\ total = [f \in Host |-> total[f]] /\ IdleSettled(h)
  BY DEF Parts, TypeOK
<1>2. total[h] \in Nat /\ Len(idle[h]) \in Nat
  BY <1>1, PoolNumbers
<1>3. CASE c.connected
  <2>1. idle' = [idle EXCEPT ![h] = Append(@, c)] /\ total' = total /\ late' \in [Thread -> Nat]
    BY <1>1, <1>3 DEF Release, TypeOK
  <2>2. /\ idle' = [f \in Host |-> idle'[f]] /\ idle'[h] = Append(idle[h], c)
        /\ \A f \in Host : f # h => idle'[f] = idle[f]
    BY <1>1, <2>1
  <2>3. /\ Append(idle[h], c) \in Seq(PoolConnection(h)) /\ Len(Append(idle[h], c)) = Len(idle[h]) + 1
        /\ \A j \in DOMAIN Append(idle[h], c) :
             (j \in DOMAIN idle[h] /\ Append(idle[h], c)[j] = idle[h][j]) \/ Append(idle[h], c)[j] = c
    BY <1>1
  <2>4. IdleTyped'
    BY <1>1, <2>2, <2>3 DEF IdleTyped
  <2>5. IdleSettled(h)'
    BY <1>1, <1>3, <2>2, <2>3 DEF IdleSettled, Settled
  <2>6. Len(idle'[h]) = Len(idle[h]) + 1 /\ total'[h] = total[h] - 1 + 1
    BY <1>2, <2>1, <2>2, <2>3
  <2>7. QED
    BY <1>1, <2>1, <2>2, <2>4, <2>5, <2>6
<1>4. CASE ~c.connected
  <2>1. total' = [total EXCEPT ![h] = @ - 1] /\ idle' = idle /\ late' \in [Thread -> Nat]
    BY <1>1, <1>4, LeftTyped DEF Release
  <2>2. /\ total' = [f \in Host |-> total'[f]] /\ total'[h] = total[h] - 1
        /\ \A f \in Host : f # h => total'[f] = total[f]
    BY <1>1, <2>1
  <2>3. IdleTyped' /\ IdleSettled(h)'
    BY <1>1, <2>1 DEF IdleTyped, IdleSettled, Settled
  <2>4. Len(idle'[h]) = Len(idle[h]) + 0 /\ total'[h] = total[h] - 1 + 0
    BY <1>2, <2>1, <2>2
  <2>5. QED
    BY <2>1, <2>2, <2>3, <2>4
<1>5. QED
  BY <1>3, <1>4

\* The registry's answer is read, or the connection is lost.
LEMMA ReceiveEndpointsStep ==
  ASSUME Parts, NEW t \in Thread, ReceiveEndpoints(t)
  PROVE  Parts'
<1>1. /\ TypeOK /\ thread[t].at = "receive" /\ thread[t].host = Registry /\ Registry \in Host
      /\ thread[t].result = None /\ thread[t] \in ThreadRecord(t, Registry)
      /\ UNCHANGED <<cache, executed, faults, world>>
  BY Place, Numbers DEF Parts, ReceiveEndpoints, At
<1>2. PICK o \in Outcomes(thread[t].conn) :
        IF o.data = None
        THEN Becomes(t, Failed(t)) /\ lost' = lost + 1 /\ UNCHANGED <<idle, total, late>>
        ELSE /\ Becomes(t, [thread[t] EXCEPT !.at = "update", !.endpoints = o.data.endpoints, !.conn = None])
             /\ Release(Registry, o.conn)
             /\ UNCHANGED lost
  BY DEF ReceiveEndpoints
<1>3. CASE o.data = None
  <2>1. PICK g \in Host : /\ Failed(t) \in ThreadRecord(t, g) /\ Placed(Failed(t))
                          /\ Failed(t).at \in {"done", "call"}
                          /\ Failed(t).conn = None /\ Failed(t).result = None
    BY <1>1, FailedTyped
  <2>2. /\ Becomes(t, Failed(t)) /\ lost' = lost + 1 /\ idle' = idle /\ total' = total
        /\ late' \in [Thread -> Nat]
    BY <1>1, <1>2, <1>3 DEF TypeOK
  <2>3. IdleTyped' /\ total' = [f \in Host |-> total'[f]] /\ IdleSettled(Registry)'
    BY <1>1, <2>2 DEF Parts, TypeOK, IdleTyped, IdleSettled, Settled
  <2>4. Len(idle'[Registry]) = Len(idle[Registry]) + 0 /\ total'[Registry] = total[Registry] - 1 + 0 + 1
    <3>1. Len(idle[Registry]) \in Nat /\ total[Registry] \in Nat
      BY <1>1, PoolNumbers
    <3>2. QED
      BY <2>2, <3>1
  <2>5. \A f \in Host : f # Registry => idle'[f] = idle[f] /\ total'[f] = total[f]
    BY <2>2
  <2>6. QED
    BY <1>1, <2>1, <2>2, <2>3, <2>4, <2>5, GivenStep
<1>4. CASE o.data # None
  <2> DEFINE r == [thread[t] EXCEPT !.at = "update", !.endpoints = o.data.endpoints, !.conn = None]
  <2>1. Becomes(t, r) /\ Release(Registry, o.conn) /\ lost' = lost + 0
    BY <1>1, <1>2, <1>4, PoolNumbers
  <2>2. /\ o.conn \in PoolConnection(Registry) /\ Settled(Registry, o.conn)
        /\ o.data \in Answer(Registry) /\ Own(t, o.data)
    BY <1>1, <1>4, OutcomeTyped
  <2>3. o.data.endpoints \subseteq Endpoint /\ \A e \in o.data.endpoints : unlisted[e] = 0
    BY <1>1, <2>2 DEF Answer, Own
  <2>4. /\ r \in ThreadRecord(t, Registry) /\ Placed(r) /\ r.at = "update" /\ r.conn = None
        /\ r.result = None /\ r.endpoints = o.data.endpoints
    BY <1>1, <2>3 DEF ThreadRecord, Placed, Places
  <2> HIDE DEF r
  <2>5. /\ IdleTyped' /\ total' = [f \in Host |-> total'[f]]
        /\ \A f \in Host : f # Registry => idle'[f] = idle[f] /\ total'[f] = total[f]
        /\ \E d \in {0, 1} : Len(idle'[Registry]) = Len(idle[Registry]) + d /\ total'[Registry] = total[Registry] - 1 + d
        /\ IdleSettled(Registry)' /\ late' \in [Thread -> Nat]
    BY <1>1, <2>1, <2>2, ReleaseTyped
  <2>6. PICK d \in {0, 1} : /\ Len(idle'[Registry]) = Len(idle[Registry]) + d
                            /\ total'[Registry] = total[Registry] - 1 + d
    BY <2>5
  <2>7. total'[Registry] = total[Registry] - 1 + d + 0
    <3>1. total[Registry] \in Nat /\ d \in Int
      BY <1>1, PoolNumbers
    <3>2. QED
      BY <2>6, <3>1
  <2>8. QED
    BY <1>1, <2>1, <2>3, <2>4, <2>5, <2>6, <2>7, GivenStep
<1>5. QED
  BY <1>3, <1>4

\* A server's answer is read, and the connection is released in any case.
LEMMA ReceiveResultStep ==
  ASSUME Parts, NEW t \in Thread, ReceiveResult(t)
  PROVE  Parts'
<1>0. PICK h \in Host : h = thread[t].host
  BY Place DEF Parts
<1>1. /\ TypeOK /\ thread[t].at = "receive" /\ h # Registry
      /\ thread[t].result = None /\ thread[t] \in ThreadRecord(t, h)
      /\ UNCHANGED <<cache, executed, faults, lost, world>>
  BY <1>0, Place DEF Parts, ReceiveResult, At
<1>2. PICK o \in Outcomes(thread[t].conn) :
        /\ Becomes(t, IF o.data # None /\ o.data.data # ""
                      THEN Done(t, [of |-> o.data.of, strayed |-> o.conn.strayed]) ELSE Failed(t))
        /\ Release(h, o.conn)
  BY <1>0 DEF ReceiveResult
<1>3. /\ o.conn \in PoolConnection(h)
      /\ o.conn.connected => Settled(h, o.conn)
      /\ o.data # None => o.data \in Answer(h) /\ (o.conn.strayed \/ Own(t, o.data))
  BY <1>0, <1>1, OutcomeTyped
<1> DEFINE Goes(r) ==
        /\ Placed(r) /\ Becomes(t, r) /\ r.conn = None /\ r.at \in {"done", "call"}
        /\ r.result # None /\ ~r.result.strayed => r.result.of = <<t, r.call>> /\ executed[t] > 0
<1>4. \E g \in Host : \E r \in ThreadRecord(t, g) : Goes(r)
  <2>1. CASE o.data # None /\ o.data.data # ""
    <3> DEFINE result == [of |-> o.data.of, strayed |-> o.conn.strayed]
               r == Done(t, result)
    <3>1. result \in Result /\ result.of = o.data.of /\ result.strayed = o.conn.strayed
      <4>1. o.data.of \in Request \union {None}
        BY <1>1, <1>3, <2>1 DEF Answer
      <4>2. o.conn.strayed \in BOOLEAN
        BY <1>3 DEF PoolConnection
      <4>3. QED
        BY <4>1, <4>2 DEF Result
    <3> HIDE DEF result
    <3>2. /\ r \in ThreadRecord(t, Registry) /\ Placed(r) /\ r.at = "done" /\ r.conn = None /\ r.result = result
          /\ r.call = thread[t].call
      BY <1>1, <3>1, DoneRecord
    <3>3. Becomes(t, r)
      BY <1>2, <2>1 DEF result
    <3>4. ~result.strayed => result.of = <<t, thread[t].call>> /\ executed[t] > 0
      BY <1>0, <1>1, <1>3, <2>1, <3>1 DEF Own, CallId
    <3> HIDE DEF r
    <3>5. QED
      BY <3>2, <3>3, <3>4, Numbers
  <2>2. CASE ~(o.data # None /\ o.data.data # "")
    <3>1. PICK g \in Host : /\ Failed(t) \in ThreadRecord(t, g) /\ Placed(Failed(t))
                            /\ Failed(t).at \in {"done", "call"}
                            /\ Failed(t).conn = None /\ Failed(t).result = None
      BY <1>1, FailedTyped
    <3>2. Becomes(t, Failed(t))
      BY <1>2, <2>2
    <3>3. QED
      BY <3>1, <3>2
  <2>3. QED
    BY <2>1, <2>2
<1>5. PICK g \in Host : \E r \in ThreadRecord(t, g) : Goes(r)
  BY <1>4
<1>6. PICK r \in ThreadRecord(t, g) : Goes(r)
  BY <1>5
<1>7. /\ IdleTyped' /\ total' = [f \in Host |-> total'[f]]
      /\ \A f \in Host : f # h => idle'[f] = idle[f] /\ total'[f] = total[f]
      /\ \E d \in {0, 1} : Len(idle'[h]) = Len(idle[h]) + d /\ total'[h] = total[h] - 1 + d
      /\ IdleSettled(h)' /\ late' \in [Thread -> Nat]
  BY <1>2, <1>3, ReleaseTyped
<1>8. PICK d \in {0, 1} : Len(idle'[h]) = Len(idle[h]) + d /\ total'[h] = total[h] - 1 + d
  BY <1>7
<1>9. total'[h] = total[h] - 1 + d + 0 /\ lost' = lost + 0
  <2>1. total[h] \in Nat /\ d \in Int /\ lost \in Nat
    BY <1>1, PoolNumbers
  <2>2. QED
    BY <1>1, <1>8, <2>1
<1>10. QED
  BY <1>0, <1>1, <1>7, <1>8, <1>9, <1>6, GivenStep

\* A send() that fails: the connection is released disconnected, or is lost.
LEMMA SendFailsStep ==
  ASSUME Parts, NEW t \in Thread, SendFails(t)
  PROVE  Parts'
<1>0. PICK h \in Host : h = thread[t].host
  BY Place DEF Parts
<1> DEFINE d == Disconnected(thread[t].conn)
<1>1. /\ TypeOK /\ thread[t].at = "send" /\ Becomes(t, Failed(t))
      /\ UNCHANGED <<cache, executed, faults, world>>
      /\ IF h = Registry THEN lost' = lost + 1 /\ UNCHANGED <<total, idle, late>>
         ELSE Release(h, d) /\ UNCHANGED lost
  BY <1>0 DEF Parts, SendFails, At
<1>2. PICK g \in Host : /\ Failed(t) \in ThreadRecord(t, g) /\ Placed(Failed(t))
                        /\ Failed(t).at \in {"done", "call"}
                        /\ Failed(t).conn = None /\ Failed(t).result = None
  BY <1>1, FailedTyped
<1>3. total[h] \in Nat /\ Len(idle[h]) \in Nat /\ lost \in Nat
  BY <1>1, PoolNumbers
<1>4. CASE h = Registry
  <2>1. lost' = lost + 1 /\ idle' = idle /\ total' = total /\ late' \in [Thread -> Nat]
    BY <1>1, <1>4 DEF TypeOK
  <2>2. IdleTyped' /\ total' = [f \in Host |-> total'[f]] /\ IdleSettled(h)'
    BY <1>1, <2>1 DEF Parts, TypeOK, IdleTyped, IdleSettled, Settled
  <2>3. Len(idle'[h]) = Len(idle[h]) + 0 /\ total'[h] = total[h] - 1 + 0 + 1
    BY <1>3, <2>1
  <2>4. \A f \in Host : f # h => idle'[f] = idle[f] /\ total'[f] = total[f]
    BY <2>1
  <2>5. QED
    BY <1>0, <1>1, <1>2, <1>4, <2>1, <2>2, <2>3, <2>4, GivenStep
<1>5. CASE h # Registry
  <2>1. Release(h, d) /\ lost' = lost + 0
    BY <1>1, <1>3, <1>5
  <2>2. d \in PoolConnection(h) /\ ~d.connected
    <3>1. thread[t].conn \in PoolConnection(h)
      BY <1>0, <1>1, Place, Fields
    <3>2. QED
      BY <3>1 DEF Disconnected, PoolConnection
  <2> HIDE DEF d
  <2>3. /\ IdleTyped' /\ total' = [f \in Host |-> total'[f]]
        /\ \A f \in Host : f # h => idle'[f] = idle[f] /\ total'[f] = total[f]
        /\ \E b \in {0, 1} : Len(idle'[h]) = Len(idle[h]) + b /\ total'[h] = total[h] - 1 + b
        /\ IdleSettled(h)' /\ late' \in [Thread -> Nat]
    BY <2>1, <2>2, ReleaseTyped
  <2>4. PICK b \in {0, 1} : Len(idle'[h]) = Len(idle[h]) + b /\ total'[h] = total[h] - 1 + b
    BY <2>3
  <2>5. total'[h] = total[h] - 1 + b + 0
    BY <1>3, <2>4
  <2>6. QED
    BY <1>0, <1>1, <1>2, <2>1, <2>3, <2>4, <2>5, GivenStep
<1>6. QED
  BY <1>4, <1>5

-----------------------------------------------------------------------------
(* The steps of the registry, of the servers and of time.                   *)

\* what a connection of t may come to hold
Next_held(t, h, c) ==
  \/ c.requests = <<CallId(t)>> /\ c.answers = << >>
  \/ /\ c.requests = << >> /\ Len(c.answers) = 1
     /\ IF h = Registry THEN \A e \in Head(c.answers).endpoints : unlisted[e] = 0
                        ELSE Head(c.answers).of = CallId(t) /\ executed'[t] > 0

\* The peer changes one connection, and leaves it settled, or the exchange on it
\* one that its thread waits for.
LEMMA PutStep ==
  ASSUME Parts, NEW h \in Host, NEW k \in Connections(h), NEW c \in PoolConnection(h), Put(h, k, c),
         UNCHANGED <<cache, total, lost, world>>, faults' \in 0..MaxFaults,
         executed' \in [Thread -> Nat], late' \in [Thread -> Nat],
         \A t \in Thread : executed[t] > 0 => executed'[t] > 0,
         Settled(h, Connection(h, k)) => Settled(h, c),
         \A t \in Thread : k = <<"lent", t>> /\ Holds(t, h) /\ Awaited(t, Connection(h, k)) =>
                             Settled(h, c) \/ Next_held(t, h, c)
  PROVE  Parts'
<1>1. TypeOK
  BY DEF Parts
<1>2. /\ ThreadsTyped' /\ IdleTyped'
      /\ \A t \in Thread : /\ thread'[t] = thread[t]
                              \/ (Holds(t, h) /\ k = <<"lent", t>> /\ thread'[t] = [thread[t] EXCEPT !.conn = c])
                           /\ \A g \in Host : Holds(t, g)' <=> Holds(t, g)
      /\ \A g \in Host : /\ Len(idle'[g]) = Len(idle[g])
                         /\ \A i \in DOMAIN idle[g] :
                              idle'[g][i] = idle[g][i] \/ (g = h /\ k = <<"idle", i>> /\ idle'[g][i] = c)
  BY <1>1, PutTyped
<1>3. TypeOK'
  <2>1. RestTyped'
    BY <1>1 DEF TypeOK, RestTyped, world
  <2>2. QED
    BY <1>2, <2>1, PartsOfType DEF ThreadsTyped, IdleTyped, RestTyped, TypeOK
<1>4. CacheInv'
  BY DEF Parts, CacheInv, world
<1>5. ASSUME NEW t \in Thread PROVE ThreadInv(t)'
  <2>1. CASE thread'[t] = thread[t]
    BY <2>1, ThreadKept DEF Parts, world
  <2>2. CASE Holds(t, h) /\ k = <<"lent", t>> /\ thread'[t] = [thread[t] EXCEPT !.conn = c]
    <3>1. /\ Connection(h, k) = thread[t].conn /\ thread[t].host = h /\ thread[t].conn # None
      BY <2>2 DEF Connection, Holds
    <3>2. /\ thread[t] \in ThreadRecord(t, h) /\ thread[t].at \in {"send", "receive"} /\ thread[t].result = None
      BY <1>1, <3>1, Place
    <3>3. /\ thread'[t].at = thread[t].at /\ thread'[t].host = h /\ thread'[t].conn = c
          /\ thread'[t].call = thread[t].call /\ thread'[t].result = None
      BY <2>2, <3>1, <3>2 DEF ThreadRecord
    <3>4. Settled(h, c) \/ (thread[t].at = "receive" /\ Next_held(t, h, c))
      BY <2>2, <3>1, <3>2 DEF Parts, ThreadInv, Exchange
    <3>5. Exchange(t)'
      BY <3>3, <3>4 DEF Exchange, Next_held, Settled, Awaited, Own, CallId, world
    <3>6. QED
      BY <3>2, <3>3, <3>5 DEF ThreadInv, OwnResult, Aged
  <2>3. QED
    BY <1>2, <2>1, <2>2
<1>6. ASSUME NEW g \in Host PROVE Counted(g)' /\ IdleSettled(g)'
  <2>1. Holders(g)' = Holders(g)
    BY <1>2 DEF Holders
  <2>2. Counted(g)'
    BY <1>2, <2>1 DEF Parts, Counted
  <2>3. ASSUME NEW i \in DOMAIN idle'[g] PROVE Settled(g, idle'[g][i])
    <3>1. i \in DOMAIN idle[g]
      BY <1>1, <1>2 DEF IdleTyped, TypeOK
    <3>2. Settled(g, idle[g][i])
      BY <3>1 DEF Parts, IdleSettled
    <3>3. CASE idle'[g][i] = idle[g][i]
      BY <3>2, <3>3
    <3>4. CASE g = h /\ k = <<"idle", i>> /\ idle'[g][i] = c
      <4>1. Connection(h, k) = idle[g][i]
        BY <3>4 DEF Connection
      <4>2. QED
        BY <3>2, <3>4, <4>1
    <3>5. QED
      BY <1>2, <3>1, <3>3, <3>4
  <2>4. QED
    BY <2>2, <2>3 DEF IdleSettled, Settled
<1>7. QED
  BY <1>3, <1>4, <1>5, <1>6 DEF Parts

\* the oldest request of a connection is answered
LEMMA AnsweredTyped ==
  ASSUME NEW h \in Host, NEW c \in PoolConnection(h), c.requests # << >>, NEW a \in Answer(h)
  PROVE  /\ Answered(c, a) \in PoolConnection(h)
         /\ Answered(c, a).strayed = c.strayed
         /\ \A id : c.requests = <<id>> /\ c.answers = << >> =>
              /\ Answered(c, a).requests = << >> /\ Head(c.requests) = id
              /\ Len(Answered(c, a).answers) = 1 /\ Head(Answered(c, a).answers) = a
<1> DEFINE requests == c.requests
           answers == c.answers
           d == Answered(c, a)
<1>1. requests \in Seq(Request) /\ requests # << >> /\ answers \in Seq(Answer(h))
  BY DEF PoolConnection
<1> HIDE DEF requests, answers
<1>2. Tail(requests) \in Seq(Request)
  BY <1>1
<1>3. Append(answers, a) \in Seq(Answer(h))
  BY <1>1
<1>4. d = [c EXCEPT !.requests = Tail(requests), !.answers = Append(answers, a)]
  BY DEF Answered, requests, answers
<1> HIDE DEF d
<1>5. /\ d \in PoolConnection(h) /\ d.strayed = c.strayed /\ d.requests = Tail(requests)
      /\ d.answers = Append(answers, a)
  BY <1>2, <1>3, <1>4 DEF PoolConnection
<1>6. ASSUME NEW id, requests = <<id>>, answers = << >>
      PROVE  Tail(requests) = << >> /\ Head(requests) = id /\ Append(answers, a) = <<a>>
  BY <1>6
<1>7. Len(<<a>>) = 1 /\ Head(<<a>>) = a
  OBVIOUS
<1>8. QED
  BY <1>5, <1>6, <1>7 DEF requests, answers, d

\* The registry answers with what it lists.
LEMMA RegistryAnswersStep ==
  ASSUME Parts, RegistryAnswers
  PROVE  Parts'
<1> DEFINE bytes == Serialize(ServiceDiscoveryResponse, <<SetToSeq(listed)>>)
           answer == [bytes |-> Cardinality(DOMAIN bytes), endpoints |-> listed]
<1>1. PICK k \in Connections(Registry) :
        /\ Waiting(Registry, k)
        /\ Put(Registry, k, [Answered(Connection(Registry, k), answer) EXCEPT !.open = FALSE])
  BY DEF RegistryAnswers
<1> DEFINE c == Connection(Registry, k)
           b == Answered(c, answer)
           d == [b EXCEPT !.open = FALSE]
<1>2. /\ TypeOK /\ listed \subseteq Endpoint /\ Registry \in Host
      /\ UNCHANGED <<cache, total, executed, late, faults, lost, world>>
  BY Numbers DEF Parts, TypeOK, RegistryAnswers
<1>3. c \in PoolConnection(Registry) /\ c.requests # << >>
  BY <1>1, <1>2, ConnectionTyped DEF Waiting
<1>4. answer \in Answer(Registry) /\ answer.endpoints = listed
  <2>1. DOMAIN bytes \subseteq {1}
    BY DEF Serialize, ServiceDiscoveryResponse
  <2>2. IsFiniteSet({1})
    BY FS_Singleton
  <2>3. Cardinality(DOMAIN bytes) \in Nat
    BY <2>1, <2>2, FS_Subset, FS_CardinalityType
  <2>4. QED
    BY <1>2, <2>3 DEF Answer
<1> HIDE DEF c, answer
<1>11. /\ b \in PoolConnection(Registry)
      /\ \A id : c.requests = <<id>> /\ c.answers = << >> =>
           b.requests = << >> /\ Len(b.answers) = 1 /\ Head(b.answers) = answer
  BY <1>2, <1>3, <1>4, AnsweredTyped
<1>5. d \in PoolConnection(Registry) /\ d.requests = b.requests /\ d.answers = b.answers
  <2> HIDE DEF b
  <2>1. QED
    BY <1>11 DEF PoolConnection
<1>6. Put(Registry, k, d)
  BY <1>1 DEF c, answer
<1> HIDE DEF d
<1>7. ~Settled(Registry, c)
  BY <1>3 DEF Settled
<1>8. ASSUME NEW t \in Thread, Awaited(t, c) PROVE Next_held(t, Registry, d)
  <2>1. c.requests = <<CallId(t)>> /\ c.answers = << >>
    BY <1>3, <1>8 DEF Awaited
  <2>2. d.requests = << >> /\ Len(d.answers) = 1 /\ Head(d.answers) = answer
    BY <1>5, <1>11, <2>1
  <2>3. \A e \in listed : unlisted[e] = 0
    BY DEF Parts, CacheInv
  <2>4. QED
    BY <1>4, <2>2, <2>3 DEF Next_held
<1>9. executed' \in [Thread -> Nat] /\ late' \in [Thread -> Nat] /\ faults' \in 0..MaxFaults
  BY <1>2 DEF TypeOK
<1>10. QED
  BY <1>2, <1>5, <1>6, <1>7, <1>8, <1>9, PutStep DEF c

\* an execution is counted for the call it belongs to
LEMMA ExecutedTyped ==
  ASSUME TypeOK, NEW id \in Request, executed' = Executed(id)
  PROVE  /\ executed' \in [Thread -> Nat]
         /\ \A t \in Thread : /\ executed[t] > 0 => executed'[t] > 0
                              /\ id = CallId(t) => executed'[t] > 0
<1>1. executed \in [Thread -> Nat] /\ id[1] \in Thread
  BY DEF TypeOK, Request
<1>2. CASE Present(id)
  <2>1. executed' = [executed EXCEPT ![id[1]] = @ + 1]
    BY <1>2 DEF Executed
  <2>2. ASSUME NEW t \in Thread
        PROVE  (executed[t] > 0 => executed'[t] > 0) /\ (id = CallId(t) => executed'[t] > 0)
    BY <1>1, <2>1 DEF CallId
  <2>3. QED
    BY <1>1, <2>1, <2>2
<1>3. CASE ~Present(id)
  <2>1. executed' = executed
    BY <1>3 DEF Executed
  <2>2. \A t \in Thread : id # CallId(t)
    BY <1>3 DEF Present, CallId
  <2>3. QED
    BY <1>1, <2>1, <2>2
<1>4. QED
  BY <1>2, <1>3

\* A server executes a request, or its handler throws, and answers it.
LEMMA ServerAnswersStep ==
  ASSUME Parts, NEW h \in Host, ServerAnswers(h)
  PROVE  Parts'
<1> DEFINE answer(id, data) == [bytes |-> 1, of |-> id, data |-> data]
<1>1. PICK k \in Connections(h) :
        /\ Waiting(h, k)
        /\ executed' = Executed(Head(Connection(h, k).requests))
        /\ \/ /\ Put(h, k, Answered(Connection(h, k), answer(Head(Connection(h, k).requests),
                                                             Data(Head(Connection(h, k).requests)[1]))))
              /\ UNCHANGED faults
           \/ Put(h, k, Answered(Connection(h, k), answer(Head(Connection(h, k).requests), ""))) /\ Fault
  BY DEF ServerAnswers
<1> DEFINE c == Connection(h, k)
           id == Head(c.requests)
<1>2. /\ TypeOK /\ h # Registry
      /\ UNCHANGED <<cache, total, late, lost, world>>
  BY DEF Parts, ServerAnswers
<1>3. c \in PoolConnection(h) /\ c.requests # << >> /\ id \in Request
  <2>1. c \in PoolConnection(h) /\ c.requests # << >>
    BY <1>1, <1>2, ConnectionTyped DEF Waiting
  <2>2. c.requests \in Seq(Request)
    BY <2>1 DEF PoolConnection
  <2>3. QED
    BY <2>1, <2>2
<1>4. PICK data \in {"", "sum"} : Put(h, k, Answered(c, answer(id, data))) /\ faults' \in 0..MaxFaults
  <2>1. Data(id[1]) \in {"", "sum"}
    BY DEF Data
  <2>2. faults \in 0..MaxFaults
    BY <1>2 DEF TypeOK
  <2>3. Fault => faults' \in 0..MaxFaults
    BY <2>2, Numbers DEF Fault
  <2>4. QED
    BY <1>1, <2>1, <2>2, <2>3
<1> DEFINE a == answer(id, data)
           d == Answered(c, a)
<1>5. a \in Answer(h) /\ a.of = id
  BY <1>2, <1>3 DEF Answer
<1>6. Put(h, k, d)
  BY <1>4
<1> HIDE DEF a, c
<1>7. /\ d \in PoolConnection(h) /\ d.strayed = c.strayed
      /\ \A i : c.requests = <<i>> /\ c.answers = << >> =>
           d.requests = << >> /\ id = i /\ Len(d.answers) = 1 /\ Head(d.answers) = a
  <2>1. c \in PoolConnection(h) /\ c.requests # << >> /\ a \in Answer(h)
    BY <1>3, <1>5
  <2>2. /\ Answered(c, a) \in PoolConnection(h)
        /\ Answered(c, a).strayed = c.strayed
        /\ \A i : c.requests = <<i>> /\ c.answers = << >> =>
              /\ Answered(c, a).requests = << >> /\ Head(c.requests) = i
              /\ Len(Answered(c, a).answers) = 1 /\ Head(Answered(c, a).answers) = a
    BY <2>1, AnsweredTyped
  <2>3. QED
    BY <2>2
<1> HIDE DEF d
<1>8. executed' = Executed(id)
  BY <1>1 DEF c
<1> HIDE DEF id
<1>9. /\ executed' \in [Thread -> Nat]
      /\ \A t \in Thread : /\ executed[t] > 0 => executed'[t] > 0
                           /\ id = CallId(t) => executed'[t] > 0
  BY <1>2, <1>3, <1>8, ExecutedTyped
<1>10. Settled(h, c) => Settled(h, d)
  BY <1>2, <1>3, <1>7 DEF Settled
<1>11. ASSUME NEW t \in Thread, Awaited(t, c) PROVE Next_held(t, h, d)
  <2>1. c.requests = <<CallId(t)>> /\ c.answers = << >>
    BY <1>3, <1>11 DEF Awaited
  <2>2. d.requests = << >> /\ id = CallId(t) /\ Len(d.answers) = 1 /\ Head(d.answers) = a
    BY <1>7, <2>1
  <2>3. QED
    BY <1>2, <1>5, <1>9, <2>2 DEF Next_held
<1>12. late' \in [Thread -> Nat]
  BY <1>2 DEF TypeOK
<1>13. QED
  BY <1>2, <1>4, <1>6, <1>7, <1>9, <1>10, <1>11, <1>12, PutStep DEF c

\* A connection ends before its requests are answered.
LEMMA PeerClosesStep ==
  ASSUME Parts, NEW h \in Host, PeerCloses(h)
  PROVE  Parts'
<1>1. PICK k \in Connections(h) :
        /\ Put(h, k, [Connection(h, k) EXCEPT !.open = FALSE, !.requests = << >>])
        /\ Left(h, Connection(h, k))
  BY DEF PeerCloses
<1> DEFINE c == Connection(h, k)
           d == [c EXCEPT !.open = FALSE, !.requests = << >>]
<1>2. TypeOK /\ Fault /\ UNCHANGED <<cache, total, executed, lost, world>>
  BY DEF Parts, PeerCloses
<1>3. c \in PoolConnection(h)
  BY <1>2, ConnectionTyped
<1>4. late' \in [Thread -> Nat]
  BY <1>1, <1>2, <1>3, LeftTyped
<1>5. executed' \in [Thread -> Nat] /\ faults' \in 0..MaxFaults
  <2>1. executed \in [Thread -> Nat] /\ faults \in 0..MaxFaults
    BY <1>2 DEF TypeOK
  <2>2. QED
    BY <1>2, <2>1, Numbers DEF Fault
<1>6. Put(h, k, d)
  BY <1>1
<1> HIDE DEF c
<1>7. d \in PoolConnection(h) /\ d.requests = << >> /\ d.answers = c.answers /\ d.strayed = c.strayed
  <2>1. << >> \in Seq(Request)
    OBVIOUS
  <2>2. QED
    BY <1>3, <2>1 DEF PoolConnection
<1> HIDE DEF d
<1>8. Settled(h, c) => Settled(h, d)
  BY <1>7 DEF Settled
<1>9. ASSUME NEW t \in Thread, Holds(t, h), Awaited(t, c) PROVE Settled(h, d) \/ Next_held(t, h, d)
  BY <1>2, <1>7, <1>9 DEF Awaited, Own, Settled, Next_held, Holds
<1>10. \A t \in Thread : executed[t] > 0 => executed'[t] > 0
  BY <1>2
<1>11. QED
  BY <1>2, <1>4, <1>5, <1>6, <1>7, <1>8, <1>9, <1>10, PutStep DEF c

\* An answer comes that was another client's.
LEMMA AnswerAstrayStep ==
  ASSUME Parts, NEW h \in Host, AnswerAstray(h)
  PROVE  Parts'
<1> DEFINE a == [bytes |-> 1, of |-> None, data |-> "sum"]
<1>1. PICK k \in Connections(h) :
        Put(h, k, [Connection(h, k) EXCEPT !.strayed = TRUE, !.answers = Append(@, a)])
  BY DEF AnswerAstray
<1> DEFINE c == Connection(h, k)
           d == [c EXCEPT !.strayed = TRUE, !.answers = Append(c.answers, a)]
<1>2. TypeOK /\ Fault /\ h # Registry /\ UNCHANGED <<cache, total, executed, late, lost, world>>
  BY DEF Parts, AnswerAstray
<1>3. c \in PoolConnection(h)
  BY <1>2, ConnectionTyped
<1>4. a \in Answer(h)
  BY <1>2 DEF Answer
<1>5. /\ executed' \in [Thread -> Nat] /\ late' \in [Thread -> Nat] /\ faults' \in 0..MaxFaults
  <2>1. executed \in [Thread -> Nat] /\ late \in [Thread -> Nat] /\ faults \in 0..MaxFaults
    BY <1>2 DEF TypeOK
  <2>2. QED
    BY <1>2, <2>1, Numbers DEF Fault
<1>6. Put(h, k, d)
  BY <1>1
<1> HIDE DEF c, a
<1>7. d \in PoolConnection(h) /\ d.strayed
  <2>1. c.answers \in Seq(Answer(h))
    BY <1>3 DEF PoolConnection
  <2>2. Append(c.answers, a) \in Seq(Answer(h))
    BY <1>4, <2>1
  <2>3. QED
    BY <1>3, <2>2 DEF PoolConnection
<1> HIDE DEF d
<1>8. Settled(h, d)
  BY <1>2, <1>7 DEF Settled
<1>9. \A t \in Thread : executed[t] > 0 => executed'[t] > 0
  BY <1>2
<1>10. QED
  BY <1>2, <1>5, <1>6, <1>7, <1>8, <1>9, PutStep

\* steps after which every thread and every connection is what it was
LEMMA QuietStep ==
  ASSUME Parts, UNCHANGED <<thread, total, idle, lost>>, RestTyped', CacheInv',
         \A t \in Thread : executed[t] > 0 => executed'[t] > 0,
         \A t \in Thread : Aged(t)',
         \A t \in Thread : /\ thread[t].at = "receive" /\ thread[t].host = Registry
                           /\ thread[t].conn.answers # << >>
                           => \A e \in Endpoint : unlisted[e] = 0 => unlisted'[e] = 0
  PROVE  Parts'
<1>1. TypeOK
  BY DEF Parts
<1>2. TypeOK'
  <2>1. ThreadsTyped' /\ IdleTyped'
    BY <1>1 DEF TypeOK, ThreadsTyped, IdleTyped
  <2>2. QED
    BY <2>1, PartsOfType DEF ThreadsTyped, IdleTyped, RestTyped, TypeOK
<1>3. ASSUME NEW t \in Thread PROVE ThreadInv(t)'
  <2>1. Exchange(t)'
    <3>1. CASE thread[t].at \in {"send", "receive"} /\ ~Settled(thread[t].host, thread[t].conn)
      <4> DEFINE c == thread[t].conn
                 h == thread[t].host
      <4>1. thread[t].at = "receive" /\ Awaited(t, c)
        BY <3>1 DEF Parts, ThreadInv, Exchange
      <4>2. c \in PoolConnection(h)
        BY <1>1, <3>1, Fields, Place
      <4>3. CASE c.requests = <<CallId(t)>> /\ c.answers = << >>
        BY <4>1, <4>3 DEF Exchange, Awaited, CallId
      <4>4. CASE c.requests = << >> /\ Len(c.answers) = 1 /\ Own(t, Head(c.answers))
        <5>1. c.answers # << >> /\ Head(c.answers) \in Answer(h)
          <6>1. c.answers \in Seq(Answer(h))
            BY <4>2 DEF PoolConnection
          <6>2. QED
            BY <4>4, <6>1
        <5>2. Own(t, Head(c.answers))'
          <6>1. CASE h = Registry
            <7>1. Head(c.answers).endpoints \subseteq Endpoint
              BY <5>1, <6>1 DEF Answer
            <7>2. \A e \in Head(c.answers).endpoints : unlisted[e] = 0
              BY <4>4, <6>1 DEF Own
            <7>3. \A e \in Head(c.answers).endpoints : unlisted'[e] = 0
              BY <4>1, <5>1, <6>1, <7>1, <7>2
            <7>4. QED
              BY <6>1, <7>3 DEF Own
          <6>2. CASE h # Registry
            BY <4>4, <6>2 DEF Own, CallId
          <6>3. QED
            BY <6>1, <6>2
        <5>3. QED
          BY <4>1, <4>4, <5>2 DEF Exchange, Awaited
      <4>5. QED
        BY <4>1, <4>3, <4>4 DEF Awaited
    <3>2. CASE thread[t].at \notin {"send", "receive"} \/ Settled(thread[t].host, thread[t].conn)
      BY <3>2 DEF Exchange, Settled
    <3>3. QED
      BY <3>1, <3>2
  <2>2. OwnResult(t)'
    BY DEF Parts, ThreadInv, OwnResult, CallId
  <2>3. QED
    BY <2>1, <2>2 DEF ThreadInv
<1>4. ASSUME NEW h \in Host PROVE Counted(h)' /\ IdleSettled(h)'
  BY HostKept DEF Parts, Holds
<1>5. QED
  BY <1>2, <1>3, <1>4 DEF Parts

\* A server executes a request whose connection has ended.
LEMMA LateExecutionStep ==
  ASSUME Parts, NEW t \in Thread, LateExecution(t)
  PROVE  Parts'
<1>1. /\ TypeOK /\ late[t] > 0 /\ late' = [late EXCEPT ![t] = @ - 1] /\ executed' = [executed EXCEPT ![t] = @ + 1]
      /\ UNCHANGED <<cache, total, idle, thread, faults, lost, world>>
  BY DEF Parts, LateExecution
<1>2. executed \in [Thread -> Nat] /\ late \in [Thread -> Nat]
  BY <1>1 DEF TypeOK
<1>3. /\ executed' \in [Thread -> Nat] /\ late' \in [Thread -> Nat]
      /\ \A u \in Thread : executed[u] > 0 => executed'[u] > 0
  BY <1>1, <1>2
<1>4. RestTyped' /\ CacheInv'
  BY <1>1, <1>3 DEF Parts, TypeOK, RestTyped, CacheInv, world
<1>5. \A u \in Thread : Aged(u)'
  BY <1>1 DEF Parts, ThreadInv, Aged, world
<1>6. QED
  BY <1>1, <1>3, <1>4, <1>5, QuietStep DEF world

\* SIGPIPE kills the client.
LEMMA BrokenPipeStep ==
  ASSUME Parts, NEW t \in Thread, BrokenPipe(t)
  PROVE  Parts'
<1>1. /\ TypeOK /\ alive' = FALSE
      /\ UNCHANGED <<cache, total, idle, thread, executed, late, faults, lost, listed, changes, unlisted>>
  BY DEF Parts, BrokenPipe
<1>2. RestTyped' /\ CacheInv'
  BY <1>1 DEF Parts, TypeOK, RestTyped, CacheInv
<1>3. \A u \in Thread : Aged(u)'
  BY <1>1 DEF Parts, ThreadInv, Aged
<1>4. QED
  BY <1>1, <1>2, <1>3, QuietStep

\* The registry lists other endpoints than before.
LEMMA ChangeStep ==
  ASSUME Parts, Change
  PROVE  Parts'
<1>1. PICK new \in SUBSET Endpoint :
        /\ listed' = new
        /\ unlisted' = [e \in Endpoint |-> IF e \in new \union listed THEN 0 ELSE unlisted[e]]
  BY DEF Change
<1>2. /\ TypeOK /\ changes < MaxChanges /\ changes' = changes + 1
      /\ UNCHANGED <<cache, total, idle, thread, executed, late, alive, faults, lost>>
  BY DEF Parts, Change
<1>3. /\ unlisted \in [Endpoint -> 0..(Ttl + 1)] /\ 0 \in 0..(Ttl + 1)
      /\ \A t \in Thread : thread[t].endpoints \subseteq Endpoint
      /\ cache.endpoints \subseteq Endpoint /\ cache.age \in 0..(Ttl + 1)
  <2>1. \A t \in Thread : thread[t].endpoints \subseteq Endpoint
    BY <1>2, Fields
  <2>2. unlisted \in [Endpoint -> 0..(Ttl + 1)] /\ cache \in [endpoints : SUBSET Endpoint, age : 0..(Ttl + 1)]
    BY <1>2 DEF TypeOK
  <2>3. QED
    BY <2>1, <2>2, Numbers
<1>4. \A e \in Endpoint : unlisted'[e] = unlisted[e] \/ unlisted'[e] = 0
  BY <1>1
<1>5. RestTyped'
  <2>1. changes' \in 0..MaxChanges
    BY <1>2, Numbers DEF TypeOK
  <2>2. unlisted' \in [Endpoint -> 0..(Ttl + 1)]
    BY <1>1, <1>3
  <2>3. QED
    BY <1>1, <1>2, <2>1, <2>2 DEF TypeOK, RestTyped
<1>6. CacheInv'
  <2>1. \A e \in listed' : unlisted'[e] = 0
    BY <1>1
  <2>2. cache.age <= Ttl => \A e \in cache.endpoints : unlisted'[e] <= cache.age
    BY <1>3, <1>4 DEF Parts, CacheInv
  <2>3. QED
    BY <1>2, <2>1, <2>2 DEF CacheInv
<1>7. ASSUME NEW t \in Thread PROVE Aged(t)'
  <2>1. Aged(t) /\ thread' = thread /\ 0 <= Ttl
    BY <1>2, Numbers DEF Parts, ThreadInv
  <2>2. QED
    BY <1>3, <1>4, <2>1 DEF Aged
<1>8. QED
  BY <1>2, <1>4, <1>5, <1>6, <1>7, QuietStep

\* Ages stop just above service_cache_ttl.
LEMMA OlderTyped ==
  ASSUME NEW age \in 0..(Ttl + 1)
  PROVE  /\ Older(age) \in 0..(Ttl + 1)
         /\ Older(age) <= Ttl => age <= Ttl /\ Older(age) = age + 1
BY Numbers DEF Older

\* A tick: all ages grow alike.
LEMMA TickStep ==
  ASSUME Parts, Tick
  PROVE  Parts'
<1>1. /\ TypeOK /\ \A t \in Thread : Prompt(t)
      /\ cache' = [cache EXCEPT !.age = Older(@)]
      /\ unlisted' = [e \in Endpoint |-> IF e \in listed THEN 0 ELSE Older(unlisted[e])]
      /\ UNCHANGED <<total, idle, thread, listed, executed, late, alive, faults, changes, lost>>
  BY DEF Parts, Tick
<1>2. /\ unlisted \in [Endpoint -> 0..(Ttl + 1)] /\ 0 \in 0..(Ttl + 1) /\ listed \subseteq Endpoint
      /\ cache \in [endpoints : SUBSET Endpoint, age : 0..(Ttl + 1)]
  BY <1>1, Numbers DEF TypeOK
<1>3. /\ cache' \in [endpoints : SUBSET Endpoint, age : 0..(Ttl + 1)]
      /\ cache'.endpoints = cache.endpoints /\ cache'.age = Older(cache.age)
  <2>1. cache.age \in 0..(Ttl + 1)
    BY <1>2
  <2>2. Older(cache.age) \in 0..(Ttl + 1)
    BY <2>1, OlderTyped
  <2>3. QED
    BY <1>1, <1>2, <2>2
<1>4. unlisted' \in [Endpoint -> 0..(Ttl + 1)]
  <2>1. ASSUME NEW e \in Endpoint PROVE Older(unlisted[e]) \in 0..(Ttl + 1)
    <3>1. unlisted[e] \in 0..(Ttl + 1)
      BY <1>2
    <3>2. QED
      BY <3>1, OlderTyped
  <2>2. QED
    BY <1>1, <1>2, <2>1
<1>5. RestTyped'
  BY <1>1, <1>3, <1>4 DEF TypeOK, RestTyped
<1>6. CacheInv'
  <2>1. \A e \in listed' : unlisted'[e] = 0
    BY <1>1, <1>2
  <2>2. ASSUME cache'.age <= Ttl, NEW e \in cache'.endpoints PROVE unlisted'[e] <= cache'.age
    <3>1. e \in Endpoint /\ e \in cache.endpoints /\ cache.age \in 0..(Ttl + 1) /\ unlisted[e] \in 0..(Ttl + 1)
      BY <1>2, <1>3
    <3>2. cache.age <= Ttl /\ cache'.age = cache.age + 1
      BY <1>3, <2>2, <3>1, OlderTyped
    <3>3. unlisted[e] <= cache.age
      BY <3>1, <3>2 DEF Parts, CacheInv
    <3>4. unlisted'[e] = 0 \/ unlisted'[e] = Older(unlisted[e])
      BY <1>1, <3>1
    <3>5. Older(unlisted[e]) = unlisted[e] + 1
      BY <3>1, <3>2, <3>3, Numbers DEF Older
    <3>6. QED
      BY <3>1, <3>2, <3>3, <3>4, <3>5
  <2>3. QED
    BY <2>1, <2>2 DEF CacheInv
<1>7. ASSUME NEW t \in Thread PROVE Aged(t)'
  BY <1>1 DEF Aged, Prompt
<1>8. ASSUME NEW t \in Thread, thread[t].at = "receive" PROVE thread[t].conn.answers = << >>
  BY <1>1, <1>8 DEF Prompt
<1>9. QED
  BY <1>1, <1>5, <1>6, <1>7, <1>8, QuietStep

-----------------------------------------------------------------------------
(* Every step.                                                              *)

\* a step of the client, in call() or while it waits in acquire() or receive()
LEMMA ThreadStep ==
  ASSUME Parts, NEW t \in Thread, Steps(t)
  PROVE  Parts'
BY DiscoverStep, UpdateStep, SelectStep, AcquireIdleStep, AcquireNewStep, AcquireFailsStep, SendStep, SendFailsStep,
   ReceiveEndpointsStep, ReceiveResultStep DEF Steps

\* Nothing happens.
LEMMA StutterStep ==
  ASSUME Parts, UNCHANGED vars
  PROVE  Parts'
<1>1. RestTyped' /\ CacheInv'
  BY DEF Parts, TypeOK, RestTyped, CacheInv, vars
<1>2. \A t \in Thread : Aged(t)'
  BY DEF Parts, ThreadInv, Aged, vars
<1>3. QED
  BY <1>1, <1>2, QuietStep DEF vars

\* Every step preserves the parts of the invariant.
LEMMA Step == Parts /\ [Next]_vars => Parts'
<1> SUFFICES ASSUME Parts, [Next]_vars PROVE Parts'
  OBVIOUS
<1>1. ASSUME NEW t \in Thread, Call(t) \/ Steps(t) \/ BrokenPipe(t) \/ LateExecution(t) PROVE Parts'
  BY <1>1, CallStep, ThreadStep, BrokenPipeStep, LateExecutionStep
<1>2. ASSUME NEW h \in Host, PeerCloses(h) \/ AnswerAstray(h) PROVE Parts'
  BY <1>2, PeerClosesStep, AnswerAstrayStep
<1>3. CASE Served
  BY <1>3, RegistryAnswersStep, ServerAnswersStep DEF Served
<1>4. CASE Change
  BY <1>4, ChangeStep
<1>5. CASE Tick
  BY <1>5, TickStep
<1>6. CASE UNCHANGED vars
  BY <1>6, StutterStep
<1>7. QED
  BY <1>1, <1>2, <1>3, <1>4, <1>5, <1>6 DEF Next

\* They hold when the client begins.
LEMMA InitParts == Init => Parts
<1> SUFFICES ASSUME Init PROVE Parts
  OBVIOUS
<1>1. ASSUME NEW t \in Thread
      PROVE  /\ thread[t] = Idle(0) /\ thread[t] \in ThreadRecord(t, Registry)
             /\ thread[t].conn = None /\ thread[t].result = None /\ thread[t].host = Registry
             /\ thread[t].at = "idle"
  <2>1. 0 \in 0..MaxCalls[t]
    BY ClientAssumption
  <2>2. thread[t] = Idle(0) /\ Idle(0).at = "idle"
    BY DEF Init, Idle
  <2>3. QED
    BY <2>1, <2>2, IdleRecord
<1>2. TypeOK
  <2>1. ThreadsTyped
    <3>1. thread = [t \in Thread |-> thread[t]]
      BY DEF Init
    <3>2. \A t \in Thread : Placed(thread[t])
      BY <1>1 DEF Placed
    <3>3. QED
      BY <1>1, <3>1, <3>2, Numbers DEF ThreadsTyped
  <2>2. IdleTyped
    <3>1. \A h \in Host : idle[h] = << >> /\ << >> \in Seq(PoolConnection(h))
      BY DEF Init
    <3>2. idle = [h \in Host |-> idle[h]]
      BY DEF Init
    <3>3. QED
      BY <3>1, <3>2 DEF IdleTyped
  <2>3. RestTyped
    <3>1. /\ 0 \in 0..(Ttl + 1) /\ Ttl + 1 \in 0..(Ttl + 1) /\ 0 \in 0..MaxConnections
          /\ 0 \in 0..MaxFaults /\ 0 \in 0..MaxChanges
      BY Numbers
    <3>2. QED
      BY <3>1 DEF Init, RestTyped
  <2>4. QED
    BY <2>1, <2>2, <2>3, PartsOfType
<1>3. CacheInv
  BY DEF Init, CacheInv
<1>4. ASSUME NEW h \in Host PROVE Counted(h) /\ IdleSettled(h)
  <2>1. Holders(h) = {}
    BY <1>1 DEF Holders, Holds
  <2>2. Cardinality(Holders(h)) = 0
    BY <2>1, FS_EmptySet
  <2>3. total[h] = 0 /\ idle[h] = << >> /\ lost = 0
    BY DEF Init
  <2>4. QED
    BY <2>2, <2>3 DEF Counted, IdleSettled
<1>5. ASSUME NEW t \in Thread PROVE ThreadInv(t)
  BY <1>1 DEF ThreadInv, Exchange, OwnResult, Aged
<1>6. QED
  BY <1>2, <1>3, <1>4, <1>5 DEF Parts

-----------------------------------------------------------------------------
(* Attempts: the executions of a call, past and to come, counted.           *)

Due(t) == IF Unsent(t) THEN 1 ELSE 0

\* The place of a request, taken apart.
LEMMA SlotParts ==
  ASSUME NEW s
  PROVE  s \in Slots <=> \E h \in Endpoint : \E k \in Connections(h) :
                           \E i \in DOMAIN Connection(h, k).requests : s = <<h, k, i>>
BY DEF Slots

\* A request at a place is that of a thread, with the number of a call.
LEMMA SlotTyped ==
  ASSUME TypeOK, NEW h \in Endpoint, NEW k \in Connections(h),
         NEW i \in DOMAIN Connection(h, k).requests
  PROVE  /\ Asks(<<h, k, i>>) = Connection(h, k).requests[i]
         /\ Connection(h, k).requests[i] \in Thread \X Nat
<1>1. h \in Host
  BY Numbers
<1>2. Connection(h, k).requests \in Seq(Thread \X Nat)
  BY <1>1, ConnectionTyped DEF PoolConnection, Request
<1>3. QED
  BY <1>2 DEF Asks

\* A request of a call that is there is one of its thread.
LEMMA CallIds ==
  ASSUME NEW t, NEW u, CallId(t) = CallId(u)
  PROVE  t = u
BY DEF CallId

\* The terms of the count are numbers.
LEMMA CountNumbers ==
  ASSUME TypeOK, NEW t \in Thread, IsFiniteSet(Unanswered(t))
  PROVE  /\ executed[t] \in Nat /\ late[t] \in Nat /\ Cardinality(Unanswered(t)) \in Nat
         /\ thread[t].attempt \in Nat /\ Due(t) \in {0, 1}
<1>1. executed[t] \in Nat /\ late[t] \in Nat
  BY DEF TypeOK
<1>2. thread[t].attempt \in Nat
  BY Fields, Numbers
<1>3. QED
  BY <1>1, <1>2, FS_CardinalityType DEF Due

\* A set that maps one to one into a finite one is not larger.
LEMMA NotMore ==
  ASSUME NEW S, NEW T, IsFiniteSet(T), NEW f \in [S -> T], \A x, y \in S : f[x] = f[y] => x = y
  PROVE  /\ IsFiniteSet(S) /\ Cardinality(S) <= Cardinality(T)
         /\ Cardinality(S) \in Nat /\ Cardinality(T) \in Nat
<1>1. f \in Injection(S, T)
  BY DEF Injection, IsInjective
<1>2. IsFiniteSet(S) /\ Cardinality(S) <= Cardinality(T)
  BY <1>1, FS_Injection
<1>3. QED
  BY <1>2, FS_CardinalityType

\* what a step leaves of the requests: some of those that were there, each once
NoneAdded ==
  \E f \in [Slots' -> Slots] : /\ \A x, y \in Slots' : f[x] = f[y] => x = y
                               /\ \A s \in Slots' : Asks(s)' = Asks(f[s])

\* They are not more of any call.
LEMMA NoneAddedCount ==
  ASSUME NoneAdded, NEW t \in Thread, CallId(t)' = CallId(t), IsFiniteSet(Unanswered(t))
  PROVE  /\ IsFiniteSet(Unanswered(t)') /\ Cardinality(Unanswered(t)') <= Cardinality(Unanswered(t))
<1>1. PICK f \in [Slots' -> Slots] : /\ \A x, y \in Slots' : f[x] = f[y] => x = y
                                     /\ \A s \in Slots' : Asks(s)' = Asks(f[s])
  BY DEF NoneAdded
<1> DEFINE S == Unanswered(t)'
           T == Unanswered(t)
           g == [s \in S |-> f[s]]
<1>2. \A s \in S : s \in Slots' /\ f[s] \in T
  BY <1>1 DEF Unanswered
<1> HIDE DEF S, T
<1>3. g \in [S -> T] /\ \A x, y \in S : g[x] = g[y] => x = y
  BY <1>1, <1>2
<1> HIDE DEF g
<1>4. IsFiniteSet(T)
  BY DEF T
<1>5. IsFiniteSet(S) /\ Cardinality(S) <= Cardinality(T)
  BY <1>3, <1>4, NotMore
<1>6. QED
  BY <1>5 DEF S, T

\* The servers' connections carry the same requests as before.
LEMMA SameRequests ==
  ASSUME \A h \in Endpoint : Connections(h)' = Connections(h),
         \A h \in Endpoint : \A k \in Connections(h) : Connection(h, k).requests' = Connection(h, k).requests
  PROVE  NoneAdded
<1>1. ASSUME NEW s \in Slots' PROVE s \in Slots /\ Asks(s)' = Asks(s)
  <2>1. PICK h \in Endpoint : \E k \in Connections(h)' : \E i \in DOMAIN Connection(h, k).requests' : s = <<h, k, i>>
    BY <1>1 DEF Slots
  <2>2. PICK k \in Connections(h)' : \E i \in DOMAIN Connection(h, k).requests' : s = <<h, k, i>>
    BY <2>1
  <2>3. PICK i \in DOMAIN Connection(h, k).requests' : s = <<h, k, i>>
    BY <2>2
  <2>4. k \in Connections(h) /\ i \in DOMAIN Connection(h, k).requests
    BY <2>3
  <2>5. s \in Slots
    BY <2>3, <2>4, SlotParts
  <2>6. Asks(s)' = Connection(h, k).requests'[i] /\ Asks(s) = Connection(h, k).requests[i]
    BY <2>3 DEF Asks
  <2>7. QED
    BY <2>4, <2>5, <2>6
<1> DEFINE f == [s \in Slots' |-> s]
<1>2. f \in [Slots' -> Slots] /\ \A x, y \in Slots' : f[x] = f[y] => x = y
  BY <1>1
<1>3. \A s \in Slots' : Asks(s)' = Asks(f[s])
  BY <1>1
<1> HIDE DEF f
<1>4. QED
  BY <1>2, <1>3 DEF NoneAdded

\* The numbers of requests stay below those of the calls.
CallsPast == \A s \in Slots : Asks(s)[2] <= thread[Asks(s)[1]].call
LEMMA CallsPastStep ==
  ASSUME TypeOK, TypeOK', CallsPast, NoneAdded, \A t \in Thread : thread[t].call <= thread'[t].call
  PROVE  CallsPast'
<1>1. PICK f \in [Slots' -> Slots] : \A s \in Slots' : Asks(s)' = Asks(f[s])
  BY DEF NoneAdded
<1>2. ASSUME NEW s \in Slots' PROVE Asks(s)'[2] <= thread'[Asks(s)'[1]].call
  <2>1. f[s] \in Slots /\ Asks(s)' = Asks(f[s])
    BY <1>1
  <2>2. Asks(f[s]) \in Thread \X Nat
    BY <2>1, SlotParts, SlotTyped
  <2>3. PICK u \in Thread, n \in Nat : Asks(f[s]) = <<u, n>>
    BY <2>2
  <2>4. n <= thread[u].call
    BY <2>1, <2>3 DEF CallsPast
  <2>5. thread[u].call \in Nat /\ thread'[u].call \in Nat
    <3>1. thread[u].call \in 0..MaxCalls[u] /\ thread'[u].call \in 0..MaxCalls[u] /\ MaxCalls[u] \in Nat
      BY ClientAssumption DEF TypeOK, ThreadRecord
    <3>2. QED
      BY <3>1
  <2>6. n <= thread'[u].call
    BY <2>4, <2>5
  <2>7. QED
    BY <2>1, <2>3, <2>6
<1>3. QED
  BY <1>2 DEF CallsPast

\* A step that adds no request of u, nor an execution to come, and counts the
\* attempt that it makes due.
LEMMA AttemptedStep ==
  ASSUME TypeOK, TypeOK', NEW u \in Thread, Attempted(u), CallId(u)' = CallId(u), NoneAdded,
         executed'[u] + late'[u] <= executed[u] + late[u],
         Due(u)' + thread[u].attempt <= Due(u) + thread'[u].attempt,
         Discovers(u)' => thread'[u].attempt = 0 /\ thread'[u].endpoints = {},
         thread'[u].at \in {"update", "select"} => thread'[u].attempt = 0
  PROVE  Attempted(u)'
<1>1. /\ IsFiniteSet(Unanswered(u))
      /\ executed[u] + late[u] + Cardinality(Unanswered(u)) + Due(u) <= thread[u].attempt
  BY DEF Attempted, Due
<1>2. IsFiniteSet(Unanswered(u)') /\ Cardinality(Unanswered(u)') <= Cardinality(Unanswered(u))
  BY <1>1, NoneAddedCount
<1>3. /\ executed[u] \in Nat /\ late[u] \in Nat /\ Cardinality(Unanswered(u)) \in Nat
      /\ thread[u].attempt \in Nat /\ Due(u) \in {0, 1}
  BY <1>1, CountNumbers
<1>4. /\ executed'[u] \in Nat /\ late'[u] \in Nat /\ Cardinality(Unanswered(u)') \in Nat
      /\ thread'[u].attempt \in Nat /\ Due(u)' \in {0, 1}
  <2>1. executed'[u] \in Nat /\ late'[u] \in Nat
    BY DEF TypeOK
  <2>2. thread'[u].attempt \in Nat
    BY Numbers DEF TypeOK, ThreadRecord
  <2>3. QED
    BY <1>2, <2>1, <2>2, FS_CardinalityType DEF Due
<1>5. executed'[u] + late'[u] + Cardinality(Unanswered(u)') + Due(u)' <= thread'[u].attempt
  BY <1>1, <1>2, <1>3, <1>4
<1>6. QED
  BY <1>2, <1>5 DEF Attempted, Due

\* all of a thread but its connection and its result
Same(u) ==
  /\ thread'[u].at = thread[u].at /\ thread'[u].host = thread[u].host /\ thread'[u].call = thread[u].call
  /\ thread'[u].attempt = thread[u].attempt /\ thread'[u].endpoints = thread[u].endpoints

\* what does not concern a thread
LEMMA AttemptedKept ==
  ASSUME TypeOK, TypeOK', NEW u \in Thread, Attempted(u), Same(u), NoneAdded,
         executed'[u] + late'[u] <= executed[u] + late[u]
  PROVE  Attempted(u)'
<1>1. CallId(u)' = CallId(u) /\ Due(u)' = Due(u) /\ (Discovers(u)' <=> Discovers(u))
  BY DEF Same, CallId, Due, Unsent, Discovers
<1>2. Due(u) \in {0, 1} /\ thread[u].attempt \in Nat /\ thread'[u].attempt = thread[u].attempt
  BY CountNumbers DEF Attempted, Same
<1>3. QED
  BY <1>1, <1>2, AttemptedStep DEF Attempted, Same

\* What is counted, by its parts.
LEMMA PartsOfAttempts == Attempts <=> CallsPast /\ \A t \in Thread : Attempted(t)
BY DEF Attempts, CallsPast

\* no connection to a server changes hands, nor does anything on it
LEMMA ServersSame ==
  ASSUME \A h \in Endpoint : idle'[h] = idle[h],
         \A u \in Thread : \A h \in Endpoint :
           (Holds(u, h)' <=> Holds(u, h)) /\ (Holds(u, h) => thread'[u].conn = thread[u].conn)
  PROVE  NoneAdded
<1>1. \A h \in Endpoint : Connections(h)' = Connections(h)
  BY DEF Connections
<1>2. ASSUME NEW h \in Endpoint, NEW k \in Connections(h) PROVE Connection(h, k)' = Connection(h, k)
  <2>1. CASE \E u \in Thread : Holds(u, h) /\ k = <<"lent", u>>
    BY <2>1 DEF Connection
  <2>2. CASE \E i \in DOMAIN idle[h] : k = <<"idle", i>>
    BY <2>2 DEF Connection
  <2>3. QED
    BY <2>1, <2>2 DEF Connections
<1>3. \A h \in Endpoint : \A k \in Connections(h) : Connection(h, k).requests' = Connection(h, k).requests
  BY <1>2
<1>4. QED
  BY <1>1, <1>3, SameRequests


\* a step of t in which it goes on with its call
LEMMA ThreadAttempts ==
  ASSUME Parts, Parts', Attempts, NEW t \in Thread, \A u \in Thread : u # t => thread'[u] = thread[u],
         thread'[t].call = thread[t].call, NoneAdded, UNCHANGED <<executed, late>>,
         Due(t)' + thread[t].attempt <= Due(t) + thread'[t].attempt,
         Discovers(t)' => thread'[t].attempt = 0 /\ thread'[t].endpoints = {},
         thread'[t].at \in {"update", "select"} => thread'[t].attempt = 0
  PROVE  Attempts'
<1>1. TypeOK /\ TypeOK' /\ CallsPast /\ \A u \in Thread : Attempted(u)
  BY PartsOfAttempts DEF Parts
<1>2. CallsPast'
  <2>1. \A u \in Thread : thread[u].call \in Nat /\ thread'[u].call = thread[u].call
    BY <1>1, CallNumbers
  <2>2. \A u \in Thread : thread[u].call <= thread'[u].call
    BY <2>1
  <2>3. QED
    BY <1>1, <2>2, CallsPastStep
<1>3. ASSUME NEW u \in Thread PROVE Attempted(u)'
  <2>1. executed[u] \in Nat /\ late[u] \in Nat /\ executed'[u] + late'[u] <= executed[u] + late[u]
    BY <1>1 DEF TypeOK
  <2>2. CASE u # t
    BY <1>1, <2>1, <2>2, AttemptedKept DEF Same
  <2>3. CASE u = t
    <3>1. CallId(t)' = CallId(t)
      BY DEF CallId
    <3>2. QED
      BY <1>1, <2>1, <2>3, <3>1, AttemptedStep
  <2>4. QED
    BY <2>2, <2>3
<1>4. QED
  BY <1>2, <1>3, PartsOfAttempts DEF Attempts, CallsPast

\* a step of t in which it has no connection, or one to the registry
LEMMA AsideAttempts ==
  ASSUME Parts, Parts', Attempts, NEW t \in Thread, \A u \in Thread : u # t => thread'[u] = thread[u],
         thread'[t].call = thread[t].call, \A h \in Endpoint : idle'[h] = idle[h],
         UNCHANGED <<executed, late>>,
         thread[t].conn = None \/ thread[t].host = Registry,
         thread'[t].conn = None \/ thread'[t].host = Registry,
         Due(t)' + thread[t].attempt <= Due(t) + thread'[t].attempt,
         Discovers(t)' => thread'[t].attempt = 0 /\ thread'[t].endpoints = {},
         thread'[t].at \in {"update", "select"} => thread'[t].attempt = 0
  PROVE  Attempts'
<1>1. \A u \in Thread : \A h \in Endpoint :
        (Holds(u, h)' <=> Holds(u, h)) /\ (Holds(u, h) => thread'[u].conn = thread[u].conn)
  BY Numbers DEF Holds
<1>2. NoneAdded
  BY <1>1, ServersSame
<1>3. QED
  BY <1>2, ThreadAttempts

\* a step that leaves the threads and the connections as they are
LEMMA StillAttempts ==
  ASSUME Parts, Parts', Attempts, UNCHANGED <<thread, idle>>,
         \A u \in Thread : executed'[u] + late'[u] <= executed[u] + late[u]
  PROVE  Attempts'
<1>1. TypeOK /\ TypeOK' /\ CallsPast /\ \A u \in Thread : Attempted(u)
  BY PartsOfAttempts DEF Parts
<1>2. NoneAdded
  BY ServersSame DEF Holds
<1>3. CallsPast'
  <2>1. \A u \in Thread : thread[u].call \in Nat /\ thread'[u].call = thread[u].call
    BY <1>1, CallNumbers
  <2>2. \A u \in Thread : thread[u].call <= thread'[u].call
    BY <2>1
  <2>3. QED
    BY <1>1, <1>2, <2>2, CallsPastStep
<1>4. \A u \in Thread : Attempted(u)'
  BY <1>1, <1>2, AttemptedKept DEF Same
<1>5. QED
  BY <1>3, <1>4 DEF Attempts, CallsPast

\* one thread moves
LEMMA OneThread ==
  ASSUME TypeOK, NEW t \in Thread, NEW r, Becomes(t, r)
  PROVE  thread'[t] = r /\ \A u \in Thread : u # t => thread'[u] = thread[u]
BY DEF TypeOK, Becomes

\* discoverService(): no attempt has been made.
LEMMA DiscoverAttempts ==
  ASSUME Parts, Parts', Attempts, NEW t \in Thread, DiscoverService(t)
  PROVE  Attempts'
<1>1. /\ TypeOK /\ thread[t].at = "look up" /\ thread[t].conn = None /\ thread[t] \in ThreadRecord(t, thread[t].host)
      /\ UNCHANGED <<total, idle, executed, late, faults, lost, world>>
  BY Place DEF Parts, DiscoverService, At
<1>2. thread[t].attempt = 0 /\ thread[t].endpoints = {}
  BY <1>1 DEF Attempts, Attempted, Discovers
<1>3. PICK r : /\ Becomes(t, r) /\ r.attempt = 0 /\ r.call = thread[t].call /\ r.conn = None
               /\ r.at \in {"select", "discover"}
               /\ r.at = "discover" => r.endpoints = {}
  <2>1. CASE CacheHit
    <3> DEFINE r == [thread[t] EXCEPT !.at = "select", !.endpoints = cache.endpoints]
    <3>1. Becomes(t, r)
      BY <2>1 DEF DiscoverService
    <3>2. r.attempt = 0 /\ r.call = thread[t].call /\ r.conn = None /\ r.at = "select"
      BY <1>1, <1>2 DEF ThreadRecord
    <3> HIDE DEF r
    <3>3. QED
      BY <3>1, <3>2
  <2>2. CASE ~CacheHit
    <3> DEFINE r == [thread[t] EXCEPT !.at = "discover"]
    <3>1. Becomes(t, r)
      BY <2>2 DEF DiscoverService
    <3>2. r.attempt = 0 /\ r.call = thread[t].call /\ r.conn = None /\ r.at = "discover" /\ r.endpoints = {}
      BY <1>1, <1>2 DEF ThreadRecord
    <3> HIDE DEF r
    <3>3. QED
      BY <3>1, <3>2
  <2>3. QED
    BY <2>1, <2>2
<1>4. thread'[t] = r /\ \A u \in Thread : u # t => thread'[u] = thread[u]
  BY <1>1, <1>3, OneThread
<1>5. Due(t)' + thread[t].attempt <= Due(t) + thread'[t].attempt
  <2>1. Due(t) = 0 /\ Due(t)' = 0
    BY <1>1, <1>3, <1>4 DEF Due, Unsent
  <2>2. thread'[t].attempt = 0
    BY <1>3, <1>4
  <2>3. QED
    BY <1>2, <2>1, <2>2
<1>6. QED
  BY <1>1, <1>3, <1>4, <1>5, AsideAttempts DEF Discovers

\* The cache takes what the registry has answered.
LEMMA UpdateAttempts ==
  ASSUME Parts, Parts', Attempts, NEW t \in Thread, UpdateCache(t)
  PROVE  Attempts'
<1> DEFINE r == [thread[t] EXCEPT !.at = "select"]
<1>1. /\ TypeOK /\ thread[t].at = "update" /\ thread[t].conn = None /\ thread[t] \in ThreadRecord(t, thread[t].host)
      /\ Becomes(t, r) /\ UNCHANGED <<total, idle, executed, late, faults, lost, world>>
  BY Place DEF Parts, UpdateCache, At
<1>2. thread[t].attempt = 0
  BY <1>1 DEF Attempts, Attempted
<1>3. r.attempt = 0 /\ r.call = thread[t].call /\ r.conn = None /\ r.at = "select"
  BY <1>1, <1>2 DEF ThreadRecord
<1> HIDE DEF r
<1>4. thread'[t] = r /\ \A u \in Thread : u # t => thread'[u] = thread[u]
  BY <1>1, OneThread
<1>5. Due(t)' + thread[t].attempt <= Due(t) + thread'[t].attempt
  BY <1>1, <1>2, <1>3, <1>4 DEF Due, Unsent
<1>6. QED
  BY <1>1, <1>3, <1>4, <1>5, AsideAttempts DEF Discovers

\* The first attempt is due.
LEMMA SelectAttempts ==
  ASSUME Parts, Parts', Attempts, NEW t \in Thread, SelectEndpoint(t)
  PROVE  Attempts'
<1>1. PICK e \in thread[t].endpoints : Becomes(t, [thread[t] EXCEPT !.at = "call", !.host = e, !.attempt = 1])
  BY DEF SelectEndpoint
<1> DEFINE r == [thread[t] EXCEPT !.at = "call", !.host = e, !.attempt = 1]
<1>2. /\ TypeOK /\ thread[t].at = "select" /\ thread[t].conn = None /\ thread[t] \in ThreadRecord(t, thread[t].host)
      /\ Becomes(t, r) /\ UNCHANGED <<total, idle, executed, late, faults, lost, world>>
  BY <1>1, Place DEF Parts, SelectEndpoint, At
<1>3. thread[t].attempt = 0
  BY <1>2 DEF Attempts, Attempted
<1>4. r.attempt = 1 /\ r.call = thread[t].call /\ r.conn = None /\ r.at = "call"
  BY <1>2, <1>3 DEF ThreadRecord
<1> HIDE DEF r
<1>5. thread'[t] = r /\ \A u \in Thread : u # t => thread'[u] = thread[u]
  BY <1>2, OneThread
<1>6. Due(t)' + thread[t].attempt <= Due(t) + thread'[t].attempt
  BY <1>2, <1>3, <1>4, <1>5 DEF Due, Unsent
<1>7. QED
  BY <1>2, <1>4, <1>5, <1>6, AsideAttempts DEF Discovers

\* what a failed attempt leads to
LEMMA FailedFields ==
  ASSUME TypeOK, NEW t \in Thread, thread[t].at \in {"discover", "call", "send", "receive"}
  PROVE  /\ Failed(t).call = thread[t].call /\ Failed(t).endpoints = thread[t].endpoints
         /\ Failed(t).conn = None /\ Failed(t).result = None
         /\ thread[t].host = Registry \/ thread[t].attempt = Retries =>
              Failed(t).at = "done" /\ Failed(t).attempt = thread[t].attempt
         /\ thread[t].host # Registry /\ thread[t].attempt # Retries =>
              /\ Failed(t).at = "call" /\ Failed(t).attempt = thread[t].attempt + 1
              /\ Failed(t).host = thread[t].host
<1>1. thread[t] \in ThreadRecord(t, thread[t].host) /\ thread[t].result = None
  BY Place
<1>2. CASE thread[t].host = Registry \/ thread[t].attempt = Retries
  BY <1>2 DEF Failed, NextAttempt, Done, Idle
<1>3. CASE thread[t].host # Registry /\ thread[t].attempt # Retries
  BY <1>1, <1>3 DEF Failed, NextAttempt, ThreadRecord
<1>4. QED
  BY <1>2, <1>3

\* A failed attempt leaves nothing due, or makes another one due.
LEMMA FailedDue ==
  ASSUME TypeOK, TypeOK', Attempts, NEW t \in Thread, thread[t].at \in {"discover", "call", "send", "receive"},
         thread'[t] = Failed(t)
  PROVE  /\ Due(t)' + thread[t].attempt <= Due(t) + thread'[t].attempt
         /\ ~Discovers(t)' /\ thread'[t].at \in {"done", "call"}
<1>1. thread[t].attempt \in Nat /\ Due(t) \in {0, 1}
  BY CountNumbers DEF Attempts, Attempted
<1>2. CASE thread[t].host = Registry \/ thread[t].attempt = Retries
  <2>1. thread'[t].at = "done" /\ thread'[t].attempt = thread[t].attempt
    BY <1>2, FailedFields
  <2>2. Due(t)' = 0
    BY <2>1 DEF Due, Unsent
  <2>3. QED
    BY <1>1, <2>1, <2>2 DEF Discovers
<1>3. CASE thread[t].host # Registry /\ thread[t].attempt # Retries
  <2>1. thread'[t].at = "call" /\ thread'[t].attempt = thread[t].attempt + 1
    BY <1>3, FailedFields
  <2>2. Due(t)' = 1
    BY <2>1 DEF Due, Unsent
  <2>3. QED
    BY <1>1, <2>1, <2>2 DEF Discovers
<1>4. QED
  BY <1>2, <1>3

\* acquire() throws.
LEMMA AcquireFailsAttempts ==
  ASSUME Parts, Parts', Attempts, NEW t \in Thread, AcquireFails(t)
  PROVE  Attempts'
<1>0. TypeOK /\ TypeOK' /\ thread[t].at \in {"discover", "call"}
  BY DEF Parts, AcquireFails, Acquiring, At
<1>1. /\ TypeOK /\ TypeOK' /\ thread[t].at \in {"discover", "call"} /\ thread[t].conn = None
      /\ Becomes(t, Failed(t)) /\ UNCHANGED <<cache, total, idle, executed, late, lost, world>>
  BY <1>0, Place DEF AcquireFails
<1>2. thread'[t] = Failed(t) /\ \A u \in Thread : u # t => thread'[u] = thread[u]
  BY <1>1, OneThread
<1>3. /\ thread'[t].call = thread[t].call /\ thread'[t].conn = None
  BY <1>1, <1>2, FailedFields
<1>4. /\ Due(t)' + thread[t].attempt <= Due(t) + thread'[t].attempt
      /\ ~Discovers(t)' /\ thread'[t].at \in {"done", "call"}
  BY <1>1, <1>2, FailedDue
<1>5. QED
  BY <1>1, <1>2, <1>3, <1>4, AsideAttempts

\* of a connection, what its server has to answer
Alike(c, d) == c.requests = d.requests

\* Each connection to a server is a new one, or one that was there, wherever it
\* was kept.
LEMMA Moved ==
  ASSUME NEW p,
         \A h \in Endpoint : \A k \in Connections(h)' :
           \/ Connection(h, k).requests' = << >>
           \/ p[<<h, k>>] \in Connections(h) /\ Alike(Connection(h, k)', Connection(h, p[<<h, k>>])),
         \A h \in Endpoint : \A k, l \in Connections(h)' : p[<<h, k>>] = p[<<h, l>>] => k = l
  PROVE  NoneAdded
<1> DEFINE f == [s \in Slots' |-> <<s[1], p[<<s[1], s[2]>>], s[3]>>]
<1>1. ASSUME NEW s \in Slots'
      PROVE  /\ f[s] \in Slots /\ Asks(s)' = Asks(f[s])
             /\ s[1] \in Endpoint /\ s[2] \in Connections(s[1])' /\ s = <<s[1], s[2], s[3]>>
  <2>1. PICK h \in Endpoint : \E k \in Connections(h)' : \E i \in DOMAIN Connection(h, k).requests' : s = <<h, k, i>>
    BY <1>1 DEF Slots
  <2>2. PICK k \in Connections(h)' : \E i \in DOMAIN Connection(h, k).requests' : s = <<h, k, i>>
    BY <2>1
  <2>3. PICK i \in DOMAIN Connection(h, k).requests' : s = <<h, k, i>>
    BY <2>2
  <2>4. Connection(h, k).requests' # << >>
    BY <2>3
  <2>5. p[<<h, k>>] \in Connections(h) /\ Connection(h, k).requests' = Connection(h, p[<<h, k>>]).requests
    BY <2>4 DEF Alike
  <2>6. f[s] = <<h, p[<<h, k>>], i>>
    BY <2>3
  <2> HIDE DEF f
  <2>7. f[s] \in Slots
    BY <2>3, <2>5, <2>6, SlotParts
  <2>8. Asks(s)' = Connection(h, k).requests'[i] /\ Asks(f[s]) = Connection(h, p[<<h, k>>]).requests[i]
    BY <2>3, <2>6 DEF Asks
  <2>9. QED
    BY <2>3, <2>5, <2>7, <2>8
<1>2. ASSUME NEW x \in Slots', NEW y \in Slots', f[x] = f[y] PROVE x = y
  <2>1. x[1] = y[1] /\ p[<<x[1], x[2]>>] = p[<<y[1], y[2]>>] /\ x[3] = y[3]
    BY <1>2
  <2>2. x[2] = y[2]
    BY <1>1, <2>1
  <2>3. QED
    BY <1>1, <2>1, <2>2
<1>3. f \in [Slots' -> Slots]
  BY <1>1
<1> HIDE DEF f
<1>4. QED
  BY <1>1, <1>2, <1>3 DEF NoneAdded

\* Where a connection is, and who holds it.
LEMMA ConnectionKinds ==
  ASSUME NEW h
  PROVE  /\ \A k \in Connections(h) :
              \/ \E u \in Thread : k = <<"lent", u>> /\ Holds(u, h) /\ Connection(h, k) = thread[u].conn
              \/ \E i \in DOMAIN idle[h] : k = <<"idle", i>> /\ Connection(h, k) = idle[h][i]
         /\ \A u \in Thread : Holds(u, h) => <<"lent", u>> \in Connections(h) /\ Connection(h, <<"lent", u>>) = thread[u].conn
         /\ \A i \in DOMAIN idle[h] : <<"idle", i>> \in Connections(h) /\ Connection(h, <<"idle", i>>) = idle[h][i]
BY DEF Connections, Connection

\* The first of a sequence, and the others.
LEMMA TailPlaces ==
  ASSUME NEW S, NEW s \in Seq(S), s # << >>
  PROVE  /\ Head(s) = s[1] /\ 1 \in DOMAIN s
         /\ \A i \in DOMAIN Tail(s) : i \in Nat /\ i + 1 \in DOMAIN s /\ i + 1 # 1 /\ Tail(s)[i] = s[i + 1]
OBVIOUS

\* acquire() lends an idle connection.
LEMMA AcquireIdleAttempts ==
  ASSUME Parts, Parts', Attempts, NEW t \in Thread, AcquireIdle(t)
  PROVE  Attempts'
<1>0. PICK h \in Host : h = thread[t].host
  BY Place DEF Parts
<1> DEFINE c == Head(idle[h])
           r == [thread[t] EXCEPT !.at = "send", !.conn = c]
<1>1. /\ TypeOK /\ thread[t].at \in {"discover", "call"} /\ idle[h] # << >>
      /\ Becomes(t, r) /\ idle' = [idle EXCEPT ![h] = Tail(idle[h])]
      /\ UNCHANGED <<cache, total, executed, late, faults, lost, world>>
  BY <1>0 DEF Parts, AcquireIdle, Acquiring, At
<1>2. /\ thread[t] \in ThreadRecord(t, h) /\ thread[t].conn = None
      /\ thread[t].at = "discover" => h = Registry
      /\ thread[t].at = "call" => h # Registry
  BY <1>0, <1>1, Place
<1>3. /\ idle'[h] = Tail(idle[h]) /\ \A g \in Host : g # h => idle'[g] = idle[g]
      /\ idle[h] \in Seq(PoolConnection(h))
  BY <1>1 DEF TypeOK
<1>4. /\ c = idle[h][1] /\ 1 \in DOMAIN idle[h]
      /\ \A i \in DOMAIN idle'[h] : i \in Nat /\ i + 1 \in DOMAIN idle[h] /\ i + 1 # 1 /\ idle'[h][i] = idle[h][i + 1]
  <2>1. idle[h] \in Seq(PoolConnection(h)) /\ idle[h] # << >>
    BY <1>1, <1>3
  <2>2. QED
    BY <1>3, <2>1, TailPlaces
<1>5. c # None
  <2>1. c \in PoolConnection(h)
    BY <1>3, <1>4
  <2>2. QED
    BY <2>1, NoneAssumption
<1> HIDE DEF c
<1>6. /\ r.at = "send" /\ r.conn = c /\ r.host = h /\ r.call = thread[t].call
      /\ r.attempt = thread[t].attempt /\ r.endpoints = thread[t].endpoints
  BY <1>2 DEF ThreadRecord
<1> HIDE DEF r
<1>7. thread'[t] = r /\ \A u \in Thread : u # t => thread'[u] = thread[u]
  BY <1>1, OneThread
<1>9. Due(t)' + thread[t].attempt <= Due(t) + thread'[t].attempt
  <2>1. Due(t)' = Due(t)
    BY <1>1, <1>2, <1>6, <1>7, <1>0 DEF Due, Unsent
  <2>2. Due(t) \in {0, 1} /\ thread[t].attempt \in Nat
    BY <1>1, CountNumbers DEF Attempts, Attempted
  <2>3. QED
    BY <1>6, <1>7, <2>1, <2>2
<1>10. CASE h = Registry
  <2>1. thread[t].at = "discover" /\ thread[t].attempt = 0 /\ thread[t].endpoints = {}
    BY <1>1, <1>2, <1>10 DEF Attempts, Attempted, Discovers
  <2>3. \A g \in Endpoint : idle'[g] = idle[g]
    BY <1>3, <1>10, Numbers
  <2>4. QED
    BY <1>1, <1>0, <1>6, <1>7, <1>9, <1>10, <2>1, <2>3, AsideAttempts
<1>11. CASE h # Registry
  <2>0. thread[t].at = "call"
    BY <1>1, <1>2, <1>11
  <2> DEFINE p == [x \in {<<h, k>> : k \in Connections(h)'} \union
                         UNION {{<<g, k>> : k \in Connections(g)'} : g \in Endpoint} |->
                     IF x[1] # h THEN x[2] ELSE IF x[2] = <<"lent", t>> THEN <<"idle", 1>>
                     ELSE IF x[2][1] = "idle" THEN <<"idle", x[2][2] + 1>> ELSE x[2]]
  <2>1. \A g \in Endpoint : \A k \in Connections(g)' :
          p[<<g, k>>] = IF g # h THEN k ELSE IF k = <<"lent", t>> THEN <<"idle", 1>>
                        ELSE IF k[1] = "idle" THEN <<"idle", k[2] + 1>> ELSE k
    OBVIOUS
  <2> HIDE DEF p
  <2>2. \A u \in Thread : \A g \in Endpoint : Holds(u, g)' <=> Holds(u, g) \/ (u = t /\ g = h)
    BY <1>2, <1>5, <1>6, <1>7 DEF Holds
  <2>3. ASSUME NEW g \in Endpoint, NEW k \in Connections(g)'
        PROVE  /\ p[<<g, k>>] \in Connections(g) /\ Connection(g, k)' = Connection(g, p[<<g, k>>])
               /\ \/ g # h
                  \/ k = <<"lent", t>> /\ p[<<g, k>>] = <<"idle", 1>>
                  \/ \E i \in Nat : k = <<"idle", i>> /\ p[<<g, k>>] = <<"idle", i + 1>> /\ i + 1 # 1
                  \/ \E u \in Thread : k = <<"lent", u>> /\ p[<<g, k>>] = k
    <3>1. CASE g # h
      <4>1. idle'[g] = idle[g] /\ p[<<g, k>>] = k /\ g \in Host
        BY <1>3, <2>1, <3>1, Numbers
      <4>2. CASE \E u \in Thread : Holds(u, g)' /\ k = <<"lent", u>>
        <5>1. PICK u \in Thread : Holds(u, g)' /\ k = <<"lent", u>>
          BY <4>2
        <5>2. Holds(u, g) /\ u # t
          BY <1>2, <2>2, <3>1, <5>1 DEF Holds
        <5>3. Connection(g, k)' = thread'[u].conn /\ Connection(g, k) = thread[u].conn /\ k \in Connections(g)
          BY <5>1, <5>2 DEF Connection, Connections
        <5>4. QED
          BY <1>7, <3>1, <4>1, <5>2, <5>3
      <4>3. CASE \E i \in DOMAIN idle'[g] : k = <<"idle", i>>
        BY <3>1, <4>1, <4>3 DEF Connection, Connections
      <4>4. QED
        BY <4>2, <4>3 DEF Connections
    <3>2. CASE g = h
      <4>1. CASE k = <<"lent", t>>
        <5>1. p[<<g, k>>] = <<"idle", 1>> /\ Connection(g, k)' = c
          BY <1>6, <1>7, <2>1, <3>2, <4>1 DEF Connection
        <5>2. <<"idle", 1>> \in Connections(g) /\ Connection(g, <<"idle", 1>>) = c
          BY <1>4, <3>2, ConnectionKinds
        <5>3. QED
          BY <4>1, <5>1, <5>2
      <4>2. CASE \E u \in Thread : u # t /\ Holds(u, g)' /\ k = <<"lent", u>>
        <5>1. PICK u \in Thread : u # t /\ Holds(u, g)' /\ k = <<"lent", u>>
          BY <4>2
        <5>2. Holds(u, g) /\ p[<<g, k>>] = k
          BY <2>1, <2>2, <5>1
        <5>3. Connection(g, k)' = thread'[u].conn /\ Connection(g, k) = thread[u].conn /\ k \in Connections(g)
          BY <5>1, <5>2 DEF Connection, Connections
        <5>4. QED
          BY <1>7, <5>1, <5>2, <5>3
      <4>3. CASE \E i \in DOMAIN idle'[g] : k = <<"idle", i>>
        <5>1. PICK i \in DOMAIN idle'[g] : k = <<"idle", i>>
          BY <4>3
        <5>2. p[<<g, k>>] = <<"idle", i + 1>> /\ Connection(g, k)' = idle'[g][i]
          BY <2>1, <3>2, <5>1 DEF Connection
        <5>3. <<"idle", i + 1>> \in Connections(g) /\ Connection(g, <<"idle", i + 1>>) = idle[g][i + 1]
          BY <1>4, <3>2, <5>1, ConnectionKinds
        <5>4. QED
          BY <1>4, <3>2, <5>1, <5>2, <5>3
      <4>4. QED
        BY <4>1, <4>2, <4>3 DEF Connections
    <3>3. QED
      BY <3>1, <3>2
  <2>4. ASSUME NEW g \in Endpoint, NEW k \in Connections(g)', NEW l \in Connections(g)', p[<<g, k>>] = p[<<g, l>>]
        PROVE  k = l
    <3>1. CASE g # h
      <4>1. p[<<g, k>>] = k /\ p[<<g, l>>] = l
        BY <2>1, <3>1
      <4>2. QED
        BY <2>4, <4>1
    <3>2. CASE g = h
      <4>1. CASE k = <<"lent", t>> /\ p[<<g, k>>] = <<"idle", 1>>
        BY <2>3, <2>4, <3>2, <4>1
      <4>2. CASE \E i \in Nat : k = <<"idle", i>> /\ p[<<g, k>>] = <<"idle", i + 1>> /\ i + 1 # 1
        BY <2>3, <2>4, <3>2, <4>2
      <4>3. CASE \E u \in Thread : k = <<"lent", u>> /\ p[<<g, k>>] = k
        BY <2>3, <2>4, <3>2, <4>3
      <4>4. QED
        BY <2>3, <3>2, <4>1, <4>2, <4>3
    <3>3. QED
      BY <3>1, <3>2
  <2>5. NoneAdded
    BY <2>3, <2>4, Moved DEF Alike
  <2>7. ~Discovers(t)' /\ thread'[t].at = "send"
    BY <1>6, <1>7, <1>11 DEF Discovers
  <2>8. QED
    BY <1>1, <1>6, <1>7, <1>9, <2>5, <2>7, ThreadAttempts
<1>12. QED
  BY <1>10, <1>11

\* Connections to servers come and go, but none moves.
LEMMA Stay ==
  ASSUME \A h \in Endpoint : \A k \in Connections(h)' :
           \/ Connection(h, k).requests' = << >>
           \/ k \in Connections(h) /\ Alike(Connection(h, k)', Connection(h, k))
  PROVE  NoneAdded
<1> DEFINE p == [x \in UNION {{<<g, k>> : k \in Connections(g)'} : g \in Endpoint} |-> x[2]]
<1>1. \A h \in Endpoint : \A k \in Connections(h)' : p[<<h, k>>] = k
  OBVIOUS
<1> HIDE DEF p
<1>2. ASSUME NEW h \in Endpoint, NEW k \in Connections(h)', NEW l \in Connections(h)', p[<<h, k>>] = p[<<h, l>>]
      PROVE  k = l
  <2>1. p[<<h, k>>] = k /\ p[<<h, l>>] = l
    BY <1>1
  <2>2. QED
    BY <1>2, <2>1
<1>3. ASSUME NEW h \in Endpoint, NEW k \in Connections(h)'
      PROVE  \/ Connection(h, k).requests' = << >>
             \/ p[<<h, k>>] \in Connections(h) /\ Alike(Connection(h, k)', Connection(h, p[<<h, k>>]))
  <2>1. p[<<h, k>>] = k
    BY <1>1
  <2>2. QED
    BY <2>1
<1>4. QED
  BY <1>2, <1>3, Moved

\* acquire() lends a new connection, on which there is no request.
LEMMA AcquireNewAttempts ==
  ASSUME Parts, Parts', Attempts, NEW t \in Thread, AcquireNew(t)
  PROVE  Attempts'
<1>0. PICK h \in Host : h = thread[t].host
  BY Place DEF Parts
<1> DEFINE c == NewConnection
           r == [thread[t] EXCEPT !.at = "send", !.conn = c]
<1>1. /\ TypeOK /\ thread[t].at \in {"discover", "call"}
      /\ Becomes(t, r) /\ UNCHANGED <<cache, idle, executed, late, faults, lost, world>>
  BY <1>0 DEF Parts, AcquireNew, Acquiring, At
<1>2. /\ thread[t] \in ThreadRecord(t, h) /\ thread[t].conn = None
      /\ thread[t].at = "discover" => h = Registry
      /\ thread[t].at = "call" => h # Registry
  BY <1>0, <1>1, Place
<1>3. c.requests = << >>
  BY DEF NewConnection
<1> HIDE DEF c
<1>4. /\ r.at = "send" /\ r.conn = c /\ r.host = h /\ r.call = thread[t].call
      /\ r.attempt = thread[t].attempt /\ r.endpoints = thread[t].endpoints
  BY <1>2 DEF ThreadRecord
<1> HIDE DEF r
<1>5. thread'[t] = r /\ \A u \in Thread : u # t => thread'[u] = thread[u]
  BY <1>1, OneThread
<1>7. Due(t)' + thread[t].attempt <= Due(t) + thread'[t].attempt
  <2>1. Due(t)' = Due(t)
    BY <1>1, <1>2, <1>4, <1>5, <1>0 DEF Due, Unsent
  <2>2. Due(t) \in {0, 1} /\ thread[t].attempt \in Nat
    BY <1>1, CountNumbers DEF Attempts, Attempted
  <2>3. QED
    BY <1>4, <1>5, <2>1, <2>2
<1>8. CASE h = Registry
  <2>1. thread[t].at = "discover" /\ thread[t].attempt = 0 /\ thread[t].endpoints = {}
    BY <1>1, <1>2, <1>8 DEF Attempts, Attempted, Discovers
  <2>3. \A g \in Endpoint : idle'[g] = idle[g]
    BY <1>1
  <2>4. QED
    BY <1>1, <1>0, <1>4, <1>5, <1>7, <1>8, <2>1, <2>3, AsideAttempts
<1>9. CASE h # Registry
  <2>1. thread[t].at = "call"
    BY <1>1, <1>2, <1>9
  <2>2. ASSUME NEW g \in Endpoint, NEW k \in Connections(g)'
        PROVE  \/ Connection(g, k).requests' = << >>
               \/ k \in Connections(g) /\ Alike(Connection(g, k)', Connection(g, k))
    <3>1. CASE k = <<"lent", t>>
      BY <1>3, <1>4, <1>5, <3>1 DEF Connection
    <3>2. CASE \E u \in Thread : u # t /\ Holds(u, g)' /\ k = <<"lent", u>>
      BY <1>5, <3>2 DEF Connection, Connections, Holds, Alike
    <3>3. CASE \E i \in DOMAIN idle'[g] : k = <<"idle", i>>
      BY <1>1, <3>3 DEF Connection, Connections, Alike
    <3>4. QED
      BY <3>1, <3>2, <3>3 DEF Connections
  <2>3. NoneAdded
    BY <2>2, Stay
  <2>5. ~Discovers(t)' /\ thread'[t].at = "send"
    BY <1>4, <1>5, <1>9 DEF Discovers
  <2>6. QED
    BY <1>1, <1>4, <1>5, <1>7, <2>3, <2>5, ThreadAttempts
<1>10. QED
  BY <1>8, <1>9

\* The registry's answer is read, or the discovery fails.
LEMMA ReceiveEndpointsAttempts ==
  ASSUME Parts, Parts', Attempts, NEW t \in Thread, ReceiveEndpoints(t)
  PROVE  Attempts'
<1>1. /\ TypeOK /\ TypeOK' /\ thread[t].at = "receive" /\ thread[t].host = Registry
      /\ thread[t] \in ThreadRecord(t, Registry)
      /\ UNCHANGED <<cache, executed, faults, world>>
  BY Place DEF Parts, ReceiveEndpoints, At
<1>2. PICK o \in Outcomes(thread[t].conn) :
        IF o.data = None
        THEN Becomes(t, Failed(t)) /\ lost' = lost + 1 /\ UNCHANGED <<idle, total, late>>
        ELSE /\ Becomes(t, [thread[t] EXCEPT !.at = "update", !.endpoints = o.data.endpoints, !.conn = None])
             /\ Release(Registry, o.conn)
             /\ UNCHANGED lost
  BY DEF ReceiveEndpoints
<1>3. Discovers(t) /\ thread[t].attempt = 0 /\ thread[t].endpoints = {}
  BY <1>1 DEF Attempts, Attempted, Discovers
<1>4. (\A g \in Endpoint : idle'[g] = idle[g]) /\ late' = late
  BY <1>1, <1>2, Numbers DEF Release, Left, TypeOK
<1>6. CASE o.data = None
  <2>1. thread'[t] = Failed(t) /\ \A u \in Thread : u # t => thread'[u] = thread[u]
    BY <1>1, <1>2, <1>6, OneThread
  <2>2. thread'[t].call = thread[t].call /\ thread'[t].conn = None
    BY <1>1, <2>1, FailedFields
  <2>3. /\ Due(t)' + thread[t].attempt <= Due(t) + thread'[t].attempt
        /\ ~Discovers(t)' /\ thread'[t].at \in {"done", "call"}
    BY <1>1, <2>1, FailedDue
  <2>4. QED
    BY <1>1, <1>4, <2>1, <2>2, <2>3, AsideAttempts
<1>7. CASE o.data # None
  <2> DEFINE r == [thread[t] EXCEPT !.at = "update", !.endpoints = o.data.endpoints, !.conn = None]
  <2>1. Becomes(t, r)
    BY <1>2, <1>7
  <2>2. r.at = "update" /\ r.attempt = 0 /\ r.call = thread[t].call /\ r.conn = None
    BY <1>1, <1>3 DEF ThreadRecord
  <2> HIDE DEF r
  <2>3. thread'[t] = r /\ \A u \in Thread : u # t => thread'[u] = thread[u]
    BY <1>1, <2>1, OneThread
  <2>4. Due(t)' + thread[t].attempt <= Due(t) + thread'[t].attempt
    <3>1. Due(t) = 0 /\ Due(t)' = 0
      BY <1>1, <2>2, <2>3 DEF Due, Unsent
    <3>2. thread'[t].attempt = 0
      BY <2>2, <2>3
    <3>3. QED
      BY <1>3, <3>1, <3>2
  <2>5. QED
    BY <1>1, <1>4, <2>2, <2>3, <2>4, AsideAttempts DEF Discovers
<1>8. QED
  BY <1>6, <1>7

\* one connection to a server changes, and no other does
Changed(h, k, d) ==
  \A g \in Endpoint :
    /\ Connections(g)' = Connections(g)
    /\ \A l \in Connections(g) : Connection(g, l)' = IF g = h /\ l = k THEN d ELSE Connection(g, l)

\* The thread that holds a connection changes it.
LEMMA LentChanged ==
  ASSUME NEW t \in Thread, NEW h, Holds(t, h), NEW d, d # None, idle' = idle,
         thread'[t].conn = d, thread'[t].host = thread[t].host,
         \A u \in Thread : u # t => thread'[u] = thread[u]
  PROVE  Changed(h, <<"lent", t>>, d)
<1>1. \A u \in Thread : \A g \in Endpoint : Holds(u, g)' <=> Holds(u, g)
  BY DEF Holds
<1>2. \A g \in Endpoint : Connections(g)' = Connections(g)
  BY <1>1 DEF Connections
<1>3. ASSUME NEW g \in Endpoint, NEW l \in Connections(g)
      PROVE  Connection(g, l)' = IF g = h /\ l = <<"lent", t>> THEN d ELSE Connection(g, l)
  <2>1. CASE \E u \in Thread : l = <<"lent", u>> /\ Holds(u, g) /\ Connection(g, l) = thread[u].conn
    <3>1. PICK u \in Thread : l = <<"lent", u>> /\ Holds(u, g) /\ Connection(g, l) = thread[u].conn
      BY <2>1
    <3>2. Connection(g, l)' = thread'[u].conn
      BY <3>1 DEF Connection
    <3>3. u = t <=> l = <<"lent", t>>
      BY <3>1
    <3>4. u = t => g = h
      BY <3>1 DEF Holds
    <3>5. QED
      BY <3>1, <3>2, <3>3, <3>4
  <2>2. CASE \E i \in DOMAIN idle[g] : l = <<"idle", i>> /\ Connection(g, l) = idle[g][i]
    <3>1. PICK i \in DOMAIN idle[g] : l = <<"idle", i>> /\ Connection(g, l) = idle[g][i]
      BY <2>2
    <3>2. Connection(g, l)' = idle'[g][i] /\ l # <<"lent", t>>
      BY <3>1 DEF Connection
    <3>3. QED
      BY <3>1, <3>2
  <2>3. QED
    BY <2>1, <2>2, ConnectionKinds
<1>4. QED
  BY <1>2, <1>3 DEF Changed

\* A change that keeps the requests of a connection.
LEMMA AlikeChanged ==
  ASSUME NEW h, NEW k, NEW d, Changed(h, k, d), Alike(d, Connection(h, k))
  PROVE  NoneAdded
<1>1. ASSUME NEW g \in Endpoint, NEW l \in Connections(g)'
      PROVE  l \in Connections(g) /\ Alike(Connection(g, l)', Connection(g, l))
  <2>1. l \in Connections(g) /\ Connection(g, l)' = IF g = h /\ l = k THEN d ELSE Connection(g, l)
    BY DEF Changed
  <2>2. QED
    BY <2>1 DEF Alike
<1>2. QED
  BY <1>1, Stay

\* A request more on a connection has a place of its own.
LEMMA RequestAdded ==
  ASSUME TypeOK, NEW h \in Endpoint, NEW k \in Connections(h), NEW d, NEW id \in Request, Changed(h, k, d),
         d.requests = Append(Connection(h, k).requests, id)
  PROVE  \E s : /\ s \notin Slots /\ Slots' = Slots \union {s} /\ Asks(s)' = id
                /\ \A r \in Slots : Asks(r)' = Asks(r)
<1>0. PICK n : n = Len(Connection(h, k).requests)
  OBVIOUS
<1> DEFINE c == Connection(h, k)
           s == <<h, k, n + 1>>
<1>1. c.requests \in Seq(Request) /\ Connections(h)' = Connections(h) /\ Connection(h, k)' = d
  BY Numbers, ConnectionTyped DEF PoolConnection, Changed
<1>2. /\ n \in Nat /\ DOMAIN c.requests = 1..n /\ DOMAIN d.requests = 1..(n + 1) /\ d.requests[n + 1] = id
      /\ \A i \in 1..n : d.requests[i] = c.requests[i]
  <2> DEFINE q == c.requests
  <2>1. q \in Seq(Request) /\ d.requests = Append(q, id) /\ n = Len(q)
    BY <1>0, <1>1
  <2> HIDE DEF q
  <2>2. /\ Len(q) \in Nat /\ DOMAIN q = 1..Len(q) /\ DOMAIN Append(q, id) = 1..(Len(q) + 1)
        /\ Append(q, id)[Len(q) + 1] = id /\ \A i \in 1..Len(q) : Append(q, id)[i] = q[i]
    BY <2>1
  <2>3. QED
    BY <2>1, <2>2 DEF q
<1>3. s \notin Slots
  <2>1. n + 1 \notin 1..n
    BY <1>2
  <2>2. ASSUME s \in Slots PROVE FALSE
    <3>1. PICK g \in Endpoint : \E l \in Connections(g) : \E i \in DOMAIN Connection(g, l).requests : s = <<g, l, i>>
      BY <2>2, SlotParts
    <3>2. PICK l \in Connections(g) : \E i \in DOMAIN Connection(g, l).requests : s = <<g, l, i>>
      BY <3>1
    <3>3. PICK i \in DOMAIN Connection(g, l).requests : s = <<g, l, i>>
      BY <3>2
    <3>4. g = h /\ l = k /\ i = n + 1
      BY <3>3
    <3>5. QED
      BY <1>2, <2>1, <3>3, <3>4
  <2>3. QED
    BY <2>2
<1>4. s \in Slots' /\ Asks(s)' = id
  <2>1. n + 1 \in DOMAIN d.requests /\ k \in Connections(h)'
    BY <1>1, <1>2
  <2>2. s \in Slots'
    BY <1>1, <2>1 DEF Slots
  <2>3. QED
    BY <1>1, <1>2, <2>2 DEF Asks
<1>5. ASSUME NEW r \in Slots PROVE r \in Slots' /\ Asks(r)' = Asks(r)
  <2>1. PICK g \in Endpoint : \E l \in Connections(g) : \E i \in DOMAIN Connection(g, l).requests : r = <<g, l, i>>
    BY SlotParts
  <2>2. PICK l \in Connections(g) : \E i \in DOMAIN Connection(g, l).requests : r = <<g, l, i>>
    BY <2>1
  <2>3. PICK i \in DOMAIN Connection(g, l).requests : r = <<g, l, i>>
    BY <2>2
  <2>4. l \in Connections(g)' /\ Connection(g, l)' = IF g = h /\ l = k THEN d ELSE Connection(g, l)
    BY DEF Changed
  <2>5. i \in DOMAIN Connection(g, l).requests' /\ Connection(g, l).requests'[i] = Connection(g, l).requests[i]
    <3>1. CASE g = h /\ l = k
      <4>1. i \in 1..n /\ i \in 1..(n + 1)
        BY <1>2, <2>3, <3>1
      <4>2. QED
        BY <1>1, <1>2, <3>1, <4>1
    <3>2. CASE ~(g = h /\ l = k)
      BY <2>3, <2>4, <3>2
    <3>3. QED
      BY <3>1, <3>2
  <2>6. r \in Slots'
    BY <2>3, <2>4, <2>5 DEF Slots
  <2>7. QED
    BY <2>3, <2>5, <2>6 DEF Asks
<1>6. ASSUME NEW r \in Slots' PROVE r \in Slots \union {s}
  <2>1. PICK g \in Endpoint : \E l \in Connections(g)' : \E i \in DOMAIN Connection(g, l).requests' : r = <<g, l, i>>
    BY <1>6 DEF Slots
  <2>2. PICK l \in Connections(g)' : \E i \in DOMAIN Connection(g, l).requests' : r = <<g, l, i>>
    BY <2>1
  <2>3. PICK i \in DOMAIN Connection(g, l).requests' : r = <<g, l, i>>
    BY <2>2
  <2>4. l \in Connections(g) /\ Connection(g, l)' = IF g = h /\ l = k THEN d ELSE Connection(g, l)
    BY DEF Changed
  <2>5. CASE g = h /\ l = k
    <3>1. i \in 1..(n + 1)
      BY <1>1, <1>2, <2>3, <2>5
    <3>2. i = n + 1 \/ i \in 1..n
      BY <1>2, <3>1
    <3>3. QED
      BY <1>2, <2>3, <2>4, <2>5, <3>2, SlotParts
  <2>6. CASE ~(g = h /\ l = k)
    <3>1. i \in DOMAIN Connection(g, l).requests
      BY <2>3, <2>4, <2>6
    <3>2. r \in Slots
      BY <2>3, <2>4, <3>1, SlotParts
    <3>3. QED
      BY <3>2
  <2>7. QED
    BY <2>5, <2>6
<1>7. Slots' = Slots \union {s}
  BY <1>4, <1>5, <1>6
<1> HIDE DEF s
<1>8. QED
  BY <1>3, <1>4, <1>5, <1>7

\* The attempt that was due is on its way.
LEMMA SendAttempts ==
  ASSUME Parts, Parts', Attempts, NEW t \in Thread, Send(t)
  PROVE  Attempts'
<1>0. PICK h \in Host : h = thread[t].host
  BY Place DEF Parts
<1> DEFINE c == thread[t].conn
           a == Asked(c, CallId(t))
           r == [thread[t] EXCEPT !.at = "receive", !.conn = a]
<1>1. /\ TypeOK /\ TypeOK' /\ thread[t].at = "send" /\ Becomes(t, r)
      /\ UNCHANGED <<cache, total, idle, executed, late, faults, lost, world>>
  BY DEF Parts, Send, At
<1>2. /\ thread[t] \in ThreadRecord(t, h) /\ c \in PoolConnection(h)
      /\ CallId(t) \in Request /\ c # None
  BY <1>0, <1>1, Place, Fields, CallNumbers
<1>3. Settled(h, c)
  BY <1>0, <1>1 DEF Parts, ThreadInv, Exchange
<1>4. h # Registry => Holds(t, h) /\ h \in Endpoint /\ <<"lent", t>> \in Connections(h)
                      /\ Connection(h, <<"lent", t>>) = c
  BY <1>0, <1>2, ConnectionKinds DEF Holds, Host
<1> HIDE DEF c
<1>5. /\ a \in PoolConnection(h) /\ a.answers = c.answers /\ a.strayed = c.strayed /\ a.open = c.open
      /\ a.requests = IF c.open THEN Append(c.requests, CallId(t)) ELSE c.requests
  BY <1>2 DEF Asked, PoolConnection
<1>6. a # None
  BY <1>5, NoneAssumption
<1> HIDE DEF a
<1>7. /\ r.at = "receive" /\ r.conn = a /\ r.host = h /\ r.call = thread[t].call
      /\ r.attempt = thread[t].attempt /\ r.endpoints = thread[t].endpoints
  BY <1>0, <1>2 DEF ThreadRecord
<1> HIDE DEF r
<1>8. thread'[t] = r /\ \A u \in Thread : u # t => thread'[u] = thread[u]
  BY <1>1, OneThread
<1>10. /\ IsFiniteSet(Unanswered(t))
       /\ executed[t] + late[t] + Cardinality(Unanswered(t)) + Due(t) <= thread[t].attempt
       /\ executed[t] \in Nat /\ late[t] \in Nat /\ Cardinality(Unanswered(t)) \in Nat
       /\ thread[t].attempt \in Nat /\ Due(t) \in {0, 1}
  BY <1>1, CountNumbers DEF Attempts, Attempted, Due
<1>11. Due(t)' = 0 /\ (h # Registry => Due(t) = 1)
  BY <1>0, <1>1, <1>7, <1>8 DEF Due, Unsent
<1>12. Due(t)' + thread[t].attempt <= Due(t) + thread'[t].attempt
  BY <1>7, <1>8, <1>10, <1>11
<1>13. CASE h = Registry
  <2>1. thread[t].attempt = 0 /\ thread[t].endpoints = {}
    BY <1>0, <1>1, <1>13 DEF Attempts, Attempted, Discovers
  <2>3. \A g \in Endpoint : idle'[g] = idle[g]
    BY <1>1
  <2>4. QED
    BY <1>0, <1>1, <1>7, <1>8, <1>12, <1>13, <2>1, <2>3, AsideAttempts
<1>14. ASSUME h # Registry PROVE Changed(h, <<"lent", t>>, a)
  BY <1>0, <1>1, <1>4, <1>6, <1>7, <1>8, <1>14, LentChanged
<1>16. ~Discovers(t)' \/ h = Registry
  BY <1>7, <1>8 DEF Discovers
<1>17. CASE h # Registry /\ ~c.open
  <2>1. Alike(a, Connection(h, <<"lent", t>>))
    BY <1>4, <1>5, <1>17 DEF Alike
  <2>2. NoneAdded
    BY <1>14, <1>17, <2>1, AlikeChanged
  <2>3. QED
    BY <1>1, <1>7, <1>8, <1>12, <1>16, <1>17, <2>2, ThreadAttempts
<1>18. CASE h # Registry /\ c.open
  <2>1. PICK s : /\ s \notin Slots /\ Slots' = Slots \union {s} /\ Asks(s)' = CallId(t)
                 /\ \A q \in Slots : Asks(q)' = Asks(q)
    BY <1>1, <1>2, <1>4, <1>5, <1>14, <1>18, RequestAdded
  <2>2. CallsPast /\ \A u \in Thread : Attempted(u)
    BY PartsOfAttempts
  <2>3. \A u \in Thread : thread'[u].call = thread[u].call /\ CallId(u)' = CallId(u)
    BY <1>7, <1>8 DEF CallId
  <2>4. CallsPast'
    <3>1. ASSUME NEW q \in Slots' PROVE Asks(q)'[2] <= thread'[Asks(q)'[1]].call
      <4>1. CASE q \in Slots
        <5>1. Asks(q) \in Thread \X Nat
          BY <1>1, <4>1, SlotParts, SlotTyped
        <5>2. QED
          BY <2>1, <2>2, <2>3, <4>1, <5>1 DEF CallsPast
      <4>2. CASE q = s
        <5>1. thread[t].call \in Nat
          BY <1>1, CallNumbers
        <5>2. Asks(q)'[1] = t /\ Asks(q)'[2] = thread[t].call
          BY <2>1, <4>2 DEF CallId
        <5>3. QED
          BY <2>3, <5>1, <5>2
      <4>3. QED
        BY <2>1, <4>1, <4>2
    <3>2. QED
      BY <3>1 DEF CallsPast
  <2>5. ASSUME NEW u \in Thread, u # t PROVE Attempted(u)'
    <3>1. CallId(t) # CallId(u)
      BY <2>5, CallIds
    <3>2. Unanswered(u)' = Unanswered(u)
      BY <2>1, <2>3, <3>1 DEF Unanswered
    <3>3. thread'[u] = thread[u] /\ executed'[u] = executed[u] /\ late'[u] = late[u]
      BY <1>1, <1>8, <2>5
    <3>4. QED
      BY <2>2, <3>2, <3>3 DEF Attempted, Discovers, Unsent
  <2>6. Attempted(t)'
    <3>1. Unanswered(t)' = Unanswered(t) \union {s} /\ s \notin Unanswered(t)
      BY <2>1, <2>3 DEF Unanswered
    <3>2. IsFiniteSet(Unanswered(t)') /\ Cardinality(Unanswered(t)') = Cardinality(Unanswered(t)) + 1
      BY <1>10, <3>1, FS_AddElement
    <3>3. executed'[t] + late'[t] + Cardinality(Unanswered(t)') + Due(t)' <= thread'[t].attempt
      <4>1. executed'[t] = executed[t] /\ late'[t] = late[t] /\ thread'[t].attempt = thread[t].attempt
        BY <1>1, <1>7, <1>8
      <4>2. QED
        BY <1>10, <1>11, <1>18, <3>2, <4>1
    <3>4. thread'[t].at = "receive"
      BY <1>7, <1>8
    <3>5. QED
      BY <1>16, <1>18, <3>2, <3>3, <3>4 DEF Attempted, Due
  <2>7. QED
    BY <2>4, <2>5, <2>6 DEF Attempts, CallsPast
<1>19. QED
  BY <1>13, <1>17, <1>18

\* receive() leaves of a connection what the server sees of it.
LEMMA OutcomeAlike ==
  ASSUME NEW h \in Endpoint, NEW c \in PoolConnection(h), NEW o \in Outcomes(c)
  PROVE  Alike(o.conn, c)
BY DEF Outcomes, Nothing, Received, Disconnected, Alike, PoolConnection

\* The pool takes a connection back, or forgets it.

LEMMA ReleaseMoves ==
  ASSUME TypeOK, NEW h \in Endpoint, NEW t \in Thread, Holds(t, h), NEW c, c.connected, Release(h, c),
         Alike(c, thread[t].conn), thread'[t].conn = None, \A u \in Thread : u # t => thread'[u] = thread[u]
  PROVE  NoneAdded
<1>1. \A u \in Thread : \A g \in Endpoint : Holds(u, g)' => u # t /\ Holds(u, g) /\ thread'[u].conn = thread[u].conn
  BY DEF Holds
<1>2. ASSUME NEW g \in Endpoint, NEW u \in Thread, Holds(u, g)'
      PROVE  <<"lent", u>> \in Connections(g) /\ Connection(g, <<"lent", u>>)' = Connection(g, <<"lent", u>>)
  BY <1>1, <1>2, ConnectionKinds DEF Connection
<1>3. <<"lent", t>> \in Connections(h) /\ Connection(h, <<"lent", t>>) = thread[t].conn
  BY ConnectionKinds
<1>4. QED
  <2>0. PICK n : n = Len(idle[h]) + 1
    OBVIOUS
  <2>1. /\ h \in Host /\ idle' = [idle EXCEPT ![h] = Append(@, c)]
        /\ idle[h] \in Seq(PoolConnection(h))
    BY Numbers DEF Release, TypeOK
  <2>2. idle'[h] = Append(idle[h], c) /\ \A g \in Endpoint : g # h => idle'[g] = idle[g]
    BY <2>1, Numbers DEF TypeOK
  <2>3. /\ DOMAIN idle'[h] = 1..n /\ idle'[h][n] = c
        /\ \A i \in DOMAIN idle'[h] : i # n => i \in DOMAIN idle[h] /\ idle'[h][i] = idle[h][i]
        /\ n \notin DOMAIN idle[h]
    <3> DEFINE q == idle[h]
    <3>1. q \in Seq(PoolConnection(h)) /\ n = Len(q) + 1
      BY <2>0, <2>1
    <3> HIDE DEF q
    <3>2. /\ DOMAIN Append(q, c) = 1..n /\ Append(q, c)[n] = c /\ Len(q) \in Nat /\ DOMAIN q = 1..Len(q)
      BY <3>1
    <3>3. \A i \in 1..n : i # n => i \in 1..Len(q) /\ Append(q, c)[i] = q[i]
      BY <3>1
    <3>4. n \notin 1..Len(q)
      BY <3>1
    <3>5. QED
      BY <2>2, <3>2, <3>3, <3>4 DEF q
  <2> DEFINE p == [x \in UNION {{<<g, k>> : k \in Connections(g)'} : g \in Endpoint} |->
                     IF x = <<h, <<"idle", n>>>> THEN <<"lent", t>> ELSE x[2]]
  <2>4. \A g \in Endpoint : \A k \in Connections(g)' :
          p[<<g, k>>] = IF g = h /\ k = <<"idle", n>> THEN <<"lent", t>> ELSE k
    OBVIOUS
  <2> HIDE DEF p
  <2>5. ASSUME NEW g \in Endpoint, NEW k \in Connections(g)'
        PROVE  p[<<g, k>>] \in Connections(g) /\ Alike(Connection(g, k)', Connection(g, p[<<g, k>>]))
    <3>1. CASE \E u \in Thread : k = <<"lent", u>> /\ Holds(u, g)'
      <4>1. p[<<g, k>>] = k
        BY <2>4, <3>1
      <4>2. QED
        BY <1>2, <3>1, <4>1 DEF Alike
    <3>2. CASE \E i \in DOMAIN idle'[g] : k = <<"idle", i>>
      <4>1. PICK i \in DOMAIN idle'[g] : k = <<"idle", i>>
        BY <3>2
      <4>2. CASE g = h /\ i = n
        <5>1. p[<<g, k>>] = <<"lent", t>> /\ Connection(g, k)' = c
          BY <2>3, <2>4, <4>1, <4>2 DEF Connection
        <5>2. QED
          BY <1>3, <4>2, <5>1
      <4>3. CASE ~(g = h /\ i = n)
        <5>1. p[<<g, k>>] = k
          BY <2>4, <4>1, <4>3
        <5>2. i \in DOMAIN idle[g] /\ idle'[g][i] = idle[g][i]
          BY <2>2, <2>3, <4>1, <4>3
        <5>3. k \in Connections(g) /\ Connection(g, k) = idle[g][i] /\ Connection(g, k)' = idle'[g][i]
          BY <4>1, <5>2, ConnectionKinds DEF Connection
        <5>4. QED
          BY <5>1, <5>2, <5>3 DEF Alike
      <4>4. QED
        BY <4>2, <4>3
    <3>3. QED
      BY <3>1, <3>2 DEF Connections
  <2>6. ASSUME NEW g \in Endpoint, NEW k \in Connections(g)', NEW l \in Connections(g)', p[<<g, k>>] = p[<<g, l>>]
        PROVE  k = l
    <3>1. ~Holds(t, g)'
      BY <1>1
    <3>2. k # <<"lent", t>> /\ l # <<"lent", t>>
      BY <3>1 DEF Connections
    <3>3. QED
      BY <2>4, <2>6, <3>2
  <2>7. QED
    BY <2>5, <2>6, Moved

\* One connection to a server leaves with the requests on it, and no other.
Leaves(h, k) ==
  /\ \A s \in Slots' : s \in Slots /\ Asks(s)' = Asks(s) /\ ~(s[1] = h /\ s[2] = k)
  /\ \A s \in Slots : s \in Slots' \/ (s[1] = h /\ s[2] = k)

\* Then there is no request more.
LEMMA LeavesNone ==
  ASSUME NEW h, NEW k, Leaves(h, k)
  PROVE  NoneAdded
<1> DEFINE f == [s \in Slots' |-> s]
<1>1. f \in [Slots' -> Slots] /\ (\A x, y \in Slots' : f[x] = f[y] => x = y)
      /\ \A s \in Slots' : Asks(s)' = Asks(f[s])
  BY DEF Leaves
<1> HIDE DEF f
<1>2. QED
  BY <1>1 DEF NoneAdded

\* The requests of a connection that ends go, and no others.
LEMMA RequestsGone ==
  ASSUME TypeOK, NEW h \in Endpoint, NEW k \in Connections(h), Leaves(h, k),
         NEW t \in Thread, CallId(t)' = CallId(t), IsFiniteSet(Unanswered(t))
  PROVE  /\ IsFiniteSet(Unanswered(t)') /\ Requests(Connection(h, k), t) \in Nat
         /\ Cardinality(Unanswered(t)') + Requests(Connection(h, k), t) = Cardinality(Unanswered(t))
<1>0. PICK R : R = {i \in DOMAIN Connection(h, k).requests : Connection(h, k).requests[i] = CallId(t)}
  OBVIOUS
<1> DEFINE gone == {<<h, k, i>> : i \in R}
           U == Unanswered(t)
           V == Unanswered(t)'
<1>1. gone \subseteq U
  <2>1. ASSUME NEW i \in R PROVE <<h, k, i>> \in Slots /\ Asks(<<h, k, i>>) = CallId(t)
    BY <1>0, SlotParts DEF Asks
  <2>2. QED
    BY <2>1 DEF Unanswered
<1>2. V \subseteq U /\ V \cap gone = {}
  <2>1. ASSUME NEW s \in V PROVE s \in U /\ s \notin gone
    <3>1. s \in Slots' /\ Asks(s)' = CallId(t)
      BY <2>1 DEF Unanswered
    <3>2. s \in Slots /\ Asks(s)' = Asks(s) /\ ~(s[1] = h /\ s[2] = k)
      BY <3>1 DEF Leaves
    <3>3. QED
      BY <3>1, <3>2 DEF Unanswered
  <2>2. QED
    BY <2>1
<1>3. U \subseteq V \union gone
  <2>1. ASSUME NEW s \in U, s \notin gone PROVE s \in V
    <3>1. s \in Slots /\ Asks(s) = CallId(t)
      BY <2>1 DEF Unanswered
    <3>2. PICK g \in Endpoint : \E l \in Connections(g) : \E i \in DOMAIN Connection(g, l).requests : s = <<g, l, i>>
      BY <3>1, SlotParts
    <3>3. PICK l \in Connections(g) : \E i \in DOMAIN Connection(g, l).requests : s = <<g, l, i>>
      BY <3>2
    <3>4. PICK i \in DOMAIN Connection(g, l).requests : s = <<g, l, i>>
      BY <3>3
    <3>5. Asks(s) = Connection(g, l).requests[i]
      BY <3>4 DEF Asks
    <3>6. ~(g = h /\ l = k)
      BY <1>0, <2>1, <3>1, <3>4, <3>5
    <3>7. s \in Slots' /\ Asks(s)' = Asks(s)
      BY <3>1, <3>4, <3>6 DEF Leaves
    <3>8. QED
      BY <3>1, <3>7 DEF Unanswered
  <2>2. QED
    BY <2>1
<1>4. IsFiniteSet(R) /\ Cardinality(R) = Requests(Connection(h, k), t) /\ Cardinality(R) \in Nat
  <2>1. Connection(h, k).requests \in Seq(Request)
    BY Numbers, ConnectionTyped DEF PoolConnection
  <2>2. /\ IsFiniteSet(1..Len(Connection(h, k).requests))
        /\ DOMAIN Connection(h, k).requests = 1..Len(Connection(h, k).requests)
    <3> DEFINE q == Connection(h, k).requests
    <3>1. q \in Seq(Request)
      BY <2>1
    <3> HIDE DEF q
    <3>2. DOMAIN q = 1..Len(q) /\ Len(q) \in Int
      BY <3>1
    <3>3. IsFiniteSet(1..Len(q))
      BY <3>2, FS_Interval
    <3>4. QED
      BY <3>2, <3>3 DEF q
  <2>3. R \subseteq DOMAIN Connection(h, k).requests
    BY <1>0
  <2>4. IsFiniteSet(R)
    BY <2>2, <2>3, FS_Subset
  <2>5. QED
    BY <1>0, <2>4, FS_CardinalityType DEF Requests
<1>5. IsFiniteSet(gone) /\ Cardinality(gone) = Cardinality(R)
  <2> DEFINE m == [i \in R |-> <<h, k, i>>]
  <2>1. m \in [R -> gone] /\ (\A x, y \in R : m[x] = m[y] => x = y) /\ \A z \in gone : \E x \in R : m[x] = z
    OBVIOUS
  <2> HIDE DEF m
  <2>2. m \in Bijection(R, gone)
    BY <2>1 DEF Bijection, Injection, IsInjective, Surjection
  <2>3. ExistsBijection(R, gone)
    BY <2>2 DEF ExistsBijection
  <2>4. QED
    BY <1>4, <2>3, FS_Bijection
<1> HIDE DEF gone
<1>6. PICK W : W = V
  OBVIOUS
<1>7. IsFiniteSet(W)
  BY <1>2, <1>6, FS_Subset
<1>8. W \cap gone = {} /\ W \union gone = U
  BY <1>1, <1>2, <1>3, <1>6
<1>9. Cardinality(U) = Cardinality(W) + Cardinality(gone) - Cardinality(W \cap gone)
  BY <1>5, <1>7, <1>8, FS_Union
<1>10. Cardinality(W \cap gone) = 0 /\ Cardinality(W) \in Nat
  BY <1>7, <1>8, FS_EmptySet, FS_CardinalityType
<1>11. Cardinality(W) + Cardinality(R) = Cardinality(U)
  BY <1>4, <1>5, <1>9, <1>10
<1>12. QED
  BY <1>4, <1>6, <1>7, <1>11

\* The requests that go have been counted: they may be executed late.
LEMMA LeftAttempted ==
  ASSUME TypeOK, TypeOK', NEW h \in Endpoint, NEW k \in Connections(h), Leaves(h, k),
         NEW c, c.requests = Connection(h, k).requests, Left(h, c), executed' = executed,
         NEW u \in Thread, Attempted(u), CallId(u)' = CallId(u),
         Due(u)' + thread[u].attempt <= Due(u) + thread'[u].attempt,
         Discovers(u)' => thread'[u].attempt = 0 /\ thread'[u].endpoints = {},
         thread'[u].at \in {"update", "select"} => thread'[u].attempt = 0
  PROVE  Attempted(u)'
<1>1. /\ IsFiniteSet(Unanswered(u))
      /\ executed[u] + late[u] + Cardinality(Unanswered(u)) + Due(u) <= thread[u].attempt
      /\ executed[u] \in Nat /\ late[u] \in Nat /\ Cardinality(Unanswered(u)) \in Nat
      /\ thread[u].attempt \in Nat /\ Due(u) \in {0, 1}
  BY CountNumbers DEF Attempted, Due
<1>2. PICK n \in Nat : n = Requests(Connection(h, k), u) /\ IsFiniteSet(Unanswered(u)')
                       /\ Cardinality(Unanswered(u)') + n = Cardinality(Unanswered(u))
  BY <1>1, RequestsGone
<1>3. Cardinality(Unanswered(u)') \in Nat
  BY <1>2, FS_CardinalityType
<1>4. late'[u] = late[u] + n
  <2>1. Requests(c, u) = Requests(Connection(h, k), u)
    BY DEF Requests
  <2>2. QED
    BY <1>2, <2>1, Numbers DEF Left
<1>5. thread'[u].attempt \in Nat /\ Due(u)' \in {0, 1} /\ executed'[u] = executed[u]
  BY Numbers DEF TypeOK, ThreadRecord, Due
<1>6. executed'[u] + late'[u] + Cardinality(Unanswered(u)') + Due(u)' <= thread'[u].attempt
  BY <1>1, <1>2, <1>3, <1>4, <1>5
<1>7. QED
  BY <1>2, <1>6 DEF Attempted, Due

\* What it forgets goes with the requests on it.
LEMMA ReleaseLeaves ==
  ASSUME NEW h \in Endpoint, NEW t \in Thread, Holds(t, h), NEW c, ~c.connected, Release(h, c),
         thread'[t].conn = None, \A u \in Thread : u # t => thread'[u] = thread[u]
  PROVE  Leaves(h, <<"lent", t>>) /\ Left(h, c)
<1>1. idle' = idle /\ Left(h, c)
  BY DEF Release
<1>2. \A u \in Thread : \A g \in Endpoint : Holds(u, g)' <=> Holds(u, g) /\ u # t
  BY DEF Holds
<1>3. ASSUME NEW g \in Endpoint
      PROVE  /\ \A k \in Connections(g)' : k \in Connections(g) /\ k # <<"lent", t>>
             /\ \A k \in Connections(g) : k # <<"lent", t>> => k \in Connections(g)'
  BY <1>1, <1>2 DEF Connections
<1>4. ASSUME NEW g \in Endpoint, NEW k \in Connections(g), k # <<"lent", t>>
      PROVE  Connection(g, k)' = Connection(g, k)
  BY <1>1, <1>4, ConnectionKinds DEF Connection
<1>5. ASSUME NEW s \in Slots' PROVE s \in Slots /\ Asks(s)' = Asks(s) /\ s[2] # <<"lent", t>>
  <2>1. PICK g \in Endpoint : \E k \in Connections(g)' : \E i \in DOMAIN Connection(g, k).requests' : s = <<g, k, i>>
    BY <1>5 DEF Slots
  <2>2. PICK k \in Connections(g)' : \E i \in DOMAIN Connection(g, k).requests' : s = <<g, k, i>>
    BY <2>1
  <2>3. PICK i \in DOMAIN Connection(g, k).requests' : s = <<g, k, i>>
    BY <2>2
  <2>4. k \in Connections(g) /\ k # <<"lent", t>> /\ Connection(g, k)' = Connection(g, k)
    BY <1>3, <1>4
  <2>5. s \in Slots
    BY <2>3, <2>4, SlotParts
  <2>6. QED
    BY <2>3, <2>4, <2>5 DEF Asks
<1>6. ASSUME NEW s \in Slots, ~(s[1] = h /\ s[2] = <<"lent", t>>) PROVE s \in Slots'
  <2>1. PICK g \in Endpoint : \E k \in Connections(g) : \E i \in DOMAIN Connection(g, k).requests : s = <<g, k, i>>
    BY SlotParts
  <2>2. PICK k \in Connections(g) : \E i \in DOMAIN Connection(g, k).requests : s = <<g, k, i>>
    BY <2>1
  <2>3. PICK i \in DOMAIN Connection(g, k).requests : s = <<g, k, i>>
    BY <2>2
  <2>4. k # <<"lent", t>>
    BY <1>6, <2>3 DEF Connections, Holds
  <2>5. k \in Connections(g)' /\ Connection(g, k)' = Connection(g, k)
    BY <1>3, <1>4, <2>4
  <2>6. QED
    BY <2>3, <2>5 DEF Slots
<1>7. QED
  BY <1>1, <1>5, <1>6 DEF Leaves

\* A call gives its connection to a server back.
LEMMA ReleaseAttempts ==
  ASSUME Parts, Parts', Attempts, NEW t \in Thread, NEW h \in Endpoint, Holds(t, h),
         NEW c, Release(h, c), Alike(c, thread[t].conn), executed' = executed,
         thread'[t].conn = None, thread'[t].call = thread[t].call,
         \A u \in Thread : u # t => thread'[u] = thread[u],
         Due(t)' + thread[t].attempt <= Due(t) + thread'[t].attempt,
         ~Discovers(t)', thread'[t].at \in {"done", "call"}
  PROVE  Attempts'
<1>1. TypeOK /\ TypeOK' /\ CallsPast /\ \A u \in Thread : Attempted(u)
  BY PartsOfAttempts DEF Parts
<1>2. CASE c.connected
  <2>1. NoneAdded
    BY <1>1, <1>2, ReleaseMoves
  <2>2. late' = late
    BY <1>2 DEF Release
  <2>3. QED
    BY <2>1, <2>2, ThreadAttempts
<1>3. CASE ~c.connected
  <2> DEFINE k == <<"lent", t>>
  <2>1. k \in Connections(h) /\ c.requests = Connection(h, k).requests
    BY ConnectionKinds DEF Alike
  <2>2. Leaves(h, k) /\ Left(h, c)
    BY <1>3, ReleaseLeaves
  <2> HIDE DEF k
  <2>3. CallsPast'
    <3>1. NoneAdded
      BY <2>2, LeavesNone
    <3>2. \A u \in Thread : thread[u].call \in Nat /\ thread'[u].call = thread[u].call
      BY <1>1, CallNumbers
    <3>3. \A u \in Thread : thread[u].call <= thread'[u].call
      BY <3>2
    <3>4. QED
      BY <1>1, <3>1, <3>3, CallsPastStep
  <2>4. ASSUME NEW u \in Thread PROVE Attempted(u)'
    <3>1. CallId(u)' = CallId(u)
      BY DEF CallId
    <3>2. CASE u # t
      <4>1. thread'[u] = thread[u]
        BY <3>2
      <4>2. Due(u)' = Due(u) /\ (Discovers(u)' <=> Discovers(u))
        BY <4>1 DEF Due, Unsent, Discovers
      <4>3. Due(u) \in {0, 1} /\ thread[u].attempt \in Nat
        BY <1>1, CountNumbers DEF Attempted
      <4>4. Due(u)' + thread[u].attempt <= Due(u) + thread'[u].attempt
        BY <4>1, <4>2, <4>3
      <4>5. /\ Discovers(u)' => thread'[u].attempt = 0 /\ thread'[u].endpoints = {}
            /\ thread'[u].at \in {"update", "select"} => thread'[u].attempt = 0
        BY <1>1, <4>1, <4>2 DEF Attempted
      <4>6. QED
        BY <1>1, <2>1, <2>2, <3>1, <4>4, <4>5, LeftAttempted
    <3>3. CASE u = t
      BY <1>1, <2>1, <2>2, <3>1, <3>3, LeftAttempted
    <3>4. QED
      BY <3>2, <3>3
  <2>5. QED
    BY <2>3, <2>4 DEF Attempts, CallsPast
<1>4. QED
  BY <1>2, <1>3

\* A server's answer is read, or waited for no longer.
LEMMA ReceiveResultAttempts ==
  ASSUME Parts, Parts', Attempts, NEW t \in Thread, ReceiveResult(t)
  PROVE  Attempts'
<1>0. PICK h \in Endpoint : h = thread[t].host /\ h \in Host /\ h # Registry
  BY Place, Numbers DEF Parts, Host, ReceiveResult
<1> DEFINE c == thread[t].conn
<1>1. /\ TypeOK /\ TypeOK' /\ thread[t].at = "receive" /\ thread[t] \in ThreadRecord(t, h)
      /\ c \in PoolConnection(h) /\ c # None
      /\ UNCHANGED <<cache, executed, faults, lost, world>>
  BY <1>0, Place, Fields DEF Parts, ReceiveResult, At
<1>2. PICK o \in Outcomes(c) :
        /\ Becomes(t, IF o.data # None /\ o.data.data # ""
                      THEN Done(t, [of |-> o.data.of, strayed |-> o.conn.strayed]) ELSE Failed(t))
        /\ Release(h, o.conn)
  BY <1>0 DEF ReceiveResult
<1>3. Holds(t, h) /\ <<"lent", t>> \in Connections(h) /\ Connection(h, <<"lent", t>>) = c
  BY <1>0, <1>1, ConnectionKinds DEF Holds
<1>5. o.conn \in PoolConnection(h) /\ (o.data # None => o.data \in Answer(h))
  BY <1>0, <1>1, OutcomeTyped
<1>6. Alike(o.conn, c)
  BY <1>1, <1>2, OutcomeAlike
<1>7. PICK r : /\ Becomes(t, r) /\ r.call = thread[t].call /\ r.conn = None
               /\ \/ r.at = "done" /\ r.result # None /\ r.attempt = thread[t].attempt
                  \/ r = Failed(t)
  <2>1. CASE o.data # None /\ o.data.data # ""
    <3> DEFINE result == [of |-> o.data.of, strayed |-> o.conn.strayed]
    <3>1. o.data.of \in Request \union {None} /\ o.conn.strayed \in BOOLEAN
      BY <1>0, <1>5, <2>1 DEF Answer, PoolConnection
    <3>2. result \in Result
      BY <3>1 DEF Result
    <3>3. result # None
      BY <1>0, <3>2, NoneAssumption
    <3>4. Becomes(t, Done(t, result))
      BY <1>2, <2>1
    <3> HIDE DEF result
    <3>5. /\ Done(t, result).at = "done" /\ Done(t, result).result = result /\ Done(t, result).conn = None
          /\ Done(t, result).call = thread[t].call
      BY <1>1, <3>2, DoneRecord
    <3>6. Done(t, result).attempt = thread[t].attempt
      BY DEF Done, Idle
    <3>7. QED
      BY <3>3, <3>4, <3>5, <3>6
  <2>2. CASE ~(o.data # None /\ o.data.data # "")
    <3>1. Becomes(t, Failed(t))
      BY <1>2, <2>2
    <3>2. Failed(t).call = thread[t].call /\ Failed(t).conn = None
      BY <1>1, FailedFields
    <3>3. QED
      BY <2>2, <3>1, <3>2
  <2>3. QED
    BY <2>1, <2>2
<1>8. thread'[t] = r /\ \A u \in Thread : u # t => thread'[u] = thread[u]
  BY <1>1, <1>7, OneThread
<1>9. CASE r.at = "done" /\ r.attempt = thread[t].attempt
  <2>1. Due(t)' + thread[t].attempt <= Due(t) + thread'[t].attempt
    <3>1. Due(t)' = 0 /\ Due(t) = 0
      BY <1>1, <1>8, <1>9 DEF Due, Unsent
    <3>2. thread[t].attempt \in Nat
      BY <1>1, CountNumbers DEF Attempts, Attempted
    <3>3. QED
      BY <1>8, <1>9, <3>1, <3>2
  <2>2. ~Discovers(t)' /\ thread'[t].at = "done"
    BY <1>8, <1>9 DEF Discovers
  <2>3. QED
    BY <1>1, <1>2, <1>3, <1>6, <1>7, <1>8, <2>1, <2>2, ReleaseAttempts
<1>10. CASE r = Failed(t)
  <2>1. /\ Due(t)' + thread[t].attempt <= Due(t) + thread'[t].attempt
        /\ ~Discovers(t)' /\ thread'[t].at \in {"done", "call"}
    BY <1>1, <1>8, <1>10, FailedDue
  <2>2. QED
    BY <1>1, <1>2, <1>3, <1>6, <1>7, <1>8, <2>1, ReleaseAttempts
<1>11. QED
  BY <1>7, <1>9, <1>10

\* An attempt whose send() fails is over, too.
LEMMA SendFailsAttempts ==
  ASSUME Parts, Parts', Attempts, NEW t \in Thread, SendFails(t)
  PROVE  Attempts'
<1>0. PICK h \in Host : h = thread[t].host
  BY Place DEF Parts
<1> DEFINE c == thread[t].conn
           d == Disconnected(c)
<1>1. /\ TypeOK /\ TypeOK' /\ thread[t].at = "send" /\ Becomes(t, Failed(t)) /\ executed' = executed
      /\ IF h = Registry THEN lost' = lost + 1 /\ UNCHANGED <<total, idle, late>>
         ELSE Release(h, d) /\ UNCHANGED lost
  BY <1>0 DEF Parts, SendFails, At
<1>2. thread'[t] = Failed(t) /\ \A u \in Thread : u # t => thread'[u] = thread[u]
  BY <1>1, OneThread
<1>3. thread'[t].call = thread[t].call /\ thread'[t].conn = None
  BY <1>1, <1>2, FailedFields
<1>4. /\ Due(t)' + thread[t].attempt <= Due(t) + thread'[t].attempt
      /\ ~Discovers(t)' /\ thread'[t].at \in {"done", "call"}
  BY <1>1, <1>2, FailedDue
<1>5. CASE h = Registry
  <2>1. idle' = idle /\ late' = late
    BY <1>1, <1>5
  <2>2. QED
    BY <1>0, <1>1, <1>2, <1>3, <1>4, <1>5, <2>1, AsideAttempts
<1>6. CASE h # Registry
  <2>1. h \in Endpoint /\ Release(h, d)
    BY <1>1, <1>6 DEF Host
  <2>2. c \in PoolConnection(h) /\ c # None
    BY <1>0, <1>1, Place, Fields
  <2>3. Holds(t, h)
    BY <1>0, <2>2 DEF Holds
  <2>4. Alike(d, c)
    BY <2>2 DEF Alike, Disconnected, PoolConnection
  <2> HIDE DEF d
  <2>5. QED
    BY <1>1, <1>2, <1>3, <1>4, <2>1, <2>3, <2>4, ReleaseAttempts
<1>7. QED
  BY <1>5, <1>6

\* A call begins: what is still on its way belongs to those before.
LEMMA CallAttempts ==
  ASSUME Parts, Parts', Attempts, NEW t \in Thread, Call(t)
  PROVE  Attempts'
<1> DEFINE r == [Idle(thread[t].call + 1) EXCEPT !.at = "look up"]
<1>1. /\ TypeOK /\ TypeOK' /\ thread[t].at \in {"idle", "done"} /\ Becomes(t, r)
      /\ executed' = [executed EXCEPT ![t] = 0] /\ late' = [late EXCEPT ![t] = 0]
      /\ UNCHANGED <<cache, total, idle, faults, lost, world>>
  BY DEF Parts, Call, At
<1>2. /\ r.at = "look up" /\ r.call = thread[t].call + 1 /\ r.conn = None /\ r.host = Registry
      /\ r.attempt = 0 /\ r.endpoints = {}
  BY DEF Idle
<1> HIDE DEF r
<1>3. thread'[t] = r /\ \A u \in Thread : u # t => thread'[u] = thread[u]
  BY <1>1, OneThread
<1>4. /\ executed'[t] = 0 /\ late'[t] = 0
      /\ \A u \in Thread : u # t => executed'[u] = executed[u] /\ late'[u] = late[u]
  BY <1>1 DEF TypeOK
<1>5. thread[t].conn = None
  BY <1>1, Place
<1>6. NoneAdded
  <2>1. \A u \in Thread : \A h \in Endpoint :
          (Holds(u, h)' <=> Holds(u, h)) /\ (Holds(u, h) => thread'[u].conn = thread[u].conn)
    BY <1>2, <1>3, <1>5 DEF Holds
  <2>2. \A h \in Endpoint : idle'[h] = idle[h]
    BY <1>1
  <2>3. QED
    BY <2>1, <2>2, ServersSame
<1>7. CallsPast /\ \A u \in Thread : Attempted(u)
  BY PartsOfAttempts
<1>8. CallsPast'
  <2>1. ASSUME NEW u \in Thread PROVE thread[u].call <= thread'[u].call
    <3>1. thread[u].call \in Nat
      BY <1>1, CallNumbers
    <3>2. thread'[u].call = thread[u].call \/ thread'[u].call = thread[u].call + 1
      BY <1>2, <1>3
    <3>3. QED
      BY <3>1, <3>2
  <2>2. QED
    BY <1>1, <1>6, <1>7, <2>1, CallsPastStep
<1>9. ASSUME NEW u \in Thread, u # t PROVE Attempted(u)'
  <2>1. executed[u] \in Nat /\ late[u] \in Nat
    BY <1>1 DEF TypeOK
  <2>2. executed'[u] + late'[u] <= executed[u] + late[u]
    BY <1>4, <1>9, <2>1
  <2>3. QED
    BY <1>1, <1>3, <1>6, <1>7, <1>9, <2>2, AttemptedKept DEF Same
<1>10. Unanswered(t)' = {}
  <2>1. PICK f \in [Slots' -> Slots] : \A s \in Slots' : Asks(s)' = Asks(f[s])
    BY <1>6 DEF NoneAdded
  <2>2. ASSUME NEW s \in Slots', Asks(s)' = CallId(t)' PROVE FALSE
    <3>1. f[s] \in Slots /\ Asks(f[s]) = <<t, thread[t].call + 1>>
      BY <1>2, <1>3, <2>1, <2>2 DEF CallId
    <3>2. thread[t].call \in Nat
      BY <1>1, CallNumbers
    <3>3. thread[t].call + 1 <= thread[t].call
      BY <1>7, <3>1 DEF CallsPast
    <3>4. QED
      BY <3>2, <3>3
  <2>3. QED
    BY <2>2 DEF Unanswered
<1>11. Attempted(t)'
  <2>1. IsFiniteSet(Unanswered(t)') /\ Cardinality(Unanswered(t)') = 0
    BY <1>10, FS_EmptySet
  <2>2. ~Unsent(t)'
    BY <1>2, <1>3 DEF Unsent
  <2>3. thread'[t].attempt = 0 /\ thread'[t].endpoints = {}
    BY <1>2, <1>3
  <2>4. QED
    BY <1>4, <2>1, <2>2, <2>3 DEF Attempted
<1>12. QED
  BY <1>8, <1>9, <1>11 DEF Attempts, CallsPast

\* What a server executes late has been counted as late.
LEMMA LateExecutionAttempts ==
  ASSUME Parts, Parts', Attempts, NEW t \in Thread, LateExecution(t)
  PROVE  Attempts'
<1>1. /\ late[t] > 0 /\ late' = [late EXCEPT ![t] = @ - 1] /\ executed' = [executed EXCEPT ![t] = @ + 1]
      /\ UNCHANGED <<thread, idle>>
  BY DEF LateExecution
<1>2. executed \in [Thread -> Nat] /\ late \in [Thread -> Nat]
  BY DEF Parts, TypeOK
<1>3. \A u \in Thread : executed'[u] + late'[u] <= executed[u] + late[u]
  BY <1>1, <1>2
<1>4. QED
  BY <1>1, <1>3, StillAttempts

\* What neither a call nor a server does changes nothing.
LEMMA QuietAttempts ==
  ASSUME Parts, Parts', Attempts, UNCHANGED <<thread, idle, executed, late>>
  PROVE  Attempts'
<1>1. executed \in [Thread -> Nat] /\ late \in [Thread -> Nat]
  BY DEF Parts, TypeOK
<1>2. \A u \in Thread : executed'[u] + late'[u] <= executed[u] + late[u]
  BY <1>1
<1>3. QED
  BY <1>2, StillAttempts

\* The other end of a connection changes it, and nothing else.
LEMMA PutChanged ==
  ASSUME TypeOK, NEW h \in Host, NEW k \in Connections(h), NEW c \in PoolConnection(h), Put(h, k, c)
  PROVE  /\ Changed(h, k, c)
         /\ \A t \in Thread : /\ Same(t) /\ thread'[t].result = thread[t].result
                              /\ thread'[t].conn = IF k = <<"lent", t>> THEN c ELSE thread[t].conn
<1>1. c # None
  BY NoneAssumption
<1>2. CASE \E t \in Thread : Holds(t, h) /\ k = <<"lent", t>>
  <2>1. PICK t \in Thread : Holds(t, h) /\ k = <<"lent", t>>
    BY <1>2
  <2>2. thread' = [thread EXCEPT ![t].conn = c] /\ idle' = idle
    BY <2>1 DEF Put
  <2> DEFINE r == [thread[t] EXCEPT !.conn = c]
  <2>3. Becomes(t, r)
    BY <2>2 DEF Becomes
  <2>4. thread[t] \in ThreadRecord(t, h)
    BY <2>1, Place DEF Holds
  <2>5. /\ r.conn = c /\ r.at = thread[t].at /\ r.host = thread[t].host /\ r.call = thread[t].call
        /\ r.attempt = thread[t].attempt /\ r.endpoints = thread[t].endpoints /\ r.result = thread[t].result
    BY <2>4 DEF ThreadRecord
  <2> HIDE DEF r
  <2>6. thread'[t] = r /\ \A u \in Thread : u # t => thread'[u] = thread[u]
    BY <2>3, OneThread
  <2>7. Changed(h, k, c)
    BY <1>1, <2>1, <2>2, <2>5, <2>6, LentChanged
  <2>8. ASSUME NEW u \in Thread
        PROVE  /\ Same(u) /\ thread'[u].result = thread[u].result
               /\ thread'[u].conn = IF k = <<"lent", u>> THEN c ELSE thread[u].conn
    <3>1. k = <<"lent", u>> <=> u = t
      BY <2>1
    <3>2. QED
      BY <2>5, <2>6, <3>1 DEF Same
  <2>9. QED
    BY <2>7, <2>8
<1>3. CASE \E i \in DOMAIN idle[h] : k = <<"idle", i>>
  <2>1. PICK i \in DOMAIN idle[h] : k = <<"idle", i>>
    BY <1>3
  <2>2. idle' = [idle EXCEPT ![h][i] = c] /\ thread' = thread
    BY <2>1 DEF Put
  <2>3. /\ idle'[h] = [idle[h] EXCEPT ![i] = c]
        /\ \A g \in Host : g # h => idle'[g] = idle[g]
    BY <2>2 DEF TypeOK
  <2>4. /\ DOMAIN idle'[h] = DOMAIN idle[h] /\ idle'[h][i] = c
        /\ \A j \in DOMAIN idle[h] : j # i => idle'[h][j] = idle[h][j]
    BY <2>1, <2>3
  <2>5. ASSUME NEW g \in Endpoint
        PROVE  /\ Connections(g)' = Connections(g)
               /\ \A l \in Connections(g) : Connection(g, l)' = IF g = h /\ l = k THEN c ELSE Connection(g, l)
    <3>1. DOMAIN idle'[g] = DOMAIN idle[g]
      BY <2>3, <2>4, Numbers
    <3>2. Connections(g)' = Connections(g)
      BY <2>2, <3>1 DEF Connections, Holds
    <3>3. ASSUME NEW l \in Connections(g)
          PROVE  Connection(g, l)' = IF g = h /\ l = k THEN c ELSE Connection(g, l)
      <4>1. CASE \E u \in Thread : l = <<"lent", u>> /\ Holds(u, g) /\ Connection(g, l) = thread[u].conn
        <5>1. PICK u \in Thread : l = <<"lent", u>> /\ Holds(u, g) /\ Connection(g, l) = thread[u].conn
          BY <4>1
        <5>2. Connection(g, l)' = thread'[u].conn /\ l # k
          BY <2>1, <5>1 DEF Connection
        <5>3. QED
          BY <2>2, <5>1, <5>2
      <4>2. CASE \E j \in DOMAIN idle[g] : l = <<"idle", j>> /\ Connection(g, l) = idle[g][j]
        <5>1. PICK j \in DOMAIN idle[g] : l = <<"idle", j>> /\ Connection(g, l) = idle[g][j]
          BY <4>2
        <5>2. Connection(g, l)' = idle'[g][j] /\ (l = k <=> j = i)
          BY <2>1, <5>1 DEF Connection
        <5>3. QED
          BY <2>3, <2>4, <5>1, <5>2, Numbers
      <4>3. QED
        BY <4>1, <4>2, ConnectionKinds
    <3>4. QED
      BY <3>2, <3>3
  <2>6. Changed(h, k, c)
    BY <2>5 DEF Changed
  <2>7. \A u \in Thread : k # <<"lent", u>>
    BY <2>1
  <2>8. QED
    BY <2>2, <2>6, <2>7 DEF Same
<1>4. QED
  BY <1>2, <1>3, ConnectionKinds

\* The calls stay the same where only a connection changes.
LEMMA SameCalls ==
  ASSUME TypeOK, TypeOK', CallsPast, NoneAdded, \A t \in Thread : Same(t)
  PROVE  CallsPast'
<1>1. \A u \in Thread : thread[u].call \in Nat /\ thread'[u].call = thread[u].call
  BY CallNumbers DEF Same
<1>2. \A u \in Thread : thread[u].call <= thread'[u].call
  BY <1>1
<1>3. QED
  BY <1>2, CallsPastStep

\* A change of a connection that adds no request.
LEMMA PutAttempts ==
  ASSUME Parts, Parts', Attempts, NEW h \in Host, NEW k \in Connections(h), NEW c \in PoolConnection(h),
         Put(h, k, c), UNCHANGED <<executed, late>>,
         h # Registry => c.requests = Connection(h, k).requests
  PROVE  Attempts'
<1>1. TypeOK /\ TypeOK' /\ CallsPast /\ \A u \in Thread : Attempted(u)
  BY PartsOfAttempts DEF Parts
<1>2. /\ Changed(h, k, c)
      /\ \A t \in Thread : /\ Same(t) /\ thread'[t].result = thread[t].result
                           /\ thread'[t].conn = IF k = <<"lent", t>> THEN c ELSE thread[t].conn
  BY <1>1, PutChanged
<1>3. NoneAdded
  <2>1. \A g \in Endpoint : Connections(g)' = Connections(g)
    BY <1>2 DEF Changed
  <2>2. \A g \in Endpoint : \A l \in Connections(g) : Connection(g, l).requests' = Connection(g, l).requests
    BY <1>2, Numbers DEF Changed
  <2>3. QED
    BY <2>1, <2>2, SameRequests
<1>4. CallsPast'
  BY <1>1, <1>2, <1>3, SameCalls
<1>5. \A u \in Thread : Attempted(u)'
  <2>1. \A u \in Thread : executed[u] \in Nat /\ late[u] \in Nat
    BY <1>1 DEF TypeOK
  <2>2. \A u \in Thread : executed'[u] + late'[u] <= executed[u] + late[u]
    BY <2>1
  <2>3. QED
    BY <1>1, <1>2, <1>3, <2>2, AttemptedKept
<1>6. QED
  BY <1>4, <1>5 DEF Attempts, CallsPast

\* The registry's answer concerns no server.
LEMMA RegistryAnswersAttempts ==
  ASSUME Parts, Parts', Attempts, RegistryAnswers
  PROVE  Attempts'
<1> DEFINE bytes == Serialize(ServiceDiscoveryResponse, <<SetToSeq(listed)>>)
           answer == [bytes |-> Cardinality(DOMAIN bytes), endpoints |-> listed]
<1>1. PICK k \in Connections(Registry) :
        /\ Waiting(Registry, k)
        /\ Put(Registry, k, [Answered(Connection(Registry, k), answer) EXCEPT !.open = FALSE])
  BY DEF RegistryAnswers
<1> DEFINE c == Connection(Registry, k)
           b == Answered(c, answer)
           d == [b EXCEPT !.open = FALSE]
<1>2. /\ TypeOK /\ listed \subseteq Endpoint /\ Registry \in Host /\ UNCHANGED <<executed, late>>
  BY Numbers DEF Parts, TypeOK, RegistryAnswers
<1>3. c \in PoolConnection(Registry) /\ c.requests # << >>
  BY <1>1, <1>2, ConnectionTyped DEF Waiting
<1>4. answer \in Answer(Registry)
  <2>1. DOMAIN bytes \subseteq {1}
    BY DEF Serialize, ServiceDiscoveryResponse
  <2>2. IsFiniteSet({1})
    BY FS_Singleton
  <2>3. Cardinality(DOMAIN bytes) \in Nat
    BY <2>1, <2>2, FS_Subset, FS_CardinalityType
  <2>4. QED
    BY <1>2, <2>3 DEF Answer
<1> HIDE DEF c, answer
<1>5. b \in PoolConnection(Registry)
  BY <1>2, <1>3, <1>4, AnsweredTyped
<1>6. d \in PoolConnection(Registry)
  <2> HIDE DEF b
  <2>1. QED
    BY <1>5 DEF PoolConnection
<1>7. Put(Registry, k, d)
  BY <1>1 DEF c, answer
<1> HIDE DEF d
<1>8. QED
  BY <1>2, <1>6, <1>7, PutAttempts

\* A stray answer answers no request.
LEMMA AnswerAstrayAttempts ==
  ASSUME Parts, Parts', Attempts, NEW h \in Host, AnswerAstray(h)
  PROVE  Attempts'
<1> DEFINE a == [bytes |-> 1, of |-> None, data |-> "sum"]
<1>1. PICK k \in Connections(h) :
        Put(h, k, [Connection(h, k) EXCEPT !.strayed = TRUE, !.answers = Append(@, a)])
  BY DEF AnswerAstray
<1> DEFINE c == Connection(h, k)
           d == [c EXCEPT !.strayed = TRUE, !.answers = Append(c.answers, a)]
<1>2. TypeOK /\ h # Registry /\ UNCHANGED <<cache, total, executed, late, lost, world>>
  BY DEF Parts, AnswerAstray
<1>3. c \in PoolConnection(h)
  BY <1>2, ConnectionTyped
<1>4. a \in Answer(h)
  BY <1>2 DEF Answer
<1>5. Put(h, k, d)
  BY <1>1
<1>6. d.requests = c.requests
  BY <1>3 DEF PoolConnection
<1> HIDE DEF c, a
<1>7. d \in PoolConnection(h)
  <2>1. c.answers \in Seq(Answer(h))
    BY <1>3 DEF PoolConnection
  <2>2. Append(c.answers, a) \in Seq(Answer(h))
    BY <1>4, <2>1
  <2>3. QED
    BY <1>3, <2>2 DEF PoolConnection
<1> HIDE DEF d
<1>8. QED
  BY <1>2, <1>5, <1>6, <1>7, PutAttempts DEF c

\* The places of requests on one connection, which others leave alone.
LEMMA SlotsChanged ==
  ASSUME NEW h \in Endpoint, NEW k \in Connections(h), NEW d, Changed(h, k, d)
  PROVE  \A s \in Slots' : \/ s \in Slots /\ Asks(s)' = Asks(s) /\ ~(s[1] = h /\ s[2] = k)
                           \/ \E i \in DOMAIN d.requests : s = <<h, k, i>> /\ Asks(s)' = d.requests[i]
<1> TAKE s \in Slots'
<1>1. PICK g \in Endpoint : \E l \in Connections(g)' : \E i \in DOMAIN Connection(g, l).requests' : s = <<g, l, i>>
  BY DEF Slots
<1>2. PICK l \in Connections(g)' : \E i \in DOMAIN Connection(g, l).requests' : s = <<g, l, i>>
  BY <1>1
<1>3. PICK i \in DOMAIN Connection(g, l).requests' : s = <<g, l, i>>
  BY <1>2
<1>4. /\ l \in Connections(g) /\ Connection(g, l)' = IF g = h /\ l = k THEN d ELSE Connection(g, l)
      /\ Asks(s)' = Connection(g, l).requests'[i] /\ Asks(s) = Connection(g, l).requests[i]
  BY <1>3 DEF Changed, Asks
<1>5. CASE g = h /\ l = k
  BY <1>3, <1>4, <1>5
<1>6. CASE ~(g = h /\ l = k)
  <2>1. i \in DOMAIN Connection(g, l).requests
    BY <1>3, <1>4, <1>6
  <2>2. s \in Slots
    BY <1>3, <1>4, <2>1, SlotParts
  <2>3. QED
    BY <1>3, <1>4, <1>6, <2>2
<1>7. QED
  BY <1>5, <1>6

\* The oldest request goes, and the others move up.
LEMMA OldestGone ==
  ASSUME TypeOK, NEW h \in Endpoint, NEW k \in Connections(h), NEW d, Changed(h, k, d),
         Connection(h, k).requests # << >>, d.requests = Tail(Connection(h, k).requests)
  PROVE  /\ <<h, k, 1>> \in Slots /\ Asks(<<h, k, 1>>) = Head(Connection(h, k).requests)
         /\ \E f \in [Slots' -> Slots] :
              /\ \A x, y \in Slots' : f[x] = f[y] => x = y
              /\ \A s \in Slots' : Asks(s)' = Asks(f[s]) /\ f[s] # <<h, k, 1>>
<1> DEFINE q == Connection(h, k).requests
           f == [s \in Slots' |-> IF s[1] = h /\ s[2] = k THEN <<h, k, s[3] + 1>> ELSE s]
<1>1. q \in Seq(Request) /\ q # << >> /\ d.requests = Tail(q)
  BY Numbers, ConnectionTyped DEF PoolConnection
<1>2. /\ 1 \in DOMAIN q /\ Head(q) = q[1]
      /\ \A i \in DOMAIN d.requests : i \in Nat /\ i + 1 \in DOMAIN q /\ i + 1 # 1 /\ d.requests[i] = q[i + 1]
  <2> HIDE DEF q
  <2>1. QED
    BY <1>1, TailPlaces
<1>3. <<h, k, 1>> \in Slots /\ Asks(<<h, k, 1>>) = Head(Connection(h, k).requests)
  BY <1>2, SlotParts DEF Asks
<1>8. \A s \in Slots' : \/ s \in Slots /\ Asks(s)' = Asks(s) /\ ~(s[1] = h /\ s[2] = k)
                        \/ \E i \in DOMAIN d.requests : s = <<h, k, i>> /\ Asks(s)' = d.requests[i]
  BY SlotsChanged
<1>4. ASSUME NEW s \in Slots'
      PROVE  /\ f[s] \in Slots /\ Asks(s)' = Asks(f[s]) /\ f[s] # <<h, k, 1>>
             /\ \/ f[s] = s /\ ~(s[1] = h /\ s[2] = k)
                \/ \E i \in Nat : s = <<h, k, i>> /\ f[s] = <<h, k, i + 1>>
  <2>1. CASE s \in Slots /\ Asks(s)' = Asks(s) /\ ~(s[1] = h /\ s[2] = k)
    <3>1. f[s] = s
      BY <2>1
    <3>2. QED
      BY <2>1, <3>1
  <2>2. CASE \E i \in DOMAIN d.requests : s = <<h, k, i>> /\ Asks(s)' = d.requests[i]
    <3>1. PICK i \in DOMAIN d.requests : s = <<h, k, i>> /\ Asks(s)' = d.requests[i]
      BY <2>2
    <3>2. f[s] = <<h, k, i + 1>>
      BY <3>1
    <3>3. i \in Nat /\ i + 1 \in DOMAIN q /\ i + 1 # 1 /\ d.requests[i] = q[i + 1]
      BY <1>2, <3>1
    <3>4. f[s] \in Slots /\ Asks(f[s]) = q[i + 1]
      <4> HIDE DEF f
      <4>1. QED
        BY <3>2, <3>3, SlotParts DEF Asks
    <3>5. QED
      BY <3>1, <3>2, <3>3, <3>4
  <2>3. \/ s \in Slots /\ Asks(s)' = Asks(s) /\ ~(s[1] = h /\ s[2] = k)
        \/ \E i \in DOMAIN d.requests : s = <<h, k, i>> /\ Asks(s)' = d.requests[i]
    BY <1>8
  <2>4. QED
    BY <2>1, <2>2, <2>3
<1>5. f \in [Slots' -> Slots]
  BY <1>4
<1> HIDE DEF f
<1>6. ASSUME NEW x \in Slots', NEW y \in Slots', f[x] = f[y] PROVE x = y
  <2>1. ASSUME NEW v \in Slots', NEW w \in Slots', f[v] = f[w], f[v] = v, ~(v[1] = h /\ v[2] = k)
        PROVE  v = w
    <3>1. ASSUME NEW i \in Nat, w = <<h, k, i>>, f[w] = <<h, k, i + 1>> PROVE FALSE
      <4>1. v = <<h, k, i + 1>>
        BY <2>1, <3>1
      <4>2. QED
        BY <2>1, <4>1
    <3>2. QED
      BY <1>4, <2>1, <3>1
  <2>2. ASSUME NEW i \in Nat, x = <<h, k, i>>, f[x] = <<h, k, i + 1>>,
               NEW j \in Nat, y = <<h, k, j>>, f[y] = <<h, k, j + 1>>
        PROVE  x = y
    <3>1. i + 1 = j + 1
      BY <1>6, <2>2
    <3>2. QED
      BY <2>2, <3>1
  <2>3. QED
    BY <1>4, <1>6, <2>1, <2>2
<1>7. QED
  BY <1>3, <1>4, <1>5, <1>6

\* A connection that loses all its requests leaves with them.
LEMMA ChangedLeaves ==
  ASSUME NEW h \in Endpoint, NEW k \in Connections(h), NEW d, Changed(h, k, d), d.requests = << >>
  PROVE  Leaves(h, k)
<1>1. ASSUME NEW s \in Slots' PROVE s \in Slots /\ Asks(s)' = Asks(s) /\ ~(s[1] = h /\ s[2] = k)
  <2>1. DOMAIN d.requests = {}
    OBVIOUS
  <2>2. QED
    BY <2>1, SlotsChanged
<1>2. ASSUME NEW s \in Slots, ~(s[1] = h /\ s[2] = k) PROVE s \in Slots'
  <2>1. PICK g \in Endpoint : \E l \in Connections(g) : \E i \in DOMAIN Connection(g, l).requests : s = <<g, l, i>>
    BY SlotParts
  <2>2. PICK l \in Connections(g) : \E i \in DOMAIN Connection(g, l).requests : s = <<g, l, i>>
    BY <2>1
  <2>3. PICK i \in DOMAIN Connection(g, l).requests : s = <<g, l, i>>
    BY <2>2
  <2>4. l \in Connections(g)' /\ Connection(g, l)' = Connection(g, l)
    BY <1>2, <2>3 DEF Changed
  <2>5. QED
    BY <2>3, <2>4 DEF Slots
<1>3. QED
  BY <1>1, <1>2 DEF Leaves

\* The requests on a connection that ends are executed late, or not at all.
LEMMA PeerClosesAttempts ==
  ASSUME Parts, Parts', Attempts, NEW h \in Host, PeerCloses(h)
  PROVE  Attempts'
<1>1. PICK k \in Connections(h) :
        /\ Put(h, k, [Connection(h, k) EXCEPT !.open = FALSE, !.requests = << >>])
        /\ Left(h, Connection(h, k))
  BY DEF PeerCloses
<1> DEFINE c == Connection(h, k)
           d == [c EXCEPT !.open = FALSE, !.requests = << >>]
<1>2. TypeOK /\ TypeOK' /\ UNCHANGED <<cache, total, executed, lost, world>>
  BY DEF Parts, PeerCloses
<1>3. c \in PoolConnection(h)
  BY <1>2, ConnectionTyped
<1>4. Put(h, k, d)
  BY <1>1
<1> HIDE DEF c
<1>5. d \in PoolConnection(h) /\ d.requests = << >>
  <2>1. << >> \in Seq(Request)
    OBVIOUS
  <2>2. QED
    BY <1>3, <2>1 DEF PoolConnection
<1> HIDE DEF d
<1>6. CASE h = Registry
  <2>1. late' = late
    BY <1>1, <1>6 DEF Left
  <2>2. QED
    BY <1>2, <1>4, <1>5, <1>6, <2>1, PutAttempts
<1>7. CASE h # Registry
  <2>1. h \in Endpoint
    BY <1>7 DEF Host
  <2>2. Changed(h, k, d) /\ \A t \in Thread : Same(t)
    BY <1>2, <1>4, <1>5, PutChanged
  <2>3. Leaves(h, k)
    BY <1>5, <2>1, <2>2, ChangedLeaves
  <2>4. CallsPast'
    BY <1>2, <2>2, <2>3, LeavesNone, PartsOfAttempts, SameCalls
  <2>5. ASSUME NEW t \in Thread PROVE Attempted(t)'
    <3>1. CallId(t)' = CallId(t) /\ Due(t)' = Due(t) /\ (Discovers(t)' <=> Discovers(t))
      BY <2>2 DEF Same, CallId, Due, Unsent, Discovers
    <3>2. Attempted(t) /\ Due(t) \in {0, 1} /\ thread[t].attempt \in Nat
      BY <1>2, CountNumbers DEF Attempts, Attempted
    <3>3. Due(t)' + thread[t].attempt <= Due(t) + thread'[t].attempt
      BY <2>2, <3>1, <3>2 DEF Same
    <3>4. /\ Discovers(t)' => thread'[t].attempt = 0 /\ thread'[t].endpoints = {}
          /\ thread'[t].at \in {"update", "select"} => thread'[t].attempt = 0
      BY <2>2, <3>1, <3>2 DEF Same, Attempted
    <3>5. QED
      BY <1>1, <1>2, <2>1, <2>3, <3>1, <3>2, <3>3, <3>4, LeftAttempted
  <2>6. QED
    BY <2>4, <2>5 DEF Attempts, CallsPast
<1>8. QED
  BY <1>6, <1>7

\* A server executes a request, and answers it: one less is to come.
LEMMA ServerAnswersAttempts ==
  ASSUME Parts, Parts', Attempts, NEW h \in Host, ServerAnswers(h)
  PROVE  Attempts'
<1> DEFINE answer(id, data) == [bytes |-> 1, of |-> id, data |-> data]
<1>1. PICK k \in Connections(h) :
        /\ Waiting(h, k)
        /\ executed' = Executed(Head(Connection(h, k).requests))
        /\ \/ /\ Put(h, k, Answered(Connection(h, k), answer(Head(Connection(h, k).requests),
                                                             Data(Head(Connection(h, k).requests)[1]))))
              /\ UNCHANGED faults
           \/ Put(h, k, Answered(Connection(h, k), answer(Head(Connection(h, k).requests), ""))) /\ Fault
  BY DEF ServerAnswers
<1> DEFINE c == Connection(h, k)
           q == c.requests
<1>2. /\ TypeOK /\ TypeOK' /\ h # Registry /\ h \in Endpoint
      /\ UNCHANGED <<cache, total, late, lost, world>>
  BY DEF Parts, ServerAnswers, Host
<1>3. c \in PoolConnection(h) /\ q # << >> /\ q \in Seq(Request)
  <2>1. c \in PoolConnection(h) /\ c.requests # << >>
    BY <1>1, <1>2, ConnectionTyped DEF Waiting
  <2>2. QED
    BY <2>1 DEF PoolConnection
<1>4. PICK id \in Request : id = Head(q)
  <2> HIDE DEF q
  <2>1. QED
    BY <1>3
<1>5. PICK data : Put(h, k, Answered(c, answer(id, data))) /\ answer(id, data) \in Answer(h)
  <2>1. \A x \in {"", "sum"} : answer(id, x) \in Answer(h)
    BY <1>2, <1>4 DEF Answer
  <2>2. answer(id, Data(id[1])) \in Answer(h) /\ answer(id, "") \in Answer(h)
    BY <2>1 DEF Data
  <2>3. QED
    BY <1>1, <1>4, <2>2
<1>6. executed' = Executed(id)
  BY <1>1, <1>4
<1> DEFINE a == answer(id, data)
           d == Answered(c, a)
<1>7. a \in Answer(h)
  BY <1>5
<1> HIDE DEF a, c, q
<1>8. d \in PoolConnection(h)
  BY <1>3, <1>7, AnsweredTyped DEF q
<1>9. d.requests = Tail(q)
  BY <1>3 DEF Answered, PoolConnection, q
<1>10. Put(h, k, d)
  BY <1>5 DEF a
<1> HIDE DEF d, answer
<1>11. /\ Changed(h, k, d)
       /\ \A t \in Thread : /\ Same(t) /\ thread'[t].result = thread[t].result
                            /\ thread'[t].conn = IF k = <<"lent", t>> THEN d ELSE thread[t].conn
  BY <1>2, <1>8, <1>10, PutChanged
<1>12. /\ <<h, k, 1>> \in Slots /\ Asks(<<h, k, 1>>) = id
       /\ \E f \in [Slots' -> Slots] :
            /\ \A x, y \in Slots' : f[x] = f[y] => x = y
            /\ \A s \in Slots' : Asks(s)' = Asks(f[s]) /\ f[s] # <<h, k, 1>>
  BY <1>2, <1>3, <1>4, <1>9, <1>11, OldestGone DEF c, q
<1>13. PICK f \in [Slots' -> Slots] : /\ \A x, y \in Slots' : f[x] = f[y] => x = y
                                      /\ \A s \in Slots' : Asks(s)' = Asks(f[s]) /\ f[s] # <<h, k, 1>>
  BY <1>12
<1>14. NoneAdded
  BY <1>13 DEF NoneAdded
<1>15. CallsPast'
  BY <1>2, <1>11, <1>14, PartsOfAttempts, SameCalls
<1>16. ASSUME NEW t \in Thread PROVE executed'[t] = IF id = CallId(t) THEN executed[t] + 1 ELSE executed[t]
  <2>1. id = <<id[1], id[2]>> /\ id[1] \in Thread /\ executed \in [Thread -> Nat]
    <3>1. executed \in [Thread -> Nat]
      BY <1>2 DEF TypeOK
    <3>2. id \in Thread \X Nat
      BY <1>4 DEF Request
    <3>3. QED
      BY <3>1, <3>2
  <2>2. id = CallId(t) <=> id[1] = t /\ Present(id)
    BY <2>1 DEF CallId, Present
  <2>3. QED
    BY <1>6, <2>1, <2>2 DEF Executed
<1>17. ASSUME NEW t \in Thread PROVE Attempted(t)'
  <2>1. late'[t] = late[t] /\ executed[t] \in Nat /\ late[t] \in Nat /\ Attempted(t)
    BY <1>2 DEF TypeOK, Attempts
  <2>2. CASE id # CallId(t)
    <3>1. executed'[t] + late'[t] <= executed[t] + late[t]
      BY <1>16, <2>1, <2>2
    <3>2. QED
      BY <1>2, <1>11, <1>14, <2>1, <3>1, AttemptedKept
  <2>3. CASE id = CallId(t)
    <3> DEFINE T == Unanswered(t) \ {<<h, k, 1>>}
               S == Unanswered(t)'
               g == [s \in S |-> f[s]]
    <3>1. CallId(t)' = CallId(t) /\ Due(t)' = Due(t) /\ (Discovers(t)' <=> Discovers(t))
      BY <1>11 DEF Same, CallId, Due, Unsent, Discovers
    <3>2. /\ IsFiniteSet(Unanswered(t))
          /\ executed[t] + late[t] + Cardinality(Unanswered(t)) + Due(t) <= thread[t].attempt
          /\ executed[t] \in Nat /\ late[t] \in Nat /\ Cardinality(Unanswered(t)) \in Nat
          /\ thread[t].attempt \in Nat /\ Due(t) \in {0, 1}
      BY <1>2, CountNumbers DEF Attempts, Attempted, Due
    <3>3. <<h, k, 1>> \in Unanswered(t)
      BY <1>12, <2>3 DEF Unanswered
    <3>4. IsFiniteSet(T) /\ Cardinality(T) = Cardinality(Unanswered(t)) - 1
      BY <3>2, <3>3, FS_RemoveElement
    <3>5. \A s \in S : s \in Slots' /\ f[s] \in T
      BY <1>13, <3>1 DEF Unanswered
    <3> HIDE DEF S, T
    <3>6. g \in [S -> T] /\ \A x, y \in S : g[x] = g[y] => x = y
      BY <1>13, <3>5
    <3> HIDE DEF g
    <3>7. IsFiniteSet(S) /\ Cardinality(S) <= Cardinality(T) /\ Cardinality(S) \in Nat
      BY <3>4, <3>6, NotMore
    <3>8. executed'[t] = executed[t] + 1 /\ late'[t] = late[t] /\ thread'[t].attempt = thread[t].attempt
      BY <1>11, <1>16, <2>1, <2>3 DEF Same
    <3>9. executed'[t] + late'[t] + Cardinality(S) + Due(t)' <= thread'[t].attempt
      BY <3>1, <3>2, <3>4, <3>7, <3>8
    <3>10. QED
      BY <1>11, <2>1, <3>1, <3>7, <3>9 DEF Attempted, Due, Same, S
  <2>4. QED
    BY <2>2, <2>3
<1>18. QED
  BY <1>15, <1>17 DEF Attempts, CallsPast

\* a step of the client, in call() or while it waits in acquire() or receive()
LEMMA StepsAttempts ==
  ASSUME Parts, Parts', Attempts, NEW t \in Thread, Steps(t)
  PROVE  Attempts'
BY DiscoverAttempts, UpdateAttempts, SelectAttempts, AcquireIdleAttempts, AcquireNewAttempts,
   AcquireFailsAttempts, SendAttempts, SendFailsAttempts,
   ReceiveEndpointsAttempts, ReceiveResultAttempts DEF Steps

\* Every step counts what it executes, and what it makes due.
LEMMA AttemptsStep == Parts /\ Parts' /\ Attempts /\ [Next]_vars => Attempts'
<1> SUFFICES ASSUME Parts, Parts', Attempts, [Next]_vars PROVE Attempts'
  OBVIOUS
<1>1. ASSUME NEW t \in Thread, Call(t) \/ Steps(t) \/ LateExecution(t) PROVE Attempts'
  BY <1>1, CallAttempts, StepsAttempts, LateExecutionAttempts
<1>2. ASSUME NEW t \in Thread, BrokenPipe(t) PROVE Attempts'
  BY <1>2, QuietAttempts DEF BrokenPipe
<1>3. ASSUME NEW h \in Host, PeerCloses(h) \/ AnswerAstray(h) PROVE Attempts'
  BY <1>3, PeerClosesAttempts, AnswerAstrayAttempts
<1>4. CASE Served
  BY <1>4, RegistryAnswersAttempts, ServerAnswersAttempts DEF Served
<1>5. CASE Change \/ Tick \/ UNCHANGED vars
  BY <1>5, QuietAttempts DEF Change, Tick, vars
<1>6. QED
  BY <1>1, <1>2, <1>3, <1>4, <1>5 DEF Next

\* Nothing is executed, or on its way, when the client begins.
LEMMA InitAttempts == Init => Attempts
<1> SUFFICES ASSUME Init PROVE Attempts
  OBVIOUS
<1>1. /\ \A t \in Thread : thread[t] = Idle(0) /\ executed[t] = 0 /\ late[t] = 0
      /\ \A h \in Endpoint : idle[h] = << >>
  BY Numbers DEF Init
<1>2. \A t \in Thread : /\ thread[t].at = "idle" /\ thread[t].conn = None /\ thread[t].attempt = 0
                        /\ thread[t].endpoints = {}
  BY <1>1 DEF Idle
<1>3. \A h \in Endpoint : Connections(h) = {}
  BY <1>1, <1>2 DEF Connections, Holds
<1>4. Slots = {}
  BY <1>3 DEF Slots
<1>5. ASSUME NEW t \in Thread PROVE Attempted(t)
  <2>1. IsFiniteSet(Unanswered(t)) /\ Cardinality(Unanswered(t)) = 0
    BY <1>4, FS_EmptySet DEF Unanswered
  <2>2. ~Unsent(t) /\ ~Discovers(t)
    BY <1>2 DEF Unsent, Discovers
  <2>3. Attempted(t)
    BY <1>1, <1>2, <2>1, <2>2 DEF Attempted
  <2>4. QED
    BY <2>3
<1>6. QED
  BY <1>4, <1>5 DEF Attempts

\* The count is one of the connections, too, on which a call's requests wait.
LEMMA AttemptsSuffice == TypeOK /\ Attempts => ExecutedForAttempts
<1> SUFFICES ASSUME TypeOK, Attempts, NEW t \in Thread
             PROVE  LET waiting(h) == {<<h, k>> : k \in {l \in Connections(h) : Requests(Connection(h, l), t) > 0}}
                    IN  executed[t] + late[t] + Cardinality(UNION {waiting(h) : h \in Endpoint}) <= thread[t].attempt
  BY DEF ExecutedForAttempts
<1> DEFINE waiting(h) == {<<h, k>> : k \in {l \in Connections(h) : Requests(Connection(h, l), t) > 0}}
           W == UNION {waiting(h) : h \in Endpoint}
           U == Unanswered(t)
           Of(x, i) == /\ i \in DOMAIN Connection(x[1], x[2]).requests
                       /\ Connection(x[1], x[2]).requests[i] = CallId(t)
           m == [x \in W |-> <<x[1], x[2], CHOOSE i : Of(x, i)>>]
<1>1. ASSUME NEW x \in W
      PROVE  /\ x = <<x[1], x[2]>> /\ x[1] \in Endpoint /\ x[2] \in Connections(x[1])
             /\ \E i : Of(x, i)
  <2>1. PICK h \in Endpoint : x \in waiting(h)
    OBVIOUS
  <2>2. PICK k \in Connections(h) : x = <<h, k>> /\ Requests(Connection(h, k), t) > 0
    BY <2>1
  <2>3. {i \in DOMAIN Connection(h, k).requests : Connection(h, k).requests[i] = CallId(t)} # {}
    <3>1. Cardinality({}) = 0
      BY FS_EmptySet
    <3>2. QED
      BY <2>2, <3>1 DEF Requests
  <2>4. QED
    BY <2>2, <2>3
<1>2. ASSUME NEW x \in W PROVE m[x] \in U /\ x = <<m[x][1], m[x][2]>>
  <2>1. PICK i : i = (CHOOSE j : Of(x, j)) /\ Of(x, i) /\ m[x] = <<x[1], x[2], i>>
    BY <1>1
  <2>2. <<x[1], x[2], i>> \in Slots /\ Asks(<<x[1], x[2], i>>) = CallId(t)
    BY <1>1, <2>1, SlotParts DEF Asks
  <2>3. QED
    BY <1>1, <2>1, <2>2 DEF Unanswered
<1>3. m \in [W -> U] /\ \A x, y \in W : m[x] = m[y] => x = y
  <2>1. m \in [W -> U]
    BY <1>2
  <2> HIDE DEF m, W, U
  <2>2. QED
    BY <1>2, <2>1
<1>4. /\ IsFiniteSet(U) /\ executed[t] + late[t] + Cardinality(U) + Due(t) <= thread[t].attempt
      /\ executed[t] \in Nat /\ late[t] \in Nat /\ Cardinality(U) \in Nat
      /\ thread[t].attempt \in Nat /\ Due(t) \in {0, 1}
  BY CountNumbers DEF Attempts, Attempted, Due
<1> HIDE DEF m, W, U
<1>5. Cardinality(W) <= Cardinality(U) /\ Cardinality(W) \in Nat
  BY <1>3, <1>4, NotMore
<1>6. executed[t] + late[t] + Cardinality(W) <= thread[t].attempt
  BY <1>4, <1>5
<1>7. QED
  BY <1>6 DEF W

-----------------------------------------------------------------------------
(* The theorems.                                                            *)

\* The inductive invariant: the connections the pool counts, the exchange each
\* thread is in, how old its endpoints are, and the executions of its call.
THEOREM Invariant == Spec => []IInv
<1>1. Init => IInv
  BY InitParts, InitAttempts, PartsOfInv
<1>2. IInv /\ [Next]_vars => IInv'
  <2> SUFFICES ASSUME IInv, [Next]_vars PROVE IInv'
    OBVIOUS
  <2>1. Parts /\ Attempts
    BY PartsOfInv
  <2>2. Parts'
    BY <2>1, Step
  <2>3. Attempts'
    BY <2>1, <2>2, AttemptsStep
  <2>4. QED
    BY <2>2, <2>3, PartsOfInv, PTL
<1>3. QED
  BY <1>1, <1>2, PTL DEF Spec

\* The pool's count is what is idle, what threads hold, and one connection for
\* each discovery that failed: callEndpoint() loses none on any path.
THEOREM NothingElseLeaks == Spec => []OnlyDiscoveryLeaks
<1>1. IInv => OnlyDiscoveryLeaks
  BY DEF IInv
<1>2. QED
  BY <1>1, Invariant, PTL

\* A result is the answer to the call that returns it, although the client
\* never compares request ids, unless a stray answer has come to its connection.
THEOREM OwnAnswers == Spec => []OwnAnswer
<1>1. IInv => OwnAnswer
  BY DEF IInv
<1>2. QED
  BY <1>1, Invariant, PTL

\* However threads overwrite each other's cache entries, an endpoint is chosen
\* only within service_cache_ttl after the registry last listed it.
THEOREM Fresh == Spec => []FreshEndpoints
<1>1. IInv => FreshEndpoints
  BY DEF IInv
<1>2. QED
  BY <1>1, Invariant, PTL

\* However often a call is retried, because its connections break, because it
\* waits no longer for its answers or because these are empty, no attempt is
\* executed twice.
THEOREM ExecutedOnce == Spec => []ExecutedForAttempts
<1>1. IInv => ExecutedForAttempts
  BY AttemptsSuffice DEF IInv, OnlyDiscoveryLeaks
<1>2. QED
  BY <1>1, Invariant, PTL

=============================================================================
