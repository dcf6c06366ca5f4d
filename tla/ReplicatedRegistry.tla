------------------------- MODULE ReplicatedRegistry -------------------------
(* DistributedRegistryServer: replicas of RegistryStateMachine, each with a *)
(* clean-up thread and a local clock, over the log that they take RaftNode  *)
(* for. Time passes in ticks of fifteen seconds.                            *)
EXTENDS Wire, Removal, ReplicatedLog, FiniteSets, SequencesExt

CONSTANTS
  Instance,       \* <<service, port>> of the RpcServers, all on one host
  CleanupPeriod,  \* 30 s between the clean-ups of a replica
  Timeout,        \* 30 s without an entry about it and an instance is removed
  MaxLog,         \* entries
  MaxFaults       \* crashes and lost connections of replicas, lost leaders

ASSUME ReplicatedRegistryAssumption ==
  /\ {CleanupPeriod, Timeout, MaxLog, MaxFaults} \subseteq Nat
  /\ Instance \subseteq (STRING \ {NoName}) \X (Nat \ {0}) /\ None \notin Replica

VARIABLES
  up, linked, \* does a replica run, and does it hear from the leader
  applied,    \* last_applied_
  services,   \* services_: from names to sequences of instances and their silence
  cleaner,    \* ticks until cleanupLoop wakes up
  home,       \* the replica all RpcServers are configured with
  faults,
  \* history, which no action reads:
  since,      \* ticks since each committed entry was
  steady,     \* ticks since a replica started, or could hear from a leader again
  lapsed      \* has it removed an instance since it started

replicaVars == <<up, linked, applied, services, cleaner>>
history     == <<since, steady, lapsed>>
vars == <<raftVars, replicaVars, home, faults, history>>

Host == "127.0.0.1"
Name == {i[1] : i \in Instance}
Long == Timeout + CleanupPeriod + 1  \* where counting stops

Init ==
  /\ Empty
  /\ up = [r \in Replica |-> TRUE] /\ linked = [r \in Replica |-> TRUE]
  /\ applied = [r \in Replica |-> 0] /\ services = [r \in Replica |-> << >>]
  /\ cleaner = [r \in Replica |-> CleanupPeriod]
  /\ home \in Replica
  /\ faults = 0
  /\ since = << >> /\ steady = [r \in Replica |-> 0] /\ lapsed = [r \in Replica |-> FALSE]

-----------------------------------------------------------------------------
\* RegistryStateMachine: m is its services_

GetServiceInstances(m, n) == IF n \in DOMAIN m THEN m[n] ELSE << >>

Listed_fresh(m, n, s) ==  \* mutant: compares last_heartbeat, too
  \E k \in DOMAIN GetServiceInstances(m, n) : m[n][k] = [port |-> s, silence |-> 0]
Listed(m, n, s) ==
  \E k \in DOMAIN GetServiceInstances(m, n) : m[n][k].port = s

\* the time it is applied at, whatever the timestamp of the operation
Refreshed(m, n, s) ==
  [m EXCEPT ![n] = [k \in DOMAIN @ |-> IF @[k].port = s THEN [@[k] EXCEPT !.silence = 0] ELSE @[k]]]

RegisterService(m, n, s) ==
  IF Listed(m, n, s) THEN Refreshed(m, n, s)
  ELSE [k \in DOMAIN m \union {n} |->
          IF k = n THEN Append(GetServiceInstances(m, n), [port |-> s, silence |-> 0]) ELSE m[k]]

Instances(m) == UNION {{n} \X Elems(m[n]) : n \in DOMAIN m}

\* without the instances <<name, instance>> in gone; a service goes with its last one
Without(m, gone) ==
  LET left == [n \in DOMAIN m |-> Drop(m[n], {i \in Elems(m[n]) : <<n, i>> \in gone})]
  IN  [n \in {k \in DOMAIN m : left[k] # << >>} |-> left[n]]

UnregisterService(m, n, s) == Without(m, {p \in Instances(m) : p[1] = n /\ p[2].port = s})

UpdateHeartbeat(m, n, s) == IF Listed(m, n, s) THEN Refreshed(m, n, s) ELSE m

ApplyServiceOperation(m, op) ==
  CASE op.type = "register"   -> RegisterService(m, op.name, op.port)
    [] op.type = "unregister" -> UnregisterService(m, op.name, op.port)
    [] op.type = "heartbeat"  -> UpdateHeartbeat(m, op.name, op.port)

Expired_early(i) == i.silence >= Timeout - 1  \* mutant: half the timeout
Expired_never(i) == -i.silence > Timeout      \* mutant: last_heartbeat - now
Expired(i) == i.silence > Timeout

RemoveExpiredServices(m) == Without(m, {p \in Instances(m) : Expired(p[2])})

\* text, as the tokens that operator>> finds in it; names are free of blanks
GetSnapshot_services(m) ==  \* mutant: writes the number of services again
  LET service(n) == <<n, Cardinality(DOMAIN m)>> \o
        FlattenSeq([k \in DOMAIN m[n] |-> <<Host, m[n][k].port, m[n][k].silence>>])
      names == SetToSeq(DOMAIN m)
  IN  <<Len(names)>> \o FlattenSeq([k \in DOMAIN names |-> service(names[k])])
GetSnapshot(m) ==
  LET service(n) == <<n, Len(m[n])>> \o
        FlattenSeq([k \in DOMAIN m[n] |-> <<Host, m[n][k].port, m[n][k].silence>>])
      names == SetToSeq(DOMAIN m)
  IN  <<Len(names)>> \o FlattenSeq([k \in DOMAIN names |-> service(names[k])])

RestoreFromSnapshot(t) ==
  LET instance(at, k) == [port |-> t[at + 3 * k], silence |-> t[at + 3 * k + 1]]
      ReadService(read, k) ==
        LET at == read.at
        IN  [at |-> at + 2 + 3 * t[at + 1],
             m  |-> (t[at] :> [j \in 1..t[at + 1] |-> instance(at, j)]) @@ read.m]
  IN  FoldLeft(ReadService, [at |-> 2, m |-> << >>], [k \in 1..t[1] |-> k]).m

-----------------------------------------------------------------------------
\* handleClientConnection

IsInstance(m) == m[1] # NoName /\ m[2] # NoName /\ m[3] > 0

\* what a request leaves of the log, and its answer
Done(entries, bytes) == [log |-> entries, answer |-> bytes]

\* its timestamp is never read
ProposeServiceOperation(r, type, m) ==
  Done(Proposed(r, [type |-> type, name |-> m[1], port |-> m[3]]),
       Serialize(ServiceRegisterResponse,
         IF leader = r THEN <<TRUE, "proposed">> ELSE <<FALSE, "not the leader">>))

HandleServiceRegister(r, m) == ProposeServiceOperation(r, "register", m)
HandleHeartbeat(r, m)       == ProposeServiceOperation(r, "heartbeat", m)

HandleServiceDiscovery(r, m) ==
  LET found == GetServiceInstances(services[r], m[1])
      info(i) == Serialize(ServiceInfo, <<Host, i.port, 1 + i.silence>>)
  IN  Done(log, Serialize(ServiceDiscoveryResponse, <<[k \in DOMAIN found |-> info(found[k])]>>))

\* the first type that the bytes make sense as; any bytes are a ClusterStatusRequest
Handled(r, b) ==
  LET register  == Parse(ServiceRegisterRequest, b)
      discovery == Parse(ServiceDiscoveryRequest, b)
      heartbeat == Parse(HeartbeatRequest, b)
  IN  IF NoBytes(b) THEN Done(log, None)
      ELSE IF IsInstance(register) THEN HandleServiceRegister(r, register)
      ELSE IF discovery[1] # NoName THEN HandleServiceDiscovery(r, discovery)
      ELSE IF IsInstance(heartbeat) THEN HandleHeartbeat(r, heartbeat)
      ELSE Done(log, "cluster status")

-----------------------------------------------------------------------------
\* RpcServers: they register once and then send heartbeats, until they stop;
\* here each sends either whenever it likes

\* connect() fails at a replica that is down
HandleClientConnection(r, bytes) ==
  /\ Len(log) < MaxLog
  /\ log' = IF up[r] THEN Handled(r, bytes).log ELSE log
  /\ UNCHANGED <<leader, committed, replicaVars, home, faults, history>>

RegisterSingleService(i) ==
  HandleClientConnection(home, Serialize(ServiceRegisterRequest, <<i[1], Host, i[2]>>))

SendHeartbeat(i) ==
  HandleClientConnection(home, Serialize(HeartbeatRequest, <<i[1], Host, i[2]>>))

-----------------------------------------------------------------------------
\* what a replica does by itself

\* a leader tells it what is committed
Hears(r) == up[r] /\ linked[r] /\ leader # None

\* applyCommittedEntries, one round of its loop
ApplyLogEntry(r) ==
  /\ Hears(r) /\ applied[r] < committed
  /\ services' = [services EXCEPT ![r] = ApplyServiceOperation(@, log[applied[r] + 1])]
  /\ applied' = [applied EXCEPT ![r] = @ + 1]
  /\ UNCHANGED <<raftVars, up, linked, cleaner, home, faults, history>>

CleanupLoop(r) ==
  /\ up[r] /\ cleaner[r] = 0
  /\ services' = [services EXCEPT ![r] = RemoveExpiredServices(@)]
  /\ cleaner' = [cleaner EXCEPT ![r] = CleanupPeriod]
  /\ lapsed' = [lapsed EXCEPT ![r] = @ \/ services'[r] # services[r]]
  /\ UNCHANGED <<raftVars, up, linked, applied, home, faults, since, steady>>

-----------------------------------------------------------------------------
\* the log, the network, crashes and time

UpTo(k, n) == IF n < k THEN n + 1 ELSE k

Commit ==
  /\ CommitNext /\ since' = Append(since, 0)
  /\ UNCHANGED <<replicaVars, home, faults, steady, lapsed>>

Lead(r) ==
  /\ up[r] /\ linked[r] /\ Elect(r)
  /\ leader = None \/ faults < MaxFaults
  /\ faults' = IF leader = None THEN faults ELSE faults + 1
  /\ steady' = IF leader = None THEN [q \in Replica |-> 0] ELSE steady
  /\ UNCHANGED <<replicaVars, home, since, lapsed>>

Unlink(r) ==
  /\ linked[r] /\ leader # r /\ faults < MaxFaults /\ faults' = faults + 1
  /\ linked' = [linked EXCEPT ![r] = FALSE]
  /\ UNCHANGED <<raftVars, up, applied, services, cleaner, home, history>>

Link(r) ==
  /\ ~linked[r] /\ linked' = [linked EXCEPT ![r] = TRUE] /\ steady' = [steady EXCEPT ![r] = 0]
  /\ UNCHANGED <<raftVars, up, applied, services, cleaner, home, faults, since, lapsed>>

Crash(r) ==
  /\ up[r] /\ faults < MaxFaults /\ faults' = faults + 1
  /\ up' = [up EXCEPT ![r] = FALSE] /\ Lose(r)
  /\ applied' = [applied EXCEPT ![r] = 0] /\ services' = [services EXCEPT ![r] = << >>]
  /\ cleaner' = [cleaner EXCEPT ![r] = CleanupPeriod]
  /\ lapsed' = [lapsed EXCEPT ![r] = FALSE]
  /\ UNCHANGED <<linked, home, since, steady>>

\* a replica starts empty, and is sent the log from its first entry
StartReplica(r) ==
  /\ ~up[r] /\ up' = [up EXCEPT ![r] = TRUE] /\ steady' = [steady EXCEPT ![r] = 0]
  /\ UNCHANGED <<raftVars, linked, applied, services, cleaner, home, faults, since, lapsed>>

Prompt(r) ==  \* no thread of r is late
  /\ up[r] => cleaner[r] > 0
  /\ Hears(r) => applied[r] = committed

Aged(m) ==
  [n \in DOMAIN m |-> [k \in DOMAIN m[n] |->
     [m[n][k] EXCEPT !.silence = UpTo(Timeout + 1, @)]]]

Tick ==
  /\ \A r \in Replica : Prompt(r)
  /\ services' = [r \in Replica |-> Aged(services[r])]
  /\ cleaner' = [r \in Replica |-> cleaner[r] - (IF up[r] THEN 1 ELSE 0)]
  /\ since' = [k \in DOMAIN since |-> UpTo(Long, since[k])]
  /\ steady' = [r \in Replica |-> UpTo(Long, steady[r])]
  /\ UNCHANGED <<raftVars, up, linked, applied, home, faults, lapsed>>

Next ==
  \/ Commit \/ Tick
  \/ \E i \in Instance : RegisterSingleService(i) \/ SendHeartbeat(i)
  \/ \E r \in Replica : \/ ApplyLogEntry(r) \/ CleanupLoop(r) \/ Lead(r)
                        \/ Unlink(r) \/ Link(r) \/ Crash(r) \/ StartReplica(r)

Spec == Init /\ [][Next]_vars

-----------------------------------------------------------------------------
Entry == [type : {"register", "unregister", "heartbeat"}, name : Name, port : Nat]
InstanceInfo == [port : Nat, silence : 0..(Timeout + 1)]
Content(m) ==
  /\ DOMAIN m \subseteq Name
  /\ \A n \in DOMAIN m : /\ m[n] \in Seq(InstanceInfo) /\ m[n] # << >>
                         /\ \A k \in DOMAIN m[n] : <<n, m[n][k].port>> \in Instance

TypeOK ==
  /\ leader \in Replica \union {None} /\ log \in Seq(Entry)
  /\ committed \in 0..Len(log) /\ since \in Seq(0..Long) /\ Len(since) = committed
  /\ faults \in 0..MaxFaults
  /\ {up, linked, lapsed} \subseteq [Replica -> BOOLEAN]
  /\ applied \in [Replica -> 0..committed] /\ cleaner \in [Replica -> 0..CleanupPeriod]
  /\ DOMAIN services = Replica /\ \A r \in Replica : Content(services[r])
  /\ home \in Replica /\ steady \in [Replica -> 0..Long]

\* Replicas that have applied as many entries and have not removed any
\* instance answer a discovery with the same instances in the same order,
\* although each has applied them at its own time.
Found(r, n) ==
  LET answer == Handled(r, Serialize(ServiceDiscoveryRequest, <<n>>)).answer
      found  == Parse(ServiceDiscoveryResponse, answer)[1]
  IN  [k \in DOMAIN found |-> Parse(ServiceInfo, found[k])[2]]
ReplicasAgree ==
  /\ TypeOK
  /\ \A r, q \in Replica, n \in Name :
       applied[r] = applied[q] /\ ~lapsed[r] /\ ~lapsed[q] => Found(r, n) = Found(q, n)

\* What a replica removes by its own clock is never what an entry it has
\* applied still vouches for: replicas only disagree about instances of which
\* nothing has been committed for 30 s.
VouchedForListed ==
  \A r \in Replica : up[r] => \A k \in 1..applied[r] :
    since[k] <= Timeout => Listed(services[r], log[k].name, log[k].port)

\* Some time after a replica started, or could hear from a leader again, it lists
\* nobody of whom nothing was committed in that time: it replays the log and
\* revives the dead, but not for longer.
Forgotten == Timeout + CleanupPeriod
DeadForgotten ==
  \A r \in Replica, i \in Instance :
    up[r] /\ steady[r] > Forgotten /\ Listed(services[r], i[1], i[2])
      => \E k \in 1..committed : <<log[k].name, log[k].port>> = i /\ since[k] <= Forgotten

\* A snapshot restores what it was taken of, clocks of one machine assumed.
SnapshotRestores ==
  \A r \in Replica : RestoreFromSnapshot(GetSnapshot(services[r])) = services[r]

-----------------------------------------------------------------------------
\* The inductive invariant (module ReplicatedRegistryProofs).

\* A heartbeat is proposed as a registration: they have the same bytes.
Registrations ==
  \A k \in DOMAIN log : log[k].type = "register" /\ <<log[k].name, log[k].port>> \in Instance

Says(e, n, s) == e.name = n /\ e.port = s
Members(m, n, s) == {x \in Elems(GetServiceInstances(m, n)) : x.port = s}

\* of the first a entries of l, those that name an instance of n first
Firsts(l, n, a) ==
  {k \in 1..a : l[k].name = n /\ \A j \in 1..(k - 1) : ~Says(l[j], n, l[k].port)}
\* found has their ports, in their order
Replayed(l, found, n, a) ==
  \E f \in [1..Len(found) -> Firsts(l, n, a)] :
    /\ \A k \in Firsts(l, n, a) : \E i \in 1..Len(found) : f[i] = k
    /\ \A i \in 1..Len(found) : l[f[i]].port = found[i].port
    /\ \A i, j \in 1..Len(found) : i < j => f[i] < f[j]
\* Nothing but silence is lost of what was applied, unless a clock removed it.
ReplayOf(l, m, a) ==
  /\ \A k \in 1..a : Listed(m, l[k].name, l[k].port)
  /\ \A n \in Name : Replayed(l, GetServiceInstances(m, n), n, a)
Replays == \A r \in Replica : ~lapsed[r] => ReplayOf(log, services[r], applied[r])

\* An instance has been silent for no longer than any entry about it has been
\* committed; t is since.
VouchedBy(l, t, m, a) ==
  \A k \in 1..a : t[k] <= Timeout =>
    \E x \in Members(m, l[k].name, l[k].port) : x.silence <= t[k]
Vouches == \A r \in Replica : VouchedBy(log, since, services[r], applied[r])

\* A replica that hears from a leader since the last tick has applied what was
\* committed before it.
Heard(t, a) == \A k \in DOMAIN t : t[k] > 0 => k <= a
Abreast == \A r \in Replica : Hears(r) /\ steady[r] > 0 => Heard(since, applied[r])

\* A listed instance was refreshed before the replica was steady, or by an
\* entry that was committed at the time.
Grace(x, left) == IF x.silence <= Timeout THEN x.silence ELSE Timeout + CleanupPeriod - left
FadesBy(l, t, m, ticks, left) ==
  \A i \in Instance : \A x \in Members(m, i[1], i[2]) :
    \/ ticks <= Grace(x, left)
    \/ \E k \in DOMAIN t : Says(l[k], i[1], i[2]) /\ t[k] <= Grace(x, left)
Fades == \A r \in Replica : up[r] => FadesBy(log, since, services[r], steady[r], cleaner[r])

\* What replicas hold, what clocks may have removed of it, and how long ago
\* a server was last heard of, whatever is committed, when, and what fails.
IInv == TypeOK /\ Registrations /\ Replays /\ Vouches /\ Abreast /\ Fades

=============================================================================
