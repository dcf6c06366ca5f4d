------------------------------ MODULE Registry ------------------------------
(* RegistryServer and the RpcServers that register with it. Time passes in  *)
(* ticks of five seconds; a thread runs when it is due, and a request is    *)
(* handled at most MaxDelay ticks after it was sent. A server is known by   *)
(* its port. Requests are bytes without a type (module Wire).               *)
EXTENDS Wire, Removal, FiniteSets

CONSTANTS
  Server,           \* the ports of the RpcServers, all on one host
  Names,            \* the services each of them registers, in this order
  HeartbeatPeriod,  \* 15 s between the heartbeats of a server
  CheckPeriod,      \* 10 s between the registry's checks
  Timeout,          \* 30 s without a heartbeat and an instance is removed
  MaxDelay,         \* ticks a request may be on its way
  MaxFaults         \* crashes and restarts

ASSUME RegistryAssumption ==
  /\ Server \subseteq Nat \ {0} /\ Names \in Seq(STRING \ {NoName}) /\ Names # << >>
  /\ {HeartbeatPeriod, CheckPeriod, Timeout, MaxDelay, MaxFaults} \subseteq Nat

\* 15 s and the delay of each request are the longest gap between two
\* heartbeats of an instance, and no longer than 30 s
Comeback == HeartbeatPeriod + Len(Names) * MaxDelay
ASSUME HeartbeatsInTime == Comeback <= Timeout

VARIABLES
  registry,  \* is the registry's process up
  services,  \* services_: per name a sequence of instances and their silence in ticks
  checker,   \* ticks until heartbeat_checker_ wakes up
  process,   \* of each server: "off", "running", "stopping" (in stop()), "stopped"
  enroller,  \* its registration thread: the name it is at, and whether it waits for an answer
  heart,     \* its heartbeat thread: the same, and the ticks it still sleeps
  seeker,    \* a program that looks names up: the name it waits for, or NoName
  requests,  \* what connection threads of the registry have still to handle
  faults,
  \* history, which no action reads:
  steady,    \* <<name, server>> recorded while both processes run, which they have done since
  together,  \* ticks a server and the registry have both been running
  silent,    \* ticks since a server stopped serving
  owed,      \* the servers steady under the seeker's name ever since it asked
  missed     \* of those, the ones its last answer lacked

registryVars == <<registry, services, checker>>
serverVars   == <<process, enroller, heart>>
history      == <<steady, together, silent, owed, missed>>
vars == <<registryVars, serverVars, seeker, requests, faults, history>>

Name     == Elems(Names)
Host     == "127.0.0.1"
Seeker   == 0  \* where a server has its port
Finished == Len(Names) + 1
Long     == Timeout + CheckPeriod + HeartbeatPeriod + Len(Names) * MaxDelay + 1  \* where history stops counting
Serving(s) == process[s] \in {"running", "stopping"}

NewEnroller == [at |-> 1, waits |-> FALSE]
NewHeart    == [at |-> 1, waits |-> FALSE, left |-> 0]

Init ==
  /\ registry = TRUE /\ services = [n \in Name |-> << >>] /\ checker = 0
  /\ process = [s \in Server |-> "off"]
  /\ enroller = [s \in Server |-> NewEnroller] /\ heart = [s \in Server |-> NewHeart]
  /\ seeker = NoName /\ requests = {} /\ faults = 0
  /\ steady = {} /\ together = [s \in Server |-> 0] /\ silent = [s \in Server |-> Long]
  /\ owed = {} /\ missed = {}

-----------------------------------------------------------------------------
\* RegistryServer

\* the place of an instance in the vector of its service, 0 if it is not there
IndexOf(n, s) ==
  LET at == {i \in DOMAIN services[n] : services[n][i].port = s}
  IN  IF at = {} THEN 0 ELSE CHOOSE i \in at : \A j \in at : i <= j

Listed_whole(n, s) ==  \* mutant: compares last_heartbeat, too
  \E i \in DOMAIN services[n] : services[n][i] = [port |-> s, silence |-> 0]
Listed(n, s) == \E i \in DOMAIN services[n] : services[n][i].port = s

IsInstance(m) == m[1] # NoName /\ m[2] # NoName /\ m[3] > 0

Refreshed(n, s) == [services EXCEPT ![n][IndexOf(n, s)].silence = 0]

HandleServiceRegister(m) ==
  [services |-> IF Listed(m[1], m[3])
                THEN Refreshed(m[1], m[3])
                ELSE [services EXCEPT ![m[1]] = Append(@, [port |-> m[3], silence |-> 0])],
   answer   |-> Serialize(ServiceRegisterResponse, <<TRUE, "registered">>)]

HandleServiceDiscovery_tail(m) ==  \* mutant: the loop starts at 1
  [services |-> services,
   answer   |-> Serialize(ServiceDiscoveryResponse,
                  <<[k \in 2..Len(services[m[1]]) |->
                       Serialize(ServiceInfo, <<Host, services[m[1]][k].port, 1>>)]>>)]
HandleServiceDiscovery(m) ==
  LET info(i) == Serialize(ServiceInfo, <<Host, i.port, 1 + i.silence>>)
  IN  [services |-> services,
       answer   |-> Serialize(ServiceDiscoveryResponse,
                      <<[k \in DOMAIN services[m[1]] |-> info(services[m[1]][k])]>>)]

HandleHeartbeat(m) ==
  [services |-> IF Listed(m[1], m[3]) THEN Refreshed(m[1], m[3]) ELSE services,
   answer   |-> Serialize(HeartbeatResponse, <<Listed(m[1], m[3]), "heartbeat">>)]

Handled_heartbeatFirst(b) ==  \* mutant: tries the most frequent message first
  HandleHeartbeat(Parse(HeartbeatRequest, b))
\* the first type that the bytes make sense as
Handled(b) ==
  LET register  == Parse(ServiceRegisterRequest, b)
      discovery == Parse(ServiceDiscoveryRequest, b)
      heartbeat == Parse(HeartbeatRequest, b)
  IN  IF IsInstance(register) THEN HandleServiceRegister(register)
      ELSE IF discovery[1] # NoName THEN HandleServiceDiscovery(discovery)
      ELSE IF IsInstance(heartbeat) THEN HandleHeartbeat(heartbeat)
      ELSE [services |-> services, answer |-> << >>]

Expired_period(i) == i.silence > HeartbeatPeriod  \* mutant: a timeout of one period
Expired_reversed(i) == -i.silence > Timeout       \* mutant: last_heartbeat - now
Expired(i) == i.silence > Timeout

CheckHeartbeat ==
  /\ registry /\ checker = 0
  /\ services' = [n \in Name |-> Drop(services[n], {i \in Elems(services[n]) : Expired(i)})]
  /\ checker' = CheckPeriod
  /\ UNCHANGED <<registry, serverVars, seeker, requests, faults, history>>

-----------------------------------------------------------------------------
\* RpcServer: registerToRegistry() and sendHeartbeat(), each on its own thread

Request(from, thread, bytes) ==
  [from |-> from, thread |-> thread, bytes |-> bytes, age |-> 0, live |-> TRUE]

\* the next name, or the end of the list
Enrolled(s) == [enroller EXCEPT ![s] = [at |-> @.at + 1, waits |-> FALSE]]
EnrollFails(s) == [enroller EXCEPT ![s] = [at |-> Finished, waits |-> FALSE]]
Beaten(s) ==
  [heart EXCEPT ![s] = IF @.at = Len(Names)
                       THEN [at |-> 1, waits |-> FALSE, left |-> HeartbeatPeriod]
                       ELSE [at |-> @.at + 1, waits |-> FALSE, left |-> 0]]

\* connect() fails while the registry is down, which ends the registration
RegisterSingleService(s) ==
  /\ process[s] # "off" /\ enroller[s].at # Finished /\ ~enroller[s].waits
  /\ LET bytes == Serialize(ServiceRegisterRequest, <<Names[enroller[s].at], Host, s>>)
     IN  IF registry THEN /\ requests' = requests \union {Request(s, "enroller", bytes)}
                          /\ enroller' = [enroller EXCEPT ![s].waits = TRUE]
                     ELSE enroller' = EnrollFails(s) /\ UNCHANGED requests
  /\ UNCHANGED <<registryVars, process, heart, seeker, faults, history>>

HeartDue(s) ==
  /\ ~heart[s].waits /\ heart[s].left = 0
  /\ \/ process[s] = "running"
     \/ process[s] = "stopping" /\ heart[s].at > 1

\* a name whose heartbeat fails does not keep the others from theirs
SendHeartbeatForService(s) ==
  /\ HeartDue(s)
  /\ LET bytes == Serialize(HeartbeatRequest, <<Names[heart[s].at], Host, s>>)
     IN  IF registry THEN /\ requests' = requests \union {Request(s, "heart", bytes)}
                          /\ heart' = [heart EXCEPT ![s].waits = TRUE]
                     ELSE heart' = Beaten(s) /\ UNCHANGED requests
  /\ UNCHANGED <<registryVars, process, enroller, seeker, faults, history>>

\* the thread that waits for the answer to r gets it, or the end of the connection
Answered(r) ==
  /\ enroller' = IF r.live /\ r.thread = "enroller" THEN Enrolled(r.from) ELSE enroller
  /\ heart' = IF r.live /\ r.thread = "heart" THEN Beaten(r.from) ELSE heart

Start(s) ==
  /\ process[s] = "off"
  /\ process' = [process EXCEPT ![s] = "running"]
  /\ enroller' = [enroller EXCEPT ![s] = NewEnroller]
  /\ heart' = [heart EXCEPT ![s] = NewHeart]
  /\ silent' = [silent EXCEPT ![s] = 0]
  /\ UNCHANGED <<registryVars, seeker, requests, faults, steady, together, owed, missed>>

\* what ends with a process that ran until now
Unsteady(s) ==
  /\ steady' = {p \in steady : p[2] # s} /\ owed' = owed \ {s}
  /\ together' = [together EXCEPT ![s] = 0]
  /\ UNCHANGED missed

\* stop() joins the heartbeat thread, which may be asleep; nobody joins the other
Stop(s) ==
  /\ process[s] = "running" /\ faults < MaxFaults
  /\ process' = [process EXCEPT ![s] = "stopping"] /\ faults' = faults + 1
  /\ Unsteady(s)
  /\ UNCHANGED <<registryVars, enroller, heart, seeker, requests, silent>>

Joined(s) ==
  /\ process[s] = "stopping" /\ heart[s] = NewHeart
  /\ process' = [process EXCEPT ![s] = "stopped"]
  /\ silent' = [silent EXCEPT ![s] = 0]
  /\ UNCHANGED <<registryVars, enroller, heart, seeker, requests, faults,
                 steady, together, owed, missed>>

Crash(s) ==
  /\ process[s] # "off" /\ faults < MaxFaults
  /\ process' = [process EXCEPT ![s] = "off"] /\ faults' = faults + 1
  /\ requests' = {[r EXCEPT !.live = @ /\ r.from # s] : r \in requests}
  /\ silent' = [silent EXCEPT ![s] = IF Serving(s) THEN 0 ELSE @]
  /\ enroller' = [enroller EXCEPT ![s] = NewEnroller] /\ heart' = [heart EXCEPT ![s] = NewHeart]
  /\ Unsteady(s)
  /\ UNCHANGED <<registryVars, seeker>>

-----------------------------------------------------------------------------
\* a program that discovers services, and the registry's connection threads

Discover(n) ==
  /\ seeker = NoName /\ registry
  /\ seeker' = n
  /\ requests' = requests \union {Request(Seeker, "seeker", Serialize(ServiceDiscoveryRequest, <<n>>))}
  /\ owed' = {p[2] : p \in {q \in steady : q[1] = n}}
  /\ UNCHANGED <<registryVars, serverVars, faults, steady, together, silent, missed>>

Ports(answer) ==
  LET infos == Parse(ServiceDiscoveryResponse, answer)[1]
  IN  {Parse(ServiceInfo, infos[k])[2] : k \in DOMAIN infos}

HandleConnection(r) ==
  /\ registry
  /\ LET done == Handled(r.bytes)
         from == Parse(ServiceRegisterRequest, r.bytes)
     IN  /\ services' = done.services
         /\ missed' = IF r.from = Seeker THEN owed \ Ports(done.answer) ELSE missed
         /\ steady' = IF r.live /\ r.from \in Server /\ process[r.from] = "running"
                      THEN steady \union {<<from[1], r.from>>} ELSE steady
  /\ Answered(r)
  /\ seeker' = IF r.from = Seeker THEN NoName ELSE seeker
  /\ requests' = requests \ {r}
  /\ UNCHANGED <<registry, checker, process, faults, together, silent, owed>>

\* every connection ends, and with it the wait for its answer
RegistryCrash ==
  /\ registry /\ faults < MaxFaults
  /\ registry' = FALSE /\ faults' = faults + 1
  /\ services' = [n \in Name |-> << >>] /\ requests' = {} /\ seeker' = NoName
  /\ enroller' = [s \in Server |-> IF enroller[s].waits THEN EnrollFails(s)[s] ELSE enroller[s]]
  /\ heart' = [s \in Server |-> IF heart[s].waits THEN Beaten(s)[s] ELSE heart[s]]
  /\ steady' = {} /\ owed' = {} /\ together' = [s \in Server |-> 0]
  /\ UNCHANGED <<checker, process, silent, missed>>

RegistryStart ==
  /\ ~registry
  /\ registry' = TRUE /\ checker' = 0
  /\ UNCHANGED <<services, serverVars, seeker, requests, faults, history>>

-----------------------------------------------------------------------------
UpTo(k, n) == IF n < k THEN n + 1 ELSE k
Down(n) == IF n > 0 THEN n - 1 ELSE 0

Prompt(s) ==  \* no thread of s is late
  process[s] # "off" =>
    /\ enroller[s].waits \/ enroller[s].at = Finished
    /\ heart[s].waits \/ heart[s].left > 0 \/ process[s] = "stopped"

Tick ==
  /\ registry => checker > 0
  /\ \A s \in Server : Prompt(s)
  /\ \A r \in requests : r.age < MaxDelay
  /\ services' = [n \in Name |-> [i \in DOMAIN services[n] |->
                    [services[n][i] EXCEPT !.silence = UpTo(Timeout + 1, @)]]]
  /\ checker' = Down(checker)
  /\ heart' = [s \in Server |-> [heart[s] EXCEPT !.left = Down(@)]]
  /\ requests' = {[r EXCEPT !.age = @ + 1] : r \in requests}
  /\ together' = [s \in Server |-> IF registry /\ process[s] = "running" THEN UpTo(Long, together[s]) ELSE 0]
  /\ silent' = [s \in Server |-> IF Serving(s) THEN 0 ELSE UpTo(Long, silent[s])]
  /\ UNCHANGED <<registry, process, enroller, seeker, faults, steady, owed, missed>>

Next ==
  \/ CheckHeartbeat \/ RegistryCrash \/ RegistryStart \/ Tick
  \/ \E s \in Server : \/ RegisterSingleService(s) \/ SendHeartbeatForService(s)
                       \/ Start(s) \/ Stop(s) \/ Joined(s) \/ Crash(s)
  \/ \E n \in Name : Discover(n)
  \/ \E r \in requests : HandleConnection(r)

Spec == Init /\ [][Next]_vars

-----------------------------------------------------------------------------
InstanceInfo == [port : Server, silence : 0..(Timeout + 1)]

\* the bytes of a registration or a heartbeat, and of a lookup
InstanceBytes(n, s) == Serialize(ServiceRegisterRequest, <<n, Host, s>>)
LookupBytes(n) == Serialize(ServiceDiscoveryRequest, <<n>>)
Bytes == {InstanceBytes(n, s) : n \in Name, s \in Server} \union {LookupBytes(n) : n \in Name}
Requests ==
  [from : Server \union {Seeker}, thread : {"enroller", "heart", "seeker"}, bytes : Bytes,
   age : 0..MaxDelay, live : BOOLEAN]

TypeOK ==
  /\ registry \in BOOLEAN /\ checker \in 0..CheckPeriod /\ faults \in 0..MaxFaults
  /\ services \in [Name -> Seq(InstanceInfo)]
  /\ process \in [Server -> {"off", "running", "stopping", "stopped"}]
  /\ enroller \in [Server -> [at : 1..Finished, waits : BOOLEAN]]
  /\ heart \in [Server -> [at : DOMAIN Names, waits : BOOLEAN, left : 0..HeartbeatPeriod]]
  /\ seeker \in Name \union {NoName} /\ requests \subseteq Requests
  /\ steady \subseteq Name \X Server /\ owed \subseteq Server /\ missed \subseteq Server
  /\ together \in [Server -> 0..Long] /\ silent \in [Server -> 0..Long]

\* An instance is in the vector of its service once, however its
\* registrations, heartbeats and restarts interleave.
ListedOnce ==
  \A n \in Name : \A i, j \in DOMAIN services[n] :
    services[n][i].port = services[n][j].port => i = j

\* An instance that is recorded stays recorded while its server and the
\* registry run: 30 s are longer than the longest gap between two heartbeats,
\* with every request of both services late.
SteadyListed == \A p \in steady : Listed(p[1], p[2])

\* A server is known under each of its names soon after it and the registry
\* run, also when its registration failed or a restarted registry has
\* forgotten it.
KnownAgain ==
  \A s \in Server, n \in Name : together[s] > Comeback => Listed(n, s)

\* A server that serves no more is not discovered for long: what is still on
\* its way may revive it once, also the registrations of its detached thread.
Farewell == Timeout + CheckPeriod + Len(Names) * MaxDelay
DeadForgotten ==
  \A s \in Server, n \in Name : silent[s] > Farewell => ~Listed(n, s)

\* A discovery finds every instance that was recorded when it was asked for
\* and still is.
LookupComplete == missed = {}

-----------------------------------------------------------------------------
\* The inductive invariant (module RegistryProofs).

\* the requests of a thread that waits for their answers
Live(s, t) == {r \in requests : r.live /\ r.from = s /\ r.thread = t}
Sent(s, t, state) ==
  IF state.waits
  THEN \E r \in Live(s, t) : Live(s, t) = {r} /\ r.bytes = InstanceBytes(Names[state.at], s)
  ELSE Live(s, t) = {}

\* A thread waits for the answer to the one request it has sent.
Talks(s) ==
  /\ Sent(s, "heart", heart[s]) /\ Sent(s, "enroller", enroller[s])
  /\ heart[s].left > 0 => heart[s].at = 1 /\ ~heart[s].waits
  /\ enroller[s].at = Finished => ~enroller[s].waits
  /\ process[s] = "off" => enroller[s] = NewEnroller
  /\ process[s] \in {"off", "stopped"} => heart[s] = NewHeart
Asks(r) ==
  IF r.from = Seeker
  THEN r.thread = "seeker" /\ seeker # NoName /\ r.bytes = LookupBytes(seeker)
  ELSE r.thread # "seeker" /\ \E n \in Name : r.bytes = InstanceBytes(n, r.from)
\* A registry that is down is asked nothing, and has nothing to say.
Asked ==
  /\ \A r \in requests : Asks(r)
  /\ \A q, r \in requests : q.from = Seeker /\ r.from = Seeker => q = r
  /\ ~registry => requests = {} /\ seeker = NoName /\ services = [n \in Name |-> << >>]
Conversations == (\A s \in Server : Talks(s)) /\ Asked

\* what services[n] says of s
Entries(n, s) == {x \in Elems(services[n]) : x.port = s}

\* ticks from the heartbeat for the k-th name to the next for the j-th, and
\* until the latter is handled, at most
Ahead(k, j) ==
  IF k <= j THEN (j - k) * MaxDelay ELSE HeartbeatPeriod + (Len(Names) - k + j) * MaxDelay
Age(rs) == IF rs = {} THEN 0 ELSE (CHOOSE r \in rs : TRUE).age
Until(s, j) == heart[s].left + (MaxDelay - Age(Live(s, "heart"))) + Ahead(heart[s].at, j)

\* What a steady instance may still be silent, and a forgotten one unknown, is
\* what is left of one round of heartbeats.
Round(s) ==
  IF process[s] = "running" /\ registry
  THEN \A j \in DOMAIN Names :
         IF <<Names[j], s>> \in steady
         THEN \E x \in Entries(Names[j], s) : x.silence + Until(s, j) <= Comeback
         ELSE together[s] + Until(s, j) <= Comeback
  ELSE together[s] = 0 /\ \A n \in Name : <<n, s>> \notin steady
Rounds == \A s \in Server : Round(s)

\* How long a server that serves no more may have been silent, with a request
\* on its way, a registration to come or an instance in the table.
Grace(x) == IF x.silence <= Timeout THEN x.silence ELSE Timeout + CheckPeriod - checker
Trailing(s) ==
  \A r \in requests : r.from = s => silent[s] <= (Len(Names) - 1) * MaxDelay + r.age
Enrolling(s) ==
  process[s] = "stopped" /\ enroller[s].at # Finished =>
    IF enroller[s].waits
    THEN \A r \in Live(s, "enroller") : silent[s] <= (enroller[s].at - 1) * MaxDelay + r.age
    ELSE silent[s] <= (enroller[s].at - 1) * MaxDelay
Lingering(s) ==
  \A n \in Name : \A x \in Entries(n, s) : silent[s] <= Len(Names) * MaxDelay + Grace(x)
Fades(s) ==
  (Serving(s) => silent[s] = 0) /\ Trailing(s) /\ Enrolling(s) /\ Lingering(s)
Farewells == \A s \in Server : Fades(s)

\* What a lookup is owed is steady until it is answered.
Lookups ==
  /\ missed = {}
  /\ seeker # NoName => \A s \in owed : <<seeker, s>> \in steady

\* Each thread of a server has one request on its way at most, and what is on
\* its way, asleep or in the table adds up: an instance of a server that runs is
\* never silent for longer than a round of heartbeats takes, and one of a server
\* that is gone is not renewed after the delays of its last requests.
IInv == TypeOK /\ ListedOnce /\ Conversations /\ Rounds /\ Farewells /\ Lookups

=============================================================================
