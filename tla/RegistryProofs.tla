--------------------------- MODULE RegistryProofs ---------------------------
(* Theorems about Registry: the instances a registry lists are those whose  *)
(* servers run, but for a bounded time, for any number of servers, names    *)
(* and ticks.                                                               *)
EXTENDS Registry, DataProofs

-----------------------------------------------------------------------------
(* Constants.                                                               *)

\* Names is a sequence of names that are not empty.
LEMMA NamesAreNames ==
  \E S : Names \in Seq(S) /\ \A x \in S : x \in STRING /\ x # NoName
<1>1. PICK S : S = STRING \ {NoName}
  OBVIOUS
<1>2. Names \in Seq(S)
  BY <1>1, RegistryAssumption
<1>3. QED
  BY <1>1, <1>2

\* The assumptions on the constants, by their parts.
LEMMA Numbers ==
  /\ HeartbeatPeriod \in Nat /\ CheckPeriod \in Nat /\ Timeout \in Nat /\ MaxDelay \in Nat
  /\ MaxFaults \in Nat /\ Server \subseteq Nat /\ Seeker \notin Server
  /\ Len(Names) \in Nat /\ Len(Names) > 0 /\ 1 \in DOMAIN Names /\ DOMAIN Names = 1..Len(Names)
  /\ Len(Names) * MaxDelay \in Nat /\ Comeback \in Nat /\ Farewell \in Nat /\ Long \in Nat
  /\ Comeback < Long /\ Farewell < Long /\ Comeback <= Timeout
<1>1. /\ HeartbeatPeriod \in Nat /\ CheckPeriod \in Nat /\ Timeout \in Nat /\ MaxDelay \in Nat
      /\ MaxFaults \in Nat /\ Server \subseteq Nat /\ 0 \notin Server
      /\ Names # << >>
  BY RegistryAssumption
<1>2. Len(Names) \in Nat /\ Len(Names) > 0 /\ DOMAIN Names = 1..Len(Names)
  BY <1>1, NamesAreNames
<1>3. PICK p : p = Len(Names) * MaxDelay
  OBVIOUS
<1>4. p \in Nat
  <2>1. PICK a, b \in Nat : a = Len(Names) /\ b = MaxDelay
    BY <1>1, <1>2
  <2>2. a * b \in Nat
    OBVIOUS
  <2>3. QED
    BY <1>3, <2>1, <2>2
<1>5. /\ Comeback = HeartbeatPeriod + p /\ Farewell = Timeout + CheckPeriod + p
      /\ Long = Timeout + CheckPeriod + HeartbeatPeriod + p + 1
  BY <1>3 DEF Comeback, Farewell, Long
<1>6. 1 \in DOMAIN Names /\ Seeker \notin Server
  BY <1>1, <1>2 DEF Seeker
<1>7. /\ Comeback \in Nat /\ Farewell \in Nat /\ Long \in Nat
      /\ Comeback < Long /\ Farewell < Long /\ Comeback <= Timeout
  BY <1>1, <1>4, <1>5, HeartbeatsInTime
<1>8. QED
  BY <1>1, <1>2, <1>3, <1>4, <1>6, <1>7

\* The names, each of them at a place.
LEMMA NamesTyped ==
  /\ \A j \in DOMAIN Names : Names[j] \in Name
  /\ \A n \in Name : n \in STRING /\ n # NoName /\ \E j \in DOMAIN Names : n = Names[j]
<1>1. DOMAIN Names = 1..Len(Names)
  BY Numbers
<1>2. \A j \in DOMAIN Names : Names[j] \in STRING /\ Names[j] # NoName
  BY NamesAreNames
<1>3. Name = {Names[j] : j \in DOMAIN Names}
  BY <1>1 DEF Name, Elems
<1>4. QED
  BY <1>2, <1>3

\* Delays of several requests.
LEMMA Delays ==
  ASSUME NEW a \in Nat, NEW b \in Nat
  PROVE  /\ a * MaxDelay \in Nat /\ (a + 1) * MaxDelay = a * MaxDelay + MaxDelay
         /\ a <= b => a * MaxDelay <= b * MaxDelay
<1>1. MaxDelay \in Nat
  BY Numbers
<1>2. a * MaxDelay \in Nat /\ (a + 1) * MaxDelay = a * MaxDelay + MaxDelay
  BY <1>1
<1>3. a <= b => a * MaxDelay <= b * MaxDelay
  BY <1>1
<1>4. QED
  BY <1>2, <1>3

-----------------------------------------------------------------------------
(* What the registry reads, and answers.                                    *)

\* A registration, and a heartbeat, which has the same bytes.
LEMMA InstanceParsed ==
  ASSUME NEW n \in Name, NEW s \in Server
  PROVE  /\ Parse(ServiceRegisterRequest, InstanceBytes(n, s)) = <<n, Host, s>>
         /\ IsInstance(<<n, Host, s>>)
<1>1. IsMessage(ServiceRegisterRequest, <<n, Host, s>>)
  BY DEF IsMessage, ServiceRegisterRequest
<1>2. n # NoName /\ s > 0
  <2>1. n # NoName
    BY NamesTyped
  <2>2. s \in Nat /\ s # 0
    BY RegistryAssumption
  <2>3. QED
    BY <2>1, <2>2
<1>3. IsInstance(<<n, Host, s>>)
  <2>1. Host # NoName
    BY Zenon DEF Host, NoName
  <2>2. QED
    BY <1>2, <2>1 DEF IsInstance
<1>4. QED
  BY <1>1, <1>3, RoundTrip DEF InstanceBytes

\* A lookup does not read as a registration.
LEMMA LookupParsed ==
  ASSUME NEW n \in Name
  PROVE  /\ Parse(ServiceDiscoveryRequest, LookupBytes(n)) = <<n>>
         /\ ~IsInstance(Parse(ServiceRegisterRequest, LookupBytes(n)))
BY LookupsRead, LookupsNameNoHost DEF LookupBytes, IsInstance

\* The registry takes the bytes of a heartbeat for a registration.
LEMMA HandledInstance ==
  ASSUME NEW n \in Name, NEW s \in Server
  PROVE  Handled(InstanceBytes(n, s)) = HandleServiceRegister(<<n, Host, s>>)
BY InstanceParsed DEF Handled

\* It answers the bytes of a lookup with the instances.
LEMMA HandledLookup ==
  ASSUME NEW n \in Name
  PROVE  Handled(LookupBytes(n)) = HandleServiceDiscovery(<<n>>)
<1>1. n # NoName /\ <<n>>[1] = n
  BY NamesTyped
<1>2. QED
  BY <1>1, LookupParsed DEF Handled

\* A lookup is answered with what is listed.
LEMMA PortsFound ==
  ASSUME TypeOK, NEW n \in Name
  PROVE  Ports(HandleServiceDiscovery(<<n>>).answer) = {i.port : i \in Elems(services[n])}
<1> DEFINE listed == services[n]
           info(i) == Serialize(ServiceInfo, <<Host, i.port, 1 + i.silence>>)
           infos == [k \in DOMAIN listed |-> info(listed[k])]
           m == <<infos>>
<1>1. listed \in Seq(InstanceInfo)
  BY DEF TypeOK
<1>2. HandleServiceDiscovery(<<n>>).answer = Serialize(ServiceDiscoveryResponse, m)
  BY DEF HandleServiceDiscovery
<1> HIDE DEF listed, info
<1>4. Parse(ServiceDiscoveryResponse, Serialize(ServiceDiscoveryResponse, m))[1] = infos
  BY LookupsRead
<1>5. ASSUME NEW i \in InstanceInfo PROVE Parse(ServiceInfo, info(i))[2] = i.port
  BY LookupsRead DEF info
<1>6. DOMAIN infos = 1..Len(listed) /\ \A k \in DOMAIN infos : infos[k] = info(listed[k]) /\ listed[k] \in InstanceInfo
  BY <1>1
<1>7. Ports(Serialize(ServiceDiscoveryResponse, m)) = {Parse(ServiceInfo, infos[k])[2] : k \in DOMAIN infos}
  BY <1>4 DEF Ports
<1> HIDE DEF infos
<1>8. {Parse(ServiceInfo, infos[k])[2] : k \in DOMAIN infos} = {listed[k].port : k \in 1..Len(listed)}
  BY <1>5, <1>6
<1>9. {listed[k].port : k \in 1..Len(listed)} = {i.port : i \in Elems(listed)}
  BY DEF Elems
<1>10. QED
  BY <1>2, <1>7, <1>8, <1>9 DEF listed


-----------------------------------------------------------------------------
(* The vectors of services_: what they say of each server.                  *)

\* A vector and its elements.
LEMMA Vectors ==
  ASSUME TypeOK, NEW n \in Name
  PROVE  /\ services[n] \in Seq(InstanceInfo) /\ Len(services[n]) \in Nat
         /\ DOMAIN services[n] = 1..Len(services[n])
         /\ \A i \in 1..Len(services[n]) :
              services[n][i] \in InstanceInfo /\ services[n][i] \in Elems(services[n])
         /\ \A x \in Elems(services[n]) :
              /\ x \in InstanceInfo /\ x.port \in Server /\ x.silence \in 0..(Timeout + 1)
              /\ \E i \in 1..Len(services[n]) : x = services[n][i]
<1>1. services[n] \in Seq(InstanceInfo)
  BY DEF TypeOK
<1>2. Len(services[n]) \in Nat /\ DOMAIN services[n] = 1..Len(services[n])
  BY <1>1
<1>3. \A i \in 1..Len(services[n]) : services[n][i] \in InstanceInfo
  BY <1>1
<1>4. \A x \in InstanceInfo : x.port \in Server /\ x.silence \in 0..(Timeout + 1)
  BY DEF InstanceInfo
<1>5. QED
  BY <1>1, <1>2, <1>3, <1>4 DEF Elems

\* A server is listed if the vector says anything of it.
LEMMA ListedEntries ==
  ASSUME TypeOK, NEW n \in Name, NEW s
  PROVE  Listed(n, s) <=> Entries(n, s) # {}
BY Vectors DEF Listed, Entries

\* The place of a listed instance.
LEMMA Found ==
  ASSUME TypeOK, ListedOnce, NEW n \in Name, NEW s, Listed(n, s)
  PROVE  /\ IndexOf(n, s) \in 1..Len(services[n]) /\ services[n][IndexOf(n, s)].port = s
         /\ \A i \in 1..Len(services[n]) : services[n][i].port = s => i = IndexOf(n, s)
<1> DEFINE at == {i \in DOMAIN services[n] : services[n][i].port = s}
<1>1. PICK k \in DOMAIN services[n] : services[n][k].port = s
  BY DEF Listed
<1>2. \A i \in at : i = k
  BY <1>1 DEF ListedOnce
<1>3. k \in at
  BY <1>1
<1>4. DOMAIN services[n] = 1..Len(services[n])
  BY Vectors
<1>5. IndexOf(n, s) = CHOOSE i \in at : \A j \in at : i <= j
  BY <1>3 DEF IndexOf
<1> HIDE DEF at
<1>6. k \in Nat
  BY <1>1, <1>4
<1>7. \A j \in at : k <= j
  BY <1>2, <1>6
<1>8. (CHOOSE i \in at : \A j \in at : i <= j) \in at
  BY <1>3, <1>7
<1>9. IndexOf(n, s) = k
  BY <1>2, <1>5, <1>8
<1>10. QED
  BY <1>1, <1>2, <1>4, <1>9 DEF at

\* A registration: of its server the vector says one thing, that it has just
\* been heard, and of the others what it said before.
LEMMA Registered ==
  ASSUME TypeOK, ListedOnce, NEW n \in Name, NEW s \in Server,
         services' = HandleServiceRegister(<<n, Host, s>>).services
  PROVE  /\ services' \in [Name -> Seq(InstanceInfo)] /\ ListedOnce'
         /\ Entries(n, s)' # {} /\ \A x \in Entries(n, s)' : x.silence = 0
         /\ \A m \in Name, q \in Server : <<m, q>> # <<n, s>> => Entries(m, q)' = Entries(m, q)
<1> DEFINE v == services[n]
<1>1. /\ services \in [Name -> Seq(InstanceInfo)] /\ v \in Seq(InstanceInfo) /\ Len(v) \in Nat
      /\ DOMAIN v = 1..Len(v) /\ \A i \in 1..Len(v) : v[i] \in InstanceInfo
  BY Vectors DEF TypeOK
<1>2. 0 \in 0..(Timeout + 1)
  BY Numbers
<1> DEFINE Placed(w, k) ==
             /\ w[k].port = s /\ w[k].silence = 0
             /\ \A i \in 1..Len(w) : i # k => w[i].port # s /\ i \in 1..Len(v) /\ w[i] = v[i]
             /\ \A i \in 1..Len(v) : i # k => i \in 1..Len(w) /\ w[i] = v[i]
             /\ k \in 1..Len(v) => v[k].port = s
<1>3. \E w \in Seq(InstanceInfo) : \E k \in 1..Len(w) : services' = [services EXCEPT ![n] = w] /\ Placed(w, k)
  <2>1. HandleServiceRegister(<<n, Host, s>>).services =
          IF Listed(n, s) THEN Refreshed(n, s)
          ELSE [services EXCEPT ![n] = Append(@, [port |-> s, silence |-> 0])]
    BY DEF HandleServiceRegister
  <2>2. CASE Listed(n, s)
    <3> DEFINE k == IndexOf(n, s)
               w == [v EXCEPT ![k] = [v[k] EXCEPT !.silence = 0]]
    <3>1. services' = [services EXCEPT ![n] = w]
      BY <2>1, <2>2 DEF Refreshed
    <3>2. /\ k \in 1..Len(v) /\ v[k].port = s
          /\ \A i \in 1..Len(v) : v[i].port = s => i = k
      BY <2>2, Found
    <3> HIDE DEF k, v
    <3>3. [v[k] EXCEPT !.silence = 0] \in InstanceInfo
      BY <1>1, <1>2, <3>2 DEF InstanceInfo
    <3>4. w \in Seq(InstanceInfo) /\ Len(w) = Len(v)
      BY <1>1, <3>2, <3>3
    <3>5. \A i \in 1..Len(v) : w[i] = IF i = k THEN [v[k] EXCEPT !.silence = 0] ELSE v[i]
      BY <1>1
    <3>6. w[k].port = s /\ w[k].silence = 0
      <4>1. v[k] \in InstanceInfo
        BY <1>1, <3>2
      <4>2. [v[k] EXCEPT !.silence = 0].port = v[k].port /\ [v[k] EXCEPT !.silence = 0].silence = 0
        BY <4>1 DEF InstanceInfo
      <4>3. QED
        BY <3>2, <3>5, <4>2
    <3> HIDE DEF w
    <3>7. Placed(w, k)
      BY <3>2, <3>4, <3>5, <3>6
    <3>8. k \in 1..Len(w)
      BY <3>2, <3>4
    <3> HIDE DEF Placed
    <3>9. QED
      BY <3>1, <3>4, <3>7, <3>8
  <2>3. CASE ~Listed(n, s)
    <3> DEFINE new == [port |-> s, silence |-> 0]
               w == Append(v, new)
    <3>1. services' = [services EXCEPT ![n] = w]
      BY <2>1, <2>3
    <3>2. \A i \in 1..Len(v) : v[i].port # s
      BY <1>1, <2>3 DEF Listed
    <3>3. new \in InstanceInfo /\ new.port = s /\ new.silence = 0
      BY <1>2 DEF InstanceInfo
    <3> HIDE DEF v, new
    <3>4. w \in Seq(InstanceInfo) /\ Len(w) = Len(v) + 1
      BY <1>1, <3>3
    <3>5. w[Len(v) + 1] = new /\ \A i \in 1..Len(v) : w[i] = v[i]
      BY <1>1
    <3> HIDE DEF w
    <3>6. Placed(w, Len(v) + 1) /\ Len(v) + 1 \in 1..Len(w)
      BY <1>1, <3>2, <3>3, <3>4, <3>5 DEF v
    <3> HIDE DEF Placed
    <3>7. QED
      BY <3>1, <3>4, <3>6
  <2>4. QED
    BY <2>2, <2>3
<1> PICK w \in Seq(InstanceInfo) : \E k \in 1..Len(w) : services' = [services EXCEPT ![n] = w] /\ Placed(w, k)
  BY <1>3
<1>4. PICK k \in 1..Len(w) : services' = [services EXCEPT ![n] = w] /\ Placed(w, k)
  OBVIOUS
<1>5. /\ services' \in [Name -> Seq(InstanceInfo)] /\ services'[n] = w
      /\ \A m \in Name : m # n => services'[m] = services[m]
  BY <1>1, <1>4
<1>6. ListedOnce'
  <2> SUFFICES ASSUME NEW m \in Name, NEW i \in DOMAIN services'[m], NEW j \in DOMAIN services'[m],
                      services'[m][i].port = services'[m][j].port
               PROVE  i = j
    BY DEF ListedOnce
  <2>1. CASE m # n
    BY <1>5, <2>1 DEF ListedOnce
  <2>2. CASE m = n
    <3>1. i \in 1..Len(w) /\ j \in 1..Len(w) /\ w[i].port = w[j].port
      BY <1>5, <2>2
    <3>2. i = k <=> j = k
      BY <1>4, <3>1
    <3>3. i # k /\ j # k => v[i].port = v[j].port /\ i \in DOMAIN v /\ j \in DOMAIN v
      BY <1>1, <1>4, <3>1
    <3>4. QED
      BY <3>2, <3>3 DEF ListedOnce
  <2>3. QED
    BY <2>1, <2>2
<1>7. Entries(n, s)' # {} /\ \A x \in Entries(n, s)' : x.silence = 0
  <2>1. Entries(n, s)' = {x \in Elems(w) : x.port = s}
    BY <1>5 DEF Entries
  <2>2. QED
    BY <1>4, <2>1 DEF Elems
<1>8. ASSUME NEW m \in Name, NEW q \in Server, <<m, q>> # <<n, s>>
      PROVE  Entries(m, q)' = Entries(m, q)
  <2>1. CASE m # n
    BY <1>5, <2>1 DEF Entries
  <2>2. CASE m = n
    <3>1. Entries(m, q)' = {x \in Elems(w) : x.port = q} /\ Entries(m, q) = {x \in Elems(v) : x.port = q}
      BY <1>5, <2>2 DEF Entries
    <3>2. q # s
      BY <1>8, <2>2
    <3> HIDE DEF v
    <3>3. {x \in Elems(w) : x.port = q} = {x \in Elems(v) : x.port = q}
      BY <1>4, <3>2 DEF Elems
    <3>4. QED
      BY <3>1, <3>3
  <2>3. QED
    BY <2>1, <2>2
<1>9. QED
  BY <1>5, <1>6, <1>7, <1>8


\* A check: what is left of a vector is what has not expired.
LEMMA Checked ==
  ASSUME TypeOK, ListedOnce,
         services' = [n \in Name |-> Drop(services[n], {i \in Elems(services[n]) : Expired(i)})]
  PROVE  /\ services' \in [Name -> Seq(InstanceInfo)] /\ ListedOnce'
         /\ \A n \in Name, s \in Server :
              Entries(n, s)' = {x \in Entries(n, s) : x.silence <= Timeout}
<1> DEFINE gone(n) == {i \in Elems(services[n]) : Expired(i)}
<1>1. ASSUME NEW n \in Name
      PROVE  /\ services'[n] \in Seq(InstanceInfo) /\ Elems(services'[n]) = Elems(services[n]) \ gone(n)
             /\ \E place : Reads(services'[n], services[n], Len(services[n]), gone(n), place)
  <2>1. services[n] \in Seq(InstanceInfo) /\ services'[n] = Drop(services[n], gone(n))
    BY DEF TypeOK
  <2> HIDE DEF gone
  <2>2. QED
    BY <2>1, DropElems, DropPlaces
<1>2. services' \in [Name -> Seq(InstanceInfo)]
  BY <1>1
<1>3. ListedOnce'
  <2> SUFFICES ASSUME NEW n \in Name, NEW i \in DOMAIN services'[n], NEW j \in DOMAIN services'[n],
                      services'[n][i].port = services'[n][j].port
               PROVE  i = j
    BY DEF ListedOnce
  <2>1. PICK place : Reads(services'[n], services[n], Len(services[n]), gone(n), place)
    BY <1>1
  <2>2. DOMAIN services'[n] = 1..Len(services'[n])
    BY <1>1
  <2> HIDE DEF gone
  <2>3. /\ place[i] \in 1..Len(services[n]) /\ place[j] \in 1..Len(services[n])
        /\ services[n][place[i]] = services'[n][i] /\ services[n][place[j]] = services'[n][j]
    BY <2>1, <2>2 DEF Reads
  <2>4. place[i] = place[j]
    BY <2>3, Vectors DEF ListedOnce
  <2>5. QED
    BY <2>1, <2>2, <2>4 DEF Reads
<1>4. ASSUME NEW n \in Name, NEW s \in Server
      PROVE  Entries(n, s)' = {x \in Entries(n, s) : x.silence <= Timeout}
  <2>1. Entries(n, s)' = {x \in Elems(services[n]) \ gone(n) : x.port = s}
    BY <1>1 DEF Entries
  <2>2. \A x \in Elems(services[n]) : x \in gone(n) <=> ~(x.silence <= Timeout)
    BY Vectors, Numbers DEF Expired
  <2> HIDE DEF gone
  <2>3. QED
    BY <2>1, <2>2 DEF Entries
<1>5. QED
  BY <1>2, <1>3, <1>4

\* A function on the numbers up to n is a sequence.
LEMMA Sequence ==
  ASSUME NEW S, NEW n \in Nat, NEW f \in [1..n -> S]
  PROVE  f \in Seq(S) /\ Len(f) = n
OBVIOUS

\* A tick: what is said of a server has one tick more of silence, unless it
\* has expired anyway.
LEMMA Aged ==
  ASSUME TypeOK, ListedOnce,
         services' = [n \in Name |-> [i \in DOMAIN services[n] |->
                       [services[n][i] EXCEPT !.silence = UpTo(Timeout + 1, @)]]]
  PROVE  /\ services' \in [Name -> Seq(InstanceInfo)] /\ ListedOnce'
         /\ \A n \in Name, s \in Server :
              /\ \A x \in Entries(n, s) : \E y \in Entries(n, s)' : y.silence = UpTo(Timeout + 1, x.silence)
              /\ \A y \in Entries(n, s)' : \E x \in Entries(n, s) : y.silence = UpTo(Timeout + 1, x.silence)
         /\ \A n \in Name : services[n] = << >> => services'[n] = << >>
<1> DEFINE older(x) == [x EXCEPT !.silence = UpTo(Timeout + 1, @)]
<1>1. ASSUME NEW x \in InstanceInfo
      PROVE  /\ older(x) \in InstanceInfo /\ older(x).port = x.port
             /\ older(x).silence = UpTo(Timeout + 1, x.silence)
  <2>1. older(x).port = x.port /\ older(x).silence = UpTo(Timeout + 1, x.silence)
    BY DEF InstanceInfo
  <2>2. x.silence \in 0..(Timeout + 1) /\ Timeout \in Nat
    BY Numbers DEF InstanceInfo
  <2>3. UpTo(Timeout + 1, x.silence) \in 0..(Timeout + 1)
    BY <2>2 DEF UpTo
  <2>4. QED
    BY <2>1, <2>3 DEF InstanceInfo
<1>2. services' = [n \in Name |-> [i \in DOMAIN services[n] |-> older(services[n][i])]]
  OBVIOUS
<1> HIDE DEF older
<1>3. ASSUME NEW n \in Name
      PROVE  /\ DOMAIN services'[n] = 1..Len(services[n]) /\ services'[n] \in Seq(InstanceInfo)
             /\ Len(services'[n]) = Len(services[n])
             /\ \A i \in 1..Len(services[n]) : services'[n][i] = older(services[n][i])
  <2>1. services'[n] = [i \in 1..Len(services[n]) |-> older(services[n][i])]
    BY <1>2, Vectors
  <2>2. Len(services[n]) \in Nat /\ \A i \in 1..Len(services[n]) : older(services[n][i]) \in InstanceInfo
    BY <1>1, Vectors
  <2>3. \A i \in 1..Len(services[n]) : services'[n][i] = older(services[n][i])
    BY <2>1
  <2>4. services'[n] \in [1..Len(services[n]) -> InstanceInfo]
    BY <2>1, <2>2
  <2>5. services'[n] \in Seq(InstanceInfo) /\ Len(services'[n]) = Len(services[n])
    BY <2>2, <2>4, Sequence
  <2>6. QED
    BY <2>1, <2>3, <2>5
<1>4. services' \in [Name -> Seq(InstanceInfo)]
  BY <1>2, <1>3
<1>5. ListedOnce'
  <2> SUFFICES ASSUME NEW n \in Name, NEW i \in DOMAIN services'[n], NEW j \in DOMAIN services'[n],
                      services'[n][i].port = services'[n][j].port
               PROVE  i = j
    BY DEF ListedOnce
  <2>1. /\ i \in 1..Len(services[n]) /\ j \in 1..Len(services[n])
        /\ services'[n][i] = older(services[n][i]) /\ services'[n][j] = older(services[n][j])
    BY <1>3
  <2>2. services[n][i].port = services[n][j].port
    BY <1>1, <2>1, Vectors
  <2>3. QED
    BY <2>1, <2>2, Vectors DEF ListedOnce
<1>6. ASSUME NEW n \in Name, NEW s \in Server
      PROVE  /\ \A x \in Entries(n, s) : \E y \in Entries(n, s)' : y.silence = UpTo(Timeout + 1, x.silence)
             /\ \A y \in Entries(n, s)' : \E x \in Entries(n, s) : y.silence = UpTo(Timeout + 1, x.silence)
  <2>1. ASSUME NEW x \in Entries(n, s)
        PROVE  \E y \in Entries(n, s)' : y.silence = UpTo(Timeout + 1, x.silence)
    <3>1. PICK i \in 1..Len(services[n]) : x = services[n][i]
      BY DEF Entries, Elems
    <3>2. x \in InstanceInfo /\ x.port = s
      BY <3>1, Vectors DEF Entries
    <3>3. services'[n][i] = older(x) /\ i \in 1..Len(services'[n])
      BY <1>3, <3>1
    <3>4. older(x) \in Entries(n, s)'
      BY <1>1, <3>2, <3>3 DEF Entries, Elems
    <3>5. QED
      BY <1>1, <3>2, <3>4
  <2>2. ASSUME NEW y \in Entries(n, s)'
        PROVE  \E x \in Entries(n, s) : y.silence = UpTo(Timeout + 1, x.silence)
    <3>1. PICK i \in 1..Len(services'[n]) : y = services'[n][i]
      BY DEF Entries, Elems
    <3>2. i \in 1..Len(services[n]) /\ y = older(services[n][i]) /\ services[n][i] \in InstanceInfo
      BY <1>3, <3>1, Vectors
    <3>3. y.port = s
      BY DEF Entries
    <3>4. services[n][i] \in Entries(n, s)
      BY <1>1, <3>2, <3>3 DEF Entries, Elems
    <3>5. QED
      BY <1>1, <3>2, <3>4
  <2>3. QED
    BY <2>1, <2>2
<1>7. ASSUME NEW n \in Name, services[n] = << >> PROVE services'[n] = << >>
  <2>1. Len(services'[n]) = 0 /\ services'[n] \in Seq(InstanceInfo)
    BY <1>3, <1>7
  <2>2. QED
    BY <2>1
<1>8. QED
  BY <1>4, <1>5, <1>6, <1>7

\* Nothing is said in empty vectors.
LEMMA NothingSaid ==
  ASSUME NEW n \in Name, services = [m \in Name |-> << >>]
  PROVE  \A s : Entries(n, s) = {}
<1>1. services[n] = << >> /\ Len(services[n]) = 0
  OBVIOUS
<1>2. QED
  BY <1>1 DEF Entries, Elems


-----------------------------------------------------------------------------
(* Requests, and who waits for them.                                        *)

\* What is known of a request.
LEMMA Requested ==
  ASSUME NEW r \in Requests
  PROVE  /\ r.from \in Server \union {Seeker} /\ r.live \in BOOLEAN
         /\ r.age \in 0..MaxDelay /\ r.age \in Nat
<1>1. r.from \in Server \union {Seeker} /\ r.live \in BOOLEAN /\ r.age \in 0..MaxDelay
  BY DEF Requests
<1>2. QED
  BY <1>1, Numbers

\* A request just sent, of a server or of the seeker. A heartbeat has the
\* bytes of a registration.
LEMMA NewRequest ==
  ASSUME NEW n \in Name, NEW s \in Server, NEW t \in {"enroller", "heart"}, NEW r,
         r = Request(s, t, Serialize(ServiceRegisterRequest, <<n, Host, s>>))
           \/ r = Request(s, t, Serialize(HeartbeatRequest, <<n, Host, s>>))
  PROVE  /\ r \in Requests /\ r.live /\ r.from = s /\ r.thread = t /\ r.age = 0
         /\ r.bytes = InstanceBytes(n, s)
<1>1. r = Request(s, t, InstanceBytes(n, s))
  <2>1. HeartbeatRequest = ServiceRegisterRequest
    BY DEF HeartbeatRequest, ServiceRegisterRequest
  <2>2. QED
    BY <2>1 DEF InstanceBytes
<1> DEFINE b == InstanceBytes(n, s)
<1>2. b \in Bytes
  BY DEF Bytes
<1>3. 0 \in 0..MaxDelay
  BY Numbers
<1> HIDE DEF b
<1>4. r = [from |-> s, thread |-> t, bytes |-> b, age |-> 0, live |-> TRUE]
  BY <1>1 DEF Request, b
<1>5. r \in Requests
  BY <1>2, <1>3, <1>4 DEF Requests
<1>6. QED
  BY <1>4, <1>5 DEF b

\* A request that was just sent.
LEMMA RequestRecords ==
  ASSUME NEW f \in Server \union {Seeker}, NEW t \in {"enroller", "heart", "seeker"}, NEW b \in Bytes
  PROVE  [from |-> f, thread |-> t, bytes |-> b, age |-> 0, live |-> TRUE] \in Requests
<1>1. 0 \in 0..MaxDelay
  BY Numbers
<1>2. QED
  BY <1>1 DEF Requests

\* The same of a lookup.
LEMMA NewLookup ==
  ASSUME NEW n \in Name, NEW r,
         r = Request(Seeker, "seeker", Serialize(ServiceDiscoveryRequest, <<n>>))
  PROVE  /\ r \in Requests /\ r.from = Seeker /\ r.thread = "seeker" /\ r.age = 0
         /\ r.bytes = LookupBytes(n)
<1> DEFINE b == LookupBytes(n)
<1>1. b \in Bytes
  BY DEF Bytes
<1>2. 0 \in 0..MaxDelay
  BY Numbers
<1>3. b = Serialize(ServiceDiscoveryRequest, <<n>>)
  BY DEF LookupBytes
<1> HIDE DEF b
<1>4. r = [from |-> Seeker, thread |-> "seeker", bytes |-> b, age |-> 0, live |-> TRUE]
  BY <1>3 DEF Request
<1>5. Seeker \in Server \union {Seeker} /\ "seeker" \in {"enroller", "heart", "seeker"}
  BY Zenon
<1>6. r \in Requests
  BY <1>1, <1>4, <1>5, RequestRecords
<1>7. QED
  BY <1>4, <1>6 DEF b

\* A request one tick later, and one whose connection ended with its server.
Older(r) == [r EXCEPT !.age = @ + 1]
CutOff(r, s) == [r EXCEPT !.live = @ /\ r.from # s]

\* A tick changes the age of a request.
LEMMA OlderRequest ==
  ASSUME NEW r \in Requests, r.age < MaxDelay
  PROVE  /\ Older(r) \in Requests /\ Older(r).age = r.age + 1 /\ Older(r).from = r.from
         /\ Older(r).thread = r.thread /\ Older(r).bytes = r.bytes /\ (Older(r).live <=> r.live)
<1>1. r.age + 1 \in 0..MaxDelay
  BY Requested, Numbers
<1>2. QED
  BY <1>1 DEF Requests, Older

\* A crash of s ends what its own threads wait for.
LEMMA CutRequest ==
  ASSUME NEW r \in Requests, NEW s
  PROVE  /\ CutOff(r, s) \in Requests /\ CutOff(r, s).age = r.age /\ CutOff(r, s).from = r.from
         /\ CutOff(r, s).thread = r.thread /\ CutOff(r, s).bytes = r.bytes
         /\ (CutOff(r, s).live <=> r.live /\ r.from # s)
         /\ r.from # s => CutOff(r, s) = r
<1>1. r.live \in BOOLEAN
  BY Requested
<1>2. PICK l \in BOOLEAN : l = (r.live /\ r.from # s)
  BY <1>1
<1>3. CutOff(r, s) = [r EXCEPT !.live = l]
  BY <1>2 DEF CutOff
<1>4. r.from # s => l = r.live
  BY <1>1, <1>2
<1>5. /\ CutOff(r, s) \in Requests /\ CutOff(r, s).age = r.age /\ CutOff(r, s).from = r.from
      /\ CutOff(r, s).thread = r.thread /\ CutOff(r, s).bytes = r.bytes /\ CutOff(r, s).live = l
  BY <1>3 DEF Requests
<1>6. r.from # s => CutOff(r, s) = r
  <2>1. [r EXCEPT !.live = r.live] = r
    BY DEF Requests
  <2>2. QED
    BY <1>3, <1>4, <2>1
<1>7. QED
  BY <1>2, <1>5, <1>6

\* The live requests of a thread once another request was sent.
LEMMA LiveSent ==
  ASSUME NEW q, requests' = requests \union {q}, NEW s, NEW t
  PROVE  /\ q.live /\ q.from = s /\ q.thread = t => Live(s, t)' = Live(s, t) \union {q}
         /\ ~(q.from = s /\ q.thread = t) => Live(s, t)' = Live(s, t)
BY DEF Live

\* The same once one was handled.
LEMMA LiveHandled ==
  ASSUME NEW r, requests' = requests \ {r}, NEW s, NEW t
  PROVE  Live(s, t)' = Live(s, t) \ {r}
BY DEF Live

\* The same once a server crashed.
LEMMA LiveCut ==
  ASSUME TypeOK, NEW s, requests' = {CutOff(r, s) : r \in requests}, NEW q, NEW t
  PROVE  Live(q, t)' = IF q = s THEN {} ELSE Live(q, t)
<1>1. \A r \in requests : r \in Requests
  BY DEF TypeOK
<1>2. Live(q, t)' = {x \in {CutOff(r, s) : r \in requests} : x.live /\ x.from = q /\ x.thread = t}
  BY DEF Live
<1>3. CASE q = s
  <2>1. \A r \in requests : ~(CutOff(r, s).live /\ CutOff(r, s).from = s)
    BY <1>1, CutRequest
  <2>2. QED
    BY <1>2, <1>3, <2>1
<1>4. CASE q # s
  <2>1. \A r \in requests : CutOff(r, s).from = q => r.from = q /\ CutOff(r, s) = r
    BY <1>1, <1>4, CutRequest
  <2>2. \A r \in requests : r.from = q => CutOff(r, s) = r
    BY <1>1, <1>4, CutRequest
  <2>3. QED
    BY <1>2, <1>4, <2>1, <2>2 DEF Live
<1>5. QED
  BY <1>3, <1>4

\* The same a tick later.
LEMMA LiveOlder ==
  ASSUME TypeOK, \A r \in requests : r.age < MaxDelay,
         requests' = {Older(r) : r \in requests}, NEW s, NEW t
  PROVE  Live(s, t)' = {Older(r) : r \in Live(s, t)}
<1>1. \A r \in requests : r \in Requests
  BY DEF TypeOK
<1>2. Live(s, t)' = {x \in {Older(r) : r \in requests} : x.live /\ x.from = s /\ x.thread = t}
  BY DEF Live
<1>3. \A r \in requests :
        Older(r).live /\ Older(r).from = s /\ Older(r).thread = t <=> r.live /\ r.from = s /\ r.thread = t
  BY <1>1, OlderRequest
<1>4. QED
  BY <1>2, <1>3 DEF Live


-----------------------------------------------------------------------------
(* The heartbeats ahead.                                                    *)

\* The first name is never more than the delays of the names before it away.
LEMMA AheadBound ==
  ASSUME NEW k \in DOMAIN Names, NEW j \in DOMAIN Names
  PROVE  /\ Ahead(k, j) \in Nat /\ Ahead(k, j) + MaxDelay <= Comeback
         /\ k = 1 => HeartbeatPeriod + Ahead(k, j) + MaxDelay <= Comeback
<1> DEFINE L == Len(Names)
<1>1. k \in 1..L /\ j \in 1..L /\ L \in Nat /\ MaxDelay \in Nat /\ HeartbeatPeriod \in Nat
  BY Numbers
<1> HIDE DEF L
<1>2. PICK a \in Nat : a = IF k <= j THEN j - k ELSE L - k + j
  BY <1>1
<1>3. a + 1 <= L
  BY <1>1, <1>2
<1>4. PICK x, y \in Nat : x = a * MaxDelay /\ y = L * MaxDelay
  BY <1>1, Delays
<1>5. x + MaxDelay <= y
  <2>1. (a + 1) * MaxDelay = x + MaxDelay /\ (a + 1) * MaxDelay <= y
    BY <1>1, <1>3, <1>4, Delays
  <2>2. QED
    BY <2>1
<1>6. Ahead(k, j) = x + IF k <= j THEN 0 ELSE HeartbeatPeriod
  BY <1>1, <1>2, <1>4 DEF Ahead, L
<1>7. Comeback = HeartbeatPeriod + y
  BY <1>4 DEF Comeback, L
<1>8. QED
  BY <1>1, <1>4, <1>5, <1>6, <1>7

\* Each heartbeat brings every other name nearer, by its delay and, after the
\* last name, by the pause.
LEMMA AheadNext ==
  ASSUME NEW k \in DOMAIN Names, NEW j \in DOMAIN Names, k # j
  PROVE  IF k = Len(Names) THEN Ahead(k, j) = HeartbeatPeriod + MaxDelay + Ahead(1, j)
                           ELSE k + 1 \in DOMAIN Names /\ Ahead(k, j) = MaxDelay + Ahead(k + 1, j)
<1> DEFINE L == Len(Names)
<1>1. k \in 1..L /\ j \in 1..L /\ L \in Nat /\ MaxDelay \in Nat /\ HeartbeatPeriod \in Nat
      /\ DOMAIN Names = 1..L
  BY Numbers
<1> HIDE DEF L
<1>2. PICK a \in Nat : a = IF k < j THEN j - k - 1 ELSE L - k + j - 1
  BY <1>1
<1>3. PICK x \in Nat : x = a * MaxDelay /\ (a + 1) * MaxDelay = x + MaxDelay
  BY Delays
<1>4. CASE k < j
  <2>1. j - k = a + 1 /\ j - (k + 1) = a /\ k <= j /\ k + 1 <= j /\ k # L /\ k + 1 \in 1..L
    BY <1>1, <1>2, <1>4
  <2>2. Ahead(k, j) = (a + 1) * MaxDelay /\ Ahead(k + 1, j) = a * MaxDelay
    BY <2>1 DEF Ahead
  <2>3. Ahead(k, j) = x + MaxDelay /\ Ahead(k + 1, j) = x
    BY <1>3, <2>2
  <2>4. k + 1 \in DOMAIN Names /\ k # Len(Names)
    BY <1>1, <2>1 DEF L
  <2>5. Ahead(k, j) = MaxDelay + Ahead(k + 1, j)
    BY <1>1, <2>3
  <2>6. QED
    BY <2>4, <2>5
<1>5. CASE k > j /\ k # L
  <2>0. k \in Int /\ j \in Int /\ a = L - k + j - 1 /\ 1 <= k /\ k <= L
    BY <1>1, <1>2, <1>5
  <2>1. L - k + j = a + 1 /\ L - (k + 1) + j = a /\ ~(k <= j) /\ ~(k + 1 <= j) /\ k + 1 \in 1..L
    BY <1>1, <1>5, <2>0
  <2>2. /\ Ahead(k, j) = HeartbeatPeriod + (a + 1) * MaxDelay
        /\ Ahead(k + 1, j) = HeartbeatPeriod + a * MaxDelay
    <3>1. /\ Ahead(k, j) = HeartbeatPeriod + (L - k + j) * MaxDelay
          /\ Ahead(k + 1, j) = HeartbeatPeriod + (L - (k + 1) + j) * MaxDelay
      BY <2>1, Zenon DEF Ahead, L
    <3>2. QED
      BY <2>1, <3>1, Zenon
  <2>3. Ahead(k, j) = HeartbeatPeriod + (x + MaxDelay) /\ Ahead(k + 1, j) = HeartbeatPeriod + x
    BY <1>3, <2>2
  <2>4. QED
    BY <1>1, <1>5, <2>1, <2>3 DEF L
<1>6. CASE k > j /\ k = L
  <2>1. L - k + j = a + 1 /\ j - 1 = a /\ ~(k <= j) /\ 1 <= j
    BY <1>1, <1>2, <1>6
  <2>2. Ahead(k, j) = HeartbeatPeriod + (a + 1) * MaxDelay /\ Ahead(1, j) = a * MaxDelay
    BY <2>1 DEF Ahead, L
  <2>3. Ahead(k, j) = HeartbeatPeriod + (x + MaxDelay) /\ Ahead(1, j) = x
    BY <1>3, <2>2
  <2>4. QED
    BY <1>1, <1>6, <2>3 DEF L
<1>7. QED
  BY <1>1, <1>4, <1>5, <1>6

\* The age of the request of a heartbeat that is on its way.
LEMMA AgeOf ==
  Age({}) = 0 /\ \A r : Age({r}) = r.age
<1>1. ASSUME NEW r PROVE Age({r}) = r.age
  <2>1. (CHOOSE x \in {r} : TRUE) = r
    OBVIOUS
  <2>2. QED
    BY <2>1 DEF Age
<1>2. QED
  BY <1>1 DEF Age

\* The state of a server, by its fields.
LEMMA ServerState ==
  ASSUME TypeOK, NEW s \in Server
  PROVE  /\ heart[s].at \in DOMAIN Names /\ heart[s].waits \in BOOLEAN
         /\ heart[s].left \in 0..HeartbeatPeriod /\ heart[s].left \in Nat
         /\ enroller[s].at \in 1..Finished /\ enroller[s].waits \in BOOLEAN
         /\ process[s] \in {"off", "running", "stopping", "stopped"}
         /\ together[s] \in Nat /\ silent[s] \in Nat /\ together[s] <= Long /\ silent[s] <= Long
         /\ checker \in Nat /\ checker <= CheckPeriod
<1>1. /\ heart[s] \in [at : DOMAIN Names, waits : BOOLEAN, left : 0..HeartbeatPeriod]
      /\ enroller[s] \in [at : 1..Finished, waits : BOOLEAN]
      /\ process[s] \in {"off", "running", "stopping", "stopped"}
      /\ together[s] \in 0..Long /\ silent[s] \in 0..Long /\ checker \in 0..CheckPeriod
  BY DEF TypeOK
<1>2. Long \in Nat /\ CheckPeriod \in Nat /\ HeartbeatPeriod \in Nat
  BY Numbers
<1>3. QED
  BY <1>1, <1>2

\* A thread that is not at the end of the list is at one of the names.
LEMMA AtName ==
  ASSUME TypeOK, NEW s \in Server
  PROVE  Names[heart[s].at] \in Name /\ (enroller[s].at # Finished => Names[enroller[s].at] \in Name)
<1>1. PICK l \in Nat : l = Len(Names)
  BY Numbers
<1>2. PICK a : a = enroller[s].at
  OBVIOUS
<1>3. DOMAIN Names = 1..l /\ Finished = l + 1
  BY <1>1, Numbers DEF Finished
<1>4. a \in 1..Finished
  BY <1>2, ServerState
<1>5. a # l + 1 => a \in DOMAIN Names
  BY <1>3, <1>4
<1>6. QED
  BY <1>2, <1>3, <1>5, ServerState, NamesTyped

\* The next heartbeat for a name is less than a round away.
LEMMA UntilBound ==
  ASSUME TypeOK, NEW s \in Server, Talks(s), NEW j \in DOMAIN Names
  PROVE  /\ Until(s, j) \in Nat /\ Until(s, j) <= Comeback /\ Age(Live(s, "heart")) \in 0..MaxDelay
         /\ Ahead(heart[s].at, j) \in Nat
<1>1. MaxDelay \in Nat /\ 0 \in 0..MaxDelay /\ HeartbeatPeriod \in Nat /\ Comeback \in Nat
  BY Numbers
<1>2. Age(Live(s, "heart")) \in 0..MaxDelay
  <2>1. CASE heart[s].waits
    <3>1. PICK r \in Live(s, "heart") : Live(s, "heart") = {r}
      BY <2>1 DEF Talks, Sent
    <3>2. r \in Requests
      BY DEF Live, TypeOK
    <3>3. QED
      BY <3>1, <3>2, AgeOf, Requested
  <2>2. CASE ~heart[s].waits
    BY <1>1, <2>2, AgeOf DEF Talks, Sent
  <2>3. QED
    BY <2>1, <2>2
<1>3. PICK a \in Nat, l \in Nat, o \in 0..MaxDelay : a = Ahead(heart[s].at, j) /\ l = heart[s].left /\ o = Age(Live(s, "heart"))
  BY <1>2, AheadBound, ServerState
<1>4. l <= HeartbeatPeriod /\ a + MaxDelay <= Comeback /\ (l > 0 => HeartbeatPeriod + a + MaxDelay <= Comeback)
  <2>1. l <= HeartbeatPeriod /\ (l > 0 => heart[s].at = 1)
    BY <1>1, <1>3, ServerState DEF Talks
  <2>2. a + MaxDelay <= Comeback /\ (heart[s].at = 1 => HeartbeatPeriod + a + MaxDelay <= Comeback)
    BY <1>3, AheadBound, ServerState
  <2>3. QED
    BY <2>1, <2>2
<1>5. Until(s, j) = l + (MaxDelay - o) + a
  BY <1>3 DEF Until
<1>6. QED
  BY <1>1, <1>2, <1>3, <1>4, <1>5


-----------------------------------------------------------------------------
(* A request is handled.                                                    *)

\* The thread that waits for the answer to a live request.
LEMMA Waiting ==
  ASSUME TypeOK, Conversations, NEW r \in requests, NEW s \in Server, r.from = s, r.live
  PROVE  \/ /\ r.thread = "heart" /\ heart[s].waits /\ Live(s, "heart") = {r}
            /\ r.bytes = InstanceBytes(Names[heart[s].at], s)
         \/ /\ r.thread = "enroller" /\ enroller[s].waits /\ Live(s, "enroller") = {r}
<1>1. r.thread \in {"heart", "enroller"}
  <2>1. r.thread \in {"enroller", "heart", "seeker"}
    BY DEF TypeOK, Requests
  <2>2. r.thread # "seeker"
    BY Numbers DEF Conversations, Asked, Asks
  <2>3. QED
    BY <2>1, <2>2
<1>2. Talks(s)
  BY DEF Conversations
<1>3. CASE r.thread = "heart"
  <2>1. r \in Live(s, "heart")
    BY <1>3 DEF Live
  <2>2. heart[s].waits /\ Live(s, "heart") = {r} /\ r.bytes = InstanceBytes(Names[heart[s].at], s)
    BY <1>2, <2>1 DEF Talks, Sent
  <2>3. QED
    BY <1>3, <2>2
<1>4. CASE r.thread = "enroller"
  <2>1. r \in Live(s, "enroller")
    BY <1>4 DEF Live
  <2>2. enroller[s].waits /\ Live(s, "enroller") = {r}
    BY <1>2, <2>1 DEF Talks, Sent
  <2>3. QED
    BY <1>4, <2>2
<1>5. QED
  BY <1>1, <1>3, <1>4

\* A lookup: what is listed is not missed, and nothing else changes.
LEMMA LookupHandled ==
  ASSUME TypeOK, Conversations, NEW r \in requests, HandleConnection(r), r.from = Seeker
  PROVE  /\ services' = services /\ steady' = steady /\ seeker' = NoName /\ seeker \in Name
         /\ enroller' = enroller /\ heart' = heart
         /\ missed' \subseteq owed /\ \A s \in missed' : ~Listed(seeker, s)
<1>1. r.thread = "seeker" /\ seeker # NoName /\ r.bytes = LookupBytes(seeker)
  BY DEF Conversations, Asked, Asks
<1>2. seeker \in Name
  BY <1>1 DEF TypeOK
<1>3. Handled(r.bytes) = HandleServiceDiscovery(<<seeker>>)
  BY <1>1, <1>2, HandledLookup
<1>4. services' = services
  BY <1>3 DEF HandleConnection, HandleServiceDiscovery
<1>5. missed' = owed \ {i.port : i \in Elems(services[seeker])}
  <2>1. missed' = owed \ Ports(HandleServiceDiscovery(<<seeker>>).answer)
    BY <1>3 DEF HandleConnection
  <2>2. QED
    BY <1>2, <2>1, PortsFound
<1>6. \A s \in missed' : ~Listed(seeker, s)
  BY <1>2, <1>5, Vectors DEF Listed
<1>7. steady' = steady /\ seeker' = NoName
  BY Numbers DEF HandleConnection
<1>8. enroller' = enroller /\ heart' = heart
  BY <1>1 DEF HandleConnection, Answered
<1>9. QED
  BY <1>2, <1>4, <1>5, <1>6, <1>7, <1>8

\* A registration or a heartbeat: its server is registered, and its thread
\* goes on if it still waits.
LEMMA InstanceHandled ==
  ASSUME TypeOK, Conversations, NEW r \in requests, HandleConnection(r), r.from # Seeker
  PROVE  \E n \in Name :
           /\ r.from \in Server /\ r.bytes = InstanceBytes(n, r.from)
           /\ services' = HandleServiceRegister(<<n, Host, r.from>>).services
           /\ steady' = IF r.live /\ process[r.from] = "running"
                        THEN steady \union {<<n, r.from>>} ELSE steady
           /\ seeker' = seeker /\ missed' = missed
<1>1. PICK n \in Name : r.bytes = InstanceBytes(n, r.from)
  BY DEF Conversations, Asked, Asks
<1>2. r.from \in Server
  BY Requested DEF TypeOK
<1>3. Handled(r.bytes) = HandleServiceRegister(<<n, Host, r.from>>)
  BY <1>1, <1>2, HandledInstance
<1>4. Parse(ServiceRegisterRequest, r.bytes)[1] = n
  <2>1. Parse(ServiceRegisterRequest, r.bytes) = <<n, Host, r.from>>
    BY <1>1, <1>2, InstanceParsed
  <2>2. QED
    BY <2>1
<1>5. services' = HandleServiceRegister(<<n, Host, r.from>>).services
  BY <1>3 DEF HandleConnection
<1>6. /\ steady' = IF r.live /\ process[r.from] = "running"
                   THEN steady \union {<<n, r.from>>} ELSE steady
      /\ seeker' = seeker /\ missed' = missed
  BY <1>2, <1>4 DEF HandleConnection
<1>7. QED
  BY <1>1, <1>2, <1>5, <1>6

-----------------------------------------------------------------------------
(* Servers that a step does not concern.                                    *)

\* Nothing about s changes, but that requests whose answer nobody waits for
\* may be gone.
Same(s) ==
  /\ heart'[s] = heart[s] /\ enroller'[s] = enroller[s] /\ process'[s] = process[s]
  /\ Live(s, "heart")' = Live(s, "heart") /\ Live(s, "enroller")' = Live(s, "enroller")
  /\ together'[s] = together[s] /\ silent'[s] = silent[s]
  /\ \A n \in Name : <<n, s>> \in steady' <=> <<n, s>> \in steady
  /\ \A n \in Name : Entries(n, s)' = Entries(n, s)
  /\ \A r \in requests' : r.from = s => r \in requests
  /\ registry' = registry /\ checker' = checker

\* What holds for s goes on to hold.
LEMMA SameTalks ==
  ASSUME NEW s \in Server, Talks(s),
         heart'[s] = heart[s], enroller'[s] = enroller[s], process'[s] = process[s],
         Live(s, "heart")' = Live(s, "heart"), Live(s, "enroller")' = Live(s, "enroller")
  PROVE  Talks(s)'
<1>1. Sent(s, "heart", heart[s])' <=> Sent(s, "heart", heart[s])
  BY DEF Sent
<1>2. Sent(s, "enroller", enroller[s])' <=> Sent(s, "enroller", enroller[s])
  BY DEF Sent
<1>3. QED
  BY <1>1, <1>2 DEF Talks

\* The same of its round of heartbeats.
LEMMA SameRound ==
  ASSUME NEW s \in Server, Round(s), registry' = registry,
         process'[s] = process[s] \/ (process'[s] # "running" /\ process[s] # "running"),
         process[s] = "running" /\ registry => \A j \in DOMAIN Names : Until(s, j)' = Until(s, j),
         together'[s] = together[s],
         \A n \in Name : <<n, s>> \in steady' <=> <<n, s>> \in steady,
         \A n \in Name : Entries(n, s)' = Entries(n, s)
  PROVE  Round(s)'
<1>1. \A j \in DOMAIN Names : /\ Entries(Names[j], s)' = Entries(Names[j], s)
                             /\ <<Names[j], s>> \in steady' <=> <<Names[j], s>> \in steady
  BY NamesTyped
<1>2. CASE process[s] = "running" /\ registry
  <2>1. process'[s] = "running" /\ registry'
    BY <1>2
  <2>2. ASSUME NEW j \in DOMAIN Names
        PROVE  IF <<Names[j], s>> \in steady'
               THEN \E x \in Entries(Names[j], s)' : x.silence + Until(s, j)' <= Comeback
               ELSE together'[s] + Until(s, j)' <= Comeback
    <3>1. IF <<Names[j], s>> \in steady
          THEN \E x \in Entries(Names[j], s) : x.silence + Until(s, j) <= Comeback
          ELSE together[s] + Until(s, j) <= Comeback
      BY <1>2 DEF Round
    <3>2. Until(s, j)' = Until(s, j)
      BY <1>2
    <3>3. CASE <<Names[j], s>> \in steady
      BY <1>1, <3>1, <3>2, <3>3
    <3>4. CASE <<Names[j], s>> \notin steady
      <4>1. <<Names[j], s>> \notin steady'
        <5>1. PICK n \in Name : n = Names[j]
          BY NamesTyped
        <5>2. <<n, s>> \in steady' <=> <<n, s>> \in steady
          OBVIOUS
        <5>3. QED
          BY <3>4, <5>1, <5>2
      <4>2. together[s] + Until(s, j) <= Comeback
        BY <3>1, <3>4
      <4>3. together'[s] + Until(s, j)' <= Comeback
        BY <3>2, <4>2
      <4>4. QED
        BY <4>1, <4>3
    <3>5. QED
      BY <3>3, <3>4
  <2>3. QED
    BY <2>1, <2>2 DEF Round
<1>3. CASE ~(process[s] = "running" /\ registry)
  <2>1. ~(process'[s] = "running" /\ registry')
    BY <1>3
  <2>2. together[s] = 0 /\ \A n \in Name : <<n, s>> \notin steady
    BY <1>3 DEF Round
  <2>3. together'[s] = 0 /\ \A n \in Name : <<n, s>> \notin steady'
    BY <2>2
  <2>4. QED
    BY <2>1, <2>3 DEF Round
<1>4. QED
  BY <1>2, <1>3

\* The heartbeats of s are as far away as they were.
LEMMA SameUntil ==
  ASSUME NEW s \in Server, heart'[s] = heart[s], Live(s, "heart")' = Live(s, "heart")
  PROVE  \A j : Until(s, j)' = Until(s, j)
BY DEF Until

\* Its round is the same if the table and its threads are.
LEMMA StillRound ==
  ASSUME NEW s \in Server, Same(s), Round(s)
  PROVE  Round(s)'
<1>1. \A j \in DOMAIN Names : Until(s, j)' = Until(s, j)
  BY SameUntil DEF Same
<1>2. /\ registry' = registry /\ process'[s] = process[s] /\ together'[s] = together[s]
      /\ \A n \in Name : <<n, s>> \in steady' <=> <<n, s>> \in steady
      /\ \A n \in Name : Entries(n, s)' = Entries(n, s)
  BY DEF Same
<1>3. QED
  BY <1>1, <1>2, SameRound

\* So is how long it may have been silent.
LEMMA SameFades ==
  ASSUME NEW s \in Server, Same(s), Fades(s)
  PROVE  Fades(s)'
<1>1. \A x : Grace(x)' = Grace(x)
  BY DEF Grace, Same
<1>2. (Serving(s) => silent[s] = 0)'
  BY DEF Fades, Serving, Same
<1>3. Trailing(s)'
  BY DEF Fades, Trailing, Same
<1>4. Enrolling(s)'
  BY DEF Fades, Enrolling, Same
<1>5. Lingering(s)'
  BY <1>1 DEF Fades, Lingering, Same
<1>6. QED
  BY <1>2, <1>3, <1>4, <1>5 DEF Fades

\* The domains of what is kept per server.
LEMMA PerServer ==
  ASSUME TypeOK
  PROVE  /\ DOMAIN heart = Server /\ DOMAIN enroller = Server /\ DOMAIN process = Server
         /\ DOMAIN together = Server /\ DOMAIN silent = Server /\ DOMAIN services = Name
         /\ steady \subseteq Name \X Server
BY DEF TypeOK

\* The steps of one server are no other's.
LEMMA OthersSame ==
  ASSUME TypeOK, NEW s \in Server, NEW q \in Server, s # q,
         \/ RegisterSingleService(q) \/ SendHeartbeatForService(q)
         \/ Start(q) \/ Stop(q) \/ Joined(q) \/ Crash(q)
  PROVE  Same(s)
<1>1. CASE RegisterSingleService(q)
  <2>1. /\ process' = process /\ heart' = heart /\ together' = together /\ silent' = silent
        /\ steady' = steady /\ services' = services /\ registry' = registry /\ checker' = checker
    BY <1>1 DEF RegisterSingleService, registryVars, history
  <2>2. enroller'[s] = enroller[s]
    BY <1>1, PerServer DEF RegisterSingleService, EnrollFails
  <2>3. requests' = requests \/ \E b : requests' = requests \union {Request(q, "enroller", b)}
    BY <1>1 DEF RegisterSingleService
  <2>4. \A b : Request(q, "enroller", b).from = q
    BY DEF Request
  <2>5. \A t : Live(s, t)' = Live(s, t)
    BY <2>3, <2>4 DEF Live
  <2>6. \A r \in requests' : r.from = s => r \in requests
    BY <2>3, <2>4
  <2>7. QED
    BY <2>1, <2>2, <2>5, <2>6 DEF Same, Entries
<1>2. CASE SendHeartbeatForService(q)
  <2>1. /\ process' = process /\ enroller' = enroller /\ together' = together /\ silent' = silent
        /\ steady' = steady /\ services' = services /\ registry' = registry /\ checker' = checker
    BY <1>2 DEF SendHeartbeatForService, registryVars, history
  <2>2. heart'[s] = heart[s]
    BY <1>2, PerServer DEF SendHeartbeatForService, Beaten
  <2>3. requests' = requests \/ \E b : requests' = requests \union {Request(q, "heart", b)}
    BY <1>2 DEF SendHeartbeatForService
  <2>4. \A b : Request(q, "heart", b).from = q
    BY DEF Request
  <2>5. \A t : Live(s, t)' = Live(s, t)
    BY <2>3, <2>4 DEF Live
  <2>6. \A r \in requests' : r.from = s => r \in requests
    BY <2>3, <2>4
  <2>7. QED
    BY <2>1, <2>2, <2>5, <2>6 DEF Same, Entries
<1>3. CASE Start(q) \/ Stop(q) \/ Joined(q)
  <2>1. /\ services' = services /\ registry' = registry /\ checker' = checker /\ requests' = requests
    BY <1>3 DEF Start, Stop, Joined, registryVars
  <2>2. process'[s] = process[s] /\ heart'[s] = heart[s] /\ enroller'[s] = enroller[s]
    BY <1>3, PerServer DEF Start, Stop, Joined
  <2>3. /\ together'[s] = together[s] /\ silent'[s] = silent[s]
        /\ \A n \in Name : <<n, s>> \in steady' <=> <<n, s>> \in steady
    BY <1>3, PerServer DEF Start, Stop, Joined, Unsteady
  <2>4. QED
    BY <2>1, <2>2, <2>3 DEF Same, Entries, Live
<1>4. CASE Crash(q)
  <2>1. services' = services /\ registry' = registry /\ checker' = checker
    BY <1>4 DEF Crash, registryVars
  <2>2. process'[s] = process[s] /\ heart'[s] = heart[s] /\ enroller'[s] = enroller[s]
    BY <1>4, PerServer DEF Crash
  <2>3. /\ together'[s] = together[s] /\ silent'[s] = silent[s]
        /\ \A n \in Name : <<n, s>> \in steady' <=> <<n, s>> \in steady
    BY <1>4, PerServer DEF Crash, Unsteady
  <2>4. requests' = {CutOff(r, q) : r \in requests}
    BY <1>4 DEF Crash, CutOff
  <2>5. \A t : Live(s, t)' = Live(s, t)
    BY <2>4, LiveCut
  <2>6. \A r \in requests : CutOff(r, q).from = s => CutOff(r, q) = r
    <3>1. \A r \in requests : r \in Requests
      BY DEF TypeOK
    <3>2. \A r \in Requests : CutOff(r, q).from = r.from /\ (r.from # q => CutOff(r, q) = r)
      BY CutRequest
    <3>3. QED
      BY <3>1, <3>2
  <2>7. \A r \in requests' : r.from = s => r \in requests
    BY <2>4, <2>6
  <2>8. QED
    BY <2>1, <2>2, <2>3, <2>5, <2>7 DEF Same, Entries
<1>5. QED
  BY <1>1, <1>2, <1>3, <1>4

\* A lookup is no server's.
LEMMA DiscoverSame ==
  ASSUME TypeOK, NEW n \in Name, Discover(n), NEW s \in Server
  PROVE  Same(s)
<1>1. /\ services' = services /\ registry' = registry /\ checker' = checker /\ heart' = heart
      /\ enroller' = enroller /\ process' = process /\ together' = together /\ silent' = silent
      /\ steady' = steady
  BY DEF Discover, registryVars, serverVars
<1>2. PICK q : /\ q = Request(Seeker, "seeker", Serialize(ServiceDiscoveryRequest, <<n>>))
              /\ requests' = requests \union {q}
  BY DEF Discover
<1>3. q.from # s
  BY <1>2, Numbers DEF Request
<1>4. \A t : Live(s, t)' = Live(s, t)
  BY <1>2, <1>3 DEF Live
<1>5. \A r \in requests' : r.from = s => r \in requests
  BY <1>2, <1>3
<1>6. QED
  BY <1>1, <1>4, <1>5 DEF Same, Entries

\* A request that is handled is one server's at most.
LEMMA HandleSame ==
  ASSUME TypeOK, ListedOnce, Conversations, NEW r \in requests, HandleConnection(r),
         NEW s \in Server, r.from # s
  PROVE  Same(s)
<1>1. /\ registry' = registry /\ checker' = checker /\ process' = process
      /\ together' = together /\ silent' = silent /\ requests' = requests \ {r}
  BY DEF HandleConnection
<1>2. /\ \A t : Live(s, t)' = Live(s, t)
      /\ \A x \in requests' : x.from = s => x \in requests
  BY <1>1 DEF Live
<1>3. CASE r.from = Seeker
  <2>1. services' = services /\ steady' = steady /\ enroller' = enroller /\ heart' = heart
    BY <1>3, LookupHandled
  <2>2. QED
    BY <1>1, <1>2, <2>1 DEF Same, Entries
<1>4. CASE r.from # Seeker
  <2>1. PICK n \in Name :
           /\ r.from \in Server
           /\ services' = HandleServiceRegister(<<n, Host, r.from>>).services
           /\ steady' = IF r.live /\ process[r.from] = "running"
                        THEN steady \union {<<n, r.from>>} ELSE steady
    BY <1>4, InstanceHandled
  <2>2. \A m \in Name : Entries(m, s)' = Entries(m, s)
    BY <2>1, Registered
  <2>3. \A m \in Name : <<m, s>> \in steady' <=> <<m, s>> \in steady
    BY <2>1
  <2>4. enroller'[s] = enroller[s] /\ heart'[s] = heart[s]
    BY PerServer DEF HandleConnection, Answered, Enrolled, Beaten
  <2>5. QED
    BY <1>1, <1>2, <2>2, <2>3, <2>4 DEF Same
<1>5. QED
  BY <1>3, <1>4


-----------------------------------------------------------------------------
(* The states of the two threads.                                           *)

Enrollers == [at : 1..Finished, waits : BOOLEAN]
Hearts    == [at : DOMAIN Names, waits : BOOLEAN, left : 0..HeartbeatPeriod]

\* A thread that starts.
LEMMA NewThreads == NewEnroller \in Enrollers /\ NewHeart \in Hearts
<1>1. 1 \in 1..Finished /\ 1 \in DOMAIN Names /\ 0 \in 0..HeartbeatPeriod
  BY Numbers DEF Finished
<1>2. QED
  BY <1>1 DEF Enrollers, Hearts, NewEnroller, NewHeart

\* A heartbeat is answered, or fails: the thread goes on to the next name, or
\* sleeps before the first.
LEMMA BeatenState ==
  ASSUME TypeOK, NEW s \in Server
  PROVE  /\ Beaten(s) \in [Server -> Hearts] /\ ~Beaten(s)[s].waits
         /\ IF heart[s].at = Len(Names)
            THEN Beaten(s)[s].at = 1 /\ Beaten(s)[s].left = HeartbeatPeriod
            ELSE Beaten(s)[s].at = heart[s].at + 1 /\ Beaten(s)[s].left = 0
         /\ \A q \in Server : q # s => Beaten(s)[q] = heart[q]
<1> DEFINE next == IF heart[s].at = Len(Names)
                   THEN [at |-> 1, waits |-> FALSE, left |-> HeartbeatPeriod]
                   ELSE [at |-> heart[s].at + 1, waits |-> FALSE, left |-> 0]
<1>1. heart \in [Server -> Hearts]
  BY DEF TypeOK, Hearts
<1>2. Beaten(s) = [heart EXCEPT ![s] = next]
  BY <1>1 DEF Beaten
<1>3. next \in Hearts
  <2>1. heart[s].at \in 1..Len(Names) /\ HeartbeatPeriod \in Nat /\ Len(Names) \in Nat /\ DOMAIN Names = 1..Len(Names)
    BY ServerState, Numbers
  <2>2. 1 \in DOMAIN Names /\ 0 \in 0..HeartbeatPeriod /\ HeartbeatPeriod \in 0..HeartbeatPeriod
    BY <2>1
  <2>3. heart[s].at # Len(Names) => heart[s].at + 1 \in DOMAIN Names
    BY <2>1
  <2>4. QED
    BY <2>2, <2>3 DEF Hearts
<1>4. /\ ~next.waits
      /\ IF heart[s].at = Len(Names) THEN next.at = 1 /\ next.left = HeartbeatPeriod
         ELSE next.at = heart[s].at + 1 /\ next.left = 0
  OBVIOUS
<1> HIDE DEF next
<1>5. QED
  BY <1>1, <1>2, <1>3, <1>4

\* A registration is answered, or the thread gives up.
LEMMA EnrolledState ==
  ASSUME TypeOK, NEW s \in Server
  PROVE  /\ EnrollFails(s) \in [Server -> Enrollers] /\ ~EnrollFails(s)[s].waits
         /\ EnrollFails(s)[s].at = Finished
         /\ enroller[s].at # Finished => Enrolled(s) \in [Server -> Enrollers]
         /\ ~Enrolled(s)[s].waits /\ Enrolled(s)[s].at = enroller[s].at + 1
<1>1. enroller \in [Server -> Enrollers]
  BY DEF TypeOK, Enrollers
<1>2. enroller[s].at \in 1..Finished /\ Finished \in Nat /\ Finished \in 1..Finished
  BY ServerState, Numbers DEF Finished
<1>3. [at |-> Finished, waits |-> FALSE] \in Enrollers
  BY <1>2 DEF Enrollers
<1>4. enroller[s].at # Finished => [at |-> enroller[s].at + 1, waits |-> FALSE] \in Enrollers
  <2>1. enroller[s].at # Finished => enroller[s].at + 1 \in 1..Finished
    BY <1>2
  <2>2. QED
    BY <2>1 DEF Enrollers
<1>5. /\ EnrollFails(s) = [enroller EXCEPT ![s] = [at |-> Finished, waits |-> FALSE]]
      /\ Enrolled(s) = [enroller EXCEPT ![s] = [at |-> enroller[s].at + 1, waits |-> FALSE]]
  BY <1>1 DEF EnrollFails, Enrolled
<1>6. QED
  BY <1>1, <1>3, <1>4, <1>5

\* A thread sends its request and waits.
LEMMA WaitingState ==
  ASSUME TypeOK, NEW s \in Server
  PROVE  /\ [heart EXCEPT ![s].waits = TRUE] \in [Server -> Hearts]
         /\ [heart EXCEPT ![s].waits = TRUE][s].waits
         /\ [heart EXCEPT ![s].waits = TRUE][s].at = heart[s].at
         /\ [heart EXCEPT ![s].waits = TRUE][s].left = heart[s].left
         /\ [enroller EXCEPT ![s].waits = TRUE] \in [Server -> Enrollers]
         /\ [enroller EXCEPT ![s].waits = TRUE][s].waits
         /\ [enroller EXCEPT ![s].waits = TRUE][s].at = enroller[s].at
<1>1. enroller \in [Server -> Enrollers] /\ heart \in [Server -> Hearts]
  BY DEF TypeOK, Enrollers, Hearts
<1>2. /\ [heart[s] EXCEPT !.waits = TRUE] \in Hearts /\ [heart[s] EXCEPT !.waits = TRUE].waits
      /\ [heart[s] EXCEPT !.waits = TRUE].at = heart[s].at
      /\ [heart[s] EXCEPT !.waits = TRUE].left = heart[s].left
  BY <1>1 DEF Hearts
<1>3. /\ [enroller[s] EXCEPT !.waits = TRUE] \in Enrollers /\ [enroller[s] EXCEPT !.waits = TRUE].waits
      /\ [enroller[s] EXCEPT !.waits = TRUE].at = enroller[s].at
  BY <1>1 DEF Enrollers
<1>4. QED
  BY <1>1, <1>2, <1>3


-----------------------------------------------------------------------------
(* Types, and vectors without doubles.                                      *)

\* The next-state relation, action by action.
LEMMA NextCases ==
  ASSUME Next
  PROVE  \/ CheckHeartbeat \/ RegistryCrash \/ RegistryStart \/ Tick
         \/ \E s \in Server : \/ RegisterSingleService(s) \/ SendHeartbeatForService(s)
                              \/ Start(s) \/ Stop(s) \/ Joined(s) \/ Crash(s)
         \/ \E n \in Name : Discover(n)
         \/ \E r \in requests : HandleConnection(r)
BY DEF Next

\* The types at first, and the vectors without doubles.
LEMMA TypeInit == Init => TypeOK /\ ListedOnce
<1> SUFFICES ASSUME Init PROVE TypeOK /\ ListedOnce
  OBVIOUS
<1>1. /\ 0 \in 0..CheckPeriod /\ 0 \in 0..MaxFaults /\ 0 \in 0..Long /\ Long \in 0..Long
  BY Numbers
<1>2. services \in [Name -> Seq(InstanceInfo)]
  BY DEF Init
<1>3. enroller \in [Server -> Enrollers] /\ heart \in [Server -> Hearts]
  BY NewThreads DEF Init
<1>4. TypeOK
  BY <1>1, <1>2, <1>3 DEF Init, TypeOK, Enrollers, Hearts
<1>5. ListedOnce
  <2>1. \A n \in Name : services[n] = << >>
    BY DEF Init
  <2>2. \A n \in Name : DOMAIN services[n] = {}
    BY <2>1
  <2>3. QED
    BY <2>2 DEF ListedOnce
<1>6. QED
  BY <1>4, <1>5

\* A step of a server keeps the types.
LEMMA TypeServer ==
  ASSUME TypeOK, Conversations, NEW s \in Server,
         \/ RegisterSingleService(s) \/ SendHeartbeatForService(s)
         \/ Start(s) \/ Stop(s) \/ Joined(s) \/ Crash(s)
  PROVE  TypeOK'
<1>1. /\ heart \in [Server -> Hearts] /\ enroller \in [Server -> Enrollers]
      /\ faults \in 0..MaxFaults /\ MaxFaults \in Nat /\ 0 \in 0..Long
  BY Numbers DEF TypeOK, Hearts, Enrollers
<1>2. CASE RegisterSingleService(s)
  <2>1. Names[enroller[s].at] \in Name
    BY <1>2, AtName DEF RegisterSingleService
  <2> DEFINE q == Request(s, "enroller", Serialize(ServiceRegisterRequest, <<Names[enroller[s].at], Host, s>>))
  <2>5. \/ requests' = requests \union {q} /\ enroller' = [enroller EXCEPT ![s].waits = TRUE]
        \/ requests' = requests /\ enroller' = EnrollFails(s)
    BY <1>2, Zenon DEF RegisterSingleService
  <2>6. q \in Requests
    BY <2>1, NewRequest
  <2> HIDE DEF q
  <2>2. requests' \subseteq Requests
    BY <2>5, <2>6 DEF TypeOK
  <2>7. /\ [enroller EXCEPT ![s].waits = TRUE] \in [Server -> Enrollers]
        /\ EnrollFails(s) \in [Server -> Enrollers]
    BY WaitingState, EnrolledState
  <2>3. enroller' \in [Server -> Enrollers]
    BY <2>5, <2>7, Zenon
  <2>4. QED
    BY <1>2, <2>2, <2>3 DEF RegisterSingleService, registryVars, history, TypeOK, Enrollers
<1>3. CASE SendHeartbeatForService(s)
  <2>1. Names[heart[s].at] \in Name
    BY ServerState, NamesTyped
  <2> DEFINE q == Request(s, "heart", Serialize(HeartbeatRequest, <<Names[heart[s].at], Host, s>>))
  <2>5. \/ requests' = requests \union {q} /\ heart' = [heart EXCEPT ![s].waits = TRUE]
        \/ requests' = requests /\ heart' = Beaten(s)
    BY <1>3, Zenon DEF SendHeartbeatForService
  <2>6. q \in Requests
    BY <2>1, NewRequest
  <2> HIDE DEF q
  <2>2. requests' \subseteq Requests
    BY <2>5, <2>6 DEF TypeOK
  <2>7. [heart EXCEPT ![s].waits = TRUE] \in [Server -> Hearts] /\ Beaten(s) \in [Server -> Hearts]
    BY WaitingState, BeatenState
  <2>3. heart' \in [Server -> Hearts]
    BY <2>5, <2>7, Zenon
  <2>4. QED
    BY <1>3, <2>2, <2>3 DEF SendHeartbeatForService, registryVars, history, TypeOK, Hearts
<1>4. CASE Start(s)
  <2>1. heart' \in [Server -> Hearts] /\ enroller' \in [Server -> Enrollers]
    BY <1>1, <1>4, NewThreads DEF Start
  <2>2. QED
    BY <1>1, <1>4, <2>1 DEF Start, registryVars, TypeOK, Hearts, Enrollers
<1>5. CASE Stop(s)
  <2>1. faults' \in 0..MaxFaults
    BY <1>1, <1>5 DEF Stop
  <2>2. QED
    BY <1>1, <1>5, <2>1 DEF Stop, Unsteady, registryVars, TypeOK
<1>6. CASE Joined(s)
  BY <1>1, <1>6 DEF Joined, registryVars, TypeOK
<1>7. CASE Crash(s)
  <2>1. faults' \in 0..MaxFaults
    BY <1>1, <1>7 DEF Crash
  <2>2. requests' \subseteq Requests
    <3>1. requests' = {CutOff(r, s) : r \in requests}
      BY <1>7 DEF Crash, CutOff
    <3>2. QED
      BY <3>1, CutRequest DEF TypeOK
  <2>3. heart' \in [Server -> Hearts] /\ enroller' \in [Server -> Enrollers]
    BY <1>1, <1>7, NewThreads DEF Crash
  <2>4. silent' \in [Server -> 0..Long] /\ together' \in [Server -> 0..Long]
    BY <1>1, <1>7 DEF Crash, Unsteady, TypeOK
  <2>5. QED
    BY <1>7, <2>1, <2>2, <2>3, <2>4 DEF Crash, Unsteady, registryVars, TypeOK, Hearts, Enrollers
<1>8. QED
  BY <1>2, <1>3, <1>4, <1>5, <1>6, <1>7

\* A request that is handled keeps the types, and the vectors without doubles.
LEMMA TypeHandled ==
  ASSUME TypeOK, ListedOnce, Conversations, NEW r \in requests, HandleConnection(r)
  PROVE  TypeOK' /\ ListedOnce'
<1>1. /\ registry' = registry /\ checker' = checker /\ process' = process /\ faults' = faults
      /\ together' = together /\ silent' = silent /\ owed' = owed /\ requests' \subseteq Requests
  BY DEF HandleConnection, TypeOK
<1>2. /\ heart \in [Server -> Hearts] /\ enroller \in [Server -> Enrollers]
  BY DEF TypeOK, Hearts, Enrollers
<1>3. CASE r.from = Seeker
  BY <1>1, <1>3, LookupHandled DEF TypeOK, ListedOnce
<1>4. CASE r.from # Seeker
  <2>1. PICK n \in Name :
           /\ r.from \in Server /\ services' = HandleServiceRegister(<<n, Host, r.from>>).services
           /\ steady' = IF r.live /\ process[r.from] = "running"
                        THEN steady \union {<<n, r.from>>} ELSE steady
           /\ seeker' = seeker /\ missed' = missed
    BY <1>4, InstanceHandled
  <2>2. services' \in [Name -> Seq(InstanceInfo)] /\ ListedOnce'
    BY <2>1, Registered
  <2>3. heart' \in [Server -> Hearts]
    BY <1>2, <2>1, BeatenState DEF HandleConnection, Answered
  <2>4. enroller' \in [Server -> Enrollers]
    <3>1. CASE r.live /\ r.thread = "enroller"
      <4>1. enroller[r.from].waits
        BY <2>1, <3>1, Waiting
      <4>2. enroller[r.from].at # Finished
        BY <2>1, <4>1 DEF Conversations, Talks
      <4>3. QED
        BY <2>1, <3>1, <4>2, EnrolledState DEF HandleConnection, Answered
    <3>2. CASE ~(r.live /\ r.thread = "enroller")
      BY <1>2, <3>2 DEF HandleConnection, Answered
    <3>3. QED
      BY <3>1, <3>2
  <2>5. steady' \subseteq Name \X Server
    BY <2>1 DEF TypeOK
  <2>6. QED
    BY <1>1, <2>1, <2>2, <2>3, <2>4, <2>5 DEF TypeOK, Hearts, Enrollers
<1>5. QED
  BY <1>3, <1>4


\* Every step keeps the types, and the vectors without doubles.
LEMMA TypeStep ==
  ASSUME TypeOK, ListedOnce, Conversations, Next
  PROVE  TypeOK' /\ ListedOnce'
<1>1. /\ heart \in [Server -> Hearts] /\ enroller \in [Server -> Enrollers]
      /\ faults \in 0..MaxFaults /\ MaxFaults \in Nat /\ 0 \in 0..Long /\ checker \in 0..CheckPeriod
      /\ CheckPeriod \in Nat /\ Long \in Nat /\ 0 \in 0..CheckPeriod /\ CheckPeriod \in 0..CheckPeriod
  BY Numbers DEF TypeOK, Hearts, Enrollers
<1>2. CASE CheckHeartbeat
  <2>1. services' \in [Name -> Seq(InstanceInfo)] /\ ListedOnce'
    BY <1>2, Checked DEF CheckHeartbeat
  <2>2. QED
    BY <1>1, <1>2, <2>1 DEF CheckHeartbeat, serverVars, history, TypeOK
<1>3. CASE RegistryCrash
  <2>1. faults' \in 0..MaxFaults
    BY <1>1, <1>3 DEF RegistryCrash
  <2>2. services' \in [Name -> Seq(InstanceInfo)] /\ \A n \in Name : services'[n] = << >>
    BY <1>3 DEF RegistryCrash
  <2>3. heart' \in [Server -> Hearts]
    <3>1. \A s \in Server : Beaten(s)[s] \in Hearts /\ heart[s] \in Hearts
      BY <1>1, BeatenState
    <3>2. QED
      BY <1>3, <3>1 DEF RegistryCrash
  <2>4. enroller' \in [Server -> Enrollers]
    <3>1. \A s \in Server : EnrollFails(s)[s] \in Enrollers /\ enroller[s] \in Enrollers
      BY <1>1, EnrolledState
    <3>2. QED
      BY <1>3, <3>1 DEF RegistryCrash
  <2>5. ListedOnce'
    <3>1. \A n \in Name : DOMAIN services'[n] = {}
      BY <2>2
    <3>2. QED
      BY <3>1 DEF ListedOnce
  <2>6. together' \in [Server -> 0..Long]
    BY <1>1, <1>3 DEF RegistryCrash
  <2>7. QED
    BY <1>1, <1>3, <2>1, <2>2, <2>3, <2>4, <2>5, <2>6 DEF RegistryCrash, TypeOK, Hearts, Enrollers
<1>4. CASE RegistryStart
  BY <1>1, <1>4 DEF RegistryStart, serverVars, history, TypeOK, ListedOnce
<1>5. CASE Tick
  <2>1. services' \in [Name -> Seq(InstanceInfo)] /\ ListedOnce'
    BY <1>5, Aged DEF Tick
  <2>2. checker' \in 0..CheckPeriod
    BY <1>1, <1>5 DEF Tick, Down
  <2>3. heart' \in [Server -> Hearts]
    <3>1. ASSUME NEW h \in Hearts PROVE [h EXCEPT !.left = Down(@)] \in Hearts
      <4>1. h.left \in 0..HeartbeatPeriod /\ HeartbeatPeriod \in Nat
        BY Numbers DEF Hearts
      <4>2. Down(h.left) \in 0..HeartbeatPeriod
        BY <4>1 DEF Down
      <4>3. QED
        BY <4>2 DEF Hearts
    <3>2. heart' = [s \in Server |-> [heart[s] EXCEPT !.left = Down(@)]]
      BY <1>5 DEF Tick
    <3>3. QED
      BY <1>1, <3>1, <3>2
  <2>4. requests' \subseteq Requests
    <3>1. requests' = {Older(r) : r \in requests} /\ \A r \in requests : r.age < MaxDelay
      BY <1>5 DEF Tick, Older
    <3>2. QED
      BY <3>1, OlderRequest DEF TypeOK
  <2>5. together' \in [Server -> 0..Long] /\ silent' \in [Server -> 0..Long]
    <3>1. ASSUME NEW k \in 0..Long PROVE UpTo(Long, k) \in 0..Long
      BY <1>1 DEF UpTo
    <3>2. \A s \in Server : together[s] \in 0..Long /\ silent[s] \in 0..Long
      BY DEF TypeOK
    <3>3. /\ together' = [s \in Server |-> IF registry /\ process[s] = "running" THEN UpTo(Long, together[s]) ELSE 0]
          /\ silent' = [s \in Server |-> IF Serving(s) THEN 0 ELSE UpTo(Long, silent[s])]
      BY <1>5 DEF Tick
    <3>4. QED
      BY <1>1, <3>1, <3>2, <3>3
  <2>6. /\ registry' = registry /\ process' = process /\ enroller' = enroller /\ seeker' = seeker
        /\ faults' = faults /\ steady' = steady /\ owed' = owed /\ missed' = missed
    BY <1>5 DEF Tick
  <2>7. QED
    BY <2>1, <2>2, <2>3, <2>4, <2>5, <2>6 DEF TypeOK, Hearts
<1>6. CASE \E s \in Server : \/ RegisterSingleService(s) \/ SendHeartbeatForService(s)
                            \/ Start(s) \/ Stop(s) \/ Joined(s) \/ Crash(s)
  <2>1. services' = services
    BY <1>6 DEF RegisterSingleService, SendHeartbeatForService, Start, Stop, Joined, Crash, registryVars
  <2>2. QED
    BY <1>6, <2>1, TypeServer DEF ListedOnce
<1>7. CASE \E n \in Name : Discover(n)
  <2>1. PICK n \in Name : Discover(n)
    BY <1>7
  <2>2. requests' \subseteq Requests
    BY <2>1, NewLookup DEF Discover, TypeOK
  <2>3. owed' \subseteq Server
    BY <2>1 DEF Discover, TypeOK
  <2>4. QED
    BY <2>1, <2>2, <2>3 DEF Discover, registryVars, serverVars, TypeOK, ListedOnce
<1>8. CASE \E r \in requests : HandleConnection(r)
  BY <1>8, TypeHandled
<1>9. QED
  BY <1>2, <1>3, <1>4, <1>5, <1>6, <1>7, <1>8, NextCases


-----------------------------------------------------------------------------
(* Conversations.                                                           *)

\* The steps of a server keep its conversations.
LEMMA TalkServer ==
  ASSUME TypeOK, Conversations, NEW s \in Server,
         \/ RegisterSingleService(s) \/ SendHeartbeatForService(s)
         \/ Start(s) \/ Stop(s) \/ Joined(s) \/ Crash(s)
  PROVE  Talks(s)'
<1>1. Talks(s)
  BY DEF Conversations
<1>2. CASE RegisterSingleService(s)
  <2>1. heart' = heart /\ process' = process /\ process[s] # "off"
    BY <1>2 DEF RegisterSingleService
  <2>2. Live(s, "enroller") = {} /\ enroller[s].at # Finished
    BY <1>1, <1>2 DEF RegisterSingleService, Talks, Sent
  <2>3. CASE registry
    <3>1. PICK q : /\ q = Request(s, "enroller", Serialize(ServiceRegisterRequest, <<Names[enroller[s].at], Host, s>>))
                   /\ requests' = requests \union {q} /\ enroller' = [enroller EXCEPT ![s].waits = TRUE]
      BY <1>2, <2>3 DEF RegisterSingleService
    <3>2. Names[enroller[s].at] \in Name
      BY <2>2, AtName
    <3>3. q.live /\ q.from = s /\ q.thread = "enroller" /\ q.bytes = InstanceBytes(Names[enroller[s].at], s)
      BY <3>1, <3>2, NewRequest
    <3>4. Live(s, "enroller")' = {q} /\ Live(s, "heart")' = Live(s, "heart")
      BY <2>2, <3>1, <3>3, LiveSent
    <3>5. enroller'[s].waits /\ enroller'[s].at = enroller[s].at
      BY <3>1, WaitingState
    <3>6. Sent(s, "enroller", enroller[s])'
      BY <3>3, <3>4, <3>5 DEF Sent
    <3>7. Sent(s, "heart", heart[s])'
      BY <1>1, <2>1, <3>4 DEF Sent, Talks
    <3>8. QED
      BY <1>1, <2>1, <2>2, <3>5, <3>6, <3>7 DEF Talks
  <2>4. CASE ~registry
    <3>1. requests' = requests /\ enroller' = EnrollFails(s)
      BY <1>2, <2>4 DEF RegisterSingleService
    <3>2. ~enroller'[s].waits
      BY <3>1, EnrolledState
    <3>3. Sent(s, "enroller", enroller[s])' /\ Sent(s, "heart", heart[s])'
      BY <1>1, <2>1, <2>2, <3>1, <3>2 DEF Sent, Talks, Live
    <3>4. QED
      BY <1>1, <2>1, <3>2, <3>3 DEF Talks
  <2>5. QED
    BY <2>3, <2>4
<1>3. CASE SendHeartbeatForService(s)
  <2>1. enroller' = enroller /\ process' = process /\ process[s] \in {"running", "stopping"}
    BY <1>3 DEF SendHeartbeatForService, HeartDue
  <2>2. Live(s, "heart") = {} /\ heart[s].left = 0
    BY <1>1, <1>3 DEF SendHeartbeatForService, HeartDue, Talks, Sent
  <2>3. CASE registry
    <3>1. PICK q : /\ q = Request(s, "heart", Serialize(HeartbeatRequest, <<Names[heart[s].at], Host, s>>))
                   /\ requests' = requests \union {q} /\ heart' = [heart EXCEPT ![s].waits = TRUE]
      BY <1>3, <2>3 DEF SendHeartbeatForService
    <3>2. Names[heart[s].at] \in Name
      BY ServerState, NamesTyped
    <3>3. q.live /\ q.from = s /\ q.thread = "heart" /\ q.bytes = InstanceBytes(Names[heart[s].at], s)
      BY <3>1, <3>2, NewRequest
    <3>4. Live(s, "heart")' = {q} /\ Live(s, "enroller")' = Live(s, "enroller")
      BY <2>2, <3>1, <3>3, LiveSent
    <3>5. heart'[s].waits /\ heart'[s].at = heart[s].at /\ heart'[s].left = 0
      BY <2>2, <3>1, WaitingState
    <3>6. Sent(s, "heart", heart[s])'
      BY <3>3, <3>4, <3>5 DEF Sent
    <3>7. Sent(s, "enroller", enroller[s])'
      BY <1>1, <2>1, <3>4 DEF Sent, Talks
    <3>8. QED
      BY <1>1, <2>1, <3>5, <3>6, <3>7 DEF Talks
  <2>4. CASE ~registry
    <3>1. requests' = requests /\ heart' = Beaten(s)
      BY <1>3, <2>4 DEF SendHeartbeatForService
    <3>2. ~heart'[s].waits /\ (heart'[s].left > 0 => heart'[s].at = 1)
      BY <3>1, BeatenState
    <3>3. Sent(s, "enroller", enroller[s])' /\ Sent(s, "heart", heart[s])'
      BY <1>1, <2>1, <2>2, <3>1, <3>2 DEF Sent, Talks, Live
    <3>4. QED
      BY <1>1, <2>1, <3>2, <3>3 DEF Talks
  <2>5. QED
    BY <2>3, <2>4
<1>4. ~NewHeart.waits /\ ~NewEnroller.waits /\ NewHeart.left = 0
  BY DEF NewHeart, NewEnroller
<1>5. CASE Start(s)
  <2>1. /\ process'[s] = "running" /\ heart'[s] = NewHeart /\ enroller'[s] = NewEnroller
        /\ heart[s] = NewHeart /\ enroller[s] = NewEnroller /\ requests' = requests
    BY <1>1, <1>5, PerServer DEF Start, Talks
  <2>2. Sent(s, "enroller", enroller[s])' /\ Sent(s, "heart", heart[s])'
    BY <1>1, <1>4, <2>1 DEF Sent, Talks, Live
  <2>3. QED
    BY <1>4, <2>1, <2>2 DEF Talks
<1>6. CASE Stop(s) \/ Joined(s)
  <2>1. /\ heart' = heart /\ enroller' = enroller /\ requests' = requests
        /\ process'[s] = "stopping" \/ (process'[s] = "stopped" /\ heart[s] = NewHeart)
    BY <1>6, PerServer DEF Stop, Joined
  <2>2. Sent(s, "enroller", enroller[s])' /\ Sent(s, "heart", heart[s])'
    BY <1>1, <2>1 DEF Sent, Talks, Live
  <2>3. QED
    BY <1>1, <2>1, <2>2 DEF Talks
<1>7. CASE Crash(s)
  <2>1. heart'[s] = NewHeart /\ enroller'[s] = NewEnroller
    BY <1>7, PerServer DEF Crash
  <2>2. requests' = {CutOff(r, s) : r \in requests}
    BY <1>7 DEF Crash, CutOff
  <2>3. \A t : Live(s, t)' = {}
    BY <2>2, LiveCut
  <2>4. Sent(s, "enroller", enroller[s])' /\ Sent(s, "heart", heart[s])'
    BY <1>4, <2>1, <2>3 DEF Sent
  <2>5. QED
    BY <1>4, <2>1, <2>4 DEF Talks
<1>8. QED
  BY <1>2, <1>3, <1>5, <1>6, <1>7


\* A request that is handled keeps the conversations of its server.
LEMMA TalkHandled ==
  ASSUME TypeOK, Conversations, NEW r \in requests, HandleConnection(r),
         NEW s \in Server, r.from = s
  PROVE  Talks(s)'
<1>1. Talks(s) /\ process' = process /\ requests' = requests \ {r}
  BY DEF Conversations, HandleConnection
<1>2. \A t : Live(s, t)' = Live(s, t) \ {r}
  BY <1>1, LiveHandled
<1>3. CASE ~r.live
  <2>1. heart' = heart /\ enroller' = enroller
    BY <1>3 DEF HandleConnection, Answered
  <2>2. \A t : r \notin Live(s, t)
    BY <1>3 DEF Live
  <2>3. Live(s, "heart")' = Live(s, "heart") /\ Live(s, "enroller")' = Live(s, "enroller")
    BY <1>2, <2>2
  <2>4. QED
    BY <1>1, <2>1, <2>3, SameTalks
<1>4. CASE r.live /\ r.thread = "heart"
  <2>1. heart[s].waits /\ Live(s, "heart") = {r}
    BY <1>4, Waiting
  <2>2. Live(s, "heart")' = {} /\ Live(s, "enroller")' = Live(s, "enroller")
    BY <1>2, <1>4, <2>1 DEF Live
  <2>3. heart' = Beaten(s) /\ enroller' = enroller
    BY <1>4 DEF HandleConnection, Answered
  <2>4. ~heart'[s].waits /\ (heart'[s].left > 0 => heart'[s].at = 1)
    BY <2>3, BeatenState
  <2>5. process[s] \notin {"off", "stopped"}
    BY <1>1, <2>1 DEF Talks, NewHeart
  <2>6. Sent(s, "enroller", enroller[s])' /\ Sent(s, "heart", heart[s])'
    BY <1>1, <2>2, <2>3, <2>4 DEF Sent, Talks
  <2>7. QED
    BY <1>1, <2>3, <2>4, <2>5, <2>6 DEF Talks
<1>5. CASE r.live /\ r.thread = "enroller"
  <2>1. enroller[s].waits /\ Live(s, "enroller") = {r}
    BY <1>5, Waiting
  <2>2. Live(s, "enroller")' = {} /\ Live(s, "heart")' = Live(s, "heart")
    BY <1>2, <1>5, <2>1 DEF Live
  <2>3. enroller' = Enrolled(s) /\ heart' = heart
    BY <1>5 DEF HandleConnection, Answered
  <2>4. ~enroller'[s].waits
    BY <2>3, EnrolledState
  <2>5. process[s] # "off"
    BY <1>1, <2>1 DEF Talks, NewEnroller
  <2>6. Sent(s, "enroller", enroller[s])' /\ Sent(s, "heart", heart[s])'
    BY <1>1, <2>2, <2>3, <2>4 DEF Sent, Talks
  <2>7. QED
    BY <1>1, <2>3, <2>4, <2>5, <2>6 DEF Talks
<1>6. QED
  BY <1>3, <1>4, <1>5, Waiting

\* When the registry crashes nobody waits any more.
LEMMA TalkCrash ==
  ASSUME TypeOK, Conversations, RegistryCrash, NEW s \in Server
  PROVE  Talks(s)'
<1>1. Talks(s) /\ process' = process /\ requests' = {}
  BY DEF Conversations, RegistryCrash
<1>2. \A t : Live(s, t)' = {}
  BY <1>1 DEF Live
<1>3. heart'[s] = IF heart[s].waits THEN Beaten(s)[s] ELSE heart[s]
  BY DEF RegistryCrash
<1>4. enroller'[s] = IF enroller[s].waits THEN EnrollFails(s)[s] ELSE enroller[s]
  BY DEF RegistryCrash
<1>5. ~heart'[s].waits /\ (heart'[s].left > 0 => heart'[s].at = 1)
  BY <1>1, <1>3, BeatenState DEF Talks
<1>6. ~enroller'[s].waits
  BY <1>4, EnrolledState
<1>7. process[s] \in {"off", "stopped"} => heart'[s] = heart[s]
  BY <1>1, <1>3 DEF Talks, NewHeart
<1>8. process[s] = "off" => enroller'[s] = enroller[s]
  BY <1>1, <1>4 DEF Talks, NewEnroller
<1>9. Sent(s, "enroller", enroller[s])' /\ Sent(s, "heart", heart[s])'
  BY <1>2, <1>5, <1>6 DEF Sent
<1>10. QED
  BY <1>1, <1>5, <1>6, <1>7, <1>8, <1>9 DEF Talks

\* In a tick they wait on, and those who do not wait sleep a tick less.
LEMMA TalkTick ==
  ASSUME TypeOK, Conversations, Tick, NEW s \in Server
  PROVE  Talks(s)'
<1>1. Talks(s) /\ process' = process /\ enroller' = enroller
  BY DEF Conversations, Tick
<1>2. requests' = {Older(r) : r \in requests} /\ \A r \in requests : r.age < MaxDelay
  BY DEF Tick, Older
<1>3. \A t : Live(s, t)' = {Older(r) : r \in Live(s, t)}
  BY <1>2, LiveOlder
<1>4. /\ heart'[s].at = heart[s].at /\ heart'[s].waits = heart[s].waits
      /\ heart'[s].left = Down(heart[s].left)
  <2>1. heart'[s] = [heart[s] EXCEPT !.left = Down(@)]
    BY DEF Tick
  <2>2. heart[s] \in [at : DOMAIN Names, waits : BOOLEAN, left : 0..HeartbeatPeriod]
    BY DEF TypeOK
  <2>3. QED
    BY <2>1, <2>2
<1>5. heart'[s].left > 0 => heart[s].left > 0
  BY <1>4, ServerState DEF Down
<1>6. process[s] \in {"off", "stopped"} => heart'[s] = NewHeart
  <2>1. HAVE process[s] \in {"off", "stopped"}
  <2>2. heart[s] = NewHeart
    BY <1>1, <2>1 DEF Talks
  <2>3. heart'[s] = [NewHeart EXCEPT !.left = Down(@)]
    BY <2>2 DEF Tick
  <2>4. Down(0) = 0
    BY DEF Down
  <2>5. QED
    BY <2>3, <2>4 DEF NewHeart
<1>7. ASSUME NEW t, NEW state, Sent(s, t, state) PROVE Sent(s, t, state)'
  <2>1. CASE state.waits
    <3>1. PICK r \in Live(s, t) : Live(s, t) = {r} /\ r.bytes = InstanceBytes(Names[state.at], s)
      BY <1>7, <2>1 DEF Sent
    <3>2. Live(s, t)' = {Older(r)} /\ Older(r).bytes = r.bytes
      <4>1. r \in Requests /\ r.age < MaxDelay
        BY <1>2 DEF Live, TypeOK
      <4>2. QED
        BY <1>3, <3>1, <4>1, OlderRequest
    <3>3. QED
      BY <2>1, <3>1, <3>2 DEF Sent
  <2>2. CASE ~state.waits
    <3>1. Live(s, t)' = {}
      BY <1>3, <1>7, <2>2 DEF Sent
    <3>2. QED
      BY <2>2, <3>1 DEF Sent
  <2>3. QED
    BY <2>1, <2>2
<1>8. Sent(s, "enroller", enroller[s])'
  BY <1>1, <1>7 DEF Talks
<1>9. Sent(s, "heart", heart[s])'
  <2>1. Sent(s, "heart", heart'[s]) <=> Sent(s, "heart", heart[s])
    BY <1>4 DEF Sent
  <2>2. QED
    BY <1>1, <1>7, <2>1 DEF Talks
<1>10. QED
  BY <1>1, <1>4, <1>5, <1>6, <1>8, <1>9 DEF Talks


\* Every step keeps the conversations of the servers.
LEMMA TalkStep ==
  ASSUME TypeOK, ListedOnce, Conversations, Next, NEW s \in Server
  PROVE  Talks(s)'
<1>1. Talks(s)
  BY DEF Conversations
<1>2. CASE CheckHeartbeat \/ RegistryStart
  <2>1. heart' = heart /\ enroller' = enroller /\ process' = process /\ requests' = requests
    BY <1>2 DEF CheckHeartbeat, RegistryStart, serverVars
  <2>2. QED
    BY <1>1, <2>1, SameTalks DEF Live
<1>3. CASE RegistryCrash
  BY <1>3, TalkCrash
<1>4. CASE Tick
  BY <1>4, TalkTick
<1>5. CASE \E q \in Server : \/ RegisterSingleService(q) \/ SendHeartbeatForService(q)
                            \/ Start(q) \/ Stop(q) \/ Joined(q) \/ Crash(q)
  <2>1. PICK q \in Server : \/ RegisterSingleService(q) \/ SendHeartbeatForService(q)
                            \/ Start(q) \/ Stop(q) \/ Joined(q) \/ Crash(q)
    BY <1>5
  <2>2. CASE q = s
    BY <2>1, <2>2, TalkServer
  <2>3. CASE q # s
    <3>1. Same(s)
      BY <2>1, <2>3, OthersSame
    <3>2. QED
      BY <1>1, <3>1, SameTalks DEF Same
  <2>4. QED
    BY <2>2, <2>3
<1>6. CASE \E n \in Name : Discover(n)
  <2>1. Same(s)
    BY <1>6, DiscoverSame
  <2>2. QED
    BY <1>1, <2>1, SameTalks DEF Same
<1>7. CASE \E r \in requests : HandleConnection(r)
  <2>1. PICK r \in requests : HandleConnection(r)
    BY <1>7
  <2>2. CASE r.from = s
    BY <2>1, <2>2, TalkHandled
  <2>3. CASE r.from # s
    <3>1. Same(s)
      BY <2>1, <2>3, HandleSame
    <3>2. QED
      BY <1>1, <3>1, SameTalks DEF Same
  <2>4. QED
    BY <2>2, <2>3
<1>8. QED
  BY <1>2, <1>3, <1>4, <1>5, <1>6, <1>7, NextCases

\* What the requests ask for stays so with the same requests.
LEMMA AskedSame ==
  ASSUME Asked, requests' = requests, seeker' = seeker, registry' = registry,
         services' = services \/ registry
  PROVE  Asked'
<1>1. \A r : Asks(r)' <=> Asks(r)
  BY DEF Asks
<1>2. QED
  BY <1>1 DEF Asked

\* It stays so when a server asks.
LEMMA AskedMore ==
  ASSUME Asked, NEW n \in Name, NEW q, q.from \in Server, q.thread # "seeker",
         q.bytes = InstanceBytes(n, q.from), requests' = requests \union {q},
         seeker' = seeker, registry, registry'
  PROVE  Asked'
<1>1. \A r : Asks(r)' <=> Asks(r)
  BY DEF Asks
<1>2. q.from # Seeker
  BY Numbers
<1>3. Asks(q)
  BY <1>2 DEF Asks
<1>4. QED
  BY <1>1, <1>2, <1>3 DEF Asked

\* It stays so when requests change, but not what they ask.
LEMMA AskedChanged ==
  ASSUME Asked, NEW f, requests' = {f[r] : r \in requests},
         \A r \in requests : f[r].from = r.from /\ f[r].thread = r.thread /\ f[r].bytes = r.bytes,
         seeker' = seeker, registry' = registry,
         \A n \in Name : services[n] = << >> => services'[n] = << >>,
         services' \in [Name -> Seq(InstanceInfo)]
  PROVE  Asked'
<1>1. \A r \in requests : Asks(f[r])'
  BY DEF Asks, Asked
<1>2. \A r \in requests' : Asks(r)'
  BY <1>1
<1>3. (\A q, r \in requests : q.from = Seeker /\ r.from = Seeker => q = r)'
  BY DEF Asked
<1>4. (~registry => requests = {} /\ seeker = NoName /\ services = [n \in Name |-> << >>])'
  <2>1. ASSUME ~registry PROVE requests' = {} /\ seeker' = NoName /\ services' = [n \in Name |-> << >>]
    <3>1. requests = {} /\ seeker = NoName /\ services = [n \in Name |-> << >>]
      BY <2>1 DEF Asked
    <3>2. \A n \in Name : services'[n] = << >>
      BY <3>1
    <3>3. services' = [n \in Name |-> services'[n]]
      OBVIOUS
    <3>4. QED
      BY <3>1, <3>2, <3>3
  <2>2. QED
    BY <2>1
<1>5. QED
  BY <1>2, <1>3, <1>4 DEF Asked


\* Every step keeps what the requests ask for.
LEMMA AskedStep ==
  ASSUME TypeOK, ListedOnce, Conversations, Next
  PROVE  Asked'
<1>1. Asked
  BY DEF Conversations
<1>2. CASE CheckHeartbeat
  BY <1>1, <1>2, AskedSame DEF CheckHeartbeat
<1>3. CASE RegistryCrash
  BY <1>3 DEF RegistryCrash, Asked
<1>4. CASE RegistryStart
  <2>1. /\ requests' = requests /\ seeker' = seeker /\ registry' /\ \A r : Asks(r)' <=> Asks(r)
    BY <1>4 DEF RegistryStart, Asks
  <2>2. QED
    BY <1>1, <2>1 DEF Asked
<1>5. CASE Tick
  <2> DEFINE f == [r \in requests |-> Older(r)]
  <2>1. requests' = {Older(r) : r \in requests} /\ \A r \in requests : r.age < MaxDelay
    BY <1>5 DEF Tick, Older
  <2>2. requests' = {f[r] : r \in requests}
    BY <2>1
  <2>3. \A r \in requests : f[r].from = r.from /\ f[r].thread = r.thread /\ f[r].bytes = r.bytes
    BY <2>1, OlderRequest DEF TypeOK
  <2>4. /\ services' \in [Name -> Seq(InstanceInfo)]
        /\ \A n \in Name : services[n] = << >> => services'[n] = << >>
    BY <1>5, Aged DEF Tick
  <2>5. seeker' = seeker /\ registry' = registry
    BY <1>5 DEF Tick
  <2> HIDE DEF f
  <2>6. QED
    BY <1>1, <2>2, <2>3, <2>4, <2>5, AskedChanged
<1>6. ASSUME NEW s \in Server, RegisterSingleService(s) PROVE Asked'
  <2>1. seeker' = seeker /\ registry' = registry /\ services' = services
    BY <1>6 DEF RegisterSingleService, registryVars
  <2>2. CASE registry
    <3>1. PICK q : /\ q = Request(s, "enroller", Serialize(ServiceRegisterRequest, <<Names[enroller[s].at], Host, s>>))
                   /\ requests' = requests \union {q}
      BY <1>6, <2>2 DEF RegisterSingleService
    <3>2. Names[enroller[s].at] \in Name
      BY <1>6, AtName DEF RegisterSingleService
    <3>3. q.from = s /\ q.thread = "enroller" /\ q.bytes = InstanceBytes(Names[enroller[s].at], s)
      BY <3>1, <3>2, NewRequest
    <3>4. QED
      BY <1>1, <2>1, <2>2, <3>1, <3>2, <3>3, AskedMore
  <2>3. CASE ~registry
    BY <1>1, <1>6, <2>1, <2>3, AskedSame DEF RegisterSingleService
  <2>4. QED
    BY <2>2, <2>3
<1>7. ASSUME NEW s \in Server, SendHeartbeatForService(s) PROVE Asked'
  <2>1. seeker' = seeker /\ registry' = registry /\ services' = services
    BY <1>7 DEF SendHeartbeatForService, registryVars
  <2>2. CASE registry
    <3>1. PICK q : /\ q = Request(s, "heart", Serialize(HeartbeatRequest, <<Names[heart[s].at], Host, s>>))
                   /\ requests' = requests \union {q}
      BY <1>7, <2>2 DEF SendHeartbeatForService
    <3>2. Names[heart[s].at] \in Name
      BY ServerState, NamesTyped
    <3>3. q.from = s /\ q.thread = "heart" /\ q.bytes = InstanceBytes(Names[heart[s].at], s)
      BY <3>1, <3>2, NewRequest
    <3>4. QED
      BY <1>1, <2>1, <2>2, <3>1, <3>2, <3>3, AskedMore
  <2>3. CASE ~registry
    BY <1>1, <1>7, <2>1, <2>3, AskedSame DEF SendHeartbeatForService
  <2>4. QED
    BY <2>2, <2>3
<1>8. ASSUME NEW s \in Server, Start(s) \/ Stop(s) \/ Joined(s) PROVE Asked'
  BY <1>1, <1>8, AskedSame DEF Start, Stop, Joined, registryVars
<1>9. ASSUME NEW s \in Server, Crash(s) PROVE Asked'
  <2> DEFINE f == [r \in requests |-> CutOff(r, s)]
  <2>1. requests' = {CutOff(r, s) : r \in requests}
    BY <1>9 DEF Crash, CutOff
  <2>2. requests' = {f[r] : r \in requests}
    BY <2>1
  <2>3. \A r \in requests : f[r].from = r.from /\ f[r].thread = r.thread /\ f[r].bytes = r.bytes
    BY CutRequest DEF TypeOK
  <2>4. seeker' = seeker /\ registry' = registry /\ services' = services
    BY <1>9 DEF Crash, registryVars
  <2>5. services \in [Name -> Seq(InstanceInfo)]
    BY DEF TypeOK
  <2> HIDE DEF f
  <2>6. QED
    BY <1>1, <2>2, <2>3, <2>4, <2>5, AskedChanged
<1>10. ASSUME NEW n \in Name, Discover(n) PROVE Asked'
  <2>1. PICK q : /\ q = Request(Seeker, "seeker", Serialize(ServiceDiscoveryRequest, <<n>>))
                /\ requests' = requests \union {q}
    BY <1>10 DEF Discover
  <2>2. q.from = Seeker /\ q.thread = "seeker" /\ q.bytes = LookupBytes(n)
    BY <2>1, NewLookup
  <2>3. seeker = NoName /\ seeker' = n /\ n # NoName /\ registry /\ registry' = registry
    BY <1>10, NamesTyped DEF Discover, registryVars
  <2>4. \A r \in requests : r.from # Seeker
    BY <1>1, <2>3 DEF Asked, Asks
  <2>5. \A r \in requests : Asks(r)'
    BY <1>1, <2>4 DEF Asked, Asks
  <2>6. Asks(q)'
    BY <2>2, <2>3 DEF Asks
  <2>7. QED
    BY <2>1, <2>3, <2>4, <2>5, <2>6 DEF Asked
<1>11. ASSUME NEW r \in requests, HandleConnection(r) PROVE Asked'
  <2>1. requests' = requests \ {r} /\ registry /\ registry' = registry
    BY <1>11 DEF HandleConnection
  <2>2. CASE r.from = Seeker
    <3>1. \A q \in requests' : q.from # Seeker
      BY <1>1, <2>1, <2>2 DEF Asked
    <3>2. \A q \in requests' : Asks(q)'
      BY <1>1, <2>1, <3>1 DEF Asked, Asks
    <3>3. QED
      BY <2>1, <3>1, <3>2 DEF Asked
  <2>3. CASE r.from # Seeker
    <3>1. seeker' = seeker
      BY <1>11, <2>3, InstanceHandled
    <3>2. \A q : Asks(q)' <=> Asks(q)
      BY <3>1 DEF Asks
    <3>3. QED
      BY <1>1, <2>1, <3>2 DEF Asked
  <2>4. QED
    BY <2>2, <2>3
<1>12. QED
  BY <1>2, <1>3, <1>4, <1>5, <1>6, <1>7, <1>8, <1>9, <1>10, <1>11, NextCases


-----------------------------------------------------------------------------
(* Rounds of heartbeats.                                                    *)

\* A tick brings every heartbeat of a running server a tick nearer.
LEMMA UntilTick ==
  ASSUME TypeOK, Conversations, Tick, NEW s \in Server, process[s] = "running",
         NEW j \in DOMAIN Names
  PROVE  Until(s, j)' = Until(s, j) - 1
<1>1. Talks(s) /\ Prompt(s) /\ \A r \in requests : r.age < MaxDelay
  BY DEF Conversations, Tick
<1>2. /\ heart'[s].at = heart[s].at /\ heart'[s].left = Down(heart[s].left)
  <2>1. heart'[s] = [heart[s] EXCEPT !.left = Down(@)]
    BY DEF Tick
  <2>2. heart[s] \in [at : DOMAIN Names, waits : BOOLEAN, left : 0..HeartbeatPeriod]
    BY DEF TypeOK
  <2>3. QED
    BY <2>1, <2>2
<1>3. Live(s, "heart")' = {Older(r) : r \in Live(s, "heart")}
  BY LiveOlder DEF Tick, Older
<1>4. PICK a, l \in Nat, o \in 0..MaxDelay : a = Ahead(heart[s].at, j) /\ l = heart[s].left /\ o = Age(Live(s, "heart"))
  BY <1>1, UntilBound, ServerState
<1>5. MaxDelay \in Nat
  BY Numbers
<1>6. Until(s, j) = l + (MaxDelay - o) + a /\ Until(s, j)' = Down(l) + (MaxDelay - Age(Live(s, "heart")')) + a
  BY <1>2, <1>4 DEF Until
<1>7. CASE heart[s].waits
  <2>1. PICK r \in Live(s, "heart") : Live(s, "heart") = {r}
    BY <1>1, <1>7 DEF Talks, Sent
  <2>2. r \in Requests /\ r.age < MaxDelay
    BY <1>1 DEF Live, TypeOK
  <2>3. Live(s, "heart")' = {Older(r)} /\ Older(r).age = r.age + 1
    BY <1>3, <2>1, <2>2, OlderRequest
  <2>4. o = r.age /\ Age(Live(s, "heart")') = r.age + 1
    <3>1. Age(Live(s, "heart")') = Older(r).age
      BY <2>3, AgeOf
    <3>2. QED
      BY <1>4, <2>1, <2>3, <3>1, AgeOf
  <2>5. l = 0
    BY <1>1, <1>4, <1>7, ServerState DEF Talks
  <2>6. Age(Live(s, "heart")') = o + 1 /\ Down(l) = 0
    BY <2>4, <2>5 DEF Down
  <2>7. QED
    BY <1>4, <1>5, <1>6, <2>5, <2>6
<1>8. CASE ~heart[s].waits
  <2>1. Live(s, "heart") = {} /\ Live(s, "heart")' = {}
    BY <1>1, <1>3, <1>8 DEF Talks, Sent
  <2>2. o = 0 /\ Age(Live(s, "heart")') = 0
    BY <1>4, <2>1, AgeOf
  <2>3. l > 0
    BY <1>1, <1>4, <1>8 DEF Prompt
  <2>4. Down(l) = l - 1
    BY <2>3 DEF Down
  <2>5. QED
    BY <1>4, <1>5, <1>6, <2>2, <2>4
<1>9. QED
  BY <1>7, <1>8

\* When a heartbeat is answered, those for the other names are no further
\* away than they were, and the next for the same name is a round away.
LEMMA UntilBeaten ==
  ASSUME TypeOK, NEW s \in Server, Talks(s), heart[s].waits, Live(s, "heart")' = {},
         heart' = Beaten(s), NEW j \in DOMAIN Names
  PROVE  /\ Until(s, j)' \in Nat /\ Until(s, j)' <= Comeback
         /\ j # heart[s].at => Until(s, j)' <= Until(s, j)
<1>1. MaxDelay \in Nat /\ HeartbeatPeriod \in Nat /\ Comeback \in Nat /\ Len(Names) \in Nat
      /\ DOMAIN Names = 1..Len(Names) /\ 1 \in DOMAIN Names
  BY Numbers
<1>2. PICK o \in 0..MaxDelay : o = Age(Live(s, "heart"))
  BY UntilBound
<1>3. heart[s].left = 0 /\ heart[s].at \in DOMAIN Names
  BY ServerState DEF Talks
<1>4. Until(s, j) = (MaxDelay - o) + Ahead(heart[s].at, j)
  <2>1. Ahead(heart[s].at, j) \in Nat
    BY <1>3, AheadBound
  <2>2. Until(s, j) = heart[s].left + (MaxDelay - o) + Ahead(heart[s].at, j)
    BY <1>2 DEF Until
  <2>3. QED
    BY <1>1, <1>2, <1>3, <2>1, <2>2
<1>5. Until(s, j)' = heart'[s].left + (MaxDelay - 0) + Ahead(heart'[s].at, j)
  <2>1. Age(Live(s, "heart")') = 0
    BY AgeOf
  <2>2. QED
    BY <2>1 DEF Until
<1>6. CASE heart[s].at = Len(Names)
  <2>1. heart'[s].at = 1 /\ heart'[s].left = HeartbeatPeriod
    BY <1>6, BeatenState
  <2>2. PICK a \in Nat : a = Ahead(1, j)
    BY <1>1, AheadBound
  <2>3. HeartbeatPeriod + a + MaxDelay <= Comeback
    BY <1>1, <2>2, AheadBound
  <2>4. Until(s, j)' = HeartbeatPeriod + MaxDelay + a
    BY <1>1, <1>5, <2>1, <2>2
  <2>5. j # heart[s].at => Ahead(heart[s].at, j) = HeartbeatPeriod + MaxDelay + a
    BY <1>3, <1>6, <2>2, AheadNext
  <2>6. j # heart[s].at => Until(s, j) = (MaxDelay - o) + (HeartbeatPeriod + MaxDelay + a)
    BY <1>4, <2>5
  <2>7. QED
    BY <1>1, <1>2, <2>2, <2>3, <2>4, <2>6
<1>7. CASE heart[s].at # Len(Names)
  <2>1. heart'[s].at = heart[s].at + 1 /\ heart'[s].left = 0 /\ heart[s].at + 1 \in DOMAIN Names
    BY <1>1, <1>3, <1>7, BeatenState
  <2>2. PICK a \in Nat : a = Ahead(heart[s].at + 1, j)
    BY <2>1, AheadBound
  <2>3. a + MaxDelay <= Comeback
    BY <2>1, <2>2, AheadBound
  <2>4. Until(s, j)' = MaxDelay + a
    BY <1>1, <1>5, <2>1, <2>2
  <2>5. j # heart[s].at => Ahead(heart[s].at, j) = MaxDelay + a
    BY <1>3, <1>7, <2>2, AheadNext
  <2>6. j # heart[s].at => Until(s, j) = (MaxDelay - o) + (MaxDelay + a)
    BY <1>4, <2>5
  <2>7. QED
    BY <1>1, <1>2, <2>2, <2>3, <2>4, <2>6
<1>8. QED
  BY <1>6, <1>7


\* The steps of a server keep its round.
LEMMA RoundServer ==
  ASSUME TypeOK, Conversations, NEW s \in Server, Round(s),
         \/ RegisterSingleService(s) \/ SendHeartbeatForService(s)
         \/ Start(s) \/ Stop(s) \/ Joined(s) \/ Crash(s)
  PROVE  Round(s)'
<1>1. Talks(s)
  BY DEF Conversations
<1>2. registry' = registry /\ \A n : Entries(n, s)' = Entries(n, s)
  BY DEF RegisterSingleService, SendHeartbeatForService, Start, Stop, Joined, Crash, registryVars, Entries
<1>3. CASE RegisterSingleService(s)
  <2>1. heart' = heart /\ process' = process /\ together' = together /\ steady' = steady
    BY <1>3 DEF RegisterSingleService, history
  <2>2. Live(s, "heart")' = Live(s, "heart")
    BY <1>3, LiveSent DEF RegisterSingleService, Request, Live
  <2>3. \A j \in DOMAIN Names : Until(s, j)' = Until(s, j)
    BY <2>1, <2>2, SameUntil
  <2>4. \A n \in Name : Entries(n, s)' = Entries(n, s)
    BY <1>2
  <2>5. /\ registry' = registry /\ process'[s] = process[s] /\ together'[s] = together[s]
        /\ \A n \in Name : <<n, s>> \in steady' <=> <<n, s>> \in steady
    BY <1>2, <2>1
  <2>6. QED
    BY <2>3, <2>4, <2>5, SameRound
<1>4. CASE SendHeartbeatForService(s)
  <2>1. process' = process /\ together' = together /\ steady' = steady
    BY <1>4 DEF SendHeartbeatForService, history
  <2>2. Live(s, "heart") = {}
    BY <1>1, <1>4 DEF SendHeartbeatForService, HeartDue, Talks, Sent
  <2>3. ASSUME registry, NEW j \in DOMAIN Names PROVE Until(s, j)' = Until(s, j)
    <3>1. PICK q : /\ q = Request(s, "heart", Serialize(HeartbeatRequest, <<Names[heart[s].at], Host, s>>))
                   /\ requests' = requests \union {q} /\ heart' = [heart EXCEPT ![s].waits = TRUE]
      BY <1>4, <2>3 DEF SendHeartbeatForService
    <3>2. q.live /\ q.from = s /\ q.thread = "heart" /\ q.age = 0
      BY <3>1 DEF Request
    <3>3. Live(s, "heart")' = {q}
      BY <2>2, <3>1, <3>2, LiveSent
    <3>4. Age(Live(s, "heart")) = 0 /\ Age(Live(s, "heart")') = 0
      <4>1. Age(Live(s, "heart")') = q.age
        BY <3>3, AgeOf
      <4>2. QED
        BY <2>2, <3>2, <4>1, AgeOf
    <3>5. heart'[s].at = heart[s].at /\ heart'[s].left = heart[s].left
      BY <3>1, WaitingState
    <3>6. QED
      BY <3>4, <3>5 DEF Until
  <2>4. registry => \A j \in DOMAIN Names : Until(s, j)' = Until(s, j)
    BY <2>3
  <2>5. \A n \in Name : Entries(n, s)' = Entries(n, s)
    BY <1>2
  <2>6. /\ registry' = registry /\ process'[s] = process[s] /\ together'[s] = together[s]
        /\ \A n \in Name : <<n, s>> \in steady' <=> <<n, s>> \in steady
    BY <1>2, <2>1
  <2>7. QED
    BY <2>4, <2>5, <2>6, SameRound
<1>5. CASE Start(s)
  <2>1. /\ process[s] = "off" /\ process'[s] = "running" /\ heart'[s] = NewHeart /\ heart[s] = NewHeart
        /\ together' = together /\ steady' = steady /\ requests' = requests
    BY <1>1, <1>5, PerServer DEF Start, Talks
  <2>2. together[s] = 0 /\ \A n \in Name : <<n, s>> \notin steady
    BY <2>1 DEF Round
  <2>3. \A j \in DOMAIN Names : Until(s, j)' = Until(s, j) /\ Until(s, j) <= Comeback /\ Until(s, j) \in Nat
    BY <1>1, <2>1, SameUntil, UntilBound DEF Live
  <2>4. \A j \in DOMAIN Names : <<Names[j], s>> \notin steady' /\ together'[s] + Until(s, j)' <= Comeback
    BY <2>1, <2>2, <2>3, NamesTyped
  <2>5. QED
    BY <2>1, <2>2, <2>4 DEF Round
<1>6. CASE Stop(s) \/ Crash(s)
  <2>1. process'[s] # "running" /\ together'[s] = 0 /\ \A n \in Name : <<n, s>> \notin steady'
    BY <1>6, PerServer DEF Stop, Crash, Unsteady
  <2>2. QED
    BY <2>1 DEF Round
<1>7. CASE Joined(s)
  <2>1. /\ process[s] # "running" /\ process'[s] # "running" /\ together' = together /\ steady' = steady
    BY <1>7, PerServer DEF Joined
  <2>2. QED
    BY <1>2, <2>1, SameRound
<1>8. QED
  BY <1>3, <1>4, <1>5, <1>6, <1>7

\* A request that is handled keeps the round of its server.
LEMMA RoundHandled ==
  ASSUME TypeOK, ListedOnce, Conversations, NEW r \in requests, HandleConnection(r),
         NEW s \in Server, r.from = s, Round(s)
  PROVE  Round(s)'
<1>1. /\ Talks(s) /\ process' = process /\ together' = together /\ registry /\ registry'
      /\ requests' = requests \ {r}
  BY DEF Conversations, HandleConnection
<1>2. PICK n \in Name :
        /\ r.bytes = InstanceBytes(n, s)
        /\ services' = HandleServiceRegister(<<n, Host, s>>).services
        /\ steady' = IF r.live /\ process[s] = "running" THEN steady \union {<<n, s>>} ELSE steady
  BY Numbers, InstanceHandled
<1>3. /\ \E x \in Entries(n, s)' : x.silence = 0
      /\ \A m \in Name : m # n => Entries(m, s)' = Entries(m, s)
  BY <1>2, Registered
<1>4. CASE process[s] # "running"
  BY <1>1, <1>2, <1>4 DEF Round
<1>5. CASE process[s] = "running"
  <2>1. ASSUME NEW j \in DOMAIN Names
        PROVE  /\ Until(s, j)' \in Nat /\ Until(s, j)' <= Comeback
               /\ Names[j] # n => Until(s, j)' <= Until(s, j)
    <3>1. CASE r.live /\ r.thread = "heart"
      <4>1. heart[s].waits /\ Live(s, "heart") = {r} /\ r.bytes = InstanceBytes(Names[heart[s].at], s)
        BY <3>1, Waiting
      <4>2. Names[heart[s].at] = n
        <5>1. Names[heart[s].at] \in Name
          BY ServerState, NamesTyped
        <5>2. <<Names[heart[s].at], Host, s>> = <<n, Host, s>>
          <6>1. /\ Parse(ServiceRegisterRequest, InstanceBytes(Names[heart[s].at], s)) = <<Names[heart[s].at], Host, s>>
                /\ Parse(ServiceRegisterRequest, InstanceBytes(n, s)) = <<n, Host, s>>
            BY <5>1, InstanceParsed
          <6>2. InstanceBytes(Names[heart[s].at], s) = InstanceBytes(n, s)
            BY <1>2, <4>1
          <6>3. QED
            BY <6>1, <6>2
        <5>3. QED
          BY <5>2
      <4>3. Live(s, "heart")' = {} /\ heart' = Beaten(s)
        BY <1>1, <3>1, <4>1, LiveHandled DEF HandleConnection, Answered
      <4>4. QED
        BY <1>1, <4>1, <4>2, <4>3, UntilBeaten
    <3>2. CASE ~(r.live /\ r.thread = "heart")
      <4>1. heart' = heart /\ r \notin Live(s, "heart")
        BY <3>2 DEF HandleConnection, Answered, Live
      <4>2. Live(s, "heart")' = Live(s, "heart")
        BY <1>1, <4>1, LiveHandled
      <4>3. Until(s, j)' = Until(s, j) /\ Until(s, j) \in Nat /\ Until(s, j) <= Comeback
        BY <1>1, <4>1, <4>2, SameUntil, UntilBound
      <4>4. QED
        BY <4>3
    <3>3. QED
      BY <3>1, <3>2
  <2>2. ASSUME NEW j \in DOMAIN Names, <<Names[j], s>> \in steady'
        PROVE  \E x \in Entries(Names[j], s)' : x.silence + Until(s, j)' <= Comeback
    <3>1. CASE Names[j] = n
      BY <1>3, <2>1, <3>1
    <3>2. CASE Names[j] # n
      <4>1. <<Names[j], s>> \in steady /\ Entries(Names[j], s)' = Entries(Names[j], s)
        BY <1>2, <1>3, <2>2, <3>2, NamesTyped
      <4>2. PICK x \in Entries(Names[j], s) : x.silence + Until(s, j) <= Comeback
        BY <1>1, <1>5, <4>1 DEF Round
      <4>3. x.silence \in Nat
        <5>1. x.silence \in 0..(Timeout + 1)
          BY NamesTyped, Vectors DEF Entries
        <5>2. QED
          BY <5>1
      <4>4. Until(s, j) \in Nat /\ Comeback \in Nat
        BY <1>1, UntilBound, Numbers
      <4>5. x.silence + Until(s, j)' <= Comeback
        BY <2>1, <3>2, <4>2, <4>3, <4>4
      <4>6. QED
        BY <4>1, <4>5
    <3>3. QED
      BY <3>1, <3>2
  <2>3. ASSUME NEW j \in DOMAIN Names, <<Names[j], s>> \notin steady'
        PROVE  together'[s] + Until(s, j)' <= Comeback
    <3>1. <<Names[j], s>> \notin steady
      BY <1>2, <2>3
    <3>2. together[s] + Until(s, j) <= Comeback
      BY <1>1, <1>5, <3>1 DEF Round
    <3>3. together[s] \in Nat /\ Until(s, j) \in Nat /\ Comeback \in Nat
      BY <1>1, ServerState, UntilBound, Numbers
    <3>4. Until(s, j)' <= Until(s, j)
      <4>1. CASE Names[j] # n
        BY <2>1, <4>1
      <4>2. CASE Names[j] = n
        <5>1. ~r.live
          BY <1>2, <1>5, <2>3, <4>2
        <5>2. heart' = heart /\ r \notin Live(s, "heart")
          BY <5>1 DEF HandleConnection, Answered, Live
        <5>3. Live(s, "heart")' = Live(s, "heart")
          BY <1>1, <5>2, LiveHandled
        <5>4. QED
          BY <3>3, <5>2, <5>3, SameUntil
      <4>3. QED
        BY <4>1, <4>2
    <3>5. QED
      BY <1>1, <2>1, <3>2, <3>3, <3>4
  <2>4. QED
    BY <1>1, <1>5, <2>2, <2>3 DEF Round
<1>6. QED
  BY <1>4, <1>5


\* In a tick an instance is silent for one tick more, and its next heartbeat
\* one tick nearer.
LEMMA RoundTick ==
  ASSUME TypeOK, ListedOnce, Conversations, Tick, NEW s \in Server, Round(s)
  PROVE  Round(s)'
<1>1. /\ Talks(s) /\ process' = process /\ registry' = registry /\ steady' = steady
      /\ together'[s] = IF registry /\ process[s] = "running" THEN UpTo(Long, together[s]) ELSE 0
  BY DEF Conversations, Tick
<1>2. CASE process[s] = "running" /\ registry
  <2>1. ASSUME NEW j \in DOMAIN Names
        PROVE  /\ Until(s, j)' = Until(s, j) - 1 /\ Until(s, j) \in Nat /\ Comeback \in Nat
               /\ Timeout \in Nat /\ Long \in Nat /\ together[s] \in Nat
    BY <1>1, <1>2, UntilTick, UntilBound, Numbers, ServerState
  <2>2. ASSUME NEW j \in DOMAIN Names, <<Names[j], s>> \in steady'
        PROVE  \E x \in Entries(Names[j], s)' : x.silence + Until(s, j)' <= Comeback
    <3>1. PICK x \in Entries(Names[j], s) : x.silence + Until(s, j) <= Comeback
      BY <1>1, <1>2, <2>2 DEF Round
    <3>2. PICK y \in Entries(Names[j], s)' : y.silence = UpTo(Timeout + 1, x.silence)
      BY <3>1, Aged, NamesTyped DEF Tick
    <3>3. x.silence \in Nat
      <4>1. x.silence \in 0..(Timeout + 1)
        BY NamesTyped, Vectors DEF Entries
      <4>2. QED
        BY <4>1
    <3>4. y.silence \in Nat /\ y.silence <= x.silence + 1
      BY <2>1, <3>2, <3>3 DEF UpTo
    <3>5. y.silence + Until(s, j)' <= Comeback
      BY <2>1, <3>1, <3>3, <3>4
    <3>6. QED
      BY <3>5
  <2>3. ASSUME NEW j \in DOMAIN Names, <<Names[j], s>> \notin steady'
        PROVE  together'[s] + Until(s, j)' <= Comeback
    <3>1. together[s] + Until(s, j) <= Comeback
      BY <1>1, <1>2, <2>3 DEF Round
    <3>2. together'[s] \in Nat /\ together'[s] <= together[s] + 1
      BY <1>1, <1>2, <2>1 DEF UpTo
    <3>3. QED
      BY <2>1, <3>1, <3>2
  <2>4. QED
    BY <1>1, <1>2, <2>2, <2>3 DEF Round
<1>3. CASE ~(process[s] = "running" /\ registry)
  BY <1>1, <1>3 DEF Round
<1>4. QED
  BY <1>2, <1>3

\* A check removes no instance whose next heartbeat is due in time.
LEMMA RoundCheck ==
  ASSUME TypeOK, ListedOnce, Conversations, CheckHeartbeat, NEW s \in Server, Round(s)
  PROVE  Round(s)'
<1>1. /\ Talks(s) /\ process' = process /\ registry' = registry /\ steady' = steady
      /\ heart' = heart /\ together' = together /\ requests' = requests
  BY DEF Conversations, CheckHeartbeat, serverVars, history
<1>2. \A n \in Name : Entries(n, s)' = {x \in Entries(n, s) : x.silence <= Timeout}
  BY Checked DEF CheckHeartbeat
<1>3. \A j : Until(s, j)' = Until(s, j)
  BY <1>1, SameUntil DEF Live
<1>4. ASSUME NEW j \in DOMAIN Names, NEW x \in Entries(Names[j], s), x.silence + Until(s, j) <= Comeback
      PROVE  x \in Entries(Names[j], s)'
  <2>1. x.silence \in 0..(Timeout + 1)
    BY NamesTyped, Vectors DEF Entries
  <2>2. Until(s, j) \in Nat /\ Comeback <= Timeout /\ Comeback \in Nat /\ Timeout \in Nat
    BY <1>1, UntilBound, Numbers
  <2>3. x.silence <= Timeout
    BY <1>4, <2>1, <2>2
  <2>4. QED
    BY <1>2, <2>3, NamesTyped
<1>5. QED
  BY <1>1, <1>3, <1>4 DEF Round

\* Every step keeps the rounds.
LEMMA RoundStep ==
  ASSUME TypeOK, ListedOnce, Conversations, Rounds, Next, NEW s \in Server
  PROVE  Round(s)'
<1>1. Round(s) /\ Talks(s)
  BY DEF Rounds, Conversations
<1>2. CASE CheckHeartbeat
  BY <1>1, <1>2, RoundCheck
<1>3. CASE RegistryCrash
  BY <1>3 DEF RegistryCrash, Round
<1>4. CASE RegistryStart
  <2>1. /\ process' = process /\ together' = together /\ steady' = steady /\ heart' = heart
        /\ requests' = requests /\ ~registry /\ registry'
    BY <1>4 DEF RegistryStart, serverVars, history
  <2>2. together[s] = 0 /\ \A n \in Name : <<n, s>> \notin steady
    BY <1>1, <2>1 DEF Round
  <2>3. \A j \in DOMAIN Names : Until(s, j)' = Until(s, j) /\ Until(s, j) <= Comeback /\ Until(s, j) \in Nat
    BY <1>1, <2>1, SameUntil, UntilBound DEF Live
  <2>4. \A j \in DOMAIN Names : <<Names[j], s>> \notin steady' /\ together'[s] + Until(s, j)' <= Comeback
    BY <2>1, <2>2, <2>3, NamesTyped
  <2>5. QED
    BY <2>1, <2>2, <2>4 DEF Round
<1>5. CASE Tick
  BY <1>1, <1>5, RoundTick
<1>6. ASSUME NEW q \in Server,
             \/ RegisterSingleService(q) \/ SendHeartbeatForService(q)
             \/ Start(q) \/ Stop(q) \/ Joined(q) \/ Crash(q)
      PROVE  Round(s)'
  <2>1. CASE q = s
    BY <1>1, <1>6, <2>1, RoundServer
  <2>2. CASE q # s
    <3>1. Same(s)
      BY <1>6, <2>2, OthersSame
    <3>2. QED
      BY <1>1, <3>1, StillRound
  <2>3. QED
    BY <2>1, <2>2
<1>7. ASSUME NEW n \in Name, Discover(n) PROVE Round(s)'
  <2>1. Same(s)
    BY <1>7, DiscoverSame
  <2>2. QED
    BY <1>1, <2>1, StillRound
<1>8. ASSUME NEW r \in requests, HandleConnection(r) PROVE Round(s)'
  <2>1. CASE r.from = s
    BY <1>1, <1>8, <2>1, RoundHandled
  <2>2. CASE r.from # s
    <3>1. Same(s)
      BY <1>8, <2>2, HandleSame
    <3>2. QED
      BY <1>1, <3>1, StillRound
  <2>3. QED
    BY <2>1, <2>2
<1>9. QED
  BY <1>2, <1>3, <1>4, <1>5, <1>6, <1>7, <1>8, NextCases


-----------------------------------------------------------------------------
(* Servers that serve no more.                                              *)

\* The delays of the names before the k-th.
LEMMA Delayed ==
  ASSUME NEW k \in 1..Len(Names)
  PROVE  /\ (k - 1) * MaxDelay \in Nat /\ (k - 1) * MaxDelay <= (Len(Names) - 1) * MaxDelay
         /\ ((k + 1) - 1) * MaxDelay = (k - 1) * MaxDelay + MaxDelay
         /\ (Len(Names) - 1) * MaxDelay \in Nat /\ Len(Names) * MaxDelay \in Nat
         /\ Len(Names) * MaxDelay = (Len(Names) - 1) * MaxDelay + MaxDelay
<1>1. PICK m \in Nat : m = Len(Names) /\ m > 0
  BY Numbers
<1>2. PICK l \in Nat : l + 1 = m /\ l = m - 1
  BY <1>1
<1>3. PICK i \in Nat : i = k - 1 /\ i <= l /\ (k + 1) - 1 = i + 1
  BY <1>1, <1>2
<1>4. i * MaxDelay \in Nat /\ (i + 1) * MaxDelay = i * MaxDelay + MaxDelay
  BY Delays
<1>5. i * MaxDelay <= l * MaxDelay /\ l * MaxDelay \in Nat /\ (l + 1) * MaxDelay = l * MaxDelay + MaxDelay
  BY <1>3, Delays
<1>6. (l + 1) * MaxDelay \in Nat
  BY <1>2, Delays
<1>7. Len(Names) - 1 = l /\ Len(Names) = l + 1
  BY <1>1, <1>2
<1>8. QED
  BY <1>3, <1>4, <1>5, <1>6, <1>7

\* What the vectors may still say of a server is never less than nothing.
LEMMA GraceBound ==
  ASSUME TypeOK, NEW n \in Name, NEW s \in Server, NEW x \in Entries(n, s)
  PROVE  /\ x.silence \in Nat /\ x.silence <= Timeout + 1 /\ x \in InstanceInfo
         /\ Grace(x) \in Nat /\ Grace(x) <= Timeout + CheckPeriod
<1>1. x.silence \in 0..(Timeout + 1) /\ x \in InstanceInfo
  BY Vectors DEF Entries
<1>2. checker \in 0..CheckPeriod /\ CheckPeriod \in Nat /\ Timeout \in Nat
  BY Numbers DEF TypeOK
<1>3. QED
  BY <1>1, <1>2 DEF Grace

\* A server that has just been serving may be on its way everywhere.
LEMMA Heard == \A s \in Server : TypeOK /\ silent[s] = 0 => Fades(s)
<1> SUFFICES ASSUME NEW s \in Server, TypeOK, silent[s] = 0 PROVE Fades(s)
  OBVIOUS
<1>1. /\ (Len(Names) - 1) * MaxDelay \in Nat /\ Len(Names) * MaxDelay \in Nat
  <2>1. 1 \in 1..Len(Names)
    BY Numbers
  <2>2. QED
    BY <2>1, Delayed
<1>2. \A r \in requests : r.age \in Nat
  BY Requested DEF TypeOK
<1>3. Trailing(s)
  BY <1>1, <1>2 DEF Trailing
<1>4. Enrolling(s)
  <2>1. SUFFICES ASSUME enroller[s].at # Finished
                 PROVE  (enroller[s].at - 1) * MaxDelay \in Nat
    <3>1. \A r \in Live(s, "enroller") : r.age \in Nat
      BY <1>2 DEF Live
    <3>2. QED
      BY <2>1, <3>1 DEF Enrolling
  <2>2. enroller[s].at \in 1..Len(Names)
    BY <2>1, ServerState, Numbers DEF Finished
  <2>3. QED
    BY <2>2, Delayed
<1>5. Lingering(s)
  BY <1>1, GraceBound DEF Lingering
<1>6. QED
  BY <1>3, <1>4, <1>5 DEF Fades

\* The same of the next state.
LEMMA HeardNext == (\A s \in Server : TypeOK /\ silent[s] = 0 => Fades(s))'
BY Heard, PTL

\* The steps of a server keep what may be left of it.
LEMMA FadesServer ==
  ASSUME TypeOK, Conversations, NEW s \in Server, Fades(s),
         \/ RegisterSingleService(s) \/ SendHeartbeatForService(s)
         \/ Start(s) \/ Stop(s) \/ Joined(s) \/ Crash(s)
  PROVE  Fades(s)'
<1>1. Talks(s) /\ TypeOK'
  BY TypeServer DEF Conversations
<1>2. silent'[s] = 0 => Fades(s)'
  <2>1. \A q \in Server : TypeOK' /\ silent'[q] = 0 => Fades(q)'
    BY HeardNext
  <2>2. QED
    BY <1>1, <2>1
<1>3. CASE RegisterSingleService(s)
  <2>1. process' = process /\ silent' = silent /\ services' = services /\ checker' = checker
    BY <1>3 DEF RegisterSingleService, registryVars, history
  <2>2. CASE Serving(s)
    BY <1>2, <2>1, <2>2 DEF Fades
  <2>3. CASE ~Serving(s)
    <3>1. process[s] = "stopped" /\ enroller[s].at # Finished /\ ~enroller[s].waits
      BY <1>3, <2>3, ServerState DEF RegisterSingleService, Serving
    <3>2. silent[s] <= (enroller[s].at - 1) * MaxDelay
      BY <3>1 DEF Fades, Enrolling
    <3>3. enroller[s].at \in 1..Len(Names)
      BY <3>1, ServerState, Numbers DEF Finished
    <3>4. /\ (enroller[s].at - 1) * MaxDelay \in Nat /\ silent[s] \in Nat
          /\ (enroller[s].at - 1) * MaxDelay <= (Len(Names) - 1) * MaxDelay
          /\ (Len(Names) - 1) * MaxDelay \in Nat
      BY <3>3, Delayed, ServerState
    <3>5. (Serving(s) => silent[s] = 0)' /\ Lingering(s)'
      BY <2>1 DEF Fades, Serving, Lingering, Entries, Grace
    <3>6. CASE registry
      <4>1. PICK q : /\ q = Request(s, "enroller", Serialize(ServiceRegisterRequest, <<Names[enroller[s].at], Host, s>>))
                     /\ requests' = requests \union {q} /\ enroller' = [enroller EXCEPT ![s].waits = TRUE]
        BY <1>3, <3>6 DEF RegisterSingleService
      <4>2. q.live /\ q.from = s /\ q.thread = "enroller" /\ q.age = 0
        BY <4>1 DEF Request
      <4>3. Live(s, "enroller")' = {q}
        BY <1>1, <3>1, <4>1, <4>2, LiveSent DEF Talks, Sent
      <4>4. enroller'[s].waits /\ enroller'[s].at = enroller[s].at
        BY <4>1, WaitingState
      <4>5. silent[s] <= (enroller[s].at - 1) * MaxDelay + q.age
            /\ silent[s] <= (Len(Names) - 1) * MaxDelay + q.age
        BY <3>2, <3>4, <4>2
      <4>6. Enrolling(s)'
        BY <2>1, <4>3, <4>4, <4>5 DEF Enrolling
      <4>7. Trailing(s)'
        BY <2>1, <4>1, <4>5 DEF Fades, Trailing
      <4>8. QED
        BY <3>5, <4>6, <4>7 DEF Fades
    <3>7. CASE ~registry
      <4>1. requests' = requests /\ enroller'[s].at = Finished
        BY <1>3, <3>7, EnrolledState DEF RegisterSingleService
      <4>2. Enrolling(s)' /\ Trailing(s)'
        BY <2>1, <4>1 DEF Fades, Enrolling, Trailing
      <4>3. QED
        BY <3>5, <4>2 DEF Fades
    <3>8. QED
      BY <3>6, <3>7
  <2>4. QED
    BY <2>2, <2>3
<1>4. CASE SendHeartbeatForService(s)
  <2>1. silent' = silent /\ Serving(s)
    BY <1>4 DEF SendHeartbeatForService, HeartDue, Serving, history
  <2>2. QED
    BY <1>2, <2>1 DEF Fades
<1>5. CASE Start(s) \/ Stop(s) \/ Joined(s)
  <2>1. silent'[s] = 0
    BY <1>5, PerServer DEF Start, Stop, Joined, Fades, Serving
  <2>2. QED
    BY <1>2, <2>1
<1>6. CASE Crash(s)
  <2>1. CASE Serving(s)
    BY <1>2, <1>6, <2>1, PerServer DEF Crash
  <2>2. CASE ~Serving(s)
    <3>1. /\ silent'[s] = silent[s] /\ process'[s] = "off" /\ services' = services /\ checker' = checker
      BY <1>6, <2>2, PerServer DEF Crash, registryVars
    <3>2. requests' = {CutOff(r, s) : r \in requests}
      BY <1>6 DEF Crash, CutOff
    <3>3. \A r \in requests : CutOff(r, s).from = r.from /\ CutOff(r, s).age = r.age
      BY CutRequest DEF TypeOK
    <3>4. Trailing(s)'
      BY <3>1, <3>2, <3>3 DEF Fades, Trailing
    <3>5. (Serving(s) => silent[s] = 0)' /\ Lingering(s)' /\ Enrolling(s)'
      BY <3>1 DEF Fades, Serving, Lingering, Entries, Grace, Enrolling
    <3>6. QED
      BY <3>4, <3>5 DEF Fades
  <2>3. QED
    BY <2>1, <2>2
<1>7. QED
  BY <1>3, <1>4, <1>5, <1>6


\* A request that is handled may bring a server that serves no more back into
\* the table, but not for longer than the request was on its way.
LEMMA FadesHandled ==
  ASSUME TypeOK, ListedOnce, Conversations, NEW r \in requests, HandleConnection(r),
         NEW s \in Server, r.from = s, Fades(s)
  PROVE  Fades(s)'
<1>1. /\ Talks(s) /\ process' = process /\ silent' = silent /\ checker' = checker
      /\ requests' = requests \ {r}
  BY DEF Conversations, HandleConnection
<1>2. PICK n \in Name : services' = HandleServiceRegister(<<n, Host, s>>).services
  BY Numbers, InstanceHandled
<1>3. PICK d, e \in Nat : d = (Len(Names) - 1) * MaxDelay /\ e = Len(Names) * MaxDelay /\ e = d + MaxDelay
  <2>1. 1 \in 1..Len(Names)
    BY Numbers
  <2>2. QED
    BY <2>1, Delayed
<1>4. silent[s] <= d + r.age /\ r.age \in 0..MaxDelay /\ MaxDelay \in Nat /\ silent[s] \in Nat
  BY <1>3, Requested, Numbers, ServerState DEF Fades, Trailing, TypeOK
<1>5. (Serving(s) => silent[s] = 0)' /\ Trailing(s)'
  BY <1>1 DEF Fades, Serving, Trailing
<1>6. Lingering(s)'
  <2> SUFFICES ASSUME NEW m \in Name, NEW x \in Entries(m, s)'
               PROVE  silent'[s] <= Len(Names) * MaxDelay + Grace(x)'
    BY DEF Lingering
  <2>1. Grace(x)' = Grace(x)
    BY <1>1 DEF Grace
  <2>2. CASE m = n
    <3>1. x.silence = 0
      BY <1>2, <2>2, Registered
    <3>2. Grace(x) = 0
      BY <3>1, Numbers DEF Grace
    <3>3. silent[s] <= e + 0
      BY <1>3, <1>4
    <3>4. QED
      BY <1>1, <1>3, <2>1, <3>2, <3>3
  <2>3. CASE m # n
    <3>1. x \in Entries(m, s)
      BY <1>2, <2>3, Registered
    <3>2. QED
      BY <1>1, <2>1, <3>1 DEF Fades, Lingering
  <2>4. QED
    BY <2>2, <2>3
<1>7. Enrolling(s)'
  <2>1. CASE r.live /\ r.thread = "enroller" /\ process[s] = "stopped"
    <3>1. enroller[s].waits /\ Live(s, "enroller") = {r}
      BY <2>1, Waiting
    <3>2. enroller[s].at # Finished
      BY <1>1, <3>1 DEF Talks
    <3>3. silent[s] <= (enroller[s].at - 1) * MaxDelay + r.age
      BY <2>1, <3>1, <3>2 DEF Fades, Enrolling
    <3>4. enroller' = Enrolled(s)
      BY <2>1 DEF HandleConnection, Answered
    <3>5. ~enroller'[s].waits /\ enroller'[s].at = enroller[s].at + 1
      BY <3>4, EnrolledState
    <3>6. enroller[s].at \in 1..Len(Names)
      BY <3>2, ServerState, Numbers DEF Finished
    <3>7. PICK a \in Nat : a = (enroller[s].at - 1) * MaxDelay /\ ((enroller[s].at + 1) - 1) * MaxDelay = a + MaxDelay
      BY <3>6, Delayed
    <3>8. silent[s] <= a + MaxDelay
      BY <1>4, <3>3, <3>7
    <3>9. silent'[s] <= (enroller'[s].at - 1) * MaxDelay
      BY <1>1, <3>5, <3>7, <3>8
    <3>10. QED
      BY <3>5, <3>9 DEF Enrolling
  <2>2. CASE ~(r.live /\ r.thread = "enroller")
    <3>1. enroller' = enroller /\ r \notin Live(s, "enroller")
      BY <2>2 DEF HandleConnection, Answered, Live
    <3>2. Live(s, "enroller")' = Live(s, "enroller")
      BY <1>1, <3>1, LiveHandled
    <3>3. QED
      BY <1>1, <3>1, <3>2 DEF Fades, Enrolling
  <2>3. CASE process[s] # "stopped"
    BY <1>1, <2>3 DEF Enrolling
  <2>4. QED
    BY <2>1, <2>2, <2>3
<1>8. QED
  BY <1>5, <1>6, <1>7 DEF Fades

\* A tick is one more of silence, of delay, and of time for the checker.
LEMMA FadesTick ==
  ASSUME TypeOK, ListedOnce, Conversations, Tick, NEW s \in Server, Fades(s)
  PROVE  Fades(s)'
<1>1. /\ process' = process /\ enroller' = enroller /\ registry' = registry /\ checker' = Down(checker)
      /\ registry => checker > 0
      /\ Prompt(s)
      /\ silent'[s] = IF Serving(s) THEN 0 ELSE UpTo(Long, silent[s])
  BY DEF Tick
<1>2. requests' = {Older(r) : r \in requests} /\ \A r \in requests : r.age < MaxDelay
  BY DEF Tick, Older
<1>3. \A r \in requests : /\ Older(r).from = r.from /\ Older(r).age = r.age + 1 /\ r.age \in Nat
  BY <1>2, OlderRequest, Requested DEF TypeOK
<1>4. silent[s] \in Nat /\ silent'[s] \in Nat /\ silent'[s] <= silent[s] + 1
  <2>1. silent[s] \in Nat /\ Long \in Nat
    BY ServerState, Numbers
  <2>2. QED
    BY <1>1, <2>1 DEF UpTo
<1>5. PICK d, e \in Nat : d = (Len(Names) - 1) * MaxDelay /\ e = Len(Names) * MaxDelay
  <2>1. 1 \in 1..Len(Names)
    BY Numbers
  <2>2. QED
    BY <2>1, Delayed
<1>6. (Serving(s) => silent[s] = 0)'
  BY <1>1 DEF Serving
<1>7. Trailing(s)'
  <2> SUFFICES ASSUME NEW r \in requests, r.from = s
               PROVE  silent'[s] <= d + (r.age + 1)
    BY <1>2, <1>3, <1>5 DEF Trailing
  <2>1. silent[s] <= d + r.age
    BY <1>5 DEF Fades, Trailing
  <2>2. QED
    BY <1>3, <1>4, <2>1
<1>8. Enrolling(s)'
  <2> SUFFICES ASSUME process[s] = "stopped", enroller[s].at # Finished
               PROVE  enroller[s].waits /\ \A x \in Live(s, "enroller")' : silent'[s] <= (enroller[s].at - 1) * MaxDelay + x.age
    BY <1>1 DEF Enrolling
  <2>1. enroller[s].waits
    BY <1>1 DEF Prompt
  <2>2. Live(s, "enroller")' = {Older(r) : r \in Live(s, "enroller")}
    BY <1>2, LiveOlder
  <2>3. PICK a \in Nat : a = (enroller[s].at - 1) * MaxDelay
    <3>1. enroller[s].at \in 1..Len(Names)
      BY ServerState, Numbers DEF Finished
    <3>2. QED
      BY <3>1, Delayed
  <2>4. ASSUME NEW r \in Live(s, "enroller") PROVE silent'[s] <= a + Older(r).age
    <3>1. silent[s] <= a + r.age
      BY <2>1, <2>3 DEF Fades, Enrolling
    <3>2. Older(r).age = r.age + 1 /\ r.age \in Nat
      BY <1>3 DEF Live
    <3>3. QED
      BY <1>4, <3>1, <3>2
  <2>5. QED
    BY <2>1, <2>2, <2>3, <2>4
<1>9. Lingering(s)'
  <2> SUFFICES ASSUME NEW n \in Name, NEW y \in Entries(n, s)'
               PROVE  silent'[s] <= e + Grace(y)'
    BY <1>5 DEF Lingering
  <2>1. PICK x \in Entries(n, s) : y.silence = UpTo(Timeout + 1, x.silence)
    BY Aged DEF Tick
  <2>2. silent[s] <= e + Grace(x)
    BY <1>5 DEF Fades, Lingering
  <2>3. x.silence \in Nat /\ x.silence <= Timeout + 1
    BY GraceBound
  <2>4. registry
    <3>1. SUFFICES ASSUME ~registry PROVE FALSE
      OBVIOUS
    <3>2. services = [m \in Name |-> << >>]
      BY <3>1 DEF Conversations, Asked
    <3>3. QED
      BY <3>2, NothingSaid
  <2>5. PICK c \in Nat, t \in Nat, p \in Nat, q \in Nat, z \in Nat :
          /\ c = checker /\ t = Timeout /\ p = CheckPeriod /\ q = silent[s] /\ z = x.silence
    BY <1>4, <2>3, Numbers, ServerState
  <2>6. c > 0 /\ c <= p /\ checker' = c - 1
    BY <1>1, <2>4, <2>5, ServerState DEF Down
  <2>7. Grace(x) = IF z <= t THEN z ELSE t + p - c
    BY <2>5 DEF Grace
  <2>8. y.silence = IF z < t + 1 THEN z + 1 ELSE t + 1
    BY <2>1, <2>5 DEF UpTo
  <2>9. Grace(y)' = IF y.silence <= t THEN y.silence ELSE t + p - (c - 1)
    BY <2>5, <2>6 DEF Grace
  <2>10. Grace(x) \in Nat /\ Grace(y)' \in Nat /\ Grace(y)' >= Grace(x) + 1
    <3>1. z <= t + 1
      BY <2>3, <2>5
    <3>2. CASE z < t
      BY <2>6, <2>7, <2>8, <2>9, <3>2
    <3>3. CASE z = t \/ z = t + 1
      BY <2>6, <2>7, <2>8, <2>9, <3>3
    <3>4. QED
      BY <3>1, <3>2, <3>3
  <2>11. PICK g \in Nat, h \in Nat : g = Grace(x) /\ h = Grace(y)'
    BY <2>10
  <2>12. h >= g + 1 /\ silent[s] <= e + g
    BY <2>2, <2>10, <2>11
  <2>13. silent'[s] <= e + h
    BY <1>4, <1>5, <2>12
  <2>14. QED
    BY <2>11, <2>13, Zenon
<1>10. QED
  BY <1>6, <1>7, <1>8, <1>9 DEF Fades

\* A check leaves nothing of a server whose time is over.
LEMMA FadesCheck ==
  ASSUME TypeOK, ListedOnce, CheckHeartbeat, NEW s \in Server, Fades(s)
  PROVE  Fades(s)'
<1>1. process' = process /\ enroller' = enroller /\ silent' = silent /\ requests' = requests
  BY DEF CheckHeartbeat, serverVars, history
<1>2. (Serving(s) => silent[s] = 0)' /\ Trailing(s)' /\ Enrolling(s)'
  BY <1>1 DEF Fades, Serving, Trailing, Enrolling, Live
<1>3. \A n \in Name : Entries(n, s)' = {x \in Entries(n, s) : x.silence <= Timeout}
  BY Checked DEF CheckHeartbeat
<1>4. \A x : x.silence <= Timeout => Grace(x)' = Grace(x)
  BY DEF Grace
<1>5. Lingering(s)'
  BY <1>1, <1>3, <1>4 DEF Fades, Lingering
<1>6. QED
  BY <1>2, <1>5 DEF Fades


\* Every step keeps what may be left of the servers.
LEMMA FadesStep ==
  ASSUME TypeOK, ListedOnce, Conversations, Farewells, Next, NEW s \in Server
  PROVE  Fades(s)'
<1>1. Fades(s)
  BY DEF Farewells
<1>2. CASE CheckHeartbeat
  BY <1>1, <1>2, FadesCheck
<1>3. CASE RegistryCrash
  <2>1. process' = process /\ silent' = silent /\ requests' = {} /\ services' = [n \in Name |-> << >>]
    BY <1>3 DEF RegistryCrash
  <2>2. enroller'[s] = IF enroller[s].waits THEN EnrollFails(s)[s] ELSE enroller[s]
    BY <1>3 DEF RegistryCrash
  <2>3. (Serving(s) => silent[s] = 0)' /\ Trailing(s)'
    BY <1>1, <2>1 DEF Fades, Serving, Trailing
  <2>4. Enrolling(s)'
    <3>1. CASE enroller[s].waits
      BY <2>2, <3>1, EnrolledState DEF Enrolling
    <3>2. CASE ~enroller[s].waits
      BY <1>1, <2>1, <2>2, <3>2 DEF Fades, Enrolling
    <3>3. QED
      BY <3>1, <3>2
  <2>5. Lingering(s)'
    <3>1. \A n \in Name : services'[n] = << >> /\ Elems(<< >>) = {}
      BY <2>1 DEF Elems
    <3>2. QED
      BY <3>1 DEF Lingering, Entries
  <2>6. QED
    BY <2>3, <2>4, <2>5 DEF Fades
<1>4. CASE RegistryStart
  <2>1. /\ process' = process /\ silent' = silent /\ requests' = requests /\ services' = services
        /\ enroller' = enroller /\ ~registry
    BY <1>4 DEF RegistryStart, serverVars, history
  <2>2. (Serving(s) => silent[s] = 0)' /\ Trailing(s)' /\ Enrolling(s)'
    BY <1>1, <2>1 DEF Fades, Serving, Trailing, Enrolling, Live
  <2>3. Lingering(s)'
    <3>1. services = [n \in Name |-> << >>]
      BY <2>1 DEF Conversations, Asked
    <3>2. \A n \in Name : Entries(n, s)' = {}
      BY <2>1, <3>1, NothingSaid DEF Entries
    <3>3. QED
      BY <3>2 DEF Lingering
  <2>4. QED
    BY <2>2, <2>3 DEF Fades
<1>5. CASE Tick
  BY <1>1, <1>5, FadesTick
<1>6. ASSUME NEW q \in Server,
             \/ RegisterSingleService(q) \/ SendHeartbeatForService(q)
             \/ Start(q) \/ Stop(q) \/ Joined(q) \/ Crash(q)
      PROVE  Fades(s)'
  <2>1. CASE q = s
    BY <1>1, <1>6, <2>1, FadesServer
  <2>2. CASE q # s
    BY <1>1, <1>6, <2>2, OthersSame, SameFades
  <2>3. QED
    BY <2>1, <2>2
<1>7. ASSUME NEW n \in Name, Discover(n) PROVE Fades(s)'
  BY <1>1, <1>7, DiscoverSame, SameFades
<1>8. ASSUME NEW r \in requests, HandleConnection(r) PROVE Fades(s)'
  <2>1. CASE r.from = s
    BY <1>1, <1>8, <2>1, FadesHandled
  <2>2. CASE r.from # s
    BY <1>1, <1>8, <2>2, HandleSame, SameFades
  <2>3. QED
    BY <2>1, <2>2
<1>9. QED
  BY <1>2, <1>3, <1>4, <1>5, <1>6, <1>7, <1>8, NextCases

-----------------------------------------------------------------------------
(* Lookups.                                                                 *)

\* A recorded instance is listed, as long as its server and the registry run.
LEMMA SteadyInstances ==
  ASSUME TypeOK, Rounds, NEW n \in Name, NEW s \in Server, <<n, s>> \in steady
  PROVE  Listed(n, s)
<1>1. Round(s)
  BY DEF Rounds
<1>2. PICK j \in DOMAIN Names : n = Names[j]
  BY NamesTyped
<1>3. \E x \in Entries(Names[j], s) : x.silence + Until(s, j) <= Comeback
  BY <1>1, <1>2 DEF Round
<1>4. QED
  BY <1>2, <1>3, ListedEntries

\* Every step keeps what a lookup is owed.
LEMMA LookupStep ==
  ASSUME TypeOK, ListedOnce, Conversations, Rounds, Lookups, Next
  PROVE  Lookups'
<1>1. missed = {} /\ (seeker # NoName => \A s \in owed : <<seeker, s>> \in steady) /\ owed \subseteq Server
  BY DEF Lookups, TypeOK
<1>2. CASE CheckHeartbeat \/ RegistryStart
  BY <1>1, <1>2 DEF CheckHeartbeat, RegistryStart, history, Lookups
<1>3. CASE RegistryCrash
  BY <1>1, <1>3 DEF RegistryCrash, Lookups
<1>4. CASE Tick
  BY <1>1, <1>4 DEF Tick, Lookups
<1>5. ASSUME NEW s \in Server,
             RegisterSingleService(s) \/ SendHeartbeatForService(s) \/ Start(s) \/ Joined(s)
      PROVE  Lookups'
  BY <1>1, <1>5 DEF RegisterSingleService, SendHeartbeatForService, Start, Joined, history, Lookups
<1>6. ASSUME NEW s \in Server, Stop(s) \/ Crash(s) PROVE Lookups'
  <2>1. /\ steady' = {p \in steady : p[2] # s} /\ owed' = owed \ {s}
        /\ missed' = missed /\ seeker' = seeker
    BY <1>6 DEF Stop, Crash, Unsteady
  <2>2. QED
    BY <1>1, <2>1 DEF Lookups
<1>7. ASSUME NEW n \in Name, Discover(n) PROVE Lookups'
  <2>1. /\ seeker' = n /\ steady' = steady /\ missed' = missed
        /\ owed' = {p[2] : p \in {q \in steady : q[1] = n}}
    BY <1>7 DEF Discover
  <2>2. \A p \in steady : p = <<p[1], p[2]>>
    BY DEF TypeOK
  <2>3. QED
    BY <1>1, <2>1, <2>2 DEF Lookups
<1>8. ASSUME NEW r \in requests, HandleConnection(r) PROVE Lookups'
  <2>1. owed' = owed
    BY <1>8 DEF HandleConnection
  <2>2. CASE r.from = Seeker
    <3>1. /\ seeker' = NoName /\ seeker \in Name /\ missed' \subseteq owed
          /\ \A s \in missed' : ~Listed(seeker, s)
      BY <1>8, <2>2, LookupHandled
    <3>2. \A s \in owed : Listed(seeker, s)
      BY <1>1, <3>1, NamesTyped, SteadyInstances
    <3>3. QED
      BY <3>1, <3>2 DEF Lookups
  <2>3. CASE r.from # Seeker
    BY <1>1, <1>8, <2>1, <2>3, InstanceHandled DEF Lookups
  <2>4. QED
    BY <2>2, <2>3
<1>9. QED
  BY <1>2, <1>3, <1>4, <1>5, <1>6, <1>7, <1>8, NextCases


-----------------------------------------------------------------------------
(* Theorems.                                                                *)

\* At first no process of a server runs.
LEMMA InitInv == Init => IInv
<1> SUFFICES ASSUME Init PROVE IInv
  OBVIOUS
<1>1. TypeOK /\ ListedOnce
  BY TypeInit
<1>2. ASSUME NEW s \in Server PROVE Talks(s)
  <2>1. heart[s] = NewHeart /\ enroller[s] = NewEnroller
    BY DEF Init
  <2>2. \A t : Live(s, t) = {}
    BY DEF Init, Live
  <2>3. ~NewHeart.waits /\ ~NewEnroller.waits /\ NewHeart.left = 0
    BY DEF NewHeart, NewEnroller
  <2>4. Sent(s, "heart", heart[s]) /\ Sent(s, "enroller", enroller[s])
    BY <2>1, <2>2, <2>3 DEF Sent
  <2>5. QED
    BY <2>1, <2>3, <2>4 DEF Talks
<1>3. Asked
  BY DEF Init, Asked
<1>4. Rounds
  BY DEF Init, Rounds, Round
<1>5. ASSUME NEW s \in Server PROVE Fades(s)
  <2>1. process[s] = "off" /\ requests = {} /\ services = [n \in Name |-> << >>]
    BY DEF Init
  <2>2. Lingering(s)
    BY <2>1, NothingSaid DEF Lingering
  <2>3. QED
    BY <2>1, <2>2 DEF Fades, Serving, Trailing, Enrolling
<1>6. Lookups
  BY DEF Init, Lookups
<1>7. QED
  BY <1>1, <1>2, <1>3, <1>4, <1>5, <1>6 DEF IInv, Conversations, Farewells

\* A step that changes nothing.
LEMMA StutterInv ==
  ASSUME IInv, UNCHANGED vars
  PROVE  IInv'
<1>1. /\ registry' = registry /\ services' = services /\ checker' = checker /\ process' = process
      /\ enroller' = enroller /\ heart' = heart /\ seeker' = seeker /\ requests' = requests
      /\ faults' = faults /\ steady' = steady /\ together' = together /\ silent' = silent
      /\ owed' = owed /\ missed' = missed
  BY DEF vars, registryVars, serverVars, history
<1>2. TypeOK' /\ ListedOnce' /\ Lookups' /\ Asked'
  BY <1>1, AskedSame DEF IInv, TypeOK, ListedOnce, Lookups, Conversations
<1>3. ASSUME NEW s \in Server PROVE Talks(s)' /\ Round(s)' /\ Fades(s)'
  <2>1. Same(s)
    BY <1>1 DEF Same, Live, Entries
  <2>2. Talks(s) /\ Round(s) /\ Fades(s)
    BY DEF IInv, Conversations, Rounds, Farewells
  <2>3. Talks(s)'
    BY <2>1, <2>2, SameTalks DEF Same
  <2>4. Round(s)'
    BY <2>1, <2>2, StillRound
  <2>5. QED
    BY <2>1, <2>2, <2>3, <2>4, SameFades
<1>4. QED
  BY <1>2, <1>3 DEF IInv, Conversations, Rounds, Farewells

\* The inductive invariant: types, vectors without doubles, one conversation a
\* thread, what is left of each round of heartbeats and of each server that
\* serves no more, and what the lookup is owed.
THEOREM Invariant == Spec => []IInv
<1>1. Init => IInv
  BY InitInv
<1>2. IInv /\ [Next]_vars => IInv'
  <2> SUFFICES ASSUME IInv, [Next]_vars PROVE IInv'
    OBVIOUS
  <2>1. CASE Next
    <3>1. TypeOK' /\ ListedOnce'
      BY <2>1, TypeStep DEF IInv
    <3>2. Conversations'
      BY <2>1, TalkStep, AskedStep DEF IInv, Conversations
    <3>3. Rounds'
      BY <2>1, RoundStep DEF IInv, Rounds
    <3>4. Farewells'
      BY <2>1, FadesStep DEF IInv, Farewells
    <3>5. Lookups'
      BY <2>1, LookupStep DEF IInv
    <3>6. QED
      BY <3>1, <3>2, <3>3, <3>4, <3>5 DEF IInv
  <2>2. CASE UNCHANGED vars
    BY <2>2, StutterInv
  <2>3. QED
    BY <2>1, <2>2
<1>3. QED
  BY <1>1, <1>2, PTL DEF Spec

\* An instance that is recorded stays recorded while its server and the
\* registry run: no check of heartbeat_checker_ removes it.
THEOREM Steady == Spec => []SteadyListed
<1>1. IInv => SteadyListed
  <2> SUFFICES ASSUME IInv, NEW p \in steady PROVE Listed(p[1], p[2])
    BY DEF SteadyListed
  <2>1. p[1] \in Name /\ p[2] \in Server /\ p = <<p[1], p[2]>>
    BY DEF IInv, TypeOK
  <2>2. QED
    BY <2>1, SteadyInstances DEF IInv
<1>2. QED
  BY <1>1, Invariant, PTL

\* A server is known under each of its names once it and the registry have run
\* for a round of heartbeats, whatever failed or was forgotten before.
THEOREM Recorded == Spec => []KnownAgain
<1>1. IInv => KnownAgain
  <2> SUFFICES ASSUME IInv, NEW s \in Server, NEW n \in Name, together[s] > Comeback
               PROVE  Listed(n, s)
    BY DEF KnownAgain
  <2>1. TypeOK /\ Rounds /\ Round(s) /\ Talks(s)
    BY DEF IInv, Rounds, Conversations
  <2>2. together[s] \in Nat /\ Comeback \in Nat
    BY <2>1, ServerState, Numbers
  <2>3. PICK j \in DOMAIN Names : n = Names[j]
    BY NamesTyped
  <2>4. CASE <<n, s>> \in steady
    BY <2>1, <2>4, SteadyInstances
  <2>5. CASE <<n, s>> \notin steady
    <3>1. together[s] # 0
      BY <2>2
    <3>2. together[s] + Until(s, j) <= Comeback
      BY <2>1, <2>3, <2>5, <3>1 DEF Round
    <3>3. Until(s, j) \in Nat
      BY <2>1, UntilBound
    <3>4. QED
      BY <2>2, <3>2, <3>3
  <2>6. QED
    BY <2>4, <2>5
<1>2. QED
  BY <1>1, Invariant, PTL

\* A server that serves no more is off the list after the timeout, a check and
\* the delays of its last requests.
THEOREM Forgotten == Spec => []DeadForgotten
<1>1. IInv => DeadForgotten
  <2> SUFFICES ASSUME IInv, NEW s \in Server, NEW n \in Name, silent[s] > Farewell, Listed(n, s)
               PROVE  FALSE
    BY DEF DeadForgotten
  <2>1. TypeOK /\ Lingering(s)
    BY DEF IInv, Farewells, Fades
  <2>2. PICK x \in Entries(n, s) : TRUE
    BY <2>1, ListedEntries
  <2>3. PICK e \in Nat : e = Len(Names) * MaxDelay
    BY Numbers
  <2>4. silent[s] <= e + Grace(x) /\ Grace(x) \in Nat /\ Grace(x) <= Timeout + CheckPeriod
    BY <2>1, <2>3, GraceBound DEF Lingering
  <2>5. Farewell = Timeout + CheckPeriod + e /\ silent[s] \in Nat /\ Timeout \in Nat /\ CheckPeriod \in Nat
    BY <2>1, <2>3, ServerState, Numbers DEF Farewell
  <2>6. QED
    BY <2>3, <2>4, <2>5
<1>2. QED
  BY <1>1, Invariant, PTL

\* The loop of handleServiceDiscovery leaves no instance out.
THEOREM Complete == Spec => []LookupComplete
<1>1. IInv => LookupComplete
  BY DEF IInv, Lookups, LookupComplete
<1>2. QED
  BY <1>1, Invariant, PTL

=============================================================================
