---------------------- MODULE ReplicatedRegistryProofs ----------------------
(* Theorems about ReplicatedRegistry: replicas that have applied the same   *)
(* entries agree, and what they list is what the servers have said of late, *)
(* for any number of replicas, instances, entries and ticks, whenever       *)
(* anything is committed, or never.                                         *)
EXTENDS ReplicatedRegistry, DataProofs

-----------------------------------------------------------------------------
(* Constants.                                                               *)

\* The assumptions on the constants, by their parts.
LEMMA Numbers ==
  /\ CleanupPeriod \in Nat /\ Timeout \in Nat /\ MaxLog \in Nat /\ MaxFaults \in Nat
  /\ Long \in Nat /\ Long = Timeout + CleanupPeriod + 1
  /\ None \notin Replica
BY ReplicatedRegistryAssumption DEF Long

\* An instance is a name and a port.
LEMMA Instanced ==
  ASSUME NEW i \in Instance
  PROVE  /\ i = <<i[1], i[2]>> /\ i[1] \in Name /\ i[1] # NoName /\ i[2] \in Nat /\ i[2] > 0
<1>1. i \in (STRING \ {NoName}) \X (Nat \ {0})
  BY ReplicatedRegistryAssumption
<1>2. i[1] \in Name
  BY DEF Name
<1>3. i = <<i[1], i[2]>> /\ i[1] # NoName /\ i[2] \in Nat /\ i[2] # 0
  BY <1>1
<1>4. QED
  BY <1>2, <1>3

\* A name is the name of an instance.
LEMMA Named ==
  ASSUME NEW n \in Name
  PROVE  n # NoName /\ \E i \in Instance : i[1] = n
<1>1. PICK i \in Instance : n = i[1]
  BY DEF Name
<1>2. QED
  BY <1>1, Instanced

-----------------------------------------------------------------------------
(* What a replica reads, and answers.                                       *)

\* A registration is proposed if the replica leads.
LEMMA HandledInstance ==
  ASSUME NEW i \in Instance, NEW r
  PROVE  LET b == Serialize(ServiceRegisterRequest, <<i[1], Host, i[2]>>) IN
         /\ Serialize(HeartbeatRequest, <<i[1], Host, i[2]>>) = b
         /\ Handled(r, b).log = IF leader = r
                                THEN Append(log, [type |-> "register", name |-> i[1], port |-> i[2]])
                                ELSE log
<1> DEFINE m == <<i[1], Host, i[2]>>
           b == Serialize(ServiceRegisterRequest, m)
<1>1. Serialize(HeartbeatRequest, m) = b
  BY DEF HeartbeatRequest, ServiceRegisterRequest
<1>2. IsMessage(ServiceRegisterRequest, m)
  BY DEF IsMessage, ServiceRegisterRequest
<1>3. Parse(ServiceRegisterRequest, b) = m
  BY <1>2, RoundTrip
<1>4. i[1] # NoName /\ i[2] > 0 /\ Host # NoName
  <2>1. Host # NoName
    BY Zenon DEF Host, NoName
  <2>2. QED
    BY <2>1, Instanced
<1>5. IsInstance(m) /\ m[1] = i[1] /\ m[3] = i[2]
  BY <1>4 DEF IsInstance
<1>6. ~NoBytes(b)
  <2>1. DOMAIN ServiceRegisterRequest = 1..3 /\ ServiceRegisterRequest[1] = "string"
    BY DEF ServiceRegisterRequest
  <2>2. Default("string") = NoName
    BY Zenon DEF Default
  <2>3. m[1] # Default(ServiceRegisterRequest[1]) /\ 1 \in DOMAIN ServiceRegisterRequest
    BY <1>4, <1>5, <2>1, <2>2
  <2>4. QED
    BY <2>3, EmptyMessages
<1> HIDE DEF b, m
<1>7. Handled(r, b) = HandleServiceRegister(r, m)
  BY <1>3, <1>5, <1>6 DEF Handled
<1>8. Handled(r, b).log = IF leader = r
                          THEN Append(log, [type |-> "register", name |-> m[1], port |-> m[3]])
                          ELSE log
  <2>1. HandleServiceRegister(r, m) = ProposeServiceOperation(r, "register", m)
    BY DEF HandleServiceRegister
  <2>2. \A l, a : Done(l, a).log = l
    BY DEF Done
  <2>3. \E a : HandleServiceRegister(r, m) =
          Done(Proposed(r, [type |-> "register", name |-> m[1], port |-> m[3]]), a)
    BY <2>1 DEF ProposeServiceOperation
  <2>4. QED
    BY <1>7, <2>2, <2>3 DEF Proposed
<1>9. QED
  BY <1>1, <1>5, <1>8 DEF b, m

\* A lookup is answered with the ports of the instances, in their order.
LEMMA HandledLookup ==
  ASSUME NEW r, NEW n \in Name, NEW found, found = GetServiceInstances(services[r], n)
  PROVE  Found(r, n) = [k \in DOMAIN found |-> found[k].port]
<1> DEFINE b == Serialize(ServiceDiscoveryRequest, <<n>>)
           info(i) == Serialize(ServiceInfo, <<Host, i.port, 1 + i.silence>>)
           infos == [k \in DOMAIN found |-> info(found[k])]
<1>1. Parse(ServiceDiscoveryRequest, b) = <<n>> /\ n # NoName
  BY LookupsRead, Named
<1>2. ~IsInstance(Parse(ServiceRegisterRequest, b))
  BY LookupsNameNoHost DEF IsInstance
<1>3. ~NoBytes(b)
  <2>1. DOMAIN ServiceDiscoveryRequest = 1..1 /\ ServiceDiscoveryRequest[1] = "string"
    BY DEF ServiceDiscoveryRequest
  <2>2. Default("string") = NoName
    BY Zenon DEF Default
  <2>3. <<n>>[1] # Default(ServiceDiscoveryRequest[1]) /\ 1 \in DOMAIN ServiceDiscoveryRequest
    BY <1>1, <2>1, <2>2
  <2>4. QED
    BY <2>3, EmptyMessages
<1> HIDE DEF b
<1>4. Handled(r, b) = HandleServiceDiscovery(r, <<n>>)
  BY <1>1, <1>2, <1>3 DEF Handled
<1>5. Handled(r, b).answer = Serialize(ServiceDiscoveryResponse, <<infos>>)
  BY <1>4 DEF HandleServiceDiscovery, Done
<1>6. Parse(ServiceDiscoveryResponse, Handled(r, b).answer)[1] = infos
  BY <1>5, LookupsRead
<1>7. \A i : Parse(ServiceInfo, info(i))[2] = i.port
  BY LookupsRead
<1>8. Found(r, n) = [k \in DOMAIN infos |-> Parse(ServiceInfo, infos[k])[2]]
  BY <1>6 DEF Found, b
<1> HIDE DEF info
<1>9. QED
  BY <1>7, <1>8

-----------------------------------------------------------------------------
(* services_: what applying an entry, cleaning up and waiting do to it.     *)

\* A table and its vectors.
LEMMA Vectors ==
  ASSUME NEW m, Content(m), NEW n, NEW v, v = GetServiceInstances(m, n)
  PROVE  /\ v \in Seq(InstanceInfo) /\ Len(v) \in Nat /\ DOMAIN v = 1..Len(v)
         /\ n \in DOMAIN m <=> Len(v) > 0
         /\ n \in DOMAIN m => v = m[n] /\ n \in Name
         /\ \A k \in 1..Len(v) : v[k] \in InstanceInfo /\ <<n, v[k].port>> \in Instance
         /\ \A s : Listed(m, n, s) <=> \E k \in 1..Len(v) : v[k].port = s
         /\ \A s : Members(m, n, s) = {x \in Elems(v) : x.port = s}
<1>1. CASE n \in DOMAIN m
  <2>1. v = m[n] /\ n \in Name /\ v \in Seq(InstanceInfo) /\ v # << >>
    BY <1>1 DEF GetServiceInstances, Content
  <2>2. Len(v) \in Nat /\ DOMAIN v = 1..Len(v) /\ Len(v) > 0 /\ \A k \in 1..Len(v) : v[k] \in InstanceInfo
    BY <2>1
  <2>3. \A k \in 1..Len(v) : <<n, v[k].port>> \in Instance
    BY <1>1, <2>1, <2>2 DEF Content
  <2>4. \A s : Listed(m, n, s) <=> \E k \in 1..Len(v) : v[k].port = s
    BY <2>1, <2>2 DEF Listed
  <2>5. QED
    BY <1>1, <2>1, <2>2, <2>3, <2>4 DEF Members
<1>2. CASE n \notin DOMAIN m
  <2>1. v = << >>
    BY <1>2 DEF GetServiceInstances
  <2>2. v \in Seq(InstanceInfo) /\ Len(v) = 0 /\ DOMAIN v = {} /\ 1..Len(v) = {}
    BY <2>1
  <2>3. \A s : ~Listed(m, n, s)
    BY <2>1, <2>2 DEF Listed
  <2>4. QED
    BY <1>2, <2>1, <2>2, <2>3 DEF Members
<1>3. QED
  BY <1>1, <1>2

\* The same of all vectors of a table.
LEMMA Counted ==
  ASSUME NEW m, Content(m), NEW n
  PROVE  /\ Len(GetServiceInstances(m, n)) \in Nat
         /\ \A s : Listed(m, n, s) <=>
              \E k \in 1..Len(GetServiceInstances(m, n)) : GetServiceInstances(m, n)[k].port = s
<1>1. PICK v : v = GetServiceInstances(m, n)
  OBVIOUS
<1>2. Len(v) \in Nat /\ \A s : Listed(m, n, s) <=> \E k \in 1..Len(v) : v[k].port = s
  BY <1>1, Vectors
<1>3. QED
  BY <1>1, <1>2

\* An instance is listed if the table says anything of it.
LEMMA ListedMembers ==
  ASSUME NEW m, Content(m), NEW n, NEW s
  PROVE  Listed(m, n, s) <=> Members(m, n, s) # {}
<1>1. PICK v : v = GetServiceInstances(m, n)
  OBVIOUS
<1>2. (\E k \in 1..Len(v) : v[k].port = s) <=> (\E x \in Elems(v) : x.port = s)
  BY DEF Elems
<1>3. Listed(m, n, s) <=> \E k \in 1..Len(v) : v[k].port = s
  BY <1>1, Vectors
<1>4. Members(m, n, s) = {x \in Elems(v) : x.port = s}
  BY <1>1, Vectors
<1>5. QED
  BY <1>2, <1>3, <1>4

\* A table without services.
LEMMA NothingListed ==
  /\ Content(<< >>) /\ \A n : GetServiceInstances(<< >>, n) = << >>
  /\ \A n, s : Members(<< >>, n, s) = {}
<1>1. DOMAIN << >> = {}
  OBVIOUS
<1>2. \A n : GetServiceInstances(<< >>, n) = << >>
  BY <1>1 DEF GetServiceInstances
<1>3. Elems(<< >>) = {}
  BY DEF Elems
<1>4. QED
  BY <1>1, <1>2, <1>3 DEF Content, Members

\* What a registration of <<n, s>> changes of a vector v: nothing but the
\* silence of the instance, if it is there, or one more instance.
Renewed(v, w, s) ==
  /\ Len(w) = Len(v)
  /\ \A k \in 1..Len(v) : /\ w[k].port = v[k].port
                          /\ w[k].silence = IF v[k].port = s THEN 0 ELSE v[k].silence
Joined(v, w, s) ==
  /\ Len(w) = Len(v) + 1
  /\ \A k \in 1..Len(v) : w[k] = v[k]
  /\ w[Len(w)].port = s /\ w[Len(w)].silence = 0

\* A known instance is renewed.
LEMMA Refreshes ==
  ASSUME NEW m, Content(m), NEW n, NEW s, Listed(m, n, s)
  PROVE  /\ Content(Refreshed(m, n, s))
         /\ Renewed(GetServiceInstances(m, n), GetServiceInstances(Refreshed(m, n, s), n), s)
         /\ \A o : o # n => GetServiceInstances(Refreshed(m, n, s), o) = GetServiceInstances(m, o)
<1> DEFINE new(x) == IF x.port = s THEN [x EXCEPT !.silence = 0] ELSE x
           w == [k \in DOMAIN m[n] |-> new(m[n][k])]
           after == Refreshed(m, n, s)
<1>1. PICK v : v = GetServiceInstances(m, n)
  OBVIOUS
<1>2. /\ n \in DOMAIN m /\ v = m[n] /\ v \in Seq(InstanceInfo) /\ Len(v) \in Nat /\ Len(v) > 0
      /\ DOMAIN v = 1..Len(v) /\ n \in Name
      /\ \A k \in 1..Len(v) : v[k] \in InstanceInfo /\ <<n, v[k].port>> \in Instance
  BY <1>1, Vectors
<1>3. after = [m EXCEPT ![n] = w]
  BY DEF Refreshed
<1>4. ASSUME NEW x \in InstanceInfo
      PROVE  /\ new(x) \in InstanceInfo /\ new(x).port = x.port
             /\ new(x).silence = IF x.port = s THEN 0 ELSE x.silence
  <2>1. 0 \in 0..(Timeout + 1)
    BY Numbers
  <2>2. QED
    BY <2>1 DEF InstanceInfo
<1>5. w = [k \in 1..Len(v) |-> new(v[k])]
  BY <1>2
<1> HIDE DEF new, w, after
<1>6. w \in Seq(InstanceInfo) /\ Len(w) = Len(v) /\ DOMAIN w = 1..Len(v) /\ w # << >>
  BY <1>2, <1>4, <1>5
<1>7. \A k \in 1..Len(v) : w[k] = new(v[k])
  BY <1>5
<1>8. DOMAIN after = DOMAIN m /\ after[n] = w /\ \A o \in DOMAIN m : o # n => after[o] = m[o]
  BY <1>2, <1>3
<1>9. GetServiceInstances(after, n) = w /\ \A o : o # n => GetServiceInstances(after, o) = GetServiceInstances(m, o)
  BY <1>2, <1>8 DEF GetServiceInstances
<1>10. Renewed(v, w, s)
  BY <1>2, <1>4, <1>6, <1>7 DEF Renewed
<1>11. Content(after)
  <2>1. \A k \in 1..Len(v) : <<n, w[k].port>> \in Instance
    BY <1>2, <1>4, <1>7
  <2>2. QED
    BY <1>6, <1>8, <2>1 DEF Content
<1>12. QED
  BY <1>1, <1>9, <1>10, <1>11 DEF after

\* One that is not joins the others.
LEMMA Joins ==
  ASSUME NEW m, Content(m), NEW n, NEW s, <<n, s>> \in Instance, ~Listed(m, n, s)
  PROVE  /\ Content(RegisterService(m, n, s))
         /\ Joined(GetServiceInstances(m, n), GetServiceInstances(RegisterService(m, n, s), n), s)
         /\ \A o : o # n => GetServiceInstances(RegisterService(m, n, s), o) = GetServiceInstances(m, o)
<1> DEFINE x == [port |-> s, silence |-> 0]
           after == RegisterService(m, n, s)
<1>1. PICK v : v = GetServiceInstances(m, n)
  OBVIOUS
<1>2. /\ v \in Seq(InstanceInfo) /\ Len(v) \in Nat
      /\ DOMAIN v = 1..Len(v)
      /\ \A k \in 1..Len(v) : v[k] \in InstanceInfo /\ <<n, v[k].port>> \in Instance
  BY <1>1, Vectors
<1>3. n \in Name /\ s \in Nat
  BY Instanced
<1>4. x \in InstanceInfo /\ x.port = s /\ x.silence = 0
  <2>1. 0 \in 0..(Timeout + 1)
    BY Numbers
  <2>2. QED
    BY <1>3, <2>1 DEF InstanceInfo
<1> DEFINE w == Append(v, x)
<1>5. after = [k \in DOMAIN m \union {n} |-> IF k = n THEN w ELSE m[k]]
  BY <1>1 DEF RegisterService
<1> HIDE DEF after, x
<1>6. /\ w \in Seq(InstanceInfo) /\ Len(w) = Len(v) + 1 /\ DOMAIN w = 1..(Len(v) + 1) /\ w # << >>
      /\ w[Len(v) + 1] = x /\ \A k \in 1..Len(v) : w[k] = v[k]
  BY <1>2, <1>4
<1> HIDE DEF w
<1>7. /\ DOMAIN after = DOMAIN m \union {n} /\ after[n] = w
      /\ \A o \in DOMAIN m : o # n => after[o] = m[o]
  BY <1>5
<1>8. GetServiceInstances(after, n) = w /\ \A o : o # n => GetServiceInstances(after, o) = GetServiceInstances(m, o)
  BY <1>7 DEF GetServiceInstances
<1>9. Joined(v, w, s)
  BY <1>4, <1>6 DEF Joined
<1>10. Content(after)
  <2>1. \A k \in DOMAIN w : <<n, w[k].port>> \in Instance
    <3>1. \A k \in 1..(Len(v) + 1) : k \in 1..Len(v) \/ k = Len(v) + 1
      BY <1>2
    <3>2. QED
      BY <1>2, <1>4, <1>6, <3>1
  <2>2. QED
    BY <1>3, <1>6, <1>7, <2>1 DEF Content
<1>11. QED
  BY <1>1, <1>8, <1>9, <1>10 DEF after

\* registerService, both ways.
LEMMA Registers ==
  ASSUME NEW m, Content(m), NEW n, NEW s, <<n, s>> \in Instance
  PROVE  /\ Content(RegisterService(m, n, s))
         /\ \A o : o # n => GetServiceInstances(RegisterService(m, n, s), o) = GetServiceInstances(m, o)
         /\ IF Listed(m, n, s)
            THEN Renewed(GetServiceInstances(m, n), GetServiceInstances(RegisterService(m, n, s), n), s)
            ELSE Joined(GetServiceInstances(m, n), GetServiceInstances(RegisterService(m, n, s), n), s)
<1>1. CASE Listed(m, n, s)
  <2>1. RegisterService(m, n, s) = Refreshed(m, n, s)
    BY <1>1 DEF RegisterService
  <2>2. QED
    BY <1>1, <2>1, Refreshes
<1>2. CASE ~Listed(m, n, s)
  BY <1>2, Joins
<1>3. QED
  BY <1>1, <1>2

\* removeExpiredServices leaves what is not expired.
LEMMA Cleans ==
  ASSUME NEW m, Content(m)
  PROVE  /\ Content(RemoveExpiredServices(m))
         /\ \A n : Elems(GetServiceInstances(RemoveExpiredServices(m), n))
                     = {x \in Elems(GetServiceInstances(m, n)) : ~Expired(x)}
<1> DEFINE gone == {p \in Instances(m) : Expired(p[2])}
           goneOf(n) == {x \in Elems(m[n]) : <<n, x>> \in gone}
           left == [n \in DOMAIN m |-> Drop(m[n], goneOf(n))]
           after == RemoveExpiredServices(m)
           kept == {k \in DOMAIN m : left[k] # << >>}
<1>1. after = [n \in kept |-> left[n]]
  BY DEF RemoveExpiredServices, Without
<1>2. ASSUME NEW n \in DOMAIN m PROVE goneOf(n) = {x \in Elems(m[n]) : Expired(x)}
  BY DEF Instances
<1>3. ASSUME NEW n \in DOMAIN m
      PROVE  /\ left[n] \in Seq(InstanceInfo) /\ Elems(left[n]) = {x \in Elems(m[n]) : ~Expired(x)}
             /\ n \in Name /\ \A k \in DOMAIN left[n] : <<n, left[n][k].port>> \in Instance
  <2>1. /\ m[n] \in Seq(InstanceInfo) /\ n \in Name /\ DOMAIN m[n] = 1..Len(m[n])
        /\ \A k \in DOMAIN m[n] : <<n, m[n][k].port>> \in Instance
    BY DEF Content
  <2>2. left[n] = Drop(m[n], goneOf(n))
    OBVIOUS
  <2>3. left[n] \in Seq(InstanceInfo) /\ Elems(left[n]) = Elems(m[n]) \ goneOf(n)
    BY <2>1, <2>2, DropType, DropElems
  <2>4. Elems(left[n]) = {x \in Elems(m[n]) : ~Expired(x)}
    BY <1>2, <2>3
  <2>5. \A x \in Elems(m[n]) : <<n, x.port>> \in Instance
    BY <2>1 DEF Elems
  <2> HIDE DEF left
  <2>6. \A k \in DOMAIN left[n] : left[n][k] \in Elems(left[n])
    BY <2>3 DEF Elems
  <2>7. QED
    BY <2>1, <2>3, <2>4, <2>5, <2>6
<1> HIDE DEF left, after, kept
<1>4. DOMAIN after = kept /\ kept \subseteq DOMAIN m /\ \A n \in kept : after[n] = left[n] /\ left[n] # << >>
  BY <1>1 DEF kept
<1>5. Content(after)
  BY <1>3, <1>4 DEF Content
<1>6. ASSUME NEW n
      PROVE  Elems(GetServiceInstances(after, n)) = {x \in Elems(GetServiceInstances(m, n)) : ~Expired(x)}
  <2>1. Elems(<< >>) = {}
    BY DEF Elems
  <2>2. CASE n \in kept
    BY <1>3, <1>4, <2>2 DEF GetServiceInstances
  <2>3. CASE n \in DOMAIN m /\ n \notin kept
    <3>1. left[n] = << >>
      BY <2>3 DEF kept
    <3>2. {x \in Elems(m[n]) : ~Expired(x)} = {}
      BY <1>3, <2>1, <2>3, <3>1
    <3>3. QED
      BY <1>4, <2>1, <2>3, <3>2 DEF GetServiceInstances
  <2>4. CASE n \notin DOMAIN m
    BY <1>4, <2>1, <2>4 DEF GetServiceInstances
  <2>5. QED
    BY <2>2, <2>3, <2>4
<1>7. QED
  BY <1>5, <1>6 DEF after

\* A tick is one more of silence.
LEMMA Ages ==
  ASSUME NEW m, Content(m)
  PROVE  /\ Content(Aged(m))
         /\ \A n : /\ Len(GetServiceInstances(Aged(m), n)) = Len(GetServiceInstances(m, n))
                   /\ \A k \in 1..Len(GetServiceInstances(m, n)) :
                        /\ GetServiceInstances(Aged(m), n)[k].port = GetServiceInstances(m, n)[k].port
                        /\ GetServiceInstances(Aged(m), n)[k].silence
                             = UpTo(Timeout + 1, GetServiceInstances(m, n)[k].silence)
<1> DEFINE older(x) == [x EXCEPT !.silence = UpTo(Timeout + 1, @)]
           w(n) == [k \in DOMAIN m[n] |-> older(m[n][k])]
           after == Aged(m)
<1>1. ASSUME NEW x \in InstanceInfo
      PROVE  /\ older(x) \in InstanceInfo /\ older(x).port = x.port
             /\ older(x).silence = UpTo(Timeout + 1, x.silence)
  <2>1. UpTo(Timeout + 1, x.silence) \in 0..(Timeout + 1)
    <3>1. x.silence \in 0..(Timeout + 1) /\ Timeout \in Nat
      BY Numbers DEF InstanceInfo
    <3>2. QED
      BY <3>1 DEF UpTo
  <2>2. QED
    BY <2>1 DEF InstanceInfo
<1>2. DOMAIN after = DOMAIN m /\ \A n \in DOMAIN m : after[n] = w(n)
  BY DEF Aged
<1> HIDE DEF older, after
<1>3. ASSUME NEW n \in DOMAIN m
      PROVE  /\ w(n) \in Seq(InstanceInfo) /\ Len(w(n)) = Len(m[n]) /\ DOMAIN w(n) = 1..Len(m[n])
             /\ w(n) # << >>
             /\ \A k \in 1..Len(m[n]) : w(n)[k] = older(m[n][k]) /\ m[n][k] \in InstanceInfo
                                        /\ <<n, m[n][k].port>> \in Instance
             /\ n \in Name
  <2>1. /\ m[n] \in Seq(InstanceInfo) /\ m[n] # << >> /\ DOMAIN m[n] = 1..Len(m[n]) /\ n \in Name
        /\ \A k \in 1..Len(m[n]) : m[n][k] \in InstanceInfo /\ <<n, m[n][k].port>> \in Instance
    BY DEF Content
  <2>2. w(n) = [k \in 1..Len(m[n]) |-> older(m[n][k])]
    BY <2>1
  <2>3. Len(m[n]) \in Nat /\ Len(m[n]) > 0
    BY <2>1
  <2> HIDE DEF w
  <2>4. w(n) \in Seq(InstanceInfo) /\ Len(w(n)) = Len(m[n]) /\ DOMAIN w(n) = 1..Len(m[n])
    BY <1>1, <2>1, <2>2, <2>3
  <2>5. w(n) # << >>
    BY <2>3, <2>4
  <2>6. QED
    BY <2>1, <2>2, <2>4, <2>5
<1> HIDE DEF w
<1>4. Content(after)
  <2>1. ASSUME NEW n \in DOMAIN m, NEW k \in 1..Len(m[n]) PROVE <<n, w(n)[k].port>> \in Instance
    <3>1. PICK x \in InstanceInfo : x = m[n][k]
      BY <1>3
    <3>2. w(n)[k] = older(x) /\ <<n, x.port>> \in Instance
      BY <1>3, <3>1
    <3>3. QED
      BY <1>1, <3>2
  <2>2. QED
    BY <1>2, <1>3, <2>1 DEF Content
<1>5. ASSUME NEW n, NEW v, v = GetServiceInstances(m, n), NEW u, u = GetServiceInstances(after, n)
      PROVE  /\ Len(u) = Len(v)
             /\ \A k \in 1..Len(v) : u[k].port = v[k].port /\ u[k].silence = UpTo(Timeout + 1, v[k].silence)
  <2>1. CASE n \in DOMAIN m
    <3>1. u = w(n) /\ v = m[n]
      BY <1>2, <1>5, <2>1 DEF GetServiceInstances
    <3>2. QED
      BY <1>1, <1>3, <2>1, <3>1
  <2>2. CASE n \notin DOMAIN m
    <3>1. u = << >> /\ v = << >>
      BY <1>2, <1>5, <2>2 DEF GetServiceInstances
    <3>2. QED
      BY <3>1
  <2>3. QED
    BY <2>1, <2>2
<1>6. QED
  BY <1>4, <1>5 DEF after

-----------------------------------------------------------------------------
(* The log, replayed.                                                       *)

\* two vectors of as many instances with the same ports
SamePorts(v, w) == Len(w) = Len(v) /\ \A i \in 1..Len(v) : w[i].port = v[i].port

\* Before anything is applied nothing is listed.
LEMMA ReplayNothing ==
  ASSUME NEW l, NEW t
  PROVE  ReplayOf(l, << >>, 0) /\ VouchedBy(l, t, << >>, 0)
<1>1. ASSUME NEW n PROVE Replayed(l, << >>, n, 0)
  <2>1. Firsts(l, n, 0) = {} /\ 1..Len(<< >>) = {}
    BY DEF Firsts
  <2>2. [i \in {} |-> i] \in [{} -> {}]
    OBVIOUS
  <2>3. QED
    BY <2>1, <2>2 DEF Replayed
<1>2. QED
  BY <1>1, NothingListed DEF ReplayOf, VouchedBy

\* The order depends on the names and the ports of the entries alone.
LEMMA FirstsSame ==
  ASSUME NEW a \in Nat, NEW l, NEW h, \A k \in 1..a : h[k].name = l[k].name /\ h[k].port = l[k].port,
         NEW n
  PROVE  Firsts(h, n, a) = Firsts(l, n, a)
<1>1. \A k \in 1..a : \A j \in 1..(k - 1) : j \in 1..a
  OBVIOUS
<1>2. ASSUME NEW k \in 1..a
      PROVE  (\A j \in 1..(k - 1) : ~Says(h[j], n, h[k].port)) <=> (\A j \in 1..(k - 1) : ~Says(l[j], n, l[k].port))
  BY <1>1 DEF Says
<1>3. QED
  BY <1>2 DEF Firsts

\* What is replayed depends on nothing else, and says nothing but ports.
LEMMA ReplayedSame ==
  ASSUME NEW a \in Nat, NEW l, NEW h, \A k \in 1..a : h[k].name = l[k].name /\ h[k].port = l[k].port,
         NEW n, NEW v, NEW w, SamePorts(v, w), Replayed(l, v, n, a)
  PROVE  Replayed(h, w, n, a)
<1> DEFINE F == Firsts(l, n, a)
<1>0. Len(w) = Len(v) /\ \A i \in 1..Len(v) : w[i].port = v[i].port
  BY DEF SamePorts
<1>1. Firsts(h, n, a) = F
  BY FirstsSame
<1>2. F \subseteq 1..a
  BY DEF Firsts
<1>3. PICK f \in [1..Len(v) -> F] :
        /\ \A k \in F : \E i \in 1..Len(v) : f[i] = k
        /\ \A i \in 1..Len(v) : l[f[i]].port = v[i].port
        /\ \A i, j \in 1..Len(v) : i < j => f[i] < f[j]
  BY DEF Replayed
<1> HIDE DEF F
<1>4. \A i \in 1..Len(w) : h[f[i]].port = w[i].port
  BY <1>0, <1>2, <1>3
<1>5. f \in [1..Len(w) -> F]
  BY <1>0, <1>3
<1>6. /\ \A k \in F : \E i \in 1..Len(w) : f[i] = k
      /\ \A i, j \in 1..Len(w) : i < j => f[i] < f[j]
  BY <1>0, <1>3
<1>7. QED
  BY <1>1, <1>4, <1>5, <1>6 DEF Replayed

\* A table goes on to be the replay of a log if both keep their names and ports.
LEMMA ReplaySame ==
  ASSUME NEW a \in Nat, NEW l, NEW h, \A k \in 1..a : h[k].name = l[k].name /\ h[k].port = l[k].port,
         NEW m, NEW after, Content(m), Content(after),
         \A n : SamePorts(GetServiceInstances(m, n), GetServiceInstances(after, n)), ReplayOf(l, m, a)
  PROVE  ReplayOf(h, after, a)
<1>1. \A n \in Name : Replayed(h, GetServiceInstances(after, n), n, a)
  BY ReplayedSame DEF ReplayOf
<1>2. ASSUME NEW n, NEW s, Listed(m, n, s) PROVE Listed(after, n, s)
  <2>1. PICK v, w : v = GetServiceInstances(m, n) /\ w = GetServiceInstances(after, n)
    OBVIOUS
  <2>2. PICK k \in 1..Len(v) : v[k].port = s
    BY <1>2, <2>1, Vectors
  <2>3. k \in 1..Len(w) /\ w[k].port = s
    BY <2>1, <2>2 DEF SamePorts
  <2>4. QED
    BY <2>1, <2>3, Vectors
<1>3. \A k \in 1..a : Listed(after, h[k].name, h[k].port)
  BY <1>2 DEF ReplayOf
<1>4. QED
  BY <1>1, <1>3 DEF ReplayOf

\* The instances of a service, as one more entry leaves them.
LEMMA FirstsNext ==
  ASSUME NEW a \in Nat, NEW l, NEW n
  PROVE  Firsts(l, n, a + 1) =
           Firsts(l, n, a) \union
             (IF l[a + 1].name = n /\ \A j \in 1..a : ~Says(l[j], n, l[a + 1].port) THEN {a + 1} ELSE {})
<1>1. \A k \in 1..(a + 1) : k \in 1..a \/ k = a + 1
  OBVIOUS
<1>2. 1..a \subseteq 1..(a + 1) /\ a + 1 \in 1..(a + 1) /\ a + 1 \notin 1..a /\ (a + 1) - 1 = a
  OBVIOUS
<1>3. QED
  BY <1>1, <1>2 DEF Firsts

\* An entry is applied.
LEMMA ReplayStep ==
  ASSUME NEW a \in Nat, NEW l, NEW m, Content(m), ReplayOf(l, m, a),
         NEW n, NEW s, n = l[a + 1].name, s = l[a + 1].port, <<n, s>> \in Instance
  PROVE  ReplayOf(l, RegisterService(m, n, s), a + 1)
<1> DEFINE after == RegisterService(m, n, s)
           V(o) == GetServiceInstances(m, o)
           W(o) == GetServiceInstances(after, o)
<1>1. /\ Content(after) /\ \A o : o # n => W(o) = V(o)
      /\ Listed(m, n, s) => Renewed(V(n), W(n), s)
      /\ ~Listed(m, n, s) => Joined(V(n), W(n), s)
  BY Registers
<1>2. /\ \A k \in 1..a : Listed(m, l[k].name, l[k].port)
      /\ \A o \in Name : Replayed(l, V(o), o, a)
  BY DEF ReplayOf
<1>3. /\ \A o : Len(V(o)) \in Nat /\ Len(W(o)) \in Nat
      /\ \A o, p : Listed(m, o, p) <=> \E k \in 1..Len(V(o)) : V(o)[k].port = p
      /\ \A o, p : Listed(after, o, p) <=> \E k \in 1..Len(W(o)) : W(o)[k].port = p
  <2> HIDE DEF after
  <2>1. /\ \A o : Len(V(o)) \in Nat
        /\ \A o, p : Listed(m, o, p) <=> \E k \in 1..Len(V(o)) : V(o)[k].port = p
    BY Counted
  <2>2. /\ \A o : Len(W(o)) \in Nat
        /\ \A o, p : Listed(after, o, p) <=> \E k \in 1..Len(W(o)) : W(o)[k].port = p
    BY <1>1, Counted
  <2>3. QED
    BY <2>1, <2>2
<1> HIDE DEF after, V, W
<1>4. Listed(after, n, s)
  <2>1. CASE Listed(m, n, s)
    <3>1. PICK k \in 1..Len(V(n)) : V(n)[k].port = s
      BY <1>3, <2>1
    <3>2. k \in 1..Len(W(n)) /\ W(n)[k].port = s
      BY <1>1, <2>1, <3>1 DEF Renewed
    <3>3. QED
      BY <1>3, <3>2
  <2>2. CASE ~Listed(m, n, s)
    <3>1. Len(W(n)) = Len(V(n)) + 1 /\ W(n)[Len(W(n))].port = s
      BY <1>1, <2>2 DEF Joined
    <3>2. Len(W(n)) \in 1..Len(W(n))
      BY <1>3, <3>1
    <3>3. QED
      BY <1>3, <3>1, <3>2
  <2>3. QED
    BY <2>1, <2>2
<1>5. ASSUME NEW o, NEW p, Listed(m, o, p) PROVE Listed(after, o, p)
  <2>1. CASE o # n
    BY <1>1, <1>3, <1>5, <2>1
  <2>2. CASE o = n
    <3>1. PICK k \in 1..Len(V(n)) : V(n)[k].port = p
      BY <1>3, <1>5, <2>2
    <3>2. Len(W(n)) = Len(V(n)) \/ Len(W(n)) = Len(V(n)) + 1
      BY <1>1 DEF Renewed, Joined
    <3>3. k \in 1..Len(W(n))
      BY <1>3, <3>2
    <3>4. W(n)[k].port = p
      BY <1>1, <3>1 DEF Renewed, Joined
    <3>5. QED
      BY <1>3, <2>2, <3>3, <3>4
  <2>3. QED
    BY <2>1, <2>2
<1>6. \A k \in 1..(a + 1) : Listed(after, l[k].name, l[k].port)
  <2>1. \A k \in 1..(a + 1) : k \in 1..a \/ k = a + 1
    OBVIOUS
  <2>2. QED
    BY <1>2, <1>4, <1>5, <2>1
<1>7. ASSUME NEW o \in Name PROVE Replayed(l, W(o), o, a + 1)
  <2>1. Replayed(l, V(o), o, a)
    BY <1>2
  <2> DEFINE F == Firsts(l, o, a)
             G == Firsts(l, o, a + 1)
  <2>2. G = F \union (IF n = o /\ \A j \in 1..a : ~Says(l[j], o, s) THEN {a + 1} ELSE {})
    BY FirstsNext
  <2>3. F \subseteq 1..a
    BY DEF Firsts
  <2>4. CASE o # n \/ Listed(m, n, s)
    <3>1. Len(W(o)) = Len(V(o)) /\ \A i \in 1..Len(V(o)) : W(o)[i].port = V(o)[i].port
      BY <1>1, <2>4 DEF Renewed
    <3>2. Replayed(l, W(o), o, a)
      BY <2>1, <3>1, ReplayedSame DEF SamePorts
    <3>3. o = n => \E j \in 1..a : Says(l[j], o, s)
      <4>1. SUFFICES ASSUME o = n PROVE \E j \in 1..a : Says(l[j], o, s)
        OBVIOUS
      <4>2. PICK i \in 1..Len(V(n)) : V(n)[i].port = s
        BY <1>3, <2>4, <4>1
      <4>3. PICK f \in [1..Len(V(n)) -> Firsts(l, n, a)] : \A k \in 1..Len(V(n)) : l[f[k]].port = V(n)[k].port
        BY <2>1, <4>1 DEF Replayed
      <4>4. f[i] \in Firsts(l, n, a) /\ l[f[i]].port = s
        BY <4>2, <4>3
      <4>5. f[i] \in 1..a /\ l[f[i]].name = n
        BY <4>4 DEF Firsts
      <4>6. QED
        BY <4>1, <4>4, <4>5 DEF Says
    <3>4. G = F
      BY <2>2, <3>3
    <3>5. QED
      BY <3>2, <3>4 DEF Replayed
  <2>5. CASE o = n /\ ~Listed(m, n, s)
    <3>1. \A j \in 1..a : ~Says(l[j], o, s)
      BY <1>2, <2>5 DEF Says
    <3>2. G = F \union {a + 1}
      BY <2>2, <2>5, <3>1
    <3>3. PICK L \in Nat : L = Len(V(o))
      BY <1>3
    <3>4. /\ Len(W(o)) = L + 1 /\ W(o)[L + 1].port = s
          /\ \A i \in 1..L : W(o)[i] = V(o)[i]
      BY <1>1, <2>5, <3>3 DEF Joined
    <3>5. PICK f \in [1..L -> F] :
            /\ \A k \in F : \E i \in 1..L : f[i] = k
            /\ \A i \in 1..L : l[f[i]].port = V(o)[i].port
            /\ \A i, j \in 1..L : i < j => f[i] < f[j]
      BY <2>1, <3>3 DEF Replayed
    <3> DEFINE g == [i \in 1..(L + 1) |-> IF i = L + 1 THEN a + 1 ELSE f[i]]
    <3> HIDE DEF F, G
    <3>6. \A i \in 1..(L + 1) : i = L + 1 \/ (i \in 1..L /\ i # L + 1)
      OBVIOUS
    <3>7. 1..L \subseteq 1..(L + 1) /\ L + 1 \in 1..(L + 1) /\ \A i \in 1..L : i # L + 1
      OBVIOUS
    <3>8. /\ DOMAIN g = 1..(L + 1) /\ g[L + 1] = a + 1 /\ \A i \in 1..L : g[i] = f[i]
          /\ g = [i \in 1..(L + 1) |-> g[i]]
      BY <3>7
    <3> HIDE DEF g
    <3>9. \A i \in 1..(L + 1) : g[i] \in G
      BY <3>2, <3>5, <3>6, <3>8
    <3>10. g \in [1..(L + 1) -> G]
      BY <3>8, <3>9
    <3>11. \A k \in G : \E i \in 1..(L + 1) : g[i] = k
      BY <3>2, <3>5, <3>7, <3>8
    <3>12. \A i \in 1..(L + 1) : l[g[i]].port = W(o)[i].port
      <4>1. ASSUME NEW i \in 1..L PROVE l[g[i]].port = W(o)[i].port
        BY <3>4, <3>5, <3>8
      <4>2. l[g[L + 1]].port = W(o)[L + 1].port
        BY <3>4, <3>8
      <4>3. QED
        BY <3>6, <4>1, <4>2
    <3>13. ASSUME NEW i \in 1..(L + 1), NEW j \in 1..(L + 1), i < j PROVE g[i] < g[j]
      <4>1. i \in 1..L
        BY <3>13
      <4>2. f[i] \in 1..a /\ g[i] = f[i]
        BY <2>3, <3>5, <3>8, <4>1 DEF F
      <4>3. CASE j = L + 1
        BY <3>8, <4>2, <4>3
      <4>4. CASE j \in 1..L
        BY <3>5, <3>8, <3>13, <4>1, <4>2, <4>4
      <4>5. QED
        BY <3>6, <4>3, <4>4
    <3>14. QED
      BY <3>4, <3>10, <3>11, <3>12, <3>13 DEF Replayed, G
  <2>6. QED
    BY <2>4, <2>5
<1>8. QED
  BY <1>6, <1>7 DEF ReplayOf, W, after

\* A log is replayed in one way.
LEMMA ReplayUnique ==
  ASSUME NEW a \in Nat, NEW l, NEW n \in Name, NEW v, NEW w, Len(v) \in Nat, Len(w) \in Nat,
         Replayed(l, v, n, a), Replayed(l, w, n, a)
  PROVE  SamePorts(v, w)
<1> DEFINE F == Firsts(l, n, a)
<1>1. PICK f \in [1..Len(v) -> F] :
        /\ \A k \in F : \E i \in 1..Len(v) : f[i] = k
        /\ \A i \in 1..Len(v) : l[f[i]].port = v[i].port
        /\ \A i, j \in 1..Len(v) : i < j => f[i] < f[j]
  BY DEF Replayed
<1>2. PICK g \in [1..Len(w) -> F] :
        /\ \A k \in F : \E i \in 1..Len(w) : g[i] = k
        /\ \A i \in 1..Len(w) : l[g[i]].port = w[i].port
        /\ \A i, j \in 1..Len(w) : i < j => g[i] < g[j]
  BY DEF Replayed
<1>3. F \subseteq Nat
  BY DEF Firsts
<1> HIDE DEF F
<1>5. PICK L \in Nat, M \in Nat : L = Len(v) /\ M = Len(w)
  OBVIOUS
<1>6. Ascending(f, L, F) /\ Ascending(g, M, F)
  BY <1>1, <1>2, <1>5 DEF Ascending
<1>7. L = M /\ Alike(f, g, L)
  BY <1>3, <1>6, Enumerations
<1>8. QED
  BY <1>1, <1>2, <1>5, <1>7 DEF Alike, SamePorts

-----------------------------------------------------------------------------
(* Silence.                                                                 *)

\* What a registration leaves silent, and what it does not.
LEMMA RegisteredMembers ==
  ASSUME NEW m, Content(m), NEW n, NEW s, <<n, s>> \in Instance
  PROVE  LET after == RegisterService(m, n, s) IN
         /\ Members(after, n, s) # {} /\ \A x \in Members(after, n, s) : x.silence = 0
         /\ \A o, p : <<o, p>> # <<n, s>> =>
              /\ \A x \in Members(m, o, p) : \E y \in Members(after, o, p) : y.silence = x.silence
              /\ \A y \in Members(after, o, p) : \E x \in Members(m, o, p) : y.silence = x.silence
<1> DEFINE after == RegisterService(m, n, s)
           V(o) == GetServiceInstances(m, o)
           W(o) == GetServiceInstances(after, o)
<1>1. /\ Content(after) /\ \A o : o # n => W(o) = V(o)
      /\ Listed(m, n, s) => Renewed(V(n), W(n), s)
      /\ ~Listed(m, n, s) => Joined(V(n), W(n), s)
  BY Registers
<1>2. /\ \A o : Len(V(o)) \in Nat /\ Len(W(o)) \in Nat
      /\ \A o, p : Listed(m, o, p) <=> \E k \in 1..Len(V(o)) : V(o)[k].port = p
  <2> HIDE DEF after
  <2>1. /\ \A o : Len(V(o)) \in Nat
        /\ \A o, p : Listed(m, o, p) <=> \E k \in 1..Len(V(o)) : V(o)[k].port = p
    BY Counted
  <2>2. \A o : Len(W(o)) \in Nat
    BY <1>1, Counted
  <2>3. QED
    BY <2>1, <2>2
<1>6. /\ \A o, p : Members(m, o, p) = {x \in Elems(V(o)) : x.port = p}
      /\ \A o, p : Members(after, o, p) = {x \in Elems(W(o)) : x.port = p}
  BY DEF Members
<1> HIDE DEF after, V, W
<1>3. /\ Members(after, n, s) # {} /\ \A x \in Members(after, n, s) : x.silence = 0
  <2>1. PICK k \in 1..Len(W(n)) : W(n)[k].port = s
    <3>1. CASE Listed(m, n, s)
      <4>1. PICK k \in 1..Len(V(n)) : V(n)[k].port = s
        BY <1>2, <3>1
      <4>2. k \in 1..Len(W(n)) /\ W(n)[k].port = s
        BY <1>1, <3>1, <4>1 DEF Renewed
      <4>3. QED
        BY <4>2
    <3>2. CASE ~Listed(m, n, s)
      <4>1. Len(W(n)) = Len(V(n)) + 1 /\ W(n)[Len(W(n))].port = s
        BY <1>1, <3>2 DEF Joined
      <4>2. Len(W(n)) \in 1..Len(W(n))
        BY <1>2, <4>1
      <4>3. QED
        BY <4>1, <4>2
    <3>3. QED
      BY <3>1, <3>2
  <2>2. W(n)[k] \in Members(after, n, s)
    BY <1>6, <2>1 DEF Elems
  <2>3. ASSUME NEW x \in Members(after, n, s) PROVE x.silence = 0
    <3>1. PICK i \in 1..Len(W(n)) : x = W(n)[i] /\ x.port = s
      BY <1>6 DEF Elems
    <3>2. CASE Listed(m, n, s)
      BY <1>1, <3>1, <3>2 DEF Renewed
    <3>3. CASE ~Listed(m, n, s)
      <4>1. /\ Len(W(n)) = Len(V(n)) + 1 /\ W(n)[Len(W(n))].silence = 0
            /\ \A j \in 1..Len(V(n)) : W(n)[j] = V(n)[j]
        BY <1>1, <3>3 DEF Joined
      <4>2. i \in 1..Len(V(n)) \/ i = Len(W(n))
        BY <1>2, <4>1
      <4>3. i \notin 1..Len(V(n))
        BY <1>2, <3>1, <3>3, <4>1
      <4>4. QED
        BY <3>1, <4>1, <4>2, <4>3
    <3>4. QED
      BY <3>2, <3>3
  <2>4. QED
    BY <2>2, <2>3
<1>4. ASSUME NEW o, NEW p, <<o, p>> # <<n, s>>
      PROVE  /\ \A x \in Members(m, o, p) : \E y \in Members(after, o, p) : y.silence = x.silence
             /\ \A y \in Members(after, o, p) : \E x \in Members(m, o, p) : y.silence = x.silence
  <2>1. CASE o # n
    <3>3. W(o) = V(o)
      BY <1>1, <2>1
    <3>4. /\ Members(m, o, p) = {x \in Elems(V(o)) : x.port = p}
          /\ Members(after, o, p) = {x \in Elems(W(o)) : x.port = p}
      BY <1>6
    <3>1. Members(after, o, p) = Members(m, o, p)
      BY <3>3, <3>4
    <3>2. QED
      BY <3>1
  <2>2. CASE o = n
    <3>1. p # s
      BY <1>4, <2>2
    <3>2. \A k \in 1..Len(V(n)) : V(n)[k].port = p =>
            k \in 1..Len(W(n)) /\ W(n)[k].port = p /\ W(n)[k].silence = V(n)[k].silence
      <4>1. CASE Listed(m, n, s)
        BY <1>1, <3>1, <4>1 DEF Renewed
      <4>2. CASE ~Listed(m, n, s)
        <5>1. Len(W(n)) = Len(V(n)) + 1 /\ \A k \in 1..Len(V(n)) : W(n)[k] = V(n)[k]
          BY <1>1, <4>2 DEF Joined
        <5>2. \A k \in 1..Len(V(n)) : k \in 1..Len(W(n))
          BY <1>2, <5>1
        <5>3. QED
          BY <5>1, <5>2
      <4>3. QED
        BY <4>1, <4>2
    <3>3. \A k \in 1..Len(W(n)) : W(n)[k].port = p =>
            k \in 1..Len(V(n)) /\ V(n)[k].port = p /\ W(n)[k].silence = V(n)[k].silence
      <4>1. CASE Listed(m, n, s)
        BY <1>1, <3>1, <4>1 DEF Renewed
      <4>2. CASE ~Listed(m, n, s)
        <5>1. /\ Len(W(n)) = Len(V(n)) + 1 /\ \A k \in 1..Len(V(n)) : W(n)[k] = V(n)[k]
              /\ W(n)[Len(W(n))].port = s
          BY <1>1, <4>2 DEF Joined
        <5>2. \A k \in 1..Len(W(n)) : k \in 1..Len(V(n)) \/ k = Len(W(n))
          BY <1>2, <5>1
        <5>3. QED
          BY <3>1, <5>1, <5>2
      <4>3. QED
        BY <4>1, <4>2
    <3>4. ASSUME NEW x \in Members(m, o, p) PROVE \E y \in Members(after, o, p) : y.silence = x.silence
      <4>1. PICK k \in 1..Len(V(n)) : x = V(n)[k] /\ x.port = p
        BY <1>6, <2>2 DEF Elems
      <4>2. k \in 1..Len(W(n)) /\ W(n)[k].port = p /\ W(n)[k].silence = x.silence
        BY <3>2, <4>1
      <4>3. W(n)[k] \in Members(after, o, p)
        BY <1>6, <2>2, <4>2 DEF Elems
      <4>4. QED
        BY <4>2, <4>3
    <3>5. ASSUME NEW y \in Members(after, o, p) PROVE \E x \in Members(m, o, p) : y.silence = x.silence
      <4>1. PICK k \in 1..Len(W(n)) : y = W(n)[k] /\ y.port = p
        BY <1>6, <2>2 DEF Elems
      <4>2. k \in 1..Len(V(n)) /\ V(n)[k].port = p /\ V(n)[k].silence = y.silence
        BY <3>3, <4>1
      <4>3. V(n)[k] \in Members(m, o, p)
        BY <1>6, <2>2, <4>2 DEF Elems
      <4>4. QED
        BY <4>2, <4>3
    <3>6. QED
      BY <3>4, <3>5
  <2>3. QED
    BY <2>1, <2>2
<1>5. QED
  BY <1>3, <1>4 DEF after

\* What is left after a clean-up.
LEMMA CleanedMembers ==
  ASSUME NEW m, Content(m), NEW n, NEW s
  PROVE  Members(RemoveExpiredServices(m), n, s) = {x \in Members(m, n, s) : ~(x.silence > Timeout)}
<1>1. PICK v, w : v = GetServiceInstances(m, n) /\ w = GetServiceInstances(RemoveExpiredServices(m), n)
  OBVIOUS
<1>2. Elems(w) = {x \in Elems(v) : ~(x.silence > Timeout)}
  BY <1>1, Cleans DEF Expired
<1>3. Members(m, n, s) = {x \in Elems(v) : x.port = s}
  BY <1>1 DEF Members
<1>4. Members(RemoveExpiredServices(m), n, s) = {x \in Elems(w) : x.port = s}
  BY <1>1 DEF Members
<1>5. QED
  BY <1>2, <1>3, <1>4

\* What a tick makes of it.
LEMMA AgedMembers ==
  ASSUME NEW m, Content(m), NEW n, NEW s
  PROVE  /\ \A x \in Members(m, n, s) : \E y \in Members(Aged(m), n, s) : y.silence = UpTo(Timeout + 1, x.silence)
         /\ \A y \in Members(Aged(m), n, s) : \E x \in Members(m, n, s) : y.silence = UpTo(Timeout + 1, x.silence)
<1>1. PICK v, w : v = GetServiceInstances(m, n) /\ w = GetServiceInstances(Aged(m), n)
  OBVIOUS
<1>2. /\ Len(w) = Len(v)
      /\ \A k \in 1..Len(v) : w[k].port = v[k].port /\ w[k].silence = UpTo(Timeout + 1, v[k].silence)
  BY <1>1, Ages
<1>3. Members(m, n, s) = {x \in Elems(v) : x.port = s}
  BY <1>1 DEF Members
<1>4. Members(Aged(m), n, s) = {x \in Elems(w) : x.port = s}
  BY <1>1 DEF Members
<1>5. ASSUME NEW x \in Members(m, n, s)
      PROVE  \E y \in Members(Aged(m), n, s) : y.silence = UpTo(Timeout + 1, x.silence)
  <2>1. PICK k \in 1..Len(v) : x = v[k] /\ x.port = s
    BY <1>3 DEF Elems
  <2>2. w[k] \in Members(Aged(m), n, s) /\ w[k].silence = UpTo(Timeout + 1, x.silence)
    BY <1>2, <1>4, <2>1 DEF Elems
  <2>3. QED
    BY <2>2
<1>6. ASSUME NEW y \in Members(Aged(m), n, s)
      PROVE  \E x \in Members(m, n, s) : y.silence = UpTo(Timeout + 1, x.silence)
  <2>1. PICK k \in 1..Len(v) : y = w[k] /\ y.port = s
    BY <1>2, <1>4 DEF Elems
  <2>2. v[k] \in Members(m, n, s) /\ y.silence = UpTo(Timeout + 1, v[k].silence)
    BY <1>2, <1>3, <2>1 DEF Elems
  <2>3. QED
    BY <2>2
<1>7. QED
  BY <1>5, <1>6

\* Silence is a number of ticks.
LEMMA Silent ==
  ASSUME NEW m, Content(m), NEW n, NEW s, NEW x \in Members(m, n, s)
  PROVE  x.silence \in Nat /\ x.silence <= Timeout + 1
<1>1. PICK v : v = GetServiceInstances(m, n)
  OBVIOUS
<1>2. /\ \A k \in 1..Len(v) : v[k] \in InstanceInfo
      /\ Members(m, n, s) = {y \in Elems(v) : y.port = s}
  BY <1>1, Vectors
<1>3. x \in InstanceInfo
  BY <1>2 DEF Elems
<1>4. QED
  BY <1>3, Numbers DEF InstanceInfo

\* An entry is applied: its instance has been silent for no time at all.
LEMMA VouchStep ==
  ASSUME NEW a \in Nat, NEW l, NEW t, \A k \in 1..(a + 1) : t[k] \in Nat,
         NEW m, Content(m), VouchedBy(l, t, m, a),
         NEW n, NEW s, n = l[a + 1].name, s = l[a + 1].port, <<n, s>> \in Instance
  PROVE  VouchedBy(l, t, RegisterService(m, n, s), a + 1)
<1> DEFINE after == RegisterService(m, n, s)
<1>1. /\ Members(after, n, s) # {} /\ \A x \in Members(after, n, s) : x.silence = 0
      /\ \A o, p : <<o, p>> # <<n, s>> =>
           \A x \in Members(m, o, p) : \E y \in Members(after, o, p) : y.silence = x.silence
  BY RegisteredMembers
<1> HIDE DEF after
<1>2. ASSUME NEW k \in 1..(a + 1), t[k] <= Timeout
      PROVE  \E x \in Members(after, l[k].name, l[k].port) : x.silence <= t[k]
  <2>1. t[k] \in Nat
    OBVIOUS
  <2>2. CASE l[k].name = n /\ l[k].port = s
    <3>1. PICK x \in Members(after, n, s) : x.silence = 0
      BY <1>1
    <3>2. x.silence <= t[k]
      BY <2>1, <3>1
    <3>3. QED
      BY <2>2, <3>2
  <2>3. CASE ~(l[k].name = n /\ l[k].port = s)
    <3>1. k \in 1..a
      BY <2>3
    <3>2. PICK x \in Members(m, l[k].name, l[k].port) : x.silence <= t[k]
      BY <1>2, <3>1 DEF VouchedBy
    <3>3. <<l[k].name, l[k].port>> # <<n, s>>
      BY <2>3
    <3>4. PICK y \in Members(after, l[k].name, l[k].port) : y.silence = x.silence
      BY <1>1, <3>3
    <3>5. QED
      BY <3>2, <3>4
  <2>4. QED
    BY <2>2, <2>3
<1>3. QED
  BY <1>2 DEF VouchedBy, after

\* What is vouched for has not expired.
LEMMA VouchClean ==
  ASSUME NEW a \in Nat, NEW l, NEW t, \A k \in 1..a : t[k] \in Nat, NEW m, Content(m), VouchedBy(l, t, m, a)
  PROVE  VouchedBy(l, t, RemoveExpiredServices(m), a)
<1>1. ASSUME NEW k \in 1..a, t[k] <= Timeout
      PROVE  \E x \in Members(RemoveExpiredServices(m), l[k].name, l[k].port) : x.silence <= t[k]
  <2>1. PICK x \in Members(m, l[k].name, l[k].port) : x.silence <= t[k]
    BY <1>1 DEF VouchedBy
  <2>2. x.silence \in Nat /\ t[k] \in Nat /\ Timeout \in Nat
    BY Silent, Numbers
  <2>3. ~(x.silence > Timeout)
    BY <1>1, <2>1, <2>2
  <2>4. QED
    BY <2>1, <2>3, CleanedMembers
<1>2. QED
  BY <1>1 DEF VouchedBy

\* In a tick entries age as instances do.
LEMMA VouchTick ==
  ASSUME NEW a \in Nat, NEW l, NEW t, \A k \in 1..a : t[k] \in Nat,
         NEW u, \A k \in 1..a : u[k] = UpTo(Long, t[k]),
         NEW m, Content(m), VouchedBy(l, t, m, a)
  PROVE  VouchedBy(l, u, Aged(m), a)
<1>1. ASSUME NEW k \in 1..a, u[k] <= Timeout
      PROVE  \E y \in Members(Aged(m), l[k].name, l[k].port) : y.silence <= u[k]
  <2>1. PICK age \in Nat, after \in Nat : age = t[k] /\ after = u[k] /\ after = UpTo(Long, age)
    <3>1. t[k] \in Nat /\ UpTo(Long, t[k]) \in Nat
      BY Numbers DEF UpTo
    <3>2. QED
      BY <3>1
  <2>2. after = age + 1 /\ age + 1 <= Timeout
    BY <1>1, <2>1, Numbers DEF UpTo
  <2>3. PICK x \in Members(m, l[k].name, l[k].port) : x.silence <= age
    <3>1. t[k] <= Timeout
      BY <2>1, <2>2, Numbers
    <3>2. QED
      BY <2>1, <3>1 DEF VouchedBy
  <2>4. x.silence \in Nat
    BY Silent
  <2>5. UpTo(Timeout + 1, x.silence) <= after
    BY <2>2, <2>3, <2>4, Numbers DEF UpTo
  <2>6. PICK y \in Members(Aged(m), l[k].name, l[k].port) : y.silence = UpTo(Timeout + 1, x.silence)
    BY AgedMembers
  <2>7. QED
    BY <2>1, <2>5, <2>6
<1>2. QED
  BY <1>1 DEF VouchedBy

\* Grace is a number of ticks.
LEMMA Graces ==
  ASSUME NEW x, x.silence \in Nat, x.silence <= Timeout + 1, NEW left \in 0..CleanupPeriod
  PROVE  Grace(x, left) \in Nat /\ Grace(x, left) <= Timeout + CleanupPeriod
<1>1. PICK n \in Nat : n = x.silence
  OBVIOUS
<1>2. Grace(x, left) = IF n <= Timeout THEN n ELSE Timeout + CleanupPeriod - left
  BY <1>1 DEF Grace
<1>3. QED
  BY <1>1, <1>2, Numbers

\* A tick is one more of it.
LEMMA GraceGrows ==
  ASSUME NEW x, x.silence \in Nat, x.silence <= Timeout + 1, NEW left \in 1..CleanupPeriod,
         NEW y, y.silence = UpTo(Timeout + 1, x.silence)
  PROVE  Grace(y, left - 1) >= Grace(x, left) + 1
<1>1. PICK n \in Nat : n = x.silence
  OBVIOUS
<1>2. PICK p \in Nat : p = y.silence /\ p = IF n < Timeout + 1 THEN n + 1 ELSE Timeout + 1
  BY <1>1, Numbers DEF UpTo
<1>3. Grace(x, left) = IF n <= Timeout THEN n ELSE Timeout + CleanupPeriod - left
  BY <1>1 DEF Grace
<1>4. Grace(y, left - 1) = IF p <= Timeout THEN p ELSE Timeout + CleanupPeriod - (left - 1)
  BY <1>2 DEF Grace
<1>5. QED
  BY <1>1, <1>2, <1>3, <1>4, Numbers

\* Just after a start nothing is due.
LEMMA FadeNow ==
  ASSUME NEW l, NEW t, NEW m, Content(m), NEW left \in 0..CleanupPeriod
  PROVE  FadesBy(l, t, m, 0, left)
<1>1. ASSUME NEW i \in Instance, NEW x \in Members(m, i[1], i[2]) PROVE 0 <= Grace(x, left)
  <2>1. Grace(x, left) \in Nat
    BY Silent, Graces
  <2>2. QED
    BY <2>1
<1>2. QED
  BY <1>1 DEF FadesBy

\* The committed entries are still there, and as old.
LEMMA FadeSame ==
  ASSUME NEW l, NEW h, NEW t, NEW u, DOMAIN t \subseteq DOMAIN u,
         \A k \in DOMAIN t : h[k] = l[k] /\ u[k] = t[k],
         NEW m, NEW ticks, NEW left, FadesBy(l, t, m, ticks, left)
  PROVE  FadesBy(h, u, m, ticks, left)
<1>1. ASSUME NEW i \in Instance, NEW x \in Members(m, i[1], i[2]), ~(ticks <= Grace(x, left))
      PROVE  \E k \in DOMAIN u : Says(h[k], i[1], i[2]) /\ u[k] <= Grace(x, left)
  <2>1. PICK k \in DOMAIN t : Says(l[k], i[1], i[2]) /\ t[k] <= Grace(x, left)
    BY <1>1 DEF FadesBy
  <2>2. QED
    BY <2>1
<1>2. QED
  BY <1>1 DEF FadesBy

\* An entry that is applied by a steady replica has just been committed.
LEMMA FadeStep ==
  ASSUME NEW a \in Nat, NEW l, NEW t, a + 1 \in DOMAIN t, t[a + 1] \in Nat,
         NEW m, Content(m), NEW ticks \in Nat, ticks > 0 => t[a + 1] = 0,
         NEW left \in 0..CleanupPeriod, FadesBy(l, t, m, ticks, left),
         NEW n, NEW s, n = l[a + 1].name, s = l[a + 1].port, <<n, s>> \in Instance
  PROVE  FadesBy(l, t, RegisterService(m, n, s), ticks, left)
<1> DEFINE after == RegisterService(m, n, s)
<1>1. /\ \A x \in Members(after, n, s) : x.silence = 0
      /\ \A o, p : <<o, p>> # <<n, s>> =>
           \A y \in Members(after, o, p) : \E x \in Members(m, o, p) : y.silence = x.silence
  BY RegisteredMembers
<1> HIDE DEF after
<1>2. ASSUME NEW i \in Instance, NEW y \in Members(after, i[1], i[2]), ~(ticks <= Grace(y, left))
      PROVE  \E k \in DOMAIN t : Says(l[k], i[1], i[2]) /\ t[k] <= Grace(y, left)
  <2>1. CASE i[1] = n /\ i[2] = s
    <3>1. y.silence = 0
      BY <1>1, <2>1
    <3>2. Grace(y, left) = 0
      BY <3>1, Numbers DEF Grace
    <3>3. t[a + 1] <= 0
      BY <1>2, <3>2, Numbers
    <3>4. Says(l[a + 1], i[1], i[2])
      BY <2>1 DEF Says
    <3>5. QED
      BY <3>2, <3>3, <3>4
  <2>2. CASE ~(i[1] = n /\ i[2] = s)
    <3>1. <<i[1], i[2]>> # <<n, s>>
      BY <2>2
    <3>2. PICK x \in Members(m, i[1], i[2]) : y.silence = x.silence
      BY <1>1, <3>1
    <3>3. Grace(y, left) = Grace(x, left)
      BY <3>2 DEF Grace
    <3>4. PICK k \in DOMAIN t : Says(l[k], i[1], i[2]) /\ t[k] <= Grace(x, left)
      BY <1>2, <3>3 DEF FadesBy
    <3>5. QED
      BY <3>3, <3>4
  <2>3. QED
    BY <2>1, <2>2
<1>3. QED
  BY <1>2 DEF FadesBy, after

\* A clean-up leaves those who have a grace of their own.
LEMMA FadeClean ==
  ASSUME NEW l, NEW t, NEW m, Content(m), NEW ticks, NEW left, NEW next, FadesBy(l, t, m, ticks, left)
  PROVE  FadesBy(l, t, RemoveExpiredServices(m), ticks, next)
<1>1. ASSUME NEW i \in Instance, NEW x \in Members(RemoveExpiredServices(m), i[1], i[2]),
             ~(ticks <= Grace(x, next))
      PROVE  \E k \in DOMAIN t : Says(l[k], i[1], i[2]) /\ t[k] <= Grace(x, next)
  <2>1. x \in Members(m, i[1], i[2]) /\ ~(x.silence > Timeout)
    BY CleanedMembers
  <2>2. x.silence <= Timeout
    <3>1. x.silence \in Nat
      BY <2>1, Silent
    <3>2. QED
      BY <2>1, <3>1, Numbers
  <2>3. Grace(x, next) = Grace(x, left)
    BY <2>2 DEF Grace
  <2>4. QED
    BY <1>1, <2>1, <2>3 DEF FadesBy
<1>2. QED
  BY <1>1 DEF FadesBy

\* Grace grows with everything else.
LEMMA FadeTick ==
  ASSUME NEW l, NEW t, \A k \in DOMAIN t : t[k] \in Nat,
         NEW u, DOMAIN u = DOMAIN t,
         \A k \in DOMAIN t : u[k] \in Nat /\ u[k] <= t[k] + 1,
         NEW m, Content(m), Content(Aged(m)),
         NEW ticks \in Nat, NEW next \in Nat, next <= ticks + 1, NEW left \in 1..CleanupPeriod,
         FadesBy(l, t, m, ticks, left)
  PROVE  FadesBy(l, u, Aged(m), next, left - 1)
<1>1. ASSUME NEW i \in Instance, NEW y \in Members(Aged(m), i[1], i[2]),
             ~(next <= Grace(y, left - 1))
      PROVE  \E k \in DOMAIN u : Says(l[k], i[1], i[2]) /\ u[k] <= Grace(y, left - 1)
  <2>1. PICK x \in Members(m, i[1], i[2]) : y.silence = UpTo(Timeout + 1, x.silence)
    BY AgedMembers
  <2>2. x.silence \in Nat /\ x.silence <= Timeout + 1 /\ y.silence \in Nat /\ y.silence <= Timeout + 1
    BY Silent
  <2>3. left \in 0..CleanupPeriod /\ left - 1 \in 0..CleanupPeriod
    BY Numbers
  <2>4. PICK g \in Nat, f \in Nat : g = Grace(x, left) /\ f = Grace(y, left - 1)
    BY <2>2, <2>3, Graces
  <2>5. f >= g + 1
    BY <2>1, <2>2, <2>4, GraceGrows
  <2>6. ~(ticks <= g)
    BY <1>1, <2>4, <2>5
  <2>7. PICK k \in DOMAIN t : Says(l[k], i[1], i[2]) /\ t[k] <= g
    BY <2>4, <2>6 DEF FadesBy
  <2>8. u[k] <= f
    BY <2>5, <2>7
  <2>9. QED
    BY <2>4, <2>7, <2>8
<1>2. QED
  BY <1>1 DEF FadesBy

-----------------------------------------------------------------------------
(* Steps.                                                                   *)

\* The types of the variables, one by one.
LEMMA Typed ==
  ASSUME TypeOK
  PROVE  /\ log \in Seq(Entry) /\ Len(log) \in Nat /\ DOMAIN log = 1..Len(log)
         /\ committed \in Nat /\ committed <= Len(log) /\ DOMAIN since = 1..committed
         /\ \A k \in 1..committed : since[k] \in 0..Long /\ since[k] \in Nat /\ k \in DOMAIN log
         /\ \A r \in Replica : /\ applied[r] \in Nat /\ applied[r] <= committed
                               /\ cleaner[r] \in 0..CleanupPeriod /\ Content(services[r])
                               /\ steady[r] \in Nat /\ steady[r] <= Long
<1>1. log \in Seq(Entry) /\ committed \in 0..Len(log) /\ since \in Seq(0..Long) /\ Len(since) = committed
  BY DEF TypeOK
<1>2. Len(log) \in Nat /\ DOMAIN log = 1..Len(log)
  BY <1>1
<1>3. /\ DOMAIN since = 1..committed
      /\ \A k \in 1..committed : since[k] \in 0..Long /\ since[k] \in Nat /\ k \in DOMAIN log
  BY <1>1, <1>2, Numbers
<1>4. \A r \in Replica : /\ applied[r] \in 0..committed /\ cleaner[r] \in 0..CleanupPeriod
                         /\ Content(services[r]) /\ steady[r] \in 0..Long
  BY DEF TypeOK
<1>5. QED
  BY <1>1, <1>2, <1>3, <1>4, Numbers

\* What has been applied has been applied, whatever is proposed, lost or
\* committed.
LEMMA Carried ==
  ASSUME TypeOK, NEW r \in Replica, applied'[r] = applied[r], services'[r] = services[r],
         \A k \in 1..committed : log'[k] = log[k] /\ since'[k] = since[k]
  PROVE  /\ ReplayOf(log, services[r], applied[r]) => ReplayOf(log', services'[r], applied'[r])
         /\ VouchedBy(log, since, services[r], applied[r])
              => VouchedBy(log', since', services'[r], applied'[r])
<1>1. PICK a \in Nat : a = applied[r] /\ \A k \in 1..a : log'[k] = log[k] /\ since'[k] = since[k]
  <2>1. applied[r] \in Nat /\ applied[r] <= committed /\ committed \in Nat
    BY Typed
  <2>2. \A k \in 1..applied[r] : k \in 1..committed
    BY <2>1
  <2>3. QED
    BY <2>1, <2>2
<1>2. PICK m : m = services[r] /\ Content(m)
  BY Typed
<1>3. ReplayOf(log, m, a) => ReplayOf(log', m, a)
  BY <1>1, <1>2, ReplaySame DEF SamePorts
<1>4. VouchedBy(log, since, m, a) => VouchedBy(log', since', m, a)
  BY <1>1 DEF VouchedBy
<1>5. QED
  BY <1>1, <1>2, <1>3, <1>4

\* Of all replicas.
LEMMA AllCarried ==
  ASSUME TypeOK, Replays, Vouches, applied' = applied, services' = services, lapsed' = lapsed,
         \A k \in 1..committed : log'[k] = log[k] /\ since'[k] = since[k]
  PROVE  Replays' /\ Vouches'
<1>1. ASSUME NEW r \in Replica, ~lapsed'[r] PROVE ReplayOf(log', services'[r], applied'[r])
  BY <1>1, Carried DEF Replays
<1>2. ASSUME NEW r \in Replica PROVE VouchedBy(log', since', services'[r], applied'[r])
  BY Carried DEF Vouches
<1>3. QED
  BY <1>1, <1>2 DEF Replays, Vouches

\* What a replica has left to forget, it has left to forget.
LEMMA FadeCarried ==
  ASSUME TypeOK, NEW r \in Replica, FadesBy(log, since, services[r], steady[r], cleaner[r]),
         services'[r] = services[r], steady'[r] = steady[r], cleaner'[r] = cleaner[r],
         DOMAIN since \subseteq DOMAIN since',
         \A k \in 1..committed : log'[k] = log[k] /\ since'[k] = since[k]
  PROVE  FadesBy(log', since', services'[r], steady'[r], cleaner'[r])
<1>1. \A k \in DOMAIN since : log'[k] = log[k] /\ since'[k] = since[k]
  BY Typed
<1>2. FadesBy(log', since', services[r], steady[r], cleaner[r])
  BY <1>1, FadeSame
<1>3. QED
  BY <1>2

\* Of all replicas.
LEMMA AllFadeCarried ==
  ASSUME TypeOK, Fades, services' = services, steady' = steady, cleaner' = cleaner, up' = up,
         DOMAIN since \subseteq DOMAIN since',
         \A k \in 1..committed : log'[k] = log[k] /\ since'[k] = since[k]
  PROVE  Fades'
<1>1. ASSUME NEW r \in Replica, up'[r] PROVE FadesBy(log', since', services'[r], steady'[r], cleaner'[r])
  BY <1>1, FadeCarried DEF Fades
<1>2. QED
  BY <1>1 DEF Fades

\* Just after a start, nothing is promised about time.
LEMMA FadeStarts ==
  ASSUME TypeOK', NEW r \in Replica, steady'[r] = 0
  PROVE  FadesBy(log', since', services'[r], steady'[r], cleaner'[r])
<1>1. Content(services'[r]) /\ cleaner'[r] \in 0..CleanupPeriod
  BY DEF TypeOK
<1>2. FadesBy(log', since', services'[r], 0, cleaner'[r])
  BY <1>1, FadeNow
<1>3. QED
  BY <1>2

\* At first there is nothing.
LEMMA Starts == Init => IInv
<1> SUFFICES ASSUME Init PROVE IInv
  OBVIOUS
<1>1. /\ leader \in Replica /\ log = << >> /\ committed = 0 /\ since = << >>
      /\ \A r \in Replica : /\ services[r] = << >> /\ applied[r] = 0 /\ cleaner[r] = CleanupPeriod
                            /\ steady[r] = 0
  BY DEF Init, Empty
<1>2. DOMAIN log = {} /\ DOMAIN since = {} /\ Len(log) = 0
  BY <1>1
<1>3. TypeOK
  <2>1. << >> \in Seq(Entry) /\ since \in Seq(0..Long) /\ Len(since) = 0
    BY <1>1
  <2>2. 0 \in 0..MaxFaults /\ CleanupPeriod \in 0..CleanupPeriod /\ 0 \in 0..Long /\ 0 \in 0..0
    BY Numbers
  <2>3. \A r \in Replica : Content(services[r])
    BY <1>1, NothingListed
  <2>4. QED
    BY <1>1, <1>2, <2>1, <2>2, <2>3 DEF Init, TypeOK
<1>4. Registrations
  BY <1>2 DEF Registrations
<1>5. Replays /\ Vouches
  BY <1>1, ReplayNothing DEF Replays, Vouches
<1>6. Abreast
  <2>1. ASSUME NEW r \in Replica PROVE ~(steady[r] > 0)
    BY <1>1
  <2>2. QED
    BY <2>1 DEF Abreast
<1>7. Fades
  <2>1. ASSUME NEW r \in Replica PROVE FadesBy(log, since, services[r], steady[r], cleaner[r])
    <3>1. Content(services[r]) /\ cleaner[r] \in 0..CleanupPeriod
      BY <1>3 DEF TypeOK
    <3>2. FadesBy(log, since, services[r], 0, cleaner[r])
      BY <3>1, FadeNow
    <3>3. QED
      BY <1>1, <3>2
  <2>2. QED
    BY <2>1 DEF Fades
<1>8. QED
  BY <1>3, <1>4, <1>5, <1>6, <1>7 DEF IInv

\* An entry is committed.
LEMMA CommitStep ==
  ASSUME IInv, Commit
  PROVE  IInv'
<1>1. TypeOK /\ Registrations /\ Replays /\ Vouches /\ Abreast /\ Fades
  BY DEF IInv
<1>2. /\ UNCHANGED <<leader, log, linked, up, applied, services, cleaner, home, faults, steady, lapsed>>
      /\ committed' = committed + 1 /\ committed < Len(log) /\ since' = Append(since, 0)
  BY DEF Commit, CommitNext, replicaVars
<1>3. PICK c \in Nat : c = committed /\ since \in Seq(0..Long) /\ Len(since) = c /\ DOMAIN since = 1..c
  BY <1>1, Typed DEF TypeOK
<1>4. /\ since' \in Seq(0..Long) /\ Len(since') = c + 1 /\ DOMAIN since' = 1..(c + 1)
      /\ since'[c + 1] = 0 /\ \A k \in 1..c : since'[k] = since[k]
  <2>1. 0 \in 0..Long
    BY Numbers
  <2>2. QED
    BY <1>2, <1>3, <2>1
<1>5. \A k \in 1..(c + 1) : k \in 1..c \/ k = c + 1
  OBVIOUS
<1>6. TypeOK'
  <2>1. committed' \in 0..Len(log) /\ 0..committed \subseteq 0..committed'
    BY <1>1, <1>2, <1>3, Typed
  <2>2. applied \in [Replica -> 0..committed']
    BY <1>1, <2>1 DEF TypeOK
  <2>3. since' \in Seq(0..Long) /\ Len(since') = committed'
    BY <1>2, <1>3, <1>4
  <2>4. QED
    BY <1>1, <1>2, <2>1, <2>2, <2>3 DEF TypeOK
<1>7. Registrations'
  BY <1>1, <1>2 DEF Registrations
<1>8. Replays' /\ Vouches'
  BY <1>1, <1>2, <1>3, <1>4, AllCarried
<1>9. Abreast'
  <2>1. ASSUME NEW a, Heard(since, a) PROVE Heard(since', a)
    <3>1. ASSUME NEW k \in 1..(c + 1), since'[k] > 0 PROVE k <= a
      <4>1. k # c + 1
        BY <1>4, <3>1
      <4>2. k \in 1..c /\ since[k] > 0
        BY <1>4, <1>5, <3>1, <4>1
      <4>3. QED
        BY <1>3, <2>1, <4>2 DEF Heard
    <3>2. QED
      BY <1>4, <3>1 DEF Heard
  <2>2. QED
    BY <1>1, <1>2, <2>1 DEF Abreast, Hears
<1>10. Fades'
  <2>1. DOMAIN since \subseteq DOMAIN since'
    BY <1>3, <1>4
  <2>2. QED
    BY <1>1, <1>2, <1>3, <1>4, <2>1, AllFadeCarried
<1>11. QED
  BY <1>6, <1>7, <1>8, <1>9, <1>10 DEF IInv

\* A registration or a heartbeat is one more entry, if the replica leads.
LEMMA Requested ==
  ASSUME TypeOK, NEW i \in Instance,
         HandleClientConnection(home, Serialize(ServiceRegisterRequest, <<i[1], Host, i[2]>>))
  PROVE  /\ log' \in Seq(Entry) /\ Len(log') \in Nat /\ Len(log') >= Len(log)
         /\ \A k \in DOMAIN log : log'[k] = log[k]
         /\ \A k \in DOMAIN log' : k \notin DOMAIN log =>
              log'[k].type = "register" /\ log'[k].name = i[1] /\ log'[k].port = i[2]
<1> DEFINE e == [type |-> "register", name |-> i[1], port |-> i[2]]
           b == Serialize(ServiceRegisterRequest, <<i[1], Host, i[2]>>)
<1>1. log' = IF up[home] THEN Handled(home, b).log ELSE log
  BY DEF HandleClientConnection
<1>2. Handled(home, b).log = IF leader = home THEN Append(log, e) ELSE log
  BY HandledInstance
<1> HIDE DEF b
<1>3. log' = Append(log, e) \/ log' = log
  BY <1>1, <1>2
<1>4. e \in Entry /\ e.type = "register" /\ e.name = i[1] /\ e.port = i[2]
  <2>1. i[1] \in Name /\ i[2] \in Nat
    BY Instanced
  <2>2. QED
    BY <2>1 DEF Entry
<1> HIDE DEF e
<1>5. PICK n \in Nat : n = Len(log) /\ DOMAIN log = 1..n /\ log \in Seq(Entry)
  BY Typed
<1>6. CASE log' = Append(log, e)
  <2>1. /\ log' \in Seq(Entry) /\ Len(log') = n + 1 /\ DOMAIN log' = 1..(n + 1)
        /\ log'[n + 1] = e /\ \A k \in 1..n : log'[k] = log[k]
    BY <1>4, <1>5, <1>6
  <2>2. \A k \in 1..(n + 1) : k \notin 1..n => k = n + 1
    OBVIOUS
  <2>3. QED
    BY <1>4, <1>5, <2>1, <2>2
<1>7. CASE log' = log
  BY <1>5, <1>7
<1>8. QED
  BY <1>3, <1>6, <1>7

\* A server is heard of.
LEMMA RequestStep ==
  ASSUME IInv, NEW i \in Instance, RegisterSingleService(i) \/ SendHeartbeat(i)
  PROVE  IInv'
<1>1. TypeOK /\ Registrations /\ Replays /\ Vouches /\ Abreast /\ Fades
  BY DEF IInv
<1>2. HandleClientConnection(home, Serialize(ServiceRegisterRequest, <<i[1], Host, i[2]>>))
  BY HandledInstance DEF RegisterSingleService, SendHeartbeat
<1>3. UNCHANGED <<leader, committed, linked, up, applied, services, cleaner, home, faults, since, steady, lapsed>>
  BY <1>2 DEF HandleClientConnection, replicaVars, history
<1>4. /\ log' \in Seq(Entry) /\ Len(log') \in Nat /\ Len(log') >= Len(log)
      /\ \A k \in DOMAIN log : log'[k] = log[k]
      /\ \A k \in DOMAIN log' : k \notin DOMAIN log =>
           log'[k].type = "register" /\ log'[k].name = i[1] /\ log'[k].port = i[2]
  BY <1>1, <1>2, Requested
<1>5. \A k \in 1..committed : log'[k] = log[k] /\ since'[k] = since[k]
  BY <1>1, <1>3, <1>4, Typed
<1>6. TypeOK'
  <2>1. committed' \in 0..Len(log')
    BY <1>1, <1>3, <1>4, Typed
  <2>2. QED
    BY <1>1, <1>3, <1>4, <2>1 DEF TypeOK
<1>7. Registrations'
  <2>1. i = <<i[1], i[2]>>
    BY Instanced
  <2>2. QED
    BY <1>1, <1>4, <2>1 DEF Registrations
<1>8. Replays' /\ Vouches' /\ Fades'
  BY <1>1, <1>3, <1>5, AllCarried, AllFadeCarried
<1>9. Abreast'
  BY <1>1, <1>3 DEF Abreast, Hears
<1>10. QED
  BY <1>6, <1>7, <1>8, <1>9 DEF IInv

\* A replica applies an entry, which is a registration.
LEMMA ApplyStep ==
  ASSUME IInv, NEW r \in Replica, ApplyLogEntry(r)
  PROVE  IInv'
<1>1. TypeOK /\ Registrations /\ Replays /\ Vouches /\ Abreast /\ Fades
  BY DEF IInv
<1>0. PICK a \in Nat : a = applied[r]
  BY <1>1, Typed
<1>2. PICK m : m = services[r] /\ Content(m)
  BY <1>1, Typed
<1>3. PICK n, s : n = log[a + 1].name /\ s = log[a + 1].port
  OBVIOUS
<1>4. /\ UNCHANGED <<leader, log, committed, linked, up, cleaner, home, faults, since, steady, lapsed>>
      /\ applied' = [applied EXCEPT ![r] = a + 1]
      /\ services' = [services EXCEPT ![r] = ApplyServiceOperation(m, log[a + 1])]
      /\ Hears(r) /\ a < committed
  BY <1>0, <1>2 DEF ApplyLogEntry, raftVars, history
<1>5. /\ a + 1 \in 1..committed /\ a + 1 \in DOMAIN log /\ a + 1 \in DOMAIN since
      /\ \A k \in 1..(a + 1) : k \in 1..committed
  BY <1>1, <1>4, Typed
<1>6. log[a + 1].type = "register" /\ <<n, s>> \in Instance
  BY <1>1, <1>3, <1>5 DEF Registrations
<1> DEFINE after == RegisterService(m, n, s)
<1>7. services' = [services EXCEPT ![r] = after]
  BY <1>3, <1>4, <1>6 DEF ApplyServiceOperation
<1>8. Content(after)
  BY <1>0, <1>2, <1>6, Registers
<1> HIDE DEF after
<1>9. /\ \A q \in Replica : q # r => applied'[q] = applied[q] /\ services'[q] = services[q]
      /\ applied'[r] = a + 1 /\ services'[r] = after /\ DOMAIN services' = Replica
  BY <1>1, <1>4, <1>7 DEF TypeOK
<1>10. \A k \in 1..(a + 1) : since[k] \in Nat
  BY <1>1, <1>5, Typed
<1>11. TypeOK'
  <2>1. applied' \in [Replica -> 0..committed]
    <3>1. a + 1 \in 0..committed
      BY <1>1, <1>4, Typed
    <3>2. QED
      BY <1>1, <1>4, <3>1 DEF TypeOK
  <2>2. \A q \in Replica : Content(services'[q])
    BY <1>1, <1>8, <1>9, Typed
  <2>3. QED
    BY <1>1, <1>4, <1>9, <2>1, <2>2 DEF TypeOK
<1>12. Registrations'
  BY <1>1, <1>4 DEF Registrations
<1>13. Replays'
  <2>1. ~lapsed[r] => ReplayOf(log, after, a + 1)
    BY <1>1, <1>0, <1>2, <1>3, <1>6, ReplayStep DEF Replays, after
  <2>2. ASSUME NEW q \in Replica, ~lapsed'[q] PROVE ReplayOf(log', services'[q], applied'[q])
    BY <1>1, <1>4, <1>9, <2>1, <2>2 DEF Replays
  <2>3. QED
    BY <2>2 DEF Replays
<1>14. Vouches'
  <2>1. VouchedBy(log, since, m, a)
    BY <1>1, <1>0, <1>2 DEF Vouches
  <2>2. VouchedBy(log, since, after, a + 1)
    BY <1>0, <1>2, <1>3, <1>6, <1>10, <2>1, VouchStep DEF after
  <2>3. ASSUME NEW q \in Replica PROVE VouchedBy(log', since', services'[q], applied'[q])
    BY <1>1, <1>4, <1>9, <2>2 DEF Vouches
  <2>4. QED
    BY <2>3 DEF Vouches
<1>15. Abreast'
  <2>1. Heard(since, a) => Heard(since, a + 1)
    <3>1. \A k \in DOMAIN since : k \in Nat
      BY <1>1, Typed
    <3>2. QED
      BY <3>1 DEF Heard
  <2>2. ASSUME NEW q \in Replica, Heard(since, applied[q]) PROVE Heard(since', applied'[q])
    BY <1>0, <1>4, <1>9, <2>1, <2>2
  <2>3. \A q \in Replica : Hears(q)' = Hears(q)
    BY <1>4 DEF Hears
  <2>4. QED
    BY <1>1, <1>4, <2>2, <2>3 DEF Abreast
<1>16. Fades'
  <2>1. FadesBy(log, since, m, steady[r], cleaner[r])
    BY <1>1, <1>2, <1>4 DEF Fades, Hears
  <2>2. steady[r] > 0 => since[a + 1] = 0
    <3>1. SUFFICES ASSUME steady[r] > 0, since[a + 1] > 0 PROVE FALSE
      BY <1>10
    <3>2. Heard(since, a)
      BY <1>1, <1>0, <1>4, <3>1 DEF Abreast
    <3>3. a + 1 <= a
      BY <1>5, <3>1, <3>2 DEF Heard
    <3>4. QED
      BY <3>3
  <2>3. FadesBy(log, since, after, steady[r], cleaner[r])
    <3>1. steady[r] \in Nat /\ cleaner[r] \in 0..CleanupPeriod /\ since[a + 1] \in Nat
      BY <1>1, <1>10, Typed
    <3>2. QED
      BY <1>2, <1>3, <1>5, <1>6, <2>1, <2>2, <3>1, FadeStep DEF after
  <2>4. ASSUME NEW q \in Replica, up'[q]
        PROVE  FadesBy(log', since', services'[q], steady'[q], cleaner'[q])
    BY <1>1, <1>4, <1>9, <2>3, <2>4 DEF Fades
  <2>5. QED
    BY <2>4 DEF Fades
<1>17. QED
  BY <1>11, <1>12, <1>13, <1>14, <1>15, <1>16 DEF IInv

\* A replica removes what has expired.
LEMMA CleanupStep ==
  ASSUME IInv, NEW r \in Replica, CleanupLoop(r)
  PROVE  IInv'
<1>1. TypeOK /\ Registrations /\ Replays /\ Vouches /\ Abreast /\ Fades
  BY DEF IInv
<1>2. PICK m, after : m = services[r] /\ after = RemoveExpiredServices(m) /\ Content(m)
  BY <1>1, Typed
<1>3. /\ UNCHANGED <<leader, log, committed, linked, up, applied, home, faults, since, steady>>
      /\ services' = [services EXCEPT ![r] = after] /\ cleaner' = [cleaner EXCEPT ![r] = CleanupPeriod]
      /\ lapsed' = [lapsed EXCEPT ![r] = @ \/ services'[r] # m]
      /\ up[r]
  BY <1>2 DEF CleanupLoop, raftVars
<1>4. Content(after)
  BY <1>2, Cleans
<1>5. /\ \A q \in Replica : q # r => services'[q] = services[q] /\ cleaner'[q] = cleaner[q] /\ lapsed'[q] = lapsed[q]
      /\ services'[r] = after /\ DOMAIN services' = Replica
  BY <1>1, <1>3 DEF TypeOK
<1>6. lapsed' \in [Replica -> BOOLEAN] /\ (~lapsed'[r] => ~lapsed[r] /\ after = m)
  BY <1>1, <1>3, <1>5 DEF TypeOK
<1>7. TypeOK'
  <2>1. cleaner' \in [Replica -> 0..CleanupPeriod]
    <3>1. CleanupPeriod \in 0..CleanupPeriod
      BY Numbers
    <3>2. QED
      BY <1>1, <1>3, <3>1 DEF TypeOK
  <2>2. \A q \in Replica : Content(services'[q])
    BY <1>1, <1>4, <1>5, Typed
  <2>3. QED
    BY <1>1, <1>3, <1>5, <1>6, <2>1, <2>2 DEF TypeOK
<1>8. Registrations' /\ Abreast'
  BY <1>1, <1>3 DEF Registrations, Abreast, Hears
<1>9. Replays'
  <2>1. ASSUME NEW q \in Replica, ~lapsed'[q] PROVE ReplayOf(log', services'[q], applied'[q])
    <3>1. services'[q] = services[q] /\ ~lapsed[q]
      BY <1>2, <1>5, <1>6, <2>1
    <3>2. QED
      BY <1>1, <1>3, <3>1 DEF Replays
  <2>2. QED
    BY <2>1 DEF Replays
<1>10. Vouches'
  <2>1. applied[r] \in Nat /\ \A k \in 1..applied[r] : since[k] \in Nat
    <3>1. applied[r] \in Nat /\ \A k \in 1..applied[r] : k \in 1..committed
      BY <1>1, Typed
    <3>2. QED
      BY <1>1, <3>1, Typed
  <2>2. VouchedBy(log, since, m, applied[r])
    BY <1>1, <1>2 DEF Vouches
  <2>3. VouchedBy(log, since, after, applied[r])
    BY <1>2, <2>1, <2>2, VouchClean
  <2>4. ASSUME NEW q \in Replica PROVE VouchedBy(log', since', services'[q], applied'[q])
    BY <1>1, <1>3, <1>5, <2>3 DEF Vouches
  <2>5. QED
    BY <2>4 DEF Vouches
<1>11. Fades'
  <2>1. FadesBy(log, since, m, steady[r], cleaner[r])
    BY <1>1, <1>2, <1>3 DEF Fades
  <2>2. FadesBy(log, since, after, steady[r], cleaner'[r])
    BY <1>2, <2>1, FadeClean
  <2>3. ASSUME NEW q \in Replica, up'[q]
        PROVE  FadesBy(log', since', services'[q], steady'[q], cleaner'[q])
    BY <1>1, <1>3, <1>5, <2>2, <2>3 DEF Fades
  <2>4. QED
    BY <2>3 DEF Fades
<1>12. QED
  BY <1>7, <1>8, <1>9, <1>10, <1>11 DEF IInv

\* A replica becomes the leader, with what is committed.
LEMMA LeadStep ==
  ASSUME IInv, NEW r \in Replica, Lead(r)
  PROVE  IInv'
<1>1. TypeOK /\ Registrations /\ Replays /\ Vouches /\ Abreast /\ Fades
  BY DEF IInv
<1>2. /\ UNCHANGED <<committed, linked, up, applied, services, cleaner, home, since, lapsed>>
      /\ leader' = r
      /\ leader = None \/ faults < MaxFaults
      /\ faults' = IF leader = None THEN faults ELSE faults + 1
      /\ steady' = IF leader = None THEN [q \in Replica |-> 0] ELSE steady
  BY DEF Lead, Elect, replicaVars
<1>3. PICK k \in committed..Len(log) : log' = SubSeq(log, 1, k)
  BY DEF Lead, Elect
<1>4. /\ log' \in Seq(Entry) /\ Len(log') = k /\ DOMAIN log' = 1..k /\ k \in Nat /\ committed \in 0..k
      /\ \A j \in 1..k : log'[j] = log[j] /\ j \in DOMAIN log
  <2>1. /\ log \in Seq(Entry) /\ Len(log) \in Nat /\ DOMAIN log = 1..Len(log) /\ committed \in Nat
    BY <1>1, Typed
  <2>2. k \in 0..Len(log)
    BY <2>1
  <2>3. QED
    BY <1>3, <2>1, <2>2
<1>5. TypeOK'
  <2>1. faults' \in 0..MaxFaults
    BY <1>1, <1>2, Numbers DEF TypeOK
  <2>2. steady' \in [Replica -> 0..Long]
    <3>1. 0 \in 0..Long
      BY Numbers
    <3>2. QED
      BY <1>1, <1>2, <3>1 DEF TypeOK
  <2>3. leader' \in Replica \union {None} /\ committed' \in 0..Len(log')
    BY <1>2, <1>4
  <2>4. QED
    BY <1>1, <1>2, <1>4, <2>1, <2>2, <2>3 DEF TypeOK
<1>6. Registrations'
  BY <1>1, <1>4 DEF Registrations
<1>7. \A j \in 1..committed : log'[j] = log[j] /\ since'[j] = since[j]
  BY <1>2, <1>4
<1>8. Replays' /\ Vouches'
  BY <1>1, <1>2, <1>7, AllCarried
<1>9. CASE leader = None
  <2>1. \A q \in Replica : steady'[q] = 0
    BY <1>2, <1>9
  <2>2. Abreast'
    <3>1. \A q \in Replica : ~(steady'[q] > 0)
      BY <2>1
    <3>2. QED
      BY <3>1 DEF Abreast
  <2>3. Fades'
    BY <1>5, <2>1, FadeStarts DEF Fades
  <2>4. QED
    BY <1>5, <1>6, <1>8, <2>2, <2>3 DEF IInv
<1>10. CASE leader # None
  <2>1. steady' = steady
    BY <1>2, <1>10
  <2>2. Abreast'
    BY <1>1, <1>2, <1>10, <2>1 DEF Abreast, Hears
  <2>3. Fades'
    BY <1>1, <1>2, <1>7, <2>1, AllFadeCarried
  <2>4. QED
    BY <1>5, <1>6, <1>8, <2>2, <2>3 DEF IInv
<1>11. QED
  BY <1>9, <1>10

\* A replica no longer hears from the leader, or does again, or starts.
LEMMA LinkStep ==
  ASSUME IInv, NEW r \in Replica, Unlink(r) \/ Link(r) \/ StartReplica(r)
  PROVE  IInv'
<1>1. TypeOK /\ Registrations /\ Replays /\ Vouches /\ Abreast /\ Fades
  BY DEF IInv
<1>2. UNCHANGED <<leader, log, committed, applied, services, cleaner, home, since, lapsed>>
  BY DEF Unlink, Link, StartReplica, raftVars, history
<1>3. \/ linked' = [linked EXCEPT ![r] = FALSE] /\ up' = up /\ steady' = steady
      \/ linked' = [linked EXCEPT ![r] = TRUE] /\ up' = up /\ steady' = [steady EXCEPT ![r] = 0]
      \/ up' = [up EXCEPT ![r] = TRUE] /\ linked' = linked /\ steady' = [steady EXCEPT ![r] = 0]
  BY DEF Unlink, Link, StartReplica, history
<1>4. /\ up \in [Replica -> BOOLEAN] /\ linked \in [Replica -> BOOLEAN] /\ steady \in [Replica -> 0..Long]
      /\ faults \in 0..MaxFaults
  BY <1>1 DEF TypeOK
<1>5. TypeOK'
  <2>1. faults' \in 0..MaxFaults
    <3>1. faults' = faults \/ (faults < MaxFaults /\ faults' = faults + 1)
      BY DEF Unlink, Link, StartReplica
    <3>2. QED
      BY <1>4, <3>1, Numbers
  <2>2. up' \in [Replica -> BOOLEAN] /\ linked' \in [Replica -> BOOLEAN]
    BY <1>3, <1>4
  <2>3. steady' \in [Replica -> 0..Long]
    <3>1. 0 \in 0..Long
      BY Numbers
    <3>2. QED
      BY <1>3, <1>4, <3>1
  <2>4. QED
    BY <1>1, <1>2, <2>1, <2>2, <2>3 DEF TypeOK
<1>6. Registrations'
  BY <1>1, <1>2 DEF Registrations
<1>7. Replays' /\ Vouches'
  BY <1>1, <1>2, AllCarried
<1>8. /\ \A q \in Replica : q # r => up'[q] = up[q] /\ linked'[q] = linked[q] /\ steady'[q] = steady[q]
      /\ steady'[r] = 0 \/ (steady'[r] = steady[r] /\ up'[r] = up[r] /\ ~linked'[r])
  BY <1>3, <1>4
<1>9. Abreast'
  <2>1. ASSUME NEW q \in Replica, up'[q], linked'[q], leader' # None, steady'[q] > 0
        PROVE  Heard(since', applied'[q])
    <3>1. q # r
      BY <1>8, <2>1
    <3>2. QED
      BY <1>1, <1>2, <1>8, <2>1, <3>1 DEF Abreast, Hears
  <2>2. QED
    BY <2>1 DEF Abreast, Hears
<1>10. Fades'
  <2>1. ASSUME NEW q \in Replica, up'[q]
        PROVE  FadesBy(log', since', services'[q], steady'[q], cleaner'[q])
    <3>1. CASE steady'[q] = 0
      BY <1>5, <3>1, FadeStarts
    <3>2. CASE steady'[q] # 0
      <4>1. up[q] /\ steady'[q] = steady[q]
        BY <1>8, <2>1, <3>2
      <4>2. QED
        BY <1>1, <1>2, <4>1 DEF Fades
    <3>3. QED
      BY <3>1, <3>2
  <2>2. QED
    BY <2>1 DEF Fades
<1>11. QED
  BY <1>5, <1>6, <1>7, <1>9, <1>10 DEF IInv

\* A replica loses all it has.
LEMMA CrashStep ==
  ASSUME IInv, NEW r \in Replica, Crash(r)
  PROVE  IInv'
<1>1. TypeOK /\ Registrations /\ Replays /\ Vouches /\ Abreast /\ Fades
  BY DEF IInv
<1>2. /\ UNCHANGED <<log, committed, linked, home, since, steady>>
      /\ faults < MaxFaults /\ faults' = faults + 1
      /\ leader' = IF leader = r THEN None ELSE leader
      /\ up' = [up EXCEPT ![r] = FALSE] /\ applied' = [applied EXCEPT ![r] = 0]
      /\ services' = [services EXCEPT ![r] = << >>] /\ cleaner' = [cleaner EXCEPT ![r] = CleanupPeriod]
      /\ lapsed' = [lapsed EXCEPT ![r] = FALSE]
  BY DEF Crash, Lose
<1>3. /\ \A q \in Replica : q # r => /\ services'[q] = services[q] /\ applied'[q] = applied[q]
                                     /\ lapsed'[q] = lapsed[q] /\ up'[q] = up[q] /\ cleaner'[q] = cleaner[q]
      /\ services'[r] = << >> /\ applied'[r] = 0 /\ ~up'[r] /\ DOMAIN services' = Replica
  BY <1>1, <1>2 DEF TypeOK
<1>4. TypeOK'
  <2>1. faults' \in 0..MaxFaults
    BY <1>1, <1>2, Numbers DEF TypeOK
  <2>2. 0 \in 0..committed /\ CleanupPeriod \in 0..CleanupPeriod
    BY <1>1, Numbers, Typed
  <2>3. applied' \in [Replica -> 0..committed] /\ cleaner' \in [Replica -> 0..CleanupPeriod]
    BY <1>1, <1>2, <2>2 DEF TypeOK
  <2>4. up' \in [Replica -> BOOLEAN] /\ lapsed' \in [Replica -> BOOLEAN] /\ leader' \in Replica \union {None}
    BY <1>1, <1>2 DEF TypeOK
  <2>5. \A q \in Replica : Content(services'[q])
    BY <1>1, <1>3, Typed, NothingListed
  <2>6. /\ log \in Seq(Entry) /\ committed \in 0..Len(log) /\ since \in Seq(0..Long) /\ Len(since) = committed
        /\ linked \in [Replica -> BOOLEAN] /\ home \in Replica /\ steady \in [Replica -> 0..Long]
    BY <1>1 DEF TypeOK
  <2>7. {up', linked', lapsed'} \subseteq [Replica -> BOOLEAN]
    BY <1>2, <2>4, <2>6
  <2>8. /\ log' \in Seq(Entry) /\ committed' \in 0..Len(log')
        /\ since' \in Seq(0..Long) /\ Len(since') = committed'
        /\ home' \in Replica /\ steady' \in [Replica -> 0..Long] /\ applied' \in [Replica -> 0..committed']
    BY <1>2, <2>3, <2>6
  <2>9. QED
    BY <1>3, <2>1, <2>3, <2>4, <2>5, <2>7, <2>8 DEF TypeOK
<1>5. Registrations'
  BY <1>1, <1>2 DEF Registrations
<1>6. Replays' /\ Vouches'
  <2>1. ASSUME NEW q \in Replica PROVE VouchedBy(log', since', services'[q], applied'[q])
    <3>1. CASE q = r
      BY <1>3, <3>1 DEF VouchedBy
    <3>2. CASE q # r
      BY <1>1, <1>2, <1>3, <3>2 DEF Vouches
    <3>3. QED
      BY <3>1, <3>2
  <2>2. ASSUME NEW q \in Replica, ~lapsed'[q] PROVE ReplayOf(log', services'[q], applied'[q])
    <3>1. CASE q = r
      BY <1>3, <3>1, ReplayNothing
    <3>2. CASE q # r
      BY <1>1, <1>2, <1>3, <2>2, <3>2 DEF Replays
    <3>3. QED
      BY <3>1, <3>2
  <2>3. QED
    BY <2>1, <2>2 DEF Replays, Vouches
<1>7. Abreast'
  <2>1. ASSUME NEW q \in Replica, up'[q], linked'[q], leader' # None, steady'[q] > 0
        PROVE  Heard(since', applied'[q])
    <3>1. q # r /\ leader # None
      BY <1>2, <1>3, <2>1
    <3>2. QED
      BY <1>1, <1>2, <1>3, <2>1, <3>1 DEF Abreast, Hears
  <2>2. QED
    BY <2>1 DEF Abreast, Hears
<1>8. Fades'
  <2>1. ASSUME NEW q \in Replica, up'[q]
        PROVE  FadesBy(log', since', services'[q], steady'[q], cleaner'[q])
    <3>1. q # r
      BY <1>3, <2>1
    <3>2. QED
      BY <1>1, <1>2, <1>3, <2>1, <3>1 DEF Fades
  <2>2. QED
    BY <2>1 DEF Fades
<1>9. QED
  BY <1>4, <1>5, <1>6, <1>7, <1>8 DEF IInv

\* Time passes, when nothing is late.
LEMMA TickStep ==
  ASSUME IInv, Tick
  PROVE  IInv'
<1>1. TypeOK /\ Registrations /\ Replays /\ Vouches /\ Abreast /\ Fades
  BY DEF IInv
<1>2. /\ UNCHANGED <<leader, log, committed, linked, up, applied, home, faults, lapsed>>
      /\ services' = [r \in Replica |-> Aged(services[r])]
      /\ cleaner' = [r \in Replica |-> cleaner[r] - (IF up[r] THEN 1 ELSE 0)]
      /\ since' = [k \in DOMAIN since |-> UpTo(Long, since[k])]
      /\ steady' = [r \in Replica |-> UpTo(Long, steady[r])]
  BY DEF Tick, raftVars
<1>3. \A r \in Replica : (up[r] => cleaner[r] > 0) /\ (Hears(r) => applied[r] = committed)
  BY DEF Tick, Prompt
<1>4. \A n \in 0..Long : UpTo(Long, n) \in 0..Long /\ UpTo(Long, n) \in Nat /\ UpTo(Long, n) <= n + 1
  BY Numbers DEF UpTo
<1>5. /\ DOMAIN since = 1..committed /\ DOMAIN since' = 1..committed
      /\ \A k \in 1..committed : /\ since[k] \in 0..Long /\ since[k] \in Nat
                                 /\ since'[k] = UpTo(Long, since[k]) /\ since'[k] \in 0..Long
                                 /\ since'[k] \in Nat /\ since'[k] <= since[k] + 1
  BY <1>1, <1>2, <1>4, Typed
<1>6. \A r \in Replica : /\ steady[r] \in Nat /\ steady'[r] \in 0..Long /\ steady'[r] \in Nat
                         /\ steady'[r] <= steady[r] + 1
  <2>1. \A r \in Replica : steady[r] \in 0..Long /\ steady[r] \in Nat
    BY <1>1, Typed DEF TypeOK
  <2>2. QED
    BY <1>2, <1>4, <2>1
<1>7. \A r \in Replica : Content(services[r]) /\ Content(Aged(services[r])) /\ services'[r] = Aged(services[r])
  BY <1>1, <1>2, Typed, Ages
<1>8. \A r \in Replica : /\ applied[r] \in Nat /\ cleaner[r] \in 0..CleanupPeriod
                         /\ \A k \in 1..applied[r] : k \in 1..committed
  BY <1>1, Typed
<1>9. TypeOK'
  <2>1. cleaner' \in [Replica -> 0..CleanupPeriod]
    <3>1. ASSUME NEW r \in Replica PROVE cleaner[r] - (IF up[r] THEN 1 ELSE 0) \in 0..CleanupPeriod
      BY <1>3, <1>8, Numbers
    <3>2. QED
      BY <1>2, <3>1
  <2>2. since' \in Seq(0..Long) /\ Len(since') = committed
    <3>1. committed \in Nat /\ \A k \in 1..committed : UpTo(Long, since[k]) \in 0..Long
      BY <1>1, <1>5, Typed
    <3>2. PICK n \in Nat : n = committed
      BY <3>1
    <3>3. since' = [k \in 1..n |-> UpTo(Long, since[k])] /\ \A k \in 1..n : UpTo(Long, since[k]) \in 0..Long
      BY <1>2, <1>5, <3>1, <3>2
    <3>4. since' \in Seq(0..Long) /\ Len(since') = n
      BY <3>2, <3>3
    <3>5. QED
      BY <3>2, <3>4
  <2>3. steady' \in [Replica -> 0..Long]
    BY <1>2, <1>6
  <2>4. DOMAIN services' = Replica /\ \A r \in Replica : Content(services'[r])
    BY <1>2, <1>7
  <2>5. QED
    BY <1>1, <1>2, <2>1, <2>2, <2>3, <2>4 DEF TypeOK
<1>10. Registrations'
  BY <1>1, <1>2 DEF Registrations
<1>11. Replays'
  <2>1. ASSUME NEW r \in Replica, ~lapsed[r] PROVE ReplayOf(log, Aged(services[r]), applied[r])
    <3>0. PICK a \in Nat : a = applied[r]
      BY <1>8
    <3>1. PICK m : m = services[r] /\ Content(m) /\ Content(Aged(m))
      BY <1>7
    <3>2. ReplayOf(log, m, a)
      BY <1>1, <2>1, <3>0, <3>1 DEF Replays
    <3>3. \A o : SamePorts(GetServiceInstances(m, o), GetServiceInstances(Aged(m), o))
      BY <3>1, Ages DEF SamePorts
    <3>4. ReplayOf(log, Aged(m), a)
      BY <3>0, <3>1, <3>2, <3>3, ReplaySame
    <3>5. QED
      BY <3>0, <3>1, <3>4
  <2>2. QED
    BY <1>2, <1>7, <2>1 DEF Replays
<1>12. Vouches'
  <2>1. ASSUME NEW r \in Replica PROVE VouchedBy(log, since', Aged(services[r]), applied[r])
    <3>0. PICK a \in Nat : a = applied[r]
      BY <1>8
    <3>1. PICK m : m = services[r] /\ Content(m)
      BY <1>7
    <3>2. VouchedBy(log, since, m, a)
      BY <1>1, <3>0, <3>1 DEF Vouches
    <3>3. \A k \in 1..a : since[k] \in Nat /\ since'[k] = UpTo(Long, since[k])
      BY <1>5, <1>8, <3>0
    <3>4. VouchedBy(log, since', Aged(m), a)
      BY <3>0, <3>1, <3>2, <3>3, VouchTick
    <3>5. QED
      BY <3>0, <3>1, <3>4
  <2>2. QED
    BY <1>2, <1>7, <2>1 DEF Vouches
<1>13. Abreast'
  <2>1. ASSUME NEW r \in Replica, Hears(r) PROVE Heard(since', applied[r])
    <3>1. applied[r] = committed
      BY <1>3, <2>1
    <3>2. \A k \in 1..committed : k <= committed
      OBVIOUS
    <3>3. QED
      BY <1>5, <3>1, <3>2 DEF Heard
  <2>2. QED
    BY <1>2, <2>1 DEF Abreast, Hears
<1>14. Fades'
  <2>1. ASSUME NEW r \in Replica, up[r] PROVE FadesBy(log, since', Aged(services[r]), steady'[r], cleaner'[r])
    <3>1. PICK m : m = services[r] /\ Content(m) /\ Content(Aged(m))
      BY <1>7
    <3>2. PICK left \in 1..CleanupPeriod : left = cleaner[r] /\ cleaner'[r] = left - 1
      BY <1>2, <1>3, <1>8, <2>1
    <3>3. FadesBy(log, since, m, steady[r], left)
      BY <1>1, <2>1, <3>1, <3>2 DEF Fades
    <3>4. PICK ticks \in Nat, next \in Nat : ticks = steady[r] /\ next = steady'[r] /\ next <= ticks + 1
      BY <1>6
    <3>5. FadesBy(log, since', Aged(m), next, left - 1)
      BY <1>5, <3>1, <3>3, <3>4, FadeTick
    <3>6. QED
      BY <3>1, <3>2, <3>4, <3>5
  <2>2. QED
    BY <1>2, <1>7, <2>1 DEF Fades
<1>15. QED
  BY <1>9, <1>10, <1>11, <1>12, <1>13, <1>14 DEF IInv

\* Every step preserves the invariant.
LEMMA Preserved == IInv /\ [Next]_vars => IInv'
<1> SUFFICES ASSUME IInv, [Next]_vars PROVE IInv'
  OBVIOUS
<1>1. CASE Commit
  BY <1>1, CommitStep
<1>2. CASE Tick
  BY <1>2, TickStep
<1>3. ASSUME NEW i \in Instance, RegisterSingleService(i) \/ SendHeartbeat(i) PROVE IInv'
  BY <1>3, RequestStep
<1>4. ASSUME NEW r \in Replica, ApplyLogEntry(r) \/ CleanupLoop(r) \/ Lead(r) \/ Crash(r) PROVE IInv'
  BY <1>4, ApplyStep, CleanupStep, LeadStep, CrashStep
<1>5. ASSUME NEW r \in Replica, Unlink(r) \/ Link(r) \/ StartReplica(r) PROVE IInv'
  BY <1>5, LinkStep
<1>6. CASE UNCHANGED vars
  <2>1. UNCHANGED <<leader, log, committed, linked, up, applied, services, cleaner, home, faults, since, steady, lapsed>>
    BY <1>6 DEF vars, raftVars, replicaVars, history
  <2>2. TypeOK'
    BY <2>1 DEF IInv, TypeOK
  <2>3. Registrations' /\ Abreast'
    BY <2>1 DEF IInv, Registrations, Abreast, Hears
  <2>4. Replays' /\ Vouches' /\ Fades'
    BY <2>1 DEF IInv, Replays, Vouches, Fades
  <2>5. QED
    BY <2>2, <2>3, <2>4 DEF IInv
<1>7. QED
  BY <1>1, <1>2, <1>3, <1>4, <1>5, <1>6 DEF Next

-----------------------------------------------------------------------------
(* Theorems.                                                                *)

\* Whatever servers and replicas do and however they fail, what a replica
\* holds is what the log has told it, as far as no clock has removed it, and
\* what it has left to forget is in due time.
THEOREM Invariant == Spec => []IInv
<1>1. Init => IInv
  BY Starts
<1>2. IInv /\ [Next]_vars => IInv'
  BY Preserved
<1>3. QED
  BY <1>1, <1>2, PTL DEF Spec

\* Replicas that have applied as many entries, and whose clean-up thread has
\* removed nothing, answer every ServiceDiscoveryRequest alike, however far
\* apart in time they applied the entries, and whatever has crashed since.
THEOREM Agreement == Spec => []ReplicasAgree
<1>1. IInv => ReplicasAgree
  <2> SUFFICES ASSUME IInv PROVE ReplicasAgree
    OBVIOUS
  <2>1. TypeOK /\ Replays
    BY DEF IInv
  <2>2. ASSUME NEW r \in Replica, NEW q \in Replica, NEW n \in Name,
               applied[r] = applied[q], ~lapsed[r], ~lapsed[q]
        PROVE  Found(r, n) = Found(q, n)
    <3>1. PICK v : v = GetServiceInstances(services[r], n)
      OBVIOUS
    <3>2. PICK w : w = GetServiceInstances(services[q], n)
      OBVIOUS
    <3>3. Len(v) \in Nat /\ DOMAIN v = 1..Len(v) /\ Len(w) \in Nat /\ DOMAIN w = 1..Len(w)
      BY <2>1, <3>1, <3>2, Typed, Vectors
    <3>4. PICK a \in Nat : a = applied[r] /\ a = applied[q]
      BY <2>1, <2>2, Typed
    <3>5. Replayed(log, v, n, a) /\ Replayed(log, w, n, a)
      BY <2>1, <2>2, <3>1, <3>2, <3>4 DEF Replays, ReplayOf
    <3>6. SamePorts(v, w)
      BY <3>3, <3>5, ReplayUnique
    <3>7. Found(r, n) = [k \in DOMAIN v |-> v[k].port] /\ Found(q, n) = [k \in DOMAIN w |-> w[k].port]
      BY <3>1, <3>2, HandledLookup
    <3>8. QED
      BY <3>3, <3>6, <3>7 DEF SamePorts
  <2>3. QED
    BY <2>1, <2>2 DEF ReplicasAgree
<1>2. QED
  BY <1>1, Invariant, PTL

\* removeExpiredServices never removes what an applied entry vouches for.
THEOREM Vouched == Spec => []VouchedForListed
<1>1. IInv => VouchedForListed
  <2> SUFFICES ASSUME IInv PROVE VouchedForListed
    OBVIOUS
  <2>1. TypeOK /\ Vouches
    BY DEF IInv
  <2>2. ASSUME NEW r \in Replica, NEW k \in 1..applied[r], since[k] <= Timeout
        PROVE  Listed(services[r], log[k].name, log[k].port)
    <3>1. Members(services[r], log[k].name, log[k].port) # {}
      BY <2>1, <2>2 DEF Vouches, VouchedBy
    <3>2. QED
      BY <2>1, <3>1, Typed, ListedMembers
  <2>3. QED
    BY <2>2 DEF VouchedForListed
<1>2. QED
  BY <1>1, Invariant, PTL

\* Forgotten ticks after it was started, or could hear from a leader again, no
\* replica lists a server of which nothing has been committed in that time,
\* also one that had to replay the whole log.
THEOREM Forgetting == Spec => []DeadForgotten
<1>1. IInv => DeadForgotten
  <2> SUFFICES ASSUME IInv PROVE DeadForgotten
    OBVIOUS
  <2>1. TypeOK /\ Fades
    BY DEF IInv
  <2>2. ASSUME NEW r \in Replica, NEW i \in Instance, up[r], steady[r] > Forgotten,
               Listed(services[r], i[1], i[2])
        PROVE  \E k \in 1..committed : <<log[k].name, log[k].port>> = i /\ since[k] <= Forgotten
    <3>1. PICK m : m = services[r] /\ Content(m)
      BY <2>1, Typed
    <3>2. PICK left \in 0..CleanupPeriod : left = cleaner[r]
      BY <2>1, Typed
    <3>3. PICK x \in Members(m, i[1], i[2]) : TRUE
      BY <2>2, <3>1, ListedMembers
    <3>4. Grace(x, left) \in Nat /\ Grace(x, left) <= Forgotten /\ Forgotten \in Nat
      BY <3>1, Silent, Graces, Numbers DEF Forgotten
    <3>5. ~(steady[r] <= Grace(x, left))
      BY <2>1, <2>2, <3>4, Typed
    <3>6. PICK k \in DOMAIN since : Says(log[k], i[1], i[2]) /\ since[k] <= Grace(x, left)
      BY <2>1, <2>2, <3>1, <3>2, <3>5 DEF Fades, FadesBy
    <3>7. k \in 1..committed /\ since[k] \in Nat
      BY <2>1, <3>6, Typed
    <3>8. since[k] <= Forgotten
      BY <3>4, <3>6, <3>7
    <3>9. <<log[k].name, log[k].port>> = i
      BY <3>6, Instanced DEF Says
    <3>10. QED
      BY <3>7, <3>8, <3>9
  <2>3. QED
    BY <2>2 DEF DeadForgotten
<1>2. QED
  BY <1>1, Invariant, PTL

=============================================================================
