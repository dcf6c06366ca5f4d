----------------------------- MODULE DataProofs -----------------------------
(* What the operators on data compute: what bytes without a type mean to    *)
(* the parsers of this framework, for every message, and what is left of a  *)
(* sequence when elements are removed, for every sequence.                  *)
EXTENDS Wire, Removal, FiniteSets, FiniteSetTheorems, TLAPS

-----------------------------------------------------------------------------
(* Wire.                                                                    *)

\* a message of a type: the sequence of the values of its fields
IsMessage(type, m) == DOMAIN m = DOMAIN type /\ m = [i \in DOMAIN type |-> m[i]]

\* What was serialised parses as what it was, also where a field had its
\* default value and was not written: Serializer loses nothing.
THEOREM RoundTrip ==
  ASSUME NEW type, NEW m, IsMessage(type, m)
  PROVE  Parse(type, Serialize(type, m)) = m
<1> DEFINE b == Serialize(type, m)
<1>1. ASSUME NEW i \in DOMAIN type PROVE (IF Known(type, b, i) THEN b[i].val ELSE Default(type[i])) = m[i]
  <2>1. CASE m[i] = Default(type[i])
    BY <2>1 DEF Serialize, Known
  <2>2. CASE m[i] # Default(type[i])
    BY <2>2 DEF Serialize, Known
  <2>3. QED
    BY <2>1, <2>2
<1>2. Parse(type, b) = [i \in DOMAIN type |-> m[i]]
  BY <1>1 DEF Parse
<1>3. QED
  BY <1>2 DEF IsMessage

\* Fields are known by number and wire type only: a type that begins with the
\* wire types of another one parses as that one, with the same values.
THEOREM Shadows ==
  ASSUME NEW type, NEW other, NEW m, IsMessage(type, m),
         DOMAIN other \subseteq DOMAIN type,
         \A i \in DOMAIN other : other[i] = type[i]
  PROVE  Parse(other, Serialize(type, m)) = [i \in DOMAIN other |-> m[i]]
<1> DEFINE b == Serialize(type, m)
<1>1. ASSUME NEW i \in DOMAIN other
      PROVE (IF Known(other, b, i) THEN b[i].val ELSE Default(other[i])) = m[i]
  <2>1. i \in DOMAIN type /\ other[i] = type[i]
    OBVIOUS
  <2>2. CASE m[i] = Default(type[i])
    BY <2>1, <2>2 DEF Serialize, Known
  <2>3. CASE m[i] # Default(type[i])
    BY <2>1, <2>3 DEF Serialize, Known
  <2>4. QED
    BY <2>2, <2>3
<1>2. QED
  BY <1>1 DEF Parse

\* handleConnection of a Raft node cannot tell a heartbeat of the leader from
\* a candidate's request: term, sender, index and term of the last entry agree.
THEOREM HeartbeatsAskForVotes ==
  ASSUME NEW m, IsMessage(AppendEntriesRequest, m)
  PROVE  Parse(RequestVoteRequest, Serialize(AppendEntriesRequest, m)) = <<m[1], m[2], m[3], m[4]>>
<1>1. /\ DOMAIN RequestVoteRequest = 1..4 /\ DOMAIN AppendEntriesRequest = 1..6
      /\ \A i \in 1..4 : RequestVoteRequest[i] = AppendEntriesRequest[i]
  BY DEF RequestVoteRequest, AppendEntriesRequest
<1>2. Parse(RequestVoteRequest, Serialize(AppendEntriesRequest, m)) = [i \in 1..4 |-> m[i]]
  BY <1>1, Shadows
<1>3. QED
  BY <1>2

\* A registration or a heartbeat of a server reads as a lookup of its name to
\* a parser that tries lookups first: the order of handleConnection matters.
THEOREM RegistrationsAskForNames ==
  ASSUME NEW m, IsMessage(ServiceRegisterRequest, m)
  PROVE  Parse(ServiceDiscoveryRequest, Serialize(ServiceRegisterRequest, m)) = <<m[1]>>
<1>1. /\ DOMAIN ServiceDiscoveryRequest = 1..1 /\ DOMAIN ServiceRegisterRequest = 1..3
      /\ ServiceDiscoveryRequest[1] = ServiceRegisterRequest[1]
  BY DEF ServiceDiscoveryRequest, ServiceRegisterRequest
<1>2. Parse(ServiceDiscoveryRequest, Serialize(ServiceRegisterRequest, m)) = [i \in 1..1 |-> m[i]]
  BY <1>1, Shadows
<1>3. QED
  BY <1>2

\* Exactly the messages whose fields all have default values take no bytes,
\* which TcpConnection::receive takes for a broken connection: a sum of zero,
\* a lookup that finds nothing, every request for the cluster's status.
THEOREM EmptyMessages ==
  ASSUME NEW type, NEW m
  PROVE  NoBytes(Serialize(type, m)) <=> \A i \in DOMAIN type : m[i] = Default(type[i])
BY DEF NoBytes, Serialize

\* A lookup does not read as a registration: it names no host.
LEMMA LookupsNameNoHost ==
  ASSUME NEW n
  PROVE  Parse(ServiceRegisterRequest, Serialize(ServiceDiscoveryRequest, <<n>>))[2] = NoName
<1> DEFINE b == Serialize(ServiceDiscoveryRequest, <<n>>)
<1>1. DOMAIN b \subseteq 1..1
  BY DEF Serialize, ServiceDiscoveryRequest
<1> HIDE DEF b
<1>2. 2 \notin DOMAIN b
  BY <1>1
<1>3. DOMAIN ServiceRegisterRequest = 1..3 /\ ServiceRegisterRequest[2] = "string"
  BY DEF ServiceRegisterRequest
<1>4. Default("string") = NoName
  BY Zenon DEF Default
<1>5. Default(ServiceRegisterRequest[2]) = NoName
  BY <1>3, <1>4
<1>6. ~Known(ServiceRegisterRequest, b, 2)
  BY <1>2 DEF Known
<1>7. 2 \in DOMAIN ServiceRegisterRequest
  BY <1>3
<1>8. QED
  BY <1>5, <1>6, <1>7 DEF Parse, b

\* A lookup and its answer read as what they were.
LEMMA LookupsRead ==
  /\ \A n : Parse(ServiceDiscoveryRequest, Serialize(ServiceDiscoveryRequest, <<n>>)) = <<n>>
  /\ \A infos : Parse(ServiceDiscoveryResponse, Serialize(ServiceDiscoveryResponse, <<infos>>))[1] = infos
  /\ \A h, p, a : Parse(ServiceInfo, Serialize(ServiceInfo, <<h, p, a>>))[2] = p
<1>1. ASSUME NEW n
      PROVE  Parse(ServiceDiscoveryRequest, Serialize(ServiceDiscoveryRequest, <<n>>)) = <<n>>
  <2>1. IsMessage(ServiceDiscoveryRequest, <<n>>)
    BY DEF IsMessage, ServiceDiscoveryRequest
  <2>2. QED
    BY <2>1, RoundTrip
<1>2. ASSUME NEW infos
      PROVE  Parse(ServiceDiscoveryResponse, Serialize(ServiceDiscoveryResponse, <<infos>>))[1] = infos
  <2>1. IsMessage(ServiceDiscoveryResponse, <<infos>>)
    BY DEF IsMessage, ServiceDiscoveryResponse
  <2>2. QED
    BY <2>1, RoundTrip
<1>3. ASSUME NEW h, NEW p, NEW a
      PROVE  Parse(ServiceInfo, Serialize(ServiceInfo, <<h, p, a>>))[2] = p
  <2>1. IsMessage(ServiceInfo, <<h, p, a>>)
    BY DEF IsMessage, ServiceInfo
  <2>2. QED
    BY <2>1, RoundTrip
<1>4. QED
  BY <1>1, <1>2, <1>3

-----------------------------------------------------------------------------
(* Induction, over sets: a set of numbers with 0 in it and the successor of *)
(* each of its members has them all.                                        *)

\* Induction over the natural numbers. If n were not in S, adding 1 would map
\* the members of S below n, one to one, into the positive ones, which are fewer.
LEMMA NatInductive ==
  ASSUME NEW S, 0 \in S, \A n \in Nat : n \in S => n + 1 \in S
  PROVE  Nat \subseteq S
<1> SUFFICES ASSUME NEW n \in Nat, n \notin S PROVE FALSE
  OBVIOUS
<1> DEFINE below == {i \in 0..n : i \in S}
           next == [i \in below |-> i + 1]
<1>1. IsFiniteSet(below)
  <2>1. IsFiniteSet(0..n) /\ below \subseteq 0..n
    BY FS_Interval
  <2>2. QED
    BY <2>1, FS_Subset
<1>2. next \in [below -> below \ {0}] /\ 0 \in below
  OBVIOUS
<1>3. IsFiniteSet(below \ {0}) /\ Cardinality(below \ {0}) = Cardinality(below) - 1
  BY <1>1, <1>2, FS_RemoveElement
<1>4. Cardinality(below) \in Nat
  BY <1>1, FS_CardinalityType
<1> HIDE DEF below, next
<1>5. \E x, y \in below : x # y /\ next[x] = next[y]
  BY <1>1, <1>2, <1>3, <1>4, FS_PigeonHole
<1>6. QED
  BY <1>5 DEF below, next

\* f lists S in ascending order
Ascending(f, L, S) ==
  /\ f \in [1..L -> S] /\ \A x \in S : \E i \in 1..L : f[i] = x
  /\ \A i, j \in 1..L : i < j => f[i] < f[j]
Alike(f, g, L) == \A i \in 1..L : f[i] = g[i]

\* A set of numbers is listed in ascending order in one way.
LEMMA Enumerations ==
  ASSUME NEW L \in Nat, NEW M \in Nat, NEW S, S \subseteq Nat,
         NEW f, Ascending(f, L, S), NEW g, Ascending(g, M, S)
  PROVE  L = M /\ Alike(f, g, L)
<1> DEFINE same == {n \in Nat : \A i \in 1..n : (i <= L <=> i <= M) /\ (i <= L => f[i] = g[i])}
<1>0. /\ \A i \in 1..L : f[i] \in S /\ f[i] \in Nat
      /\ \A i \in 1..M : g[i] \in S /\ g[i] \in Nat
      /\ \A x \in S : (\E i \in 1..L : f[i] = x) /\ (\E i \in 1..M : g[i] = x)
  BY DEF Ascending
<1>1. ASSUME NEW n \in Nat, n \in same PROVE n + 1 \in same
  <2>1. ASSUME n + 1 <= L PROVE n + 1 <= M /\ f[n + 1] = g[n + 1]
    <3>0. n + 1 \in 1..L
      BY <2>1
    <3>1. f[n + 1] \in S /\ f[n + 1] \in Nat
      BY <1>0, <3>0
    <3>2. PICK m \in 1..M : g[m] = f[n + 1]
      BY <1>0, <3>1
    <3>3. ~(m <= n)
      <4>1. SUFFICES ASSUME m <= n PROVE FALSE
        OBVIOUS
      <4>2. m <= L /\ f[m] = g[m]
        BY <1>1, <4>1
      <4>3. m < n + 1 /\ m \in 1..L /\ n + 1 \in 1..L
        BY <2>1, <4>1, <4>2
      <4>4. f[m] < f[n + 1]
        BY <4>3 DEF Ascending
      <4>5. QED
        BY <3>1, <3>2, <4>2, <4>4
    <3>4. n + 1 \in 1..M /\ n + 1 <= m
      BY <3>3
    <3>5. g[n + 1] \in S /\ g[n + 1] \in Nat /\ g[m] \in Nat
      BY <1>0, <3>1, <3>2, <3>4
    <3>6. PICK l \in 1..L : f[l] = g[n + 1]
      BY <1>0, <3>5
    <3>7. ~(l <= n)
      <4>1. SUFFICES ASSUME l <= n PROVE FALSE
        OBVIOUS
      <4>2. l <= M /\ f[l] = g[l]
        BY <1>1, <4>1
      <4>3. l < n + 1 /\ l \in 1..M
        BY <4>1, <4>2
      <4>4. g[l] < g[n + 1]
        BY <3>4, <4>3 DEF Ascending
      <4>5. QED
        BY <3>5, <3>6, <4>2, <4>4
    <3>8. n + 1 \in 1..L /\ n + 1 <= l
      BY <2>1, <3>7
    <3>9. g[n + 1] <= g[m]
      BY <3>4, <3>5 DEF Ascending
    <3>10. f[n + 1] <= f[l]
      <4>1. f[l] \in Nat
        BY <3>5, <3>6
      <4>2. n + 1 = l \/ f[n + 1] < f[l]
        BY <3>8 DEF Ascending
      <4>3. QED
        BY <3>1, <4>1, <4>2
    <3>11. QED
      BY <3>1, <3>2, <3>4, <3>5, <3>6, <3>9, <3>10
  <2>2. ASSUME n + 1 <= M PROVE n + 1 <= L
    <3>0. n + 1 \in 1..M
      BY <2>2
    <3>1. n + 1 \in 1..M /\ g[n + 1] \in S /\ g[n + 1] \in Nat
      BY <1>0, <3>0
    <3>2. PICK l \in 1..L : f[l] = g[n + 1]
      BY <1>0, <3>1
    <3>3. CASE l <= n
      <4>1. l <= M /\ f[l] = g[l]
        BY <1>1, <3>3
      <4>2. l < n + 1 /\ l \in 1..M
        BY <3>3, <4>1
      <4>3. g[l] < g[n + 1]
        BY <3>1, <4>2 DEF Ascending
      <4>4. QED
        BY <3>1, <3>2, <4>1, <4>3
    <3>4. QED
      BY <3>3
  <2>3. \A i \in 1..(n + 1) : i \in 1..n \/ i = n + 1
    OBVIOUS
  <2>4. QED
    BY <1>1, <2>1, <2>2, <2>3
<1>2. 0 \in same
  OBVIOUS
<1>3. Nat \subseteq same
  <2> HIDE DEF same
  <2>1. QED
    BY <1>1, <1>2, NatInductive
<1>4. L \in same /\ M \in same
  BY <1>3
<1>5. \A i \in 1..L : i <= M /\ f[i] = g[i]
  BY <1>4
<1>6. \A i \in 1..M : i <= L
  BY <1>4
<1>7. L = M
  <2>1. L = 0 \/ L \in 1..L
    OBVIOUS
  <2>2. M = 0 \/ M \in 1..M
    OBVIOUS
  <2>3. L <= M
    BY <1>5, <2>1
  <2>4. M <= L
    BY <1>6, <2>2
  <2>5. QED
    BY <2>3, <2>4
<1>8. QED
  BY <1>5, <1>7 DEF Alike

-----------------------------------------------------------------------------
(* Drop.                                                                    *)

\* kept[n] is what is left of the first n elements of s
Kept(kept, S, s, gone) ==
  /\ kept \in [0..Len(s) -> Seq(S)] /\ kept[0] = << >> /\ Drop(s, gone) = kept[Len(s)]
  /\ \A n \in 1..Len(s) : kept[n] = IF s[n] \in gone THEN kept[n - 1] ELSE Append(kept[n - 1], s[n])

\* The recursion of Drop has a solution of the expected type, and Drop is its
\* last value.
LEMMA DropSteps ==
  ASSUME NEW S, NEW s \in Seq(S), NEW gone
  PROVE  \E kept : Kept(kept, S, s, gone)
<1> DEFINE T == Seq(S)
           grown(n, t) == IF n \in 1..Len(s) /\ s[n] \notin gone THEN Append(t, s[n]) ELSE t
           body(g, n) == IF n = 0 THEN << >>
                         ELSE IF s[n] \in gone THEN g[n - 1] ELSE Append(g[n - 1], s[n])
           kept == CHOOSE g : g = [n \in 0..Len(s) |-> body(g, n)]
<1>1. Len(s) \in Nat /\ << >> \in T
  OBVIOUS
<1>2. ASSUME NEW n \in Nat, NEW t \in T PROVE grown(n, t) \in T
  OBVIOUS
<1>3. Drop(s, gone) = kept[Len(s)]
  BY DEF Drop
<1> HIDE DEF T, kept
<1> DEFINE Defined(k) == \E f \in [0..k -> T] : \A n \in 0..k : f[n] = body(f, n)
           defined == {k \in Nat : k <= Len(s) => Defined(k)}
<1>4. 0 \in defined
  <2> DEFINE f == [i \in 0..0 |-> << >>]
  <2>1. f \in [0..0 -> T] /\ \A n \in 0..0 : f[n] = body(f, n)
    BY <1>1
  <2>2. QED
    BY <2>1
<1>5. ASSUME NEW k \in Nat, k \in defined PROVE k + 1 \in defined
  <2>1. SUFFICES ASSUME k + 1 <= Len(s) PROVE Defined(k + 1)
    OBVIOUS
  <2>2. PICK f \in [0..k -> T] : \A n \in 0..k : f[n] = body(f, n)
    BY <1>1, <1>5, <2>1
  <2> DEFINE g == [n \in 0..(k + 1) |-> IF n <= k THEN f[n] ELSE grown(k + 1, f[k])]
  <2>3. g \in [0..(k + 1) -> T]
    <3>1. f[k] \in T /\ grown(k + 1, f[k]) \in T
      BY <1>2
    <3> HIDE DEF grown
    <3>2. QED
      BY <2>2, <3>1
  <2>4. ASSUME NEW n \in 0..(k + 1) PROVE g[n] = body(g, n)
    <3>1. CASE n = 0
      BY <2>2, <3>1
    <3>2. CASE n # 0 /\ n <= k
      <4>1. n - 1 \in 0..(k + 1) /\ n - 1 <= k /\ n \in 0..k
        BY <3>2
      <4>2. g[n - 1] = f[n - 1] /\ g[n] = f[n]
        BY <3>2, <4>1
      <4>3. QED
        BY <2>2, <3>2, <4>1, <4>2
    <3>3. CASE n = k + 1
      <4>1. n # 0 /\ n - 1 = k /\ n \in 1..Len(s) /\ k \in 0..(k + 1) /\ n \in 0..(k + 1) /\ ~(n <= k)
        BY <1>1, <2>1, <3>3
      <4>2. g[n - 1] = f[k] /\ g[n] = grown(n, f[k])
        BY <3>3, <4>1
      <4>3. QED
        BY <4>1, <4>2
    <3>4. QED
      BY <3>1, <3>2, <3>3
  <2> HIDE DEF g, body
  <2>5. QED
    BY <2>3, <2>4
<1>6. PICK f \in [0..Len(s) -> T] : \A n \in 0..Len(s) : f[n] = body(f, n)
  <2> HIDE DEF defined
  <2>1. Len(s) \in defined
    BY <1>1, <1>4, <1>5, NatInductive
  <2>2. QED
    BY <1>1, <2>1 DEF defined
<1>7. f = [n \in 0..Len(s) |-> body(f, n)]
  <2>1. f = [n \in 0..Len(s) |-> f[n]]
    BY <1>6
  <2> HIDE DEF body
  <2>2. QED
    BY <1>6, <2>1
<1>8. kept = [n \in 0..Len(s) |-> body(kept, n)]
  <2> HIDE DEF body
  <2>1. QED
    BY <1>7 DEF kept
<1>9. ASSUME NEW n \in 0..Len(s) PROVE kept[n] = body(kept, n)
  <2> HIDE DEF body
  <2>1. QED
    BY <1>8
<1>10. /\ kept[0] = << >>
       /\ \A n \in 1..Len(s) : kept[n] = IF s[n] \in gone THEN kept[n - 1] ELSE Append(kept[n - 1], s[n])
  <2>1. 0 \in 0..Len(s)
    BY <1>1
  <2>2. ASSUME NEW n \in 1..Len(s) PROVE n \in 0..Len(s) /\ n # 0
    BY <1>1
  <2>3. QED
    BY <1>9, <2>1, <2>2, Zenon
<1> DEFINE typed == {n \in Nat : n <= Len(s) => kept[n] \in T}
<1>11. 0 \in typed
  BY <1>1, <1>10
<1>12. ASSUME NEW n \in Nat, n \in typed PROVE n + 1 \in typed
  <2>1. SUFFICES ASSUME n + 1 <= Len(s) PROVE kept[n + 1] \in T
    OBVIOUS
  <2>2. n + 1 \in 1..Len(s) /\ (n + 1) - 1 = n /\ kept[n] \in T /\ n + 1 \in Nat
    BY <1>1, <1>12, <2>1
  <2>3. kept[n + 1] = grown(n + 1, kept[n])
    BY <1>10, <2>2
  <2>4. QED
    BY <1>2, <2>2, <2>3
<1>13. \A n \in 0..Len(s) : kept[n] \in T
  <2> HIDE DEF typed
  <2>1. Nat \subseteq typed
    BY <1>11, <1>12, NatInductive
  <2>2. QED
    BY <1>1, <2>1 DEF typed
<1>14. kept \in [0..Len(s) -> T]
  <2> HIDE DEF body
  <2>1. kept = [n \in 0..Len(s) |-> kept[n]]
    BY <1>8, <1>9
  <2>2. QED
    BY <1>13, <2>1
<1>15. QED
  BY <1>3, <1>10, <1>14 DEF T, Kept

\* d reads the places up to n of s that hold nothing in gone, all of them, from
\* left to right.
Reads(d, s, n, gone, place) ==
  /\ place \in [1..Len(d) -> Nat]
  /\ \A k \in 1..Len(d) : place[k] \in 1..n /\ d[k] = s[place[k]] /\ s[place[k]] \notin gone
  /\ \A i, j \in 1..Len(d) : i < j => place[i] < place[j]
  /\ \A i \in 1..n : s[i] \notin gone => \E k \in 1..Len(d) : place[k] = i

\* What is left of s is what remove_if and erase leave: the other elements, each
\* as often as before, in their order.
THEOREM DropPlaces ==
  ASSUME NEW S, NEW s \in Seq(S), NEW gone
  PROVE  Drop(s, gone) \in Seq(S) /\ \E place : Reads(Drop(s, gone), s, Len(s), gone, place)
<1> PICK kept : Kept(kept, S, s, gone)
  BY DropSteps
<1>1. /\ kept \in [0..Len(s) -> Seq(S)] /\ kept[0] = << >> /\ Drop(s, gone) = kept[Len(s)]
      /\ \A n \in 1..Len(s) : kept[n] = IF s[n] \in gone THEN kept[n - 1] ELSE Append(kept[n - 1], s[n])
  BY DEF Kept
<1> DEFINE read == {n \in Nat : n <= Len(s) => \E place : Reads(kept[n], s, n, gone, place)}
<1>2. 0 \in read
  <2>1. kept[0] = << >> /\ Len(kept[0]) = 0
    BY <1>1
  <2> DEFINE none == [k \in 1..Len(kept[0]) |-> 0]
  <2>2. Reads(kept[0], s, 0, gone, none)
    BY <2>1 DEF Reads
  <2>3. QED
    BY <2>2
<1>3. ASSUME NEW n \in Nat, n \in read PROVE n + 1 \in read
  <2>1. SUFFICES ASSUME n + 1 <= Len(s)
                 PROVE \E place : Reads(kept[n + 1], s, n + 1, gone, place)
    OBVIOUS
  <2> DEFINE d == kept[n]
  <2>2. d \in Seq(S) /\ n + 1 \in 1..Len(s) /\ s[n + 1] \in S
    BY <1>1, <2>1
  <2>3. PICK place : Reads(d, s, n, gone, place)
    BY <1>3, <2>1
  <2>4. kept[n + 1] = IF s[n + 1] \in gone THEN d ELSE Append(d, s[n + 1])
    BY <1>1, <2>2
  <2> HIDE DEF d
  <2>5. CASE s[n + 1] \in gone
    <3>1. kept[n + 1] = d
      BY <2>4, <2>5
    <3>2. \A i \in 1..(n + 1) : i \in 1..n \/ i = n + 1
      OBVIOUS
    <3>3. \A k \in 1..Len(d) : place[k] \in 1..(n + 1)
      BY <2>3 DEF Reads
    <3>4. Reads(d, s, n + 1, gone, place)
      BY <2>3, <2>5, <3>2, <3>3 DEF Reads
    <3>5. QED
      BY <3>1, <3>4
  <2>6. CASE s[n + 1] \notin gone
    <3> DEFINE m == Len(d)
               e == kept[n + 1]
               more == [k \in 1..(m + 1) |-> IF k <= m THEN place[k] ELSE n + 1]
    <3>1. /\ m \in Nat /\ Len(e) = m + 1 /\ e[m + 1] = s[n + 1]
          /\ \A k \in 1..m : e[k] = d[k]
      <4>1. e = Append(d, s[n + 1])
        BY <2>4, <2>6
      <4>2. QED
        BY <2>2, <4>1
    <3>2. more \in [1..(m + 1) -> Nat]
      BY <2>3 DEF Reads
    <3>3. \A k \in 1..m : more[k] = place[k] /\ place[k] \in 1..n
      BY <2>3 DEF Reads
    <3>4. more[m + 1] = n + 1
      BY <3>1
    <3> HIDE DEF more, m, e
    <3>5. \A k \in 1..(m + 1) : k \in 1..m \/ k = m + 1
      BY <3>1
    <3>6. \A k \in 1..(m + 1) : more[k] \in 1..(n + 1) /\ e[k] = s[more[k]] /\ s[more[k]] \notin gone
      <4>1. ASSUME NEW k \in 1..m
            PROVE more[k] \in 1..(n + 1) /\ e[k] = s[more[k]] /\ s[more[k]] \notin gone
        <5>1. more[k] = place[k] /\ place[k] \in 1..(n + 1) /\ e[k] = d[k]
          BY <3>1, <3>3
        <5>2. d[k] = s[place[k]] /\ s[place[k]] \notin gone
          BY <2>3 DEF m, Reads
        <5>3. QED
          BY <5>1, <5>2
      <4>2. more[m + 1] \in 1..(n + 1) /\ e[m + 1] = s[more[m + 1]] /\ s[more[m + 1]] \notin gone
        BY <2>6, <3>1, <3>4
      <4>3. QED
        BY <3>5, <4>1, <4>2
    <3>7. ASSUME NEW i \in 1..(m + 1), NEW j \in 1..(m + 1), i < j PROVE more[i] < more[j]
      <4>1. i \in 1..m
        BY <3>1, <3>7
      <4>2. CASE j \in 1..m
        BY <2>3, <3>3, <3>7, <4>1, <4>2 DEF m, Reads
      <4>3. CASE j = m + 1
        BY <3>3, <3>4, <4>1, <4>3
      <4>4. QED
        BY <3>5, <4>2, <4>3
    <3>8. ASSUME NEW i \in 1..(n + 1), s[i] \notin gone PROVE \E k \in 1..(m + 1) : more[k] = i
      <4>1. CASE i \in 1..n
        <5>1. PICK k \in 1..m : place[k] = i
          BY <2>3, <3>8, <4>1 DEF m, Reads
        <5>2. k \in 1..(m + 1) /\ more[k] = i
          BY <3>1, <3>3, <5>1
        <5>3. QED
          BY <5>2
      <4>2. CASE i = n + 1
        BY <3>1, <3>4, <4>2
      <4>3. QED
        BY <4>1, <4>2
    <3>9. Reads(e, s, n + 1, gone, more)
      BY <3>1, <3>2, <3>6, <3>7, <3>8 DEF Reads
    <3>10. QED
      BY <3>9 DEF e
  <2>7. QED
    BY <2>5, <2>6
<1>4. Len(s) \in read
  <2> HIDE DEF read
  <2>1. QED
    BY <1>2, <1>3, NatInductive
<1>5. QED
  BY <1>1, <1>4

\* What is left is a sequence over the same set.
LEMMA DropType ==
  ASSUME NEW S, NEW s \in Seq(S), NEW gone
  PROVE  Drop(s, gone) \in Seq(S)
BY DropPlaces

\* The elements left are those that are not removed.
LEMMA DropElems ==
  ASSUME NEW S, NEW s \in Seq(S), NEW gone
  PROVE  Elems(Drop(s, gone)) = Elems(s) \ gone
<1> DEFINE d == Drop(s, gone)
<1>1. PICK place : Reads(d, s, Len(s), gone, place)
  BY DropPlaces
<1> HIDE DEF d
<1>2. ASSUME NEW x \in Elems(d) PROVE x \in Elems(s) \ gone
  BY <1>1 DEF Elems, Reads
<1>3. ASSUME NEW x \in Elems(s) \ gone PROVE x \in Elems(d)
  <2>1. PICK i \in 1..Len(s) : s[i] = x
    BY DEF Elems
  <2>2. PICK k \in 1..Len(d) : place[k] = i
    BY <1>1, <2>1 DEF Reads
  <2>3. QED
    BY <1>1, <2>1, <2>2 DEF Elems, Reads
<1>4. QED
  BY <1>2, <1>3 DEF d

\* What holds of different places of s holds of different places of what is left.
LEMMA DropDistinct ==
  ASSUME NEW S, NEW s \in Seq(S), NEW gone, Distinct(s)
  PROVE  Distinct(Drop(s, gone))
<1> DEFINE d == Drop(s, gone)
<1>1. PICK place : Reads(d, s, Len(s), gone, place)
  BY DropPlaces
<1>2. d \in Seq(S)
  BY DropType
<1> HIDE DEF d
<1>3. SUFFICES ASSUME NEW i \in 1..Len(d), NEW j \in 1..Len(d), d[i] = d[j] PROVE i = j
  BY DEF Distinct, d
<1>4. place[i] = place[j]
  BY <1>1, <1>3 DEF Reads, Distinct
<1>5. ~(i < j) /\ ~(j < i)
  BY <1>1, <1>2, <1>4 DEF Reads
<1>6. QED
  BY <1>2, <1>5

\* Nothing is left exactly if everything is removed.
LEMMA DropEmpty ==
  ASSUME NEW S, NEW s \in Seq(S), NEW gone
  PROVE  Drop(s, gone) = << >> <=> Elems(s) \subseteq gone
<1>1. Drop(s, gone) \in Seq(S) /\ Elems(Drop(s, gone)) = Elems(s) \ gone
  BY DropType, DropElems
<1>2. QED
  BY <1>1 DEF Elems

-----------------------------------------------------------------------------
(* The elements of a sequence.                                              *)

\* A sequence has finitely many elements.
LEMMA ElemsFinite ==
  ASSUME NEW S, NEW s \in Seq(S)
  PROVE  Elems(s) \subseteq S /\ IsFiniteSet(Elems(s))
<1>1. IsFiniteSet(1..Len(s)) /\ Elems(s) = {s[i] : i \in 1..Len(s)}
  BY FS_Interval DEF Elems
<1> DEFINE f == [i \in 1..Len(s) |-> s[i]]
<1>2. f \in Surjection(1..Len(s), Elems(s))
  BY DEF Elems, Surjection
<1>3. IsFiniteSet(Elems(s))
  BY <1>1, <1>2, FS_Surjection
<1>4. QED
  BY <1>3 DEF Elems

\* A sequence without repetitions is as long as it has elements.
LEMMA DistinctLen ==
  ASSUME NEW S, NEW s \in Seq(S), Distinct(s)
  PROVE  Cardinality(Elems(s)) = Len(s)
<1> DEFINE f == [i \in 1..Len(s) |-> s[i]]
<1>1. f \in Surjection(1..Len(s), Elems(s))
  BY DEF Elems, Surjection
<1>2. f \in Injection(1..Len(s), Elems(s))
  BY DEF Elems, Distinct, Injection, IsInjective
<1> HIDE DEF f
<1>3. IsFiniteSet(1..Len(s)) /\ Len(s) \in Nat
  BY FS_Interval
<1>4. Cardinality(Elems(s)) = Cardinality(1..Len(s))
  BY <1>1, <1>2, <1>3, FS_Surjection
<1>5. Cardinality(1..Len(s)) = Len(s)
  <2>1. ASSUME NEW n \in Nat PROVE Cardinality(1..n) = n
    BY FS_Interval
  <2>2. QED
    BY <1>3, <2>1
<1>6. QED
  BY <1>4, <1>5

\* push_back adds one element, and repeats none that was not there.
LEMMA AppendElems ==
  ASSUME NEW S, NEW s \in Seq(S), NEW x \in S
  PROVE  /\ Append(s, x) \in Seq(S) /\ Elems(Append(s, x)) = Elems(s) \union {x}
         /\ Distinct(s) /\ x \notin Elems(s) => Distinct(Append(s, x))
<1>1. /\ Len(Append(s, x)) = Len(s) + 1 /\ Append(s, x)[Len(s) + 1] = x
      /\ \A i \in 1..Len(s) : Append(s, x)[i] = s[i]
      /\ \A i \in 1..(Len(s) + 1) : i \in 1..Len(s) \/ i = Len(s) + 1
  OBVIOUS
<1>2. QED
  BY <1>1 DEF Elems, Distinct

\* The front of a queue is one of its elements.
LEMMA HeadElems ==
  ASSUME NEW S, NEW s \in Seq(S), s # << >>
  PROVE  Head(s) \in Elems(s) /\ Head(s) \in S
BY DEF Elems

=============================================================================
