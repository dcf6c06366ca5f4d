------------------------ MODULE ConnectionPoolProofs ------------------------
(* Theorems about ConnectionPool: its records agree and no connection has    *)
(* two users, for any number of threads and connections.                     *)
EXTENDS ConnectionPool, DataProofs

-----------------------------------------------------------------------------
(* What the steps remove.                                                   *)

\* acquire() discards connections of the idle queue only.
LEMMA DiscardedIdle == TypeOK => Discarded \subseteq Elems(idle)
BY DEF Discarded, Elems

\* What cleanup erases is not in use.
LEMMA RemovableFree ==
  ASSUME NEW expired, expired \subseteq Elems(idle), PoolConsistent
  PROVE  Removable(expired) \subseteq Elems(all) /\ Removable(expired) \intersect inUse = {}
BY DEF Removable, PoolConsistent

\* in_use marks finitely many connections.
LEMMA InUseFinite == PoolConsistent => IsFiniteSet(inUse) /\ active \in Nat
<1>1. PoolConsistent => IsFiniteSet(Elems(all)) /\ inUse \subseteq Elems(all) /\ active \in Nat
  BY ElemsFinite DEF PoolConsistent, TypeOK
<1>2. QED
  BY <1>1, FS_Subset

-----------------------------------------------------------------------------
(* Numbers of threads.                                                      *)

\* The threads that hold a connection and those that create one are different
\* ones, and finitely many.
LEMMA ThreadsFinite ==
  /\ Holding \subseteq Client /\ Creating \subseteq Client /\ Holding \intersect Creating = {}
  /\ IsFiniteSet(Holding) /\ IsFiniteSet(Creating)
  /\ Cardinality(Holding) \in Nat /\ Cardinality(Creating) \in Nat /\ Cardinality(Client) \in Nat
<1>1. Holding \subseteq Client /\ Creating \subseteq Client /\ Holding \intersect Creating = {}
  BY DEF Holding, Creating
<1>2. QED
  BY <1>1, ClientAssumption, FS_Subset, FS_CardinalityType

-----------------------------------------------------------------------------
(* What a step has to keep, but for the bound of TotalBounded.              *)

Core == PoolConsistent /\ Exclusion /\ UsersInv

\* The connections of a thread that uses the pool while it runs.
LEMMA HeldInUse ==
  ASSUME Core, NEW c \in Client, pc[c] = "holding"
  PROVE  /\ held[c] \in Conn /\ wire[held[c]] # "none"
         /\ running => held[c] \in inUse /\ held[c] \in Elems(all) /\ held[c] \notin Elems(idle)
         /\ \A d \in Holding : held[d] = held[c] => d = c
<1>1. held[c] \in Conn \union {Nil} /\ held[c] # Nil /\ c \in Holding
  BY DEF Core, PoolConsistent, TypeOK, UsersInv, Holding
<1>2. QED
  BY <1>1 DEF Core, PoolConsistent, Exclusion

\* acquire() takes an idle connection, and discards the invalid ones before it.
LEMMA ReuseStep ==
  ASSUME Core, NEW c \in Client, Reuse(c)
  PROVE  Core'
<1> DEFINE k == Head(Drop(idle, Discarded))
<1>1. /\ TypeOK /\ running /\ ~destroyed /\ pc[c] = "loop"
      /\ Drop(idle, Discarded) # << >>
      /\ idle' = Drop(idle, Discarded \cup {k}) /\ inUse' = inUse \cup {k} /\ active' = active + 1
      /\ held' = [held EXCEPT ![c] = k] /\ all' = Drop(all, Discarded)
      /\ wire' = [j \in Conn |-> IF j \in Discarded THEN "none" ELSE wire[j]]
      /\ pc' = [pc EXCEPT ![c] = "holding"] /\ late' = late \ {c}
      /\ UNCHANGED <<running, destroyed>>
  BY DEF Core, PoolConsistent, Reuse, InLoop, Lend, Leave, Requeued
<1>2. /\ all \in Seq(Conn) /\ idle \in Seq(Conn) /\ Distinct(all) /\ Distinct(idle)
      /\ inUse \subseteq Elems(all) /\ Elems(idle) = Elems(all) \ inUse /\ active = Cardinality(inUse)
      /\ Elems(all) \subseteq Conn
  BY ElemsFinite DEF Core, PoolConsistent, TypeOK
<1>3. Discarded \subseteq Elems(idle)
  BY <1>1, DiscardedIdle
<1>4. k \in Elems(idle) /\ k \notin Discarded /\ k \in Conn
  <2>1. Drop(idle, Discarded) \in Seq(Conn) /\ Elems(Drop(idle, Discarded)) = Elems(idle) \ Discarded
    BY <1>2, DropType, DropElems
  <2>2. QED
    BY <1>1, <2>1, HeadElems
<1> HIDE DEF k
<1>5. /\ all' \in Seq(Conn) /\ Distinct(all') /\ Elems(all') = Elems(all) \ Discarded
      /\ idle' \in Seq(Conn) /\ Distinct(idle') /\ Elems(idle') = Elems(idle) \ (Discarded \cup {k})
  BY <1>1, <1>2, DropType, DropElems, DropDistinct
<1>6. active' = Cardinality(inUse') /\ active' \in Nat
  <2>1. IsFiniteSet(inUse) /\ active \in Nat /\ k \notin inUse
    BY <1>2, <1>4, InUseFinite DEF Core
  <2>2. Cardinality(inUse \cup {k}) = Cardinality(inUse) + 1
    BY <2>1, FS_AddElement
  <2>3. QED
    BY <1>1, <1>2, <2>1, <2>2
<1>7. TypeOK'
  BY <1>1, <1>2, <1>4, <1>5, <1>6 DEF TypeOK
<1>8. PoolConsistent'
  BY <1>1, <1>2, <1>3, <1>4, <1>5, <1>6, <1>7 DEF PoolConsistent
<1>9. \A d \in Holding : /\ held[d] \in inUse /\ held[d] \in Conn /\ held[d] \notin Discarded
                         /\ held[d] # k /\ wire[held[d]] # "none"
  BY <1>1, <1>2, <1>3, <1>4, HeldInUse DEF Holding
<1>10. Holding' = Holding \cup {c} /\ c \notin Holding
  BY <1>1 DEF Holding, TypeOK
<1>11. held'[c] = k /\ \A d \in Holding : held'[d] = held[d]
  BY <1>1, <1>10 DEF TypeOK, Holding
<1>12. wire[k] # "none" /\ wire'[k] = wire[k]
  BY <1>1, <1>2, <1>4 DEF Core, UsersInv
<1>13. Exclusion'
  <2>1. ASSUME NEW d \in Holding' PROVE wire'[held'[d]] # "none"
    BY <1>1, <1>9, <1>10, <1>11, <1>12
  <2>2. ASSUME NEW d \in Holding', NEW e \in Holding', held'[d] = held'[e] PROVE d = e
    BY <1>9, <1>10, <1>11, <2>2 DEF Core, Exclusion
  <2>3. inUse' = {held'[d] : d \in Holding'}
    <3>1. inUse = {held[d] : d \in Holding}
      BY <1>1 DEF Core, Exclusion
    <3>2. QED
      BY <1>1, <1>10, <1>11, <3>1
  <2>4. QED
    BY <2>1, <2>2, <2>3 DEF Exclusion
<1>14. UsersInv'
  <2>1. \A d \in Client : pc'[d] = "holding" <=> held'[d] # Nil
    BY <1>1, <1>4, ClientAssumption DEF Core, UsersInv, TypeOK
  <2>2. \A j \in Elems(all') : wire'[j] # "none"
    BY <1>1, <1>2, <1>5 DEF Core, UsersInv
  <2>3. QED
    BY <1>1, <2>1, <2>2 DEF UsersInv
<1>15. QED
  BY <1>8, <1>13, <1>14 DEF Core

\* Steps that touch neither the records nor the users.
LEMMA QuietStep ==
  ASSUME Core, UNCHANGED <<poolVars, wire, held, destroyed>>,
         running' \in BOOLEAN, running' => running, destroyed => ~running',
         pc' \in [Client -> {"out", "loop", "creating", "waiting", "holding"}],
         \A c \in Client : pc'[c] = "holding" <=> pc[c] = "holding",
         late' \subseteq Client
  PROVE  Core'
<1>1. TypeOK'
  BY DEF Core, PoolConsistent, TypeOK, poolVars
<1>2. PoolConsistent'
  BY <1>1 DEF Core, PoolConsistent, poolVars
<1>3. Holding' = Holding
  BY DEF Holding
<1>4. Exclusion'
  BY <1>3 DEF Core, Exclusion, poolVars
<1>5. UsersInv'
  BY DEF Core, UsersInv, poolVars
<1>6. QED
  BY <1>2, <1>4, <1>5 DEF Core

\* acquire() finds no idle connection: it creates one, waits or gives up.
LEMMA ExhaustedStep ==
  ASSUME Core, NEW c \in Client, Exhausted(c), late' \subseteq Client,
         NEW to \in {"out", "creating", "waiting"}, pc' = [pc EXCEPT ![c] = to]
  PROVE  Core'
<1>1. /\ TypeOK /\ running /\ ~destroyed /\ pc[c] = "loop"
      /\ Drop(idle, Discarded) = << >> /\ idle' = << >> /\ all' = Drop(all, Discarded)
      /\ wire' = [j \in Conn |-> IF j \in Discarded THEN "none" ELSE wire[j]]
      /\ UNCHANGED <<running, destroyed, inUse, active, held>>
  BY DEF Core, PoolConsistent, Exhausted, InLoop
<1>2. /\ all \in Seq(Conn) /\ idle \in Seq(Conn) /\ Distinct(all)
      /\ inUse \subseteq Elems(all) /\ Elems(idle) = Elems(all) \ inUse /\ active = Cardinality(inUse)
      /\ Elems(all) \subseteq Conn
  BY ElemsFinite DEF Core, PoolConsistent, TypeOK
<1>3. Discarded = Elems(idle)
  BY <1>1, <1>2, DiscardedIdle, DropEmpty
<1>4. /\ all' \in Seq(Conn) /\ Distinct(all') /\ Elems(all') = Elems(all) \ Discarded
      /\ idle' \in Seq(Conn) /\ Distinct(idle') /\ Elems(idle') = {}
  <2>1. idle' \in Seq(Conn) /\ Distinct(idle') /\ Elems(idle') = {}
    BY <1>1 DEF Distinct, Elems
  <2>2. QED
    BY <1>1, <1>2, <2>1, DropType, DropElems, DropDistinct
<1>5. TypeOK'
  BY <1>1, <1>4 DEF TypeOK
<1>6. PoolConsistent'
  BY <1>1, <1>2, <1>3, <1>4, <1>5 DEF PoolConsistent
<1>7. Holding' = Holding
  BY <1>1 DEF Holding, TypeOK
<1>8. \A d \in Holding : held[d] \in Conn /\ held[d] \notin Discarded /\ wire[held[d]] # "none"
  BY <1>1, <1>3, HeldInUse DEF Holding
<1>9. Exclusion'
  BY <1>1, <1>7, <1>8 DEF Core, Exclusion
<1>10. UsersInv'
  <2>1. \A d \in Client : pc'[d] = "holding" <=> held'[d] # Nil
    BY <1>1 DEF Core, UsersInv, TypeOK
  <2>2. \A j \in Elems(all') : wire'[j] # "none"
    BY <1>1, <1>2, <1>4 DEF Core, UsersInv
  <2>3. QED
    BY <1>1, <2>1, <2>2 DEF UsersInv
<1>11. QED
  BY <1>6, <1>9, <1>10 DEF Core

\* A connection that has been made is recorded and lent.
LEMMA CreatedStep ==
  ASSUME Core, NEW c \in Client, Created(c)
  PROVE  Core'
<1> DEFINE k == Fresh
<1>1. k \in Conn /\ wire[k] = "none"
  BY DEF Created, Fresh
<1>2. /\ TypeOK /\ ~destroyed /\ pc[c] = "creating" /\ wire' = [wire EXCEPT ![k] = "up"]
      /\ all' = Append(all, k) /\ inUse' = inUse \cup {k} /\ active' = active + 1
      /\ held' = [held EXCEPT ![c] = k] /\ pc' = [pc EXCEPT ![c] = "holding"]
      /\ late' = late \ {c} /\ UNCHANGED <<running, destroyed, idle>>
  BY DEF Core, PoolConsistent, Created, Lend, Leave
<1> HIDE DEF k
<1>3. /\ all \in Seq(Conn) /\ idle \in Seq(Conn) /\ Distinct(all) /\ Distinct(idle)
      /\ inUse \subseteq Elems(all) /\ Elems(idle) = Elems(all) \ inUse /\ active = Cardinality(inUse)
      /\ Elems(all) \subseteq Conn
  BY ElemsFinite DEF Core, PoolConsistent, TypeOK
<1>4. k \notin Elems(all)
  BY <1>1 DEF Core, UsersInv
<1>5. all' \in Seq(Conn) /\ Distinct(all') /\ Elems(all') = Elems(all) \cup {k}
  BY <1>1, <1>2, <1>3, <1>4, AppendElems
<1>6. active' = Cardinality(inUse') /\ active' \in Nat
  <2>1. IsFiniteSet(inUse) /\ active \in Nat /\ k \notin inUse
    BY <1>3, <1>4, InUseFinite DEF Core
  <2>2. Cardinality(inUse \cup {k}) = Cardinality(inUse) + 1
    BY <2>1, FS_AddElement
  <2>3. QED
    BY <1>2, <1>3, <2>1, <2>2
<1>7. TypeOK'
  BY <1>1, <1>2, <1>3, <1>5, <1>6 DEF TypeOK
<1>8. PoolConsistent'
  BY <1>2, <1>3, <1>4, <1>5, <1>6, <1>7 DEF PoolConsistent
<1>9. \A d \in Holding : held[d] \in Conn /\ held[d] # k /\ wire[held[d]] # "none"
  BY <1>1, HeldInUse DEF Holding
<1>10. Holding' = Holding \cup {c} /\ c \notin Holding
  BY <1>2 DEF Holding, TypeOK
<1>11. held'[c] = k /\ \A d \in Holding : held'[d] = held[d]
  BY <1>2, <1>10 DEF TypeOK, Holding
<1>12. wire'[k] = "up" /\ \A d \in Holding : wire'[held[d]] = wire[held[d]]
  BY <1>1, <1>2, <1>9 DEF TypeOK
<1>13. Exclusion'
  <2>1. ASSUME NEW d \in Holding' PROVE wire'[held'[d]] # "none"
    BY <1>9, <1>10, <1>11, <1>12
  <2>2. ASSUME NEW d \in Holding', NEW e \in Holding', held'[d] = held'[e] PROVE d = e
    BY <1>9, <1>10, <1>11, <2>2 DEF Core, Exclusion
  <2>3. running' => inUse' = {held'[d] : d \in Holding'}
    <3>1. running => inUse = {held[d] : d \in Holding}
      BY DEF Core, Exclusion
    <3>2. QED
      BY <1>2, <1>10, <1>11, <3>1
  <2>4. QED
    BY <2>1, <2>2, <2>3 DEF Exclusion
<1>14. UsersInv'
  <2>1. \A d \in Client : pc'[d] = "holding" <=> held'[d] # Nil
    BY <1>1, <1>2, ClientAssumption DEF Core, UsersInv, TypeOK
  <2>2. \A j \in Elems(all') : wire'[j] # "none"
    BY <1>2, <1>3, <1>5 DEF Core, UsersInv, TypeOK
  <2>3. QED
    BY <1>2, <2>1, <2>2 DEF UsersInv
<1>15. QED
  BY <1>8, <1>13, <1>14 DEF Core

\* The threads that are left when c gives its connection back.
LEMMA GivenBack ==
  ASSUME Core, NEW c \in Client, GiveBack(c),
         pc' \in [Client -> {"out", "loop", "creating", "waiting", "holding"}],
         \A d \in Client : pc'[d] = "holding" <=> pc[d] = "holding" /\ d # c
  PROVE  /\ held' \in [Client -> Conn \cup {Nil}]
         /\ Holding' = Holding \ {c} /\ c \in Holding
         /\ \A d \in Holding' : held'[d] = held[d] /\ held[d] \in Conn /\ held[d] # held[c]
         /\ \A d \in Client : pc'[d] = "holding" <=> held'[d] # Nil
<1>1. pc[c] = "holding" /\ held' = [held EXCEPT ![c] = Nil] /\ TypeOK
  BY DEF GiveBack, Core, PoolConsistent
<1>2. held' \in [Client -> Conn \cup {Nil}]
  BY <1>1 DEF TypeOK
<1>3. Holding' = Holding \ {c} /\ c \in Holding
  BY <1>1 DEF Holding
<1>4. ASSUME NEW d \in Holding' PROVE held'[d] = held[d] /\ held[d] \in Conn /\ held[d] # held[c]
  <2>1. d \in Client /\ d # c /\ d \in Holding /\ pc[d] = "holding"
    BY <1>3 DEF Holding
  <2>2. QED
    BY <1>1, <2>1, HeldInUse DEF TypeOK
<1>5. \A d \in Client : pc'[d] = "holding" <=> held'[d] # Nil
  BY <1>1 DEF Core, UsersInv, TypeOK
<1>6. QED
  BY <1>2, <1>3, <1>4, <1>5

\* c's connection is not in use any more.
LEMMA Unused ==
  ASSUME Core, running, NEW c \in Client, pc[c] = "holding"
  PROVE  /\ IsFiniteSet(inUse \ {held[c]}) /\ active - 1 \in Nat
         /\ active - 1 = Cardinality(inUse \ {held[c]})
<1>1. IsFiniteSet(inUse) /\ active \in Nat /\ active = Cardinality(inUse) /\ held[c] \in inUse
  BY HeldInUse, InUseFinite DEF Core, PoolConsistent
<1>2. IsFiniteSet(inUse \ {held[c]}) /\ Cardinality(inUse \ {held[c]}) = Cardinality(inUse) - 1
  BY <1>1, FS_RemoveElement
<1>3. Cardinality(inUse \ {held[c]}) \in Nat
  BY <1>2, FS_CardinalityType
<1>4. QED
  BY <1>1, <1>2, <1>3

\* A notification moves threads from wait_until back into the loop only.
LEMMA NotifiedStep ==
  ASSUME TypeOK, NEW c \in Client, pc[c] = "holding", pc' \in Notified([pc EXCEPT ![c] = "out"])
  PROVE  /\ pc' \in [Client -> {"out", "loop", "creating", "waiting", "holding"}]
         /\ \A d \in Client : /\ pc'[d] = "holding" <=> pc[d] = "holding" /\ d # c
                              /\ pc'[d] = "creating" <=> pc[d] = "creating"
<1> DEFINE p == [pc EXCEPT ![c] = "out"]
<1>1. /\ p \in [Client -> {"out", "loop", "creating", "waiting", "holding"}]
      /\ \A d \in Client : p[d] = IF d = c THEN "out" ELSE pc[d]
  BY DEF TypeOK
<1> HIDE DEF p
<1>2. pc' = p \/ \E d \in Client : p[d] = "waiting" /\ pc' = [p EXCEPT ![d] = "loop"]
  BY DEF Notified, p
<1>3. QED
  BY <1>1, <1>2

\* release() of a valid connection.
LEMMA ReleaseKeeps ==
  ASSUME Core, NEW c \in Client, Release(c)
  PROVE  Core'
<1> DEFINE k == held[c]
<1>1. /\ TypeOK /\ running /\ GiveBack(c) /\ pc[c] = "holding" /\ held' = [held EXCEPT ![c] = Nil]
      /\ idle' = Append(idle, k) /\ inUse' = inUse \ {k} /\ active' = active - 1
      /\ UNCHANGED <<running, destroyed, all, wire, late>>
  BY DEF Core, PoolConsistent, Release, GiveBack
<1>2. /\ pc' \in [Client -> {"out", "loop", "creating", "waiting", "holding"}]
      /\ \A d \in Client : pc'[d] = "holding" <=> pc[d] = "holding" /\ d # c
  BY <1>1, NotifiedStep DEF Release
<1>3. /\ all \in Seq(Conn) /\ idle \in Seq(Conn) /\ Distinct(all) /\ Distinct(idle)
      /\ inUse \subseteq Elems(all) /\ Elems(idle) = Elems(all) \ inUse
  BY DEF Core, PoolConsistent, TypeOK
<1>4. k \in Conn /\ k \in inUse /\ k \in Elems(all) /\ k \notin Elems(idle)
  BY <1>1, HeldInUse
<1>5. idle' \in Seq(Conn) /\ Distinct(idle') /\ Elems(idle') = Elems(idle) \cup {k}
  BY <1>1, <1>3, <1>4, AppendElems
<1>6. active' \in Nat /\ active' = Cardinality(inUse')
  BY <1>1, Unused
<1>7. /\ held' \in [Client -> Conn \cup {Nil}]
      /\ Holding' = Holding \ {c} /\ c \in Holding
      /\ \A d \in Holding' : held'[d] = held[d] /\ held[d] \in Conn /\ held[d] # held[c]
      /\ \A d \in Client : pc'[d] = "holding" <=> held'[d] # Nil
  BY <1>1, <1>2, GivenBack
<1>8. TypeOK'
  BY <1>1, <1>2, <1>5, <1>6, <1>7 DEF TypeOK
<1>9. PoolConsistent'
  BY <1>1, <1>3, <1>4, <1>5, <1>6, <1>8 DEF PoolConsistent
<1>10. inUse' = {held'[d] : d \in Holding'}
  <2>1. inUse = {held[d] : d \in Holding}
    BY <1>1 DEF Core, Exclusion
  <2>2. QED
    BY <1>1, <1>7, <2>1
<1>11. Exclusion'
  BY <1>1, <1>7, <1>10 DEF Core, Exclusion
<1>12. UsersInv'
  BY <1>1, <1>7 DEF Core, UsersInv
<1>13. QED
  BY <1>9, <1>11, <1>12 DEF Core

\* release() of an invalid one, which removeConnection() takes out.
LEMMA ReleaseBrokenKeeps ==
  ASSUME Core, NEW c \in Client, ReleaseBroken(c)
  PROVE  Core'
<1> DEFINE k == held[c]
<1>1. /\ TypeOK /\ running /\ GiveBack(c) /\ pc[c] = "holding"
      /\ all' = Drop(all, {k}) /\ inUse' = inUse \ {k} /\ active' = active - 1
      /\ wire' = [wire EXCEPT ![k] = "none"] /\ pc' = [pc EXCEPT ![c] = "out"]
      /\ UNCHANGED <<running, destroyed, idle, late>>
  BY DEF Core, PoolConsistent, ReleaseBroken, GiveBack, Removed
<1>2. /\ pc' \in [Client -> {"out", "loop", "creating", "waiting", "holding"}]
      /\ \A d \in Client : pc'[d] = "holding" <=> pc[d] = "holding" /\ d # c
  BY <1>1 DEF TypeOK
<1>3. /\ all \in Seq(Conn) /\ idle \in Seq(Conn) /\ Distinct(all) /\ Distinct(idle)
      /\ inUse \subseteq Elems(all) /\ Elems(idle) = Elems(all) \ inUse /\ Elems(all) \subseteq Conn
  BY ElemsFinite DEF Core, PoolConsistent, TypeOK
<1>4. k \in Conn /\ k \in inUse /\ k \in Elems(all) /\ k \notin Elems(idle)
  BY <1>1, HeldInUse
<1>5. all' \in Seq(Conn) /\ Distinct(all') /\ Elems(all') = Elems(all) \ {k}
  BY <1>1, <1>3, DropType, DropElems, DropDistinct
<1>6. active' \in Nat /\ active' = Cardinality(inUse')
  BY <1>1, Unused
<1>7. /\ held' \in [Client -> Conn \cup {Nil}]
      /\ Holding' = Holding \ {c} /\ c \in Holding
      /\ \A d \in Holding' : held'[d] = held[d] /\ held[d] \in Conn /\ held[d] # held[c]
      /\ \A d \in Client : pc'[d] = "holding" <=> held'[d] # Nil
  BY <1>1, <1>2, GivenBack
<1>8. TypeOK'
  BY <1>1, <1>2, <1>4, <1>5, <1>6, <1>7 DEF TypeOK
<1>9. PoolConsistent'
  BY <1>1, <1>3, <1>4, <1>5, <1>6, <1>8 DEF PoolConsistent
<1>10. inUse' = {held'[d] : d \in Holding'}
  <2>1. inUse = {held[d] : d \in Holding}
    BY <1>1 DEF Core, Exclusion
  <2>2. QED
    BY <1>1, <1>7, <2>1
<1>11. \A j \in Conn : j # k => wire'[j] = wire[j]
  BY <1>1 DEF TypeOK
<1>12. Exclusion'
  <2>1. ASSUME NEW d \in Holding' PROVE wire'[held'[d]] # "none"
    BY <1>7, <1>11 DEF Core, Exclusion
  <2>2. ASSUME NEW d \in Holding', NEW e \in Holding', held'[d] = held'[e] PROVE d = e
    BY <1>7, <2>2 DEF Core, Exclusion
  <2>3. QED
    BY <1>10, <2>1, <2>2 DEF Exclusion
<1>13. UsersInv'
  BY <1>1, <1>3, <1>5, <1>7, <1>11 DEF Core, UsersInv
<1>14. QED
  BY <1>9, <1>12, <1>13 DEF Core

\* release() after stop().
LEMMA ReleaseStoppedKeeps ==
  ASSUME Core, NEW c \in Client, ReleaseStopped(c)
  PROVE  Core'
<1> DEFINE k == held[c]
<1>1. /\ TypeOK /\ ~running /\ GiveBack(c) /\ pc[c] = "holding" /\ pc' = [pc EXCEPT ![c] = "out"]
      /\ wire' = IF destroyed THEN [wire EXCEPT ![k] = "none"] ELSE wire
      /\ UNCHANGED <<running, destroyed, poolVars, late>>
  BY DEF Core, PoolConsistent, ReleaseStopped, GiveBack
<1>2. /\ pc' \in [Client -> {"out", "loop", "creating", "waiting", "holding"}]
      /\ \A d \in Client : pc'[d] = "holding" <=> pc[d] = "holding" /\ d # c
  BY <1>1 DEF TypeOK
<1>3. /\ held' \in [Client -> Conn \cup {Nil}]
      /\ Holding' = Holding \ {c} /\ c \in Holding
      /\ \A d \in Holding' : held'[d] = held[d] /\ held[d] \in Conn /\ held[d] # held[c]
      /\ \A d \in Client : pc'[d] = "holding" <=> held'[d] # Nil
  BY <1>1, <1>2, GivenBack
<1>4. k \in Conn
  BY <1>1, HeldInUse
<1>5. /\ wire' \in [Conn -> {"none", "up", "peerClosed", "broken"}]
      /\ \A j \in Conn : j # k \/ ~destroyed => wire'[j] = wire[j]
  BY <1>1, <1>4 DEF TypeOK
<1>6. TypeOK'
  BY <1>1, <1>2, <1>3, <1>5 DEF TypeOK, poolVars
<1>7. PoolConsistent'
  BY <1>1, <1>6 DEF Core, PoolConsistent, poolVars
<1>8. Exclusion'
  <2>1. ASSUME NEW d \in Holding' PROVE wire'[held'[d]] # "none"
    BY <1>3, <1>5 DEF Core, Exclusion
  <2>2. ASSUME NEW d \in Holding', NEW e \in Holding', held'[d] = held'[e] PROVE d = e
    BY <1>3, <2>2 DEF Core, Exclusion
  <2>3. QED
    BY <1>1, <2>1, <2>2 DEF Exclusion
<1>9. UsersInv'
  <2>1. \A j \in Elems(all') : wire'[j] # "none"
    <3>1. CASE destroyed
      BY <1>1, <3>1 DEF Core, UsersInv, Elems, poolVars
    <3>2. CASE ~destroyed
      BY <1>1, <3>2 DEF Core, UsersInv, poolVars
    <3>3. QED
      BY <3>1, <3>2
  <2>2. QED
    BY <1>1, <1>3, <2>1 DEF Core, UsersInv, poolVars
<1>10. QED
  BY <1>7, <1>8, <1>9 DEF Core

\* The peer closes a connection, or a thread finds that it has.
LEMMA WireStep ==
  ASSUME Core, UNCHANGED <<running, destroyed, poolVars, pc, held, late>>,
         NEW k \in Conn, wire[k] # "none", NEW state \in {"peerClosed", "broken"},
         wire' = [wire EXCEPT ![k] = state]
  PROVE  Core'
<1>1. TypeOK'
  BY DEF Core, PoolConsistent, TypeOK, poolVars
<1>2. PoolConsistent'
  BY <1>1 DEF Core, PoolConsistent, poolVars
<1>3. \A j \in Conn : wire[j] # "none" => wire'[j] # "none"
  BY DEF Core, PoolConsistent, TypeOK
<1>4. Holding' = Holding /\ \A c \in Holding : held[c] \in Conn
  BY HeldInUse DEF Holding
<1>5. Exclusion'
  BY <1>3, <1>4 DEF Core, Exclusion, poolVars
<1>6. Elems(all) \subseteq Conn
  BY ElemsFinite DEF Core, PoolConsistent, TypeOK
<1>7. UsersInv'
  BY <1>3, <1>6 DEF Core, UsersInv, poolVars
<1>8. QED
  BY <1>2, <1>5, <1>7 DEF Core

\* cleanupIdleConnections() erases what has expired.
LEMMA CleanupStep ==
  ASSUME Core, NEW expired \in SUBSET Elems(idle), Cleanup(expired)
  PROVE  Core'
<1> DEFINE gone == Removable(expired)
<1>1. /\ TypeOK /\ running /\ all' = Drop(all, gone) /\ idle' = Drop(all, gone \cup inUse)
      /\ wire' = [k \in Conn |-> IF k \in gone THEN "none" ELSE wire[k]]
      /\ UNCHANGED <<running, destroyed, inUse, active, pc, held, late>>
  BY DEF Core, PoolConsistent, Cleanup
<1>2. gone \subseteq Elems(all) /\ gone \intersect inUse = {}
  BY RemovableFree DEF Core
<1> HIDE DEF gone
<1>3. /\ all \in Seq(Conn) /\ Distinct(all) /\ Elems(all) \subseteq Conn
      /\ inUse \subseteq Elems(all) /\ active = Cardinality(inUse)
  BY ElemsFinite DEF Core, PoolConsistent, TypeOK
<1>4. /\ all' \in Seq(Conn) /\ Distinct(all') /\ Elems(all') = Elems(all) \ gone
      /\ idle' \in Seq(Conn) /\ Distinct(idle') /\ Elems(idle') = Elems(all) \ (gone \cup inUse)
  BY <1>1, <1>3, DropType, DropElems, DropDistinct
<1>5. TypeOK'
  BY <1>1, <1>4 DEF TypeOK
<1>6. PoolConsistent'
  BY <1>1, <1>2, <1>3, <1>4, <1>5 DEF PoolConsistent
<1>7. Holding' = Holding /\ \A c \in Holding : held[c] \in Conn /\ held[c] \notin gone
  BY <1>1, <1>2, HeldInUse DEF Holding
<1>8. Exclusion'
  BY <1>1, <1>7 DEF Core, Exclusion
<1>9. UsersInv'
  BY <1>1, <1>3, <1>4 DEF Core, UsersInv
<1>10. QED
  BY <1>6, <1>8, <1>9 DEF Core

\* The destructor of the pool.
LEMMA DestroyStep ==
  ASSUME Core, Destroy
  PROVE  Core'
<1>1. /\ TypeOK /\ ~running /\ destroyed' = TRUE /\ all' = << >> /\ idle' = << >> /\ inUse' = {} /\ active' = 0
      /\ wire' = [k \in Conn |-> IF \E c \in Client : held[c] = k THEN "broken" ELSE "none"]
      /\ UNCHANGED <<running, pc, held, late>>
  BY DEF Core, PoolConsistent, Destroy
<1>2. Distinct(<< >>) /\ Elems(<< >>) = {} /\ Cardinality({}) = 0
  BY FS_EmptySet DEF Distinct, Elems
<1>3. wire' \in [Conn -> {"none", "up", "peerClosed", "broken"}]
  BY <1>1
<1>4. TypeOK'
  BY <1>1, <1>3 DEF TypeOK
<1>5. PoolConsistent'
  BY <1>1, <1>2, <1>4 DEF PoolConsistent
<1>6. Holding' = Holding /\ \A c \in Holding : c \in Client /\ held[c] \in Conn
  BY <1>1, HeldInUse DEF Holding
<1>7. Exclusion'
  BY <1>1, <1>6 DEF Core, Exclusion
<1>8. UsersInv'
  BY <1>1, <1>2 DEF Core, UsersInv
<1>9. QED
  BY <1>5, <1>7, <1>8 DEF Core

\* Every step keeps the records of the pool in agreement with each other and
\* with what the threads hold.
LEMMA CoreStep == Core /\ [Next]_vars => Core'
<1> SUFFICES ASSUME Core, [Next]_vars PROVE Core'
  OBVIOUS
<1>1. TypeOK /\ (destroyed => ~running)
  BY DEF Core, PoolConsistent, UsersInv
<1>2. ASSUME NEW c \in Client, Acquire(c) PROVE Core'
  BY <1>1, <1>2, QuietStep DEF Acquire, TypeOK
<1>3. ASSUME NEW c \in Client, Deadline(c) PROVE Core'
  BY <1>1, <1>3, QuietStep DEF Deadline, TypeOK
<1>4. ASSUME NEW c \in Client, Reuse(c) PROVE Core'
  BY <1>4, ReuseStep
<1>5. ASSUME NEW c \in Client, StartCreate(c) PROVE Core'
  BY <1>1, <1>5, ExhaustedStep DEF StartCreate, TypeOK
<1>6. ASSUME NEW c \in Client, WaitForRelease(c) PROVE Core'
  BY <1>1, <1>6, ExhaustedStep DEF WaitForRelease, TypeOK
<1>7. ASSUME NEW c \in Client, TimeOut(c) PROVE Core'
  BY <1>1, <1>7, ExhaustedStep DEF TimeOut, Leave, TypeOK
<1>8. ASSUME NEW c \in Client, Created(c) PROVE Core'
  BY <1>8, CreatedStep
<1>9. ASSUME NEW c \in Client, CreateFails(c) PROVE Core'
  BY <1>1, <1>9, QuietStep DEF CreateFails, Leave, TypeOK
<1>10. ASSUME NEW c \in Client, WakeUp(c) PROVE Core'
  BY <1>1, <1>10, QuietStep DEF WakeUp, TypeOK
<1>11. ASSUME NEW c \in Client, ShuttingDown(c) PROVE Core'
  BY <1>1, <1>11, QuietStep DEF ShuttingDown, Leave, TypeOK
<1>12. ASSUME NEW c \in Client, ReleaseStep(c) PROVE Core'
  BY <1>12, ReleaseKeeps, ReleaseBrokenKeeps, ReleaseStoppedKeeps DEF ReleaseStep
<1>13. ASSUME NEW c \in Client, UseFails(c) PROVE Core'
  BY <1>13, HeldInUse, WireStep DEF UseFails
<1>14. ASSUME NEW k \in Conn, PeerCloses(k) PROVE Core'
  BY <1>14, WireStep DEF PeerCloses
<1>15. ASSUME NEW expired \in SUBSET Elems(idle), Cleanup(expired) PROVE Core'
  BY <1>15, CleanupStep
<1>16. CASE Stop
  BY <1>1, <1>16, QuietStep DEF Stop, TypeOK
<1>17. CASE Destroy
  BY <1>17, DestroyStep
<1>18. CASE UNCHANGED vars
  <2>1. UNCHANGED <<poolVars, wire, held, destroyed>> /\ UNCHANGED <<running, pc, late>>
    BY <1>18 DEF vars
  <2>2. QED
    BY <1>1, <2>1, QuietStep DEF TypeOK
<1>19. QED
  BY <1>2, <1>3, <1>4, <1>5, <1>6, <1>7, <1>8, <1>9, <1>10, <1>11, <1>12, <1>13, <1>14, <1>15,
     <1>16, <1>17, <1>18 DEF Next, AcquireStep

-----------------------------------------------------------------------------
(* The bound.                                                               *)

\* A step that lists no new connection and starts to create none.
LEMMA FewerListed ==
  ASSUME IInv, Core', Elems(all') \subseteq Elems(all), Creating' \subseteq Creating
  PROVE  TotalBounded'
<1>1. /\ all \in Seq(Conn) /\ Distinct(all) /\ all' \in Seq(Conn) /\ Distinct(all')
  BY DEF IInv, ExclusiveUse, Core, PoolConsistent, TypeOK
<1>2. /\ Cardinality(Elems(all)) = Len(all) /\ Cardinality(Elems(all')) = Len(all')
      /\ IsFiniteSet(Elems(all))
  BY <1>1, DistinctLen, ElemsFinite
<1>3. Cardinality(Elems(all')) <= Cardinality(Elems(all))
  BY <1>2, FS_Subset
<1>4. /\ IsFiniteSet(Creating) /\ Cardinality(Creating) \in Nat /\ Cardinality(Client) \in Nat
  BY ThreadsFinite
<1>5. Cardinality(Creating') <= Cardinality(Creating) /\ Cardinality(Creating') \in Nat
  BY <1>4, FS_Subset, FS_CardinalityType
<1>6. Len(all) + Cardinality(Creating) <= Cardinality(Client)
  BY DEF IInv, ExclusiveUse, TotalBounded
<1>7. Len(all') \in Nat /\ Len(all) \in Nat
  BY <1>1
<1>8. QED
  BY <1>2, <1>3, <1>4, <1>5, <1>6, <1>7 DEF TotalBounded

\* Whoever creates a connection found none idle: all that are listed are in
\* use, by threads that do not create any.
LEMMA StartCreateBounded ==
  ASSUME IInv, Core', NEW c \in Client, StartCreate(c)
  PROVE  TotalBounded'
<1>1. /\ TypeOK /\ running /\ running' /\ pc[c] = "loop" /\ idle' = << >> /\ pc' = [pc EXCEPT ![c] = "creating"]
  BY DEF IInv, ExclusiveUse, PoolConsistent, StartCreate, Exhausted, InLoop
<1>2. Creating' = Creating \cup {c} /\ c \notin Creating /\ c \notin Holding /\ Holding' = Holding
  BY <1>1 DEF Creating, Holding, TypeOK
<1>3. /\ all' \in Seq(Conn) /\ Distinct(all') /\ inUse' \subseteq Elems(all')
      /\ Elems(idle') = Elems(all') \ inUse'
  BY DEF Core, PoolConsistent, TypeOK
<1>4. Elems(all') = inUse'
  BY <1>1, <1>3 DEF Elems
<1>5. inUse' = {held'[d] : d \in Holding'}
  BY <1>1 DEF Core, Exclusion
<1> DEFINE f == [d \in Holding |-> held'[d]]
<1>6. f \in Surjection(Holding, Elems(all'))
  BY <1>2, <1>4, <1>5 DEF Surjection
<1>7. Len(all') \in Nat /\ Len(all') <= Cardinality(Holding)
  BY <1>3, <1>6, DistinctLen, FS_Surjection, ThreadsFinite
<1>8. /\ IsFiniteSet(Creating') /\ Cardinality(Creating') \in Nat
      /\ IsFiniteSet(Holding) /\ Cardinality(Holding) \in Nat /\ Cardinality(Client) \in Nat
  <2>1. IsFiniteSet(Creating')
    BY <1>2, ThreadsFinite, FS_AddElement
  <2>2. QED
    BY <2>1, ThreadsFinite, FS_CardinalityType
<1>9. Holding \cup Creating' \subseteq Client /\ Holding \cap Creating' = {}
  BY <1>2, ThreadsFinite
<1>10. Cardinality(Holding \cup Creating') = Cardinality(Holding) + Cardinality(Creating')
  <2>1. Cardinality(Holding \cup Creating') =
          Cardinality(Holding) + Cardinality(Creating') - Cardinality(Holding \cap Creating')
    BY <1>8, FS_Union
  <2>2. Cardinality(Holding \cap Creating') = 0
    BY <1>9, FS_EmptySet
  <2>3. QED
    BY <1>8, <2>1, <2>2
<1>11. Cardinality(Holding \cup Creating') <= Cardinality(Client)
  BY <1>9, ClientAssumption, FS_Subset
<1>12. QED
  BY <1>7, <1>8, <1>10, <1>11 DEF TotalBounded

\* The thread that was creating it has it now.
LEMMA CreatedBounded ==
  ASSUME IInv, NEW c \in Client, Created(c)
  PROVE  TotalBounded'
<1>1. /\ TypeOK /\ pc[c] = "creating" /\ pc' = [pc EXCEPT ![c] = "holding"] /\ all' = Append(all, Fresh)
      /\ Fresh \in Conn /\ all \in Seq(Conn)
  BY DEF IInv, ExclusiveUse, PoolConsistent, TypeOK, Created, Leave, Fresh
<1>2. Creating' = Creating \ {c} /\ c \in Creating
  BY <1>1 DEF Creating, TypeOK
<1>3. Cardinality(Creating \ {c}) = Cardinality(Creating) - 1 /\ Cardinality(Creating) \in Nat
  BY <1>2, ThreadsFinite, FS_RemoveElement
<1>4. Len(all') = Len(all) + 1 /\ Len(all) \in Nat
  BY <1>1
<1>5. Len(all) + Cardinality(Creating) <= Cardinality(Client) /\ Cardinality(Client) \in Nat
  BY ThreadsFinite DEF IInv, ExclusiveUse, TotalBounded
<1>6. QED
  BY <1>2, <1>3, <1>4, <1>5 DEF TotalBounded

\* Reuse, WaitForRelease and TimeOut only drop connections.
LEMMA DropListed ==
  ASSUME TypeOK, NEW gone, all' = Drop(all, gone)
  PROVE  Elems(all') \subseteq Elems(all)
BY DropElems DEF TypeOK

\* A thread creates a connection only where none is idle, so all recorded ones
\* are in use, each by another thread.
LEMMA BoundStep == IInv /\ Core' /\ [Next]_vars => TotalBounded'
<1> SUFFICES ASSUME IInv, Core', [Next]_vars PROVE TotalBounded'
  OBVIOUS
<1>1. TypeOK /\ Core
  BY DEF IInv, ExclusiveUse, Core, PoolConsistent
<1>2. ASSUME NEW c \in Client,
             Acquire(c) \/ Deadline(c) \/ CreateFails(c) \/ WakeUp(c) \/ ShuttingDown(c) \/ UseFails(c)
      PROVE  TotalBounded'
  <2>1. Elems(all') \subseteq Elems(all)
    BY <1>2 DEF Acquire, Deadline, CreateFails, WakeUp, ShuttingDown, UseFails, poolVars
  <2>2. Creating' \subseteq Creating
    BY <1>1, <1>2
       DEF Acquire, Deadline, CreateFails, WakeUp, ShuttingDown, UseFails, Leave, Creating, TypeOK
  <2>3. QED
    BY <2>1, <2>2, FewerListed
<1>3. ASSUME NEW c \in Client, Reuse(c) \/ WaitForRelease(c) \/ TimeOut(c)
      PROVE  TotalBounded'
  <2>1. Elems(all') \subseteq Elems(all)
    BY <1>1, <1>3, DropListed DEF Reuse, WaitForRelease, TimeOut, Exhausted
  <2>2. Creating' \subseteq Creating
    BY <1>1, <1>3 DEF Reuse, WaitForRelease, TimeOut, Leave, Creating, TypeOK
  <2>3. QED
    BY <2>1, <2>2, FewerListed
<1>4. ASSUME NEW c \in Client, StartCreate(c) PROVE TotalBounded'
  BY <1>4, StartCreateBounded
<1>5. ASSUME NEW c \in Client, Created(c) PROVE TotalBounded'
  BY <1>5, CreatedBounded
<1>6. ASSUME NEW c \in Client, ReleaseStep(c) PROVE TotalBounded'
  <2>1. Elems(all') \subseteq Elems(all)
    BY <1>1, <1>6, DropListed DEF ReleaseStep, Release, ReleaseBroken, ReleaseStopped, Removed, poolVars
  <2>2. \A d \in Client : pc'[d] = "creating" <=> pc[d] = "creating"
    <3>1. CASE Release(c)
      BY <1>1, <3>1, NotifiedStep DEF Release, GiveBack
    <3>2. CASE ReleaseBroken(c) \/ ReleaseStopped(c)
      BY <1>1, <3>2 DEF ReleaseBroken, ReleaseStopped, GiveBack, TypeOK
    <3>3. QED
      BY <1>6, <3>1, <3>2 DEF ReleaseStep
  <2>3. QED
    BY <2>1, <2>2, FewerListed DEF Creating
<1>7. ASSUME NEW k \in Conn, PeerCloses(k) PROVE TotalBounded'
  BY <1>7, FewerListed DEF PeerCloses, poolVars, Creating
<1>8. ASSUME NEW expired \in SUBSET Elems(idle), Cleanup(expired) PROVE TotalBounded'
  <2>1. Elems(all') \subseteq Elems(all)
    BY <1>1, <1>8, DropListed DEF Cleanup
  <2>2. QED
    BY <1>8, <2>1, FewerListed DEF Cleanup, Creating
<1>9. CASE Stop
  BY <1>9, FewerListed DEF Stop, poolVars, Creating
<1>10. CASE Destroy
  <2>1. Elems(all') \subseteq Elems(all)
    BY <1>10 DEF Destroy, Elems
  <2>2. QED
    BY <1>10, <2>1, FewerListed DEF Destroy, Creating
<1>11. CASE UNCHANGED vars
  BY <1>11, FewerListed DEF vars, poolVars, Creating
<1>12. QED
  BY <1>2, <1>3, <1>4, <1>5, <1>6, <1>7, <1>8, <1>9, <1>10, <1>11 DEF Next, AcquireStep

-----------------------------------------------------------------------------
(* The theorems.                                                            *)

\* The pool begins empty.
LEMMA InitInv == Init => IInv
<1> SUFFICES ASSUME Init PROVE IInv
  OBVIOUS
<1>1. Elems(<< >>) = {} /\ Distinct(<< >>) /\ Cardinality({}) = 0
  BY FS_EmptySet DEF Elems, Distinct
<1>2. Holding = {} /\ Creating = {} /\ \A c \in Client : pc[c] = "out" /\ held[c] = Nil
  BY DEF Init, Holding, Creating
<1>3. TypeOK
  <2>1. wire \in [Conn -> {"none", "up", "peerClosed", "broken"}]
    BY DEF Init
  <2>2. pc \in [Client -> {"out", "loop", "creating", "waiting", "holding"}]
    BY DEF Init
  <2>3. held \in [Client -> Conn \cup {Nil}]
    BY DEF Init
  <2>4. all \in Seq(Conn) /\ idle \in Seq(Conn) /\ active \in Nat
    BY DEF Init
  <2>5. running \in BOOLEAN /\ destroyed \in BOOLEAN /\ inUse \subseteq Conn /\ late \subseteq Client
    BY DEF Init
  <2>6. QED
    BY <2>1, <2>2, <2>3, <2>4, <2>5 DEF TypeOK
<1>4. PoolConsistent
  BY <1>1, <1>3 DEF Init, PoolConsistent
<1>5. Exclusion
  BY <1>2 DEF Init, Exclusion
<1>6. UsersInv
  BY <1>1, <1>2 DEF Init, UsersInv
<1>7. TotalBounded
  BY <1>1, <1>2, ThreadsFinite DEF Init, TotalBounded
<1>8. QED
  BY <1>4, <1>5, <1>6, <1>7 DEF IInv, ExclusiveUse

\* The inductive invariant: the pool's records, its users and its size.
THEOREM Invariant == Spec => []IInv
<1>1. Init => IInv
  BY InitInv
<1>2. IInv /\ [Next]_vars => IInv'
  <2> SUFFICES ASSUME IInv, [Next]_vars PROVE IInv'
    OBVIOUS
  <2>1. Core'
    BY CoreStep DEF IInv, ExclusiveUse, Core
  <2>2. TotalBounded'
    BY <2>1, BoundStep
  <2>3. QED
    BY <2>1, <2>2 DEF IInv, ExclusiveUse, Core
<1>3. QED
  BY <1>1, <1>2, PTL DEF Spec

\* The idle queue and the in_use flags divide all_connections, and active_count
\* counts the flags, through every acquire, release and cleanup.
THEOREM Consistency == Spec => []PoolConsistent
<1>1. IInv => PoolConsistent
  BY DEF IInv, ExclusiveUse
<1>2. QED
  BY <1>1, Invariant, PTL

\* No connection is lent to two threads, none is closed under the thread that
\* holds it while the pool runs, and no slot is lost.
THEOREM Exclusive == Spec => []ExclusiveUse
<1>1. IInv => ExclusiveUse
  BY DEF IInv, ExclusiveUse
<1>2. QED
  BY <1>1, Invariant, PTL

\* What bounds the pool, however many threads pass max_connections at once: it
\* never has more connections than it has threads.
THEOREM Bounded == Spec => []TotalBounded
<1>1. IInv => TotalBounded
  BY DEF IInv, ExclusiveUse
<1>2. QED
  BY <1>1, Invariant, PTL

=============================================================================
