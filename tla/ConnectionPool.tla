--------------------------- MODULE ConnectionPool ---------------------------
(***************************************************************************)
(* The connections of a ConnectionPool (common/connection_pool.cpp) to one *)
(* host: its HostPool, the threads in acquire() and release(), the cleanup *)
(* thread and stop().  HostPools of different hosts share nothing but      *)
(* running_ and their end.                                                 *)
(*                                                                         *)
(* What happens under HostPool::mutex is one step.  acquire() gives the    *)
(* mutex up twice: to connect ("creating") and to wait ("waiting").        *)
(***************************************************************************)
EXTENDS Removal, FiniteSets

CONSTANTS
    Client,     \* threads that use the pool
    Conn,       \* connection objects, enough of them; a destroyed one is made again
    Nil,
    MaxConn,    \* max_connections_per_host
    MinConn     \* min_connections_per_host

ASSUME ClientAssumption == IsFiniteSet(Client) /\ Nil \notin Conn
ASSUME LimitAssumption  == MaxConn \in Nat \ {0} /\ MinConn \in Nat

VARIABLES
    running, destroyed,   \* running_; pools_ is cleared
    all, idle,            \* all_connections, idle_connections
    inUse,                \* connections with in_use set
    active,               \* active_count
    wire,                 \* state of each connection
    pc, held,             \* where each client is, and its connection
    late                  \* clients in acquire() whose timeout_time has passed

poolVars == <<all, idle, inUse, active>>
vars     == <<running, destroyed, poolVars, wire, pc, held, late>>

\* isConnectionValid: connected_ is set and the socket has no error.  That the
\* peer has closed its end shows in neither.
Valid(k) == wire[k] \in {"up", "peerClosed"}

Init ==
    /\ running   = TRUE
    /\ destroyed = FALSE
    /\ all       = <<>>
    /\ idle      = <<>>
    /\ inUse     = {}
    /\ active    = 0
    /\ wire      = [k \in Conn |-> "none"]
    /\ pc        = [c \in Client |-> "out"]
    /\ held      = [c \in Client |-> Nil]
    /\ late      = {}

-----------------------------------------------------------------------------
(* acquire().                                                              *)

Acquire(c) ==
    /\ running
    /\ pc[c] = "out"
    /\ pc' = [pc EXCEPT ![c] = "loop"]
    /\ UNCHANGED <<running, destroyed, poolVars, wire, held, late>>

\* The invalid connections at the head of the idle queue, which the loop
\* removes and closes until it finds a valid one.
Discarded == {idle[i] : i \in {j \in 1 .. Len(idle) : \A h \in 1 .. j : ~Valid(idle[h])}}

\* acquire() returns or throws; its timeout_time goes with it.
Leave(c, to) ==
    /\ pc'   = [pc EXCEPT ![c] = to]
    /\ late' = late \ {c}

InLoop(c) == pc[c] = "loop" /\ running /\ ~destroyed

\* in_use and active_count of a connection handed out.
Lend(k) == inUse' = inUse \cup {k} /\ active' = active + 1

Requeued(k) == Drop(idle, Discarded \cup {k})

Reuse(c) ==
    /\ InLoop(c)
    /\ Drop(idle, Discarded) # <<>>
    /\ LET k == Head(Drop(idle, Discarded))
       IN  /\ idle' = Requeued(k)
           /\ Lend(k)
           /\ held' = [held EXCEPT ![c] = k]
    /\ all'  = Drop(all, Discarded)
    /\ wire' = [k \in Conn |-> IF k \in Discarded THEN "none" ELSE wire[k]]
    /\ Leave(c, "holding")
    /\ UNCHANGED <<running, destroyed>>

\* No idle connection is valid: create one, unlocked, or wait, or give up.
Exhausted(c) ==
    /\ InLoop(c)
    /\ Drop(idle, Discarded) = <<>>
    /\ idle' = <<>>
    /\ all'  = Drop(all, Discarded)
    /\ wire' = [k \in Conn |-> IF k \in Discarded THEN "none" ELSE wire[k]]
    /\ UNCHANGED <<running, destroyed, inUse, active, held>>

HasRoom(n) == n < MaxConn

StartCreate(c) ==
    /\ Exhausted(c)
    /\ HasRoom(Len(all'))
    /\ pc' = [pc EXCEPT ![c] = "creating"]
    /\ UNCHANGED late

WaitForRelease(c) ==
    /\ Exhausted(c)
    /\ ~HasRoom(Len(all'))
    /\ c \notin late
    /\ pc' = [pc EXCEPT ![c] = "waiting"]
    /\ UNCHANGED late

\* acquire() throws: its deadline has passed.
TimeOut(c) ==
    /\ Exhausted(c)
    /\ ~HasRoom(Len(all'))
    /\ c \in late
    /\ Leave(c, "out")

\* createConnection() succeeds, and the client takes the mutex again.  Which
\* object the new connection is does not matter.
Fresh == CHOOSE k \in Conn : wire[k] = "none"

Created(c) ==
    /\ pc[c] = "creating"
    /\ ~destroyed
    /\ \E k \in Conn : wire[k] = "none"
    /\ wire' = [wire EXCEPT ![Fresh] = "up"]
    /\ all'  = Append(all, Fresh)
    /\ Lend(Fresh)
    /\ held' = [held EXCEPT ![c] = Fresh]
    /\ Leave(c, "holding")
    /\ UNCHANGED <<running, destroyed, idle>>

\* createConnection() fails: give up if the deadline has passed, else wait.
CreateFails(c) ==
    /\ pc[c] = "creating"
    /\ ~destroyed
    /\ Leave(c, IF c \in late THEN "out" ELSE "waiting")
    /\ UNCHANGED <<running, destroyed, poolVars, wire, held>>

\* The 100 ms of wait_until are over (or the wait ends for no reason).
WakeUp_notified(c) == FALSE /\ UNCHANGED vars       \* mutant: wait() without a limit
WakeUp(c) ==
    /\ pc[c] = "waiting"
    /\ ~destroyed
    /\ pc' = [pc EXCEPT ![c] = "loop"]
    /\ UNCHANGED <<running, destroyed, poolVars, wire, held, late>>

\* acquire_timeout has passed since c called acquire().
Inside(c) == pc[c] \in {"loop", "creating", "waiting"}

Deadline(c) ==
    /\ Inside(c)
    /\ c \notin late
    /\ late' = late \cup {c}
    /\ UNCHANGED <<running, destroyed, poolVars, wire, pc, held>>

\* acquire() throws "Connection pool is shutting down".
ShuttingDown(c) ==
    /\ pc[c] = "loop"
    /\ ~running
    /\ ~destroyed
    /\ Leave(c, "out")
    /\ UNCHANGED <<running, destroyed, poolVars, wire, held>>

-----------------------------------------------------------------------------
(* release().                                                              *)

GiveBack(c) ==
    /\ pc[c] = "holding"
    /\ held' = [held EXCEPT ![c] = Nil]

\* notify_one() on the pool's condition.
Notified(p) ==
    LET asleep == {d \in Client : p[d] = "waiting"}
    IN  IF asleep = {} THEN {p} ELSE {[p EXCEPT ![d] = "loop"] : d \in asleep}

Release_twice(c) ==                                 \* mutant: in_use stays set
    /\ running
    /\ GiveBack(c)
    /\ Valid(held[c])
    /\ idle'  = Append(idle, held[c])
    /\ active' = active - 1
    /\ pc' \in Notified([pc EXCEPT ![c] = "out"])
    /\ UNCHANGED <<running, destroyed, all, inUse, wire, late>>

Release(c) ==
    /\ running
    /\ GiveBack(c)
    /\ Valid(held[c])
    /\ idle'   = Append(idle, held[c])
    /\ inUse'  = inUse \ {held[c]}
    /\ active' = active - 1
    /\ pc' \in Notified([pc EXCEPT ![c] = "out"])
    /\ UNCHANGED <<running, destroyed, all, wire, late>>

\* The connection broke in use: it leaves the pool, and nobody is notified.
Removed_kept(k) == all                              \* mutant: no removeConnection()
Removed(k)      == Drop(all, {k})

ReleaseBroken(c) ==
    /\ running
    /\ GiveBack(c)
    /\ ~Valid(held[c])
    /\ inUse'  = inUse \ {held[c]}
    /\ active' = active - 1
    /\ all'    = Removed(held[c])
    /\ wire'   = [wire EXCEPT ![held[c]] = "none"]
    /\ pc'     = [pc EXCEPT ![c] = "out"]
    /\ UNCHANGED <<running, destroyed, idle, late>>

\* release() returns at once; the last reference to the connection may go.
ReleaseStopped(c) ==
    /\ ~running
    /\ GiveBack(c)
    /\ pc'   = [pc EXCEPT ![c] = "out"]
    /\ wire' = IF destroyed THEN [wire EXCEPT ![held[c]] = "none"] ELSE wire
    /\ UNCHANGED <<running, destroyed, poolVars, late>>

-----------------------------------------------------------------------------
(* The connections themselves.                                             *)

\* The peer closes or resets a connection.
PeerCloses(k) ==
    /\ wire[k] = "up"
    /\ wire' \in {[wire EXCEPT ![k] = "peerClosed"], [wire EXCEPT ![k] = "broken"]}
    /\ UNCHANGED <<running, destroyed, poolVars, pc, held, late>>

\* send() or receive() on it fails and clears connected_.
UseFails(c) ==
    /\ pc[c] = "holding"
    /\ wire[held[c]] = "peerClosed"
    /\ wire' = [wire EXCEPT ![held[c]] = "broken"]
    /\ UNCHANGED <<running, destroyed, poolVars, pc, held, late>>

-----------------------------------------------------------------------------
(* The cleanup thread and stop().                                          *)

\* over_min compares the size of the vector remove_if is working on, which
\* does not shrink before erase(): either all idle connections are over the
\* minimum or none is.
Removable_all(expired) == Elems(all)                \* mutant: in_use is not tested
Removable(expired) == IF Len(all) > MinConn THEN Elems(all) \ inUse
                                            ELSE expired \ inUse

\* One cycle of cleanupExpiredConnections, with the connections whose
\* idle_timeout has passed.
Cleanup(expired) ==
    LET gone == Removable(expired)
    IN  /\ running
        /\ all'  = Drop(all, gone)
        /\ idle' = Drop(all, gone \cup inUse)
        /\ wire' = [k \in Conn |-> IF k \in gone THEN "none" ELSE wire[k]]
        /\ UNCHANGED <<running, destroyed, inUse, active, pc, held, late>>

Stop ==
    /\ running
    /\ running' = FALSE
    /\ UNCHANGED <<destroyed, poolVars, wire, pc, held, late>>

\* Every connection is closed, and the HostPool destroyed under whoever is
\* still in acquire().  What such a client does next is undefined; the model
\* leaves it where it is.
Destroy ==
    /\ ~running
    /\ ~destroyed
    /\ destroyed' = TRUE
    /\ all'       = <<>>
    /\ idle'      = <<>>
    /\ inUse'     = {}
    /\ active'    = 0
    /\ wire'      = [k \in Conn |-> IF \E c \in Client : held[c] = k THEN "broken" ELSE "none"]
    /\ UNCHANGED <<running, pc, held, late>>

AcquireStep(c) ==
    \/ Reuse(c)
    \/ StartCreate(c)
    \/ WaitForRelease(c)
    \/ TimeOut(c)
    \/ Created(c)
    \/ CreateFails(c)
    \/ WakeUp(c)
    \/ ShuttingDown(c)

ReleaseStep(c) == Release(c) \/ ReleaseBroken(c) \/ ReleaseStopped(c)

Next ==
    \/ \E c \in Client : Acquire(c) \/ Deadline(c) \/ AcquireStep(c) \/ ReleaseStep(c) \/ UseFails(c)
    \/ \E k \in Conn : PeerCloses(k)
    \/ \E expired \in SUBSET Elems(idle) : Cleanup(expired)
    \/ Stop
    \/ Destroy

Spec == Init /\ [][Next]_vars

\* A thread in acquire() goes on, and time passes.
FairSpec == Spec /\ \A c \in Client : WF_vars(AcquireStep(c)) /\ WF_vars(Deadline(c))

-----------------------------------------------------------------------------
(* Properties.                                                             *)

Holding == {c \in Client : pc[c] = "holding"}
Creating == {c \in Client : pc[c] = "creating"}

\* Types of every variable; active_count never wraps below zero.
TypeOK ==
    /\ running \in BOOLEAN
    /\ destroyed \in BOOLEAN
    /\ all \in Seq(Conn)
    /\ idle \in Seq(Conn)
    /\ inUse \subseteq Conn
    /\ active \in Nat
    /\ wire \in [Conn -> {"none", "up", "peerClosed", "broken"}]
    /\ pc \in [Client -> {"out", "loop", "creating", "waiting", "holding"}]
    /\ held \in [Client -> Conn \cup {Nil}]
    /\ late \subseteq Client

\* The idle queue and the in_use flags divide all_connections, and
\* active_count counts the flags, through every removal and cleanup.
PoolConsistent ==
    /\ TypeOK
    /\ Distinct(all) /\ Distinct(idle)
    /\ inUse \subseteq Elems(all)
    /\ Elems(idle) = Elems(all) \ inUse
    /\ active = Cardinality(inUse)

\* What the pool lists exists, and nothing is listed once it is destroyed.
UsersInv ==
    /\ \A c \in Client : pc[c] = "holding" <=> held[c] # Nil
    /\ \A k \in Elems(all) : wire[k] # "none"
    /\ destroyed => ~running /\ all = <<>>

Exclusion ==
    /\ \A c \in Holding : /\ wire[held[c]] # "none"
                          /\ \A d \in Holding : held[c] = held[d] => c = d
    /\ running => inUse = {held[c] : c \in Holding}

\* No two clients use one connection, no connection is destroyed while a
\* client uses it or the pool lists it and, while the pool runs, exactly those
\* the clients hold are in use: no slot is lost, and none is given away twice.
ExclusiveUse == Exclusion /\ UsersInv

\* What is left of max_connections, which threads that connect at once exceed
\* (connection_pool.cpp:113): a connection is made only by a thread that found
\* none idle, so there are never more than the threads using the pool.
TotalBounded == Len(all) + Cardinality(Creating) <= Cardinality(Client)

\* They are inductive together (module ConnectionPoolProofs).
IInv == PoolConsistent /\ ExclusiveUse /\ TotalBounded

\* acquire() returns or throws, unless the pool is destroyed under it.
AcquireEnds == \A c \in Client :
    Inside(c) ~> ~Inside(c) \/ destroyed

=============================================================================
