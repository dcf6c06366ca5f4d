--------------------------- MODULE ThreadPoolProofs ---------------------------
(***************************************************************************)
(* ThreadPool for every number of threads and tasks: no task is lost, the  *)
(* counters are exact, no wakeup of a worker is lost, stop() drains the    *)
(* queue, and the pool implements TaskPool.                                *)
(***************************************************************************)
EXTENDS ThreadPool, FiniteSetTheorems, SequenceTheorems, TLAPS

\* The initial states satisfy the invariant.
LEMMA InitInv == Init => IInv
<1>1. SUFFICES ASSUME Init PROVE IInv
  OBVIOUS
<1>2. tasks = <<>> /\ Len(tasks) = 0 /\ Asleep = {} /\ Busy = {} /\ Queued = {} /\ Held = {}
  BY <1>1 DEF Init, Asleep, Busy, Queued, Held
<1>3. Cardinality({w \in Worker : worker[w] = "running"}) = 0
  <2>1. {w \in Worker : worker[w] = "running"} = {}
    BY <1>1 DEF Init
  <2>2. QED
    BY <2>1, FS_EmptySet
<1>4. TypeOK
  <2>1. 0 \in 0 .. MaxSpurious
    BY SpuriousAssumption
  <2>2. goal \in [Waiter -> SUBSET Task] /\ tasks \in Seq(Task)
    BY <1>1, EmptySeq DEF Init
  <2>3. worker \in [Worker -> WorkerState] /\ task \in [Worker -> Task \cup {Nil}]
    BY <1>1 DEF Init, WorkerState
  <2>4. QED
    BY <1>1, <2>1, <2>2, <2>3 DEF Init, TypeOK
<1>5. WorkerInv /\ StopInv /\ GoalInv /\ NoTaskOverlooked /\ StopReachesAll /\ StopDrains
  BY <1>1, <1>2 DEF Init, WorkerInv, StopInv, GoalInv, NoTaskOverlooked, StopReachesAll, StopDrains, Busy
<1>6. TasksConserved
  BY <1>1, <1>2 DEF Init, TasksConserved
<1>7. CountersExact
  BY <1>1, <1>2, <1>3 DEF Init, CountersExact
<1>8. QED
  BY <1>4, <1>5, <1>6, <1>7 DEF IInv

-----------------------------------------------------------------------------
(* Sets of threads.                                                        *)

\* The sets of workers the invariant counts are finite.
LEMMA Counts ==
  ASSUME NEW S, S \subseteq Worker \/ S \subseteq Producer
  PROVE  IsFiniteSet(S) /\ Cardinality(S) \in Nat
BY ThreadAssumption, FS_Subset, FS_CardinalityType

\* The number of threads for which a condition holds, when one thread changes.
LEMMA OneMore ==
  ASSUME NEW S, NEW T, NEW x, IsFiniteSet(S), x \notin S, T = S \cup {x}
  PROVE  Cardinality(T) = Cardinality(S) + 1
BY FS_AddElement

LEMMA OneLess ==
  ASSUME NEW S, NEW T, NEW x, IsFiniteSet(S), x \in S, T = S \ {x}
  PROVE  Cardinality(T) = Cardinality(S) - 1
BY FS_RemoveElement

LEMMA Empty ==
  ASSUME NEW S, IsFiniteSet(S)
  PROVE  Cardinality(S) = 0 <=> S = {}
BY FS_EmptySet

\* A running worker is counted.
LEMMA ActiveCovers ==
  ASSUME IInv, NEW w \in Worker, worker[w] = "running"
  PROVE  active > 0
<1> DEFINE R == {v \in Worker : worker[v] = "running"}
<1>1. IsFiniteSet(R) /\ Cardinality(R) \in Nat
  BY Counts
<1>2. R # {}
  OBVIOUS
<1>3. Cardinality(R) # 0
  BY <1>1, <1>2, Empty
<1>4. QED
  BY <1>1, <1>3 DEF IInv, CountersExact

-----------------------------------------------------------------------------
(* The queue.                                                              *)

\* What enqueue() does to the set of queued tasks.
LEMMA AppendQueue ==
  ASSUME NEW q \in Seq(Task), NEW t \in Task
  PROVE  /\ Append(q, t) \in Seq(Task)
         /\ Len(Append(q, t)) = Len(q) + 1
         /\ {Append(q, t)[i] : i \in 1 .. Len(Append(q, t))} = {q[i] : i \in 1 .. Len(q)} \cup {t}
         /\ \A i \in 1 .. Len(q) : Append(q, t)[i] = q[i]
         /\ Append(q, t)[Len(q) + 1] = t
<1>1. /\ Append(q, t) \in Seq(Task)
      /\ Len(Append(q, t)) = Len(q) + 1
      /\ \A i \in 1 .. Len(q) : Append(q, t)[i] = q[i]
      /\ Append(q, t)[Len(q) + 1] = t
  BY AppendProperties
<1>2. Len(q) \in Nat
  OBVIOUS
<1>3. 1 .. Len(Append(q, t)) = (1 .. Len(q)) \cup {Len(q) + 1}
  BY <1>1, <1>2
<1>4. QED
  BY <1>1, <1>3

\* What a worker's pop does to it.
LEMMA PopQueue ==
  ASSUME NEW q \in Seq(Task), q # <<>>
  PROVE  /\ Head(q) = q[1]
         /\ Head(q) \in Task
         /\ Tail(q) \in Seq(Task)
         /\ Len(q) \in Nat \ {0}
         /\ Len(Tail(q)) = Len(q) - 1
         /\ \A i \in 1 .. Len(Tail(q)) : Tail(q)[i] = q[i + 1]
         /\ {q[i] : i \in 1 .. Len(q)} = {Tail(q)[i] : i \in 1 .. Len(Tail(q))} \cup {Head(q)}
<1>1. /\ Head(q) = q[1]
      /\ Tail(q) \in Seq(Task)
      /\ Len(q) \in Nat \ {0}
      /\ Len(Tail(q)) = Len(q) - 1
      /\ \A i \in 1 .. Len(Tail(q)) : Tail(q)[i] = q[i + 1]
  BY HeadTailProperties, EmptySeq
<1>2. Head(q) \in Task
  BY <1>1
<1>3. ASSUME NEW i \in 1 .. Len(q)
      PROVE  q[i] \in {Tail(q)[j] : j \in 1 .. Len(Tail(q))} \cup {Head(q)}
  <2>1. CASE i = 1
    BY <1>1, <2>1
  <2>2. CASE i # 1
    <3>1. i - 1 \in 1 .. Len(Tail(q)) /\ q[i] = Tail(q)[i - 1]
      BY <1>1, <2>2
    <3>2. QED
      BY <3>1
  <2>3. QED
    BY <2>1, <2>2
<1>4. ASSUME NEW j \in 1 .. Len(Tail(q))
      PROVE  Tail(q)[j] \in {q[i] : i \in 1 .. Len(q)}
  <2>1. j + 1 \in 1 .. Len(q) /\ Tail(q)[j] = q[j + 1]
    BY <1>1
  <2>2. QED
    BY <2>1
<1>5. Head(q) \in {q[i] : i \in 1 .. Len(q)}
  BY <1>1
<1>6. QED
  BY <1>1, <1>2, <1>3, <1>4, <1>5

-----------------------------------------------------------------------------
(* Every step, by the action it takes.                                     *)

\* notify_one() wakes one sleeper, or nobody when nobody sleeps.
LEMMA Notified ==
  ASSUME TypeOK, NEW p \in Producer, NotifyOne(p)
  PROVE  \/ Asleep = {} /\ worker' = worker
         \/ \E w \in Asleep : worker' = [worker EXCEPT ![w] = "ready"]
BY DEF NotifyOne, Woken

\* A step keeps every variable in its type.
LEMMA TypeStep == ASSUME IInv, Next PROVE TypeOK'
<1>1. TypeOK /\ CountersExact /\ WorkerInv
  BY DEF IInv
<1>2. ASSUME NEW p \in Producer, NEW t \in Task, Enqueue(p, t) PROVE TypeOK'
  <2>1. Append(tasks, t) \in Seq(Task)
    BY <1>1, AppendQueue DEF TypeOK
  <2>2. QED
    BY <1>1, <1>2, <2>1 DEF Enqueue, TypeOK
<1>3. ASSUME NEW p \in Producer, NotifyOne(p) PROVE TypeOK'
  <2>1. worker' \in [Worker -> WorkerState]
    BY <1>1, <1>3, Notified DEF TypeOK, WorkerState, Asleep
  <2>2. QED
    BY <1>1, <1>3, <2>1 DEF NotifyOne, TypeOK, counters, history
<1>4. ASSUME NEW w \in Worker, Sleep(w) \/ Exit(w) PROVE TypeOK'
  <2>1. worker' \in [Worker -> WorkerState]
    BY <1>1, <1>4 DEF Sleep, Exit, TypeOK, WorkerState
  <2>2. QED
    BY <1>1, <1>4, <2>1 DEF Sleep, Exit, TypeOK, counters, history
<1>5. ASSUME NEW w \in Worker, Take(w) PROVE TypeOK'
  <2>1. tasks \in Seq(Task) /\ tasks # <<>>
    BY <1>1, <1>5 DEF Take, TypeOK
  <2>2. Tail(tasks) \in Seq(Task) /\ Head(tasks) \in Task /\ Len(tasks) \in Nat \ {0}
    BY <2>1, PopQueue
  <2>3. pending' \in Nat
    BY <1>1, <1>5, <2>2 DEF Take, CountersExact
  <2>4. worker' \in [Worker -> WorkerState] /\ task' \in [Worker -> Task \cup {Nil}]
    BY <1>1, <1>5, <2>2 DEF Take, TypeOK, WorkerState
  <2>5. QED
    BY <1>1, <1>5, <2>2, <2>3, <2>4 DEF Take, Popped, TypeOK, history
<1>6. ASSUME NEW w \in Worker, StartTask(w) PROVE TypeOK'
  <2>1. worker' \in [Worker -> WorkerState]
    BY <1>1, <1>6 DEF StartTask, TypeOK, WorkerState
  <2>2. QED
    BY <1>1, <1>6, <2>1 DEF StartTask, TypeOK, history
<1>7. ASSUME NEW w \in Worker, FinishTask(w) PROVE TypeOK'
  <2>1. worker' \in [Worker -> WorkerState] /\ task' \in [Worker -> Task \cup {Nil}]
    BY <1>1, <1>7 DEF FinishTask, TypeOK, WorkerState
  <2>2. task[w] \in Task
    BY <1>1, <1>7 DEF FinishTask, WorkerInv, Busy
  <2>3. active > 0
    BY <1>7, ActiveCovers DEF FinishTask
  <2>4. QED
    BY <1>1, <1>7, <2>1, <2>2, <2>3 DEF FinishTask, TypeOK
<1>8. ASSUME NEW w \in Worker, ReadActive(w) PROVE TypeOK'
  <2>1. worker' \in [Worker -> WorkerState]
    BY <1>1, <1>8 DEF ReadActive, TypeOK, WorkerState
  <2>2. QED
    BY <1>1, <1>8, <2>1 DEF ReadActive, TypeOK, counters, history
<1>9. ASSUME NEW w \in Worker, ReadPending(w) PROVE TypeOK'
  <2>1. worker' \in [Worker -> WorkerState]
    BY <1>1, <1>9 DEF ReadPending, TypeOK, WorkerState
  <2>2. waiter' \in [Waiter -> {"idle", "ready", "tested", "asleep", "returned"}]
    BY <1>1, <1>9 DEF ReadPending, TypeOK
  <2>3. QED
    BY <1>1, <1>9, <2>1, <2>2 DEF ReadPending, TypeOK, counters, history
<1>10. ASSUME NEW c \in Waiter, CallWait(c) PROVE TypeOK'
  <2>1. goal' \in [Waiter -> SUBSET Task]
    BY <1>1, <1>10 DEF CallWait, TypeOK
  <2>2. QED
    BY <1>1, <1>10, <2>1 DEF CallWait, TypeOK, counters
<1>11. ASSUME NEW c \in Waiter, TestCompletion(c) \/ WaitForCompletion(c) PROVE TypeOK'
  BY <1>1, <1>11 DEF TestCompletion, WaitForCompletion, TypeOK, counters, history
<1>12. ASSUME SetStop \/ Join PROVE TypeOK'
  BY <1>1, <1>12 DEF SetStop, Join, TypeOK, counters, history
<1>13. ASSUME NotifyAll PROVE TypeOK'
  <2>1. worker' \in [Worker -> WorkerState]
    BY <1>1, <1>13 DEF NotifyAll, Roused, TypeOK, WorkerState
  <2>2. QED
    BY <1>1, <1>13, <2>1 DEF NotifyAll, TypeOK, counters, history
<1>14. ASSUME NEW w \in Worker, WakeWorker(w) PROVE TypeOK'
  <2>1. worker' \in [Worker -> WorkerState]
    BY <1>1, <1>14 DEF WakeWorker, TypeOK, WorkerState
  <2>2. spurious' \in 0 .. MaxSpurious
    BY <1>1, <1>14, SpuriousAssumption DEF WakeWorker, TypeOK
  <2>3. QED
    BY <1>1, <1>14, <2>1, <2>2 DEF WakeWorker, TypeOK, counters, history
<1>15. ASSUME NEW c \in Waiter, WakeWaiter(c) PROVE TypeOK'
  <2>1. spurious' \in 0 .. MaxSpurious
    BY <1>1, <1>15, SpuriousAssumption DEF WakeWaiter, TypeOK
  <2>2. QED
    BY <1>1, <1>15, <2>1 DEF WakeWaiter, TypeOK, counters, history
<1>16. QED
  BY <1>2, <1>3, <1>4, <1>5, <1>6, <1>7, <1>8, <1>9, <1>10, <1>11, <1>12, <1>13, <1>14, <1>15
     DEF Next, WorkerStep, WaiterStep, StopStep

\* Where workers are, when they may exit, and how far stop() has come.
LEMMA WorkerInvStep == ASSUME IInv, Next PROVE WorkerInv' /\ StopInv' /\ GoalInv'
<1> DEFINE Done == WorkerInv' /\ StopInv' /\ GoalInv'
<1> USE DEF WorkerInv, StopInv, GoalInv, Busy, counters, history
<1>1. TypeOK /\ WorkerInv /\ StopInv /\ GoalInv /\ StopReachesAll
  BY DEF IInv
<1>2. ASSUME NEW p \in Producer, NEW t \in Task, Enqueue(p, t) PROVE Done
  BY <1>1, <1>2 DEF Enqueue, Accepting, TypeOK
<1>3. ASSUME NEW p \in Producer, NotifyOne(p) PROVE Done
  <2>1. CASE Asleep = {} /\ worker' = worker
    BY <1>1, <1>3, <2>1 DEF NotifyOne
  <2>2. ASSUME NEW w \in Asleep, worker' = [worker EXCEPT ![w] = "ready"] PROVE Done
    BY <1>1, <1>3, <2>2 DEF NotifyOne, Asleep, TypeOK
  <2>3. QED
    BY <1>1, <1>3, <2>1, <2>2, Notified
<1>4. ASSUME NEW w \in Worker, Sleep(w) PROVE Done
  BY <1>1, <1>4 DEF Sleep, TypeOK
<1>5. ASSUME NEW w \in Worker, Exit(w) PROVE Done
  BY <1>1, <1>5 DEF Exit, ExitAllowed, TypeOK
<1>6. ASSUME NEW w \in Worker, Take(w) PROVE Done
  <2>1. Head(tasks) \in Task
    BY <1>1, <1>6, PopQueue DEF Take, TypeOK
  <2>2. \A v \in Worker : worker[v] # "exited"
    BY <1>1, <1>6 DEF Take
  <2>3. QED
    BY <1>1, <1>6, <2>1, <2>2 DEF Take, TypeOK
<1>7. ASSUME NEW w \in Worker, StartTask(w) PROVE Done
  BY <1>1, <1>7 DEF StartTask, TypeOK
<1>8. ASSUME NEW w \in Worker, FinishTask(w) PROVE Done
  BY <1>1, <1>8 DEF FinishTask, TypeOK
<1>9. ASSUME NEW w \in Worker, ReadActive(w) \/ ReadPending(w) PROVE Done
  BY <1>1, <1>9 DEF ReadActive, ReadPending, TypeOK
<1>10. ASSUME NEW c \in Waiter, CallWait(c) PROVE Done
  BY <1>1, <1>10 DEF CallWait, TypeOK
<1>11. ASSUME NEW c \in Waiter, TestCompletion(c) \/ WaitForCompletion(c) \/ WakeWaiter(c) PROVE Done
  BY <1>1, <1>11 DEF TestCompletion, WaitForCompletion, WakeWaiter
<1>12. CASE SetStop
  BY <1>1, <1>12 DEF SetStop
<1>13. CASE NotifyAll
  BY <1>1, <1>13 DEF NotifyAll, Roused, Asleep, TypeOK
<1>14. CASE Join
  BY <1>1, <1>14 DEF Join
<1>15. ASSUME NEW w \in Worker, WakeWorker(w) PROVE Done
  BY <1>1, <1>15 DEF WakeWorker, TypeOK
<1>16. QED
  BY <1>2, <1>3, <1>4, <1>5, <1>6, <1>7, <1>8, <1>9, <1>10, <1>11, <1>12, <1>13, <1>14, <1>15
     DEF Next, WorkerStep, WaiterStep, StopStep

\* What does not move a task keeps every task in its place.
LEMMA NoTaskMoves ==
  ASSUME TasksConserved, Busy' = Busy, task' = task, tasks' = tasks,
         accepted' = accepted, executed' = executed
  PROVE  TasksConserved'
<1>1. Queued' = Queued /\ Held' = Held
  BY DEF Queued, Held
<1>2. /\ accepted' = Queued' \cup Held' \cup executed'
      /\ Queued' \cap Held' = {}
      /\ (Queued' \cup Held') \cap executed' = {}
  BY <1>1 DEF TasksConserved
<1>3. \A i, j \in 1 .. Len(tasks') : tasks'[i] = tasks'[j] => i = j
  BY DEF TasksConserved
<1>4. \A v, w \in Busy' : task'[v] = task'[w] => v = w
  BY DEF TasksConserved
<1>5. QED
  BY <1>2, <1>3, <1>4 DEF TasksConserved

\* No task is lost, doubled or run twice.
LEMMA TasksStep == ASSUME IInv, Next PROVE TasksConserved'
<1>1. TypeOK /\ TasksConserved /\ WorkerInv
  BY DEF IInv
<1>2. ASSUME NEW p \in Producer, NEW t \in Task, Enqueue(p, t) PROVE TasksConserved'
  <2>1. tasks \in Seq(Task) /\ tasks' = Append(tasks, t) /\ Len(tasks) \in Nat
    BY <1>1, <1>2 DEF Enqueue, TypeOK
  <2>2. /\ Len(tasks') = Len(tasks) + 1
        /\ Queued' = Queued \cup {t}
        /\ \A i \in 1 .. Len(tasks) : tasks'[i] = tasks[i]
        /\ tasks'[Len(tasks) + 1] = t
    BY <2>1, AppendQueue DEF Queued
  <2>3. /\ t \notin accepted /\ accepted' = accepted \cup {t} /\ executed' = executed
        /\ task' = task /\ Busy' = Busy /\ Held' = Held
    BY <1>2 DEF Enqueue, Busy, Held
  <2>4. t \notin Queued \cup Held \cup executed
    BY <1>1, <2>3 DEF TasksConserved
  <2>5. \A i, j \in 1 .. Len(tasks') : tasks'[i] = tasks'[j] => i = j
    <3>1. \A i \in 1 .. Len(tasks) : tasks[i] # t
      BY <2>4 DEF Queued
    <3>2. \A i \in 1 .. Len(tasks') : i \in 1 .. Len(tasks) \/ i = Len(tasks) + 1
      BY <2>1, <2>2
    <3>3. QED
      BY <1>1, <2>2, <3>1, <3>2 DEF TasksConserved
  <2>6. QED
    BY <1>1, <2>2, <2>3, <2>4, <2>5 DEF TasksConserved
<1>3. ASSUME NEW w \in Worker, Take(w) PROVE TasksConserved'
  <2> DEFINE t == Head(tasks)
  <2>1. tasks \in Seq(Task) /\ tasks # <<>> /\ tasks' = Tail(tasks)
    BY <1>1, <1>3 DEF Take, Popped, TypeOK
  <2>2. /\ t = tasks[1]
        /\ Len(tasks) \in Nat \ {0}
        /\ Len(tasks') = Len(tasks) - 1
        /\ \A i \in 1 .. Len(tasks') : tasks'[i] = tasks[i + 1]
        /\ {tasks[i] : i \in 1 .. Len(tasks)} = {tasks'[i] : i \in 1 .. Len(tasks')} \cup {t}
    <3>1. /\ Len(tasks) \in Nat \ {0}
          /\ Head(tasks) = tasks[1]
          /\ Len(Tail(tasks)) = Len(tasks) - 1
          /\ \A i \in 1 .. Len(Tail(tasks)) : Tail(tasks)[i] = tasks[i + 1]
      BY <2>1, PopQueue
    <3>2. {tasks[i] : i \in 1 .. Len(tasks)}
             = {Tail(tasks)[i] : i \in 1 .. Len(Tail(tasks))} \cup {Head(tasks)}
      BY <2>1, PopQueue
    <3>3. QED
      BY <2>1, <3>1, <3>2
  <2> HIDE DEF t
  <2>20. Queued = Queued' \cup {t}
    BY <2>2 DEF Queued
  <2>3. /\ w \notin Busy /\ Busy' = Busy \cup {w} /\ task' = [task EXCEPT ![w] = t]
        /\ accepted' = accepted /\ executed' = executed
    BY <1>1, <1>3 DEF Take, Busy, TypeOK, history, t
  <2>4. task'[w] = t /\ \A v \in Busy : task'[v] = task[v]
    BY <1>1, <2>3 DEF TypeOK, Busy
  <2>5. Held' = Held \cup {t}
    BY <2>3, <2>4 DEF Held
  <2>6. t \notin Queued'
    <3>1. ASSUME NEW i \in 1 .. Len(tasks'), tasks'[i] = t PROVE FALSE
      <4>1. i + 1 \in 1 .. Len(tasks) /\ 1 \in 1 .. Len(tasks) /\ tasks[i + 1] = tasks[1]
        BY <2>2, <3>1
      <4>2. i + 1 = 1
        BY <1>1, <4>1 DEF TasksConserved
      <4>3. QED
        BY <4>2
    <3>2. QED
      BY <3>1 DEF Queued
  <2>7. \A i, j \in 1 .. Len(tasks') : tasks'[i] = tasks'[j] => i = j
    <3>1. \A i \in 1 .. Len(tasks') : i + 1 \in 1 .. Len(tasks)
      BY <2>2
    <3>2. \A i, j \in 1 .. Len(tasks') : tasks'[i] = tasks'[j] => i + 1 = j + 1
      BY <1>1, <2>2, <3>1 DEF TasksConserved
    <3>3. QED
      BY <3>2
  <2>8. t \in Queued /\ t \notin Held
    BY <1>1, <2>20 DEF TasksConserved
  <2>9. \A u, v \in Busy' : task'[u] = task'[v] => u = v
    <3>1. \A v \in Busy : task[v] # t
      BY <2>8 DEF Held
    <3>2. QED
      BY <1>1, <2>3, <2>4, <3>1 DEF TasksConserved
  <2>10. QED
    BY <1>1, <2>20, <2>3, <2>5, <2>6, <2>7, <2>8, <2>9 DEF TasksConserved
<1>4. ASSUME NEW w \in Worker, FinishTask(w) PROVE TasksConserved'
  <2> DEFINE t == task[w]
  <2>1. /\ w \in Busy /\ Busy' = Busy \ {w} /\ \A v \in Busy' : task'[v] = task[v]
        /\ tasks' = tasks /\ accepted' = accepted /\ executed' = executed \cup {t}
    BY <1>1, <1>4 DEF FinishTask, Busy, TypeOK
  <2>2. t \in Held /\ \A v \in Busy' : task[v] # t
    BY <1>1, <2>1 DEF TasksConserved, Held
  <2>3. Held' = Held \ {t}
    BY <2>1, <2>2 DEF Held
  <2>4. Queued' = Queued
    BY <2>1 DEF Queued
  <2>5. \A u, v \in Busy' : task'[u] = task'[v] => u = v
    BY <1>1, <2>1 DEF TasksConserved
  <2>6. QED
    BY <1>1, <2>1, <2>2, <2>3, <2>4, <2>5 DEF TasksConserved
<1>5. ASSUME NEW p \in Producer, NotifyOne(p) PROVE TasksConserved'
  <2>1. Busy' = Busy
    BY <1>1, <1>5, Notified DEF Busy, Asleep, TypeOK
  <2>2. QED
    BY <1>1, <1>5, <2>1, NoTaskMoves DEF NotifyOne, history
<1>6. ASSUME NEW w \in Worker,
             Sleep(w) \/ Exit(w) \/ StartTask(w) \/ ReadActive(w) \/ ReadPending(w) \/ WakeWorker(w)
      PROVE  TasksConserved'
  <2>1. Busy' = Busy
    BY <1>1, <1>6 DEF Sleep, Exit, StartTask, ReadActive, ReadPending, WakeWorker, Busy, TypeOK
  <2>2. QED
    BY <1>1, <1>6, <2>1, NoTaskMoves
       DEF Sleep, Exit, StartTask, ReadActive, ReadPending, WakeWorker, history
<1>7. ASSUME NEW c \in Waiter,
             CallWait(c) \/ TestCompletion(c) \/ WaitForCompletion(c) \/ WakeWaiter(c)
      PROVE  TasksConserved'
  BY <1>1, <1>7, NoTaskMoves
     DEF CallWait, TestCompletion, WaitForCompletion, WakeWaiter, Busy, history
<1>8. CASE SetStop \/ Join
  BY <1>1, <1>8, NoTaskMoves DEF SetStop, Join, Busy, history
<1>9. CASE NotifyAll
  <2>1. Busy' = Busy
    BY <1>1, <1>9 DEF NotifyAll, Roused, Asleep, Busy, TypeOK
  <2>2. QED
    BY <1>1, <1>9, <2>1, NoTaskMoves DEF NotifyAll, history
<1>10. QED
  BY <1>2, <1>3, <1>4, <1>5, <1>6, <1>7, <1>8, <1>9
     DEF Next, WorkerStep, WaiterStep, StopStep

\* The counters stay exact although workers change active_threads_ unlocked.
LEMMA CountersStep == ASSUME IInv, Next PROVE CountersExact'
<1> DEFINE R == {w \in Worker : worker[w] = "running"}
<1>1. TypeOK /\ CountersExact /\ pending = Len(tasks) /\ active = Cardinality(R)
  BY DEF IInv, CountersExact
<1>2. IsFiniteSet(R)
  BY Counts
<1>3. ASSUME R' = R, active' = active, pending' = pending, tasks' = tasks PROVE CountersExact'
  BY <1>1, <1>3 DEF CountersExact
<1>4. ASSUME NEW p \in Producer, NEW t \in Task, Enqueue(p, t) PROVE CountersExact'
  <2>1. tasks \in Seq(Task) /\ tasks' = Append(tasks, t)
    BY <1>1, <1>4 DEF Enqueue, TypeOK
  <2>2. Len(tasks') = Len(tasks) + 1
    BY <2>1, AppendQueue
  <2>3. pending' = pending + 1 /\ active' = active /\ R' = R
    BY <1>4 DEF Enqueue
  <2>4. QED
    BY <1>1, <2>2, <2>3 DEF CountersExact
<1>5. ASSUME NEW w \in Worker, Take(w) PROVE CountersExact'
  <2>1. tasks \in Seq(Task) /\ tasks # <<>> /\ tasks' = Tail(tasks)
    BY <1>1, <1>5 DEF Take, Popped, TypeOK
  <2>2. Len(tasks') = Len(tasks) - 1
    BY <2>1, PopQueue
  <2>3. pending' = pending - 1 /\ active' = active
    BY <1>5 DEF Take
  <2>4. R' = R
    BY <1>1, <1>5 DEF Take, TypeOK
  <2>5. QED
    BY <1>1, <2>2, <2>3, <2>4 DEF CountersExact
<1>6. ASSUME NEW w \in Worker, StartTask(w) PROVE CountersExact'
  <2>1. w \notin R /\ R' = R \cup {w}
    BY <1>1, <1>6 DEF StartTask, TypeOK
  <2>2. Cardinality(R') = Cardinality(R) + 1
    BY <1>2, <2>1, OneMore
  <2>3. active' = active + 1 /\ pending' = pending /\ tasks' = tasks
    BY <1>6 DEF StartTask
  <2>4. QED
    BY <1>1, <2>2, <2>3 DEF CountersExact
<1>7. ASSUME NEW w \in Worker, FinishTask(w) PROVE CountersExact'
  <2>1. w \in R /\ R' = R \ {w}
    BY <1>1, <1>7 DEF FinishTask, TypeOK
  <2>2. Cardinality(R') = Cardinality(R) - 1
    BY <1>2, <2>1, OneLess
  <2>3. active' = active - 1 /\ pending' = pending /\ tasks' = tasks
    BY <1>7 DEF FinishTask
  <2>4. QED
    BY <1>1, <2>2, <2>3 DEF CountersExact
<1>8. ASSUME NEW p \in Producer, NotifyOne(p) PROVE CountersExact'
  <2>1. R' = R
    BY <1>1, <1>8, Notified DEF Asleep, TypeOK
  <2>2. QED
    BY <1>3, <1>8, <2>1 DEF NotifyOne, counters
<1>9. ASSUME NEW w \in Worker, Sleep(w) \/ Exit(w) \/ ReadActive(w) \/ ReadPending(w) \/ WakeWorker(w)
      PROVE  CountersExact'
  <2>1. R' = R
    BY <1>1, <1>9 DEF Sleep, Exit, ReadActive, ReadPending, WakeWorker, TypeOK
  <2>2. QED
    BY <1>3, <1>9, <2>1 DEF Sleep, Exit, ReadActive, ReadPending, WakeWorker, counters
<1>10. ASSUME NEW c \in Waiter,
              CallWait(c) \/ TestCompletion(c) \/ WaitForCompletion(c) \/ WakeWaiter(c)
       PROVE  CountersExact'
  BY <1>3, <1>10 DEF CallWait, TestCompletion, WaitForCompletion, WakeWaiter, counters
<1>11. CASE SetStop \/ Join
  BY <1>3, <1>11 DEF SetStop, Join, counters
<1>12. CASE NotifyAll
  <2>1. R' = R
    BY <1>1, <1>12 DEF NotifyAll, Roused, Asleep, TypeOK
  <2>2. QED
    BY <1>3, <1>12, <2>1 DEF NotifyAll, counters
<1>13. QED
  BY <1>4, <1>5, <1>6, <1>7, <1>8, <1>9, <1>10, <1>11, <1>12
     DEF Next, WorkerStep, WaiterStep, StopStep

\* Workers that are about to look at the queue, and notifications to come.
Ready == {w \in Worker : worker[w] = "ready"}
Notifying == {p \in Producer : producer[p] = "notify"}

\* What leaves the queue as it is, or empties it, and takes nobody away.
LEMMA NobodyLeaves ==
  ASSUME TypeOK, NoTaskOverlooked, Asleep' \subseteq Asleep, tasks' = tasks,
         Ready \subseteq Ready', Notifying \subseteq Notifying'
  PROVE  NoTaskOverlooked'
<1>1. /\ IsFiniteSet(Ready) /\ IsFiniteSet(Ready') /\ Cardinality(Ready) \in Nat
      /\ Cardinality(Ready') \in Nat
  BY Counts DEF Ready
<1>2. /\ IsFiniteSet(Notifying) /\ IsFiniteSet(Notifying') /\ Cardinality(Notifying) \in Nat
      /\ Cardinality(Notifying') \in Nat
  BY Counts DEF Notifying
<1>3. Cardinality(Ready) <= Cardinality(Ready') /\ Cardinality(Notifying) <= Cardinality(Notifying')
  BY <1>1, <1>2, FS_Subset
<1>4. Len(tasks) \in Nat
  BY DEF TypeOK
<1>5. SUFFICES ASSUME Asleep' # {} PROVE Len(tasks') <= Cardinality(Ready') + Cardinality(Notifying')
  BY DEF NoTaskOverlooked, Ready, Notifying
<1>6. Len(tasks) <= Cardinality(Ready) + Cardinality(Notifying)
  BY <1>5 DEF NoTaskOverlooked, Ready, Notifying
<1>7. QED
  BY <1>1, <1>2, <1>3, <1>4, <1>6

\* No wakeup of a worker is lost.
LEMMA WakeupStep == ASSUME IInv, Next PROVE NoTaskOverlooked'
<1>1. TypeOK /\ NoTaskOverlooked
  BY DEF IInv
<1>2. /\ IsFiniteSet(Ready) /\ IsFiniteSet(Ready') /\ Cardinality(Ready) \in Nat
      /\ Cardinality(Ready') \in Nat
  BY Counts DEF Ready
<1>3. /\ IsFiniteSet(Notifying) /\ IsFiniteSet(Notifying') /\ Cardinality(Notifying) \in Nat
      /\ Cardinality(Notifying') \in Nat
  BY Counts DEF Notifying
<1>4. Len(tasks) \in Nat
  BY <1>1 DEF TypeOK
<1>5. Asleep # {} => Len(tasks) <= Cardinality(Ready) + Cardinality(Notifying)
  BY <1>1 DEF NoTaskOverlooked, Ready, Notifying
<1>6. ASSUME Asleep' # {} => Len(tasks') <= Cardinality(Ready') + Cardinality(Notifying')
      PROVE  NoTaskOverlooked'
  BY <1>6 DEF NoTaskOverlooked, Ready, Notifying
<1>7. ASSUME NEW p \in Producer, NEW t \in Task, Enqueue(p, t) PROVE NoTaskOverlooked'
  <2>1. tasks \in Seq(Task) /\ tasks' = Append(tasks, t)
    BY <1>1, <1>7 DEF Enqueue, TypeOK
  <2>2. Len(tasks') = Len(tasks) + 1
    BY <2>1, AppendQueue
  <2>3. Asleep' = Asleep /\ Ready' = Ready
    BY <1>7 DEF Enqueue, Asleep, Ready
  <2>4. p \notin Notifying /\ Notifying' = Notifying \cup {p}
    BY <1>1, <1>7 DEF Enqueue, Notifying, TypeOK
  <2>5. Cardinality(Notifying') = Cardinality(Notifying) + 1
    BY <1>3, <2>4, OneMore
  <2>6. QED
    BY <1>2, <1>3, <1>4, <1>5, <1>6, <2>2, <2>3, <2>5
<1>8. ASSUME NEW p \in Producer, NotifyOne(p) PROVE NoTaskOverlooked'
  <2>1. p \in Notifying /\ Notifying' = Notifying \ {p} /\ tasks' = tasks
    BY <1>1, <1>8 DEF NotifyOne, Notifying, TypeOK
  <2>2. Cardinality(Notifying') = Cardinality(Notifying) - 1
    BY <1>3, <2>1, OneLess
  <2>3. CASE Asleep = {} /\ worker' = worker
    BY <1>6, <2>3 DEF Asleep
  <2>4. ASSUME NEW w \in Asleep, worker' = [worker EXCEPT ![w] = "ready"] PROVE NoTaskOverlooked'
    <3>1. w \notin Ready /\ Ready' = Ready \cup {w}
      BY <1>1, <2>4 DEF Ready, Asleep, TypeOK
    <3>2. Cardinality(Ready') = Cardinality(Ready) + 1
      BY <1>2, <3>1, OneMore
    <3>3. Asleep # {}
      BY <2>4
    <3>4. QED
      BY <1>2, <1>3, <1>4, <1>5, <1>6, <2>1, <2>2, <3>2, <3>3
  <2>5. QED
    BY <1>1, <1>8, <2>3, <2>4, Notified
<1>9. ASSUME NEW w \in Worker, Sleep(w) \/ Exit(w) PROVE NoTaskOverlooked'
  <2>1. tasks' = <<>>
    BY <1>9 DEF Sleep, Exit, ExitAllowed
  <2>2. Len(tasks') = 0
    BY <2>1
  <2>3. QED
    BY <1>2, <1>3, <1>6, <2>2
<1>10. ASSUME NEW w \in Worker, Take(w) PROVE NoTaskOverlooked'
  <2>1. tasks \in Seq(Task) /\ tasks # <<>> /\ tasks' = Tail(tasks)
    BY <1>1, <1>10 DEF Take, Popped, TypeOK
  <2>2. Len(tasks') = Len(tasks) - 1
    BY <2>1, PopQueue
  <2>3. w \in Ready /\ Ready' = Ready \ {w} /\ Asleep' = Asleep
    BY <1>1, <1>10 DEF Take, Ready, Asleep, TypeOK
  <2>4. Cardinality(Ready') = Cardinality(Ready) - 1
    BY <1>2, <2>3, OneLess
  <2>5. Notifying' = Notifying
    BY <1>10 DEF Take, Notifying
  <2>6. QED
    BY <1>2, <1>3, <1>4, <1>5, <1>6, <2>2, <2>3, <2>4, <2>5
<1>11. ASSUME NEW w \in Worker,
              StartTask(w) \/ FinishTask(w) \/ ReadActive(w) \/ ReadPending(w) \/ WakeWorker(w)
       PROVE  NoTaskOverlooked'
  <2>1. Asleep' \subseteq Asleep /\ Ready \subseteq Ready'
    BY <1>1, <1>11
       DEF StartTask, FinishTask, ReadActive, ReadPending, WakeWorker, Asleep, Ready, TypeOK
  <2>2. tasks' = tasks /\ Notifying' = Notifying
    BY <1>11 DEF StartTask, FinishTask, ReadActive, ReadPending, WakeWorker, Notifying
  <2>3. QED
    BY <1>1, <2>1, <2>2, NobodyLeaves
<1>12. ASSUME NEW c \in Waiter,
              CallWait(c) \/ TestCompletion(c) \/ WaitForCompletion(c) \/ WakeWaiter(c)
       PROVE  NoTaskOverlooked'
  BY <1>1, <1>12, NobodyLeaves
     DEF CallWait, TestCompletion, WaitForCompletion, WakeWaiter, Asleep, Ready, Notifying
<1>13. CASE SetStop \/ Join
  BY <1>1, <1>13, NobodyLeaves DEF SetStop, Join, Asleep, Ready, Notifying
<1>14. CASE NotifyAll
  <2>1. Asleep' = {}
    BY <1>1, <1>14 DEF NotifyAll, Roused, Asleep, TypeOK
  <2>2. QED
    BY <1>6, <2>1
<1>15. QED
  BY <1>7, <1>8, <1>9, <1>10, <1>11, <1>12, <1>13, <1>14
     DEF Next, WorkerStep, WaiterStep, StopStep

\* Nobody falls asleep after notify_all().
LEMMA StopReachesStep == ASSUME IInv, Next PROVE StopReachesAll'
<1>1. TypeOK /\ StopInv /\ StopReachesAll
  BY DEF IInv
<1>2. ASSUME Asleep' \subseteq Asleep, stopper' = stopper PROVE StopReachesAll'
  BY <1>1, <1>2 DEF StopReachesAll
<1>3. ASSUME NEW p \in Producer, NEW t \in Task, Enqueue(p, t) PROVE StopReachesAll'
  BY <1>2, <1>3 DEF Enqueue, Asleep
<1>4. ASSUME NEW p \in Producer, NotifyOne(p) PROVE StopReachesAll'
  <2>1. Asleep' \subseteq Asleep
    BY <1>1, <1>4, Notified DEF Asleep, TypeOK
  <2>2. QED
    BY <1>2, <1>4, <2>1 DEF NotifyOne
<1>5. ASSUME NEW w \in Worker, Sleep(w) PROVE StopReachesAll'
  BY <1>1, <1>5 DEF Sleep, StopInv, StopReachesAll
<1>6. ASSUME NEW w \in Worker,
             \/ Exit(w) \/ Take(w) \/ StartTask(w) \/ FinishTask(w)
             \/ ReadActive(w) \/ ReadPending(w) \/ WakeWorker(w)
      PROVE  StopReachesAll'
  <2>1. Asleep' \subseteq Asleep /\ stopper' = stopper
    BY <1>1, <1>6 DEF Exit, Take, StartTask, FinishTask, ReadActive, ReadPending, WakeWorker, Asleep, TypeOK
  <2>2. QED
    BY <1>2, <2>1
<1>7. ASSUME NEW c \in Waiter,
             CallWait(c) \/ TestCompletion(c) \/ WaitForCompletion(c) \/ WakeWaiter(c)
      PROVE  StopReachesAll'
  BY <1>2, <1>7 DEF CallWait, TestCompletion, WaitForCompletion, WakeWaiter, Asleep
<1>8. CASE SetStop
  BY <1>8 DEF SetStop, StopReachesAll
<1>9. CASE NotifyAll
  <2>1. Asleep' = {}
    BY <1>1, <1>9 DEF NotifyAll, Roused, Asleep, TypeOK
  <2>2. QED
    BY <2>1 DEF StopReachesAll
<1>10. CASE Join
  BY <1>1, <1>10 DEF Join, StopReachesAll, Asleep
<1>11. QED
  BY <1>3, <1>4, <1>5, <1>6, <1>7, <1>8, <1>9, <1>10
     DEF Next, WorkerStep, WaiterStep, StopStep

\* A pool that has stopped has run everything: its workers exit on an empty
\* queue only.
LEMMA Drained ==
  ASSUME TypeOK, WorkerInv, StopInv, TasksConserved
  PROVE  StopDrains
<1>1. SUFFICES ASSUME stopper = "stopped" PROVE tasks = <<>> /\ executed = accepted
  BY DEF StopDrains
<1>2. \A w \in Worker : worker[w] = "exited"
  BY <1>1 DEF StopInv
<1>3. tasks = <<>> /\ Queued = {}
  BY <1>2, ThreadAssumption DEF WorkerInv, Queued
<1>4. Held = {}
  BY <1>2 DEF Held, Busy
<1>5. QED
  BY <1>3, <1>4 DEF TasksConserved

\* Every step keeps the invariant.
LEMMA InvariantStep == IInv /\ [Next]_vars => IInv'
<1>1. SUFFICES ASSUME IInv, [Next]_vars PROVE IInv'
  OBVIOUS
<1>2. CASE Next
  <2>1. TypeOK' /\ WorkerInv' /\ StopInv' /\ GoalInv' /\ TasksConserved'
    BY <1>1, <1>2, TypeStep, WorkerInvStep, TasksStep
  <2>2. StopDrains'
    BY <2>1, Drained, ThreadAssumption, PTL
  <2>3. CountersExact' /\ NoTaskOverlooked' /\ StopReachesAll'
    BY <1>1, <1>2, CountersStep, WakeupStep, StopReachesStep
  <2>4. QED
    BY <2>1, <2>2, <2>3 DEF IInv
<1>3. CASE UNCHANGED vars
  <2>1. /\ UNCHANGED <<tasks, stop, active, pending, mutex, worker, task, producer, waiter, stopper>>
        /\ UNCHANGED <<spurious, accepted, executed, goal>>
    BY <1>3 DEF vars, counters, threads, history
  <2>2. TypeOK' /\ WorkerInv' /\ StopInv' /\ GoalInv'
    BY <1>1, <2>1 DEF IInv, TypeOK, WorkerInv, StopInv, GoalInv, Busy
  <2>3. TasksConserved'
    BY <1>1, <2>1, NoTaskMoves DEF IInv, Busy
  <2>4. CountersExact' /\ NoTaskOverlooked' /\ StopReachesAll' /\ StopDrains'
    BY <1>1, <2>1 DEF IInv, CountersExact, NoTaskOverlooked, StopReachesAll, StopDrains, Asleep
  <2>5. QED
    BY <2>2, <2>3, <2>4 DEF IInv
<1>4. QED
  BY <1>1, <1>2, <1>3

\* The invariant of the thread pool holds: no task is lost or run twice
\* (thread_pool.cpp:31-45), the counters of waitForCompletion() are exact, and
\* enqueue(), which notifies outside the mutex, overlooks no sleeping worker.
THEOREM Invariant == Spec => []IInv
<1>1. Init => IInv
  BY InitInv
<1>2. IInv /\ [Next]_vars => IInv'
  BY InvariantStep
<1>3. QED
  BY <1>1, <1>2, PTL DEF Spec

\* stop() returns only when the queue is empty and all accepted tasks have run
\* (thread_pool.cpp:60-79).
THEOREM Draining == Spec => []StopDrains
<1>1. IInv => StopDrains
  BY DEF IInv
<1>2. QED
  BY <1>1, Invariant, PTL

\* A worker that sleeps while tasks are queued has another one, or a
\* notification to come, for each of them (thread_pool.h:81-94).
THEOREM NoLostWakeup == Spec => []NoTaskOverlooked
<1>1. IInv => NoTaskOverlooked
  BY DEF IInv
<1>2. QED
  BY <1>1, Invariant, PTL

-----------------------------------------------------------------------------
(* waitForCompletion().                                                    *)

\* What waitForCompletion() guarantees when it returns (thread_pool.cpp:86-90):
\* of the tasks accepted before the call only one that is popped and not
\* counted yet has not run.
THEOREM WaitingCovers == Spec => WaitCoversStarted
<1> DEFINE Covered == \A c \in Waiter :
      /\ waiter[c] # "returned"
      /\ waiter'[c] = "returned"
      => \A t \in goal[c] : t \in executed \/ \E w \in Worker : worker[w] = "taken" /\ task[w] = t
<1>1. ASSUME IInv, Next PROVE Covered
  <2>1. TypeOK /\ TasksConserved /\ CountersExact /\ GoalInv
    BY <1>1 DEF IInv
  <2>2. SUFFICES ASSUME NEW c \in Waiter, waiter[c] # "returned", waiter'[c] = "returned",
                        NEW t \in goal[c], t \notin executed
                 PROVE  \E w \in Worker : worker[w] = "taken" /\ task[w] = t
    OBVIOUS
  <2>3. ASSUME NEW d \in Waiter, TestCompletion(d) PROVE Complete
    <3>1. CASE Complete /\ waiter' = [waiter EXCEPT ![d] = "returned"]
      BY <3>1
    <3>2. CASE waiter' = [waiter EXCEPT ![d] = "tested"]
      BY <2>1, <2>2, <3>2 DEF TypeOK
    <3>3. QED
      BY <2>3, <3>1, <3>2 DEF TestCompletion
  <2>4. ASSUME NEW d \in Waiter, CallWait(d) \/ WaitForCompletion(d) \/ WakeWaiter(d) PROVE FALSE
    BY <2>1, <2>2, <2>4 DEF CallWait, WaitForCompletion, WakeWaiter, TypeOK
  <2>5. ASSUME NEW w \in Worker, WorkerStep(w) \/ WakeWorker(w) PROVE FALSE
    <3>1. CASE ReadPending(w)
      BY <2>1, <2>2, <3>1 DEF ReadPending, TypeOK
    <3>2. QED
      BY <2>2, <2>5, <3>1
         DEF WorkerStep, WakeWorker, Sleep, Exit, Take, StartTask, FinishTask, ReadActive
  <2>6. ASSUME NEW p \in Producer, NotifyOne(p) \/ \E u \in Task : Enqueue(p, u) PROVE FALSE
    BY <2>2, <2>6 DEF NotifyOne, Enqueue
  <2>7. ASSUME SetStop \/ StopStep PROVE FALSE
    BY <2>2, <2>7 DEF SetStop, StopStep, NotifyAll, Join
  <2>8. Complete
    BY <1>1, <2>3, <2>4, <2>5, <2>6, <2>7 DEF Next, WaiterStep
  <2>9. t \in Queued \cup Held
    BY <2>1, <2>2 DEF GoalInv, TasksConserved
  <2>10. Queued = {}
    BY <2>8 DEF Complete, Queued
  <2>11. PICK w \in Busy : task[w] = t
    BY <2>9, <2>10 DEF Held
  <2>12. w \in Worker /\ worker[w] # "running"
    <3>1. ASSUME worker[w] = "running" PROVE FALSE
      BY <1>1, <2>8, <2>11, <3>1, ActiveCovers DEF Complete, Busy
    <3>2. QED
      BY <2>11, <3>1 DEF Busy
  <2>13. QED
    BY <2>11, <2>12 DEF Busy
<1>2. ASSUME UNCHANGED vars PROVE Covered
  BY <1>2 DEF vars, threads
<1>3. IInv /\ [Next]_vars => [Covered]_vars
  BY <1>1, <1>2
<1>4. QED
  BY <1>3, Invariant, PTL DEF Spec, WaitCoversStarted

-----------------------------------------------------------------------------
(* The pool implements TaskPool.                                           *)

\* As many tasks are under way as workers are busy, at most.
LEMMA HeldBounded ==
  ASSUME TypeOK, NEW w \in Worker, w \notin Busy
  PROVE  IsFiniteSet(Held) /\ Cardinality(Held) < Cardinality(Worker)
<1> DEFINE f == [b \in Busy |-> task[b]]
<1>1. IsFiniteSet(Busy) /\ Cardinality(Busy) \in Nat
  BY Counts DEF Busy
<1>2. f \in Surjection(Busy, Held)
  BY DEF Surjection, Held
<1>3. IsFiniteSet(Held) /\ Cardinality(Held) <= Cardinality(Busy)
  BY <1>1, <1>2, FS_Surjection
<1>4. Cardinality(Busy) <= Cardinality(Worker \ {w})
  <2>1. Busy \subseteq Worker \ {w}
    BY DEF Busy
  <2>2. IsFiniteSet(Worker \ {w})
    BY Counts
  <2>3. QED
    BY <2>1, <2>2, FS_Subset
<1>5. Cardinality(Worker \ {w}) = Cardinality(Worker) - 1 /\ Cardinality(Worker) \in Nat
  BY ThreadAssumption, FS_RemoveElement, FS_CardinalityType
<1>6. Cardinality(Held) \in Nat
  BY <1>3, FS_CardinalityType
<1>7. QED
  BY <1>1, <1>3, <1>4, <1>5, <1>6

\* TaskPool counts as ThreadPool does.
LEMMA SameCardinality == ASSUME NEW S PROVE Pool!Cardinality(S) = Cardinality(S)
BY DEF Pool!Cardinality, Cardinality

\* Each step of a thread is a step of TaskPool, or none.
LEMMA RefinementStep == ASSUME IInv, IInv', Next PROVE [Pool!Next]_(Pool!avars)
<1> USE DEF Pool!avars
<1>1. TypeOK /\ TasksConserved /\ WorkerInv /\ StopInv
  BY DEF IInv
<1>2. ASSUME Busy' = Busy, task' = task, tasks' = tasks, executed' = executed, stop' = stop,
             (stopper' = "stopped") = (stopper = "stopped")
      PROVE  UNCHANGED Pool!avars
  <2>1. Held' = Held
    BY <1>2 DEF Held
  <2>2. QED
    BY <1>2, <2>1
<1>3. ASSUME NEW p \in Producer, NEW t \in Task, Enqueue(p, t) PROVE Pool!Next
  <2>1. t \notin Pool!Accepted
    BY <1>1, <1>3 DEF Enqueue, TasksConserved, Queued, Pool!Accepted, Pool!Elems
  <2>2. Held' = Held
    BY <1>3 DEF Enqueue, Held, Busy
  <2>3. Pool!Accept(t)
    BY <1>3, <2>1, <2>2 DEF Enqueue, Accepting, Pool!Accept
  <2>4. QED
    BY <2>3 DEF Pool!Next
<1>4. ASSUME NEW w \in Worker, Take(w) PROVE Pool!Next
  <2>1. w \notin Busy /\ Busy' = Busy \cup {w} /\ task' = [task EXCEPT ![w] = Head(tasks)]
    BY <1>1, <1>4 DEF Take, Busy, TypeOK
  <2>2. task'[w] = Head(tasks) /\ \A v \in Busy : task'[v] = task[v]
    BY <1>1, <2>1 DEF TypeOK, Busy
  <2>3. Held' = Held \cup {Head(tasks)}
    BY <2>1, <2>2 DEF Held
  <2>4. Cardinality(Held) < Cardinality(Worker)
    BY <1>1, <2>1, HeldBounded
  <2>5. /\ tasks # <<>> /\ tasks' = Tail(tasks)
        /\ executed' = executed /\ stop' = stop /\ stopper' = stopper
    BY <1>4 DEF Take, Popped, history
  <2>6. Pool!Start
    BY <2>3, <2>4, <2>5, SameCardinality, Zenon DEF Pool!Start
  <2>7. QED
    BY <2>6 DEF Pool!Next
<1>5. ASSUME NEW w \in Worker, FinishTask(w) PROVE Pool!Next
  <2>1. /\ w \in Busy /\ Busy' = Busy \ {w} /\ \A v \in Busy' : task'[v] = task[v]
        /\ task[w] \in Task
    BY <1>1, <1>5 DEF FinishTask, Busy, TypeOK, WorkerInv
  <2>2. task[w] \in Held /\ \A v \in Busy' : task[v] # task[w]
    BY <1>1, <2>1 DEF TasksConserved, Held
  <2>3. Held' = Held \ {task[w]}
    BY <2>1, <2>2 DEF Held
  <2>4. Pool!Finish(task[w])
    BY <1>5, <2>2, <2>3 DEF FinishTask, Pool!Finish
  <2>5. QED
    BY <2>1, <2>4 DEF Pool!Next
<1>6. ASSUME SetStop PROVE Pool!Next
  <2>1. Held' = Held
    BY <1>6 DEF SetStop, Held, Busy
  <2>2. Pool!Shut
    BY <1>6, <2>1 DEF SetStop, history, Pool!Shut
  <2>3. QED
    BY <2>2 DEF Pool!Next
<1>7. ASSUME Join PROVE Pool!Next
  <2>1. tasks = <<>> /\ stop
    BY <1>1, <1>7, ThreadAssumption DEF Join, WorkerInv
  <2>2. Held = {} /\ Held' = {}
    BY <1>7 DEF Join, Held, Busy
  <2>3. Pool!Close
    BY <1>7, <2>1, <2>2 DEF Join, history, Pool!Close
  <2>4. QED
    BY <2>3 DEF Pool!Next
<1>8. ASSUME NEW p \in Producer, NotifyOne(p) PROVE UNCHANGED Pool!avars
  <2>1. Busy' = Busy
    BY <1>1, <1>8, Notified DEF Busy, Asleep, TypeOK
  <2>2. QED
    BY <1>2, <1>8, <2>1 DEF NotifyOne, history
<1>9. ASSUME NEW w \in Worker,
             Sleep(w) \/ Exit(w) \/ StartTask(w) \/ ReadActive(w) \/ ReadPending(w) \/ WakeWorker(w)
      PROVE  UNCHANGED Pool!avars
  <2>1. Busy' = Busy
    BY <1>1, <1>9 DEF Sleep, Exit, StartTask, ReadActive, ReadPending, WakeWorker, Busy, TypeOK
  <2>2. QED
    BY <1>2, <1>9, <2>1 DEF Sleep, Exit, StartTask, ReadActive, ReadPending, WakeWorker, history
<1>10. ASSUME NEW c \in Waiter,
              CallWait(c) \/ TestCompletion(c) \/ WaitForCompletion(c) \/ WakeWaiter(c)
       PROVE  UNCHANGED Pool!avars
  BY <1>2, <1>10 DEF CallWait, TestCompletion, WaitForCompletion, WakeWaiter, Busy, history
<1>11. ASSUME NotifyAll PROVE UNCHANGED Pool!avars
  <2>1. Busy' = Busy
    BY <1>1, <1>11 DEF NotifyAll, Roused, Asleep, Busy, TypeOK
  <2>2. QED
    BY <1>2, <1>11, <2>1 DEF NotifyAll, history
<1>12. QED
  BY <1>3, <1>4, <1>5, <1>6, <1>7, <1>8, <1>9, <1>10, <1>11
     DEF Next, WorkerStep, WaiterStep, StopStep

\* The pool implements TaskPool: accepted tasks start in order, as many run
\* as there are workers, and stop() reports the end after the last one.
THEOREM Refinement == Spec => ImplementsTaskPool
<1>1. Init => Pool!Init
  BY DEF Init, Pool!Init, Held, Busy
<1>2. IInv /\ IInv' /\ [Next]_vars => [Pool!Next]_(Pool!avars)
  <2>1. ASSUME UNCHANGED vars PROVE UNCHANGED Pool!avars
    BY <2>1 DEF vars, threads, history, Pool!avars, Held, Busy
  <2>2. QED
    BY <2>1, RefinementStep
<1>3. QED
  BY <1>1, <1>2, Invariant, PTL DEF Spec, ImplementsTaskPool, Pool!Spec

=============================================================================
