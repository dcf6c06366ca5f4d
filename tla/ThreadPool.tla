----------------------------- MODULE ThreadPool -----------------------------
(***************************************************************************)
(* ThreadPool (common/thread_pool.h, common/thread_pool.cpp): a queue of   *)
(* tasks under queue_mutex_, workers that sleep on condition_, callers of  *)
(* waitForCompletion() that sleep on finished_condition_, and stop().      *)
(*                                                                         *)
(* A critical section is one step, except that of waitForCompletion():     *)
(* active_threads_ is an atomic that workers change, and                   *)
(* finished_condition_ a condition variable they notify, without the       *)
(* mutex, so they can do both between the predicate of wait() and its      *)
(* going to sleep.  `mutex` is the caller that holds queue_mutex_ then.    *)
(***************************************************************************)
EXTENDS Integers, Sequences, FiniteSets

CONSTANTS
    Worker, Producer, Waiter,  \* threads of the pool, in enqueue(), in waitForCompletion()
    Task,
    Nil,
    MaxSpurious                \* bound: spurious wakeups of condition variables

\* A pool of no workers never runs anything.
ASSUME ThreadAssumption == /\ IsFiniteSet(Worker) /\ Worker # {}
                           /\ IsFiniteSet(Producer)
                           /\ Nil \notin Waiter /\ Nil \notin Task
ASSUME SpuriousAssumption == MaxSpurious \in Nat

VARIABLES
    tasks, stop, active, pending,  \* tasks_, stop_, active_threads_, pending_tasks_
    mutex,
    worker,     \* where each worker is in its loop
    task,       \* the task a worker has popped
    producer,   \* "notify": the task is queued, notify_one() still to come
    waiter,     \* where each caller of waitForCompletion() is
    stopper,    \* where stop() is
    spurious,
    accepted,   \* history: tasks enqueue() did not reject
    executed,   \* history: tasks that have run
    goal        \* history: what was accepted when waitForCompletion() was called

counters == <<active, pending>>
threads  == <<worker, task, producer, waiter, stopper>>
history  == <<accepted, executed, goal>>
vars     == <<tasks, stop, counters, mutex, threads, spurious, history>>

Init ==
    /\ tasks    = <<>>
    /\ stop     = FALSE
    /\ active   = 0
    /\ pending  = 0
    /\ mutex    = Nil
    /\ worker   = [w \in Worker |-> "ready"]
    /\ task     = [w \in Worker |-> Nil]
    /\ producer = [p \in Producer |-> "idle"]
    /\ waiter   = [c \in Waiter |-> "idle"]
    /\ stopper  = "idle"
    /\ spurious = 0
    /\ accepted = {}
    /\ executed = {}
    /\ goal     = [c \in Waiter |-> {}]

Free == mutex = Nil

Asleep == {w \in Worker : worker[w] = "asleep"}

-----------------------------------------------------------------------------
(* enqueue().  On a stopped pool it throws and changes nothing.            *)

Accepting == ~stop

Enqueue(p, t) ==
    /\ Free
    /\ Accepting
    /\ producer[p] = "idle"
    /\ t \notin accepted
    /\ tasks'    = Append(tasks, t)
    /\ pending'  = pending + 1
    /\ producer' = [producer EXCEPT ![p] = "notify"]
    /\ accepted' = accepted \cup {t}
    /\ UNCHANGED <<stop, active, mutex, worker, task, waiter, stopper, spurious, executed, goal>>

\* What notify_one() does to the workers: it wakes one, if one sleeps.
Woken_none == {worker}                              \* mutant: the wakeup is lost
Woken == IF Asleep = {} THEN {worker}
         ELSE {[worker EXCEPT ![w] = "ready"] : w \in Asleep}

NotifyOne(p) ==
    /\ producer[p] = "notify"
    /\ producer' = [producer EXCEPT ![p] = "idle"]
    /\ worker' \in Woken
    /\ UNCHANGED <<tasks, stop, counters, mutex, task, waiter, stopper, spurious, history>>

-----------------------------------------------------------------------------
(* A worker.                                                               *)

Sleep(w) ==
    /\ Free
    /\ worker[w] = "ready"
    /\ ~stop
    /\ tasks = <<>>
    /\ worker' = [worker EXCEPT ![w] = "asleep"]
    /\ UNCHANGED <<tasks, stop, counters, mutex, task, producer, waiter, stopper, spurious, history>>

ExitAllowed_stopped == stop                         \* mutant: the queue is not drained
ExitAllowed == stop /\ tasks = <<>>

Exit(w) ==
    /\ Free
    /\ worker[w] = "ready"
    /\ ExitAllowed
    /\ worker' = [worker EXCEPT ![w] = "exited"]
    /\ UNCHANGED <<tasks, stop, counters, mutex, task, producer, waiter, stopper, spurious, history>>

Popped == Tail(tasks)

\* The task leaves the queue, and the pending count, before the worker is active.
Take(w) ==
    /\ Free
    /\ worker[w] = "ready"
    /\ tasks # <<>>
    /\ task'    = [task EXCEPT ![w] = Head(tasks)]
    /\ tasks'   = Popped
    /\ pending' = pending - 1
    /\ worker'  = [worker EXCEPT ![w] = "taken"]
    /\ UNCHANGED <<stop, active, mutex, producer, waiter, stopper, spurious, history>>

StartTask_uncounted(w) ==                           \* mutant: the worker is not counted
    /\ worker[w] = "taken"
    /\ worker' = [worker EXCEPT ![w] = "running"]
    /\ UNCHANGED <<tasks, stop, counters, mutex, task, producer, waiter, stopper, spurious, history>>

StartTask(w) ==
    /\ worker[w] = "taken"
    /\ active' = active + 1
    /\ worker' = [worker EXCEPT ![w] = "running"]
    /\ UNCHANGED <<tasks, stop, pending, mutex, task, producer, waiter, stopper, spurious, history>>

\* The task returns, or throws and is caught; the worker is no longer active.
FinishTask(w) ==
    /\ worker[w] = "running"
    /\ executed' = executed \cup {task[w]}
    /\ task'     = [task EXCEPT ![w] = Nil]
    /\ active'   = active - 1
    /\ worker'   = [worker EXCEPT ![w] = "finished"]
    /\ UNCHANGED <<tasks, stop, pending, mutex, producer, waiter, stopper, spurious, accepted, goal>>

\* The two reads of `active_threads_ == 0 && pending_tasks_ == 0`.
ReadActive(w) ==
    /\ worker[w] = "finished"
    /\ worker' = [worker EXCEPT ![w] = IF active = 0 THEN "lastActive" ELSE "ready"]
    /\ UNCHANGED <<tasks, stop, counters, mutex, task, producer, waiter, stopper, spurious, history>>

ReadPending(w) ==
    /\ worker[w] = "lastActive"
    /\ worker' = [worker EXCEPT ![w] = "ready"]
    /\ waiter' = IF pending = 0
                 THEN [c \in Waiter |-> IF waiter[c] = "asleep" THEN "ready" ELSE waiter[c]]
                 ELSE waiter
    /\ UNCHANGED <<tasks, stop, counters, mutex, task, producer, stopper, spurious, history>>

-----------------------------------------------------------------------------
(* waitForCompletion().                                                    *)

CallWait(c) ==
    /\ waiter[c] = "idle"
    /\ waiter' = [waiter EXCEPT ![c] = "ready"]
    /\ goal'   = [goal EXCEPT ![c] = accepted]
    /\ UNCHANGED <<tasks, stop, counters, mutex, worker, task, producer, stopper, spurious,
                   accepted, executed>>

\* The predicate, under queue_mutex_.
Complete_queue == tasks = <<>>                      \* mutant: running tasks are not awaited
Complete == tasks = <<>> /\ active = 0

TestCompletion(c) ==
    /\ Free
    /\ waiter[c] = "ready"
    /\ \/ /\ Complete
          /\ waiter' = [waiter EXCEPT ![c] = "returned"]
          /\ UNCHANGED mutex
       \/ /\ ~Complete
          /\ waiter' = [waiter EXCEPT ![c] = "tested"]
          /\ mutex' = c
    /\ UNCHANGED <<tasks, stop, counters, worker, task, producer, stopper, spurious, history>>

WaitForCompletion(c) ==
    /\ waiter[c] = "tested"
    /\ waiter' = [waiter EXCEPT ![c] = "asleep"]
    /\ mutex' = Nil
    /\ UNCHANGED <<tasks, stop, counters, worker, task, producer, stopper, spurious, history>>

-----------------------------------------------------------------------------
(* stop(), called once: by the destructor, or before it.                   *)

SetStop ==
    /\ Free
    /\ stopper = "idle"
    /\ stop' = TRUE
    /\ stopper' = "notify"
    /\ UNCHANGED <<tasks, counters, mutex, worker, task, producer, waiter, spurious, history>>

Roused_one == IF Asleep = {} THEN worker            \* mutant: notify_one()
              ELSE [worker EXCEPT ![CHOOSE w \in Asleep : TRUE] = "ready"]
Roused == [w \in Worker |-> IF w \in Asleep THEN "ready" ELSE worker[w]]

NotifyAll ==
    /\ stopper = "notify"
    /\ stopper' = "join"
    /\ worker' = Roused
    /\ UNCHANGED <<tasks, stop, counters, mutex, task, producer, waiter, spurious, history>>

Join ==
    /\ stopper = "join"
    /\ \A w \in Worker : worker[w] = "exited"
    /\ stopper' = "stopped"
    /\ UNCHANGED <<tasks, stop, counters, mutex, worker, task, producer, waiter, spurious, history>>

-----------------------------------------------------------------------------
(* A condition variable may wake a thread for no reason.                   *)

WakeWorker(w) ==
    /\ spurious < MaxSpurious
    /\ worker[w] = "asleep"
    /\ worker' = [worker EXCEPT ![w] = "ready"]
    /\ spurious' = spurious + 1
    /\ UNCHANGED <<tasks, stop, counters, mutex, task, producer, waiter, stopper, history>>

WakeWaiter(c) ==
    /\ spurious < MaxSpurious
    /\ waiter[c] = "asleep"
    /\ waiter' = [waiter EXCEPT ![c] = "ready"]
    /\ spurious' = spurious + 1
    /\ UNCHANGED <<tasks, stop, counters, mutex, worker, task, producer, stopper, history>>

WorkerStep(w) ==
    \/ Sleep(w)
    \/ Exit(w)
    \/ Take(w)
    \/ StartTask(w)
    \/ FinishTask(w)
    \/ ReadActive(w)
    \/ ReadPending(w)

WaiterStep(c) == TestCompletion(c) \/ WaitForCompletion(c)

StopStep == NotifyAll \/ Join

Next ==
    \/ \E p \in Producer : NotifyOne(p) \/ \E t \in Task : Enqueue(p, t)
    \/ \E w \in Worker : WorkerStep(w) \/ WakeWorker(w)
    \/ \E c \in Waiter : CallWait(c) \/ WaiterStep(c) \/ WakeWaiter(c)
    \/ SetStop
    \/ StopStep

Spec == Init /\ [][Next]_vars

\* Threads that can run do, and tasks return.  Nobody has to enqueue, to wait
\* or to stop, and no spurious wakeup has to come.
FairSpec == /\ Spec
            /\ \A p \in Producer : WF_vars(NotifyOne(p))
            /\ \A w \in Worker : WF_vars(WorkerStep(w))
            /\ \A c \in Waiter : WF_vars(WaiterStep(c))
            /\ WF_vars(StopStep)

-----------------------------------------------------------------------------
(* Properties.                                                             *)

WorkerState == {"ready", "asleep", "taken", "running", "finished", "lastActive", "exited"}

\* Types of every variable; the counters never wrap below zero.
TypeOK ==
    /\ tasks \in Seq(Task)
    /\ stop \in BOOLEAN
    /\ active \in Nat
    /\ pending \in Nat
    /\ mutex \in Waiter \cup {Nil}
    /\ worker \in [Worker -> WorkerState]
    /\ task \in [Worker -> Task \cup {Nil}]
    /\ producer \in [Producer -> {"idle", "notify"}]
    /\ waiter \in [Waiter -> {"idle", "ready", "tested", "asleep", "returned"}]
    /\ stopper \in {"idle", "notify", "join", "stopped"}
    /\ spurious \in 0 .. MaxSpurious
    /\ accepted \subseteq Task
    /\ executed \subseteq Task
    /\ goal \in [Waiter -> SUBSET Task]

Busy == {w \in Worker : worker[w] \in {"taken", "running"}}
Queued == {tasks[i] : i \in 1 .. Len(tasks)}
Held == {task[w] : w \in Busy}

\* No task is lost or run twice: each accepted task is in exactly one place,
\* once in the queue, with one worker, or executed.
TasksConserved ==
    /\ accepted = Queued \cup Held \cup executed
    /\ Queued \cap Held = {}
    /\ (Queued \cup Held) \cap executed = {}
    /\ \A i, j \in 1 .. Len(tasks) : tasks[i] = tasks[j] => i = j
    /\ \A v, w \in Busy : task[v] = task[w] => v = w

\* The counters that waitForCompletion() and the workers trust.
CountersExact ==
    /\ pending = Len(tasks)
    /\ active = Cardinality({w \in Worker : worker[w] = "running"})

\* enqueue() notifies outside the mutex, yet no wakeup of a worker is lost:
\* while a worker sleeps, each queued task has an awake worker about to look
\* at the queue, or a notify_one() still to come.
NoTaskOverlooked ==
    Asleep # {} =>
        Len(tasks) <= Cardinality({w \in Worker : worker[w] = "ready"})
                      + Cardinality({p \in Producer : producer[p] = "notify"})

\* After stop()'s notify_all() no worker is left asleep.
StopReachesAll == stopper \in {"join", "stopped"} => Asleep = {}

\* stop() returns only when every task ever accepted has run.
StopDrains == stopper = "stopped" => tasks = <<>> /\ executed = accepted

Pool == INSTANCE TaskPool WITH
            Size <- Cardinality(Worker),
            waiting <- tasks, running <- Held, finished <- executed,
            open <- ~stop, closed <- stopper = "stopped"

\* The pool is a TaskPool: order of start, parallelism and closing included.
ImplementsTaskPool == Pool!Spec

\* An accepted task runs.
TasksRun == \A t \in Task : t \in accepted ~> t \in executed

\* stop() returns.
StopReturns == stop ~> stopper = "stopped"

\* What waitForCompletion() guarantees instead of "all tasks have completed":
\* of the tasks accepted before the call, only one that a worker has popped,
\* but does not count as active yet, may not have run when it returns.
WaitCoversStarted == [][\A c \in Waiter :
    /\ waiter[c] # "returned"
    /\ waiter'[c] = "returned"
    => \A t \in goal[c] : t \in executed \/ \E w \in Worker : worker[w] = "taken" /\ task[w] = t]_vars

-----------------------------------------------------------------------------
(* The inductive invariant.                                                *)

\* Where a worker is says what it holds, and when it may have exited.
WorkerInv == \A w \in Worker :
    /\ w \in Busy => task[w] \in Task
    /\ worker[w] = "exited" => stop /\ tasks = <<>>

\* stop() and stop_ go together, and it returns after the last worker.
StopInv ==
    /\ stop <=> stopper # "idle"
    /\ stopper = "stopped" => \A w \in Worker : worker[w] = "exited"

GoalInv == \A c \in Waiter : goal[c] \subseteq accepted

\* No step of any thread loses a task, a count or a wakeup: everything above
\* that holds in each state, and what makes it inductive.
IInv == /\ TypeOK /\ WorkerInv /\ StopInv /\ GoalInv
        /\ TasksConserved /\ CountersExact
        /\ NoTaskOverlooked /\ StopReachesAll /\ StopDrains

-----------------------------------------------------------------------------
\* waitForCompletion() returns once the pool is idle.
WaitReturns == \A c \in Waiter : waiter[c] = "ready" ~> waiter[c] = "returned"

=============================================================================
