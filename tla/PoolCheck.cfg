SPECIFICATION FairSpec
CONSTANTS
  Worker = {w1, w2}
  Producer = {p1, p2}
  Waiter = {c1}
  Task = {t1, t2}
  Nil = Nil
  MaxSpurious = 1
INVARIANTS IInv
PROPERTIES ImplementsTaskPool WaitCoversStarted TasksRun StopReturns
CHECK_DEADLOCK FALSE
