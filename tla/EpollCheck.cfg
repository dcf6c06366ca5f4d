SPECIFICATION FairSpec
CONSTANTS
  c1 = c1
  c2 = c2
  c3 = c3
  Client = {c1, c2, c3}
  Fd = {f1, f2, f3}
  Worker = {w1}
  Listen = Listen
  Nil = Nil
  MaxConnections = 2
  MaxRequests <- TwoOfOne
INVARIANTS IInv AnsweredOnce OnlyOrphansStray
PROPERTIES CatchesUp StopEnds
CHECK_DEADLOCK FALSE
