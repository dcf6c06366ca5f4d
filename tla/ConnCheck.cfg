SPECIFICATION FairSpec
CONSTANTS
  Client = {c1, c2, c3}
  Conn = {k1, k2, k3}
  Nil = Nil
  MaxConn = 2
  MinConn = 1
INVARIANTS PoolConsistent ExclusiveUse TotalBounded
PROPERTIES AcquireEnds
CHECK_DEADLOCK FALSE
