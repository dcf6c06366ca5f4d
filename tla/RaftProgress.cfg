SPECIFICATION FairSpec
CONSTANTS
  Node = {n1, n2, n3}
  Nil = Nil
  MaxTerm = 1
  MaxLog = 0
  MaxFaults = 1
PROPERTY LoopEnds
CHECK_DEADLOCK FALSE
