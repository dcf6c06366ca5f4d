SPECIFICATION Spec
CONSTANTS
  Node = {n1, n2, n3}
  Nil = Nil
  MaxTerm = 2
  MaxLog = 1
  MaxFaults = 0
INVARIANT AcknowledgedSurvive
CHECK_DEADLOCK FALSE
