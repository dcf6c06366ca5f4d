SPECIFICATION Spec
CONSTANTS
  Replica = {r1, r2}
  None = None
  Instance <- Echoes
  CleanupPeriod = 2
  Timeout = 2
  MaxLog = 3
  MaxFaults = 1
INVARIANTS ReplicasAgree VouchedForListed DeadForgotten SnapshotRestores
SYMMETRY Symmetry
