SPECIFICATION Spec
CONSTANTS
  Server = {1}
  Names <- TwoNames
  HeartbeatPeriod = 3
  CheckPeriod = 2
  Timeout = 6
  MaxDelay = 1
  MaxFaults = 2
INVARIANTS IInv SteadyListed KnownAgain DeadForgotten LookupComplete
CHECK_DEADLOCK FALSE
