SPECIFICATION FairSpec
CONSTANTS
  Request <- SomeRequests
  Answer <- SomeAnswers
  Stray = 1
  PrefixSize = 2
  MaxLength = 2
  Room = 6
  ConnectionTimeout = 10
INVARIANTS RequestsWhole AnswersWhole FailsForAReason IInv
PROPERTIES ReceiveEnds ServerHears
CHECK_DEADLOCK FALSE
