SPECIFICATION FairSpec
CONSTANTS
  Requests <- MCRequests
  Inputs = 3
  MaxBatch = 2
  MaxConcurrency = 2
  MaxRetries = 2
INVARIANTS
  TypeOK
  ConnectionsBounded
  WholeOrError
  EveryTextTried
  NativesAcceptable
PROPERTIES
  NoResendWhenLate
  Answered
CHECK_DEADLOCK FALSE
