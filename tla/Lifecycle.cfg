SPECIFICATION FairSpec
CONSTANTS
  r1 = r1
  r2 = r2
  Requests = {r1, r2}
  Streams = {r1}
  Mixes <- MCMixes
  MaxRetries = 2
  MaxFrames = 3
INVARIANTS
  TypeOK
  CountedOutOnce
  ConnectionsAccounted
  RecordsTellTheAnswers
  RelayFaithful
  NoLateRetry
PROPERTIES
  PassthroughHonoursContract
  StreamsAreClosed
CHECK_DEADLOCK FALSE
