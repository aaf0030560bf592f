SPECIFICATION FairSpec
CONSTANTS
  MaxItems = 2
  MaxParts = 2
  MaxPieces = 1
  MaxLanes = 2
INVARIANTS
  TypeOK
  StreamAgreesWithSync
  VerdictIsTheUpstreams
PROPERTIES
  KeepsEventOrder
  StreamsEnd
