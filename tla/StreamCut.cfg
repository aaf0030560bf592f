SPECIFICATION CutSpec
CONSTANTS
  MaxItems = 2
  MaxParts = 1
  MaxPieces = 1
  MaxLanes = 1
INVARIANTS
  VerdictIsTheUpstreams
