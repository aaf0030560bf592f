SPECIFICATION Spec
CONSTANTS
  r1 = r1
  r2 = r2
  Requests = {r1, r2}
  Streams = {r1}
  Mixes <- StreamMixes
  MaxRetries = 1
  MaxFrames = 3
INVARIANTS
  GaugesComeDown
CHECK_DEADLOCK FALSE
