SPECIFICATION Spec
CONSTANTS
  Clients = {c1, c2}
  Limit = 2
  WindowSeconds = 1
  TicksPerSecond = 3
  Horizon = 6
INVARIANTS
  TypeOK
  AtMostLimitPerWindow
PROPERTIES
  RejectedOnlyAtLimit

