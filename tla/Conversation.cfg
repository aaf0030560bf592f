SPECIFICATION Spec
CONSTANTS
  lookup = "lookup"
  Objects = {"empty", "x"}
  Wires = {"chat", "native", "responses", "codex"}
  MaxTurns = 3
  Options <- MCOptions
  Shapes <- MCShapes
  Usages <- MCUsages
INVARIANTS
  HistoryFaithful
  UsageRecorded
  BodiesAcceptable
CHECK_DEADLOCK FALSE
