SPECIFICATION Spec
CONSTANTS
  lookup = "lookup"
  Objects = {"empty", "x"}
  Wires = {"chat"}
  MaxTurns = 2
  Options <- MCOptions
  Shapes <- MCShapes
  Usages <- MCUsages
INVARIANTS
  StreamedCallsSurvive
CHECK_DEADLOCK FALSE
