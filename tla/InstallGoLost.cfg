SPECIFICATION Spec
CONSTANTS
  Procs = {p1}
  Old = old
  Signals = {"INT"}
  MaxSignals = 1
  MaxStarts = 1
PROPERTIES
  ToolchainSurvives
CHECK_DEADLOCK FALSE
