SPECIFICATION Spec
CONSTANTS
  Procs = {p1, p2}
  Old = old
  Signals = {"KILL"}
  MaxSignals = 1
  MaxStarts = 1
INVARIANTS
  OneInstaller
PROPERTIES
  ToolchainSurvives
  LiveLockKept
  SuccessInstalls
  AcquireEnds
CHECK_DEADLOCK FALSE
