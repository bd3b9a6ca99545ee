SPECIFICATION Spec
CONSTANTS
  Procs = {p1}
  Old = old
  Signals = {"KILL"}
  MaxSignals = 1
  MaxStarts = 1
INVARIANTS
  AbandonedLockIsStale
CHECK_DEADLOCK FALSE
