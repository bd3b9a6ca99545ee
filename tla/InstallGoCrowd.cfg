SPECIFICATION Spec
CONSTANTS
  Procs = {p1, p2, p3}
  Old = old
  Signals = {}
  MaxSignals = 0
  MaxStarts = 1
INVARIANTS
  OneInstaller
CHECK_DEADLOCK FALSE
