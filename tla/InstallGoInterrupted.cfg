SPECIFICATION Spec
CONSTANTS
  Procs = {p1, p2}
  Old = old
  Signals = {"INT"}
  MaxSignals = 2
  MaxStarts = 1
INVARIANTS
  OneInstaller
  NoLeftovers
CHECK_DEADLOCK FALSE
