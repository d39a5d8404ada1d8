CONSTANTS
  Fail = {}
  MaxSignals = 1
  MaxQueue = 1
SPECIFICATION Spec
CHECK_DEADLOCK FALSE
INVARIANT TerminalRestored
