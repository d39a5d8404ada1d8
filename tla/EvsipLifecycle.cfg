CONSTANTS
  Fail = {"args", "fopen", "home", "root", "nua", "sigaction", "wait", "command"}
  MaxSignals = 3
  MaxQueue = 2
SPECIFICATION Spec
CHECK_DEADLOCK FALSE
INVARIANTS
  TypeOK
  LoopIsReady
  HandlerHasMessage
  FailureCleansUp
PROPERTIES
  LoopLeftByBreak
  SignalHeeded
  QueuedStopHonoured
