CONSTANTS
  Host = {h1, h2}
  User = {u1}
  Endp = {e1, e2}
  NULL = NULL
  Requests <- MCRequests
  AllocFault = {}
  Word = 20000
SPECIFICATION Spec
CHECK_DEADLOCK FALSE
INVARIANT EveryRegisterAnswered
