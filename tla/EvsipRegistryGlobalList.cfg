CONSTANTS
  Host = {h1, h2}
  User = {u1}
  Endp = {e1, e2}
  NULL = NULL
  Requests <- MCOrdinary
  AllocFault = {}
  Word = 20000
SPECIFICATION Spec
CHECK_DEADLOCK FALSE
INVARIANT GlobalListOutlivesEndpoints
