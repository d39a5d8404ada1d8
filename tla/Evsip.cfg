CONSTANTS
  Fail = {"wait"}
  MaxSignals = 1
  MaxQueue = 1
  MaxRequests = 4
  h1 = h1
  h2 = h2
  u1 = u1
  Host = {h1, h2}
  User = {u1}
  Endp = {e1, e2, e3}
  NULL = NULL
  Requests <- MCRequests
  AllocFault = {}
  Word = 20000
SPECIFICATION Spec
CHECK_DEADLOCK FALSE
INVARIANTS
  TypeOK
  HandledBeforeExit
PROPERTIES
  RequestsHandled
  ExitNotStarved
  OnlyRegisterBreaks
  ImplementsSipServer
