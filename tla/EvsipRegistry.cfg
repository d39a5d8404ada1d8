CONSTANTS
  Host = {h1, h2, h3}
  User = {u1}
  Endp = {e1, e2, e3}
  NULL = NULL
  Requests <- MCRequests
  AllocFault = {"clone", "strdup", "vector", "append"}
  Word = 20000
SPECIFICATION Spec
SYMMETRY MCSymmetry
CHECK_DEADLOCK FALSE
INVARIANTS
  TypeOK
  FlagMatchesList
  HostsUnique
  ListedReadable
  OwnerIsOldest
  NoOrphan
  AnsweredIsStored
PROPERTIES
  ImplementsLocationService
  ReleasedForGood
