CONSTANTS
  Cmd = {c1, c2, c3, c4}
  Name <- MCName
  NULL = NULL
  AllocFault = {"vector", "clone", "strdup", "append", "array"}
SPECIFICATION Spec
CHECK_DEADLOCK FALSE
INVARIANTS
  TypeOK
  SureIndex
  ListedUsable
  StaleIndexNotBefore
PROPERTIES
  OnlyDestroyedLeave
