CONSTANTS
  Obj = {o1, o2, o3}
  NULL = NULL
  Word = 3
  MaxHeld = 3
  MaxDepth = 3
SPECIFICATION Spec
CHECK_DEADLOCK FALSE
INVARIANTS
  TypeOK
  CountIsHeld
  HeldIsLive
  NoLeak
  NullMeansFreed
  MemorySafe
