CONSTANTS
  Cmd = {1, 2, 3, 4}
  Name <- MCName
  Char <- MCChar
  StartUp <- MCStartUp
  NULL = NULL
  NUL = "NUL"
  AllocFault = {}
  MaxLen = 3
  Word = 16
SPECIFICATION CliSpec
CHECK_DEADLOCK FALSE
INVARIANTS
  WithinMaxLength
