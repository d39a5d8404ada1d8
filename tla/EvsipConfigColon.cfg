CONSTANTS
  StringOption <- MCStringOption
  IntegerOption <- MCIntegerOption
  Default <- MCDefault
  Char <- MCChar
  Space <- MCSpace
  Digit <- MCDigit
  NUL = "NUL"
  LineMax = 16
  ValueMax = 8
  Line <- MCColon
  MaxLines = 2
SPECIFICATION Spec
CHECK_DEADLOCK FALSE
INVARIANTS
  EveryPairSets
