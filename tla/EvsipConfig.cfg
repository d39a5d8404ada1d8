CONSTANTS
  StringOption <- MCStringOption
  IntegerOption <- MCIntegerOption
  Default <- MCDefault
  Char <- MCChar
  Space <- MCSpace
  Digit <- MCDigit
  NUL = "NUL"
  LineMax = 16
  ValueMax = 8
  Line <- MCLine
  MaxLines = 2
SPECIFICATION Spec
CHECK_DEADLOCK FALSE
INVARIANTS
  TypeOK
  AsWritten
  ShortLinesSafe
