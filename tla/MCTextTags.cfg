SPECIFICATION TagSpec
CONSTANTS
  Mark = 1000
  Mentions <- Users
  Numerals <- Users
  Odd = {"1"}
CHECK_DEADLOCK FALSE
PROPERTY Returns
