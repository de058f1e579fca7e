SPECIFICATION Spec
CONSTANTS
  Chars <- AllChars
  MaxChars = 7
INVARIANTS LineMeaning LineNumbers BitList
CHECK_DEADLOCK FALSE
