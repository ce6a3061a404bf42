SPECIFICATION Spec
CONSTANTS
  Lines <- CommentedLines
  MaxLines = 2
  MAX_RULES = 3
INVARIANT
  GoodFileLoads
CHECK_DEADLOCK FALSE
