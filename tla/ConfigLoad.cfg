SPECIFICATION Spec
CONSTANTS
  Lines <- ShortLines
  MaxLines = 4
  MAX_RULES = 3
INVARIANTS
  TypeOK
  LoadedIsUnambiguous
  LoadsWhatIsWritten
  GoodFileLoads
CHECK_DEADLOCK FALSE
