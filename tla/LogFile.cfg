SPECIFICATION FairSpec
CONSTANTS
  Threads = {t1, t2}
  MaxCalls = 3
  MaxInterrupts = 1
  MaxFailures = 1
INVARIANTS
  TimeFromOverlap
  Durable
PROPERTIES
  LineLogSpec
  CallsReturn
CHECK_DEADLOCK FALSE
