SPECIFICATION Spec
CONSTANTS
  Captured <- SomeFrames
  NewIp <- SomeIp
  BufferLen = 37
  MaxFrames = 2
INVARIANTS
  ReaddressedValidly
  NothingElseChanges
CHECK_DEADLOCK FALSE
