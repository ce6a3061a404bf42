SPECIFICATION FairSpec
CONSTANTS
  p1 = p1
  p2 = p2
  c1 = c1
  c2 = c2
  Threads = {p1, p2, c1, c2}
  Calls <- AllCalls
  Q_SIZE = 2
  MAX_PKG_SIZE = 1
  Data = {d1, d2}
  Sizes = {0, 1, 2}
  NoData = NoData
  NoThread = NoThread
INVARIANTS
  TypeOK
  RingWindow
  TestsStayTrue
  NoLostWakeup
PROPERTIES
  FifoSpec
  Drained
