SPECIFICATION Spec
CONSTANTS
  Order <- DetailedOrder
  Kind <- DetailedKind
  Outputs <- DetailedOutputs
  Strategy = "round_robin"
  tag_rules <- RulesWithZeros
  Wire <- AnyThenCovered
  NoFrame = NoFrame
  Q_SIZE = 1
  MAX_PKG_SIZE = 1522
  MAX_ERR_NUM = 1
  MaxRecvErrors = 0
  MaxSendErrors = 0
  MaxPopErrors = 1
  MaxStops = 0
INVARIANTS
  SentOnce
  CopiesAgree
  SentAsTheRuleSays
  CoveredNotFiltered
  FitsBuffer
CHECK_DEADLOCK FALSE
