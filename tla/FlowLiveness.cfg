SPECIFICATION FairSpec
CONSTANTS
  Order <- VlanTaggerOrder
  Kind <- VlanTaggerKind
  Outputs <- VlanTaggerOutputs
  Strategy = "random"
  tag_rules <- Rules
  Wire <- CoveredOrNot
  NoFrame = NoFrame
  Q_SIZE = 1
  MAX_PKG_SIZE = 1522
  MAX_ERR_NUM = 1
  MaxRecvErrors = 0
  MaxSendErrors = 0
  MaxPopErrors = 0
  MaxStops = 1
PROPERTIES
  Delivered
  StopQuiesces
CHECK_DEADLOCK FALSE
