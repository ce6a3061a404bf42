SPECIFICATION FairSpec
CONSTANTS
  Patterns <- BothPatterns
  MAX_PIPELINE_NODES = 32
  MAX_PIPELINE_QUEUES = 64
  MAX_NODE_OUTPUTS = 16
  MaxDropped = 1
  HandledSignals = 3
  MaxSignals = 2
  Targets <- MainOrTagger
PROPERTY
  StopAlwaysEnds
CHECK_DEADLOCK FALSE
