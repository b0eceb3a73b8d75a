SPECIFICATION FairSpec
CONSTANTS
  c1 = c1
  c2 = c2
  p1 = p1
  p2 = p2
  a1 = a1
  a2 = a2
  NoPin = NoPin
  Cids <- OneCid
  Pins <- OnePin
  Callers <- TwoCallers
  MaxBatchSize = 2
  MaxQueueSize = 1
  MaxCalls = 3
  MaxFailures = 1
  SetupMayFail = FALSE
PROPERTY TimerIsLeftReady
CHECK_DEADLOCK FALSE
