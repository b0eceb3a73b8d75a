SPECIFICATION Spec
CONSTANTS
  Cids = {c1}
  PinWorkers = {w1}
  UnpinWorker = u
  Recoverers = {}
  PinValues <- Upgrade
  MaxOps = 2
  MaxPinQueueSize = 1
  PriorityPinMaxRetries = 0
INVARIANTS
  OptionsApplied
CHECK_DEADLOCK FALSE
