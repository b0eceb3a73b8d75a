SPECIFICATION FairSpec
CONSTANTS
  Cids = {c1}
  PinWorkers = {w1}
  UnpinWorker = u
  Recoverers = {}
  PinValues <- LocalRemote
  MaxOps = 3
  MaxPinQueueSize = 1
  PriorityPinMaxRetries = 0
INVARIANTS
  TypeOK
  Converged
PROPERTIES
  Settles
  EventuallyApplied
  WorkersExit
CHECK_DEADLOCK FALSE
