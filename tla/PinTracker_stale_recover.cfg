SPECIFICATION Spec
CONSTANTS
  Cids = {c1}
  PinWorkers = {w1}
  UnpinWorker = u
  Recoverers = {r1}
  PinValues <- LocalOnly
  MaxOps = 3
  MaxPinQueueSize = 1
  PriorityPinMaxRetries = 0
INVARIANTS
  UntrackUnpins
CHECK_DEADLOCK FALSE
