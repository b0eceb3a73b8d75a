SPECIFICATION Spec
CONSTANTS
  Cids = {c1}
  PinWorkers = {w1}
  UnpinWorker = u
  Recoverers = {r1}
  PinValues <- AllKinds
  MaxOps = 2
  MaxPinQueueSize = 1
  PriorityPinMaxRetries = 0
INVARIANTS
  LiveIsTracked
  OneLiveRequest
  OneHolder
PROPERTIES
  FinishedStays
CHECK_DEADLOCK FALSE
