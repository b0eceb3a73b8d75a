CONSTANTS
  p1 = p1
  p2 = p2
  p3 = p3
  c1 = c1
  c2 = c2
  Peers = {p1, p2, p3}
  Cids = {c1, c2}
  NoPin = NoPin
  NoCid = NoCid
  Factors <- MCFactors
  Distance <- MCDistance
  Threshold = 1
  Cycle = 2
  AlertCap = 1
  MaxEvents = 2
  MaxFaults = 1
  InitialPins <- MCInitialPins
SPECIFICATION Spec
CHECK_DEADLOCK FALSE
INVARIANTS TypeOK EnoughAllocated OneRepinner
PROPERTIES RepinsWhenNeeded Reallocated
