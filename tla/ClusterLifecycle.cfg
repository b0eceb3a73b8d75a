SPECIFICATION FairSpec
CONSTANTS
  Users = {u1, u2}
  Kinds = {"raft", "crdt"}
  LeaveChoices = {TRUE, FALSE}
  ReadyTimesOut = TRUE
  MayBeRemoved = TRUE
  MaxFailures = 1
INVARIANTS
  TypeOK
  OneShutdown
  DoneMeansCollected
  CleansOnlyAfterLeaving
PROPERTIES
  ShutdownReturns
  RemovedShutsDown
CHECK_DEADLOCK FALSE
