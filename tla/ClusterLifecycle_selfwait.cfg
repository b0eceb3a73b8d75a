SPECIFICATION FairSpec
CONSTANTS
  Users = {u1}
  Kinds = {"raft"}
  LeaveChoices = {TRUE}
  ReadyTimesOut = FALSE
  MayBeRemoved = FALSE
  MaxFailures = 0
PROPERTY CollectsGoroutines
CHECK_DEADLOCK FALSE
