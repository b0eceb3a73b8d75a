SPECIFICATION Spec
CONSTANTS
  Users = {u1}
  Kinds = {"raft"}
  LeaveChoices = {TRUE}
  ReadyTimesOut = FALSE
  MayBeRemoved = FALSE
  MaxFailures = 1
INVARIANT CleansOnlyWhenOut
CHECK_DEADLOCK FALSE
