CONSTANTS
  MaxLogs = 3
  MaxHead = 2
  MaxFailures = 1
  FailingCalls = {"getBlock"}
  Immediate = {}
  LagsVary = FALSE
SPECIFICATION Spec
INVARIANTS NothingLost
CHECK_DEADLOCK FALSE
