CONSTANTS
  MaxLogs = 3
  MaxHead = 3
  MaxFailures = 2
  FailingCalls = {"range", "getBlock"}
  Immediate = {}
  LagsVary = TRUE
SPECIFICATION FairSpec
INVARIANTS OnceAndInOrder
PROPERTIES SilentAfterStop EveryLogArrives
CHECK_DEADLOCK FALSE
