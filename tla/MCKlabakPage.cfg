CONSTANTS
  CandidateLimit = 4000000
  MaxPulls = 2
  AUTO_PULLS = 2
  DrawnTiers = {0, 2}
  Wager = 5
  DemoStart = 7
  CabinetIds = {0, 2}
  DemoWords <- MCDemoWords
  HISTORY_LINES = 1
  StoredShelf <- MCStoredShelf
SPECIFICATION FairSpec
INVARIANTS RevealedAsDrawn DemoMoneyAddsUp
PROPERTIES QueueStopsOnError EverySessionComesUp
CHECK_DEADLOCK FALSE
