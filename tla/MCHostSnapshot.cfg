CONSTANTS
  MaxSessions = 2
  Payouts = {1}
  ListLimit = 2
  Worlds <- MCWorlds
SPECIFICATION FairSpec
INVARIANTS SettledAsOnChain WordsAnswerTheirRequests
PROPERTIES NeverOlder ResultsStay EverySettlementShown
CHECK_DEADLOCK FALSE
