CONSTANTS
  NoSnapshot = NoSnapshot
  MaxMounts = 2
  MaxWire = 1
  Bets <- MCBets
  Wager = 100
  Words <- MCWords
  VaultFunds = 20000
  MaxRounds = 1
SPECIFICATION MCSpec
INVARIANTS OnlyNewsIsPushed ShowsWhatLanded
PROPERTIES EveryRoundLands
CHECK_DEADLOCK FALSE
