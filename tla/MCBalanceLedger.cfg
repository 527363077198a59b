CONSTANTS
  Bets = {1, 2}
  Actions <- MCActions
  Deposit = 4
  Stake = 1
  Payouts = {0, 3}
  Worlds <- MCWorlds
SPECIFICATION FairSpec
INVARIANTS DisplayFollowsTheGame NeverAhead
PROPERTIES EventuallyReconciled
CHECK_DEADLOCK FALSE
