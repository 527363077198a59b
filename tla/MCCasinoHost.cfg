CONSTANTS
  Players = {p1, p2}
  Games = {g1}
  Host = host
  Vault = vault
  NoCommitment = NoCommitment
  GameData = {d1}
  GameState = {empty, long}
  TooLong = {long}
  LongState = long
  EmptyState = empty
  Wagers = {2}
  InitialBalance <- MCInitialBalance
  InitialSupply <- MCInitialSupply
  MintAmounts = {1}
  TransferAmounts = {1}
  MaxSupply = 10
  MaxSessions = 2
  MaxBlock = 5
  MaxDeadline = 4
  MaxAmount = 10
  MaxStep = 4
  WAD = 2
  RANDOMNESS_TIMEOUT_BLOCKS = 1
  ACTION_TIMEOUT_BLOCKS = 2
  QuoteCaps <- MCCaps
  QuoteRiskParams <- MCRisk
  OnSessionStart <- MCGame
  OnPlayerAction <- MCGame
  OnRandomness <- MCGame
  QuoteForfeitPayout <- MCCashOut
  Quotes <- MCQuotes
  Risks <- MCRisks
  GameResults <- MCAllResults
  CashOuts <- MCCashOuts
  PlayerFunds = 3
  VaultFunds = 3
  FirstPlayer = p1
SPECIFICATION MCSpec
INVARIANTS TypeOK SettledExactlyOnce WithinQuotedCaps
PROPERTIES EscrowBacked NoUnsolicitedDebit RefundedInFull StepByStep ImplementsSessionRisk StakesComeBack
CHECK_DEADLOCK FALSE
