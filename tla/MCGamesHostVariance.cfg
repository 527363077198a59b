CONSTANTS
  DRAW_LIMIT = 4000000
  Word = 4967296
  Randomness <- MCRandomness
  EmptyState = empty
  Players = {p1}
  Klabak = klabak
  Host = host
  Vault = vault
  NoCommitment = NoCommitment
  InitialBalance <- MCInitialBalance
  InitialSupply <- MCInitialSupply
  MaxSessions = 2
  MaxBlock = 3
  MaxDeadline = 2
  MaxAmount = 10000
  MaxStep = 3
  RANDOMNESS_TIMEOUT_BLOCKS = 1
  ACTION_TIMEOUT_BLOCKS = 2
  PlayerFunds = 100
  VaultFunds = 20000
  MAX_TIERS_PER_CHUNK = 2
  UINT32_MAX = 15
  UINT64_MAX = 63
  WAD = 1000
  MAX_CHUNKS = 2
  MAX_CONFIGURATIONS = 3
  MAX_RECORD_OFFSET = 65535
  MAX_CLONE_ARGS = 210
  SlotWords = {0, 4, 5, 7, 8, 10, 11, 12, 16}
  Worlds <- MCVarianceWorlds
  NodeKey = 5
  OtherKeys = {7}
  Q = 31
  C_LIMIT = 16
  HASH_TO_CURVE_MAX_ITERATIONS = 2
  Alphas <- MCAlphas
  TryHashToPoint <- MCTryHashToPoint
  Challenge <- MCChallenge
  Nonce <- MCNonce
SPECIFICATION Spec
INVARIANTS VarianceNeverUnderstated
CHECK_DEADLOCK FALSE
