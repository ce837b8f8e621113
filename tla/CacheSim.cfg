CONSTANTS
  l1 = l1
  l2 = l2
  t1 = t1
  t2 = t2
  Lookups = {l1, l2}
  Selftests = {t1, t2}
  Stagings <- SomeStagings
  Wires = {"good", "bad_block", "bad_seen"}
  HistoryMax = 2
  HasPort = TRUE
  MaxOps = 2
  HeadChains = {"eth", "btc", "solana", "sui", "lava"}
  Base = 4
  Providers = {"p1"}
  Lags <- MCLags
  Advances = {"a1", "a2"}
  Rates <- MCRates
  Blocks <- MCBlocks
  Heights = {4, 5}
  MaxClock = 2
  MaxReplies = 2
  Parts = {"cache", "moves", "replies"}
SPECIFICATION SpecParts
INVARIANTS  BumpsKept 
PROPERTY HeadsMoveForward
SYMMETRY CallSymmetry
CHECK_DEADLOCK FALSE
