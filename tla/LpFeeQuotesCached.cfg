SPECIFICATION QuotesSpec
CONSTANTS
  One = 1000
  WeeklyFee <- MCWeeklyFee
  L1Tokens = {"weth", "usdc"}
  InputTokens = {"bridged", "plain"}
  RouteHistories <- MCRouteHistories
  RateModelAt <- MCRateModelAt
  UtilizationAt <- MCUtilizationAt
  PoolSize = 100
  Batches <- MCBatches
  TimeToCache = 1
  Quoters = {u1}
  None = None
  LastBlock = 4
  MaxQuotes = 2
INVARIANT OldEnoughIsCached
SYMMETRY QuoterSymmetry
CHECK_DEADLOCK FALSE
