SPECIFICATION FairSpec
CONSTANTS
  Tokens = {weth, usdc}
  Callers = {u1, u2}
  PriceFeeds <- MCPriceFeeds
  Retries = 1
  MaxPriceAge = 1
  AssumedAge = 1
  PossibleAges <- MCPossibleAges
  NoPrice = 0
  StartTime = 4
  LastTime = 5
  MaxCalls = 3
  MaxExpiries = 1
INVARIANT NeverPlaceholder
PROPERTY CallsEnd
CHECK_DEADLOCK FALSE
