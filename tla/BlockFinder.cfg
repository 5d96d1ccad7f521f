SPECIFICATION FairSpec
CONSTANTS
  TimeLines <- MCTimeLines
  Chain = "arbitrum"
  Optimism = "optimism"
  IsOPStack = FALSE
  SeededAverages <- Seeds
  Callers = {u1, u2}
  Timestamps = {1, 4, 9}
  Hints <- MCHints
  Lag = 3
  CacheTTL = 1
  HighBlockOffset = 0
  BlockRange = 1
  None = None
  Thrown = Thrown
  StartTime = 8
  LastTime = 9
  LastBlock = 5
  MaxDelay = 1
INVARIANTS BlocksSorted AnswersRight
PROPERTY SearchEnds
