SPECIFICATION FairSpec
CONSTANTS
  DeploymentBlock = 0
  FromBlock = 0
  BlockTime <- MCBlockTime
  Callers = {u1, u2}
  EventSets <- AllEvents
  ToBlocks = {}
  Depositors = {alice, bob}
  Relays = {}
  Routes = {}
  OutputAmount = 3
  SpeedUpAmounts = {1, 2}
  EarlySpeedUps = FALSE
  NoBlock = NoBlock
  MaxSafeInteger = 99
  Emitted = {"V3FundsDeposited", "RequestedSpeedUpV3Deposit", "RelayedRootBundle"}
  LastBlock = 2
  MaxEvents = 3
  MaxOverlaps = 1
  MaxFailures = 1
INVARIANTS NothingMissed StoredInOrder DepositIdRangeComplete CheapestSpeedUpApplied
PROPERTY CatchesUp
