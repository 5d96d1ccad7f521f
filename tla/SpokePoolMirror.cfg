SPECIFICATION Spec
CONSTANTS
  DeploymentBlock = 0
  FromBlock = 2
  BlockTime <- MCBlockTime
  Callers = {u1}
  EventSets <- WithOrWithoutDeposits
  ToBlocks = {1, 2, 3}
  Depositors = {}
  Relays = {relay1}
  Routes = {usdc}
  OutputAmount = 3
  SpeedUpAmounts = {}
  EarlySpeedUps = FALSE
  NoBlock = NoBlock
  MaxSafeInteger = 99
  Emitted = {"FilledV3Relay", "RequestedV3SlowFill", "EnabledDepositRoute"}
  LastBlock = 4
  MaxEvents = 4
  MaxOverlaps = 0
  MaxFailures = 1
INVARIANT RoutesCurrent
PROPERTIES NeverBack MirrorsRelays
