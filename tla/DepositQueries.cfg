CONSTANTS
  DeploymentBlock = 1
  LastBlock = 7
  MaxDeposits = 3
  MaxSearchBudget = 1
  FromBlocks = {1, 3}
  NotQueried = 99
SPECIFICATION QuerySpec
INVARIANTS DepositStaysInRange FoundMeansDeposited InvalidIsRight SearchFindsDeposit
PROPERTY ImplementsLeftmostSearch
