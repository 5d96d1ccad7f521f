SPECIFICATION Spec
CONSTANTS
  MaxBlockLookBack = 2
  ConfigStoreChain = 1
  DefaultChainIds <- MCDefaultChainIds
  ConfigStoreVersion = 1
  BlockTime <- MCBlockTime
  Callers = {u1, u2}
  GlobalValues <- MCGlobalValues
  TokenConfigs <- MCTokenConfigs
  L1Tokens = {weth}
  Routes = {"1-10"}
  NotANumber = NotANumber
  NotAList = NotAList
  LeadingZero = LeadingZero
  NotJson = NotJson
  None = None
  Scenarios <- MCScenarios
  LastBlock = 2
  MaxOverlaps = 1
  MaxFailures = 1
INVARIANTS ChainIdsAsOfBlock ChainIdsOnlyGrow VersionsAsOfBlock EnabledInRange ConfigAsOfBlock
SYMMETRY CallerSymmetry
CHECK_DEADLOCK FALSE
