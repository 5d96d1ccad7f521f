SPECIFICATION Spec
CONSTANTS
  DeploymentBlock = 0
  FromBlock = 2
  ChainIdList <- MCChainIdList
  BundleForms <- MCBundleForms
  Configs <- MCConfigs
  L1Tokens = {weth, usdc}
  L2Tokens = {tokenA, tokenB}
  SpokePools = {poolA, poolB}
  UnsupportedTokens = {usdc}
  ReproposeInBlock = FALSE
  None = None
  MaxSafeInteger = 99
  Scenarios <- MCScenarios
  LastBlock = 5
INVARIANTS ValidMeansExecuted NextStartIsContiguous BundleSearchesRight PendingMatches
  ImpliedRangesTile RegistryAsOfBlock EquivalentMeansSameL1Token
PROPERTY MirrorsProposals
SYMMETRY Symmetry
CHECK_DEADLOCK FALSE
