SPECIFICATION Spec
CONSTANTS
  DeploymentBlock = 0
  FromBlock = 0
  ChainIdList <- MCChainIdList
  BundleForms <- MCBundleForms
  L1Tokens = {}
  L2Tokens = {}
  SpokePools = {}
  UnsupportedTokens = {}
  ReproposeInBlock = FALSE
  None = None
  MaxSafeInteger = 99
  Scenarios <- OnlyBundles
  LastBlock = 5
INVARIANT NthLatestRight
CHECK_DEADLOCK FALSE
