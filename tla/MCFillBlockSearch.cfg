CONSTANTS
  LastBlock = 7
  NoBlock = NoBlock
SPECIFICATION Spec
INVARIANTS ResultIsFillBlock UndefinedMeansUnfilled
PROPERTIES EventuallySettles ImplementsLeftmostSearch
