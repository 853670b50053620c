\* Four calls, any modes, a pool of two.
CONSTANTS
  N = 4
  MaxParallel = 2
  MaxFlips = 1
SPECIFICATION FairSpec
CHECK_DEADLOCK FALSE
INVARIANTS
  OverlapIsAllowed
  ModelOrder
  EndsAnswered
PROPERTIES
  Terminates
