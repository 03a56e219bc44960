SPECIFICATION Spec
CONSTANTS
  UsizeBits = 17
  Numbers = {}
  Counts = {}
  PayloadBytes = {}
  Declared <- Pools
  MaxEdits = 0
  MaxCommits <- Commits
  MaxPanics = 1
INVARIANTS PoolConserved FlushHonest
PROPERTY CallsReturn
CHECK_DEADLOCK FALSE
