CONSTANTS
  Cap = 2
  N = 2
  MaxSeq = 5
  MaxJoins = 3
SPECIFICATION FairSpec
INVARIANTS NoTornRead NeverLapped HearsEverything DroppedOnce
PROPERTY SendReturns
