CONSTANTS
  Tiers = {"pool", "dynamic"}
  NumRings = 1
  NumProducers = 2
  Cap = 1
  Batch = 1
  MaxMany = 2
  Budget = 2
  MaxSend = 2
  MaxPooled = 1
  CursorPeriod = 2
  Calls <- BulkCalls
  Batches = {TRUE}
SPECIFICATION FairSpec
INVARIANTS SoleOwner NoLostWake
PROPERTIES SlotReturns
