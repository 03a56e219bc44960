CONSTANTS
  Tiers = {"fixed"}
  NumRings = 3
  NumProducers = 3
  Cap = 1
  Batch = 1
  MaxMany = 1
  Budget = 1
  MaxSend = 1
  MaxPooled = 1
  CursorPeriod = 6
  Calls <- RecvAsync
  Batches = {FALSE}
SPECIFICATION Spec
INVARIANT NoLostWake
