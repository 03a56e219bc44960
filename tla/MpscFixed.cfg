CONSTANTS
  Tiers = {"fixed"}
  NumRings = 2
  NumProducers = 2
  Cap = 1
  Batch = 1
  MaxMany = 1
  Budget = 1
  MaxSend = 2
  MaxPooled = 1
  CursorPeriod = 2
  Calls <- RecvAsync
  Batches = {FALSE}
SPECIFICATION FairSpec
INVARIANTS NoLostWake NoLostSpace EndsDrained
PROPERTIES Delivered DisconnectSeen SendsReturn
