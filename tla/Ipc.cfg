CONSTANTS
  Shapes <- MCShapes
  MaxGeneration = 2
  Readers = {2, 5, 6}
  ActiveFlows = {"WorkerToParent"}
  Modes = {"exact", "to_end"}
  Backends = {"token"}
  MaxChunks = 2
  Contracts <- Payloads
SPECIFICATION MCSpec
INVARIANTS SetupAgreed NoLostWakeup Custody OkMeansWhole
PROPERTY CallsReturn
CHECK_DEADLOCK FALSE
