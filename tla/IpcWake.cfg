CONSTANTS
  Shapes <- TwoSlots
  MaxGeneration = 2
  Readers = {5}
  ActiveFlows = {"WorkerToParent"}
  Modes = {"exact"}
  Backends = {"futex"}
  MaxChunks = 1
  Contracts <- RawBytes
SPECIFICATION Spec
INVARIANT NoLostWakeup
CHECK_DEADLOCK FALSE
