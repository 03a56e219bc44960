CONSTANTS
  Cap = 4
  Word = 8
  MaxItems = 11
  MaxBatch = 5
SPECIFICATION Spec
INVARIANTS SlotOwnership FifoOnce NothingLeaks
PROPERTY ImplementsQueue
