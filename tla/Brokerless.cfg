CONSTANTS
  Tiers = {"fixed"}
  P = 2
  C = 2
  Cells = 1
  Cap = 2
  Batch = 2
  MaxDrain = 2
  Quantum = 2
  Calls = {"recv", "for_each"}
  Sends = {1, 3}
  MaxSend = 3
  MaxRegistrars = 1
  MaxAbandoned = 2
  Period = 4
  Endless = FALSE
SPECIFICATION Spec
INVARIANTS SingleConsumer AtMostOnce NothingStranded
PROPERTY ProducerOrder
