CONSTANTS
  Tiers = {"locked", "array"}
  P = 3
  C = 2
  Cells = 2
  Cap = 1
  Batch = 1
  MaxDrain = 1
  Quantum = 1
  Calls = {"recv"}
  Sends = {1}
  MaxSend = 1
  MaxRegistrars = 2
  MaxAbandoned = 0
  Period = 2
  Endless = FALSE
SPECIFICATION FairSpec
INVARIANTS TypeOK NothingStranded
PROPERTY DisconnectSeen
