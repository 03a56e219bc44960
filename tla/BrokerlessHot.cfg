CONSTANTS
  Tiers = {"fixed"}
  P = 2
  C = 2
  Cells = 1
  Cap = 1
  Batch = 1
  MaxDrain = 1
  Quantum = 2
  Calls = {"try_recv"}
  Sends = {1}
  MaxSend = 2
  MaxRegistrars = 1
  MaxAbandoned = 2
  Period = 2
  Endless = TRUE
SPECIFICATION FairSpec
PROPERTIES NoStarvation SendReturns 
