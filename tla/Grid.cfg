SPECIFICATION Spec
CONSTANTS
  UsizeBits = 17
  Numbers = {0, 1, 48, 70000}
  Counts = {0, 2, 3, 65}
  PayloadBytes = {0, 8, 4096}
  Declared <- Live
  MaxEdits = 3
  MaxSend <- Sends
  MaxEarly = 1
INVARIANTS AtMostOnceInOrder NothingStranded 
PROPERTIES DisconnectSeen OrphansAdopted
CHECK_DEADLOCK FALSE
