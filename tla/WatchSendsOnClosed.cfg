SPECIFICATION Spec
CONSTANTS
  w1 = w1
  w2 = w2
  Watcher = {w1}
  Handler = {}
  Capacity = 1
  MaxRev = 1
  MaxFaults = 0
  MayClose = TRUE
INVARIANT NoSendOnClosed
CHECK_DEADLOCK FALSE
