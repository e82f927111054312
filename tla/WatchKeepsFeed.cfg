SPECIFICATION FairSpec
CONSTANTS
  w1 = w1
  w2 = w2
  Watcher = {w1, w2}
  Handler = {w2}
  Capacity = 2
  MaxRev = 2
  MaxFaults = 1
  MayClose = TRUE
INVARIANTS TypeOK NeverOlder NothingMissed
PROPERTY FeedKept
CHECK_DEADLOCK FALSE
