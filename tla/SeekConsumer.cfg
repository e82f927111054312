SPECIFICATION FairSpec
CONSTANTS
  Sub = {s1, s2}
  Partition = {p1}
  MaxOffset = 1
  MaxFaults = 1
  None = None
  BatchMax = 1
  MaxReconsume = 1
  Sender = {c1, c2}
  BatchLen = 2
  AutoCommits = {TRUE}
  Kinds = {"seek"}
INVARIANT NonePassedOver
PROPERTIES KeepsPromise CloseReturns
CHECK_DEADLOCK FALSE
