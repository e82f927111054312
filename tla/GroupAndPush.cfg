SPECIFICATION FairSpec
CONSTANTS
  Sub = {s1, s2}
  Partition = {p1}
  MaxOffset = 2
  MaxFaults = 1
  None = None
  BatchMax = 1
  MaxReconsume = 1
  Sender = {c1, c2}
  BatchLen = 2
  AutoCommits = {TRUE}
  Kinds = {"group","rocket","producer"}
INVARIANTS TypeOK AckedWereAccepted ResultsArePrefix
PROPERTIES KeepsPromise CloseReturns
CHECK_DEADLOCK FALSE
