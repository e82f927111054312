CONSTANTS
  k1 = k1
  k2 = k2
  c1 = c1
  c2 = c2
  Sub = {k1, k2}
  Caller = {c1}
  None = None
  Configs <- OneConfig
  MaxRev = 1
  MaxFaults = 1
SPECIFICATION FairSpec
PROPERTY ServesLatest
CHECK_DEADLOCK FALSE
