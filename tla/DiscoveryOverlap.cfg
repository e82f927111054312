CONSTANTS
  k1 = k1
  k2 = k2
  c1 = c1
  c2 = c2
  Sub = {k1, k2}
  Caller = {c1, c2}
  None = None
  Configs <- SomeConfigs
  MaxRev = 1
  MaxFaults = 0
SPECIFICATION Spec
SYMMETRY Symmetry
INVARIANTS TypeOK SubscriptionsReachable OneLateCall
CHECK_DEADLOCK FALSE
