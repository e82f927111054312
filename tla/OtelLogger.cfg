SPECIFICATION Spec
CONSTANTS
  Goroutine = {c1, c2}
  Level <- MCLevel
  ArgLists <- MCArgLists
  Kit = {k1}
  None = None
INVARIANTS TypeOK KitIsWhole
PROPERTIES InForceAtEmission CallsReturn
CHECK_DEADLOCK FALSE
