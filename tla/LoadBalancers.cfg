SPECIFICATION Spec
CONSTANTS
  i1 = i1
  i2 = i2
  i3 = i3
  Caller = {c1, c2}
  Order <- MCOrder
  Weight <- MCWeight
  Key = {k}
  VirtualNodes = 2
  RingSize = 4
  CounterSize = 4
  MaxSelects = 8
  None = None
INVARIANTS TypeOK RoundsAreFair SharesAreExact
PROPERTIES KeysStick
