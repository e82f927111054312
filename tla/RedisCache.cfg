SPECIFICATION Spec
CONSTANTS
  A = A
  B = B
  Client = {A, B}
  Home = A
  HomeConfig <- MCHomeConfig
  Char <- MCChar
  Key <- MCKey
  e1 = e1
  e2 = e2
  Stored <- MCStored
  Uses <- MCUses
  Reaches <- MCReaches
  MaxCalls = 2
  MaxLost = 1
  Element = {e1, e2}
  MaxInt = 1
  Text = Text
  Nil = Nil
  ErrKeyNotFound = ErrKeyNotFound
  ErrRedis = ErrRedis
  None = None
INVARIANTS TypeOK PairsAgree
PROPERTY LooksAlone
CHECK_DEADLOCK FALSE
