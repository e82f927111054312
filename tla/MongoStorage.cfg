SPECIFICATION Spec
CONSTANTS
  Client = {A, B}
  Prefix <- MCPrefix
  Name <- MCName
  Id = {i1, i2}
  Stored <- MCStored
  Lists <- MCLists
  Value = {x, y}
  MaxCalls = 2
  MaxLost = 1
  None = None
SYMMETRY Symmetry
INVARIANTS TypeOK OneWinner TicketsDiffer FirstOnesAreExecuted
CHECK_DEADLOCK FALSE
