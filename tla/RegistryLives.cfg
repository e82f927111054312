SPECIFICATION FairSpec
CONSTANTS
  a = a
  b = b
  id1 = id1
  id2 = id2
  d1 = d1
  d2 = d2
  Instance = {a}
  Id = {id1}
  IdOf <- OneInstance
  Caller = {c1, c2}
  Keeper = {k1}
  Lease = {l1, l2, l3}
  Data = {d1}
  InitData = d1
  None = None
  Methods = {"Register", "Deregister", "Update", "Heartbeat", "Close"}
  SerialIds = {}
  MayFail = TRUE
INVARIANT DoneChannelsOpen
PROPERTIES SelfHeal WithdrawalHolds CloseReleases
