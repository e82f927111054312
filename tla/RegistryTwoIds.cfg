SPECIFICATION Spec
CONSTANTS
  a = a
  b = b
  id1 = id1
  id2 = id2
  d1 = d1
  d2 = d2
  Instance = {a, b}
  Id = {id1, id2}
  IdOf <- UniqueIds
  Caller = {c1}
  Keeper = {k1, k2}
  Lease = {l1, l2, l3}
  Data = {d1}
  InitData = d1
  None = None
  Methods = {"Register", "Deregister", "Update", "Heartbeat", "Close"}
  SerialIds = {id1}
  MayFail = TRUE
  Char <- MCChar
  Namespace <- MCNamespace
  ServiceName <- MCServiceName
  InstanceID <- MCInstanceID
  Others <- MCOthers
SYMMETRY Symmetry
INVARIANTS TypeOK LeasesHaveOneId KeepersReachable
INVARIANTS DiscoverFindsOwn ListingIsComplete
