SPECIFICATION Spec
CONSTANTS
  NServers = 1
  Addrs = {1}
  Family <- TwoFamilies
  Uris <- OneUri
  Access <- MCAccess
  Empty <- NoUris
  Wild <- NoUris
  Values = {v1}
  Locations = {l1}
  MaxMid = 2
  MaxCounter = 1
  MaxLate = 0
  SelectTimeout = 3
  Requests <- FewObserveRequests
  Replies <- GoodReplies
  Faults = {}
  ObjectsFreed = {TRUE}
  None = None
  v1 = v1
  v2 = v2
  l1 = l1
  t1 = t1
  t2 = t2
CHECK_DEADLOCK FALSE
PROPERTIES QuitDeregisters
