SPECIFICATION Spec
CONSTANTS
  NServers = 2
  Addrs = {1, 2, 3}
  Family <- TwoFamilies
  Uris <- TwoUris
  Access <- MCAccess
  Empty <- NoUris
  Wild <- NoUris
  Values = {v1}
  Locations = {l1}
  MaxMid = 4
  MaxCounter = 2
  MaxLate = 0
  SelectTimeout = 3
  Requests <- FewObserveRequests
  Replies <- GoodReplies
  Faults = {}
  ObjectsFreed = {FALSE}
  None = None
  v1 = v1
  v2 = v2
  l1 = l1
  t1 = t1
  t2 = t2
CHECK_DEADLOCK FALSE
INVARIANTS NotificationNames
PROPERTIES ResetCancelsOne WatcherIsOfTheFamily
