SPECIFICATION Spec
CONSTANTS
  NServers = 1
  Addrs = {1}
  Family <- TwoFamilies
  Uris <- AllUris
  Access <- MCAccess
  Empty <- TooLong
  Wild <- Missing
  Values = {v1, v2}
  Locations = {l1}
  MaxMid = 2
  MaxCounter = 2
  MaxLate = 0
  SelectTimeout = 1
  Requests <- AnyRequests
  Replies <- GoodReplies
  Faults = {"alloc", "send"}
  ObjectsFreed = {FALSE, TRUE}
  None = None
  v1 = v1
  v2 = v2
  l1 = l1
  t1 = t1
  t2 = t2
CHECK_DEADLOCK FALSE
INVARIANTS UndefinedExplained
PROPERTIES RefusedHasNoEffect
