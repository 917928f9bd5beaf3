SPECIFICATION FairSpec
CONSTANTS
  NServers = 1
  Addrs = {1, 2}
  Family <- TwoFamilies
  Uris <- OneUri
  Access <- MCAccess
  Empty <- NoUris
  Wild <- NoUris
  Values = {v1}
  Locations = {l1}
  MaxMid = 3
  MaxCounter = 0
  MaxLate = 1
  SelectTimeout = 7
  Requests <- NoRequests
  Replies <- AnyReplies
  Faults = {"alloc", "clock"}
  ObjectsFreed = {FALSE}
  None = None
  v1 = v1
  v2 = v2
  l1 = l1
  t1 = t1
  t2 = t2
CHECK_DEADLOCK FALSE
INVARIANTS TypeOK PendingIsAsked RegisteredAsAnswered
PROPERTIES RegistrationSpec RegistrationSettles
