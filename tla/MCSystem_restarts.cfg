SPECIFICATION Spec
CONSTANTS
  Name = n1
  Addr = a1
  Uris <- OneUri
  Values = {v1}
  MaxClients = 1
  MaxObs = 1
  ServerMids = 2
  ClientMids = 2
  MaxCounter = 1
  MaxStarts = 1
  MaxPending = 0
  ClientClock = TRUE
  SelectTimeout = 1
  Ops = {}
  Cancels = FALSE
  None = None
  v1 = v1
  v2 = v2
CHECK_DEADLOCK FALSE
INVARIANTS RegisteredIsKnown
