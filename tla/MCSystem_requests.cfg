SPECIFICATION Spec
CONSTANTS
  Name = n1
  Addr = a1
  Uris <- OneUri
  Values = {v1, v2}
  MaxClients = 1
  MaxObs = 1
  ServerMids = 2
  ClientMids = 1
  MaxCounter = 1
  MaxStarts = 1
  MaxPending = 1
  ClientClock = TRUE
  SelectTimeout = 1
  Ops = {"read", "write"}
  Cancels = FALSE
  None = None
  v1 = v1
  v2 = v2
CHECK_DEADLOCK FALSE
INVARIANTS RegisteredIsKnown
PROPERTIES ResultIsAnswer ReadIsCurrent
