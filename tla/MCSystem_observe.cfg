SPECIFICATION Spec
CONSTANTS
  Name = n1
  Addr = a1
  Uris <- TwoUris
  Values = {v1}
  MaxClients = 1
  MaxObs = 2
  ServerMids = 2
  ClientMids = 2
  MaxCounter = 2
  MaxStarts = 0
  MaxPending = 1
  ClientClock = FALSE
  SelectTimeout = 1
  Ops = {"observe"}
  Cancels = FALSE
  None = None
  v1 = v1
  v2 = v2
CHECK_DEADLOCK FALSE
INVARIANTS ObservedWasAcknowledged ShownWithItsToken
