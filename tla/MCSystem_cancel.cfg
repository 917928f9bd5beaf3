SPECIFICATION FairSpec
CONSTANTS
  Name = n1
  Addr = a1
  Uris <- TwoUris
  Values = {v1}
  MaxClients = 1
  MaxObs = 1
  ServerMids = 3
  ClientMids = 3
  MaxCounter = 3
  MaxStarts = 0
  MaxPending = 1
  ClientClock = TRUE
  SelectTimeout = 1
  Ops = {"observe"}
  Cancels = TRUE
  None = None
  v1 = v1
  v2 = v2
CHECK_DEADLOCK FALSE
PROPERTIES NotifiedOfItsPath
