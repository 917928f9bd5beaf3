SPECIFICATION FairSpec
CONSTANTS
  Names = {n1}
  Addrs = {a1}
  Uris <- MCUris
  MaxClients = 1
  MaxObs = 1
  MaxMid = 3
  MaxLate = 1
  SelectTimeout = 7
  Ops = {"read"}
  Replies <- MCReplies
  Faults = {}
  Callbacks = {TRUE}
  None = None
  n1 = n1
  n2 = n2
  a1 = a1
  a2 = a2
  d1 = d1
CHECK_DEADLOCK FALSE
INVARIANTS TypeOK Schedule Punctual
PROPERTIES PatientGiveUp RequestSettles
