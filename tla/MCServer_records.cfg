SPECIFICATION Spec
CONSTANTS
  Names = {n1, n2}
  Addrs = {a1, a2}
  Uris <- MCUris
  MaxClients = 2
  MaxObs = 2
  MaxMid = 2
  MaxLate = 0
  SelectTimeout = 7
  Ops = {"observe", "write"}
  Replies <- MCReplies
  Faults = {"alloc", "clock", "send"}
  Callbacks = {FALSE}
  None = None
  n1 = n1
  n2 = n2
  a1 = a1
  a2 = a2
  d1 = d1
CHECK_DEADLOCK FALSE
VIEW MCView
SYMMETRY MCSymmetry
INVARIANTS OneResult PendingObservation LiveReferences UniqueNames UndefinedExplained
PROPERTIES LocationStable ServiceSpec
