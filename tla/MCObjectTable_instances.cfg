SPECIFICATION Spec
CONSTANTS
  Minus = Minus
  Other = Other
  Base = 16
  Bytes = 4
  LongMod = 256
  Refused = Refused
  Objects = {"device", "applications"}
  NofApplications = 4
  MaxInstances = 2
  MaxValues = 3
  Size = 4
  Room = 80
  Temp = 36
  Built <- MCBuilt
  Paths <- MCPaths
  Payloads <- MCPayloads
  Levels = {0, 300}
  MaxSteps = 3
  End = End
  Space = Space
  None = None
  Undefined = Undefined
CHECK_DEADLOCK FALSE
INVARIANTS AllInstances
