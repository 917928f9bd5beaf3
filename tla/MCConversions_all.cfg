SPECIFICATION Spec
CONSTANTS
  IdSpace = 5
  Empty = Empty
  Junk = Junk
  Rd = Rd
  Bs = Bs
  Null = Null
  MaxId = 4
  IntMod = 16
  Minus = Minus
  Other = Other
  Base = 16
  Bytes = 4
  LongMod = 256
  Refused = Refused
  NotYet = NotYet
  Texts <- MCTexts
  StackUris <- MCStackUris
  ObjectLists <- MCObjectLists
  Payloads <- MCPayloads
  Room = 20
  Typed <- MCTyped
  Numbers <- MCIntegers
  Records <- MCRecords
CHECK_DEADLOCK FALSE
INVARIANTS PathArrives ObjectListArrives NumberArrives RecordArrives
