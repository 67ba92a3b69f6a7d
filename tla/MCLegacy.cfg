SPECIFICATION Spec
CONSTANTS
  Mac <- Boards
  macAddressVal <- Listener
  IpHeader <- Headers
  LastByte = {2}
  Data <- SomeData
  Stack <- SomeStack
  Timeout = 2
  BUF_LEN = 48
  SHORT = 400
  INT = 3
  MaxTime = 5
INVARIANTS
  LegacyInv
  MeIsMine
PROPERTIES
  ListenEnds
