SPECIFICATION BoardSpec
CONSTANTS
  MaxEvents = 3
  MaxResets = 1
  BYTE = 2
  APP_DEFAULT_PERIOD_IN_MS = 10
  APP_EPOCH_UNTIL_CLEAN = 2
  DelayMs = 2
  MaxPass = 2
  FixMs = 2
  Stamps <- SomeStamps
INVARIANTS
  BoardInv
  RadioReady
  KeepsTime
  StampArrives
  ClockMoves
PROPERTIES
  DelayLasts
  CleansInTime
  BootEnds
  CleansAgain
CHECK_DEADLOCK FALSE
