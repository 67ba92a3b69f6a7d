SPECIFICATION Spec
SYMMETRY Symmetry
CONSTANTS
  n1 = n1
  n2 = n2
  Node <- Nodes
  Pool = {2, 3, 4}
  APP_MAX_SYS_REQ_RETRIES = 2
  APP_DEFAULT_PERIOD_IN_MS = 17
  APP_DEFAULT_TIMESLOT_IN_MS = 8
  RetryMs = 6
  FixMs = 1
  Tolerance = 1
  MinPrint = 1
  MaxPrint = 2
  MinSend = 1
  MaxSend = 2
  Margin = 2
  MaxDrift = 1
  MaxAge = 0
  MaxAnswers = 1
  MaxTime = 36
INVARIANTS
  SlotsAreDisjoint
