SPECIFICATION TestSpec
CONSTANTS
  tester = tester
  target = target
  Station <- Boards
  BroadcastMac = BroadcastMac
  MAC_MAX_RETRIES = 2
  INBOX = 2
  MaxSent = 3
  MaxCall = 6
INVARIANTS
  TestInv
PROPERTIES
  NumbersInOrder
  AnswersFollow
  TestGoesOn
  SendReturns
