SPECIFICATION FairSpec
CONSTANTS
  n1 = n1
  n2 = n2
  Mac <- Nodes
  NullMac = NullMac
  BroadcastMac = BroadcastMac
  StampMac = StampMac
  TABLE_SIZE = 5
  IP_MAX_ISSUE_RETRIES = 2
  IP_MAX_REQUEST_IP_TIMEOUT = 4
  APP_EPOCH_UNTIL_CLEAN = 3
  StartTime = 1
  MaxPass = 2
  MaxTime = 20
INVARIANTS
  SilentEvicted
  ReplyReachesSender
  IInv
PROPERTIES
  EvictOnlySilent
  LeaseSpec
  ListensAgain
