SPECIFICATION FairSpec
CONSTANTS
  n1 = n1
  n2 = n2
  Mac <- OneNode
  NullMac = NullMac
  BroadcastMac = BroadcastMac
  TABLE_SIZE = 5
  MAC_MAX_RETRIES = 2
  IP_MAX_REQUEST_RETRIES = 2
  APP_MAX_SYS_REQ_RETRIES = 2
  IP_MAX_ISSUE_RETRIES = 2
  INBOX = 2
  MaxReset = 1
PROPERTIES
  SyncFromAnswer
  JoinEnds
