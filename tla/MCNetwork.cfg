SPECIFICATION Spec
SYMMETRY Symmetry
CONSTANTS
  n1 = n1
  n2 = n2
  Mac <- TwoNodes
  NullMac = NullMac
  BroadcastMac = BroadcastMac
  TABLE_SIZE = 4
  MAC_MAX_RETRIES = 2
  IP_MAX_REQUEST_RETRIES = 1
  APP_MAX_SYS_REQ_RETRIES = 1
  IP_MAX_ISSUE_RETRIES = 1
  INBOX = 2
  MaxReset = 1
INVARIANTS
  UniqueUntilEvicted
  IInv
PROPERTIES
  RegistrySpec
