SPECIFICATION Spec
SYMMETRY Symmetry
CONSTANTS
  s1 = s1
  s2 = s2
  s3 = s3
  Station <- TwoStations
  BroadcastMac = BroadcastMac
  MAC_MAX_RETRIES = 2
  INBOX = 2
  MaxCall = 2
INVARIANTS
  QuietSuccessIsDelivery
  BoundedDuplicates
  LinkInv
PROPERTIES
  InOrder
