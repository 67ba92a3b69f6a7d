SPECIFICATION Spec
CONSTANTS
  Mac <- Macs
  my_mac <- Sender
  Ip <- Ips
  Data <- Datas
  InfoBytes = {0, 97}
  MAC_ADDRESS_LEN = 6
  IP_ADDRESS_LEN = 4
  MAC_INFO_OFFSET = 8
  IP_ADDRESS_SRC_OFFSET = 12
  IP_SEND_PAYLOAD_SIZE = 36
  MAC_SEND_PAYLOAD_SIZE = 57
  MAC_RECV_PAYLOAD_SIZE = 70
INVARIANTS
  ReadsAsMeant
  SilenceIsNoFrame
  IInv
