------------------------------- MODULE Frames -------------------------------
(***************************************************************************)
(* The bytes of a frame (mac.c, ip.c, offsets.h): the buffers sendPayload  *)
(* and IP_sendPayload of a board that sends, used again for every frame,   *)
(* and recvPayload of a board that listens.  Link and Network have frames  *)
(* that are records with a kind; here is why the board that listens can    *)
(* tell the kinds apart, by strcmp with "ack" and "is_sink", and reads the *)
(* addresses and the data that were meant.                                 *)
(*                                                                         *)
(* A buffer is a function from indices to bytes, and so are an address and *)
(* a string.  The radio puts MAC_INFO_OFFSET bytes of its own before the   *)
(* frame it delivers.                                                      *)
(***************************************************************************)
EXTENDS Integers

CONSTANTS
  Mac,                   \* MAC addresses of boards, without broadcast
  my_mac,                \* that of the board that sends
  Ip,                    \* IP addresses
  Data,                  \* data of the application
  InfoBytes,             \* bytes the radio puts before a frame
  MAC_ADDRESS_LEN,       \* 6
  IP_ADDRESS_LEN,        \* 4
  MAC_INFO_OFFSET,       \* 8
  IP_ADDRESS_SRC_OFFSET, \* 12
  IP_SEND_PAYLOAD_SIZE,  \* 900
  MAC_SEND_PAYLOAD_SIZE, \* 1200
  MAC_RECV_PAYLOAD_SIZE  \* 1500

Byte == 0 .. 255

(* offsets.h *)
MAC_ADDRESS_DEST_OFFSET == MAC_INFO_OFFSET
MAC_ADDRESS_SRC_OFFSET == MAC_ADDRESS_DEST_OFFSET + MAC_ADDRESS_LEN
MAC_HEADER_OFFSET == MAC_ADDRESS_SRC_OFFSET + MAC_ADDRESS_LEN
IP_ADDRESS_DST_OFFSET == IP_ADDRESS_SRC_OFFSET + IP_ADDRESS_LEN
IP_ADDRESS_HEADER_OFFSET == IP_ADDRESS_DST_OFFSET + IP_ADDRESS_LEN

MacAddress == [0 .. MAC_ADDRESS_LEN - 1 -> Byte]
IpAddress == [0 .. IP_ADDRESS_LEN - 1 -> Byte]

null_mac == [i \in 0 .. MAC_ADDRESS_LEN - 1 |-> 0]
broadcast_mac == [i \in 0 .. MAC_ADDRESS_LEN - 1 |-> 255]

ASSUME FramesAssumption ==
  /\ MAC_ADDRESS_LEN \in Nat \ {0} /\ IP_ADDRESS_LEN \in Nat
  /\ MAC_INFO_OFFSET \in Nat /\ IP_ADDRESS_SRC_OFFSET \in Nat \ {0}
  /\ IP_SEND_PAYLOAD_SIZE \in Nat /\ MAC_SEND_PAYLOAD_SIZE \in Nat
  /\ MAC_RECV_PAYLOAD_SIZE \in Nat
  /\ IP_ADDRESS_HEADER_OFFSET < IP_SEND_PAYLOAD_SIZE
  /\ MAC_HEADER_OFFSET + IP_SEND_PAYLOAD_SIZE < MAC_SEND_PAYLOAD_SIZE
  /\ MAC_HEADER_OFFSET + 8 < MAC_SEND_PAYLOAD_SIZE
  /\ MAC_INFO_OFFSET + MAC_SEND_PAYLOAD_SIZE <= MAC_RECV_PAYLOAD_SIZE
  /\ Mac \subseteq MacAddress /\ my_mac \in Mac
  /\ null_mac \notin Mac /\ broadcast_mac \notin Mac
  /\ Ip \subseteq IpAddress
  /\ \A data \in Data :
       \E n \in 0 .. IP_SEND_PAYLOAD_SIZE : data \in [0 .. n - 1 -> Byte]
  /\ InfoBytes \subseteq Byte

(* The strings "ack" and "is_sink", with the byte that ends them.          *)
ack == [i \in 0 .. 3 |-> CASE i = 0 -> 97 [] i = 1 -> 99 [] i = 2 -> 107
                           [] i = 3 -> 0]
requestString ==
  [i \in 0 .. 7 |-> CASE i = 0 -> 105 [] i = 1 -> 115 [] i = 2 -> 95
                      [] i = 3 -> 115 [] i = 4 -> 105 [] i = 5 -> 110
                      [] i = 6 -> 107 [] i = 7 -> 0]

VARIABLES
  sendPayload,     \* what the radio sends, again for every retry
  IP_sendPayload,
  recvPayload,     \* of the board that listens
  sent,            \* the frame sendPayload stands for, or Nothing
  heard            \* the frame recvPayload stands for, or Nothing

vars == <<sendPayload, IP_sendPayload, recvPayload, sent, heard>>

Kind == {"none", "ack", "request", "ip"}

(* A frame as the other modules have it.  Only kind "ip" has the last      *)
(* three.                                                                  *)
NoIp == [i \in 0 .. IP_ADDRESS_LEN - 1 |-> 0]
NoData == [i \in 0 .. -1 |-> 0]

Frame == [kind : Kind, src : Mac, dst : Mac \cup {broadcast_mac},
          srcIp : IpAddress, dstIp : IpAddress, data : Data \cup {NoData}]

FrameTo(kind, dst) ==
  [kind |-> kind, src |-> my_mac, dst |-> dst,
   srcIp |-> NoIp, dstIp |-> NoIp, data |-> NoData]

IpFrame(dst, srcIp, dstIp, data) ==
  [kind |-> "ip", src |-> my_mac, dst |-> dst,
   srcIp |-> srcIp, dstIp |-> dstIp, data |-> data]

Nothing == FrameTo("none", broadcast_mac)

Buffer(size) == [0 .. size - 1 -> Byte]

TypeOK ==
  /\ sendPayload \in Buffer(MAC_SEND_PAYLOAD_SIZE)
  /\ IP_sendPayload \in Buffer(IP_SEND_PAYLOAD_SIZE)
  /\ recvPayload \in Buffer(MAC_RECV_PAYLOAD_SIZE)
  /\ sent \in Frame /\ heard \in Frame
-----------------------------------------------------------------------------
UTIL_clear_payload(size) == [i \in 0 .. size - 1 |-> 0]

(* The loops that copy len bytes to a buffer, and out of one.              *)
Put(buffer, at, len, bytes) ==
  [i \in DOMAIN buffer |->
     IF at <= i /\ i < at + len THEN bytes[i - at] ELSE buffer[i]]

Get(buffer, at, len) == [i \in 0 .. len - 1 |-> buffer[at + i]]

MAC_add_header_to_send_payload(buffer, dst) ==
  Put(Put(buffer, 0, MAC_ADDRESS_LEN, dst),
      MAC_ADDRESS_LEN, MAC_ADDRESS_LEN, my_mac)

MAC_add_data_to_send_payload(buffer, data, dataSize) ==
  Put(buffer, 2 * MAC_ADDRESS_LEN, dataSize, data)

(* Mutant: the addresses are swapped.                                      *)
AddsDestinationFirst(buffer, my_ip, dstIp) ==
  Put(Put(buffer, IP_ADDRESS_SRC_OFFSET, IP_ADDRESS_LEN, dstIp),
      IP_ADDRESS_DST_OFFSET, IP_ADDRESS_LEN, my_ip)

IP_add_header_to_send_payload(buffer, my_ip, dstIp) ==
  Put(Put(buffer, IP_ADDRESS_SRC_OFFSET, IP_ADDRESS_LEN, my_ip),
      IP_ADDRESS_DST_OFFSET, IP_ADDRESS_LEN, dstIp)

IP_add_data_to_send_payload(buffer, data, dataSize) ==
  Put(buffer, IP_ADDRESS_HEADER_OFFSET, dataSize, data)

(* What MAC_send_ack and MAC_send_data make of sendPayload.                *)
Composed(dst, data, dataSize) ==
  MAC_add_data_to_send_payload(
    MAC_add_header_to_send_payload(
      UTIL_clear_payload(MAC_SEND_PAYLOAD_SIZE), dst), data, dataSize)

Size(data) == CHOOSE n \in 0 .. IP_SEND_PAYLOAD_SIZE : DOMAIN data = 0 .. n - 1

Init ==
  /\ sendPayload = UTIL_clear_payload(MAC_SEND_PAYLOAD_SIZE)
  /\ IP_sendPayload = UTIL_clear_payload(IP_SEND_PAYLOAD_SIZE)
  /\ recvPayload = UTIL_clear_payload(MAC_RECV_PAYLOAD_SIZE)
  /\ sent = Nothing /\ heard = Nothing

(* Mutant: the buffer still has what the last frame left in it.            *)
SendsAckOverOldFrame(dst) ==
  /\ sendPayload' = MAC_add_data_to_send_payload(
                      MAC_add_header_to_send_payload(sendPayload, dst), ack, 3)
  /\ sent' = FrameTo("ack", dst)
  /\ UNCHANGED <<IP_sendPayload, recvPayload, heard>>

(* Only three bytes are copied: the clear ends the string.                 *)
MAC_send_ack(dst) ==
  /\ sendPayload' = Composed(dst, ack, 3)
  /\ sent' = FrameTo("ack", dst)
  /\ UNCHANGED <<IP_sendPayload, recvPayload, heard>>

IP_request_ip ==
  /\ sendPayload' = Composed(broadcast_mac, requestString, 8)
  /\ sent' = FrameTo("request", broadcast_mac)
  /\ UNCHANGED <<IP_sendPayload, recvPayload, heard>>

IP_issue_ip(my_ip, dst, assignedIp) ==
  /\ IP_sendPayload' = IP_add_header_to_send_payload(
                         UTIL_clear_payload(IP_SEND_PAYLOAD_SIZE),
                         my_ip, assignedIp)
  /\ sendPayload' = Composed(dst, IP_sendPayload', IP_SEND_PAYLOAD_SIZE)
  /\ sent' = IpFrame(dst, my_ip, assignedIp, NoData)
  /\ UNCHANGED <<recvPayload, heard>>

(* The assertions about the sizes hold, or the board stops.                *)
IP_send_data(my_ip, dst, dstIp, data) ==
  /\ Size(data) + IP_ADDRESS_HEADER_OFFSET < IP_SEND_PAYLOAD_SIZE
  /\ IP_sendPayload' = IP_add_data_to_send_payload(
                         IP_add_header_to_send_payload(
                           UTIL_clear_payload(IP_SEND_PAYLOAD_SIZE),
                           my_ip, dstIp),
                         data, Size(data))
  /\ sendPayload' = Composed(dst, IP_sendPayload', IP_SEND_PAYLOAD_SIZE)
  /\ sent' = IpFrame(dst, my_ip, dstIp, data)
  /\ UNCHANGED <<recvPayload, heard>>

(* Mutant: recvPayload is not cleared first.                               *)
ReceivesOverOldFrame ==
  /\ \/ /\ sent # Nothing
        /\ \E info \in InfoBytes :
             recvPayload' = [i \in 0 .. MAC_RECV_PAYLOAD_SIZE - 1 |->
               IF i < MAC_INFO_OFFSET THEN info
               ELSE IF i - MAC_INFO_OFFSET < MAC_SEND_PAYLOAD_SIZE
                    THEN sendPayload[i - MAC_INFO_OFFSET]
                    ELSE recvPayload[i]]
        /\ heard' = sent
     \/ UNCHANGED recvPayload /\ heard' = Nothing
  /\ UNCHANGED <<sendPayload, IP_sendPayload, sent>>

(* MAC_recv_payload_using_socket clears its buffer; sl_Recv fills it with  *)
(* the frame that is in the air, or leaves it when the time is out.        *)
Receives ==
  /\ \/ /\ sent # Nothing
        /\ \E info \in InfoBytes :
             recvPayload' = [i \in 0 .. MAC_RECV_PAYLOAD_SIZE - 1 |->
               IF i < MAC_INFO_OFFSET THEN info
               ELSE IF i - MAC_INFO_OFFSET < MAC_SEND_PAYLOAD_SIZE
                    THEN sendPayload[i - MAC_INFO_OFFSET] ELSE 0]
        /\ heard' = sent
     \/ /\ recvPayload' = UTIL_clear_payload(MAC_RECV_PAYLOAD_SIZE)
        /\ heard' = Nothing
  /\ UNCHANGED <<sendPayload, IP_sendPayload, sent>>

Next ==
  \/ \E dst \in Mac : MAC_send_ack(dst)
  \/ IP_request_ip
  \/ \E my_ip, ip \in Ip, dst \in Mac :
       \/ IP_issue_ip(my_ip, dst, ip)
       \/ \E data \in Data : IP_send_data(my_ip, dst, ip, data)
  \/ Receives

Spec == Init /\ [][Next]_vars
-----------------------------------------------------------------------------
(* What the board that listens reads.                                      *)
Destination == Get(recvPayload, MAC_ADDRESS_DEST_OFFSET, MAC_ADDRESS_LEN)
Source == Get(recvPayload, MAC_ADDRESS_SRC_OFFSET, MAC_ADDRESS_LEN)

(* strcmp, which reads up to the byte that ends the string.                *)
Holds(buffer, at, string) ==
  \A i \in DOMAIN string : buffer[at + i] = string[i]

MAC_is_ack == Holds(recvPayload, MAC_HEADER_OFFSET, ack)
IP_is_request_msg == Holds(recvPayload, MAC_HEADER_OFFSET, requestString)

(* IP_parse_mac_response.                                                  *)
SrcIp == Get(recvPayload, MAC_HEADER_OFFSET + IP_ADDRESS_SRC_OFFSET,
             IP_ADDRESS_LEN)
DstIp == Get(recvPayload, MAC_HEADER_OFFSET + IP_ADDRESS_DST_OFFSET,
             IP_ADDRESS_LEN)
DataAt(i) == recvPayload[MAC_HEADER_OFFSET + IP_ADDRESS_HEADER_OFFSET + i]

(* A frame is read as the kind that was sent, with its addresses and its   *)
(* data, whatever the buffers held before; behind the data there are only  *)
(* zeros.                                                                  *)
ReadsAsMeant ==
  heard # Nothing =>
    /\ Destination = heard.dst /\ Source = heard.src
    /\ MAC_is_ack <=> heard.kind = "ack"
    /\ IP_is_request_msg <=> heard.kind = "request"
    /\ heard.kind = "ip" =>
         /\ SrcIp = heard.srcIp /\ DstIp = heard.dstIp
         /\ \A i \in 0 .. IP_SEND_PAYLOAD_SIZE - IP_ADDRESS_HEADER_OFFSET - 1 :
              DataAt(i) = IF i \in DOMAIN heard.data THEN heard.data[i] ELSE 0

(* When nothing is received, no board takes the buffer for a frame to it.  *)
SilenceIsNoFrame ==
  heard = Nothing => Destination \notin Mac \cup {broadcast_mac}
-----------------------------------------------------------------------------
(* The inductive invariant: the same of the frame in sendPayload.          *)
Encodes(dst, src, kind, srcIp, dstIp, data) ==
  /\ Get(sendPayload, 0, MAC_ADDRESS_LEN) = dst
  /\ Get(sendPayload, MAC_ADDRESS_LEN, MAC_ADDRESS_LEN) = src
  /\ Holds(sendPayload, 2 * MAC_ADDRESS_LEN, ack) <=> kind = "ack"
  /\ Holds(sendPayload, 2 * MAC_ADDRESS_LEN, requestString) <=>
       kind = "request"
  /\ kind = "ip" =>
       /\ Get(sendPayload, 2 * MAC_ADDRESS_LEN + IP_ADDRESS_SRC_OFFSET,
              IP_ADDRESS_LEN) = srcIp
       /\ Get(sendPayload, 2 * MAC_ADDRESS_LEN + IP_ADDRESS_DST_OFFSET,
              IP_ADDRESS_LEN) = dstIp
       /\ \A i \in 0 .. IP_SEND_PAYLOAD_SIZE - IP_ADDRESS_HEADER_OFFSET - 1 :
            sendPayload[2 * MAC_ADDRESS_LEN + IP_ADDRESS_HEADER_OFFSET + i]
              = IF i \in DOMAIN data THEN data[i] ELSE 0

SendsAsMeant ==
  sent # Nothing =>
    Encodes(sent.dst, sent.src, sent.kind, sent.srcIp, sent.dstIp, sent.data)

IInv == TypeOK /\ SendsAsMeant /\ ReadsAsMeant /\ SilenceIsNoFrame
=============================================================================
