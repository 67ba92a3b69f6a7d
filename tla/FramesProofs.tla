---------------------------- MODULE FramesProofs ----------------------------
(***************************************************************************)
(* Proofs about Frames: for every length of addresses and buffers, and for *)
(* every address and data, a frame is read as it was meant.                *)
(***************************************************************************)
EXTENDS Frames, TLAPS

L == MAC_ADDRESS_LEN
Body == 2 * MAC_ADDRESS_LEN
Rest == 0 .. IP_SEND_PAYLOAD_SIZE - IP_ADDRESS_HEADER_OFFSET - 1

(* The offsets are numbers, in their order, within the buffers.            *)
LEMMA Offsets ==
  /\ L \in Nat /\ L > 0 /\ Body \in Nat /\ Body = L + L
  /\ IP_ADDRESS_LEN \in Nat /\ MAC_INFO_OFFSET \in Nat
  /\ IP_ADDRESS_SRC_OFFSET \in Nat /\ IP_ADDRESS_SRC_OFFSET > 0
  /\ IP_ADDRESS_DST_OFFSET \in Nat /\ IP_ADDRESS_HEADER_OFFSET \in Nat
  /\ IP_ADDRESS_DST_OFFSET = IP_ADDRESS_SRC_OFFSET + IP_ADDRESS_LEN
  /\ IP_ADDRESS_HEADER_OFFSET = IP_ADDRESS_DST_OFFSET + IP_ADDRESS_LEN
  /\ IP_SEND_PAYLOAD_SIZE \in Nat /\ MAC_SEND_PAYLOAD_SIZE \in Nat
  /\ MAC_RECV_PAYLOAD_SIZE \in Nat
  /\ MAC_HEADER_OFFSET = MAC_INFO_OFFSET + Body
  /\ MAC_ADDRESS_SRC_OFFSET = MAC_INFO_OFFSET + L
  /\ MAC_ADDRESS_DEST_OFFSET = MAC_INFO_OFFSET
  /\ IP_ADDRESS_HEADER_OFFSET < IP_SEND_PAYLOAD_SIZE
  /\ Body + IP_SEND_PAYLOAD_SIZE < MAC_SEND_PAYLOAD_SIZE
  /\ Body + 8 < MAC_SEND_PAYLOAD_SIZE
  /\ MAC_INFO_OFFSET + MAC_SEND_PAYLOAD_SIZE <= MAC_RECV_PAYLOAD_SIZE
BY FramesAssumption
   DEF L, Body, IP_ADDRESS_DST_OFFSET, IP_ADDRESS_HEADER_OFFSET,
       MAC_HEADER_OFFSET, MAC_ADDRESS_SRC_OFFSET, MAC_ADDRESS_DEST_OFFSET

(* The addresses of boards and networks are functions to bytes.            *)
LEMMA Addresses ==
  /\ Mac \subseteq [0 .. L - 1 -> Byte] /\ my_mac \in Mac
  /\ broadcast_mac \in [0 .. L - 1 -> Byte] /\ broadcast_mac \notin Mac
  /\ [i \in 0 .. L - 1 |-> 0] \notin Mac \cup {broadcast_mac}
  /\ Ip \subseteq [0 .. IP_ADDRESS_LEN - 1 -> Byte]
  /\ NoIp \in [0 .. IP_ADDRESS_LEN - 1 -> Byte]
  /\ InfoBytes \subseteq Byte
<1>1. broadcast_mac \in [0 .. L - 1 -> Byte]
  BY DEF broadcast_mac, L, Byte
<1>2. broadcast_mac # [i \in 0 .. L - 1 |-> 0]
  <2>1. 0 \in 0 .. L - 1
    BY Offsets
  <2>2. broadcast_mac[0] = 255
    BY <2>1 DEF broadcast_mac, L
  <2> DEFINE zero == [i \in 0 .. L - 1 |-> 0]
  <2>3. zero[0] = 0
    BY <2>1
  <2> HIDE DEF zero
  <2>4. broadcast_mac # zero
    BY <2>2, <2>3
  <2>5. QED
    BY <2>4 DEF zero
<1>3. null_mac = [i \in 0 .. L - 1 |-> 0]
  BY DEF null_mac, L
<1>4. NoIp \in [0 .. IP_ADDRESS_LEN - 1 -> Byte]
  BY DEF NoIp, Byte
<1>5. /\ Mac \subseteq MacAddress /\ my_mac \in Mac /\ null_mac \notin Mac
      /\ broadcast_mac \notin Mac /\ Ip \subseteq IpAddress
      /\ InfoBytes \subseteq Byte
  BY FramesAssumption
<1>6. QED
  BY <1>1, <1>2, <1>3, <1>4, <1>5 DEF MacAddress, IpAddress, L

(* Data has a size and is a function to bytes.                             *)
LEMMA SizeOfData ==
  ASSUME NEW data \in Data
  PROVE  /\ Size(data) \in 0 .. IP_SEND_PAYLOAD_SIZE
         /\ DOMAIN data = 0 .. Size(data) - 1
         /\ \A i \in DOMAIN data : data[i] \in Byte
<1>1. PICK n \in 0 .. IP_SEND_PAYLOAD_SIZE : data \in [0 .. n - 1 -> Byte]
  BY FramesAssumption
<1>2. DOMAIN data = 0 .. n - 1
  BY <1>1
<1>3. Size(data) \in 0 .. IP_SEND_PAYLOAD_SIZE
      /\ DOMAIN data = 0 .. Size(data) - 1
  BY <1>2 DEF Size
<1>4. QED
  BY <1>1, <1>2, <1>3

(* The bytes of a frame as MAC_send_data and MAC_send_ack compose it.      *)
LEMMA ComposedBytes ==
  ASSUME NEW dst, NEW data, NEW n \in Nat
  PROVE  /\ DOMAIN Composed(dst, data, n) = 0 .. MAC_SEND_PAYLOAD_SIZE - 1
         /\ \A i \in 0 .. MAC_SEND_PAYLOAD_SIZE - 1 :
              Composed(dst, data, n)[i] =
                IF i < L THEN dst[i]
                ELSE IF i < Body THEN my_mac[i - L]
                ELSE IF i < Body + n THEN data[i - Body] ELSE 0
<1> DEFINE N == MAC_SEND_PAYLOAD_SIZE
           b1 == UTIL_clear_payload(N)
           b2 == Put(b1, 0, L, dst)
           b3 == Put(b2, L, L, my_mac)
           b4 == Put(b3, Body, n, data)
<1>0. Composed(dst, data, n) = b4
  BY DEF Composed, MAC_add_data_to_send_payload,
         MAC_add_header_to_send_payload, L, Body
<1>1. DOMAIN b1 = 0 .. N - 1 /\ \A i \in 0 .. N - 1 : b1[i] = 0
  BY DEF UTIL_clear_payload
<1> HIDE DEF b1
<1>2. DOMAIN b2 = 0 .. N - 1
      /\ \A i \in 0 .. N - 1 : b2[i] = IF i < L THEN dst[i] ELSE 0
  BY <1>1, Offsets DEF Put
<1> HIDE DEF b2
<1>3. DOMAIN b3 = 0 .. N - 1
      /\ \A i \in 0 .. N - 1 :
           b3[i] = IF i < L THEN dst[i]
                   ELSE IF i < Body THEN my_mac[i - L] ELSE 0
  BY <1>2, Offsets DEF Put
<1> HIDE DEF b3
<1>4. DOMAIN b4 = 0 .. N - 1
      /\ \A i \in 0 .. N - 1 :
           b4[i] = IF i < L THEN dst[i]
                   ELSE IF i < Body THEN my_mac[i - L]
                   ELSE IF i < Body + n THEN data[i - Body] ELSE 0
  BY <1>3, Offsets DEF Put
<1> HIDE DEF b4, N
<1>5. QED
  BY <1>0, <1>4 DEF N

(* The bytes of a payload with an IP header, and data or none.             *)
IpBytes(p, my_ip, dstIp, data, n) ==
  /\ DOMAIN p = 0 .. IP_SEND_PAYLOAD_SIZE - 1
  /\ \A i \in 0 .. IP_SEND_PAYLOAD_SIZE - 1 :
       p[i] = IF i < IP_ADDRESS_SRC_OFFSET THEN 0
              ELSE IF i < IP_ADDRESS_DST_OFFSET
                   THEN my_ip[i - IP_ADDRESS_SRC_OFFSET]
              ELSE IF i < IP_ADDRESS_HEADER_OFFSET
                   THEN dstIp[i - IP_ADDRESS_DST_OFFSET]
              ELSE IF i < IP_ADDRESS_HEADER_OFFSET + n
                   THEN data[i - IP_ADDRESS_HEADER_OFFSET] ELSE 0

LEMMA HeaderBytes ==
  ASSUME NEW my_ip, NEW dstIp
  PROVE  IpBytes(IP_add_header_to_send_payload(
                   UTIL_clear_payload(IP_SEND_PAYLOAD_SIZE), my_ip, dstIp),
                 my_ip, dstIp, NoData, 0)
<1> DEFINE N == IP_SEND_PAYLOAD_SIZE
           b1 == UTIL_clear_payload(N)
           b2 == Put(b1, IP_ADDRESS_SRC_OFFSET, IP_ADDRESS_LEN, my_ip)
           b3 == Put(b2, IP_ADDRESS_DST_OFFSET, IP_ADDRESS_LEN, dstIp)
<1>1. DOMAIN b1 = 0 .. N - 1 /\ \A i \in 0 .. N - 1 : b1[i] = 0
  BY DEF UTIL_clear_payload
<1> HIDE DEF b1
<1>2. DOMAIN b2 = 0 .. N - 1
      /\ \A i \in 0 .. N - 1 :
           b2[i] = IF IP_ADDRESS_SRC_OFFSET <= i /\ i < IP_ADDRESS_DST_OFFSET
                   THEN my_ip[i - IP_ADDRESS_SRC_OFFSET] ELSE 0
  BY <1>1, Offsets DEF Put
<1> HIDE DEF b2
<1>3. IpBytes(b3, my_ip, dstIp, NoData, 0)
  BY <1>2, Offsets DEF Put, IpBytes
<1>4. QED
  BY <1>3 DEF IP_add_header_to_send_payload, b1, b2

LEMMA DataBytes ==
  ASSUME NEW my_ip, NEW dstIp, NEW data, NEW n \in Nat
  PROVE  IpBytes(IP_add_data_to_send_payload(
                   IP_add_header_to_send_payload(
                     UTIL_clear_payload(IP_SEND_PAYLOAD_SIZE), my_ip, dstIp),
                   data, n),
                 my_ip, dstIp, data, n)
<1> DEFINE p == IP_add_header_to_send_payload(
                  UTIL_clear_payload(IP_SEND_PAYLOAD_SIZE), my_ip, dstIp)
<1>1. IpBytes(p, my_ip, dstIp, NoData, 0)
  BY HeaderBytes
<1> HIDE DEF p
<1>2. IpBytes(Put(p, IP_ADDRESS_HEADER_OFFSET, n, data), my_ip, dstIp, data, n)
  BY <1>1, Offsets DEF Put, IpBytes
<1>3. QED
  BY <1>2 DEF IP_add_data_to_send_payload, p

(* The payload is a buffer of bytes.                                       *)
LEMMA IpBytesType ==
  ASSUME NEW p, NEW my_ip \in Ip, NEW dstIp \in Ip, NEW data, NEW n \in Nat,
         \A i \in 0 .. n - 1 : data[i] \in Byte,
         IpBytes(p, my_ip, dstIp, data, n),
         p = [i \in DOMAIN p |-> p[i]]
  PROVE  p \in Buffer(IP_SEND_PAYLOAD_SIZE)
<1>1. \A i \in 0 .. IP_SEND_PAYLOAD_SIZE - 1 : p[i] \in Byte
  <2> SUFFICES ASSUME NEW i \in 0 .. IP_SEND_PAYLOAD_SIZE - 1
               PROVE  p[i] \in Byte
    OBVIOUS
  <2>1. \A j \in 0 .. IP_ADDRESS_LEN - 1 :
          my_ip[j] \in Byte /\ dstIp[j] \in Byte
    BY Addresses
  <2>2. 0 \in Byte
    BY DEF Byte
  <2>3. CASE i < IP_ADDRESS_SRC_OFFSET
    BY <2>2, <2>3 DEF IpBytes
  <2>4. CASE IP_ADDRESS_SRC_OFFSET <= i /\ i < IP_ADDRESS_DST_OFFSET
    <3>1. i - IP_ADDRESS_SRC_OFFSET \in 0 .. IP_ADDRESS_LEN - 1
      BY <2>4, Offsets
    <3>2. p[i] = my_ip[i - IP_ADDRESS_SRC_OFFSET]
      BY <2>4, Offsets DEF IpBytes
    <3>3. QED
      BY <2>1, <3>1, <3>2
  <2>5. CASE IP_ADDRESS_DST_OFFSET <= i /\ i < IP_ADDRESS_HEADER_OFFSET
    <3>1. i - IP_ADDRESS_DST_OFFSET \in 0 .. IP_ADDRESS_LEN - 1
      BY <2>5, Offsets
    <3>2. p[i] = dstIp[i - IP_ADDRESS_DST_OFFSET]
      <4>1. ~(i < IP_ADDRESS_SRC_OFFSET) /\ ~(i < IP_ADDRESS_DST_OFFSET)
        BY <2>5, Offsets
      <4>2. QED
        BY <2>5, <4>1 DEF IpBytes
    <3>3. QED
      BY <2>1, <3>1, <3>2
  <2>6. CASE IP_ADDRESS_HEADER_OFFSET <= i /\ i < IP_ADDRESS_HEADER_OFFSET + n
    <3>1. i - IP_ADDRESS_HEADER_OFFSET \in 0 .. n - 1
      BY <2>6, Offsets
    <3>2. p[i] = data[i - IP_ADDRESS_HEADER_OFFSET]
      <4>1. ~(i < IP_ADDRESS_SRC_OFFSET) /\ ~(i < IP_ADDRESS_DST_OFFSET)
            /\ ~(i < IP_ADDRESS_HEADER_OFFSET)
        BY <2>6, Offsets
      <4>2. QED
        BY <2>6, <4>1 DEF IpBytes
    <3>3. QED
      BY <3>1, <3>2
  <2>7. CASE IP_ADDRESS_HEADER_OFFSET + n <= i
    <3>1. ~(i < IP_ADDRESS_SRC_OFFSET) /\ ~(i < IP_ADDRESS_DST_OFFSET)
          /\ ~(i < IP_ADDRESS_HEADER_OFFSET)
          /\ ~(i < IP_ADDRESS_HEADER_OFFSET + n)
      BY <2>7, Offsets
    <3>2. p[i] = 0
      BY <3>1 DEF IpBytes
    <3>3. QED
      BY <2>2, <3>2
  <2>8. QED
    BY <2>3, <2>4, <2>5, <2>6, <2>7, Offsets
<1>2. QED
  BY <1>1 DEF IpBytes, Buffer

(* Copying bytes to a buffer gives a function.                             *)
LEMMA PutIsFunction ==
  ASSUME NEW buffer, NEW at, NEW len, NEW bytes
  PROVE  Put(buffer, at, len, bytes) =
           [i \in DOMAIN Put(buffer, at, len, bytes) |->
              Put(buffer, at, len, bytes)[i]]
BY DEF Put

(* What the kinds of a frame need: the first four bytes behind the MAC     *)
(* header, and the eight that a request compares.                          *)
LEMMA Strings ==
  /\ DOMAIN ack = 0 .. 3 /\ DOMAIN requestString = 0 .. 7
  /\ ack[0] = 97 /\ ack[1] = 99 /\ ack[2] = 107 /\ ack[3] = 0
  /\ requestString[0] = 105
  /\ \A i \in 0 .. 3 : ack[i] \in Byte
  /\ \A i \in 0 .. 7 : requestString[i] \in Byte
BY DEF ack, requestString, Byte

(* A composed frame is a buffer of bytes with the addresses of its header. *)
LEMMA ComposedHeader ==
  ASSUME NEW dst \in Mac \cup {broadcast_mac}, NEW data, NEW n \in Nat,
         Body + n < MAC_SEND_PAYLOAD_SIZE,
         \A i \in 0 .. n - 1 : data[i] \in Byte,
         NEW f, f = Composed(dst, data, n)
  PROVE  /\ f \in Buffer(MAC_SEND_PAYLOAD_SIZE)
         /\ Get(f, 0, L) = dst
         /\ Get(f, L, L) = my_mac
<1>1. /\ DOMAIN f = 0 .. MAC_SEND_PAYLOAD_SIZE - 1
      /\ \A i \in 0 .. MAC_SEND_PAYLOAD_SIZE - 1 :
           f[i] = IF i < L THEN dst[i]
                  ELSE IF i < Body THEN my_mac[i - L]
                  ELSE IF i < Body + n THEN data[i - Body] ELSE 0
  BY ComposedBytes
<1>2. f = [i \in DOMAIN f |-> f[i]]
  BY PutIsFunction
     DEF Composed, MAC_add_data_to_send_payload
<1>3. dst \in [0 .. L - 1 -> Byte] /\ my_mac \in [0 .. L - 1 -> Byte]
  BY Addresses
<1>4. \A i \in 0 .. MAC_SEND_PAYLOAD_SIZE - 1 : f[i] \in Byte
  <2> SUFFICES ASSUME NEW i \in 0 .. MAC_SEND_PAYLOAD_SIZE - 1
               PROVE  f[i] \in Byte
    OBVIOUS
  <2>1. CASE i < L
    BY <1>1, <1>3, <2>1, Offsets
  <2>2. CASE L <= i /\ i < Body
    <3>1. i - L \in 0 .. L - 1
      BY <2>2, Offsets
    <3>2. QED
      BY <1>1, <1>3, <2>2, <3>1, Offsets
  <2>3. CASE Body <= i /\ i < Body + n
    <3>1. i - Body \in 0 .. n - 1
      BY <2>3, Offsets
    <3>2. f[i] = data[i - Body]
      BY <1>1, <2>3, Offsets
    <3>3. QED
      BY <3>1, <3>2
  <2>4. CASE Body + n <= i
    <3>1. ~(i < L) /\ ~(i < Body) /\ ~(i < Body + n)
      BY <2>4, Offsets
    <3>2. f[i] = 0
      BY <1>1, <3>1
    <3>3. QED
      BY <3>2 DEF Byte
  <2>5. QED
    BY <2>1, <2>2, <2>3, <2>4, Offsets
<1>5. f \in Buffer(MAC_SEND_PAYLOAD_SIZE)
  BY <1>1, <1>2, <1>4 DEF Buffer
<1>6. Get(f, 0, L) = dst
  <2>1. \A i \in 0 .. L - 1 : f[0 + i] = dst[i]
    BY <1>1, Offsets
  <2>2. QED
    BY <1>3, <2>1 DEF Get
<1>7. Get(f, L, L) = my_mac
  <2>1. \A i \in 0 .. L - 1 : f[L + i] = my_mac[i]
    <3> SUFFICES ASSUME NEW i \in 0 .. L - 1 PROVE f[L + i] = my_mac[i]
      OBVIOUS
    <3>1. /\ L + i \in 0 .. MAC_SEND_PAYLOAD_SIZE - 1
          /\ ~(L + i < L) /\ L + i < Body /\ (L + i) - L = i
      BY Offsets
    <3>2. QED
      BY <1>1, <3>1
  <2>2. QED
    BY <1>3, <2>1 DEF Get
<1>8. QED
  BY <1>5, <1>6, <1>7

(* Behind the header is the data, with zeros after it.                     *)
LEMMA ComposedBody ==
  ASSUME NEW dst, NEW data, NEW n \in Nat, NEW f, f = Composed(dst, data, n),
         NEW i \in Nat, Body + i < MAC_SEND_PAYLOAD_SIZE
  PROVE  f[Body + i] = IF i < n THEN data[i] ELSE 0
<1>1. /\ Body + i \in 0 .. MAC_SEND_PAYLOAD_SIZE - 1
      /\ ~(Body + i < L) /\ ~(Body + i < Body) /\ (Body + i) - Body = i
      /\ Body + i < Body + n <=> i < n
  BY Offsets
<1>2. QED
  BY <1>1, ComposedBytes
-----------------------------------------------------------------------------
(* An ack is read as an ack, ...                                           *)
LEMMA AckEncodes ==
  ASSUME NEW dst \in Mac, MAC_send_ack(dst)
  PROVE  sendPayload' \in Buffer(MAC_SEND_PAYLOAD_SIZE) /\ SendsAsMeant'
<1> DEFINE f == sendPayload'
<1>1. f = Composed(dst, ack, 3) /\ sent' = FrameTo("ack", dst)
  BY DEF MAC_send_ack
<1> HIDE DEF f
<1>2. /\ f \in Buffer(MAC_SEND_PAYLOAD_SIZE)
      /\ Get(f, 0, L) = dst /\ Get(f, L, L) = my_mac
  BY <1>1, ComposedHeader, Strings, Offsets
<1>3. \A i \in 0 .. 7 : f[Body + i] = IF i < 3 THEN ack[i] ELSE 0
  BY <1>1, ComposedBody, Offsets
<1>4. Holds(f, Body, ack)
  <2>1. /\ f[Body + 0] = ack[0] /\ f[Body + 1] = ack[1]
        /\ f[Body + 2] = ack[2] /\ f[Body + 3] = ack[3]
    BY <1>3, Strings
  <2>2. QED
    BY <2>1, Strings DEF Holds
<1>5. ~Holds(f, Body, requestString)
  <2>1. f[Body + 0] = 97 /\ requestString[0] = 105
    BY <1>3, Strings
  <2>2. QED
    BY <2>1, Strings DEF Holds
<1>6. /\ sent'.kind = "ack" /\ sent'.dst = dst /\ sent'.src = my_mac
  BY <1>1 DEF FrameTo
<1>7. QED
  BY <1>2, <1>4, <1>5, <1>6 DEF SendsAsMeant, Encodes, f, L, Body

(* ... a request for an address as a request, ...                          *)
LEMMA RequestEncodes ==
  ASSUME IP_request_ip
  PROVE  sendPayload' \in Buffer(MAC_SEND_PAYLOAD_SIZE) /\ SendsAsMeant'
<1> DEFINE f == sendPayload'
<1>1. /\ f = Composed(broadcast_mac, requestString, 8)
      /\ sent' = FrameTo("request", broadcast_mac)
  BY DEF IP_request_ip
<1> HIDE DEF f
<1>2. /\ f \in Buffer(MAC_SEND_PAYLOAD_SIZE)
      /\ Get(f, 0, L) = broadcast_mac /\ Get(f, L, L) = my_mac
  BY <1>1, ComposedHeader, Strings, Offsets
<1>3. \A i \in 0 .. 7 : f[Body + i] = requestString[i]
  BY <1>1, ComposedBody, Offsets
<1>4. Holds(f, Body, requestString)
  BY <1>3, Strings DEF Holds
<1>5. ~Holds(f, Body, ack)
  <2>1. f[Body + 0] = 105 /\ ack[0] = 97
    BY <1>3, Strings
  <2>2. QED
    BY <2>1, Strings DEF Holds
<1>6. /\ sent'.kind = "request" /\ sent'.dst = broadcast_mac
      /\ sent'.src = my_mac
  BY <1>1 DEF FrameTo
<1>7. QED
  BY <1>2, <1>4, <1>5, <1>6 DEF SendsAsMeant, Encodes, f, L, Body

(* Where the fields of an IP payload lie in it and in a frame.             *)
LEMMA FieldIndices ==
  /\ \A i \in 0 .. IP_SEND_PAYLOAD_SIZE - 1 :
       /\ i \in Nat /\ i < IP_SEND_PAYLOAD_SIZE
       /\ Body + i < MAC_SEND_PAYLOAD_SIZE
  /\ \A i \in 0 .. IP_ADDRESS_LEN - 1 :
       /\ IP_ADDRESS_SRC_OFFSET + i \in 0 .. IP_SEND_PAYLOAD_SIZE - 1
       /\ ~(IP_ADDRESS_SRC_OFFSET + i < IP_ADDRESS_SRC_OFFSET)
       /\ IP_ADDRESS_SRC_OFFSET + i < IP_ADDRESS_DST_OFFSET
       /\ (IP_ADDRESS_SRC_OFFSET + i) - IP_ADDRESS_SRC_OFFSET = i
       /\ Body + IP_ADDRESS_SRC_OFFSET + i = Body + (IP_ADDRESS_SRC_OFFSET + i)
  /\ \A i \in 0 .. IP_ADDRESS_LEN - 1 :
       /\ IP_ADDRESS_DST_OFFSET + i \in 0 .. IP_SEND_PAYLOAD_SIZE - 1
       /\ ~(IP_ADDRESS_DST_OFFSET + i < IP_ADDRESS_SRC_OFFSET)
       /\ ~(IP_ADDRESS_DST_OFFSET + i < IP_ADDRESS_DST_OFFSET)
       /\ IP_ADDRESS_DST_OFFSET + i < IP_ADDRESS_HEADER_OFFSET
       /\ (IP_ADDRESS_DST_OFFSET + i) - IP_ADDRESS_DST_OFFSET = i
       /\ Body + IP_ADDRESS_DST_OFFSET + i = Body + (IP_ADDRESS_DST_OFFSET + i)
  /\ \A i \in Rest :
       /\ IP_ADDRESS_HEADER_OFFSET + i \in 0 .. IP_SEND_PAYLOAD_SIZE - 1
       /\ ~(IP_ADDRESS_HEADER_OFFSET + i < IP_ADDRESS_SRC_OFFSET)
       /\ ~(IP_ADDRESS_HEADER_OFFSET + i < IP_ADDRESS_DST_OFFSET)
       /\ ~(IP_ADDRESS_HEADER_OFFSET + i < IP_ADDRESS_HEADER_OFFSET)
       /\ (IP_ADDRESS_HEADER_OFFSET + i) - IP_ADDRESS_HEADER_OFFSET = i
       /\ Body + IP_ADDRESS_HEADER_OFFSET + i
            = Body + (IP_ADDRESS_HEADER_OFFSET + i)
       /\ \A n \in Nat : IP_ADDRESS_HEADER_OFFSET + i
                             < IP_ADDRESS_HEADER_OFFSET + n
                           <=> i \in 0 .. n - 1
BY Offsets DEF Rest

(* ... and a payload with an IP header as neither, with its addresses and  *)
(* its data.                                                               *)
LEMMA IpEncodes ==
  ASSUME NEW dst \in Mac, NEW my_ip \in Ip, NEW dstIp \in Ip,
         NEW data, NEW n \in Nat, DOMAIN data = 0 .. n - 1,
         \A i \in DOMAIN data : data[i] \in Byte,
         NEW p \in Buffer(IP_SEND_PAYLOAD_SIZE),
         IpBytes(p, my_ip, dstIp, data, n),
         sendPayload' = Composed(dst, p, IP_SEND_PAYLOAD_SIZE),
         sent' = IpFrame(dst, my_ip, dstIp, data)
  PROVE  sendPayload' \in Buffer(MAC_SEND_PAYLOAD_SIZE) /\ SendsAsMeant'
<1> DEFINE f == sendPayload'
<1>1. f = Composed(dst, p, IP_SEND_PAYLOAD_SIZE)
  OBVIOUS
<1> HIDE DEF f
<1>0. /\ \A i \in 0 .. IP_SEND_PAYLOAD_SIZE - 1 : p[i] \in Byte
      /\ dst \in Mac \cup {broadcast_mac}
      /\ IP_SEND_PAYLOAD_SIZE \in Nat
      /\ Body + IP_SEND_PAYLOAD_SIZE < MAC_SEND_PAYLOAD_SIZE
  BY Offsets DEF Buffer
<1>2. /\ f \in Buffer(MAC_SEND_PAYLOAD_SIZE)
      /\ Get(f, 0, L) = dst /\ Get(f, L, L) = my_mac
  BY <1>0, <1>1, ComposedHeader
<1>3. ASSUME NEW i \in 0 .. IP_SEND_PAYLOAD_SIZE - 1
      PROVE  f[Body + i] = p[i]
  <2>1. i \in Nat /\ i < IP_SEND_PAYLOAD_SIZE
        /\ Body + i < MAC_SEND_PAYLOAD_SIZE
    BY FieldIndices
  <2>2. QED
    BY <1>0, <1>1, <2>1, ComposedBody
<1>4. f[Body + 0] = 0
  <2>1. 0 \in 0 .. IP_SEND_PAYLOAD_SIZE - 1 /\ 0 < IP_ADDRESS_SRC_OFFSET
    BY Offsets
  <2>2. p[0] = 0
    BY <2>1 DEF IpBytes
  <2>3. QED
    BY <1>3, <2>1, <2>2
<1>5. ~Holds(f, Body, ack) /\ ~Holds(f, Body, requestString)
  BY <1>4, Strings DEF Holds
<1>6. \A i \in 0 .. IP_ADDRESS_LEN - 1 :
        /\ f[Body + IP_ADDRESS_SRC_OFFSET + i] = my_ip[i]
        /\ f[Body + IP_ADDRESS_DST_OFFSET + i] = dstIp[i]
  <2> SUFFICES ASSUME NEW i \in 0 .. IP_ADDRESS_LEN - 1
               PROVE  /\ f[Body + IP_ADDRESS_SRC_OFFSET + i] = my_ip[i]
                      /\ f[Body + IP_ADDRESS_DST_OFFSET + i] = dstIp[i]
    OBVIOUS
  <2>1. /\ IP_ADDRESS_SRC_OFFSET + i \in 0 .. IP_SEND_PAYLOAD_SIZE - 1
        /\ ~(IP_ADDRESS_SRC_OFFSET + i < IP_ADDRESS_SRC_OFFSET)
        /\ IP_ADDRESS_SRC_OFFSET + i < IP_ADDRESS_DST_OFFSET
        /\ (IP_ADDRESS_SRC_OFFSET + i) - IP_ADDRESS_SRC_OFFSET = i
        /\ Body + IP_ADDRESS_SRC_OFFSET + i = Body + (IP_ADDRESS_SRC_OFFSET + i)
    BY FieldIndices
  <2>2. /\ IP_ADDRESS_DST_OFFSET + i \in 0 .. IP_SEND_PAYLOAD_SIZE - 1
        /\ ~(IP_ADDRESS_DST_OFFSET + i < IP_ADDRESS_SRC_OFFSET)
        /\ ~(IP_ADDRESS_DST_OFFSET + i < IP_ADDRESS_DST_OFFSET)
        /\ IP_ADDRESS_DST_OFFSET + i < IP_ADDRESS_HEADER_OFFSET
        /\ (IP_ADDRESS_DST_OFFSET + i) - IP_ADDRESS_DST_OFFSET = i
        /\ Body + IP_ADDRESS_DST_OFFSET + i = Body + (IP_ADDRESS_DST_OFFSET + i)
    BY FieldIndices
  <2>3. p[IP_ADDRESS_SRC_OFFSET + i] = my_ip[i]
    BY <2>1 DEF IpBytes
  <2>4. p[IP_ADDRESS_DST_OFFSET + i] = dstIp[i]
    BY <2>2 DEF IpBytes
  <2>5. QED
    BY <1>3, <2>1, <2>2, <2>3, <2>4
<1>7. /\ Get(f, Body + IP_ADDRESS_SRC_OFFSET, IP_ADDRESS_LEN) = my_ip
      /\ Get(f, Body + IP_ADDRESS_DST_OFFSET, IP_ADDRESS_LEN) = dstIp
  <2>1. /\ my_ip \in [0 .. IP_ADDRESS_LEN - 1 -> Byte]
        /\ dstIp \in [0 .. IP_ADDRESS_LEN - 1 -> Byte]
    BY Addresses
  <2>2. QED
    BY <1>6, <2>1 DEF Get
<1>8. \A i \in Rest : f[Body + IP_ADDRESS_HEADER_OFFSET + i]
                        = IF i \in DOMAIN data THEN data[i] ELSE 0
  <2> SUFFICES ASSUME NEW i \in Rest
               PROVE  f[Body + IP_ADDRESS_HEADER_OFFSET + i]
                        = IF i \in DOMAIN data THEN data[i] ELSE 0
    OBVIOUS
  <2>1. /\ IP_ADDRESS_HEADER_OFFSET + i \in 0 .. IP_SEND_PAYLOAD_SIZE - 1
        /\ ~(IP_ADDRESS_HEADER_OFFSET + i < IP_ADDRESS_SRC_OFFSET)
        /\ ~(IP_ADDRESS_HEADER_OFFSET + i < IP_ADDRESS_DST_OFFSET)
        /\ ~(IP_ADDRESS_HEADER_OFFSET + i < IP_ADDRESS_HEADER_OFFSET)
        /\ (IP_ADDRESS_HEADER_OFFSET + i) - IP_ADDRESS_HEADER_OFFSET = i
        /\ Body + IP_ADDRESS_HEADER_OFFSET + i
             = Body + (IP_ADDRESS_HEADER_OFFSET + i)
        /\ IP_ADDRESS_HEADER_OFFSET + i < IP_ADDRESS_HEADER_OFFSET + n
             <=> i \in 0 .. n - 1
    BY FieldIndices
  <2>2. p[IP_ADDRESS_HEADER_OFFSET + i]
          = IF i \in DOMAIN data THEN data[i] ELSE 0
    BY <2>1 DEF IpBytes
  <2>3. QED
    BY <1>3, <2>1, <2>2
<1>9. /\ sent'.kind = "ip" /\ sent'.dst = dst /\ sent'.src = my_mac
      /\ sent'.srcIp = my_ip /\ sent'.dstIp = dstIp /\ sent'.data = data
  BY DEF IpFrame
<1>10. QED
  BY <1>2, <1>5, <1>7, <1>8, <1>9 DEF SendsAsMeant, Encodes, f, L, Body, Rest
-----------------------------------------------------------------------------
(* The abstract frames have their types.                                   *)
LEMMA FrameTypes ==
  /\ \A kind \in Kind, dst \in Mac \cup {broadcast_mac} :
       FrameTo(kind, dst) \in Frame
  /\ \A dst \in Mac, srcIp, dstIp \in Ip, data \in Data \cup {NoData} :
       IpFrame(dst, srcIp, dstIp, data) \in Frame
  /\ Nothing \in Frame
<1>1. \A kind \in Kind, dst \in Mac \cup {broadcast_mac} :
        FrameTo(kind, dst) \in Frame
  BY Addresses DEF FrameTo, Frame, IpAddress
<1>2. \A dst \in Mac, srcIp, dstIp \in Ip, data \in Data \cup {NoData} :
        IpFrame(dst, srcIp, dstIp, data) \in Frame
  BY Addresses DEF IpFrame, Frame, IpAddress, Kind
<1>3. Nothing \in Frame
  BY <1>1 DEF Nothing, Kind
<1>4. QED
  BY <1>1, <1>2, <1>3

(* A cleared buffer is one of bytes, and its destination is no board.      *)
LEMMA ClearedBuffer ==
  /\ \A size \in Nat : UTIL_clear_payload(size) \in Buffer(size)
  /\ Get(UTIL_clear_payload(MAC_RECV_PAYLOAD_SIZE), MAC_ADDRESS_DEST_OFFSET,
         MAC_ADDRESS_LEN) \notin Mac \cup {broadcast_mac}
<1>1. \A size \in Nat : UTIL_clear_payload(size) \in Buffer(size)
  BY DEF UTIL_clear_payload, Buffer, Byte
<1> DEFINE b == UTIL_clear_payload(MAC_RECV_PAYLOAD_SIZE)
<1>2. \A i \in 0 .. L - 1 : b[MAC_INFO_OFFSET + i] = 0
  <2> SUFFICES ASSUME NEW i \in 0 .. L - 1 PROVE b[MAC_INFO_OFFSET + i] = 0
    OBVIOUS
  <2>1. MAC_INFO_OFFSET + i \in 0 .. MAC_RECV_PAYLOAD_SIZE - 1
    BY Offsets
  <2>2. QED
    BY <2>1 DEF UTIL_clear_payload
<1> HIDE DEF b
<1>3. Get(b, MAC_INFO_OFFSET, L) = [i \in 0 .. L - 1 |-> 0]
  BY <1>2 DEF Get
<1>4. QED
  BY <1>1, <1>3, Addresses, Offsets DEF b, L

(* The first state satisfies the invariant.                                *)
LEMMA InitIInv == Init => IInv
<1> SUFFICES ASSUME Init PROVE IInv
  OBVIOUS
<1>1. TypeOK
  BY ClearedBuffer, FrameTypes, Offsets DEF Init, TypeOK
<1>2. SendsAsMeant /\ ReadsAsMeant
  BY DEF Init, SendsAsMeant, ReadsAsMeant
<1>3. SilenceIsNoFrame
  BY ClearedBuffer DEF Init, SilenceIsNoFrame, Destination
<1>4. QED
  BY <1>1, <1>2, <1>3 DEF IInv

(* A step of the board that sends changes nothing at the one that listens. *)
LEMMA SendInv ==
  ASSUME IInv, UNCHANGED <<recvPayload, heard>>,
         sendPayload' \in Buffer(MAC_SEND_PAYLOAD_SIZE), SendsAsMeant',
         IP_sendPayload' \in Buffer(IP_SEND_PAYLOAD_SIZE), sent' \in Frame
  PROVE  IInv'
<1>1. TypeOK'
  BY DEF IInv, TypeOK
<1>2. ReadsAsMeant'
  BY DEF IInv, ReadsAsMeant, Destination, Source, MAC_is_ack,
         IP_is_request_msg, SrcIp, DstIp, DataAt
<1>3. SilenceIsNoFrame'
  BY DEF IInv, SilenceIsNoFrame, Destination
<1>4. QED
  BY <1>1, <1>2, <1>3 DEF IInv

(* The payload that IP_issue_ip and IP_send_data compose.                  *)
LEMMA PayloadType ==
  ASSUME NEW my_ip \in Ip, NEW dstIp \in Ip
  PROVE  /\ IP_add_header_to_send_payload(
              UTIL_clear_payload(IP_SEND_PAYLOAD_SIZE), my_ip, dstIp)
              \in Buffer(IP_SEND_PAYLOAD_SIZE)
         /\ \A data \in Data :
              IP_add_data_to_send_payload(
                IP_add_header_to_send_payload(
                  UTIL_clear_payload(IP_SEND_PAYLOAD_SIZE), my_ip, dstIp),
                data, Size(data)) \in Buffer(IP_SEND_PAYLOAD_SIZE)
<1> DEFINE p == IP_add_header_to_send_payload(
                  UTIL_clear_payload(IP_SEND_PAYLOAD_SIZE), my_ip, dstIp)
<1>1. p = [i \in DOMAIN p |-> p[i]]
  BY PutIsFunction DEF IP_add_header_to_send_payload
<1>2. IpBytes(p, my_ip, dstIp, NoData, 0)
  BY HeaderBytes
<1>3. p \in Buffer(IP_SEND_PAYLOAD_SIZE)
  <2> HIDE DEF p
  <2>1. \A i \in 0 .. 0 - 1 : NoData[i] \in Byte
    OBVIOUS
  <2>2. QED
    BY <1>1, <1>2, <2>1, IpBytesType
<1>4. ASSUME NEW data \in Data
      PROVE  IP_add_data_to_send_payload(p, data, Size(data))
               \in Buffer(IP_SEND_PAYLOAD_SIZE)
  <2> DEFINE q == IP_add_data_to_send_payload(p, data, Size(data))
  <2>1. q = [i \in DOMAIN q |-> q[i]]
    BY PutIsFunction DEF IP_add_data_to_send_payload
  <2>2. Size(data) \in Nat /\ \A i \in 0 .. Size(data) - 1 : data[i] \in Byte
    BY SizeOfData, Offsets
  <2>3. IpBytes(q, my_ip, dstIp, data, Size(data))
    BY <2>2, DataBytes
  <2> HIDE DEF q
  <2>4. q \in Buffer(IP_SEND_PAYLOAD_SIZE)
    BY <2>1, <2>2, <2>3, IpBytesType
  <2>5. QED
    BY <2>4 DEF q
<1>5. QED
  BY <1>3, <1>4

(* What is received is read as the frame in sendPayload, shifted by the    *)
(* bytes of the radio.                                                     *)
LEMMA ReceivesInv == IInv /\ Receives => IInv'
<1> SUFFICES ASSUME IInv, Receives PROVE IInv'
  OBVIOUS
<1>0. /\ UNCHANGED <<sendPayload, IP_sendPayload, sent>>
      /\ TypeOK /\ SendsAsMeant
  BY DEF Receives, IInv
<1>1. SendsAsMeant'
  BY <1>0 DEF SendsAsMeant, Encodes
<1>2. CASE recvPayload' = UTIL_clear_payload(MAC_RECV_PAYLOAD_SIZE)
           /\ heard' = Nothing
  <2>1. TypeOK'
    BY <1>0, <1>2, ClearedBuffer, FrameTypes, Offsets DEF TypeOK
  <2>2. ReadsAsMeant'
    BY <1>2 DEF ReadsAsMeant
  <2>3. SilenceIsNoFrame'
    BY <1>2, ClearedBuffer DEF SilenceIsNoFrame, Destination
  <2>4. QED
    BY <1>1, <2>1, <2>2, <2>3 DEF IInv
<1>3. CASE sent # Nothing /\ heard' = sent
           /\ \E info \in InfoBytes :
                recvPayload' = [i \in 0 .. MAC_RECV_PAYLOAD_SIZE - 1 |->
                  IF i < MAC_INFO_OFFSET THEN info
                  ELSE IF i - MAC_INFO_OFFSET < MAC_SEND_PAYLOAD_SIZE
                       THEN sendPayload[i - MAC_INFO_OFFSET] ELSE 0]
  <2>1. PICK info \in InfoBytes :
          recvPayload' = [i \in 0 .. MAC_RECV_PAYLOAD_SIZE - 1 |->
            IF i < MAC_INFO_OFFSET THEN info
            ELSE IF i - MAC_INFO_OFFSET < MAC_SEND_PAYLOAD_SIZE
                 THEN sendPayload[i - MAC_INFO_OFFSET] ELSE 0]
    BY <1>3
  <2>2. \A i \in 0 .. MAC_SEND_PAYLOAD_SIZE - 1 : sendPayload[i] \in Byte
    BY <1>0 DEF TypeOK, Buffer
  <2>3. recvPayload' \in Buffer(MAC_RECV_PAYLOAD_SIZE)
    <3> SUFFICES ASSUME NEW i \in 0 .. MAC_RECV_PAYLOAD_SIZE - 1
                 PROVE  (IF i < MAC_INFO_OFFSET THEN info
                         ELSE IF i - MAC_INFO_OFFSET < MAC_SEND_PAYLOAD_SIZE
                              THEN sendPayload[i - MAC_INFO_OFFSET] ELSE 0)
                           \in Byte
      BY <2>1 DEF Buffer
    <3>1. CASE i < MAC_INFO_OFFSET
      BY <3>1, Addresses
    <3>2. CASE ~(i < MAC_INFO_OFFSET)
               /\ i - MAC_INFO_OFFSET < MAC_SEND_PAYLOAD_SIZE
      <4>1. i - MAC_INFO_OFFSET \in 0 .. MAC_SEND_PAYLOAD_SIZE - 1
        BY <3>2, Offsets
      <4>2. QED
        BY <2>2, <3>2, <4>1
    <3>3. CASE ~(i < MAC_INFO_OFFSET)
               /\ ~(i - MAC_INFO_OFFSET < MAC_SEND_PAYLOAD_SIZE)
      BY <3>3 DEF Byte
    <3>4. QED
      BY <3>1, <3>2, <3>3
  <2>4. ASSUME NEW i \in Nat, i < MAC_SEND_PAYLOAD_SIZE
        PROVE  recvPayload'[MAC_INFO_OFFSET + i] = sendPayload[i]
    <3>1. /\ MAC_INFO_OFFSET + i \in 0 .. MAC_RECV_PAYLOAD_SIZE - 1
          /\ ~(MAC_INFO_OFFSET + i < MAC_INFO_OFFSET)
          /\ (MAC_INFO_OFFSET + i) - MAC_INFO_OFFSET = i
      BY <2>4, Offsets
    <3>2. QED
      BY <2>1, <2>4, <3>1
  <2>5. TypeOK'
    BY <1>0, <1>3, <2>3 DEF TypeOK
  <2>6. SilenceIsNoFrame'
    BY <1>3 DEF SilenceIsNoFrame
  <2>7. Encodes(sent.dst, sent.src, sent.kind, sent.srcIp, sent.dstIp,
                sent.data)
    BY <1>0, <1>3 DEF SendsAsMeant
  <2>8. Destination' = sent.dst /\ Source' = sent.src
    <3>1. \A i \in 0 .. L - 1 :
            /\ i \in Nat /\ i < MAC_SEND_PAYLOAD_SIZE /\ 0 + i = i
            /\ L + i \in Nat /\ L + i < MAC_SEND_PAYLOAD_SIZE
            /\ (MAC_INFO_OFFSET + L) + i = MAC_INFO_OFFSET + (L + i)
      BY Offsets
    <3>2. \A i \in 0 .. L - 1 :
            /\ recvPayload'[MAC_INFO_OFFSET + i] = sendPayload[0 + i]
            /\ recvPayload'[(MAC_INFO_OFFSET + L) + i] = sendPayload[L + i]
      BY <2>4, <3>1
    <3>3. /\ Destination' = Get(sendPayload, 0, L)
          /\ Source' = Get(sendPayload, L, L)
      BY <3>2, Offsets DEF Destination, Source, Get, L
    <3>4. QED
      BY <2>7, <3>3 DEF Encodes, L
  <2>9. ASSUME NEW i \in Nat, Body + i < MAC_SEND_PAYLOAD_SIZE
        PROVE  recvPayload'[MAC_HEADER_OFFSET + i] = sendPayload[Body + i]
    <3>1. Body + i \in Nat
          /\ MAC_HEADER_OFFSET + i = MAC_INFO_OFFSET + (Body + i)
      BY Offsets
    <3>2. QED
      BY <2>4, <2>9, <3>1
  <2>10. /\ MAC_is_ack' <=> sent.kind = "ack"
         /\ IP_is_request_msg' <=> sent.kind = "request"
    <3>1. \A i \in 0 .. 7 : i \in Nat /\ Body + i < MAC_SEND_PAYLOAD_SIZE
      BY Offsets
    <3>2. \A i \in 0 .. 7 :
            recvPayload'[MAC_HEADER_OFFSET + i] = sendPayload[Body + i]
      BY <2>9, <3>1
    <3>3. MAC_is_ack' <=> Holds(sendPayload, Body, ack)
      BY <3>2, Strings DEF MAC_is_ack, Holds
    <3>4. IP_is_request_msg' <=> Holds(sendPayload, Body, requestString)
      BY <3>2, Strings DEF IP_is_request_msg, Holds
    <3>5. QED
      BY <2>7, <3>3, <3>4 DEF Encodes, Body
  <2>11. ASSUME sent.kind = "ip"
         PROVE  /\ SrcIp' = sent.srcIp /\ DstIp' = sent.dstIp
                /\ \A i \in Rest : DataAt(i)' =
                     IF i \in DOMAIN sent.data THEN sent.data[i] ELSE 0
    <3>1. \A i \in 0 .. IP_ADDRESS_LEN - 1 :
            /\ IP_ADDRESS_SRC_OFFSET + i \in Nat
            /\ Body + (IP_ADDRESS_SRC_OFFSET + i) < MAC_SEND_PAYLOAD_SIZE
            /\ IP_ADDRESS_DST_OFFSET + i \in Nat
            /\ Body + (IP_ADDRESS_DST_OFFSET + i) < MAC_SEND_PAYLOAD_SIZE
      BY Offsets
    <3>2. \A i \in Rest :
            /\ IP_ADDRESS_HEADER_OFFSET + i \in Nat
            /\ Body + (IP_ADDRESS_HEADER_OFFSET + i) < MAC_SEND_PAYLOAD_SIZE
      BY Offsets DEF Rest
    <3>3. \A at, i \in Nat :
            /\ (MAC_HEADER_OFFSET + at) + i = MAC_HEADER_OFFSET + (at + i)
            /\ (Body + at) + i = Body + (at + i)
      BY Offsets
    <3>4. \A i \in 0 .. IP_ADDRESS_LEN - 1 :
            /\ recvPayload'[(MAC_HEADER_OFFSET + IP_ADDRESS_SRC_OFFSET) + i]
                 = sendPayload[(Body + IP_ADDRESS_SRC_OFFSET) + i]
            /\ recvPayload'[(MAC_HEADER_OFFSET + IP_ADDRESS_DST_OFFSET) + i]
                 = sendPayload[(Body + IP_ADDRESS_DST_OFFSET) + i]
      <4> SUFFICES ASSUME NEW i \in 0 .. IP_ADDRESS_LEN - 1
                   PROVE  /\ recvPayload'[(MAC_HEADER_OFFSET
                                            + IP_ADDRESS_SRC_OFFSET) + i]
                               = sendPayload[(Body + IP_ADDRESS_SRC_OFFSET) + i]
                          /\ recvPayload'[(MAC_HEADER_OFFSET
                                            + IP_ADDRESS_DST_OFFSET) + i]
                               = sendPayload[(Body + IP_ADDRESS_DST_OFFSET) + i]
        OBVIOUS
      <4>1. i \in Nat /\ IP_ADDRESS_SRC_OFFSET \in Nat
            /\ IP_ADDRESS_DST_OFFSET \in Nat
        BY Offsets
      <4>2. recvPayload'[MAC_HEADER_OFFSET + (IP_ADDRESS_SRC_OFFSET + i)]
              = sendPayload[Body + (IP_ADDRESS_SRC_OFFSET + i)]
        BY <2>9, <3>1
      <4>3. recvPayload'[MAC_HEADER_OFFSET + (IP_ADDRESS_DST_OFFSET + i)]
              = sendPayload[Body + (IP_ADDRESS_DST_OFFSET + i)]
        BY <2>9, <3>1
      <4>4. QED
        BY <3>3, <4>1, <4>2, <4>3
    <3>5. SrcIp' = Get(sendPayload, Body + IP_ADDRESS_SRC_OFFSET, IP_ADDRESS_LEN)
          /\ DstIp'
               = Get(sendPayload, Body + IP_ADDRESS_DST_OFFSET, IP_ADDRESS_LEN)
      BY <3>4 DEF SrcIp, DstIp, Get
    <3>6. \A i \in Rest :
            DataAt(i)' = sendPayload[(Body + IP_ADDRESS_HEADER_OFFSET) + i]
      <4> SUFFICES ASSUME NEW i \in Rest
                   PROVE  recvPayload'[(MAC_HEADER_OFFSET
                                         + IP_ADDRESS_HEADER_OFFSET) + i]
                            = sendPayload[(Body + IP_ADDRESS_HEADER_OFFSET) + i]
        BY DEF DataAt
      <4>1. i \in Nat /\ IP_ADDRESS_HEADER_OFFSET \in Nat
        BY Offsets DEF Rest
      <4>2. QED
        BY <2>9, <3>2, <3>3, <4>1
    <3>7. QED
      BY <2>7, <2>11, <3>5, <3>6 DEF Encodes, Body, Rest
  <2>12. ReadsAsMeant'
    BY <1>3, <2>8, <2>10, <2>11 DEF ReadsAsMeant, Rest
  <2>13. QED
    BY <1>1, <2>5, <2>6, <2>12 DEF IInv
<1>4. QED
  BY <1>2, <1>3 DEF Receives

(* Every step keeps the invariant, ...                                     *)
LEMMA NextIInv == IInv /\ [Next]_vars => IInv'
<1> SUFFICES ASSUME IInv, [Next]_vars PROVE IInv'
  OBVIOUS
<1>0. IP_sendPayload \in Buffer(IP_SEND_PAYLOAD_SIZE)
  BY DEF IInv, TypeOK
<1>1. ASSUME NEW dst \in Mac, MAC_send_ack(dst) PROVE IInv'
  <2>1. sent' \in Frame
    BY <1>1, FrameTypes DEF MAC_send_ack, Kind
  <2>2. QED
    BY <1>0, <1>1, <2>1, AckEncodes, SendInv DEF MAC_send_ack
<1>2. CASE IP_request_ip
  <2>1. sent' \in Frame
    BY <1>2, FrameTypes DEF IP_request_ip, Kind
  <2>2. QED
    BY <1>0, <1>2, <2>1, RequestEncodes, SendInv DEF IP_request_ip
<1>3. ASSUME NEW my_ip \in Ip, NEW ip \in Ip, NEW dst \in Mac,
             IP_issue_ip(my_ip, dst, ip)
      PROVE  IInv'
  <2> DEFINE p == IP_add_header_to_send_payload(
                    UTIL_clear_payload(IP_SEND_PAYLOAD_SIZE), my_ip, ip)
  <2>1. /\ IP_sendPayload' = p /\ sent' = IpFrame(dst, my_ip, ip, NoData)
        /\ sendPayload' = Composed(dst, p, IP_SEND_PAYLOAD_SIZE)
        /\ UNCHANGED <<recvPayload, heard>>
    BY <1>3 DEF IP_issue_ip
  <2>2. p \in Buffer(IP_SEND_PAYLOAD_SIZE) /\ IpBytes(p, my_ip, ip, NoData, 0)
    BY PayloadType, HeaderBytes
  <2>3. 0 \in Nat /\ DOMAIN NoData = 0 .. 0 - 1
        /\ \A i \in DOMAIN NoData : NoData[i] \in Byte
    BY DEF NoData
  <2>4. sent' \in Frame
    BY <2>1, FrameTypes
  <2> HIDE DEF p
  <2>5. sendPayload' \in Buffer(MAC_SEND_PAYLOAD_SIZE) /\ SendsAsMeant'
    BY <2>1, <2>2, <2>3, IpEncodes
  <2>6. QED
    BY <2>1, <2>2, <2>4, <2>5, SendInv
<1>4. ASSUME NEW my_ip \in Ip, NEW ip \in Ip, NEW dst \in Mac,
             NEW data \in Data, IP_send_data(my_ip, dst, ip, data)
      PROVE  IInv'
  <2> DEFINE p == IP_add_data_to_send_payload(
                    IP_add_header_to_send_payload(
                      UTIL_clear_payload(IP_SEND_PAYLOAD_SIZE), my_ip, ip),
                    data, Size(data))
  <2>1. /\ IP_sendPayload' = p /\ sent' = IpFrame(dst, my_ip, ip, data)
        /\ sendPayload' = Composed(dst, p, IP_SEND_PAYLOAD_SIZE)
        /\ UNCHANGED <<recvPayload, heard>>
    BY <1>4 DEF IP_send_data
  <2>2. Size(data) \in Nat /\ DOMAIN data = 0 .. Size(data) - 1
        /\ \A i \in DOMAIN data : data[i] \in Byte
    BY SizeOfData, Offsets
  <2>3. p \in Buffer(IP_SEND_PAYLOAD_SIZE)
        /\ IpBytes(p, my_ip, ip, data, Size(data))
    BY <2>2, PayloadType, DataBytes
  <2>4. sent' \in Frame
    BY <2>1, FrameTypes
  <2> HIDE DEF p
  <2>5. sendPayload' \in Buffer(MAC_SEND_PAYLOAD_SIZE) /\ SendsAsMeant'
    BY <2>1, <2>2, <2>3, IpEncodes
  <2>6. QED
    BY <2>1, <2>3, <2>4, <2>5, SendInv
<1>5. CASE UNCHANGED vars
  <2>1. TypeOK' /\ SendsAsMeant' /\ UNCHANGED <<recvPayload, heard>>
    BY <1>5 DEF IInv, TypeOK, SendsAsMeant, Encodes, vars
  <2>2. QED
    BY <2>1, SendInv DEF TypeOK
<1>6. QED
  BY <1>1, <1>2, <1>3, <1>4, <1>5, ReceivesInv DEF Next

(* ... so it holds, ...                                                    *)
THEOREM InvariantHolds == Spec => []IInv
<1>1. QED
  BY InitIInv, NextIInv, PTL DEF Spec

(* ... and with it the types of the buffers, ...                           *)
THEOREM TypeCorrect == Spec => []TypeOK
<1>1. IInv => TypeOK
  BY DEF IInv
<1>2. QED
  BY <1>1, InvariantHolds, PTL

(* ... the reading of every frame as it was meant: what the other modules  *)
(* assume of their frames, for all offsets, lengths, addresses and data,   *)
(* ...                                                                     *)
THEOREM FramesReadAsMeant == Spec => []ReadsAsMeant
<1>1. IInv => ReadsAsMeant
  BY DEF IInv
<1>2. QED
  BY <1>1, InvariantHolds, PTL

(* ... and that a receive without a frame yields none.                     *)
THEOREM SilenceReadsAsNothing == Spec => []SilenceIsNoFrame
<1>1. IInv => SilenceIsNoFrame
  BY DEF IInv
<1>2. QED
  BY <1>1, InvariantHolds, PTL
=============================================================================
