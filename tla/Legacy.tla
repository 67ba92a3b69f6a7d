------------------------------- MODULE Legacy -------------------------------
(***************************************************************************)
(* The packet code of main.c that came before mac.c and ip.c: boards that  *)
(* send with send1pac_with_sd and one board that listens with sd_listen.   *)
(* Nothing in this commit calls it.  The frame has an IP header and check  *)
(* bytes, which the frames of mac.c do not have.                           *)
(*                                                                         *)
(* acBuffer is a local that recv1pac_with_sd does not initialise: when     *)
(* nothing comes, parse reads what the stack holds, the frame that an      *)
(* earlier call left there or anything else.                               *)
(*                                                                         *)
(* sd_listen keeps the 64 bits of systime in ints, and takes the two ends  *)
(* of its time in two reads, between which the timer may interrupt.        *)
(***************************************************************************)
EXTENDS Integers

CONSTANTS
  Mac,            \* addresses of boards, without broadcast
  macAddressVal,  \* that of the board that listens
  IpHeader,       \* headers the callers pass
  LastByte,       \* last bytes of addresses
  Data,           \* data the callers pass
  Stack,          \* what the stack may hold where acBuffer comes to lie
  Timeout,        \* of sd_listen, in ms
  BUF_LEN,        \* 1500
  SHORT,          \* 2^15, the numbers from 0 on that a short holds
  INT,            \* 2^31, those that an int holds
  MaxTime         \* largest systime

key == 23

MAC_INFO_OFFSET == 8
MAC_ADDRESS_LEN == 6
IP_ADDRESS_LEN == 4
CRC_LEN == 2
IP_HEADER_LEN == 10
MAC_ADDRESS_DEST_OFFSET == MAC_INFO_OFFSET
MAC_ADDRESS_SRC_OFFSET == MAC_ADDRESS_DEST_OFFSET + MAC_ADDRESS_LEN
IP_HEADER_OFFSET == MAC_ADDRESS_SRC_OFFSET + MAC_ADDRESS_LEN
CRC_OFFSET == IP_HEADER_OFFSET + IP_HEADER_LEN

(* Of offsets.h: the one of main.c is a comment.                           *)
IP_ADDRESS_SRC_OFFSET == 12
IP_ADDRESS_DEST_OFFSET == IP_ADDRESS_SRC_OFFSET + IP_ADDRESS_LEN
HEADER_OFFSET == IP_ADDRESS_DEST_OFFSET + IP_ADDRESS_LEN

(* Where the sender puts them.                                             *)
IP_OFFSET_SENDER == 2 * MAC_ADDRESS_LEN + IP_HEADER_LEN + CRC_LEN
DATA_OFFSET_SENDER == IP_OFFSET_SENDER + 2 * IP_ADDRESS_LEN

Buffer == [0 .. BUF_LEN - 1 -> 0 .. 255]
Bytes(len, byte) == [i \in 0 .. len - 1 |-> byte]

broadcast == Bytes(MAC_ADDRESS_LEN, 255)
broadcast_IP == Bytes(IP_ADDRESS_LEN, 255)
myIp == Bytes(IP_ADDRESS_LEN, 0)    \* nothing writes it

assignIP(last8Bits) ==
  [i \in 0 .. IP_ADDRESS_LEN - 1 |->
     IF i < IP_ADDRESS_LEN - 1 THEN 10 ELSE last8Bits]

Ip == {assignIP(b) : b \in LastByte} \cup {broadcast_IP}

Frame == [src : Mac, dst : Mac \cup {broadcast}, head : IpHeader, dstIp : Ip,
          data : Data]
Nothing == [dst |-> "nothing"]

Size(data) == CHOOSE n \in 0 .. BUF_LEN : DOMAIN data = 0 .. n - 1

(* The assertion of send1pac_with_sd.  It leaves out the 12 bytes that the *)
(* sender puts before the data beside those of HEADER_OFFSET.              *)
Fits(data) == Size(data) + HEADER_OFFSET <= BUF_LEN

ASSUME LegacyAssumption ==
  /\ BUF_LEN \in Nat /\ MAC_INFO_OFFSET + DATA_OFFSET_SENDER < BUF_LEN
  /\ \A data \in Data : \E n \in 0 .. BUF_LEN :
       data \in [0 .. n - 1 -> 0 .. 255]
  /\ IpHeader \subseteq [0 .. IP_HEADER_LEN - 1 -> 0 .. 255]
  /\ LastByte \subseteq 0 .. 255
  /\ Mac \subseteq [0 .. MAC_ADDRESS_LEN - 1 -> 0 .. 255]
  /\ macAddressVal \in Mac /\ broadcast \notin Mac
  /\ Stack \subseteq Buffer
  /\ SHORT \in Nat \ {0} /\ INT \in Nat \ {0}
  /\ Timeout \in Nat /\ MaxTime \in Nat

VARIABLES
  air,       \* the frame the radio holds for this board, or Nothing
  acBuffer,
  heard,     \* the frame the last sl_Recv delivered, or Nothing
  closed,    \* there is no socket: not yet, or it has failed
  pc,        \* where sd_listen is
  ret,       \* what recv1pac_with_sd returned last
  systime, now, last

vars == <<air, acBuffer, heard, closed, pc, ret, systime, now, last>>

LegacyTypeOK ==
  /\ air \in Frame \cup {Nothing} /\ heard \in Frame \cup {Nothing}
  /\ acBuffer \in Buffer
  /\ closed \in BOOLEAN
  /\ pc \in {"idle", "listen", "recv", "test"}
  /\ ret \in {"ME", "BROADCAST", "NONE", "error"}
  /\ systime \in 0 .. MaxTime
  /\ now \in -INT .. INT - 1 /\ last \in -INT .. INT - 1
-----------------------------------------------------------------------------
(* The loops that copy to a buffer and out of one.  Data that Fits allows  *)
(* may run past the end of s_data, over what the stack holds there: those  *)
(* bytes are no part of the frame.                                         *)
Put(buffer, at, bytes) ==
  [i \in DOMAIN buffer |->
     IF i - at \in DOMAIN bytes THEN bytes[i - at] ELSE buffer[i]]

Get(at, len) == [i \in 0 .. len - 1 |-> acBuffer[at + i]]

(* The sum of the first n bytes.                                           *)
Sum(bytes, n) ==
  LET sum[i \in 0 .. n] ==
        IF i = 0 THEN 0 ELSE sum[i - 1] + bytes[i - 1]
  IN sum[n]

(* What x becomes in a signed type with half numbers from 0 on.            *)
Wrapped(x, half) == ((x + half) % (2 * half)) - half

(* A short, cut at every addition or at the last: the same.                *)
Short(x) == Wrapped(x, SHORT)

(* A 64-bit number stored in an int.                                       *)
ToInt(x) == Wrapped(x, INT)

(* now - last: when an int does not hold it the program may go on with the *)
(* number itself (comparing now with last + timeout) or with what is left. *)
Elapsed == {now - last, ToInt(now - last)}

(* The remainder takes its sign from the dividend.                         *)
Remainder(x) == IF x >= 0 THEN x % key ELSE -((-x) % key)

TwoBytes(x) == [i \in 0 .. 1 |-> IF i = 0 THEN x % 256 ELSE (x \div 256) % 256]

CheckBytes(data) == TwoBytes(Remainder(Short(Sum(data, Size(data)))))

(* Mutant: the source comes first.                                         *)
SourceFirst(f) ==
  Put(Put(Put(Bytes(BUF_LEN, 0), 0, f.src), MAC_ADDRESS_LEN, f.dst),
      DATA_OFFSET_SENDER, f.data)

(* s_data of send1pac_with_sd.                                             *)
s_data(f) ==
  Put(Put(Put(Put(Put(Put(Put(Bytes(BUF_LEN, 0),
    0, f.dst), MAC_ADDRESS_LEN, f.src), 2 * MAC_ADDRESS_LEN, f.head),
    2 * MAC_ADDRESS_LEN + IP_HEADER_LEN, CheckBytes(f.data)),
    IP_OFFSET_SENDER, myIp), IP_OFFSET_SENDER + IP_ADDRESS_LEN, f.dstIp),
    DATA_OFFSET_SENDER, f.data)

(* What sl_Recv delivers: bytes of the radio, then the frame as far as the *)
(* buffer has room.                                                        *)
Delivered(f) ==
  LET sent == s_data(f)
  IN [i \in 0 .. BUF_LEN - 1 |->
        IF i < MAC_INFO_OFFSET THEN 0 ELSE sent[i - MAC_INFO_OFFSET]]

(* parse *)
dest == Get(MAC_ADDRESS_DEST_OFFSET, MAC_ADDRESS_LEN)
srcmac == Get(MAC_ADDRESS_SRC_OFFSET, MAC_ADDRESS_LEN)
ip_head == Get(IP_HEADER_OFFSET, IP_HEADER_LEN)
check_bytes == Get(CRC_OFFSET, CRC_LEN)
src_ip == Get(IP_ADDRESS_SRC_OFFSET, IP_ADDRESS_LEN)
dest_ip == Get(IP_ADDRESS_DEST_OFFSET, IP_ADDRESS_LEN)

isMyMac(mac) == mac = macAddressVal

Told ==
  IF isMyMac(dest) THEN "ME"
  ELSE IF dest = broadcast /\ dest_ip = broadcast_IP /\ src_ip = broadcast_IP
       THEN "BROADCAST" ELSE "NONE"
-----------------------------------------------------------------------------
Init ==
  /\ air = Nothing /\ heard = Nothing
  /\ acBuffer \in Stack
  /\ closed = TRUE
  /\ pc = "idle" /\ ret = "NONE"
  /\ systime = 0 /\ now = 0 /\ last = 0

(* With the timeout of sl_Recv set; or an error, and no socket.            *)
sd_setup ==
  /\ pc = "idle" /\ closed
  /\ closed' = FALSE
  /\ UNCHANGED <<air, acBuffer, heard, pc, ret, systime, now, last>>

send1pac_with_sd(f) ==
  /\ Fits(f.data)
  /\ air = Nothing /\ ~closed
  /\ f.src # macAddressVal
  /\ air' = f
  /\ UNCHANGED <<acBuffer, heard, closed, pc, ret, systime, now, last>>

Tick ==
  /\ systime < MaxTime
  /\ systime' = systime + 1
  /\ UNCHANGED <<air, acBuffer, heard, closed, pc, ret, now, last>>

(* Mutant: the address is judged before the radio has filled the buffer.   *)
JudgesBeforeReceiving ==
  /\ pc = "recv" /\ ~closed
  /\ \/ /\ air # Nothing
        /\ acBuffer' = Delivered(air)
     \/ /\ air = Nothing
        /\ acBuffer' \in Stack \cup {acBuffer}
  /\ heard' = air
  /\ air' = Nothing
  /\ ret' = Told
  /\ pc' = "test"
  /\ UNCHANGED <<closed, systime, now, last>>

(* recv1pac_with_sd after a frame, or after a time without one.            *)
recv1pac_with_sd ==
  /\ pc = "recv" /\ ~closed
  /\ \/ /\ air # Nothing
        /\ acBuffer' = Delivered(air)
     \/ /\ air = Nothing
        /\ acBuffer' \in Stack \cup {acBuffer}
  /\ heard' = air
  /\ air' = Nothing
  /\ ret' = Told'
  /\ pc' = "test"
  /\ UNCHANGED <<closed, systime, now, last>>

(* sl_Recv fails: the socket is closed and the error returned, LOOP_FOREVER *)
(* is never reached.                                                       *)
RecvFails ==
  /\ pc = "recv"
  /\ closed' = TRUE
  /\ heard' = Nothing
  /\ ret' = "error"
  /\ pc' = "test"
  /\ UNCHANGED <<air, acBuffer, systime, now, last>>

(* The first read of systime, and the second, which may be a later time.   *)
sd_listen ==
  /\ pc = "idle" /\ ~closed
  /\ now' = ToInt(systime)
  /\ pc' = "listen"
  /\ UNCHANGED <<air, acBuffer, heard, closed, ret, systime, last>>

ReadsLast ==
  /\ pc = "listen"
  /\ last' = ToInt(systime)
  /\ pc' = "recv"
  /\ UNCHANGED <<air, acBuffer, heard, closed, ret, systime, now>>

(* Mutant: now is not read again.                                          *)
ListensOnWithoutTime ==
  /\ pc = "test"
  /\ ret \notin {"ME", "BROADCAST"} /\ \E e \in Elapsed : e < Timeout
  /\ pc' = "recv"
  /\ UNCHANGED <<air, acBuffer, heard, closed, ret, systime, now, last>>

ListensOn ==
  /\ pc = "test"
  /\ ret \notin {"ME", "BROADCAST"} /\ \E e \in Elapsed : e < Timeout
  /\ now' = ToInt(systime)
  /\ pc' = "recv"
  /\ UNCHANGED <<air, acBuffer, heard, closed, ret, systime, last>>

Returns ==
  /\ pc = "test"
  /\ ret \in {"ME", "BROADCAST"} \/ \E e \in Elapsed : e >= Timeout
  /\ pc' = "idle"
  /\ UNCHANGED <<air, acBuffer, heard, closed, ret, systime, now, last>>

Next ==
  \/ \E f \in Frame : send1pac_with_sd(f)
  \/ Tick \/ sd_setup \/ sd_listen \/ ReadsLast \/ recv1pac_with_sd \/ RecvFails
  \/ ListensOn \/ Returns

(* The timer interrupts again and again and the thread runs on.            *)
Spec ==
  /\ Init /\ [][Next]_vars
  /\ WF_vars(Tick) /\ WF_vars(ReadsLast)
  /\ WF_vars(recv1pac_with_sd \/ RecvFails) /\ WF_vars(ListensOn \/ Returns)
-----------------------------------------------------------------------------
(* A frame is taken for one to this board exactly when it is, and with the *)
(* address, header and check bytes of its sender, whatever lay in the      *)
(* buffer before.                                                          *)
MeIsMine ==
  heard # Nothing /\ ret # "error" =>
    /\ ret = "ME" <=> heard.dst = macAddressVal
    /\ srcmac = heard.src /\ ip_head = heard.head
    /\ check_bytes = CheckBytes(heard.data)

(* sd_listen returns, also when frames to others never stop or the socket  *)
(* is closed: when its time does not pass from the largest int to the      *)
(* smallest, after which now - last may stay below any timeout.            *)
ListenEnds ==
  /\ pc = "recv"
  /\ last <= ToInt(systime) /\ systime + Timeout <= MaxTime
  /\ MaxTime < INT \/ systime >= INT
  ~> pc = "idle"

(* The inductive invariant: what is judged is the whole of the frame that  *)
(* came, and nothing of what lay in acBuffer before.                       *)
DeliveredIntact ==
  heard # Nothing /\ ret # "error" =>
    /\ heard \in Frame
    /\ acBuffer = Delivered(heard)
    /\ ret = Told

LegacyInv == LegacyTypeOK /\ DeliveredIntact
=============================================================================
