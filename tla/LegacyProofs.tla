---------------------------- MODULE LegacyProofs ----------------------------
(***************************************************************************)
(* Proofs about Legacy: what its sums, buffers and frames are, and that a  *)
(* frame is taken for one to this board exactly when it is.                *)
(***************************************************************************)
EXTENDS Legacy, WellFoundedInduction, TLAPS

(* Induction over the natural numbers, as a fact about a set of them.      *)
LEMMA InductiveSet ==
  ASSUME NEW S \in SUBSET Nat, 0 \in S, \A n \in S : n + 1 \in S
  PROVE  S = Nat
<1> SUFFICES ASSUME Nat \ S # {}
             PROVE  FALSE
  OBVIOUS
<1>1. PICK n \in Nat \ S : \A m \in Nat \ S : ~ (m < n)
  <2>1. IsWellFoundedOn(OpToRel(<, Nat), Nat)
    BY NatLessThanWellFounded
  <2>2. PICK n \in Nat \ S : \A m \in Nat \ S : <<m, n>> \notin OpToRel(<, Nat)
    <3> HIDE DEF OpToRel
    <3>1. QED
      BY <2>1, WFMin
  <2>3. QED
    BY <2>2 DEF OpToRel
<1>2. n # 0 /\ n - 1 \in Nat
  BY <1>1
<1>3. n - 1 \in S
  BY <1>1, <1>2
<1>4. (n - 1) + 1 = n
  BY <1>1
<1>5. QED
  BY <1>1, <1>3, <1>4

(* The sums of the first bytes.                                            *)
Adds(g, bytes, n) ==
  g = [i \in 0 .. n |-> IF i = 0 THEN 0 ELSE g[i - 1] + bytes[i - 1]]

LEMMA SumIsChosen ==
  ASSUME NEW bytes, NEW n
  PROVE  Sum(bytes, n) = (CHOOSE g : Adds(g, bytes, n))[n]
BY DEF Sum, Adds

LEMMA SumsExist ==
  ASSUME NEW bytes, NEW n \in Nat, \A i \in 0 .. n - 1 : bytes[i] \in Nat
  PROVE  \E g \in [0 .. n -> Nat] : Adds(g, bytes, n)
<1> DEFINE S == {m \in Nat : m <= n => \E g \in [0 .. m -> Nat] : Adds(g, bytes, m)}
<1>1. 0 \in S
  <2> DEFINE z == [i \in 0 .. 0 |-> 0]
  <2>1. z \in [0 .. 0 -> Nat] /\ Adds(z, bytes, 0)
    BY DEF Adds
  <2>2. QED
    BY <2>1
<1>2. ASSUME NEW m \in S PROVE m + 1 \in S
  <2> SUFFICES ASSUME m + 1 <= n
               PROVE  \E g \in [0 .. m + 1 -> Nat] : Adds(g, bytes, m + 1)
    OBVIOUS
  <2>1. m \in Nat /\ m <= n /\ bytes[m] \in Nat
    OBVIOUS
  <2>2. PICK g \in [0 .. m -> Nat] : Adds(g, bytes, m)
    BY <2>1
  <2> DEFINE h == [i \in 0 .. m + 1 |-> IF i = m + 1 THEN g[m] + bytes[m] ELSE g[i]]
  <2>3. h \in [0 .. m + 1 -> Nat]
    BY <2>1
  <2>4. ASSUME NEW i \in 0 .. m + 1
        PROVE  h[i] = IF i = 0 THEN 0 ELSE h[i - 1] + bytes[i - 1]
    <3>1. CASE i = m + 1
      BY <2>1, <3>1
    <3>2. CASE i \in 0 .. m
      BY <2>1, <2>2, <3>2 DEF Adds
    <3>3. QED
      BY <2>1, <3>1, <3>2
  <2>5. h = [i \in 0 .. m + 1 |-> IF i = 0 THEN 0 ELSE h[i - 1] + bytes[i - 1]]
    <3> DEFINE k == [i \in 0 .. m + 1 |-> IF i = 0 THEN 0 ELSE h[i - 1] + bytes[i - 1]]
    <3>1. \A i \in 0 .. m + 1 : h[i] = k[i]
      BY <2>4
    <3>2. h = [i \in 0 .. m + 1 |-> h[i]]
      OBVIOUS
    <3> HIDE DEF h
    <3>3. QED
      BY <3>1, <3>2
  <2>6. QED
    BY <2>3, <2>5 DEF Adds
<1>3. S = Nat
  <2>1. S \in SUBSET Nat
    OBVIOUS
  <2> HIDE DEF S
  <2>2. QED
    BY <1>1, <1>2, <2>1, InductiveSet
<1>4. n \in S
  <2> HIDE DEF S
  <2>1. QED
    BY <1>3
<1>5. QED
  BY <1>4

(* They depend on the first bytes only.                                    *)
LEMMA SumsAgree ==
  ASSUME NEW n \in Nat, NEW b, NEW c, \A i \in 0 .. n - 1 : b[i] = c[i],
         NEW g, Adds(g, b, n), NEW h, Adds(h, c, n)
  PROVE  \A i \in 0 .. n : g[i] = h[i]
<1> DEFINE S == {m \in Nat : m <= n => g[m] = h[m]}
<1>1. ASSUME NEW i \in 0 .. n
      PROVE  /\ g[i] = IF i = 0 THEN 0 ELSE g[i - 1] + b[i - 1]
             /\ h[i] = IF i = 0 THEN 0 ELSE h[i - 1] + c[i - 1]
  BY <1>1, Zenon DEF Adds
<1>2. 0 \in S
  BY <1>1
<1>3. ASSUME NEW m \in S PROVE m + 1 \in S
  <2> SUFFICES ASSUME m + 1 <= n PROVE g[m + 1] = h[m + 1]
    OBVIOUS
  <2>1. m \in Nat /\ m + 1 \in 0 .. n /\ m + 1 # 0 /\ (m + 1) - 1 = m
        /\ m \in 0 .. n - 1 /\ m <= n
    OBVIOUS
  <2>2. g[m] = h[m] /\ b[m] = c[m]
    BY <2>1
  <2>3. g[m + 1] = g[m] + b[m] /\ h[m + 1] = h[m] + c[m]
    BY <1>1, <2>1
  <2>4. QED
    BY <2>2, <2>3
<1>4. S = Nat
  <2>1. S \in SUBSET Nat
    OBVIOUS
  <2> HIDE DEF S
  <2>2. QED
    BY <1>2, <1>3, <2>1, InductiveSet
<1>5. QED
  BY <1>4

LEMMA SumType ==
  ASSUME NEW bytes, NEW n \in Nat, \A i \in 0 .. n - 1 : bytes[i] \in Nat
  PROVE  Sum(bytes, n) \in Nat
<1>1. PICK g \in [0 .. n -> Nat] : Adds(g, bytes, n)
  BY SumsExist
<1>2. Adds(CHOOSE h : Adds(h, bytes, n), bytes, n)
  BY <1>1
<1>3. (CHOOSE h : Adds(h, bytes, n))[n] = g[n]
  BY <1>1, <1>2, SumsAgree
<1>4. QED
  BY <1>1, <1>3, SumIsChosen
-----------------------------------------------------------------------------
(* ---- Offsets, data and check bytes. ---- *)

LEMMA Numbers ==
  /\ key = 23 /\ MAC_ADDRESS_LEN = 6 /\ IP_ADDRESS_LEN = 4
  /\ IP_HEADER_LEN = 10 /\ CRC_LEN = 2 /\ MAC_INFO_OFFSET = 8
  /\ MAC_ADDRESS_DEST_OFFSET = 8 /\ MAC_ADDRESS_SRC_OFFSET = 14
  /\ IP_HEADER_OFFSET = 20 /\ CRC_OFFSET = 30
  /\ IP_OFFSET_SENDER = 24 /\ DATA_OFFSET_SENDER = 32
  /\ BUF_LEN \in Nat /\ 40 < BUF_LEN
  /\ SHORT \in Nat \ {0} /\ INT \in Nat \ {0}
BY LegacyAssumption
   DEF key, MAC_ADDRESS_LEN, IP_ADDRESS_LEN, IP_HEADER_LEN, CRC_LEN,
       MAC_INFO_OFFSET, MAC_ADDRESS_DEST_OFFSET, MAC_ADDRESS_SRC_OFFSET,
       IP_HEADER_OFFSET, CRC_OFFSET, IP_OFFSET_SENDER, DATA_OFFSET_SENDER

LEMMA SizeOfData ==
  ASSUME NEW data \in Data
  PROVE  /\ Size(data) \in 0 .. BUF_LEN
         /\ data \in [0 .. Size(data) - 1 -> 0 .. 255]
<1>1. PICK n \in 0 .. BUF_LEN : data \in [0 .. n - 1 -> 0 .. 255]
  BY LegacyAssumption, Numbers
<1>2. n \in 0 .. BUF_LEN /\ DOMAIN data = 0 .. n - 1
  BY <1>1, Numbers
<1>3. Size(data) \in 0 .. BUF_LEN /\ DOMAIN data = 0 .. Size(data) - 1
  BY <1>2 DEF Size
<1>4. Size(data) = n
  <2> DEFINE m == Size(data)
  <2>1. m \in Nat /\ n \in Nat /\ 0 .. m - 1 = 0 .. n - 1
    BY <1>1, <1>2, <1>3, Numbers
  <2> HIDE DEF m
  <2>2. CASE m < n
    <3>1. m \in 0 .. n - 1 /\ m \notin 0 .. m - 1
      BY <2>1, <2>2
    <3>2. QED
      BY <2>1, <3>1
  <2>3. CASE n < m
    <3>1. n \in 0 .. m - 1 /\ n \notin 0 .. n - 1
      BY <2>1, <2>3
    <3>2. QED
      BY <2>1, <3>1
  <2>4. m = n
    BY <2>1, <2>2, <2>3
  <2>5. QED
    BY <2>4 DEF m
<1>5. QED
  BY <1>1, <1>4

LEMMA SumOfData ==
  ASSUME NEW data \in Data
  PROVE  Sum(data, Size(data)) \in Nat
<1>1. Size(data) \in Nat /\ \A i \in 0 .. Size(data) - 1 : data[i] \in Nat
  <2> DEFINE n == Size(data)
  <2>1. n \in 0 .. BUF_LEN /\ data \in [0 .. n - 1 -> 0 .. 255]
    BY SizeOfData
  <2> HIDE DEF n
  <2>2. n \in Nat
    BY <2>1, Numbers
  <2>3. \A i \in 0 .. n - 1 : data[i] \in 0 .. 255
    BY <2>1
  <2>4. n \in Nat /\ \A i \in 0 .. n - 1 : data[i] \in Nat
    BY <2>2, <2>3
  <2>5. QED
    BY <2>4 DEF n
<1>2. QED
  BY <1>1, SumType

LEMMA RemainderType == ASSUME NEW x \in Int PROVE Remainder(x) \in Int
BY Numbers DEF Remainder

(* What a type holds.                                                      *)
LEMMA WrappedType ==
  ASSUME NEW x \in Int, NEW half \in Nat \ {0}
  PROVE  Wrapped(x, half) \in -half .. half - 1
<1> DEFINE k == 2 * half
           y == x + half
<1>1. k \in Nat \ {0} /\ y \in Int
  OBVIOUS
<1>2. y % k \in 0 .. k - 1
  <2> HIDE DEF k, y
  <2>1. QED
    BY <1>1
<1> DEFINE z == y % k
<1>3. z \in 0 .. 2 * half - 1
  BY <1>2
<1> HIDE DEF z
<1>4. z - half \in -half .. half - 1
  BY <1>3
<1>5. QED
  BY <1>4 DEF Wrapped, z

LEMMA ShortType == ASSUME NEW x \in Int PROVE Short(x) \in Int
BY WrappedType, Numbers DEF Short

LEMMA ToIntType == ASSUME NEW x \in Int PROVE ToInt(x) \in -INT .. INT - 1
BY WrappedType, Numbers DEF ToInt

LEMMA TwoBytesType ==
  ASSUME NEW x \in Int
  PROVE  TwoBytes(x) \in [0 .. 1 -> 0 .. 255]
BY DEF TwoBytes

LEMMA CheckBytesType ==
  ASSUME NEW data \in Data
  PROVE  CheckBytes(data) \in [0 .. 1 -> 0 .. 255]
BY SumOfData, ShortType, RemainderType, TwoBytesType DEF CheckBytes
-----------------------------------------------------------------------------
(* ---- Buffers. ---- *)

LEMMA PutType ==
  ASSUME NEW buffer \in Buffer, NEW at, NEW bytes,
         \A i \in DOMAIN bytes : bytes[i] \in 0 .. 255
  PROVE  Put(buffer, at, bytes) \in Buffer
BY DEF Put, Buffer

(* Where bytes were put, and where they were not.                          *)
LEMMA PutAt ==
  ASSUME NEW buffer \in Buffer, NEW at, NEW bytes, NEW i \in 0 .. BUF_LEN - 1
  PROVE  Put(buffer, at, bytes)[i] =
           IF i - at \in DOMAIN bytes THEN bytes[i - at] ELSE buffer[i]
BY DEF Put, Buffer

(* The parts of a frame are bytes.                                         *)
LEMMA FrameHeads ==
  ASSUME NEW f \in Frame
  PROVE  /\ f.dst \in [0 .. 5 -> 0 .. 255] /\ f.src \in [0 .. 5 -> 0 .. 255]
         /\ f.head \in [0 .. 9 -> 0 .. 255]
         /\ myIp \in [0 .. 3 -> 0 .. 255] /\ f.dstIp \in [0 .. 3 -> 0 .. 255]
<1>1. /\ f.src \in Mac /\ f.dst \in Mac \cup {broadcast} /\ f.head \in IpHeader
      /\ f.dstIp \in Ip
  BY DEF Frame
<1>2. broadcast \in [0 .. 5 -> 0 .. 255]
  BY Numbers DEF broadcast, Bytes
<1>3. f.dst \in [0 .. 5 -> 0 .. 255] /\ f.src \in [0 .. 5 -> 0 .. 255]
  <2>1. Mac \subseteq [0 .. 6 - 1 -> 0 .. 255]
    BY LegacyAssumption, Numbers
  <2>2. 6 - 1 = 5
    OBVIOUS
  <2>3. Mac \subseteq [0 .. 5 -> 0 .. 255]
    BY <2>1, <2>2
  <2>4. QED
    BY <1>1, <1>2, <2>3
<1>4. f.head \in [0 .. 9 -> 0 .. 255]
  BY <1>1, LegacyAssumption, Numbers
<1>5. myIp \in [0 .. 3 -> 0 .. 255]
  BY Numbers DEF myIp, Bytes
<1>6. f.dstIp \in [0 .. 3 -> 0 .. 255]
  <2>1. broadcast_IP \in [0 .. 3 -> 0 .. 255]
    BY Numbers DEF broadcast_IP, Bytes
  <2>2. \A b \in LastByte : assignIP(b) \in [0 .. 3 -> 0 .. 255]
    BY LegacyAssumption, Numbers DEF assignIP
  <2>3. QED
    BY <1>1, <2>1, <2>2 DEF Ip
<1>7. QED
  BY <1>3, <1>4, <1>5, <1>6

LEMMA FrameData ==
  ASSUME NEW f \in Frame
  PROVE  /\ f.data \in Data
         /\ CheckBytes(f.data) \in [0 .. 1 -> 0 .. 255]
         /\ Size(f.data) \in Nat
         /\ f.data \in [0 .. Size(f.data) - 1 -> 0 .. 255]
<1>1. f.data \in Data
  BY DEF Frame
<1>2. Size(f.data) \in Nat
  BY <1>1, SizeOfData, Numbers
<1>3. f.data \in [0 .. Size(f.data) - 1 -> 0 .. 255]
  BY <1>1, SizeOfData
<1>4. QED
  BY <1>1, <1>2, <1>3, CheckBytesType

(* What is sent, byte by byte.                                             *)
LEMMA SentLayout ==
  ASSUME NEW f \in Frame
  PROVE  /\ s_data(f) \in Buffer
         /\ \A i \in 0 .. BUF_LEN - 1 :
              /\ i \in 0 .. 5 => s_data(f)[i] = f.dst[i]
              /\ i \in 6 .. 11 => s_data(f)[i] = f.src[i - 6]
              /\ i \in 12 .. 21 => s_data(f)[i] = f.head[i - 12]
              /\ i \in 22 .. 23 => s_data(f)[i] = CheckBytes(f.data)[i - 22]
<1> DEFINE n == Size(f.data)
           c == CheckBytes(f.data)
           b0 == Bytes(BUF_LEN, 0)
           b1 == Put(b0, 0, f.dst)
           b2 == Put(b1, 6, f.src)
           b3 == Put(b2, 12, f.head)
           b4 == Put(b3, 22, c)
           b5 == Put(b4, 24, myIp)
           b6 == Put(b5, 28, f.dstIp)
           b7 == Put(b6, 32, f.data)
<1>1. s_data(f) = b7
  BY Numbers DEF s_data
<1>2. n \in Nat
  BY FrameData
<1>3. /\ f.dst \in [0 .. 5 -> 0 .. 255] /\ f.src \in [0 .. 5 -> 0 .. 255]
      /\ f.head \in [0 .. 9 -> 0 .. 255] /\ c \in [0 .. 1 -> 0 .. 255]
      /\ myIp \in [0 .. 3 -> 0 .. 255] /\ f.dstIp \in [0 .. 3 -> 0 .. 255]
      /\ f.data \in [0 .. n - 1 -> 0 .. 255]
  <2>1. c \in [0 .. 1 -> 0 .. 255]
    BY FrameData
  <2>2. f.data \in [0 .. n - 1 -> 0 .. 255]
    BY FrameData
  <2> HIDE DEF c, n
  <2>3. QED
    BY <2>1, <2>2, FrameHeads
<1> HIDE DEF c, n
<1>4. /\ DOMAIN f.dst = 0 .. 5 /\ DOMAIN f.src = 0 .. 5
      /\ DOMAIN f.head = 0 .. 9 /\ DOMAIN c = 0 .. 1
      /\ DOMAIN myIp = 0 .. 3 /\ DOMAIN f.dstIp = 0 .. 3
      /\ DOMAIN f.data = 0 .. n - 1
  BY <1>3
<1>5. b0 \in Buffer /\ \A i \in 0 .. BUF_LEN - 1 : b0[i] = 0
  BY DEF Bytes, Buffer
<1> HIDE DEF b0
<1>6. /\ b1 \in Buffer
      /\ \A i \in 0 .. BUF_LEN - 1 :
           b1[i] = IF i - 0 \in DOMAIN f.dst THEN f.dst[i - 0] ELSE b0[i]
  <2>1. \A i \in DOMAIN f.dst : f.dst[i] \in 0 .. 255
    BY <1>3
  <2>2. QED
    BY <1>5, <2>1, PutType, PutAt
<1> HIDE DEF b1
<1>7. /\ b2 \in Buffer
      /\ \A i \in 0 .. BUF_LEN - 1 :
           b2[i] = IF i - 6 \in DOMAIN f.src THEN f.src[i - 6] ELSE b1[i]
  <2>1. \A i \in DOMAIN f.src : f.src[i] \in 0 .. 255
    BY <1>3
  <2>2. QED
    BY <1>6, <2>1, PutType, PutAt
<1> HIDE DEF b2
<1>8. /\ b3 \in Buffer
      /\ \A i \in 0 .. BUF_LEN - 1 :
           b3[i] = IF i - 12 \in DOMAIN f.head THEN f.head[i - 12] ELSE b2[i]
  <2>1. \A i \in DOMAIN f.head : f.head[i] \in 0 .. 255
    BY <1>3
  <2>2. QED
    BY <1>7, <2>1, PutType, PutAt
<1> HIDE DEF b3
<1>9. /\ b4 \in Buffer
      /\ \A i \in 0 .. BUF_LEN - 1 :
           b4[i] = IF i - 22 \in DOMAIN c THEN c[i - 22] ELSE b3[i]
  <2>1. \A i \in DOMAIN c : c[i] \in 0 .. 255
    BY <1>3
  <2>2. QED
    BY <1>8, <2>1, PutType, PutAt
<1> HIDE DEF b4
<1>10. /\ b5 \in Buffer
      /\ \A i \in 0 .. BUF_LEN - 1 :
           b5[i] = IF i - 24 \in DOMAIN myIp THEN myIp[i - 24] ELSE b4[i]
  <2>1. \A i \in DOMAIN myIp : myIp[i] \in 0 .. 255
    BY <1>3
  <2>2. QED
    BY <1>9, <2>1, PutType, PutAt
<1> HIDE DEF b5
<1>11. /\ b6 \in Buffer
      /\ \A i \in 0 .. BUF_LEN - 1 :
           b6[i] = IF i - 28 \in DOMAIN f.dstIp THEN f.dstIp[i - 28] ELSE b5[i]
  <2>1. \A i \in DOMAIN f.dstIp : f.dstIp[i] \in 0 .. 255
    BY <1>3
  <2>2. QED
    BY <1>10, <2>1, PutType, PutAt
<1> HIDE DEF b6
<1>12. /\ b7 \in Buffer
      /\ \A i \in 0 .. BUF_LEN - 1 :
           b7[i] = IF i - 32 \in DOMAIN f.data THEN f.data[i - 32] ELSE b6[i]
  <2>1. \A i \in DOMAIN f.data : f.data[i] \in 0 .. 255
    BY <1>3
  <2>2. QED
    BY <1>11, <2>1, PutType, PutAt
<1> HIDE DEF b7
<1>13. ASSUME NEW i \in 0 .. BUF_LEN - 1
      PROVE  /\ i \in 0 .. 5 => b7[i] = f.dst[i]
             /\ i \in 6 .. 11 => b7[i] = f.src[i - 6]
             /\ i \in 12 .. 21 => b7[i] = f.head[i - 12]
             /\ i \in 22 .. 23 => b7[i] = c[i - 22]
  BY <1>2, <1>4, <1>5, <1>6, <1>7, <1>8, <1>9, <1>10, <1>11, <1>12, Numbers
<1>14. QED
  BY <1>1, <1>12, <1>13 DEF c, n
-----------------------------------------------------------------------------
(* ---- The frame that came. ---- *)

LEMMA DeliveredLayout ==
  ASSUME NEW f \in Frame
  PROVE  /\ Delivered(f) \in Buffer
         /\ \A i \in 0 .. BUF_LEN - 1 :
              /\ i \in 8 .. 13 => Delivered(f)[i] = f.dst[i - 8]
              /\ i \in 14 .. 19 => Delivered(f)[i] = f.src[i - 14]
              /\ i \in 20 .. 29 => Delivered(f)[i] = f.head[i - 20]
              /\ i \in 30 .. 31 => Delivered(f)[i] = CheckBytes(f.data)[i - 30]
<1> DEFINE c == CheckBytes(f.data)
           b == s_data(f)
<1>1. /\ b \in Buffer
      /\ \A i \in 0 .. BUF_LEN - 1 :
           /\ i \in 0 .. 5 => b[i] = f.dst[i]
           /\ i \in 6 .. 11 => b[i] = f.src[i - 6]
           /\ i \in 12 .. 21 => b[i] = f.head[i - 12]
           /\ i \in 22 .. 23 => b[i] = c[i - 22]
  BY SentLayout
<1>2. Delivered(f) = [i \in 0 .. BUF_LEN - 1 |-> IF i < 8 THEN 0 ELSE b[i - 8]]
  BY Numbers DEF Delivered
<1> HIDE DEF c, b
<1>3. Delivered(f) \in Buffer
  <2>1. \A j \in 0 .. BUF_LEN - 1 : b[j] \in 0 .. 255
    BY <1>1 DEF Buffer
  <2>2. \A i \in 0 .. BUF_LEN - 1 : ~ (i < 8) => i - 8 \in 0 .. BUF_LEN - 1
    BY Numbers
  <2>3. \A i \in 0 .. BUF_LEN - 1 : (IF i < 8 THEN 0 ELSE b[i - 8]) \in 0 .. 255
    BY <2>1, <2>2
  <2>4. QED
    BY <1>2, <2>3 DEF Buffer
<1>4. ASSUME NEW i \in 0 .. BUF_LEN - 1, i >= 8
      PROVE  /\ Delivered(f)[i] = b[i - 8] /\ i - 8 \in 0 .. BUF_LEN - 1
             /\ (i - 8) - 6 = i - 14 /\ (i - 8) - 12 = i - 20
             /\ (i - 8) - 22 = i - 30
  BY <1>2, <1>4, Numbers
<1>5. ASSUME NEW i \in 0 .. BUF_LEN - 1
      PROVE  /\ i \in 8 .. 13 => Delivered(f)[i] = f.dst[i - 8]
             /\ i \in 14 .. 19 => Delivered(f)[i] = f.src[i - 14]
             /\ i \in 20 .. 29 => Delivered(f)[i] = f.head[i - 20]
             /\ i \in 30 .. 31 => Delivered(f)[i] = c[i - 30]
  <2>1. CASE i >= 8
    <3> DEFINE j == i - 8
    <3>1. /\ j \in 0 .. BUF_LEN - 1 /\ Delivered(f)[i] = b[j]
          /\ j - 6 = i - 14 /\ j - 12 = i - 20 /\ j - 22 = i - 30 /\ j = i - 8
      BY <1>4, <2>1
    <3>2. /\ i \in 8 .. 13 => j \in 0 .. 5
          /\ i \in 14 .. 19 => j \in 6 .. 11
          /\ i \in 20 .. 29 => j \in 12 .. 21
          /\ i \in 30 .. 31 => j \in 22 .. 23
      BY Numbers
    <3> HIDE DEF j
    <3>3. QED
      BY <1>1, <3>1, <3>2
  <2>2. CASE ~ (i >= 8)
    BY <2>2, Numbers
  <2>3. QED
    BY <2>1, <2>2
<1>6. QED
  BY <1>3, <1>5 DEF c

LEMMA InitLegacyInv == Init => LegacyInv
BY LegacyAssumption DEF Init, LegacyInv, LegacyTypeOK, DeliveredIntact

LEMMA NextLegacyInv == LegacyInv /\ [Next]_vars => LegacyInv'
<1> SUFFICES ASSUME LegacyInv, [Next]_vars
             PROVE  LegacyInv'
  OBVIOUS
<1> USE DEF LegacyInv, LegacyTypeOK
<1>1. MaxTime \in Nat /\ systime \in 0 .. MaxTime /\ systime \in Nat
      /\ ToInt(systime) \in -INT .. INT - 1
  <2>1. MaxTime \in Nat /\ systime \in 0 .. MaxTime /\ systime \in Nat
    BY LegacyAssumption
  <2>2. QED
    BY <2>1, ToIntType
<1>2. UNCHANGED <<heard, ret, acBuffer>> => DeliveredIntact'
  BY DEF DeliveredIntact, Told, dest, dest_ip, src_ip, Get
<1>3. CASE UNCHANGED vars
  BY <1>2, <1>3 DEF vars
<1>4. ASSUME NEW f \in Frame, send1pac_with_sd(f) PROVE LegacyInv'
  BY <1>2, <1>4 DEF send1pac_with_sd
<1>5. CASE Tick
  BY <1>1, <1>2, <1>5 DEF Tick
<1>6. CASE sd_setup
  BY <1>2, <1>6 DEF sd_setup
<1>7. CASE sd_listen
  BY <1>1, <1>2, <1>7 DEF sd_listen
<1>8. CASE ListensOn
  BY <1>1, <1>2, <1>8 DEF ListensOn
<1>9. CASE Returns
  BY <1>2, <1>9 DEF Returns
<1>10. CASE RecvFails
  <2>1. DeliveredIntact'
    BY <1>10 DEF RecvFails, DeliveredIntact
  <2>2. QED
    BY <1>10, <2>1 DEF RecvFails
<1>11. CASE ReadsLast
  BY <1>1, <1>2, <1>11 DEF ReadsLast
<1>12. CASE recv1pac_with_sd
  <2>1. heard' = air /\ ret' = Told'
        /\ UNCHANGED <<closed, systime, now, last>>
        /\ air' = Nothing /\ pc' = "test"
    BY <1>12 DEF recv1pac_with_sd
  <2>2. ret' \in {"ME", "BROADCAST", "NONE"}
    BY <2>1 DEF Told
  <2>3. CASE air # Nothing
    <3>1. air \in Frame /\ acBuffer' = Delivered(air)
      BY <1>12, <2>3 DEF recv1pac_with_sd
    <3>2. acBuffer' \in Buffer
      BY <3>1, DeliveredLayout
    <3>3. Delivered(heard)' = Delivered(air)
      BY <2>1 DEF Delivered, s_data
    <3>4. DeliveredIntact'
      BY <2>1, <3>1, <3>3 DEF DeliveredIntact
    <3>5. QED
      BY <2>1, <2>2, <3>1, <3>2, <3>4
  <2>4. CASE air = Nothing
    <3>1. acBuffer' \in Buffer
      BY <1>12, <2>4, LegacyAssumption DEF recv1pac_with_sd
    <3>2. DeliveredIntact'
      BY <2>1, <2>4 DEF DeliveredIntact
    <3>3. QED
      BY <2>1, <2>2, <2>4, <3>1, <3>2
  <2>5. QED
    BY <2>3, <2>4
<1>13. QED
  BY <1>3, <1>4, <1>5, <1>6, <1>7, <1>8, <1>9, <1>10, <1>11,
     <1>12 DEF Next

(* Types, and that the buffer which is judged is the frame that came.      *)
THEOREM LegacyInvHolds == Spec => []LegacyInv
BY InitLegacyInv, NextLegacyInv, PTL DEF Spec

(* What parse takes out of the buffer is what the sender put into it.      *)
LEMMA ParsesAsSent ==
  ASSUME LegacyInv, heard # Nothing, ret # "error"
  PROVE  /\ heard \in Frame /\ ret = Told
         /\ dest = heard.dst /\ srcmac = heard.src /\ ip_head = heard.head
         /\ check_bytes = CheckBytes(heard.data)
<1>1. heard \in Frame /\ acBuffer = Delivered(heard) /\ ret = Told
  BY DEF LegacyInv, DeliveredIntact
<1>2. /\ heard.dst \in [0 .. 5 -> 0 .. 255] /\ heard.src \in [0 .. 5 -> 0 .. 255]
      /\ heard.head \in [0 .. 9 -> 0 .. 255]
      /\ CheckBytes(heard.data) \in [0 .. 1 -> 0 .. 255]
  BY <1>1, FrameHeads, FrameData
<1>3. ASSUME NEW i \in 0 .. BUF_LEN - 1
      PROVE  /\ i \in 8 .. 13 => acBuffer[i] = heard.dst[i - 8]
             /\ i \in 14 .. 19 => acBuffer[i] = heard.src[i - 14]
             /\ i \in 20 .. 29 => acBuffer[i] = heard.head[i - 20]
             /\ i \in 30 .. 31 => acBuffer[i] = CheckBytes(heard.data)[i - 30]
  BY <1>1, DeliveredLayout
<1>4. /\ dest = [i \in 0 .. 5 |-> acBuffer[8 + i]]
      /\ srcmac = [i \in 0 .. 5 |-> acBuffer[14 + i]]
      /\ ip_head = [i \in 0 .. 9 |-> acBuffer[20 + i]]
      /\ check_bytes = [i \in 0 .. 1 |-> acBuffer[30 + i]]
  BY Numbers DEF dest, srcmac, ip_head, check_bytes, Get
<1> DEFINE c == CheckBytes(heard.data)
<1> HIDE DEF c
<1>5. /\ \A i \in 0 .. 5 : acBuffer[8 + i] = heard.dst[i]
      /\ \A i \in 0 .. 5 : acBuffer[14 + i] = heard.src[i]
      /\ \A i \in 0 .. 9 : acBuffer[20 + i] = heard.head[i]
      /\ \A i \in 0 .. 1 : acBuffer[30 + i] = c[i]
  <2>1. ASSUME NEW i \in 0 .. 9
        PROVE  /\ 8 + i \in 0 .. BUF_LEN - 1 /\ (8 + i) - 8 = i
               /\ 14 + i \in 0 .. BUF_LEN - 1 /\ (14 + i) - 14 = i
               /\ 20 + i \in 0 .. BUF_LEN - 1 /\ (20 + i) - 20 = i
               /\ 30 + i \in 0 .. BUF_LEN - 1 /\ (30 + i) - 30 = i
    BY Numbers
  <2>2. QED
    BY <1>3, <2>1 DEF c
<1>6. c \in [0 .. 1 -> 0 .. 255]
  BY <1>2 DEF c
<1>7. dest = heard.dst
  BY <1>2, <1>4, <1>5
<1>8. srcmac = heard.src
  BY <1>2, <1>4, <1>5
<1>9. ip_head = heard.head
  BY <1>2, <1>4, <1>5
<1>10. check_bytes = c
  BY <1>4, <1>5, <1>6
<1>11. QED
  BY <1>1, <1>7, <1>8, <1>9, <1>10 DEF c

(* A frame is taken for one to this board exactly when it is, whatever was *)
(* in the buffer and on the stack before.                                  *)
THEOREM MeIsExactlyMine == Spec => []MeIsMine
<1>1. LegacyInv => MeIsMine
  <2> SUFFICES ASSUME LegacyInv, heard # Nothing, ret # "error"
               PROVE  /\ ret = "ME" <=> heard.dst = macAddressVal
                      /\ srcmac = heard.src /\ ip_head = heard.head
                      /\ check_bytes = CheckBytes(heard.data)
    BY DEF MeIsMine
  <2>1. ret = "ME" <=> dest = macAddressVal
    BY ParsesAsSent DEF Told, isMyMac
  <2>2. QED
    BY <2>1, ParsesAsSent
<1>2. QED
  BY <1>1, LegacyInvHolds, PTL
=============================================================================
