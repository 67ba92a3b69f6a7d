----------------------------- MODULE LinkProofs -----------------------------
(***************************************************************************)
(* Proofs about Link: its types; that a call of MAC_send_data which starts *)
(* with nothing around reports success only for what it delivered; that a  *)
(* payload is handed up at most as often as it is sent; and that payloads  *)
(* are handed up in the order of the calls.  Then about BoardTests, which  *)
(* uses Link: the same holds of the boards under test, and with it the     *)
(* numbers that the two boards print are in order.                         *)
(***************************************************************************)
EXTENDS BoardTests, SequenceTheorems, FiniteSetTheorems, TLAPS

(* The first unread frame is one of them, and reading adds none.           *)
LEMMA ReadKeepsRest ==
  ASSUME TypeOK, NEW s \in Station, Reads(s), Read(s)
  PROVE  /\ inbox' \in [Station -> Seq(Frame)]
         /\ Head(inbox[s]) \in Frame
         /\ Head(inbox[s]) \in Unread(s)
         /\ \A r \in Station : Unread(r)' \subseteq Unread(r)
<1>1. inbox[s] \in Seq(Frame) /\ inbox[s] # <<>>
  BY DEF TypeOK, Reads
<1>2. inbox' = [inbox EXCEPT ![s] = Tail(inbox[s])]
  BY DEF Read
<1>3. /\ Head(inbox[s]) \in Frame
      /\ Tail(inbox[s]) \in Seq(Frame)
      /\ Len(Tail(inbox[s])) = Len(inbox[s]) - 1
      /\ \A i \in 1 .. Len(Tail(inbox[s])) : Tail(inbox[s])[i] = inbox[s][i + 1]
  BY <1>1, HeadTailProperties
<1>4. inbox' \in [Station -> Seq(Frame)]
  BY <1>2, <1>3 DEF TypeOK
<1>5. Len(inbox[s]) \in Nat \ {0} /\ DOMAIN inbox[s] = 1 .. Len(inbox[s])
  BY <1>1, LenProperties, EmptySeq
<1>6. Head(inbox[s]) \in Unread(s)
  <2>1. Head(inbox[s]) = inbox[s][1]
    BY <1>1
  <2>2. QED
    BY <2>1, <1>5 DEF Unread
<1>7. ASSUME NEW r \in Station PROVE Unread(r)' \subseteq Unread(r)
  <2>1. CASE r = s
    <3>1. inbox'[r] = Tail(inbox[s])
      BY <1>2, <2>1 DEF TypeOK
    <3>2. DOMAIN Tail(inbox[s]) = 1 .. Len(inbox[s]) - 1
      BY <1>3, LenProperties
    <3>3. ASSUME NEW i \in 1 .. Len(inbox[s]) - 1
          PROVE  Tail(inbox[s])[i] = inbox[s][i + 1] /\ i + 1 \in DOMAIN inbox[s]
      BY <1>3, <1>5
    <3>4. QED
      BY <2>1, <3>1, <3>2, <3>3 DEF Unread
  <2>2. CASE r # s
    BY <1>2, <2>2 DEF Unread, TypeOK
  <2>3. QED
    BY <2>1, <2>2
<1>8. QED
  BY <1>3, <1>4, <1>6, <1>7

(* A transmission adds its frame, to other stations than the sender.       *)
LEMMA TransmitAddsFrame ==
  ASSUME TypeOK, NEW s \in Station, NEW f \in Frame, Transmit(s, f)
  PROVE  /\ inbox' \in [Station -> Seq(Frame)]
         /\ \A r \in Station : Unread(r)' \subseteq Unread(r) \cup {f}
         /\ Unread(s)' = Unread(s)
         /\ \A r \in Station : Unread(r)' # Unread(r) => f.dst \in {r, BroadcastMac}
<1>1. PICK R \in SUBSET Hearers(s, f) :
        inbox' = [r \in Station |->
                    IF r \in R THEN Append(inbox[r], f) ELSE inbox[r]]
  BY DEF Transmit
<1>2. inbox' \in [Station -> Seq(Frame)]
  BY <1>1 DEF TypeOK
<1>3. s \notin R /\ \A r \in R : f.dst \in {r, BroadcastMac}
  BY <1>1 DEF Hearers
<1>4. ASSUME NEW r \in Station, r \notin R PROVE Unread(r)' = Unread(r)
  BY <1>1, <1>4 DEF Unread
<1>5. ASSUME NEW r \in Station PROVE Unread(r)' \subseteq Unread(r) \cup {f}
  <2>1. CASE r \in R
    <3>1. inbox'[r] = Append(inbox[r], f) /\ inbox[r] \in Seq(Frame)
      BY <1>1, <2>1 DEF TypeOK
    <3>2. /\ DOMAIN inbox'[r] = 1 .. Len(inbox[r]) + 1
          /\ DOMAIN inbox[r] = 1 .. Len(inbox[r])
          /\ Len(inbox[r]) \in Nat
      BY <3>1, <1>2, LenProperties
    <3>3. ASSUME NEW i \in 1 .. Len(inbox[r]) + 1
          PROVE  inbox'[r][i] = IF i = Len(inbox[r]) + 1 THEN f ELSE inbox[r][i]
      BY <3>1, <3>2
    <3>4. QED
      BY <3>2, <3>3 DEF Unread
  <2>2. CASE r \notin R
    BY <1>4, <2>2
  <2>3. QED
    BY <2>1, <2>2
<1>6. QED
  BY <1>2, <1>3, <1>4, <1>5

LEMMA InitIInv == Init => IInv
<1> SUFFICES ASSUME Init PROVE IInv
  OBVIOUS
<1>1. TypeOK
  BY LinkAssumption DEF Init, TypeOK, Destination
<1>2. CallState /\ OnlyThisCall /\ AcksOfThisCall /\ QuietSuccessIsDelivery
  BY DEF Init, CallState, OnlyThisCall, AcksOfThisCall, QuietCall,
     QuietSuccessIsDelivery
<1>3. QED
  BY <1>1, <1>2 DEF IInv

(* The outcome of an iteration of MAC_send_data: the station waits, or the *)
(* call has failed.                                                        *)
LEMMA CountedTypes ==
  ASSUME TypeOK, NEW s \in Station, NEW n \in Nat \ {0}, CountTransmission(s, n)
  PROVE  /\ pc' \in [Station -> {"idle", "wait", "recv", "recvAny", "ack"}]
         /\ retries' \in [Station -> 0 .. MAC_MAX_RETRIES - 1]
         /\ result' \in [Station -> {"none", "success", "fail"}]
         /\ pc'[s] \in {"idle", "wait"} /\ result'[s] # "success"
         /\ \A r \in Station \ {s} : pc'[r] = pc[r] /\ result'[r] = result[r]
<1>1. PICK p \in {"idle", "wait"}, k \in 0 .. MAC_MAX_RETRIES - 1,
           v \in {"none", "fail"} :
        /\ pc' = [pc EXCEPT ![s] = p]
        /\ retries' = [retries EXCEPT ![s] = k]
        /\ result' = [result EXCEPT ![s] = v]
  <2>1. CASE n < MAC_MAX_RETRIES
    <3>1. n \in 0 .. MAC_MAX_RETRIES - 1
      BY <2>1, LinkAssumption
    <3>2. QED
      BY <2>1, <3>1 DEF CountTransmission
  <2>2. CASE ~ (n < MAC_MAX_RETRIES)
    <3>1. 0 \in 0 .. MAC_MAX_RETRIES - 1
      BY LinkAssumption
    <3>2. QED
      BY <2>2, <3>1 DEF CountTransmission
  <2>3. QED
    BY <2>1, <2>2
<1>2. /\ pc \in [Station -> {"idle", "wait", "recv", "recvAny", "ack"}]
      /\ retries \in [Station -> 0 .. MAC_MAX_RETRIES - 1]
      /\ result \in [Station -> {"none", "success", "fail"}]
  BY DEF TypeOK
<1>3. QED
  BY <1>1, <1>2

(* A call starts: if it is quiet, the frames of s are those it has sent.    *)
LEMMA SendIInv ==
  ASSUME IInv, NEW s \in Station, NEW d \in Destination, MAC_send_data(s, d)
  PROVE  IInv'
<1> DEFINE c == data[s] + 1
           f == [src |-> s, dst |-> d, data |-> c]
<1>1. c \in Call /\ c # Ack /\ f \in Frame
  <2>1. data[s] \in 0 .. MaxCall /\ data[s] < MaxCall
    BY LinkAssumption DEF MAC_send_data, IInv, TypeOK, Call
  <2>2. c \in Call /\ c # Ack
    BY <2>1, LinkAssumption DEF Call, Ack
  <2> HIDE DEF c
  <2>3. QED
    BY <2>2 DEF Frame
<1>2. /\ pc[s] = "idle"
      /\ data' = [data EXCEPT ![s] = c]
      /\ dst' = [dst EXCEPT ![s] = d]
      /\ quiet' = [quiet EXCEPT ![s] = NothingAround(s)]
      /\ Transmit(s, f) /\ CountTransmission(s, 1)
      /\ UNCHANGED <<open, frame, handed>>
  BY DEF MAC_send_data
<1> HIDE DEF c, f
<1>3. /\ inbox' \in [Station -> Seq(Frame)]
      /\ \A r \in Station : Unread(r)' \subseteq Unread(r) \cup {f}
      /\ Unread(s)' = Unread(s)
  BY <1>1, <1>2, TransmitAddsFrame DEF IInv
<1>4. f.src = s /\ f.data = c
  BY DEF f
<1>5. /\ pc' \in [Station -> {"idle", "wait", "recv", "recvAny", "ack"}]
      /\ retries' \in [Station -> 0 .. MAC_MAX_RETRIES - 1]
      /\ result' \in [Station -> {"none", "success", "fail"}]
      /\ pc'[s] \in {"idle", "wait"} /\ result'[s] # "success"
      /\ \A r \in Station \ {s} : pc'[r] = pc[r] /\ result'[r] = result[r]
  BY <1>2, CountedTypes DEF IInv
<1>6. /\ data'[s] = c /\ quiet'[s] = NothingAround(s)
      /\ \A r \in Station \ {s} : /\ data'[r] = data[r]
                                  /\ dst'[r] = dst[r]
                                  /\ quiet'[r] = quiet[r]
  BY <1>2 DEF IInv, TypeOK
<1>7. TypeOK'
  <2>1. data' \in [Station -> Call \cup {0}] /\ dst' \in [Station -> Destination]
    BY <1>1, <1>2 DEF IInv, TypeOK
  <2>2. NothingAround(s) \in BOOLEAN
    BY DEF NothingAround
  <2>3. quiet' \in [Station -> BOOLEAN]
    BY <1>2, <2>2 DEF IInv, TypeOK
  <2>4. QED
    BY <2>1, <2>3, <1>2, <1>3, <1>5 DEF IInv, TypeOK
<1>8. CallState'
  BY <1>1, <1>2, <1>5, <1>6 DEF IInv, CallState
<1>9. OnlyThisCall'
  <2>1. SUFFICES ASSUME NEW q \in Station, QuietCall(q)', NEW r \in Station
                 PROVE  /\ \A g \in Unread(r)' : g.src = q => g.data = data'[q]
                        /\ pc'[r] = "ack" /\ frame'[r].src = q =>
                             frame'[r].data = data'[q]
    BY DEF OnlyThisCall
  <2>2. CASE q = s
    <3>1. NothingAround(s)
      BY <2>1, <2>2, <1>6 DEF QuietCall
    <3>2. \A g \in Unread(r)' : g.src = s => g.data = c
      BY <3>1, <1>3, <1>4 DEF NothingAround
    <3>3. pc'[r] = "ack" => frame'[r].src # s
      BY <3>1, <1>2, <1>5 DEF NothingAround
    <3>4. QED
      BY <2>2, <3>2, <3>3, <1>6
  <2>3. CASE q # s
    <3>1. QuietCall(q) /\ data'[q] = data[q]
      BY <2>1, <2>3, <1>5, <1>6 DEF QuietCall
    <3>2. \A g \in Unread(r)' : g.src = q => g.data = data[q]
      BY <2>3, <3>1, <1>3, <1>4 DEF IInv, OnlyThisCall
    <3>3. pc'[r] = "ack" => pc[r] = "ack"
      BY <1>5
    <3>4. QED
      BY <3>1, <3>2, <3>3, <1>2 DEF IInv, OnlyThisCall
  <2>4. QED
    BY <2>2, <2>3
<1>10. AcksOfThisCall'
  <2>1. SUFFICES ASSUME NEW q \in Station, QuietCall(q)',
                        NEW g \in Unread(q)', g.data = Ack
                 PROVE  handed'[g.src][q][data'[q]] > 0
    BY DEF AcksOfThisCall
  <2>2. CASE q = s
    BY <2>1, <2>2, <1>3, <1>6 DEF QuietCall, NothingAround
  <2>3. CASE q # s
    <3>1. QuietCall(q) /\ data'[q] = data[q]
      BY <2>1, <2>3, <1>5, <1>6 DEF QuietCall
    <3>2. g \in Unread(q)
      BY <2>1, <1>1, <1>3, <1>4
    <3>3. QED
      BY <2>1, <3>1, <3>2, <1>2 DEF IInv, AcksOfThisCall
  <2>4. QED
    BY <2>2, <2>3
<1>11. QuietSuccessIsDelivery'
  <2>1. SUFFICES ASSUME NEW q \in Station, result'[q] = "success", quiet'[q]
                 PROVE  Delivered(q)'
    BY DEF QuietSuccessIsDelivery
  <2>2. q # s
    BY <2>1, <1>5
  <2>3. Delivered(q)
    BY <2>1, <2>2, <1>5, <1>6 DEF IInv, QuietSuccessIsDelivery
  <2>4. QED
    BY <2>2, <2>3, <1>2, <1>6 DEF Delivered
<1>12. QED
  BY <1>7, <1>8, <1>9, <1>10, <1>11 DEF IInv

(* A retransmission sends the payload of the call again.                   *)
LEMMA AckTimeoutIInv ==
  ASSUME IInv, NEW s \in Station, AckTimeout(s)
  PROVE  IInv'
<1> DEFINE f == [src |-> s, dst |-> dst[s], data |-> data[s]]
<1>1. /\ pc[s] = "wait" /\ Transmit(s, f)
      /\ CountTransmission(s, retries[s] + 1)
      /\ UNCHANGED <<open, dst, data, frame, handed, quiet>>
  BY DEF AckTimeout
<1>2. f \in Frame /\ data[s] # Ack /\ f.src = s /\ f.data = data[s]
  BY <1>1 DEF IInv, TypeOK, CallState, Call, Frame, Ack
<1>3. retries[s] + 1 \in Nat \ {0}
  BY LinkAssumption DEF IInv, TypeOK
<1> HIDE DEF f
<1>4. /\ inbox' \in [Station -> Seq(Frame)]
      /\ \A r \in Station : Unread(r)' \subseteq Unread(r) \cup {f}
  BY <1>1, <1>2, TransmitAddsFrame DEF IInv
<1>5. /\ pc' \in [Station -> {"idle", "wait", "recv", "recvAny", "ack"}]
      /\ retries' \in [Station -> 0 .. MAC_MAX_RETRIES - 1]
      /\ result' \in [Station -> {"none", "success", "fail"}]
      /\ pc'[s] \in {"idle", "wait"} /\ result'[s] # "success"
      /\ \A r \in Station \ {s} : pc'[r] = pc[r] /\ result'[r] = result[r]
  BY <1>1, <1>3, CountedTypes DEF IInv
<1>6. TypeOK'
  BY <1>1, <1>4, <1>5 DEF IInv, TypeOK
<1>7. \A q \in Station : QuietCall(q)' => QuietCall(q)
  BY <1>1, <1>5 DEF QuietCall
<1>8. CallState'
  BY <1>1, <1>5 DEF IInv, CallState
<1>9. OnlyThisCall'
  <2>1. SUFFICES ASSUME NEW q \in Station, QuietCall(q), NEW r \in Station
                 PROVE  /\ \A g \in Unread(r)' : g.src = q => g.data = data[q]
                        /\ pc'[r] = "ack" /\ frame[r].src = q =>
                             frame[r].data = data[q]
    BY <1>1, <1>7 DEF OnlyThisCall
  <2>2. \A g \in Unread(r)' : g.src = q => g.data = data[q]
    BY <2>1, <1>2, <1>4 DEF IInv, OnlyThisCall
  <2>3. pc'[r] = "ack" => pc[r] = "ack"
    BY <1>5
  <2>4. QED
    BY <2>1, <2>2, <2>3 DEF IInv, OnlyThisCall
<1>10. AcksOfThisCall'
  <2>1. SUFFICES ASSUME NEW q \in Station, QuietCall(q),
                        NEW g \in Unread(q)', g.data = Ack
                 PROVE  handed[g.src][q][data[q]] > 0
    BY <1>1, <1>7 DEF AcksOfThisCall
  <2>2. g \in Unread(q)
    BY <2>1, <1>2, <1>4
  <2>3. QED
    BY <2>1, <2>2 DEF IInv, AcksOfThisCall
<1>11. QuietSuccessIsDelivery'
  BY <1>1, <1>5 DEF IInv, QuietSuccessIsDelivery, Delivered
<1>12. QED
  BY <1>6, <1>8, <1>9, <1>10, <1>11 DEF IInv

(* An ack that a quiet call takes is from a board that has the payload.    *)
LEMMA AckReceivedIInv ==
  ASSUME IInv, NEW s \in Station, AckReceived(s)
  PROVE  IInv'
<1> DEFINE f == Head(inbox[s])
<1>1. /\ pc[s] = "wait" /\ Reads(s) /\ IsAckFor(s, f) /\ Read(s)
      /\ pc' = [pc EXCEPT ![s] = "idle"]
      /\ result' = [result EXCEPT ![s] = "success"]
      /\ retries' = [retries EXCEPT ![s] = 0]
      /\ UNCHANGED <<open, dst, data, frame, handed, quiet>>
  BY DEF AckReceived
<1> HIDE DEF f
<1>2. /\ inbox' \in [Station -> Seq(Frame)]
      /\ f \in Frame /\ f \in Unread(s)
      /\ \A r \in Station : Unread(r)' \subseteq Unread(r)
  BY <1>1, ReadKeepsRest DEF IInv, f
<1>3. TypeOK'
  <2>1. 0 \in 0 .. MAC_MAX_RETRIES - 1
    BY LinkAssumption
  <2>2. QED
    BY <1>1, <1>2, <2>1 DEF IInv, TypeOK
<1>4. /\ pc'[s] = "idle" /\ result'[s] = "success"
      /\ \A r \in Station \ {s} : pc'[r] = pc[r] /\ result'[r] = result[r]
  BY <1>1 DEF IInv, TypeOK
<1>5. CallState' /\ OnlyThisCall' /\ AcksOfThisCall'
  <2>1. \A q \in Station : QuietCall(q)' => QuietCall(q)
    BY <1>1, <1>4 DEF QuietCall
  <2>2. CallState'
    BY <1>1, <1>4 DEF IInv, CallState
  <2>3. OnlyThisCall'
    BY <2>1, <1>1, <1>2, <1>4 DEF IInv, OnlyThisCall
  <2>4. AcksOfThisCall'
    BY <2>1, <1>1, <1>2 DEF IInv, AcksOfThisCall
  <2>5. QED
    BY <2>2, <2>3, <2>4
<1>6. QuietSuccessIsDelivery'
  <2>1. SUFFICES ASSUME NEW q \in Station, result'[q] = "success", quiet[q]
                 PROVE  Delivered(q)
    BY <1>1 DEF QuietSuccessIsDelivery, Delivered
  <2>2. CASE q = s
    <3>1. handed[f.src][s][data[s]] > 0
      BY <2>1, <2>2, <1>1, <1>2 DEF IInv, AcksOfThisCall, QuietCall, IsAckFor
    <3>2. f.src \in Station /\ dst[s] \in {f.src, BroadcastMac}
      BY <1>1, <1>2 DEF Frame, IsAckFor
    <3>3. QED
      BY <2>2, <3>1, <3>2 DEF Delivered
  <2>3. CASE q # s
    BY <2>1, <2>3, <1>4 DEF IInv, QuietSuccessIsDelivery
  <2>4. QED
    BY <2>2, <2>3
<1>7. QED
  BY <1>3, <1>5, <1>6 DEF IInv

(* Steps that send nothing and finish no call.                             *)
LEMMA PassiveStepIInv ==
  ASSUME IInv, TypeOK',
         \A r \in Station : Unread(r)' \subseteq Unread(r),
         \A r \in Station : pc'[r] = "wait" => pc[r] = "wait",
         \A r \in Station : pc'[r] = "ack" /\ pc[r] = "ack" =>
                              frame'[r] = frame[r],
         \A r \in Station : pc'[r] = "ack" /\ pc[r] # "ack" =>
                              frame'[r] \in Unread(r) \cap Frame,
         UNCHANGED <<dst, data, result, handed, quiet>>
  PROVE  IInv'
<1>1. \A q \in Station : QuietCall(q)' => QuietCall(q)
  BY DEF QuietCall
<1>2. CallState'
  BY DEF IInv, CallState
<1>3. OnlyThisCall'
  <2>1. SUFFICES ASSUME NEW q \in Station, QuietCall(q), NEW r \in Station
                 PROVE  /\ \A g \in Unread(r)' : g.src = q => g.data = data[q]
                        /\ pc'[r] = "ack" /\ frame'[r].src = q =>
                             frame'[r].data = data[q]
    BY <1>1 DEF OnlyThisCall
  <2>2. QED
    BY <2>1 DEF IInv, OnlyThisCall
<1>4. AcksOfThisCall'
  BY <1>1 DEF IInv, AcksOfThisCall
<1>5. QuietSuccessIsDelivery'
  BY DEF IInv, QuietSuccessIsDelivery, Delivered
<1>6. QED
  BY <1>2, <1>3, <1>4, <1>5 DEF IInv

LEMMA DropIInv ==
  ASSUME IInv, NEW s \in Station, DropInsteadOfAck(s) \/ IgnoreBroadcast(s)
  PROVE  IInv'
<1>1. /\ Reads(s) /\ Read(s)
      /\ UNCHANGED <<open, pc, dst, data, retries, result, frame, handed, quiet>>
  BY DEF DropInsteadOfAck, IgnoreBroadcast
<1>2. /\ inbox' \in [Station -> Seq(Frame)]
      /\ \A r \in Station : Unread(r)' \subseteq Unread(r)
  BY <1>1, ReadKeepsRest DEF IInv
<1>3. TypeOK'
  BY <1>1, <1>2 DEF IInv, TypeOK
<1>4. QED
  BY <1>1, <1>2, <1>3, PassiveStepIInv

LEMMA RecvIInv ==
  ASSUME IInv, NEW s \in Station,
         RecvTimeout(s) \/ \E b \in BOOLEAN : MAC_recv_data(s, b)
  PROVE  IInv'
<1>1. PICK p \in {"idle", "recv", "recvAny"} :
        /\ pc' = [pc EXCEPT ![s] = p]
        /\ UNCHANGED <<inbox, open, dst, data, retries, result, frame, handed,
                       quiet>>
  BY DEF RecvTimeout, MAC_recv_data
<1>2. TypeOK'
  BY <1>1 DEF IInv, TypeOK
<1>3. \A r \in Station : Unread(r)' \subseteq Unread(r)
  BY <1>1 DEF Unread
<1>4. \A r \in Station : pc'[r] \in {"wait", "ack"} => pc'[r] = pc[r]
  BY <1>1 DEF IInv, TypeOK
<1>5. QED
  BY <1>1, <1>2, <1>3, <1>4, PassiveStepIInv

LEMMA TakeFrameIInv ==
  ASSUME IInv, NEW s \in Station, TakeFrame(s)
  PROVE  IInv'
<1>1. /\ Receiving(s) /\ Reads(s) /\ Read(s)
      /\ frame' = [frame EXCEPT ![s] = Head(inbox[s])]
      /\ pc' = [pc EXCEPT ![s] = "ack"]
      /\ UNCHANGED <<open, dst, data, retries, result, handed, quiet>>
  BY DEF TakeFrame
<1>2. /\ inbox' \in [Station -> Seq(Frame)]
      /\ Head(inbox[s]) \in Frame /\ Head(inbox[s]) \in Unread(s)
      /\ \A r \in Station : Unread(r)' \subseteq Unread(r)
  BY <1>1, ReadKeepsRest DEF IInv
<1>3. TypeOK'
  BY <1>1, <1>2 DEF IInv, TypeOK
<1>4. /\ pc[s] # "ack" /\ pc'[s] = "ack" /\ frame'[s] = Head(inbox[s])
      /\ \A r \in Station \ {s} : pc'[r] = pc[r] /\ frame'[r] = frame[r]
  BY <1>1 DEF IInv, TypeOK, Receiving
<1>5. QED
  BY <1>1, <1>2, <1>3, <1>4, PassiveStepIInv

LEMMA RecvErrorIInv ==
  ASSUME IInv, NEW s \in Station, RecvError(s)
  PROVE  IInv'
<1>1. /\ open' = [open EXCEPT ![s] = FALSE]
      /\ inbox' = [inbox EXCEPT ![s] = <<>>]
      /\ UNCHANGED <<pc, dst, data, retries, result, frame, handed, quiet>>
  BY DEF RecvError
<1>2. TypeOK'
  <2>1. <<>> \in Seq(Frame)
    OBVIOUS
  <2>2. QED
    BY <1>1, <2>1 DEF IInv, TypeOK
<1>3. ASSUME NEW r \in Station PROVE Unread(r)' \subseteq Unread(r)
  <2>1. CASE r = s
    <3>1. inbox'[r] = <<>>
      BY <1>1, <2>1 DEF IInv, TypeOK
    <3>2. DOMAIN inbox'[r] = {}
      BY <3>1
    <3>3. QED
      BY <3>2 DEF Unread
  <2>2. CASE r # s
    BY <1>1, <2>2 DEF IInv, TypeOK, Unread
  <2>3. QED
    BY <2>1, <2>2
<1>4. QED
  BY <1>1, <1>2, <1>3, PassiveStepIInv

(* The payload is handed up by the step that sends the ack, so an ack never *)
(* waits for a quiet call before its payload has arrived.                  *)
LEMMA SendAckIInv ==
  ASSUME IInv, NEW s \in Station, MAC_send_ack(s)
  PROVE  IInv'
<1> DEFINE t == frame[s].src
           c == frame[s].data
           f == [src |-> s, dst |-> t, data |-> Ack]
<1>1. /\ pc[s] = "ack" /\ Transmit(s, f)
      /\ IF c = Ack THEN UNCHANGED handed
         ELSE handed' = [handed EXCEPT ![s][t][c] = @ + 1]
      /\ frame' = [frame EXCEPT ![s] = NoFrame]
      /\ pc' = [pc EXCEPT ![s] = "idle"]
      /\ UNCHANGED <<open, dst, data, retries, result, quiet>>
  BY DEF MAC_send_ack
<1>2. t \in Station /\ c \in Call \cup {Ack}
  BY <1>1 DEF IInv, CallState, Frame
<1>3. f \in Frame /\ f.src = s /\ f.data = Ack /\ f.dst = t
  BY <1>2 DEF Frame, Destination
<1>4. /\ handed' \in [Station -> [Station -> [Call -> Nat]]]
      /\ \A r, q \in Station : \A e \in Call : handed'[r][q][e] >= handed[r][q][e]
      /\ c # Ack => handed'[s][t][c] > 0
  <2>1. handed \in [Station -> [Station -> [Call -> Nat]]]
    BY DEF IInv, TypeOK
  <2>2. CASE c = Ack
    BY <1>1, <2>1, <2>2
  <2>3. CASE c # Ack
    <3>1. c \in Call
      BY <1>2, <2>3
    <3> HIDE DEF c, t
    <3>2. handed' = [handed EXCEPT ![s][t][c] = @ + 1]
      BY <1>1, <2>3 DEF c, t
    <3>3. handed' \in [Station -> [Station -> [Call -> Nat]]]
      BY <2>1, <3>1, <3>2, <1>2
    <3>4. \A r, q \in Station : \A e \in Call :
            handed'[r][q][e] = IF r = s /\ q = t /\ e = c
                               THEN handed[r][q][e] + 1 ELSE handed[r][q][e]
      BY <2>1, <3>1, <3>2, <1>2
    <3>5. \A r, q \in Station : \A e \in Call : handed[r][q][e] \in Nat
      BY <2>1
    <3>6. \A r, q \in Station : \A e \in Call :
            handed'[r][q][e] >= handed[r][q][e]
      BY <3>4, <3>5
    <3>7. handed'[s][t][c] > 0
      BY <3>1, <3>4, <3>5, <1>2
    <3>8. QED
      BY <3>3, <3>6, <3>7
  <2>4. QED
    BY <2>2, <2>3
<1> HIDE DEF c, f
<1>5. /\ inbox' \in [Station -> Seq(Frame)]
      /\ \A r \in Station : Unread(r)' \subseteq Unread(r) \cup {f}
      /\ Unread(s)' = Unread(s)
      /\ \A r \in Station : Unread(r)' # Unread(r) => f.dst \in {r, BroadcastMac}
  BY <1>1, <1>3, TransmitAddsFrame DEF IInv
<1>6. TypeOK'
  BY <1>1, <1>4, <1>5 DEF IInv, TypeOK
<1>7. /\ pc'[s] = "idle"
      /\ \A r \in Station \ {s} : pc'[r] = pc[r] /\ frame'[r] = frame[r]
  BY <1>1 DEF IInv, TypeOK
<1>8. \A q \in Station : QuietCall(q)' => QuietCall(q) /\ q # s
  BY <1>1, <1>7 DEF QuietCall
<1>9. CallState'
  BY <1>1, <1>7 DEF IInv, CallState
<1>10. OnlyThisCall'
  <2>1. SUFFICES ASSUME NEW q \in Station, QuietCall(q), q # s, NEW r \in Station
                 PROVE  /\ \A g \in Unread(r)' : g.src = q => g.data = data[q]
                        /\ pc'[r] = "ack" /\ frame'[r].src = q =>
                             frame'[r].data = data[q]
    BY <1>1, <1>8 DEF OnlyThisCall
  <2>2. \A g \in Unread(r)' : g.src = q => g.data = data[q]
    BY <2>1, <1>3, <1>5 DEF IInv, OnlyThisCall
  <2>3. QED
    BY <2>1, <2>2, <1>7 DEF IInv, OnlyThisCall
<1>11. AcksOfThisCall'
  <2>1. SUFFICES ASSUME NEW q \in Station, QuietCall(q), q # s,
                        NEW g \in Unread(q)', g.data = Ack
                 PROVE  handed'[g.src][q][data[q]] > 0
    BY <1>1, <1>8 DEF AcksOfThisCall
  <2>2. data[q] \in Call /\ data[q] # Ack
    BY <2>1, LinkAssumption DEF IInv, CallState, QuietCall, Call, Ack
  <2>3. CASE g \in Unread(q)
    <3>1. handed[g.src][q][data[q]] > 0
      BY <2>1, <2>3 DEF IInv, AcksOfThisCall
    <3>2. g.src \in Station
      <4>1. \A i \in DOMAIN inbox[q] : inbox[q][i] \in Frame
        BY LenProperties, ElementOfSeq DEF IInv, TypeOK
      <4>2. QED
        BY <2>3, <4>1 DEF Unread, Frame
    <3>3. /\ handed[g.src][q][data[q]] \in Nat
          /\ handed'[g.src][q][data[q]] \in Nat
      BY <3>2, <2>2, <1>4 DEF IInv, TypeOK
    <3>4. QED
      BY <3>1, <3>2, <3>3, <2>2, <1>4
  <2>4. CASE g \notin Unread(q)
    <3>1. g = f /\ t = q
      BY <2>1, <2>4, <1>2, <1>3, <1>5, LinkAssumption
    <3>2. c = data[q]
      BY <2>1, <3>1, <1>1 DEF IInv, OnlyThisCall, c
    <3>3. QED
      BY <3>1, <3>2, <2>2, <1>3, <1>4
  <2>5. QED
    BY <2>3, <2>4
<1>12. QuietSuccessIsDelivery'
  <2>1. SUFFICES ASSUME NEW q \in Station, result[q] = "success", quiet[q]
                 PROVE  Delivered(q)'
    BY <1>1 DEF QuietSuccessIsDelivery
  <2>2. PICK r \in Station : dst[q] \in {r, BroadcastMac}
                             /\ handed[r][q][data[q]] > 0
    BY <2>1 DEF IInv, QuietSuccessIsDelivery, Delivered
  <2>3. handed'[r][q][data[q]] > 0
    <3>1. data[q] \in Call
      BY <2>1 DEF IInv, CallState
    <3>2. /\ handed[r][q][data[q]] \in Nat
          /\ handed'[r][q][data[q]] \in Nat
      BY <3>1, <1>4 DEF IInv, TypeOK
    <3>3. QED
      BY <3>1, <3>2, <2>2, <1>4
  <2>4. QED
    BY <2>2, <2>3, <1>1 DEF Delivered
<1>13. QED
  BY <1>6, <1>9, <1>10, <1>11, <1>12 DEF IInv
-----------------------------------------------------------------------------
LEMMA NextIInv == IInv /\ [Next]_vars => IInv'
<1> SUFFICES ASSUME IInv, [Next]_vars PROVE IInv'
  OBVIOUS
<1>1. CASE Next
  <2>1. PICK s \in Station :
          \/ \E d \in Destination \ {s} : MAC_send_data(s, d)
          \/ AckReceived(s)
          \/ DropInsteadOfAck(s)
          \/ AckTimeout(s)
          \/ \E b \in BOOLEAN : MAC_recv_data(s, b)
          \/ TakeFrame(s)
          \/ MAC_send_ack(s)
          \/ IgnoreBroadcast(s)
          \/ RecvTimeout(s)
          \/ RecvError(s)
    BY <1>1 DEF Next
  <2>2. QED
    BY <2>1, SendIInv, AckReceivedIInv, DropIInv, AckTimeoutIInv, RecvIInv,
       TakeFrameIInv, SendAckIInv, RecvErrorIInv
<1>2. CASE UNCHANGED vars
  <2>1. UNCHANGED <<inbox, open, pc, dst, data, retries, result, frame, handed,
                    quiet>>
    BY <1>2 DEF vars
  <2>2. TypeOK' /\ \A r \in Station : Unread(r)' = Unread(r)
    BY <2>1 DEF IInv, TypeOK, Unread
  <2>3. QED
    BY <2>1, <2>2, PassiveStepIInv
<1>3. QED
  BY <1>1, <1>2

(* The parts of the inductive invariant hold in every reachable state.     *)
THEOREM InvariantHolds == Spec => []IInv
BY InitIInv, NextIInv, PTL DEF Spec

(* The variables of the MAC layer keep their types.                        *)
THEOREM TypeCorrect == Spec => []TypeOK
<1>1. IInv => TypeOK
  BY DEF IInv
<1>2. QED
  BY <1>1, InvariantHolds, PTL

(* A success that starts from quiet is a delivery, for any number of       *)
(* stations, retries and calls and any loss.                               *)
THEOREM QuietSuccessDelivers == Spec => []QuietSuccessIsDelivery
<1>1. IInv => QuietSuccessIsDelivery
  BY DEF IInv
<1>2. QED
  BY <1>1, InvariantHolds, PTL
-----------------------------------------------------------------------------
(* Copies: each one that is handed up has been sent. *)

(* Places in a queue are finitely many, and what a transmission and a read  *)
(* make of them.                                                            *)
LEMMA PlacesFinite ==
  ASSUME NEW q \in Seq(Frame), NEW s, NEW c
  PROVE  /\ Places(q, s, c) \subseteq 1 .. Len(q)
         /\ IsFiniteSet(Places(q, s, c))
         /\ Cardinality(Places(q, s, c)) \in Nat
<1>1. DOMAIN q = 1 .. Len(q) /\ Len(q) \in Nat
  BY LenProperties
<1>2. Places(q, s, c) \subseteq 1 .. Len(q)
  BY <1>1 DEF Places
<1>3. IsFiniteSet(1 .. Len(q))
  BY <1>1, FS_Interval
<1>4. IsFiniteSet(Places(q, s, c))
  BY <1>2, <1>3, FS_Subset
<1>5. QED
  BY <1>2, <1>4, FS_CardinalityType

(* A new frame is one place more, and only for its own payload.            *)
LEMMA PlacesAppend ==
  ASSUME NEW q \in Seq(Frame), NEW f \in Frame, NEW s, NEW c
  PROVE  /\ Places(Append(q, f), s, c) =
              IF f.src = s /\ f.data = c
              THEN Places(q, s, c) \cup {Len(q) + 1} ELSE Places(q, s, c)
         /\ Cardinality(Places(Append(q, f), s, c)) <=
              Cardinality(Places(q, s, c))
                + (IF f.src = s /\ f.data = c THEN 1 ELSE 0)
<1>1. Len(q) \in Nat /\ DOMAIN q = 1 .. Len(q)
  BY LenProperties
<1>2. /\ DOMAIN Append(q, f) = 1 .. Len(q) + 1
      /\ \A i \in 1 .. Len(q) : Append(q, f)[i] = q[i]
      /\ Append(q, f)[Len(q) + 1] = f
  BY <1>1
<1>3. Places(Append(q, f), s, c) =
        IF f.src = s /\ f.data = c
        THEN Places(q, s, c) \cup {Len(q) + 1} ELSE Places(q, s, c)
  <2>1. ASSUME NEW i
        PROVE  i \in Places(Append(q, f), s, c) <=>
                 i \in Places(q, s, c)
                   \/ (i = Len(q) + 1 /\ f.src = s /\ f.data = c)
    <3>1. i \in 1 .. Len(q) + 1 <=> i \in 1 .. Len(q) \/ i = Len(q) + 1
      BY <1>1
    <3>2. QED
      BY <3>1, <1>1, <1>2 DEF Places
  <2>2. QED
    BY <2>1
<1>4. CASE f.src = s /\ f.data = c
  <2>1. Len(q) + 1 \notin Places(q, s, c)
    BY <1>1, PlacesFinite
  <2>2. Cardinality(Places(q, s, c) \cup {Len(q) + 1})
          = Cardinality(Places(q, s, c)) + 1
    BY <2>1, PlacesFinite, FS_AddElement
  <2>3. QED
    BY <1>3, <1>4, <2>2, PlacesFinite
<1>5. CASE ~ (f.src = s /\ f.data = c)
  BY <1>3, <1>5, PlacesFinite
<1>6. QED
  BY <1>3, <1>4, <1>5

(* The places behind the first frame move up by one.                       *)
LEMMA PlacesTail ==
  ASSUME NEW q \in Seq(Frame), q # <<>>, NEW s, NEW c
  PROVE  /\ \A i \in Places(Tail(q), s, c) :
              i \in Nat /\ i >= 1 /\ i + 1 \in Places(q, s, c)
         /\ 1 \in Places(q, s, c) <=> Head(q).src = s /\ Head(q).data = c
         /\ Cardinality(Places(Tail(q), s, c))
              + (IF Head(q).src = s /\ Head(q).data = c THEN 1 ELSE 0)
              <= Cardinality(Places(q, s, c))
<1> DEFINE S == Places(q, s, c) \ {1}
           T == Places(Tail(q), s, c)
           shift == [i \in S |-> i - 1]
<1>1. /\ Tail(q) \in Seq(Frame)
      /\ Len(Tail(q)) = Len(q) - 1
      /\ \A i \in 1 .. Len(Tail(q)) : Tail(q)[i] = q[i + 1]
  BY HeadTailProperties
<1>2. /\ Len(q) \in Nat \ {0} /\ DOMAIN q = 1 .. Len(q)
      /\ DOMAIN Tail(q) = 1 .. Len(q) - 1
      /\ Head(q) = q[1]
  BY <1>1, LenProperties, EmptySeq
<1>3. \A i : i \in T <=> i \in 1 .. Len(q) - 1 /\ i + 1 \in Places(q, s, c)
  <2>1. SUFFICES ASSUME NEW i \in 1 .. Len(q) - 1
                 PROVE  i \in T <=> i + 1 \in Places(q, s, c)
    BY <1>2 DEF Places
  <2>2. i + 1 \in 1 .. Len(q) /\ Tail(q)[i] = q[i + 1]
    BY <1>1, <1>2
  <2>3. QED
    BY <2>2, <1>2 DEF Places
<1>4. 1 \in Places(q, s, c) <=> Head(q).src = s /\ Head(q).data = c
  BY <1>2 DEF Places
<1>5. /\ IsFiniteSet(S)
      /\ Cardinality(S) = IF 1 \in Places(q, s, c)
                          THEN Cardinality(Places(q, s, c)) - 1
                          ELSE Cardinality(Places(q, s, c))
  BY PlacesFinite, FS_RemoveElement
<1>6. S \subseteq 2 .. Len(q)
  BY PlacesFinite, <1>2
<1>7. shift \in Surjection(S, T)
  <2>1. \A i \in S : i - 1 \in T
    BY <1>2, <1>3, <1>6
  <2>2. \A i \in T : i + 1 \in S /\ shift[i + 1] = i
    BY <1>2, <1>3
  <2> HIDE DEF S, T
  <2>3. shift \in [S -> T]
    BY <2>1
  <2>4. QED
    BY <2>2, <2>3 DEF Surjection
<1>8. Cardinality(T) <= Cardinality(S)
  BY <1>5, <1>7, FS_Surjection
<1>9. Cardinality(T) \in Nat /\ Cardinality(Places(q, s, c)) \in Nat
  BY <1>1, PlacesFinite
<1>10. QED
  BY <1>2, <1>3, <1>4, <1>5, <1>8, <1>9

(* What a transmission adds to an inbox.                                   *)
LEMMA TransmitPlaces ==
  ASSUME TypeOK, NEW s \in Station, NEW f \in Frame, Transmit(s, f),
         NEW r \in Station, NEW q \in Station, NEW c
  PROVE  /\ \A i \in Places(inbox'[r], q, c) :
              \/ i \in Places(inbox[r], q, c)
              \/ i = Len(inbox[r]) + 1 /\ f.src = q /\ f.data = c
         /\ Cardinality(Places(inbox'[r], q, c)) <=
              Cardinality(Places(inbox[r], q, c))
                + (IF f.src = q /\ f.data = c THEN 1 ELSE 0)
<1>1. PICK R \in SUBSET Hearers(s, f) :
        inbox' = [p \in Station |->
                    IF p \in R THEN Append(inbox[p], f) ELSE inbox[p]]
  BY DEF Transmit
<1>2. inbox[r] \in Seq(Frame)
  BY DEF TypeOK
<1>3. CASE r \in R
  <2>1. inbox'[r] = Append(inbox[r], f)
    BY <1>1, <1>3
  <2>2. QED
    BY <1>2, <2>1, PlacesAppend
<1>4. CASE r \notin R
  <2>1. inbox'[r] = inbox[r]
    BY <1>1, <1>4
  <2>2. QED
    BY <1>2, <2>1, PlacesFinite
<1>5. QED
  BY <1>3, <1>4

(* What a read takes from one.                                             *)
LEMMA ReadPlaces ==
  ASSUME TypeOK, NEW s \in Station, Reads(s), Read(s),
         NEW r \in Station, NEW q \in Station, NEW c
  PROVE  /\ \A i \in Places(inbox'[r], q, c) :
              IF r = s THEN i \in Nat /\ i >= 1 /\ i + 1 \in Places(inbox[r], q, c)
              ELSE i \in Places(inbox[r], q, c)
         /\ 1 \in Places(inbox[s], q, c) <=>
              Head(inbox[s]).src = q /\ Head(inbox[s]).data = c
         /\ Cardinality(Places(inbox'[r], q, c))
              + (IF r = s /\ Head(inbox[s]).src = q /\ Head(inbox[s]).data = c
                 THEN 1 ELSE 0)
              <= Cardinality(Places(inbox[r], q, c))
<1>1. inbox[s] \in Seq(Frame) /\ inbox[s] # <<>> /\ inbox[r] \in Seq(Frame)
  BY DEF TypeOK, Reads
<1>2. inbox' = [inbox EXCEPT ![s] = Tail(inbox[s])]
  BY DEF Read
<1>3. 1 \in Places(inbox[s], q, c) <=>
        Head(inbox[s]).src = q /\ Head(inbox[s]).data = c
  BY <1>1, PlacesTail
<1>4. CASE r = s
  <2>1. inbox'[r] = Tail(inbox[s])
    BY <1>2, <1>4 DEF TypeOK
  <2>2. QED
    BY <1>1, <1>4, <2>1, PlacesTail
<1>5. CASE r # s
  <2>1. inbox'[r] = inbox[r]
    BY <1>2, <1>5 DEF TypeOK
  <2>2. QED
    BY <1>1, <1>3, <1>5, <2>1, PlacesFinite
<1>6. QED
  BY <1>4, <1>5

(* The counts of copies and transmissions are numbers.                     *)
LEMMA CopiesType ==
  ASSUME TypeOK, NEW r \in Station, NEW s \in Station, NEW c \in Call
  PROVE  /\ handed[r][s][c] \in Nat
         /\ Cardinality(Places(inbox[r], s, c)) \in Nat
         /\ Copies(r, s, c) \in Nat
         /\ TimesSent(s, c) \in 0 .. MAC_MAX_RETRIES
<1>1. handed[r][s][c] \in Nat /\ inbox[r] \in Seq(Frame)
  BY DEF TypeOK
<1>2. Cardinality(Places(inbox[r], s, c)) \in Nat
  BY <1>1, PlacesFinite
<1>3. Copies(r, s, c) \in Nat
  BY <1>1, <1>2 DEF Copies
<1>4. retries[s] \in 0 .. MAC_MAX_RETRIES - 1
  BY DEF TypeOK
<1>5. TimesSent(s, c) \in 0 .. MAC_MAX_RETRIES
  BY <1>4, LinkAssumption DEF TimesSent
<1>6. QED
  BY <1>1, <1>2, <1>3, <1>5

(* The count of a transmission is the sender's own.                        *)
LEMMA OthersStay ==
  ASSUME TypeOK, NEW s \in Station, NEW n, CountTransmission(s, n),
         NEW q \in Station, q # s
  PROVE  pc'[q] = pc[q] /\ retries'[q] = retries[q]
<1>1. CASE n < MAC_MAX_RETRIES
  BY <1>1 DEF CountTransmission, TypeOK
<1>2. CASE ~(n < MAC_MAX_RETRIES)
  BY <1>2 DEF CountTransmission, TypeOK
<1>3. QED
  BY <1>1, <1>2

(* A transmission counts for its payload, and no count goes down.          *)
LEMMA TransmitCounts ==
  ASSUME IInv, IInv', NEW s \in Station,
         \/ \E d \in Destination \ {s} : MAC_send_data(s, d)
         \/ AckTimeout(s),
         NEW q \in Station, NEW c \in Call
  PROVE  TimesSent(q, c)' >=
           TimesSent(q, c) + (IF q = s /\ c = data'[s] THEN 1 ELSE 0)
<1>1. /\ retries[q] \in 0 .. MAC_MAX_RETRIES - 1
      /\ retries'[q] \in 0 .. MAC_MAX_RETRIES - 1
      /\ data[q] \in Int /\ data'[q] \in Int
      /\ c \in Int
      /\ MAC_MAX_RETRIES \in Nat \ {0}
  <2>1. retries[q] \in 0 .. MAC_MAX_RETRIES - 1
    BY DEF IInv, TypeOK
  <2>2. retries'[q] \in 0 .. MAC_MAX_RETRIES - 1
    BY DEF IInv, TypeOK
  <2>3. data[q] \in Call \cup {0} /\ data'[q] \in Call \cup {0}
    BY DEF IInv, TypeOK
  <2>4. QED
    BY <2>1, <2>2, <2>3, LinkAssumption DEF Call
<1>2. CASE q # s
  <2>1. data'[q] = data[q]
    BY <1>2 DEF MAC_send_data, AckTimeout, IInv, TypeOK
  <2>2. PICK n : CountTransmission(s, n)
    BY DEF MAC_send_data, AckTimeout
  <2>3. pc'[q] = pc[q] /\ retries'[q] = retries[q]
    BY <1>2, <2>2, OthersStay DEF IInv
  <2>4. QED
    BY <1>1, <1>2, <2>1, <2>3 DEF TimesSent
<1>3. CASE q = s /\ \E d \in Destination \ {s} : MAC_send_data(s, d)
  <2>1. pc[s] = "idle" /\ data'[s] = data[s] + 1 /\ CountTransmission(s, 1)
    BY <1>3 DEF MAC_send_data, IInv, TypeOK
  <2>2. pc'[s] = "wait" => retries'[s] = 1
    BY <2>1 DEF CountTransmission, IInv, TypeOK
  <2>3. QED
    BY <1>1, <1>3, <2>1, <2>2 DEF TimesSent
<1>4. CASE q = s /\ AckTimeout(s)
  <2>1. /\ pc[s] = "wait" /\ data'[s] = data[s]
        /\ CountTransmission(s, retries[s] + 1)
    BY <1>4 DEF AckTimeout
  <2>2. pc'[s] = "wait" => retries'[s] = retries[s] + 1
    BY <2>1 DEF CountTransmission, IInv, TypeOK
  <2>3. QED
    BY <1>1, <1>4, <2>1, <2>2 DEF TimesSent
<1>5. QED
  BY <1>2, <1>3, <1>4

(* Neither does it when a call ends with an ack, or in any other step.     *)
LEMMA CountStays ==
  ASSUME IInv, NEW q \in Station, NEW c \in Call,
         data'[q] = data[q],
         pc'[q] = "wait" => pc[q] = "wait" /\ retries'[q] = retries[q]
  PROVE  TimesSent(q, c)' >= TimesSent(q, c)
<1>1. /\ retries[q] \in 0 .. MAC_MAX_RETRIES - 1
      /\ MAC_MAX_RETRIES \in Nat \ {0}
      /\ data[q] \in Int /\ c \in Int
  BY LinkAssumption DEF IInv, TypeOK, Call
<1>2. QED
  BY <1>1 DEF TimesSent

(* The frame that a call sends, and what else changes.                     *)
LEMMA SendsOfCall ==
  ASSUME IInv, NEW s \in Station,
         \/ \E d \in Destination \ {s} : MAC_send_data(s, d)
         \/ AckTimeout(s)
  PROVE  /\ \E f \in Frame : Transmit(s, f) /\ f.src = s /\ f.data = data'[s]
         /\ data'[s] \in Call /\ data'[s] >= data[s]
         /\ \A q \in Station \ {s} : data'[q] = data[q]
         /\ handed' = handed
         /\ \A r \in Station : \A q, c : InHand(r, q, c)' = InHand(r, q, c)
<1>1. CASE \E d \in Destination \ {s} : MAC_send_data(s, d)
  <2>1. PICK d \in Destination \ {s} : MAC_send_data(s, d)
    BY <1>1
  <2>2. data[s] \in 0 .. MaxCall /\ data[s] < MaxCall /\ MaxCall \in Nat
    BY <2>1, LinkAssumption DEF MAC_send_data, IInv, TypeOK, Call
  <2>3. /\ data' = [data EXCEPT ![s] = data[s] + 1]
        /\ data \in [Station -> Call \cup {0}]
    BY <2>1 DEF MAC_send_data, IInv, TypeOK
  <2>4. data[s] + 1 \in Call /\ data'[s] = data[s] + 1
    BY <2>2, <2>3 DEF Call
  <2>5. [src |-> s, dst |-> d, data |-> data[s] + 1] \in Frame
    BY <2>4 DEF Frame
  <2>6. /\ pc[s] = "idle" /\ pc'[s] \in {"idle", "wait"}
        /\ \A r \in Station \ {s} : pc'[r] = pc[r]
        /\ frame' = frame
    BY <2>1 DEF MAC_send_data, CountTransmission, IInv, TypeOK
  <2>7. \A r \in Station : \A q, c : InHand(r, q, c)' = InHand(r, q, c)
    BY <2>6 DEF InHand
  <2>8. Transmit(s, [src |-> s, dst |-> d, data |-> data[s] + 1])
    BY <2>1 DEF MAC_send_data
  <2>9. handed' = handed
    BY <2>1 DEF MAC_send_data
  <2>10. QED
    BY <2>2, <2>3, <2>4, <2>5, <2>7, <2>8, <2>9
<1>2. CASE AckTimeout(s)
  <2>1. data[s] \in Call /\ dst[s] \in Destination
    BY <1>2 DEF AckTimeout, IInv, TypeOK, CallState
  <2>2. [src |-> s, dst |-> dst[s], data |-> data[s]] \in Frame
    BY <2>1 DEF Frame
  <2>3. /\ pc[s] = "wait" /\ pc'[s] \in {"idle", "wait"}
        /\ \A r \in Station \ {s} : pc'[r] = pc[r]
        /\ frame' = frame /\ data' = data /\ handed' = handed
    BY <1>2 DEF AckTimeout, CountTransmission, IInv, TypeOK
  <2>4. \A r \in Station : \A q, c : InHand(r, q, c)' = InHand(r, q, c)
    BY <2>3 DEF InHand
  <2>5. Transmit(s, [src |-> s, dst |-> dst[s], data |-> data[s]])
    BY <1>2 DEF AckTimeout
  <2>6. data[s] >= data[s]
    BY <2>1 DEF Call
  <2>7. QED
    BY <2>1, <2>2, <2>3, <2>4, <2>5, <2>6
<1>3. QED
  BY <1>1, <1>2

(* The same of the state after a step.                                     *)
LEMMA CopiesTypeNext ==
  ASSUME TypeOK', NEW r \in Station, NEW s \in Station, NEW c \in Call
  PROVE  /\ handed'[r][s][c] \in Nat
         /\ Cardinality(Places(inbox'[r], s, c)) \in Nat
         /\ Copies(r, s, c)' \in Nat
         /\ TimesSent(s, c)' \in 0 .. MAC_MAX_RETRIES
<1>1. handed'[r][s][c] \in Nat /\ inbox'[r] \in Seq(Frame)
  BY DEF TypeOK
<1>2. Cardinality(Places(inbox'[r], s, c)) \in Nat
  BY <1>1, PlacesFinite
<1>3. Copies(r, s, c)' \in Nat
  BY <1>1, <1>2 DEF Copies
<1>4. retries'[s] \in 0 .. MAC_MAX_RETRIES - 1
  BY DEF TypeOK
<1>5. TimesSent(s, c)' \in 0 .. MAC_MAX_RETRIES
  BY <1>4, LinkAssumption DEF TimesSent
<1>6. QED
  BY <1>1, <1>2, <1>3, <1>5

(* Calls are positive numbers, and an ack is none.                         *)
LEMMA CallTypes == Call \subseteq Nat \ {0} /\ Ack \notin Call
BY LinkAssumption DEF Call, Ack

(* Where no new copies come up, no count of transmissions is exceeded.     *)
LEMMA SentStays ==
  ASSUME IInv, IInv', EveryCopySent,
         NEW r \in Station, NEW q \in Station, NEW c \in Call,
         Copies(r, q, c)' <= Copies(r, q, c),
         data'[q] = data[q],
         pc'[q] = "wait" => pc[q] = "wait" /\ retries'[q] = retries[q]
  PROVE  Copies(r, q, c)' <= TimesSent(q, c)'
<1>1. Copies(r, q, c) <= TimesSent(q, c)
  BY DEF EveryCopySent
<1>2. Copies(r, q, c) \in Nat /\ TimesSent(q, c) \in Nat
  BY CopiesType, LinkAssumption DEF IInv
<1>3. Copies(r, q, c)' \in Nat /\ TimesSent(q, c)' \in Nat
  BY CopiesTypeNext, LinkAssumption DEF IInv
<1>4. TimesSent(q, c)' >= TimesSent(q, c)
  BY CountStays
<1>5. QED
  BY <1>1, <1>2, <1>3, <1>4

(* Copies are counted by their three parts.                                *)
LEMMA CopiesParts ==
  ASSUME IInv, IInv', NEW r \in Station, NEW q \in Station, NEW c \in Call,
         NEW h \in {0, 1}, NEW k \in {0, 1},
         handed'[r][q][c] = handed[r][q][c] + h,
         Cardinality(Places(inbox'[r], q, c)) + k
           <= Cardinality(Places(inbox[r], q, c)),
         (IF InHand(r, q, c)' THEN 1 ELSE 0) + h
           <= (IF InHand(r, q, c) THEN 1 ELSE 0) + k
  PROVE  Copies(r, q, c)' <= Copies(r, q, c)
<1>1. /\ handed[r][q][c] \in Nat
      /\ Cardinality(Places(inbox[r], q, c)) \in Nat
  BY CopiesType DEF IInv
<1>2. /\ handed'[r][q][c] \in Nat
      /\ Cardinality(Places(inbox'[r], q, c)) \in Nat
  BY CopiesTypeNext DEF IInv
<1>3. QED
  BY <1>1, <1>2 DEF Copies

(* A frame that is read and thrown away.                                   *)
LEMMA ReadAwayCopies ==
  ASSUME IInv, IInv', NEW s \in Station, Reads(s), Read(s), handed' = handed,
         NEW r \in Station, NEW q \in Station, NEW c \in Call,
         InHand(r, q, c)' => InHand(r, q, c)
  PROVE  Copies(r, q, c)' <= Copies(r, q, c)
<1>1. Cardinality(Places(inbox'[r], q, c)) + 0
        <= Cardinality(Places(inbox[r], q, c))
  <2>1. /\ Cardinality(Places(inbox'[r], q, c)) \in Nat
        /\ Cardinality(Places(inbox[r], q, c)) \in Nat
    BY CopiesType, CopiesTypeNext DEF IInv
  <2>2. Cardinality(Places(inbox'[r], q, c))
          + (IF r = s /\ Head(inbox[s]).src = q /\ Head(inbox[s]).data = c
             THEN 1 ELSE 0)
          <= Cardinality(Places(inbox[r], q, c))
    BY ReadPlaces DEF IInv
  <2>3. QED
    BY <2>1, <2>2
<1>2. handed'[r][q][c] = handed[r][q][c] + 0
  <2>1. handed[r][q][c] \in Nat
    BY CopiesType DEF IInv
  <2>2. QED
    BY <2>1
<1>3. (IF InHand(r, q, c)' THEN 1 ELSE 0) + 0
        <= (IF InHand(r, q, c) THEN 1 ELSE 0) + 0
  OBVIOUS
<1>4. QED
  BY <1>1, <1>2, <1>3, CopiesParts

(* TakeFrame puts the first unread frame in hand.                          *)
LEMMA TakenInHand ==
  ASSUME IInv, NEW s \in Station, TakeFrame(s),
         NEW r \in Station, NEW q \in Station, NEW c \in Call
  PROVE  /\ r = s => ~InHand(r, q, c)
         /\ r = s => (InHand(r, q, c)' <=>
                        Head(inbox[s]).src = q /\ Head(inbox[s]).data = c)
         /\ r # s => (InHand(r, q, c)' <=> InHand(r, q, c))
<1>1. pc[s] # "ack"
  BY DEF TakeFrame, Receiving
<1>2. pc'[s] = "ack" /\ frame'[s] = Head(inbox[s])
  BY DEF TakeFrame, IInv, TypeOK
<1>3. r # s => pc'[r] = pc[r] /\ frame'[r] = frame[r]
  BY DEF TakeFrame, IInv, TypeOK
<1>4. QED
  BY <1>1, <1>2, <1>3 DEF InHand

(* A frame that is taken was unread and is in hand: still one copy.        *)
LEMMA TakeFrameCopies ==
  ASSUME IInv, IInv', NEW s \in Station, TakeFrame(s),
         NEW r \in Station, NEW q \in Station, NEW c \in Call
  PROVE  Copies(r, q, c)' <= Copies(r, q, c)
<1>1. Reads(s) /\ Read(s) /\ handed' = handed
  BY DEF TakeFrame
<1>2. CASE r # s \/ ~(Head(inbox[s]).src = q /\ Head(inbox[s]).data = c)
  BY <1>1, <1>2, TakenInHand, ReadAwayCopies
<1>3. CASE r = s /\ Head(inbox[s]).src = q /\ Head(inbox[s]).data = c
  <2>1. Cardinality(Places(inbox'[r], q, c)) + 1
          <= Cardinality(Places(inbox[r], q, c))
    BY <1>1, <1>3, ReadPlaces DEF IInv
  <2>2. InHand(r, q, c)' /\ ~InHand(r, q, c)
    BY <1>3, TakenInHand
  <2>3. handed[r][q][c] \in Nat
    BY CopiesType DEF IInv
  <2>4. handed'[r][q][c] = handed[r][q][c] + 0
    BY <1>1, <2>3
  <2>5. (IF InHand(r, q, c)' THEN 1 ELSE 0) + 0
          <= (IF InHand(r, q, c) THEN 1 ELSE 0) + 1
    BY <2>2
  <2>6. QED
    BY <2>1, <2>4, <2>5, CopiesParts
<1>4. QED
  BY <1>2, <1>3

(* MAC_send_ack hands up the frame in hand; its ack is no copy of anything. *)
LEMMA SendAckEffect ==
  ASSUME IInv, NEW s \in Station, MAC_send_ack(s)
  PROVE  /\ \E f \in Frame : f.data = Ack /\ Transmit(s, f)
         /\ \A r, q \in Station : \A c \in Call :
              /\ handed'[r][q][c] = IF r = s /\ InHand(r, q, c)
                                    THEN handed[r][q][c] + 1
                                    ELSE handed[r][q][c]
              /\ IF r = s THEN ~InHand(r, q, c)'
                 ELSE InHand(r, q, c)' <=> InHand(r, q, c)
<1>1. pc[s] = "ack" /\ frame[s] \in Frame
  BY DEF MAC_send_ack, IInv, CallState
<1>2. /\ frame[s].src \in Station
      /\ frame[s].data \in Call \cup {Ack}
      /\ [src |-> s, dst |-> frame[s].src, data |-> Ack] \in Frame
  BY <1>1 DEF Frame, Destination
<1>3. \E f \in Frame : f.data = Ack /\ Transmit(s, f)
  BY <1>2 DEF MAC_send_ack
<1>4. \A r, q \in Station : \A c \in Call :
        IF r = s THEN ~InHand(r, q, c)' ELSE InHand(r, q, c)' <=> InHand(r, q, c)
  <2>1. pc'[s] = "idle" /\ \A r \in Station \ {s} : pc'[r] = pc[r]
    BY DEF MAC_send_ack, IInv, TypeOK
  <2>2. \A r \in Station \ {s} : frame'[r] = frame[r]
    BY DEF MAC_send_ack, IInv, TypeOK
  <2>3. QED
    BY <2>1, <2>2 DEF InHand
<1>5. ASSUME NEW r \in Station, NEW q \in Station, NEW c \in Call
      PROVE  handed'[r][q][c] = IF r = s /\ InHand(r, q, c)
                                THEN handed[r][q][c] + 1
                                ELSE handed[r][q][c]
  <2>1. handed \in [Station -> [Station -> [Call -> Nat]]]
    BY DEF IInv, TypeOK
  <2>2. CASE frame[s].data = Ack
    <3>1. handed' = handed
      BY <2>2 DEF MAC_send_ack
    <3>2. ~(r = s /\ InHand(r, q, c))
      BY <2>2, CallTypes DEF InHand
    <3>3. QED
      BY <3>1, <3>2
  <2>3. CASE frame[s].data # Ack
    <3>1. handed' = [handed EXCEPT ![s][frame[s].src][frame[s].data] = @ + 1]
      BY <2>3 DEF MAC_send_ack
    <3>2. frame[s].data \in Call
      BY <1>2, <2>3
    <3>3. InHand(s, q, c) <=> frame[s].src = q /\ frame[s].data = c
      BY <1>1 DEF InHand
    <3>4. CASE r = s /\ frame[s].src = q /\ frame[s].data = c
      BY <1>2, <2>1, <3>1, <3>2, <3>3, <3>4
    <3>5. CASE ~(r = s /\ frame[s].src = q /\ frame[s].data = c)
      BY <1>2, <2>1, <3>1, <3>2, <3>3, <3>5
    <3>6. QED
      BY <3>4, <3>5
  <2>4. QED
    BY <2>2, <2>3
<1>6. QED
  BY <1>3, <1>4, <1>5

(* One that is handed up was in hand.                                      *)
LEMMA SendAckCopies ==
  ASSUME IInv, IInv', NEW s \in Station, MAC_send_ack(s),
         NEW r \in Station, NEW q \in Station, NEW c \in Call
  PROVE  Copies(r, q, c)' <= Copies(r, q, c)
<1>1. PICK f \in Frame : f.data = Ack /\ Transmit(s, f)
  BY SendAckEffect
<1>2. Cardinality(Places(inbox'[r], q, c)) + 0
        <= Cardinality(Places(inbox[r], q, c))
  <2>1. Cardinality(Places(inbox'[r], q, c)) <=
          Cardinality(Places(inbox[r], q, c))
            + (IF f.src = q /\ f.data = c THEN 1 ELSE 0)
    BY <1>1, TransmitPlaces DEF IInv
  <2>2. ~(f.src = q /\ f.data = c)
    BY <1>1, CallTypes
  <2>3. /\ Cardinality(Places(inbox'[r], q, c)) \in Nat
        /\ Cardinality(Places(inbox[r], q, c)) \in Nat
    BY CopiesType, CopiesTypeNext DEF IInv
  <2>4. QED
    BY <2>1, <2>2, <2>3
<1>3. handed[r][q][c] \in Nat
  BY CopiesType DEF IInv
<1>4. CASE r = s /\ InHand(r, q, c)
  <2>1. handed'[r][q][c] = handed[r][q][c] + 1 /\ ~InHand(r, q, c)'
    BY <1>4, SendAckEffect
  <2>2. (IF InHand(r, q, c)' THEN 1 ELSE 0) + 1
          <= (IF InHand(r, q, c) THEN 1 ELSE 0) + 0
    BY <1>4, <2>1
  <2>3. QED
    BY <1>2, <2>1, <2>2, CopiesParts
<1>5. CASE ~(r = s /\ InHand(r, q, c))
  <2>1. handed'[r][q][c] = handed[r][q][c] + 0
    BY <1>3, <1>5, SendAckEffect
  <2>2. InHand(r, q, c)' => InHand(r, q, c)
    BY <1>5, SendAckEffect
  <2>3. (IF InHand(r, q, c)' THEN 1 ELSE 0) + 0
          <= (IF InHand(r, q, c) THEN 1 ELSE 0) + 0
    BY <2>2
  <2>4. QED
    BY <1>2, <2>1, <2>3, CopiesParts
<1>6. QED
  BY <1>4, <1>5

(* The steps that send no payload, as far as calls are counted.            *)
WaitsOn ==
  /\ data' = data
  /\ \A q \in Station :
       pc'[q] = "wait" => pc[q] = "wait" /\ retries'[q] = retries[q]

GainsNothing ==
  /\ handed' = handed
  /\ \A r, q \in Station : \A c \in Call : InHand(r, q, c)' => InHand(r, q, c)

Empties == \A r \in Station : inbox'[r] \in {inbox[r], <<>>}

(* The steps of a receiver with a frame are none of a sender.              *)
LEMMA ReceiverWaitsOn ==
  ASSUME IInv, NEW s \in Station, TakeFrame(s) \/ MAC_send_ack(s)
  PROVE  WaitsOn
<1>1. data' = data /\ retries' = retries /\ pc'[s] \in {"ack", "idle"}
  BY DEF TakeFrame, MAC_send_ack, IInv, TypeOK
<1>2. \A q \in Station \ {s} : pc'[q] = pc[q]
  BY DEF TakeFrame, MAC_send_ack, IInv, TypeOK
<1>3. QED
  BY <1>1, <1>2 DEF WaitsOn

(* The steps that read a frame and lose it, or take it for the ack.        *)
LEMMA ReadAwayKinds ==
  ASSUME IInv, NEW s \in Station,
         AckReceived(s) \/ DropInsteadOfAck(s) \/ IgnoreBroadcast(s)
  PROVE  Reads(s) /\ Read(s) /\ WaitsOn /\ GainsNothing
<1>1. CASE AckReceived(s)
  <2>1. /\ Reads(s) /\ Read(s) /\ data' = data
        /\ handed' = handed /\ frame' = frame
    BY <1>1 DEF AckReceived
  <2>2. pc'[s] = "idle" /\ \A q \in Station \ {s} : pc'[q] = pc[q]
    BY <1>1 DEF AckReceived, IInv, TypeOK
  <2>3. \A q \in Station \ {s} : retries'[q] = retries[q]
    BY <1>1 DEF AckReceived, IInv, TypeOK
  <2>4. \A r, q \in Station : \A c \in Call : InHand(r, q, c)' => InHand(r, q, c)
    BY <2>1, <2>2 DEF InHand
  <2>5. QED
    BY <2>1, <2>2, <2>3, <2>4 DEF WaitsOn, GainsNothing
<1>2. CASE DropInsteadOfAck(s) \/ IgnoreBroadcast(s)
  <2>1. /\ Reads(s) /\ Read(s) /\ data' = data /\ handed' = handed
        /\ frame' = frame /\ pc' = pc /\ retries' = retries
    BY <1>2 DEF DropInsteadOfAck, IgnoreBroadcast
  <2>2. QED
    BY <2>1 DEF WaitsOn, GainsNothing, InHand
<1>3. QED
  BY <1>1, <1>2

(* The steps that leave inboxes alone or empty them.                       *)
LEMMA EmptyKinds ==
  ASSUME IInv, NEW s \in Station,
         \/ \E b \in BOOLEAN : MAC_recv_data(s, b)
         \/ RecvTimeout(s)
         \/ RecvError(s)
         \/ UNCHANGED vars
  PROVE  Empties /\ WaitsOn /\ GainsNothing
<1>1. CASE (\E b \in BOOLEAN : MAC_recv_data(s, b)) \/ RecvTimeout(s)
  <2>1. /\ inbox' = inbox /\ data' = data /\ handed' = handed
        /\ frame' = frame /\ retries' = retries
    BY <1>1 DEF MAC_recv_data, RecvTimeout
  <2>2. /\ pc'[s] \in {"idle", "recv", "recvAny"}
        /\ \A q \in Station \ {s} : pc'[q] = pc[q]
    BY <1>1 DEF MAC_recv_data, RecvTimeout, IInv, TypeOK
  <2>3. \A r, q \in Station : \A c \in Call : InHand(r, q, c)' => InHand(r, q, c)
    BY <2>1, <2>2 DEF InHand
  <2>4. QED
    BY <2>1, <2>2, <2>3 DEF Empties, WaitsOn, GainsNothing
<1>2. CASE RecvError(s)
  <2>1. /\ data' = data /\ handed' = handed /\ pc' = pc
        /\ frame' = frame /\ retries' = retries
    BY <1>2 DEF RecvError
  <2>2. \A r \in Station : inbox'[r] \in {inbox[r], <<>>}
    BY <1>2 DEF RecvError, IInv, TypeOK
  <2>3. QED
    BY <2>1, <2>2 DEF Empties, WaitsOn, GainsNothing, InHand
<1>3. CASE UNCHANGED vars
  BY <1>3 DEF vars, Empties, WaitsOn, GainsNothing, InHand
<1>4. QED
  BY <1>1, <1>2, <1>3

(* Every step is of one of five kinds.                                     *)
LEMMA StepKinds ==
  ASSUME IInv, [Next]_vars, NEW p \in Station
  PROVE  \E s \in Station :
           \/ (\E d \in Destination \ {s} : MAC_send_data(s, d)) \/ AckTimeout(s)
           \/ Reads(s) /\ Read(s) /\ WaitsOn /\ GainsNothing
           \/ TakeFrame(s)
           \/ MAC_send_ack(s)
           \/ Empties /\ WaitsOn /\ GainsNothing
<1>1. CASE UNCHANGED vars
  BY <1>1, EmptyKinds
<1>2. CASE Next
  BY <1>2, EmptyKinds, ReadAwayKinds DEF Next
<1>3. QED
  BY <1>1, <1>2

(* They make no copies.                                                    *)
LEMMA EmptiesCopies ==
  ASSUME IInv, IInv', Empties, GainsNothing,
         NEW r \in Station, NEW q \in Station, NEW c \in Call
  PROVE  Copies(r, q, c)' <= Copies(r, q, c)
<1>1. /\ Cardinality(Places(inbox'[r], q, c)) \in Nat
      /\ Cardinality(Places(inbox[r], q, c)) \in Nat
      /\ handed[r][q][c] \in Nat
  BY CopiesType, CopiesTypeNext DEF IInv
<1>2. Cardinality(Places(inbox'[r], q, c)) + 0
        <= Cardinality(Places(inbox[r], q, c))
  <2>1. CASE inbox'[r] = inbox[r]
    BY <1>1, <2>1
  <2>2. CASE inbox'[r] = <<>>
    <3>1. Places(inbox'[r], q, c) = {}
      BY <2>2 DEF Places
    <3>2. QED
      BY <1>1, <3>1, FS_EmptySet
  <2>3. QED
    BY <2>1, <2>2 DEF Empties
<1>3. handed'[r][q][c] = handed[r][q][c] + 0
  BY <1>1 DEF GainsNothing
<1>4. (IF InHand(r, q, c)' THEN 1 ELSE 0) + 0
        <= (IF InHand(r, q, c) THEN 1 ELSE 0) + 0
  BY DEF GainsNothing
<1>5. QED
  BY <1>2, <1>3, <1>4, CopiesParts

(* A transmission makes at most one copy at each station, and is counted.  *)
LEMMA SendCopies ==
  ASSUME IInv, IInv', EveryCopySent, NEW s \in Station,
         \/ \E d \in Destination \ {s} : MAC_send_data(s, d)
         \/ AckTimeout(s),
         NEW r \in Station, NEW q \in Station, NEW c \in Call
  PROVE  Copies(r, q, c)' <= TimesSent(q, c)'
<1>1. /\ Copies(r, q, c) \in Nat /\ TimesSent(q, c) \in Nat
      /\ handed[r][q][c] \in Nat
      /\ Cardinality(Places(inbox[r], q, c)) \in Nat
  BY CopiesType, LinkAssumption DEF IInv
<1>2. /\ Copies(r, q, c)' \in Nat /\ TimesSent(q, c)' \in Nat
      /\ Cardinality(Places(inbox'[r], q, c)) \in Nat
  BY CopiesTypeNext, LinkAssumption DEF IInv
<1>3. PICK f \in Frame : Transmit(s, f) /\ f.src = s /\ f.data = data'[s]
  BY SendsOfCall
<1>4. Cardinality(Places(inbox'[r], q, c)) <=
        Cardinality(Places(inbox[r], q, c))
          + (IF q = s /\ c = data'[s] THEN 1 ELSE 0)
  BY <1>3, TransmitPlaces DEF IInv
<1>5. TimesSent(q, c)' >=
        TimesSent(q, c) + (IF q = s /\ c = data'[s] THEN 1 ELSE 0)
  BY TransmitCounts
<1>6. handed' = handed /\ InHand(r, q, c)' = InHand(r, q, c)
  BY SendsOfCall
<1>7. Copies(r, q, c)' <=
        Copies(r, q, c) + (IF q = s /\ c = data'[s] THEN 1 ELSE 0)
  BY <1>1, <1>2, <1>4, <1>6 DEF Copies
<1>8. Copies(r, q, c) <= TimesSent(q, c)
  BY DEF EveryCopySent
<1>9. QED
  BY <1>1, <1>2, <1>5, <1>7, <1>8

(* So no step breaks EveryCopySent.                                        *)
LEMMA NextCopies ==
  ASSUME IInv, IInv', EveryCopySent, [Next]_vars
  PROVE  EveryCopySent'
<1> SUFFICES ASSUME NEW r \in Station, NEW q \in Station, NEW c \in Call
             PROVE  Copies(r, q, c)' <= TimesSent(q, c)'
  BY DEF EveryCopySent
<1>1. PICK s \in Station :
           \/ (\E d \in Destination \ {s} : MAC_send_data(s, d)) \/ AckTimeout(s)
           \/ Reads(s) /\ Read(s) /\ WaitsOn /\ GainsNothing
           \/ TakeFrame(s)
           \/ MAC_send_ack(s)
           \/ Empties /\ WaitsOn /\ GainsNothing
  BY StepKinds
<1>2. CASE (\E d \in Destination \ {s} : MAC_send_data(s, d)) \/ AckTimeout(s)
  BY <1>2, SendCopies
<1>3. CASE Reads(s) /\ Read(s) /\ WaitsOn /\ GainsNothing
  BY <1>3, ReadAwayCopies, SentStays DEF WaitsOn, GainsNothing
<1>4. CASE TakeFrame(s)
  BY <1>4, TakeFrameCopies, ReceiverWaitsOn, SentStays DEF WaitsOn
<1>5. CASE MAC_send_ack(s)
  BY <1>5, SendAckCopies, ReceiverWaitsOn, SentStays DEF WaitsOn
<1>6. CASE Empties /\ WaitsOn /\ GainsNothing
  BY <1>6, EmptiesCopies, SentStays DEF WaitsOn
<1>7. QED
  BY <1>1, <1>2, <1>3, <1>4, <1>5, <1>6

(* At first there are no copies.                                           *)
LEMMA InitCopies == Init => EveryCopySent /\ CallsInOrder
<1> SUFFICES ASSUME Init PROVE EveryCopySent /\ CallsInOrder
  OBVIOUS
<1>1. ASSUME NEW r \in Station, NEW q \in Station, NEW c \in Call
      PROVE  /\ handed[r][q][c] = 0 /\ ~InHand(r, q, c)
             /\ Places(inbox[r], q, c) = {}
             /\ Cardinality(Places(inbox[r], q, c)) = 0
             /\ TimesSent(q, c) = 0
  <2>1. handed[r][q][c] = 0 /\ inbox[r] = <<>> /\ pc[r] = "idle"
    BY DEF Init
  <2>2. Places(inbox[r], q, c) = {}
    BY <2>1 DEF Places
  <2>3. c > data[q]
    BY CallTypes DEF Init
  <2>4. QED
    BY <2>1, <2>2, <2>3, FS_EmptySet DEF InHand, TimesSent
<1>2. EveryCopySent
  BY <1>1 DEF EveryCopySent, Copies
<1>3. CallsInOrder
  BY <1>1 DEF CallsInOrder, OrderedCalls, Had
<1>4. QED
  BY <1>2, <1>3

-----------------------------------------------------------------------------
(* Order: what is handed up, in hand and unread. *)

(* Nothing new comes up, and what leaves a place is handed up or lost.     *)
LEMMA OrderKept ==
  ASSUME NEW r \in Station, NEW q \in Station, OrderedCalls(r, q),
         data[q] \in Int, data'[q] \in Int, data'[q] >= data[q],
         NEW k \in {0, 1},
         \A c \in Call :
           /\ Had(r, q, c)' => Had(r, q, c) \/ InHand(r, q, c)
           /\ InHand(r, q, c)' => InHand(r, q, c)
           /\ \A i \in Places(inbox'[r], q, c) :
                i \in Int /\ i + k \in Places(inbox[r], q, c)
  PROVE  OrderedCalls(r, q)'
<1> SUFFICES ASSUME NEW c \in Call
             PROVE  /\ Had(r, q, c)' \/ InHand(r, q, c)'
                         => \A e \in Call : Places(inbox'[r], q, e) # {} => c <= e
                    /\ Had(r, q, c)' =>
                         \A e \in Call : InHand(r, q, e)' => c <= e
                    /\ \A e \in Call : \A i \in Places(inbox'[r], q, c) :
                         \A j \in Places(inbox'[r], q, e) : i < j => c <= e
                    /\ Had(r, q, c)' \/ InHand(r, q, c)'
                         \/ Places(inbox'[r], q, c) # {} => c <= data'[q]
  BY DEF OrderedCalls
<1>1. Call \subseteq Int
  BY CallTypes
<1>2. Had(r, q, c)' \/ InHand(r, q, c)' => Had(r, q, c) \/ InHand(r, q, c)
  OBVIOUS
<1>3. \A e \in Call : Places(inbox'[r], q, e) # {}
                         => Places(inbox[r], q, e) # {}
  OBVIOUS
<1>4. Had(r, q, c)' \/ InHand(r, q, c)'
        => \A e \in Call : Places(inbox'[r], q, e) # {} => c <= e
  BY <1>2, <1>3 DEF OrderedCalls
<1>5. ASSUME Had(r, q, c)', NEW e \in Call, InHand(r, q, e)' PROVE c <= e
  <2>1. InHand(r, q, e)
    BY <1>5
  <2>2. CASE Had(r, q, c)
    BY <2>1, <2>2, <1>5 DEF OrderedCalls
  <2>3. CASE InHand(r, q, c)
    <3>1. c = e
      BY <2>1, <2>3 DEF InHand
    <3>2. QED
      BY <1>1, <3>1
  <2>4. QED
    BY <1>2, <1>5, <2>2, <2>3
<1>6. ASSUME NEW e \in Call, NEW i \in Places(inbox'[r], q, c),
             NEW j \in Places(inbox'[r], q, e), i < j
      PROVE  c <= e
  <2>1. /\ i \in Int /\ i + k \in Places(inbox[r], q, c)
        /\ j \in Int /\ j + k \in Places(inbox[r], q, e)
    OBVIOUS
  <2>2. i + k < j + k
    BY <1>6, <2>1
  <2>3. QED
    BY <2>1, <2>2 DEF OrderedCalls
<1>7. Had(r, q, c)' \/ InHand(r, q, c)' \/ Places(inbox'[r], q, c) # {}
        => c <= data'[q]
  <2>1. Had(r, q, c) \/ InHand(r, q, c) \/ Places(inbox[r], q, c) # {}
          => c <= data[q]
    BY DEF OrderedCalls
  <2>2. c \in Int
    BY <1>1
  <2>3. QED
    BY <1>2, <1>3, <2>1, <2>2
<1>8. QED
  BY <1>4, <1>5, <1>6, <1>7

(* Places are numbers.                                                     *)
LEMMA PlacesAreInt ==
  ASSUME IInv, NEW r \in Station, NEW q, NEW c
  PROVE  /\ Len(inbox[r]) \in Nat
         /\ \A i \in Places(inbox[r], q, c) : i \in Int /\ i <= Len(inbox[r])
<1>1. inbox[r] \in Seq(Frame)
  BY DEF IInv, TypeOK
<1>2. Places(inbox[r], q, c) \subseteq 1 .. Len(inbox[r])
  BY <1>1, PlacesFinite
<1>3. QED
  BY <1>1, <1>2, LenProperties

(* So are the numbers of calls.                                            *)
LEMMA DataAreInt ==
  ASSUME IInv, IInv', NEW q \in Station
  PROVE  data[q] \in Int /\ data'[q] \in Int
<1>1. data[q] \in Call \cup {0} /\ data'[q] \in Call \cup {0}
  BY DEF IInv, TypeOK
<1>2. QED
  BY <1>1, LinkAssumption DEF Call

(* Frames that stay where they are.                                        *)
LEMMA Unmoved ==
  ASSUME IInv, NEW r \in Station, NEW q \in Station,
         \A c \in Call : \A i \in Places(inbox'[r], q, c) :
           i \in Places(inbox[r], q, c)
  PROVE  \A c \in Call : \A i \in Places(inbox'[r], q, c) :
           i \in Int /\ i + 0 \in Places(inbox[r], q, c)
<1> SUFFICES ASSUME NEW c \in Call, NEW i \in Places(inbox'[r], q, c)
             PROVE  i \in Int /\ i + 0 \in Places(inbox[r], q, c)
  OBVIOUS
<1>1. i \in Places(inbox[r], q, c)
  OBVIOUS
<1>2. i \in Int
  BY <1>1, PlacesAreInt
<1>3. i + 0 = i
  BY <1>2
<1>4. QED
  BY <1>1, <1>2, <1>3

(* Reading and losing the first frame moves the others up.                 *)
LEMMA ReadAwayOrder ==
  ASSUME IInv, IInv', NEW s \in Station, Reads(s), Read(s),
         WaitsOn, GainsNothing,
         NEW r \in Station, NEW q \in Station, OrderedCalls(r, q)
  PROVE  OrderedCalls(r, q)'
<1>1. data[q] \in Int /\ data'[q] \in Int /\ data'[q] >= data[q]
  BY DataAreInt DEF WaitsOn
<1>2. \A c \in Call : /\ Had(r, q, c)' => Had(r, q, c) \/ InHand(r, q, c)
                      /\ InHand(r, q, c)' => InHand(r, q, c)
  BY DEF GainsNothing, Had
<1>3. CASE r = s
  <2>1. \A c \in Call : \A i \in Places(inbox'[r], q, c) :
          i \in Int /\ i + 1 \in Places(inbox[r], q, c)
    BY <1>3, ReadPlaces DEF IInv
  <2>2. QED
    BY <1>1, <1>2, <2>1, OrderKept
<1>4. CASE r # s
  <2>1. \A c \in Call : \A i \in Places(inbox'[r], q, c) :
          i \in Places(inbox[r], q, c)
    BY <1>4, ReadPlaces DEF IInv
  <2>2. \A c \in Call : \A i \in Places(inbox'[r], q, c) :
          i \in Int /\ i + 0 \in Places(inbox[r], q, c)
    BY <2>1, Unmoved
  <2>3. QED
    BY <1>1, <1>2, <2>2, OrderKept
<1>5. QED
  BY <1>3, <1>4

(* Nor do the steps that only lose frames reorder the others.              *)
LEMMA EmptiesOrder ==
  ASSUME IInv, IInv', Empties, WaitsOn, GainsNothing,
         NEW r \in Station, NEW q \in Station, OrderedCalls(r, q)
  PROVE  OrderedCalls(r, q)'
<1>1. data[q] \in Int /\ data'[q] \in Int /\ data'[q] >= data[q]
  BY DataAreInt DEF WaitsOn
<1>2. \A c \in Call : /\ Had(r, q, c)' => Had(r, q, c) \/ InHand(r, q, c)
                      /\ InHand(r, q, c)' => InHand(r, q, c)
  BY DEF GainsNothing, Had
<1>3. \A c \in Call : \A i \in Places(inbox'[r], q, c) :
        i \in Places(inbox[r], q, c)
  <2>1. CASE inbox'[r] = inbox[r]
    BY <2>1
  <2>2. CASE inbox'[r] = <<>>
    BY <2>2 DEF Places
  <2>3. QED
    BY <2>1, <2>2 DEF Empties
<1>4. \A c \in Call : \A i \in Places(inbox'[r], q, c) :
        i \in Int /\ i + 0 \in Places(inbox[r], q, c)
  BY <1>3, Unmoved
<1>5. QED
  BY <1>1, <1>2, <1>4, OrderKept

(* An ack that is sent is no payload; the frame in hand goes up.           *)
LEMMA SendAckOrder ==
  ASSUME IInv, IInv', NEW s \in Station, MAC_send_ack(s),
         NEW r \in Station, NEW q \in Station, OrderedCalls(r, q)
  PROVE  OrderedCalls(r, q)'
<1>1. data[q] \in Int /\ data'[q] \in Int /\ data'[q] >= data[q]
  BY DataAreInt, ReceiverWaitsOn DEF WaitsOn
<1>2. ASSUME NEW c \in Call
      PROVE  /\ Had(r, q, c)' => Had(r, q, c) \/ InHand(r, q, c)
             /\ InHand(r, q, c)' => InHand(r, q, c)
  <2>1. handed'[r][q][c] = IF r = s /\ InHand(r, q, c)
                           THEN handed[r][q][c] + 1
                           ELSE handed[r][q][c]
    BY SendAckEffect
  <2>2. InHand(r, q, c)' => InHand(r, q, c)
    BY SendAckEffect
  <2>3. QED
    BY <2>1, <2>2 DEF Had
<1>3. PICK f \in Frame : f.data = Ack /\ Transmit(s, f)
  BY SendAckEffect
<1>4. ASSUME NEW c \in Call, NEW i \in Places(inbox'[r], q, c)
      PROVE  i \in Places(inbox[r], q, c)
  <2>1. \/ i \in Places(inbox[r], q, c)
        \/ i = Len(inbox[r]) + 1 /\ f.src = q /\ f.data = c
    BY <1>3, TransmitPlaces DEF IInv
  <2>2. QED
    BY <1>3, <2>1, CallTypes
<1>5. \A c \in Call : \A i \in Places(inbox'[r], q, c) :
        i \in Int /\ i + 0 \in Places(inbox[r], q, c)
  BY <1>4, Unmoved
<1>6. QED
  BY <1>1, <1>2, <1>5, OrderKept

(* The first unread frame is in hand, and is not newer than the others.    *)
LEMMA TakeFrameOrder ==
  ASSUME IInv, IInv', NEW s \in Station, TakeFrame(s),
         NEW r \in Station, NEW q \in Station, OrderedCalls(r, q)
  PROVE  OrderedCalls(r, q)'
<1>1. Reads(s) /\ Read(s) /\ handed' = handed /\ data' = data
  BY DEF TakeFrame
<1>2. data[q] \in Int /\ data'[q] \in Int /\ data'[q] >= data[q]
  BY <1>1, DataAreInt
<1>3. CASE r # s
  <2>1. \A c \in Call : \A i \in Places(inbox'[r], q, c) :
          i \in Places(inbox[r], q, c)
    BY <1>1, <1>3, ReadPlaces DEF IInv
  <2>2. \A c \in Call : \A i \in Places(inbox'[r], q, c) :
          i \in Int /\ i + 0 \in Places(inbox[r], q, c)
    BY <2>1, Unmoved
  <2>3. \A c \in Call : /\ Had(r, q, c)' => Had(r, q, c) \/ InHand(r, q, c)
                        /\ InHand(r, q, c)' => InHand(r, q, c)
    BY <1>1, <1>3, TakenInHand DEF Had
  <2>4. QED
    BY <1>2, <2>2, <2>3, OrderKept
<1>4. CASE r = s
  <2>1. ASSUME NEW c \in Call
        PROVE  /\ Had(r, q, c)' <=> Had(r, q, c)
               /\ InHand(r, q, c)' <=> 1 \in Places(inbox[r], q, c)
               /\ \A i \in Places(inbox'[r], q, c) :
                    i \in Nat /\ i >= 1 /\ i + 1 \in Places(inbox[r], q, c)
    <3>1. InHand(r, q, c)' <=> 1 \in Places(inbox[r], q, c)
      <4>1. InHand(r, q, c)' <=>
              Head(inbox[s]).src = q /\ Head(inbox[s]).data = c
        BY <1>4, TakenInHand
      <4>2. 1 \in Places(inbox[s], q, c) <=>
              Head(inbox[s]).src = q /\ Head(inbox[s]).data = c
        BY <1>1, ReadPlaces DEF IInv
      <4>3. QED
        BY <1>4, <4>1, <4>2
    <3>2. \A i \in Places(inbox'[r], q, c) :
            i \in Nat /\ i >= 1 /\ i + 1 \in Places(inbox[r], q, c)
      BY <1>1, <1>4, ReadPlaces DEF IInv
    <3>3. Had(r, q, c)' <=> Had(r, q, c)
      BY <1>1 DEF Had
    <3>4. QED
      BY <3>1, <3>2, <3>3
  <2>2. \A c \in Call : Places(inbox'[r], q, c) # {}
                          => Places(inbox[r], q, c) # {}
    BY <2>1
  <2> SUFFICES ASSUME NEW c \in Call
               PROVE  /\ Had(r, q, c)' \/ InHand(r, q, c)' =>
                           \A e \in Call : Places(inbox'[r], q, e) # {} => c <= e
                      /\ Had(r, q, c)' =>
                           \A e \in Call : InHand(r, q, e)' => c <= e
                      /\ \A e \in Call : \A i \in Places(inbox'[r], q, c) :
                           \A j \in Places(inbox'[r], q, e) : i < j => c <= e
                      /\ Had(r, q, c)' \/ InHand(r, q, c)'
                           \/ Places(inbox'[r], q, c) # {} => c <= data'[q]
    BY DEF OrderedCalls
  <2>3. ASSUME InHand(r, q, c)', NEW e \in Call, Places(inbox'[r], q, e) # {}
        PROVE  c <= e
    <3>1. PICK j \in Places(inbox'[r], q, e) :
            j \in Nat /\ j >= 1 /\ j + 1 \in Places(inbox[r], q, e)
      BY <2>1, <2>3
    <3>2. 1 \in Places(inbox[r], q, c) /\ 1 < j + 1
      BY <2>1, <2>3, <3>1
    <3>3. QED
      BY <3>1, <3>2 DEF OrderedCalls
  <2>4. Had(r, q, c)' =>
          \A e \in Call : Places(inbox'[r], q, e) # {} => c <= e
    BY <2>1, <2>2 DEF OrderedCalls
  <2>5. Had(r, q, c)' => \A e \in Call : InHand(r, q, e)' => c <= e
    <3>1. \A e \in Call : InHand(r, q, e)' => Places(inbox[r], q, e) # {}
      BY <2>1
    <3>2. QED
      BY <2>1, <3>1 DEF OrderedCalls
  <2>6. ASSUME NEW e \in Call, NEW i \in Places(inbox'[r], q, c),
               NEW j \in Places(inbox'[r], q, e), i < j
        PROVE  c <= e
    <3>1. /\ i \in Nat /\ i + 1 \in Places(inbox[r], q, c)
          /\ j \in Nat /\ j + 1 \in Places(inbox[r], q, e)
      BY <2>1
    <3>2. i + 1 < j + 1
      BY <2>6, <3>1
    <3>3. QED
      BY <3>1, <3>2 DEF OrderedCalls
  <2>7. Had(r, q, c)' \/ InHand(r, q, c)' \/ Places(inbox'[r], q, c) # {}
          => c <= data'[q]
    <3>1. Had(r, q, c)' \/ InHand(r, q, c)' \/ Places(inbox'[r], q, c) # {}
            => Had(r, q, c) \/ Places(inbox[r], q, c) # {}
      BY <2>1, <2>2
    <3>2. QED
      BY <1>1, <3>1 DEF OrderedCalls
  <2>8. QED
    BY <2>3, <2>4, <2>5, <2>6, <2>7
<1>5. QED
  BY <1>3, <1>4

(* A transmission is of the newest call, behind everything unread.         *)
LEMMA SendOrder ==
  ASSUME IInv, IInv', NEW s \in Station,
         \/ \E d \in Destination \ {s} : MAC_send_data(s, d)
         \/ AckTimeout(s),
         NEW r \in Station, NEW q \in Station, OrderedCalls(r, q)
  PROVE  OrderedCalls(r, q)'
<1>1. PICK f \in Frame : Transmit(s, f) /\ f.src = s /\ f.data = data'[s]
  BY SendsOfCall
<1>2. /\ data[q] \in Int /\ data'[q] \in Int
      /\ data[s] \in Int /\ data'[s] \in Int
  BY DataAreInt
<1>3. data'[s] >= data[s] /\ data'[q] >= data[q]
  <2>1. data'[s] >= data[s]
    BY SendsOfCall
  <2>2. CASE q # s
    <3>1. data'[q] = data[q]
      BY <2>2, SendsOfCall
    <3>2. QED
      BY <1>2, <2>1, <3>1
  <2>3. QED
    BY <2>1, <2>2
<1>4. \A c \in Call : /\ Had(r, q, c)' <=> Had(r, q, c)
                      /\ InHand(r, q, c)' <=> InHand(r, q, c)
  BY SendsOfCall DEF Had
<1>5. ASSUME NEW c \in Call, NEW i \in Places(inbox'[r], q, c)
      PROVE  /\ i \in Int
             /\ \/ i \in Places(inbox[r], q, c) /\ i <= Len(inbox[r])
                \/ i = Len(inbox[r]) + 1 /\ q = s /\ c = data'[s]
  <2>1. \/ i \in Places(inbox[r], q, c)
        \/ i = Len(inbox[r]) + 1 /\ f.src = q /\ f.data = c
    BY <1>1, TransmitPlaces DEF IInv
  <2>2. Len(inbox[r]) \in Nat
    BY PlacesAreInt
  <2>3. CASE i \in Places(inbox[r], q, c)
    BY <2>3, PlacesAreInt
  <2>4. CASE i = Len(inbox[r]) + 1 /\ f.src = q /\ f.data = c
    BY <1>1, <2>2, <2>4
  <2>5. QED
    BY <2>1, <2>3, <2>4
<1>6. Len(inbox[r]) \in Nat /\ Call \subseteq Int
  BY PlacesAreInt, CallTypes
<1>7. CASE q # s
  <2>1. \A c \in Call : \A i \in Places(inbox'[r], q, c) :
          i \in Int /\ i + 0 \in Places(inbox[r], q, c)
    <3>1. \A c \in Call : \A i \in Places(inbox'[r], q, c) :
            i \in Places(inbox[r], q, c)
      BY <1>5, <1>7
    <3>2. QED
      BY <3>1, Unmoved
  <2>2. QED
    BY <1>2, <1>3, <1>4, <2>1, OrderKept
<1>8. CASE q = s
  <2> SUFFICES ASSUME NEW c \in Call
               PROVE  /\ Had(r, q, c)' \/ InHand(r, q, c)' =>
                           \A e \in Call : Places(inbox'[r], q, e) # {} => c <= e
                      /\ Had(r, q, c)' =>
                           \A e \in Call : InHand(r, q, e)' => c <= e
                      /\ \A e \in Call : \A i \in Places(inbox'[r], q, c) :
                           \A j \in Places(inbox'[r], q, e) : i < j => c <= e
                      /\ Had(r, q, c)' \/ InHand(r, q, c)'
                           \/ Places(inbox'[r], q, c) # {} => c <= data'[q]
    BY DEF OrderedCalls
  <2>1. Had(r, q, c) \/ InHand(r, q, c) \/ Places(inbox[r], q, c) # {}
          => c <= data'[q]
    <3>1. Had(r, q, c) \/ InHand(r, q, c) \/ Places(inbox[r], q, c) # {}
            => c <= data[q]
      BY DEF OrderedCalls
    <3>2. c \in Int
      BY <1>6
    <3>3. QED
      BY <1>2, <1>3, <3>1, <3>2
  <2>2. ASSUME Had(r, q, c) \/ InHand(r, q, c),
               NEW e \in Call, NEW j \in Places(inbox'[r], q, e)
        PROVE  c <= e
    <3>1. CASE j \in Places(inbox[r], q, e)
      BY <2>2, <3>1 DEF OrderedCalls
    <3>2. CASE e = data'[s]
      BY <1>8, <2>1, <2>2, <3>2
    <3>3. QED
      BY <1>5, <3>1, <3>2
  <2>3. Had(r, q, c)' => \A e \in Call : InHand(r, q, e)' => c <= e
    BY <1>4 DEF OrderedCalls
  <2>4. ASSUME NEW e \in Call, NEW i \in Places(inbox'[r], q, c),
               NEW j \in Places(inbox'[r], q, e), i < j
        PROVE  c <= e
    <3>1. /\ i \in Int /\ j \in Int
          /\ \/ i \in Places(inbox[r], q, c) /\ i <= Len(inbox[r])
             \/ i = Len(inbox[r]) + 1
          /\ \/ j \in Places(inbox[r], q, e) /\ j <= Len(inbox[r])
             \/ j = Len(inbox[r]) + 1 /\ e = data'[s]
      BY <1>5
    <3>2. i \in Places(inbox[r], q, c)
      BY <1>6, <2>4, <3>1
    <3>3. CASE j \in Places(inbox[r], q, e)
      BY <2>4, <3>2, <3>3 DEF OrderedCalls
    <3>4. CASE e = data'[s]
      BY <1>8, <2>1, <3>2, <3>4
    <3>5. QED
      BY <3>1, <3>3, <3>4
  <2>5. Places(inbox'[r], q, c) # {} => c <= data'[q]
    <3>1. Places(inbox'[r], q, c) # {}
            => Places(inbox[r], q, c) # {} \/ c = data'[q]
      BY <1>5, <1>8
    <3>2. QED
      BY <1>2, <2>1, <3>1
  <2>6. QED
    BY <1>4, <2>1, <2>2, <2>3, <2>4, <2>5
<1>9. QED
  BY <1>7, <1>8

(* So no step breaks CallsInOrder.                                         *)
LEMMA NextOrder ==
  ASSUME IInv, IInv', CallsInOrder, [Next]_vars
  PROVE  CallsInOrder'
<1> SUFFICES ASSUME NEW r \in Station, NEW q \in Station
             PROVE  OrderedCalls(r, q)'
  BY DEF CallsInOrder
<1>1. OrderedCalls(r, q)
  BY DEF CallsInOrder
<1>2. PICK s \in Station :
           \/ (\E d \in Destination \ {s} : MAC_send_data(s, d)) \/ AckTimeout(s)
           \/ Reads(s) /\ Read(s) /\ WaitsOn /\ GainsNothing
           \/ TakeFrame(s)
           \/ MAC_send_ack(s)
           \/ Empties /\ WaitsOn /\ GainsNothing
  BY StepKinds
<1>3. CASE (\E d \in Destination \ {s} : MAC_send_data(s, d)) \/ AckTimeout(s)
  BY <1>1, <1>3, SendOrder
<1>4. CASE Reads(s) /\ Read(s) /\ WaitsOn /\ GainsNothing
  BY <1>1, <1>4, ReadAwayOrder
<1>5. CASE TakeFrame(s)
  BY <1>1, <1>5, TakeFrameOrder
<1>6. CASE MAC_send_ack(s)
  BY <1>1, <1>6, SendAckOrder
<1>7. CASE Empties /\ WaitsOn /\ GainsNothing
  BY <1>1, <1>7, EmptiesOrder
<1>8. QED
  BY <1>2, <1>3, <1>4, <1>5, <1>6, <1>7

(* What a station hands up is not older than what it has handed up.        *)
LEMMA StepHandsUpInOrder ==
  ASSUME IInv, CallsInOrder, [Next]_vars,
         NEW r \in Station, NEW q \in Station, NEW c \in Call,
         handed'[r][q][c] # handed[r][q][c],
         NEW e \in Call, e > c
  PROVE  handed[r][q][e] = 0
<1>1. handed' # handed
  OBVIOUS
<1>2. PICK s \in Station : MAC_send_ack(s)
  <2>1. PICK s \in Station :
           \/ (\E d \in Destination \ {s} : MAC_send_data(s, d)) \/ AckTimeout(s)
           \/ Reads(s) /\ Read(s) /\ WaitsOn /\ GainsNothing
           \/ TakeFrame(s)
           \/ MAC_send_ack(s)
           \/ Empties /\ WaitsOn /\ GainsNothing
    BY StepKinds
  <2>2. QED
    BY <1>1, <2>1, SendsOfCall DEF GainsNothing, TakeFrame
<1>3. InHand(r, q, c)
  BY <1>2, SendAckEffect
<1>4. Had(r, q, e) => e <= c
  BY <1>3 DEF CallsInOrder, OrderedCalls
<1>5. e \in Int /\ c \in Int /\ handed[r][q][e] \in Nat
  BY CallTypes DEF IInv, TypeOK
<1>6. QED
  BY <1>4, <1>5 DEF Had

(* The copies of a payload, wherever they are, have been sent, and nothing *)
(* overtakes: the invariant CopiesInv holds.                               *)
THEOREM CopiesInvHolds == Spec => []CopiesInv
<1>1. Init => CopiesInv
  BY InitCopies DEF CopiesInv
<1>2. IInv /\ IInv' /\ CopiesInv /\ [Next]_vars => CopiesInv'
  BY NextCopies, NextOrder DEF CopiesInv
<1>3. QED
  BY <1>1, <1>2, InvariantHolds, PTL DEF Spec

(* What is known of calls, acks and copies holds in every state.           *)
THEOREM LinkInvHolds == Spec => []LinkInv
<1>1. IInv /\ CopiesInv => LinkInv
  BY DEF LinkInv
<1>2. QED
  BY <1>1, InvariantHolds, CopiesInvHolds, PTL

(* A payload reaches a station at most as often as it was sent, and a call *)
(* of MAC_send_data sends at most MAC_MAX_RETRIES times.                   *)
THEOREM BoundedDuplication == Spec => []BoundedDuplicates
<1>1. IInv /\ CopiesInv => BoundedDuplicates
  <2> SUFFICES ASSUME IInv, EveryCopySent,
                      NEW r \in Station, NEW s \in Station, NEW c \in Call
               PROVE  handed[r][s][c] <= MAC_MAX_RETRIES
    BY DEF BoundedDuplicates, CopiesInv
  <2>1. /\ handed[r][s][c] \in Nat
        /\ Cardinality(Places(inbox[r], s, c)) \in Nat
        /\ TimesSent(s, c) \in 0 .. MAC_MAX_RETRIES
    BY CopiesType DEF IInv
  <2>2. Copies(r, s, c) <= TimesSent(s, c)
    BY DEF EveryCopySent
  <2>3. QED
    BY <2>1, <2>2, LinkAssumption DEF Copies
<1>2. QED
  BY <1>1, CopiesInvHolds, InvariantHolds, PTL

(* No station hands up a late copy after a newer payload of its sender.    *)
THEOREM HandedUpInOrder == Spec => InOrder
<1>1. IInv /\ CopiesInv /\ [Next]_vars =>
        [\A r, s \in Station : \A c \in Call :
           handed'[r][s][c] # handed[r][s][c] =>
             \A e \in Call : e > c => handed[r][s][e] = 0]_vars
  BY StepHandsUpInOrder DEF CopiesInv
<1>2. QED
  BY <1>1, CopiesInvHolds, InvariantHolds, PTL DEF Spec, InOrder
-----------------------------------------------------------------------------
(* ---- The tests of BoardTests. ---- *)

(* A call of the MAC layer that the loops make, or none.                   *)
LEMMA LoopStepMaps ==
  ASSUME NEW s \in Station,
         InCall(s) \/ HandsUp(s) \/ \E b \in BOOLEAN : Listens(s, b)
  PROVE  Next
BY DEF InCall, HandsUp, Listens, Next

LEMMA SendMaps ==
  ASSUME NEW s \in Station, NEW d \in Destination \ {s}, NEW n, Sends(s, d, n)
  PROVE  Next
BY DEF Sends, Next

LEMMA Peers ==
  /\ tester \in Station /\ target \in Destination \ {tester}
  /\ target \in Station /\ tester \in Destination \ {target}
  /\ BroadcastMac \in Destination \ {tester}
BY BoardTestsAssumption, LinkAssumption DEF Destination

LEMMA MacTestMaps == MacTest => [Next]_vars
<1> SUFFICES ASSUME MacTest PROVE [Next]_vars
  OBVIOUS
<1>1. CASE SendsToBroadcast \/ SendsToTarget
  BY <1>1, Peers, SendMaps DEF SendsToBroadcast, SendsToTarget
<1>2. CASE PrintsData
  BY <1>2 DEF PrintsData
<1>3. QED
  BY <1>1, <1>2 DEF MacTest

(* What the returns of IP_recv_data have in common.                        *)
LEMMA Returns ==
  ASSUME RecvReturns
  PROVE  /\ at[tester] = "back" /\ pc[tester] = "idle"
         /\ UNCHANGED vars /\ UNCHANGED <<number, said, heard>>
         /\ got' = [got EXCEPT ![tester] = NoFrame]
         /\ \E p \in {"hello", "fault"} : at' = [at EXCEPT ![tester] = p]
         /\ PrintsAnswer \/ answered' = answered
<1>1. IP_recv_data_returns
  BY DEF RecvReturns, PrintsAnswer, ParsesAck, PrintsNothing
<1>2. \E p \in {"hello", "fault"} : at' = [at EXCEPT ![tester] = p]
  <2>1. \/ at' = [at EXCEPT ![tester] = "hello"]
        \/ at' = [at EXCEPT ![tester] = "fault"]
    BY DEF RecvReturns, PrintsAnswer, ParsesAck, PrintsNothing
  <2>2. QED
    BY <2>1
<1>3. PrintsAnswer \/ answered' = answered
  BY DEF RecvReturns, ParsesAck, PrintsNothing
<1>4. QED
  BY <1>1, <1>2, <1>3 DEF IP_recv_data_returns

LEMMA IpTestMaps == IpTest => [Next]_vars
<1> SUFFICES ASSUME IpTest PROVE [Next]_vars
  OBVIOUS
<1>1. CASE SendsHello \/ SendsAnswer
  BY <1>1, Peers, SendMaps DEF SendsHello, SendsAnswer, IP_send_data
<1>2. CASE HelloSent
  BY <1>2, Peers DEF HelloSent, Next
<1>3. CASE HelloFails \/ RecvReturns \/ PrintsHello \/ Invalid
  BY <1>3, Returns DEF HelloFails, PrintsHello, Invalid
<1>4. QED
  BY <1>1, <1>2, <1>3 DEF IpTest

(* A step of a test is a step of Link or leaves it alone.                  *)
LEMMA TestStepMaps == [TestNext]_allVars => [Next]_vars
<1> SUFFICES ASSUME [TestNext]_allVars PROVE [Next]_vars
  OBVIOUS
<1>1. CASE MacTest \/ IpTest
  BY <1>1, MacTestMaps, IpTestMaps
<1>2. CASE Listens(target, TRUE) \/ \E s \in Station : InCall(s) \/ HandsUp(s)
  BY <1>2, Peers, LoopStepMaps
<1>3. CASE UNCHANGED allVars
  BY <1>3 DEF allVars
<1>4. QED
  BY <1>1, <1>2, <1>3 DEF TestNext

(* The boards under test are stations of Link.                             *)
THEOREM TestsUseLink == TestSpec => Spec
<1>1. TestInit => Init
  BY DEF TestInit
<1>2. QED
  BY <1>1, TestStepMaps, PTL DEF TestSpec, Spec

(* So what a test reports as sent from quiet was handed up.                *)
THEOREM TestsDeliver == TestSpec => []QuietSuccessIsDelivery
BY TestsUseLink, QuietSuccessDelivers, PTL

(* And the boards hand up what the other sent in the order it was sent,    *)
(* which is why the numbers they print never go back.                      *)
THEOREM TestsHandUpInOrder == TestSpec => InOrder
BY TestsUseLink, HandedUpInOrder, PTL

(* ---- What a step of the MAC layer brings a board. ---- *)

(* A frame comes from another board, an ack from one that had a frame.     *)
LEMMA NewFrames ==
  ASSUME IInv, [Next]_vars, NEW r \in Station, NEW f \in Unread(r)',
         f \notin Unread(r)
  PROVE  \E s \in Station \ {r} : f.src = s /\ (f.data = Ack => pc[s] = "ack")
<1> TypeOK
  BY DEF IInv
<1>1. PICK s \in Station :
         \/ (\E d \in Destination \ {s} : MAC_send_data(s, d)) \/ AckTimeout(s)
         \/ Reads(s) /\ Read(s)
         \/ TakeFrame(s)
         \/ MAC_send_ack(s)
         \/ Empties
  BY StepKinds
<1>2. ASSUME Reads(s), Read(s) PROVE FALSE
  BY <1>2, ReadKeepsRest
<1>3. ASSUME Empties PROVE FALSE
  <2>1. inbox'[r] = inbox[r] \/ inbox'[r] = <<>>
    BY <1>3 DEF Empties
  <2>2. QED
    BY <2>1 DEF Unread
<1>4. ASSUME NEW g \in Frame, Transmit(s, g) PROVE f = g /\ r # s
  BY <1>4, TransmitAddsFrame
<1>5. CASE (\E d \in Destination \ {s} : MAC_send_data(s, d)) \/ AckTimeout(s)
  <2>1. PICK g \in Frame : Transmit(s, g) /\ g.src = s /\ g.data = data'[s]
    BY <1>5, SendsOfCall
  <2>2. data'[s] \in Call
    BY <1>5, SendsOfCall
  <2>3. QED
    BY <1>4, <2>1, <2>2, CallTypes
<1>6. CASE MAC_send_ack(s)
  <2> DEFINE g == [src |-> s, dst |-> frame[s].src, data |-> Ack]
  <2>1. pc[s] = "ack" /\ frame[s] \in Frame /\ Transmit(s, g)
    BY <1>6 DEF MAC_send_ack, IInv, CallState
  <2>2. g \in Frame /\ g.src = s
    BY <2>1 DEF Frame, Destination
  <2>3. QED
    BY <1>4, <2>1, <2>2
<1>7. QED
  BY <1>1, <1>2, <1>3, <1>5, <1>6 DEF TakeFrame

(* What is being acknowledged was so before, or was unread.                *)
LEMMA NewInHand ==
  ASSUME IInv, [Next]_vars, NEW r \in Station, pc'[r] = "ack"
  PROVE  (pc[r] = "ack" /\ frame'[r] = frame[r]) \/ frame'[r] \in Unread(r)
<1> TypeOK
  BY DEF IInv
<1>1. CASE UNCHANGED vars
  BY <1>1 DEF vars
<1>2. ASSUME NEW s \in Station, TakeFrame(s)
      PROVE  (pc[r] = "ack" /\ frame'[r] = frame[r]) \/ frame'[r] \in Unread(r)
  <2>1. CASE r = s
    <3>1. frame'[r] = Head(inbox[r])
      BY <1>2, <2>1 DEF TakeFrame, TypeOK
    <3>2. QED
      BY <1>2, <2>1, <3>1, ReadKeepsRest DEF TakeFrame
  <2>2. CASE r # s
    BY <1>2, <2>2 DEF TakeFrame, TypeOK
  <2>3. QED
    BY <2>1, <2>2
<1>3. ASSUME NEW s \in Station, MAC_send_ack(s)
      PROVE  pc[r] = "ack" /\ frame'[r] = frame[r]
  BY <1>3 DEF MAC_send_ack, TypeOK
<1>4. ASSUME NEW s \in Station,
             \/ \E d \in Destination \ {s} : MAC_send_data(s, d)
             \/ AckReceived(s) \/ DropInsteadOfAck(s) \/ AckTimeout(s)
             \/ \E b \in BOOLEAN : MAC_recv_data(s, b)
             \/ IgnoreBroadcast(s) \/ RecvTimeout(s) \/ RecvError(s)
      PROVE  pc[r] = "ack" /\ frame'[r] = frame[r]
  <2>1. frame' = frame
    BY <1>4 DEF MAC_send_data, AckReceived, DropInsteadOfAck, AckTimeout,
       MAC_recv_data, IgnoreBroadcast, RecvTimeout, RecvError
  <2>2. pc' = pc \/ \E p \in {"idle", "wait", "recv", "recvAny"} :
                      pc' = [pc EXCEPT ![s] = p]
    BY <1>4 DEF MAC_send_data, AckReceived, DropInsteadOfAck, AckTimeout,
       MAC_recv_data, IgnoreBroadcast, RecvTimeout, RecvError, CountTransmission
  <2>3. QED
    BY <2>1, <2>2 DEF TypeOK
<1>5. QED
  BY <1>1, <1>2, <1>3, <1>4 DEF Next

(* What a board has been handed, it keeps having.                          *)
LEMMA HadStays ==
  ASSUME IInv, [Next]_vars,
         NEW r \in Station, NEW s \in Station, NEW c \in Call, Had(r, s, c)
  PROVE  Had(r, s, c)'
<1>1. CASE handed' = handed
  BY <1>1 DEF Had
<1>2. ASSUME NEW q \in Station, MAC_send_ack(q) PROVE Had(r, s, c)'
  <2>1. handed'[r][s][c] \in {handed[r][s][c], handed[r][s][c] + 1}
    BY <1>2, SendAckEffect
  <2>2. handed[r][s][c] \in Nat
    BY DEF IInv, TypeOK
  <2>3. QED
    BY <2>1, <2>2 DEF Had
<1>3. QED
  BY <1>1, <1>2 DEF vars, Next, MAC_send_data, AckReceived, DropInsteadOfAck,
     AckTimeout, MAC_recv_data, TakeFrame, IgnoreBroadcast, RecvTimeout, RecvError

(* And handing up is having.                                               *)
LEMMA HandedUpIsHad ==
  ASSUME IInv, NEW s \in Station, MAC_send_ack(s), frame[s].data # Ack
  PROVE  handed'[s][frame[s].src][frame[s].data] > 0
<1>1. pc[s] = "ack" /\ frame[s] \in Frame
  BY DEF MAC_send_ack, IInv, CallState
<1>2. frame[s].src \in Station /\ frame[s].data \in Call
  BY <1>1 DEF Frame
<1>3. InHand(s, frame[s].src, frame[s].data)
  BY <1>1 DEF InHand
<1>4. handed'[s][frame[s].src][frame[s].data] =
        handed[s][frame[s].src][frame[s].data] + 1
  BY <1>2, <1>3, SendAckEffect
<1>5. handed[s][frame[s].src][frame[s].data] \in Nat
  BY <1>2 DEF IInv, TypeOK
<1>6. QED
  BY <1>4, <1>5

(* ---- The boards under test. ---- *)

(* The frame that the last MAC_recv_data handed up.                        *)
LEMMA GotKinds ==
  ASSUME TestTypeOK, [TestNext]_allVars, NEW r \in Station
  PROVE  \/ got'[r] \in {got[r], NoFrame}
         \/ MAC_send_ack(r) /\ got'[r] = frame[r]
<1>1. CASE got' = got
  BY <1>1
<1>2. ASSUME NEW s \in Station, got' = [got EXCEPT ![s] = NoFrame]
      PROVE  got'[r] \in {got[r], NoFrame}
  BY <1>2 DEF TestTypeOK
<1>3. ASSUME NEW s \in Station, HandsUp(s)
      PROVE  got'[r] = got[r] \/ (MAC_send_ack(r) /\ got'[r] = frame[r])
  <2>1. MAC_send_ack(s) /\ got' = [got EXCEPT ![s] = frame[s]]
    BY <1>3 DEF HandsUp
  <2>2. got \in [Station -> Frame \cup {NoFrame}]
    BY DEF TestTypeOK
  <2>3. got'[r] = IF r = s THEN frame[s] ELSE got[r]
    BY <2>1, <2>2
  <2>4. QED
    BY <2>1, <2>3
<1>4. CASE PrintsData \/ RecvReturns \/ PrintsHello \/ Invalid
  BY <1>2, <1>4, Peers, Returns DEF PrintsData, PrintsHello, Invalid
<1>5. CASE \/ SendsToBroadcast \/ SendsToTarget \/ SendsHello \/ HelloFails
           \/ HelloSent \/ SendsAnswer
  BY <1>1, <1>5 DEF SendsToBroadcast, SendsToTarget, SendsHello, HelloFails,
     HelloSent, SendsAnswer
<1>6. CASE Listens(target, TRUE) \/ \E s \in Station : InCall(s)
  BY <1>1, <1>6 DEF Listens, InCall, test
<1>7. CASE UNCHANGED allVars
  BY <1>1, <1>7 DEF allVars, test
<1>8. QED
  BY <1>3, <1>4, <1>5, <1>6, <1>7 DEF TestNext, MacTest, IpTest

LEMMA FromPeerStays ==
  ASSUME IInv, TestTypeOK, FromPeer, [TestNext]_allVars
  PROVE  FromPeer'
<1>1. [Next]_vars
  BY TestStepMaps
<1> SUFFICES ASSUME NEW s \in Station
             PROVE  /\ \A f \in Unread(s)' : f.src # s
                    /\ pc'[s] = "ack" => frame'[s].src # s
                    /\ got'[s] # NoFrame =>
                         /\ got'[s].src # s
                         /\ \/ got'[s].data = Ack
                            \/ handed'[s][got'[s].src][got'[s].data] > 0
  BY DEF FromPeer, Had
<1>2. ASSUME NEW f \in Unread(s)' PROVE f.src # s
  BY <1>1, <1>2, NewFrames DEF FromPeer
<1>3. ASSUME pc'[s] = "ack" PROVE frame'[s].src # s
  BY <1>1, <1>3, NewInHand DEF FromPeer
<1>4. ASSUME got'[s] # NoFrame
      PROVE  /\ got'[s].src # s
             /\ got'[s].data = Ack \/ handed'[s][got'[s].src][got'[s].data] > 0
  <2>1. CASE got'[s] = got[s]
    <3>1. got[s] \in Frame
      BY <1>4, <2>1 DEF TestTypeOK
    <3>2. got[s].src \in Station /\ got[s].data \in Call \cup {Ack}
      BY <3>1 DEF Frame
    <3>3. got[s].src # s /\ (got[s].data = Ack \/ Had(s, got[s].src, got[s].data))
      BY <1>4, <2>1 DEF FromPeer
    <3>4. got[s].data # Ack => handed'[s][got[s].src][got[s].data] > 0
      BY <1>1, <3>2, <3>3, HadStays DEF Had
    <3>5. QED
      BY <2>1, <3>3, <3>4
  <2>2. CASE MAC_send_ack(s) /\ got'[s] = frame[s]
    <3>1. pc[s] = "ack"
      BY <2>2 DEF MAC_send_ack
    <3>2. frame[s].data # Ack => handed'[s][frame[s].src][frame[s].data] > 0
      BY <2>2, HandedUpIsHad
    <3>3. QED
      BY <2>2, <3>1, <3>2 DEF FromPeer
  <2>3. QED
    BY <1>4, <2>1, <2>2, GotKinds
<1>5. QED
  BY <1>2, <1>3, <1>4

(* The boards go on with the test they have started.                       *)
LEMMA SameTest ==
  ASSUME TestTypeOK, [TestNext]_allVars
  PROVE  InMacTest' <=> InMacTest
<1>1. CASE at' = at
  BY <1>1 DEF InMacTest
<1>2. CASE MacTest
  BY <1>2, Peers DEF MacTest, SendsToBroadcast, SendsToTarget, PrintsData, InMacTest,
     TestTypeOK
<1>3. CASE IpTest
  <2>1. CASE RecvReturns
    <3>1. PICK p \in {"hello", "fault"} : at' = [at EXCEPT ![tester] = p]
      BY <2>1, Returns
    <3>2. at'[tester] = p /\ at[tester] = "back"
      BY <2>1, <3>1, Peers, Returns DEF TestTypeOK
    <3>3. QED
      BY <3>2 DEF InMacTest
  <2>2. CASE ~RecvReturns
    BY <1>3, <2>2, BoardTestsAssumption DEF IpTest, SendsHello, HelloFails, HelloSent,
       PrintsHello, Invalid, SendsAnswer, InMacTest, TestTypeOK
  <2>3. QED
    BY <2>1, <2>2
<1>4. CASE Listens(target, TRUE) \/ \E s \in Station : InCall(s) \/ HandsUp(s)
  BY <1>1, <1>4 DEF Listens, InCall, HandsUp, test
<1>5. QED
  BY <1>1, <1>2, <1>3, <1>4 DEF TestNext, allVars, test

LEMMA AllDataStays ==
  ASSUME IInv, TestTypeOK, FromPeer, AllData, [TestNext]_allVars
  PROVE  AllData'
<1>1. [Next]_vars /\ (InMacTest' <=> InMacTest)
  BY TestStepMaps, SameTest
<1> SUFFICES ASSUME InMacTest
             PROVE  /\ pc'[tester] \in {"idle", "wait"}
                    /\ \A f \in Unread(target)' : f.data # Ack
                    /\ pc'[target] = "ack" => frame'[target].data # Ack
                    /\ got'[target] # NoFrame => got'[target].data # Ack
  BY <1>1 DEF AllData
<1> TypeOK
  BY DEF IInv
<1>2. pc[tester] \in {"idle", "wait"}
  BY DEF AllData
<1>3. pc'[tester] \in {"idle", "wait"}
  <2>1. CASE UNCHANGED vars
    BY <1>2, <2>1 DEF vars
  <2>2. ASSUME NEW s \in Station, InCall(s) \/ HandsUp(s)
        PROVE  pc'[tester] \in {"idle", "wait"}
    <3>1. \/ pc' = pc
          \/ \E p \in {"idle", "wait"} : pc' = [pc EXCEPT ![s] = p]
          \/ Receiving(s) /\ pc' = [pc EXCEPT ![s] = "ack"]
      BY <2>2 DEF InCall, HandsUp, AckReceived, DropInsteadOfAck, AckTimeout,
         CountTransmission, TakeFrame, IgnoreBroadcast, RecvTimeout, RecvError,
         MAC_send_ack
    <3>2. CASE s = tester
      BY <1>2, <3>1, <3>2 DEF Receiving, TypeOK
    <3>3. CASE s # tester
      BY <1>2, <3>1, <3>3, Peers DEF TypeOK
    <3>4. QED
      BY <3>2, <3>3
  <2>3. CASE Listens(target, TRUE)
    BY <1>2, <2>3, BoardTestsAssumption DEF Listens, MAC_recv_data, TypeOK
  <2>4. CASE MacTest
    BY <1>2, <2>4 DEF MacTest, SendsToBroadcast, SendsToTarget, PrintsData, Sends,
       MAC_send_data, CountTransmission, vars, TypeOK
  <2>5. CASE IpTest
    BY <1>2, <2>5, BoardTestsAssumption, Returns DEF IpTest, SendsHello, HelloFails, HelloSent,
       PrintsHello, Invalid, SendsAnswer, IP_send_data, Sends,
       MAC_send_data, CountTransmission, InMacTest, vars, TypeOK
  <2>6. QED
    BY <2>1, <2>2, <2>3, <2>4, <2>5 DEF TestNext, allVars
<1>4. ASSUME NEW f \in Unread(target)' PROVE f.data # Ack
  BY <1>1, <1>2, <1>4, Peers, NewFrames, BoardTestsAssumption DEF AllData
<1>5. ASSUME pc'[target] = "ack" PROVE frame'[target].data # Ack
  BY <1>1, <1>5, Peers, NewInHand DEF AllData
<1>6. ASSUME got'[target] # NoFrame PROVE got'[target].data # Ack
  BY <1>6, Peers, GotKinds DEF AllData, MAC_send_ack
<1>7. QED
  BY <1>3, <1>4, <1>5, <1>6

(* ---- Numbers. ---- *)

(* The calls of a board are numbered; what it was handed it was sent.      *)
LEMMA CallNumbers ==
  ASSUME IInv, NEW s \in Station
  PROVE  /\ data[s] \in Nat
         /\ CallsInOrder =>
              \A r \in Station : \A c \in Call : Had(r, s, c) => c <= data[s]
BY LinkAssumption DEF IInv, TypeOK, Call, CallsInOrder, OrderedCalls

(* A step that makes no call and changes none of the numbers.              *)
LEMMA NumberingKept ==
  ASSUME IInv, TestTypeOK, Numbering, UNCHANGED <<data, number, said, heard>>,
         at'[tester] = "sent" => at[tester] = "sent",
         at'[tester] = "back" => at[tester] = "back",
         at'[target] = "answer" => at[target] = "answer"
  PROVE  Numbering'
<1>1. number \in Int /\ \A c \in Call : said[tester][c] \in Int
  BY Peers, BoardTestsAssumption DEF TestTypeOK, Number
<1>2. SaidInOrder(target, heard)'
  BY DEF Numbering, SaidInOrder
<1>3. CASE at[tester] = "back"
  <2>1. SaidInOrder(tester, number - 1)
    BY <1>3 DEF Numbering
  <2>2. \A c \in Call : c <= data[tester] =>
          /\ said[tester][c] <= number - 1
          /\ \A e \in Call : e <= c => said[tester][e] <= said[tester][c]
    BY <2>1 DEF SaidInOrder
  <2>3. \A c \in Call : said[tester][c] <= number - 1 => said[tester][c] <= number
    BY <1>1
  <2>4. QED
    BY <1>2, <2>2, <2>3 DEF Numbering, SaidInOrder
<1>4. CASE at[tester] # "back"
  <2>1. \A c \in Call : c <= data[tester] =>
          /\ said[tester][c] <= number
          /\ \A e \in Call : e <= c => said[tester][e] <= said[tester][c]
    BY <1>4 DEF Numbering, SaidInOrder
  <2>2. QED
    BY <1>2, <1>4, <2>1 DEF Numbering, SaidInOrder
<1>5. QED
  BY <1>3, <1>4

(* A call whose number is above the others.                                *)
LEMMA SendKeepsOrder ==
  ASSUME IInv, TestTypeOK, NEW s \in Station, NEW d \in Destination, NEW n \in Number,
         Sends(s, d, n), SaidInOrder(s, n)
  PROVE  /\ \A m \in Number : n <= m =>
              \A c \in Call : c <= data'[s] =>
                /\ said'[s][c] <= m
                /\ \A e \in Call : e <= c => said'[s][e] <= said'[s][c]
         /\ data'[s] = data[s] + 1 /\ data[s] + 1 \in Call
         /\ \A r \in Station \ {s} : data'[r] = data[r] /\ said'[r] = said[r]
         /\ said' \in [Station -> [Call -> Number]]
<1>1. /\ data[s] < MaxCall /\ data' = [data EXCEPT ![s] = data[s] + 1]
      /\ said' = [said EXCEPT ![s][data[s] + 1] = n]
  BY DEF Sends, MAC_send_data
<1>2. data \in [Station -> Call \cup {0}] /\ said \in [Station -> [Call -> Number]]
  BY DEF IInv, TypeOK, TestTypeOK
<1>3. data[s] \in Nat /\ data[s] + 1 \in Call
  BY <1>1, <1>2, LinkAssumption DEF Call
<1>4. data'[s] = data[s] + 1
      /\ \A r \in Station \ {s} : data'[r] = data[r] /\ said'[r] = said[r]
  BY <1>1, <1>2
<1>5. said' \in [Station -> [Call -> Number]]
  BY <1>1, <1>2, <1>3
<1>6. \A c \in Call : said'[s][c] = IF c = data[s] + 1 THEN n ELSE said[s][c]
  BY <1>1, <1>2, <1>3
<1>7. Number \subseteq Int /\ Call \subseteq Int
  BY BoardTestsAssumption, LinkAssumption DEF Number, Call
<1>8. \A c \in Call : c <= data[s] =>
        /\ said[s][c] <= n /\ said[s][c] \in Number
        /\ \A e \in Call : e <= c => said[s][e] <= said[s][c]
  BY <1>2 DEF SaidInOrder
<1>9. ASSUME NEW c \in Call, c <= data[s] + 1
      PROVE  /\ said'[s][c] <= n
             /\ \A e \in Call : e <= c => said'[s][e] <= said'[s][c]
  <2>1. CASE c = data[s] + 1
    <3>1. said'[s][c] = n
      BY <1>6, <2>1
    <3>2. ASSUME NEW e \in Call, e <= c PROVE said'[s][e] <= n
      BY <1>3, <1>6, <1>7, <1>8, <2>1, <3>2
    <3>3. QED
      BY <1>7, <3>1, <3>2
  <2>2. CASE c # data[s] + 1
    <3>1. c <= data[s]
      BY <1>3, <1>7, <1>9, <2>2
    <3>2. \A e \in Call : e <= c => e # data[s] + 1
      BY <1>3, <1>7, <3>1
    <3>3. QED
      BY <1>6, <1>8, <2>2, <3>1, <3>2
  <2>3. QED
    BY <2>1, <2>2
<1>10. ASSUME NEW m \in Number, n <= m, NEW c \in Call, c <= data'[s]
       PROVE  /\ said'[s][c] <= m
              /\ \A e \in Call : e <= c => said'[s][e] <= said'[s][c]
  <2>1. said'[s][c] <= n /\ said'[s][c] \in Number
    BY <1>4, <1>5, <1>9, <1>10
  <2>2. said'[s][c] <= m
    BY <1>10, <2>1, BoardTestsAssumption DEF Number
  <2>3. QED
    BY <1>4, <1>9, <1>10, <2>2
<1>11. QED
  BY <1>3, <1>4, <1>5, <1>10

(* The sender of a test may call: its numbers go up to MaxSent.            *)
LEMMA TesterSends ==
  ASSUME IInv, TestTypeOK, Numbering, NEW d \in Destination,
         at[tester] \in {"broadcast", "target", "hello"}, data[tester] < MaxSent,
         Sends(tester, d, number), number' \in {number, number + 1},
         at'[tester] \in {"broadcast", "target", "sent"},
         at'[tester] = "sent" => number' = number,
         at'[target] = at[target], heard' = heard
  PROVE  Numbering' /\ said' \in [Station -> [Call -> Number]] /\ number' \in Number
<1>1. number \in Number /\ number <= data[tester] /\ SaidInOrder(tester, number)
  BY DEF TestTypeOK, Numbering
<1>2. data[tester] \in Nat /\ MaxSent \in Nat
  BY Peers, CallNumbers, BoardTestsAssumption
<1>3. number' \in Number /\ number <= number' /\ number' <= data[tester] + 1
      /\ data[tester] + 1 <= MaxSent /\ number < data[tester] + 1
  BY <1>1, <1>2 DEF Number
<1>4. /\ \A m \in Number : number <= m =>
           \A c \in Call : c <= data'[tester] =>
             /\ said'[tester][c] <= m
             /\ \A e \in Call : e <= c => said'[tester][e] <= said'[tester][c]
      /\ data'[tester] = data[tester] + 1
      /\ data'[target] = data[target] /\ said'[target] = said[target]
      /\ said' \in [Station -> [Call -> Number]]
  BY <1>1, Peers, BoardTestsAssumption, SendKeepsOrder
<1>5. SaidInOrder(target, heard)'
  BY <1>4 DEF Numbering, SaidInOrder
<1>6. SaidInOrder(tester, number)'
  BY <1>3, <1>4 DEF SaidInOrder
<1>7. QED
  <2>1. at'[tester] = "sent" => number' < data'[tester]
    BY <1>3, <1>4
  <2>2. QED
    BY <1>3, <1>4, <1>5, <1>6, <2>1 DEF Numbering, SaidInOrder

(* What a board is about to print is not below what it printed last.       *)
LEMMA PrintsForward ==
  ASSUME IInv, CallsInOrder, TestTypeOK, FromPeer,
         NEW r \in Station, NEW s \in Station, Says(s, got[r]),
         NEW n, n # -1 => PrintedFrom(r, s, n),
         NEW m, SaidInOrder(s, m)
  PROVE  /\ got[r].data \in Call /\ Had(r, s, got[r].data)
         /\ said[s][got[r].data] \in Number
         /\ n # -1 => n <= said[s][got[r].data]
         /\ said[s][got[r].data] <= m
<1> DEFINE d == got[r].data
<1>1. d \in Call /\ got[r].src = s /\ d # Ack
  BY CallTypes DEF Says
<1>2. got[r] # NoFrame
  BY <1>1, LinkAssumption DEF NoFrame
<1>3. Had(r, s, d)
  BY <1>1, <1>2 DEF FromPeer
<1>4. said[s][d] \in Number
  BY <1>1 DEF TestTypeOK
<1>5. d <= data[s]
  BY <1>1, <1>3, CallNumbers
<1>6. said[s][d] <= m /\ \A e \in Call : e <= d => said[s][e] <= said[s][d]
  BY <1>1, <1>5 DEF SaidInOrder
<1>7. n # -1 => n <= said[s][d]
  BY <1>6 DEF PrintedFrom
<1>8. QED
  BY <1>1, <1>3, <1>4, <1>6, <1>7

(* A step of the MAC layer only.                                           *)
LEMMA MacStepData ==
  ASSUME NEW s \in Station, InCall(s) \/ HandsUp(s) \/ Listens(target, TRUE)
  PROVE  UNCHANGED <<data, at, number, said, heard, answered, source, recvData,
                     printed>>
BY DEF InCall, HandsUp, Listens, test, answer, AckReceived, DropInsteadOfAck, AckTimeout,
   TakeFrame, IgnoreBroadcast, RecvTimeout, RecvError, MAC_send_ack, MAC_recv_data

(* Two boards, and which of them the role of an action is.                 *)
LEMMA AtChanges ==
  ASSUME TestTypeOK, NEW s \in {tester, target}, NEW p, at' = [at EXCEPT ![s] = p]
  PROVE  /\ s = tester => at'[tester] = p /\ at'[target] = at[target]
         /\ s = target => at'[target] = p /\ at'[tester] = at[tester]
BY Peers, BoardTestsAssumption DEF TestTypeOK

(* The numbers that the receiver prints only grow.                         *)
LEMMA ReceiverPrints ==
  ASSUME IInv, CallsInOrder, TestInv, PrintsData \/ PrintsHello
  PROVE  /\ Says(tester, got[target])
         /\ heard' = said[tester][got[target].data]
         /\ Had(target, tester, got[target].data)
         /\ heard' \in Number /\ heard' >= heard
<1>1. heard' = said[tester][got[target].data]
  BY DEF PrintsData, PrintsHello
<1>2. Says(tester, got[target])
  <2>1. CASE PrintsHello
    BY <2>1 DEF PrintsHello
  <2>2. CASE PrintsData
    <3>1. InMacTest /\ got[target] # NoFrame
      BY <2>2 DEF PrintsData
    <3>2. got[target] \in Frame
      BY <3>1, Peers DEF TestInv, TestTypeOK
    <3>3. got[target].src \in Station /\ got[target].data \in Call \cup {Ack}
      BY <3>2 DEF Frame
    <3>4. got[target].src # target /\ got[target].data # Ack
      BY <3>1, Peers DEF TestInv, FromPeer, AllData
    <3>5. QED
      BY <3>3, <3>4, BoardTestsAssumption DEF Says
  <2>3. QED
    BY <2>1, <2>2
<1>3. PICK m : SaidInOrder(tester, m)
  BY DEF TestInv, Numbering
<1>4. heard # -1 => PrintedFrom(target, tester, heard)
  BY DEF TestInv, Printed
<1>5. /\ Had(target, tester, got[target].data)
      /\ said[tester][got[target].data] \in Number
      /\ heard # -1 => heard <= said[tester][got[target].data]
  BY <1>2, <1>3, <1>4, Peers, PrintsForward DEF TestInv
<1>6. heard \in Int /\ heard' \in Int /\ heard' >= 0
  BY <1>1, <1>5, BoardTestsAssumption DEF TestInv, TestTypeOK, Number
<1>7. QED
  BY <1>1, <1>2, <1>5, <1>6

LEMMA NumberingStays ==
  ASSUME IInv, CallsInOrder, TestInv, [TestNext]_allVars
  PROVE  Numbering' /\ said' \in [Station -> [Call -> Number]] /\ number' \in Number
<1> TestTypeOK /\ Numbering
  BY DEF TestInv
<1> said \in [Station -> [Call -> Number]] /\ number \in Number
  BY DEF TestTypeOK
<1>1. ASSUME UNCHANGED <<data, at, number, said, heard>>
      PROVE  Numbering' /\ said' = said /\ number' = number
  BY <1>1, NumberingKept
<1>2. CASE SendsToBroadcast
  <2>1. /\ at[tester] = "broadcast" /\ data[tester] < MaxSent
        /\ Sends(tester, BroadcastMac, number)
        /\ at' = [at EXCEPT ![tester] = "target"]
        /\ number' = number /\ heard' = heard
    BY <1>2 DEF SendsToBroadcast
  <2>2. at'[tester] = "target" /\ at'[target] = at[target]
    BY <2>1, AtChanges
  <2>3. QED
    BY <2>1, <2>2, Peers, TesterSends
<1>3. CASE SendsToTarget
  <2>1. /\ at[tester] = "target" /\ data[tester] < MaxSent
        /\ Sends(tester, target, number)
        /\ at' = [at EXCEPT ![tester] = "broadcast"]
        /\ number' = number + 1 /\ heard' = heard
    BY <1>3 DEF SendsToTarget
  <2>2. at'[tester] = "broadcast" /\ at'[target] = at[target]
    BY <2>1, AtChanges
  <2>3. QED
    BY <2>1, <2>2, Peers, TesterSends
<1>4. CASE SendsHello
  <2>1. /\ at[tester] = "hello" /\ data[tester] < MaxSent
        /\ Sends(tester, target, number)
        /\ at' = [at EXCEPT ![tester] = "sent"]
        /\ number' = number /\ heard' = heard
    BY <1>4 DEF SendsHello, IP_send_data
  <2>2. at'[tester] = "sent" /\ at'[target] = at[target]
    BY <2>1, AtChanges
  <2>3. QED
    BY <2>1, <2>2, Peers, TesterSends
<1>5. CASE PrintsData \/ PrintsHello
  <2>1. heard' \in Number /\ heard' >= heard
    BY <1>5, ReceiverPrints
  <2>2. UNCHANGED <<data, number, said>> /\ at'[tester] = at[tester]
    <3>1. CASE PrintsData
      BY <3>1 DEF PrintsData, vars
    <3>2. CASE PrintsHello
      BY <3>2, AtChanges DEF PrintsHello, vars
    <3>3. QED
      BY <1>5, <3>1, <3>2
  <2>3. \A c \in Call : c <= data[target] =>
          /\ said[target][c] <= heard
          /\ \A e \in Call : e <= c => said[target][e] <= said[target][c]
    BY DEF Numbering, SaidInOrder
  <2>4. \A c \in Call : said[target][c] <= heard => said[target][c] <= heard'
    <3>1. heard \in Int /\ heard' \in Int /\ \A c \in Call : said[target][c] \in Int
      BY <2>1, Peers, BoardTestsAssumption DEF TestTypeOK, Number
    <3>2. QED
      BY <2>1, <3>1
  <2>5. SaidInOrder(target, heard)'
    BY <2>2, <2>3, <2>4 DEF SaidInOrder
  <2>6. heard' # -1
    BY <2>1, BoardTestsAssumption DEF Number
  <2>7. QED
    BY <2>2, <2>5, <2>6 DEF Numbering, SaidInOrder
<1>6. CASE HelloFails \/ RecvReturns
  <2>1. UNCHANGED <<data, number, said, heard>>
    BY <1>6, Returns DEF HelloFails, vars
  <2>2. PICK p \in {"hello", "fault"} : at' = [at EXCEPT ![tester] = p]
    BY <1>6, Returns DEF HelloFails
  <2>3. at'[tester] = p /\ at'[target] = at[target]
    BY <2>2, AtChanges
  <2>4. QED
    BY <2>1, <2>2, <2>3, NumberingKept
<1>7. CASE HelloSent
  <2>1. /\ at[tester] = "sent" /\ number' = number + 1
        /\ at' = [at EXCEPT ![tester] = "back"]
        /\ UNCHANGED <<data, said, heard>>
    BY <1>7 DEF HelloSent, MAC_recv_data
  <2>2. at'[tester] = "back" /\ at'[target] = at[target]
    BY <2>1, AtChanges
  <2>3. number < data[tester] /\ data[tester] <= MaxSent
    BY <2>1 DEF Numbering
  <2>4. number \in Nat /\ data[tester] \in Nat /\ MaxSent \in Nat
    BY Peers, CallNumbers, BoardTestsAssumption DEF Number
  <2>5. number + 1 - 1 = number /\ number' <= data[tester] /\ number' \in Number
    BY <2>1, <2>3, <2>4 DEF Number
  <2>6. QED
    BY <2>1, <2>2, <2>3, <2>5 DEF Numbering, SaidInOrder
<1>8. CASE Invalid
  BY <1>1, <1>8 DEF Invalid, vars
<1>9. CASE SendsAnswer
  <2>1. /\ at[target] = "answer" /\ Sends(target, tester, heard)
        /\ at' = [at EXCEPT ![target] = "recv"]
        /\ number' = number /\ heard' = heard
    BY <1>9 DEF SendsAnswer, IP_send_data
  <2>2. at'[tester] = at[tester] /\ at'[target] = "recv"
    BY <2>1, AtChanges
  <2>3. heard \in Number /\ heard <= heard
    BY <2>1, BoardTestsAssumption DEF Numbering, TestTypeOK, Number
  <2>4. /\ \A c \in Call : c <= data'[target] =>
             /\ said'[target][c] <= heard
             /\ \A e \in Call : e <= c => said'[target][e] <= said'[target][c]
        /\ data'[tester] = data[tester] /\ said'[tester] = said[tester]
        /\ said' \in [Station -> [Call -> Number]]
    BY <2>1, <2>3, Peers, BoardTestsAssumption, SendKeepsOrder DEF Numbering
  <2>5. SaidInOrder(target, heard)'
    BY <2>1, <2>4 DEF SaidInOrder
  <2>6. QED
    BY <2>1, <2>2, <2>4, <2>5 DEF Numbering, SaidInOrder
<1>10. CASE Listens(target, TRUE) \/ \E s \in Station : InCall(s) \/ HandsUp(s)
  BY <1>1, <1>10, Peers, MacStepData
<1>11. CASE UNCHANGED allVars
  BY <1>1, <1>11 DEF allVars, vars, test
<1>12. QED
  BY <1>1, <1>2, <1>3, <1>4, <1>5, <1>6, <1>7, <1>8, <1>9, <1>10, <1>11
     DEF TestNext, MacTest, IpTest

(* ---- What was printed. ---- *)

(* The number of a call that was made does not change.                     *)
LEMMA SaidStays ==
  ASSUME IInv, TestTypeOK, [TestNext]_allVars,
         NEW s \in Station, NEW c \in Call, c <= data[s]
  PROVE  said'[s][c] = said[s][c]
<1>1. CASE said' = said
  BY <1>1
<1>2. ASSUME NEW q \in Station, NEW d, NEW n, Sends(q, d, n)
      PROVE  said'[s][c] = said[s][c]
  <2>1. said' = [said EXCEPT ![q][data[q] + 1] = n]
    BY <1>2 DEF Sends
  <2>2. said \in [Station -> [Call -> Number]]
    BY DEF TestTypeOK
  <2>3. s = q => c # data[q] + 1
    BY CallNumbers, CallTypes
  <2>4. QED
    BY <2>1, <2>2, <2>3
<1>3. CASE MacTest
  BY <1>1, <1>2, <1>3, Peers DEF MacTest, SendsToBroadcast, SendsToTarget, PrintsData
<1>4. CASE IpTest
  BY <1>1, <1>2, <1>4, Peers, Returns DEF IpTest, SendsHello, HelloFails, HelloSent,
     PrintsHello, Invalid, SendsAnswer, IP_send_data
<1>5. CASE Listens(target, TRUE) \/ \E q \in Station : InCall(q) \/ HandsUp(q)
  BY <1>1, <1>5, Peers, MacStepData
<1>6. QED
  BY <1>1, <1>3, <1>4, <1>5 DEF TestNext, allVars, test

(* What has been printed stays behind what is handed up.                   *)
LEMMA PrintedStays ==
  ASSUME IInv, CallsInOrder, TestTypeOK, [TestNext]_allVars,
         NEW r \in Station, NEW s \in Station, NEW n, PrintedFrom(r, s, n)
  PROVE  PrintedFrom(r, s, n)'
<1>1. PICK c \in Call : /\ Had(r, s, c) /\ n = said[s][c]
                        /\ Says(s, got[r]) => c <= got[r].data
  BY DEF PrintedFrom
<1>2. Had(r, s, c)'
  BY <1>1, TestStepMaps, HadStays
<1>3. n = said'[s][c]
  BY <1>1, CallNumbers, SaidStays
<1>4. ASSUME Says(s, got[r])' PROVE c <= got'[r].data
  <2>1. got'[r] # NoFrame
    BY <1>4, LinkAssumption DEF Says, NoFrame
  <2>2. CASE got'[r] = got[r]
    BY <1>1, <1>4, <2>2 DEF Says
  <2>3. CASE MAC_send_ack(r) /\ got'[r] = frame[r]
    <3>1. InHand(r, s, frame[r].data) /\ frame[r].data \in Call
      BY <1>4, <2>3 DEF InHand, Says, MAC_send_ack
    <3>2. QED
      BY <1>1, <2>3, <3>1 DEF CallsInOrder, OrderedCalls
  <2>4. QED
    BY <2>1, <2>2, <2>3, GotKinds
<1>5. QED
  BY <1>2, <1>3, <1>4 DEF PrintedFrom

(* The number that was printed last is one that was said.                  *)
LEMMA PrintedIsSaid ==
  ASSUME IInv, CallsInOrder, NEW r \in Station, NEW s \in Station,
         NEW n, PrintedFrom(r, s, n), NEW m, SaidInOrder(s, m)
  PROVE  n <= m
BY CallNumbers DEF PrintedFrom, SaidInOrder

(* An answer that comes up is to a greeting that was reported as sent.      *)
LEMMA AnswerPrinted ==
  ASSUME IInv, CallsInOrder, TestInv, PrintsAnswer
  PROVE  /\ Says(target, got[tester])
         /\ answered' = said[target][got[tester].data]
         /\ Had(tester, target, got[tester].data)
         /\ answered' \in Number /\ answered' >= answered /\ answered' < number
<1> TestTypeOK /\ FromPeer /\ Numbering /\ Printed
  BY DEF TestInv
<1>1. /\ answered' = said[target][got[tester].data] /\ at[tester] = "back"
      /\ Says(target, got[tester])
  BY DEF PrintsAnswer, IP_recv_data_returns
<1>2. SaidInOrder(target, heard) /\ SaidInOrder(tester, number - 1)
  BY <1>1 DEF Numbering
<1>3. /\ Had(tester, target, got[tester].data)
      /\ said[target][got[tester].data] \in Number
      /\ answered # -1 => answered <= said[target][got[tester].data]
      /\ said[target][got[tester].data] <= heard
  BY <1>1, <1>2, Peers, PrintsForward DEF Printed
<1>4. /\ answered \in Int /\ answered' \in Int /\ answered' >= 0
      /\ heard \in Int /\ number \in Int
  BY <1>1, <1>3, BoardTestsAssumption DEF TestTypeOK, Number
<1>5. heard # -1
  BY <1>1, <1>3, <1>4
<1>6. heard <= number - 1
  BY <1>2, <1>5, Peers, PrintedIsSaid DEF Printed
<1>7. QED
  BY <1>1, <1>3, <1>4, <1>6

(* What a step prints, if it prints.                                       *)
LEMMA HeardKinds ==
  ASSUME TestTypeOK, [TestNext]_allVars
  PROVE  heard' = heard \/ PrintsData \/ PrintsHello
<1>1. CASE Listens(target, TRUE) \/ \E s \in Station : InCall(s) \/ HandsUp(s)
  BY <1>1, Peers, MacStepData
<1>2. QED
  BY <1>1, Returns DEF TestNext, MacTest, IpTest, SendsToBroadcast, SendsToTarget,
     SendsHello, HelloFails, HelloSent, Invalid, SendsAnswer, allVars, test

LEMMA AnsweredKinds ==
  ASSUME TestTypeOK, [TestNext]_allVars
  PROVE  /\ answered' = answered \/ PrintsAnswer
         /\ number' \in {number, number + 1}
<1>1. CASE Listens(target, TRUE) \/ \E s \in Station : InCall(s) \/ HandsUp(s)
  BY <1>1, Peers, MacStepData
<1>2. QED
  BY <1>1, Returns DEF TestNext, MacTest, IpTest, SendsToBroadcast, SendsToTarget,
     SendsHello, HelloFails, HelloSent, PrintsData, PrintsHello, Invalid, SendsAnswer,
     allVars, test, answer

LEMMA HeardGrows ==
  ASSUME IInv, CallsInOrder, TestInv, [TestNext]_allVars
  PROVE  heard' >= heard /\ heard' \in Number \cup {-1}
<1>1. heard \in Number \cup {-1} /\ heard >= heard
  BY BoardTestsAssumption DEF TestInv, TestTypeOK, Number
<1>2. QED
  BY <1>1, HeardKinds, ReceiverPrints DEF TestInv

LEMMA AnsweredGrows ==
  ASSUME IInv, CallsInOrder, TestInv, [TestNext]_allVars
  PROVE  /\ answered' >= answered /\ answered' < number'
         /\ answered' \in Number \cup {-1}
<1>1. /\ answered \in Number \cup {-1} /\ answered >= answered
      /\ answered < number /\ number \in Nat
      /\ Number \subseteq Int
  BY BoardTestsAssumption DEF TestInv, TestTypeOK, Number, Printed
<1>2. /\ answered' >= answered /\ answered' < number
      /\ answered' \in Number \cup {-1}
  BY <1>1, AnsweredKinds, AnswerPrinted DEF TestInv
<1>3. number' \in {number, number + 1}
  BY AnsweredKinds DEF TestInv
<1>4. answered' \in Int
  BY <1>1, <1>2
<1>5. QED
  BY <1>1, <1>2, <1>3, <1>4

LEMMA PrintedNext ==
  ASSUME IInv, CallsInOrder, TestInv, [TestNext]_allVars
  PROVE  Printed'
<1> TestTypeOK /\ Printed
  BY DEF TestInv
<1>1. [Next]_vars
  BY TestStepMaps
<1>2. ASSUME heard' # -1 PROVE PrintedFrom(target, tester, heard)'
  <2>1. CASE heard' = heard
    <3>1. PrintedFrom(target, tester, heard)
      BY <1>2, <2>1 DEF Printed
    <3>2. PICK n : n = heard
      OBVIOUS
    <3>3. PrintedFrom(target, tester, n)'
      BY <3>1, <3>2, Peers, PrintedStays
    <3>4. QED
      BY <2>1, <3>2, <3>3 DEF PrintedFrom
  <2>2. CASE PrintsData \/ PrintsHello
    <3>1. PICK d : d = got[target].data
      OBVIOUS
    <3>2. d \in Call /\ Had(target, tester, d) /\ heard' = said[tester][d]
      BY <2>2, <3>1, ReceiverPrints DEF Says
    <3>3. Had(target, tester, d)'
      BY <1>1, <3>2, Peers, HadStays
    <3>4. said' = said /\ got'[target] = NoFrame
      BY <2>2, Peers DEF PrintsData, PrintsHello, TestTypeOK
    <3>5. ~ Says(tester, got[target])'
      BY <3>4, Peers, LinkAssumption DEF Says, NoFrame
    <3>6. QED
      BY <3>2, <3>3, <3>4, <3>5 DEF PrintedFrom
  <2>3. QED
    BY <2>1, <2>2, HeardKinds
<1>3. ASSUME answered' # -1 PROVE PrintedFrom(tester, target, answered)'
  <2>1. CASE answered' = answered
    <3>1. PrintedFrom(tester, target, answered)
      BY <1>3, <2>1 DEF Printed
    <3>2. PICK n : n = answered
      OBVIOUS
    <3>3. PrintedFrom(tester, target, n)'
      BY <3>1, <3>2, Peers, PrintedStays
    <3>4. QED
      BY <2>1, <3>2, <3>3 DEF PrintedFrom
  <2>2. CASE PrintsAnswer
    <3>1. PICK d : d = got[tester].data
      OBVIOUS
    <3>2. d \in Call /\ Had(tester, target, d) /\ answered' = said[target][d]
      BY <2>2, <3>1, AnswerPrinted DEF Says
    <3>3. Had(tester, target, d)'
      BY <1>1, <3>2, Peers, HadStays
    <3>4. said' = said /\ got'[tester] = NoFrame
      BY <2>2, Peers, Returns DEF RecvReturns, TestTypeOK
    <3>5. ~ Says(target, got[tester])'
      BY <3>4, Peers, LinkAssumption DEF Says, NoFrame
    <3>6. QED
      BY <3>2, <3>3, <3>4, <3>5 DEF PrintedFrom
  <2>3. QED
    BY <2>1, <2>2, AnsweredKinds
<1>4. answered' < number'
  BY AnsweredGrows
<1>5. QED
  BY <1>2, <1>3, <1>4 DEF Printed

(* Where the source of the next message comes from, and what is printed.   *)
LEMMA SourcesNext ==
  ASSUME IInv, CallsInOrder, TestInv, [TestNext]_allVars
  PROVE  /\ Sources'
         /\ source' \in {"gateway", "other"} /\ recvData' \in {"stack", "payload"}
         /\ printed' \in Number \cup {-1}
<1>1. /\ Sources /\ printed \in Number \cup {-1} /\ 0 \in Number
      /\ source \in {"gateway", "other"} /\ recvData \in {"stack", "payload"}
  BY BoardTestsAssumption DEF TestInv, TestTypeOK, Number
<1>2. CASE UNCHANGED <<answered, source, recvData, printed>>
  BY <1>1, <1>2 DEF Sources
<1>3. CASE PrintsAnswer
  <2>1. /\ answered' \in Number /\ printed' = answered'
        /\ source' = "gateway" /\ recvData' = "payload"
    BY <1>3, AnswerPrinted DEF PrintsAnswer
  <2>2. answered' # -1
    BY <2>1, BoardTestsAssumption DEF Number
  <2>3. QED
    BY <2>1, <2>2 DEF Sources
<1>4. CASE ParsesAck
  BY <1>1, <1>4 DEF ParsesAck, Sources
<1>5. CASE PrintsNothing
  <2>1. UNCHANGED <<answered, source, recvData>>
    BY <1>5 DEF PrintsNothing
  <2>2. CASE UNCHANGED printed
    BY <1>1, <2>1, <2>2 DEF Sources
  <2>3. CASE source = "gateway" /\ recvData = "payload" /\ printed' = 0
    BY <1>1, <2>1, <2>3 DEF Sources
  <2>4. CASE recvData = "stack" /\ printed' \in Number
    BY <1>1, <2>1, <2>4 DEF Sources
  <2>5. QED
    BY <1>5, <2>2, <2>3, <2>4 DEF PrintsNothing
<1>6. CASE Listens(target, TRUE) \/ \E s \in Station : InCall(s) \/ HandsUp(s)
  BY <1>2, <1>6, Peers, MacStepData
<1>7. CASE UNCHANGED answer
  BY <1>2, <1>7 DEF answer
<1>8. QED
  BY <1>3, <1>4, <1>5, <1>6, <1>7
     DEF TestNext, MacTest, IpTest, SendsToBroadcast, SendsToTarget, PrintsData,
         SendsHello, HelloFails, HelloSent, RecvReturns, PrintsHello, Invalid,
         SendsAnswer, allVars, test

LEMMA TestTypeNext ==
  ASSUME IInv, IInv', CallsInOrder, TestInv, [TestNext]_allVars
  PROVE  TestTypeOK'
<1> TestTypeOK
  BY DEF TestInv
<1> DEFINE Points == {"broadcast", "target", "hello", "sent", "back", "recv", "answer", "fault"}
<1>1. at' \in [Station -> Points]
  <2>1. ASSUME NEW s \in Station, NEW p \in Points, at' = [at EXCEPT ![s] = p]
        PROVE  at' \in [Station -> Points]
    BY <2>1 DEF TestTypeOK
  <2>2. CASE at' = at
    BY <2>2 DEF TestTypeOK
  <2> HIDE DEF Points
  <2>3. {"broadcast", "target", "hello", "sent", "back", "recv", "answer", "fault"} = Points
    BY DEF Points
  <2>4. CASE MacTest
    BY <2>1, <2>2, <2>3, <2>4, Peers DEF MacTest, SendsToBroadcast, SendsToTarget,
       PrintsData
  <2>5. CASE IpTest
    BY <2>1, <2>2, <2>3, <2>5, Peers, Returns DEF IpTest, SendsHello, HelloFails,
       HelloSent, PrintsHello, Invalid, SendsAnswer
  <2>6. CASE Listens(target, TRUE) \/ \E s \in Station : InCall(s) \/ HandsUp(s)
    BY <2>2, <2>6, Peers, MacStepData
  <2>7. QED
    BY <2>2, <2>4, <2>5, <2>6 DEF TestNext, allVars, test
<1>2. got' \in [Station -> Frame \cup {NoFrame}]
  <2>1. got' = got \/ \E s \in Station : \E g \in Frame \cup {NoFrame} :
                          got' = [got EXCEPT ![s] = g]
    <3>1. CASE MacTest
      BY <3>1, Peers DEF MacTest, SendsToBroadcast, SendsToTarget, PrintsData
    <3>2. CASE IpTest
      BY <3>2, Peers, Returns DEF IpTest, SendsHello, HelloFails, HelloSent, PrintsHello,
         Invalid, SendsAnswer
    <3>3. CASE Listens(target, TRUE) \/ \E s \in Station : InCall(s)
      BY <3>3 DEF Listens, InCall, test
    <3>4. ASSUME NEW s \in Station, HandsUp(s)
          PROVE  \E g \in Frame \cup {NoFrame} : got' = [got EXCEPT ![s] = g]
      BY <3>4 DEF HandsUp, IInv, TypeOK
    <3>5. QED
      BY <3>1, <3>2, <3>3, <3>4 DEF TestNext, allVars, test
  <2>2. QED
    BY <2>1 DEF TestTypeOK
<1>3. QED
  BY <1>1, <1>2, NumberingStays, HeardGrows, AnsweredGrows, SourcesNext
     DEF TestTypeOK, IInv

LEMMA TestInvNext ==
  ASSUME IInv, IInv', CallsInOrder, TestInv, [TestNext]_allVars
  PROVE  TestInv'
BY FromPeerStays, AllDataStays, NumberingStays, PrintedNext, SourcesNext, TestTypeNext
   DEF TestInv

LEMMA TestInvInit == TestInit => TestInv
<1> SUFFICES ASSUME TestInit PROVE TestInv
  OBVIOUS
<1>1. Init /\ IInv
  BY InitIInv DEF TestInit
<1>2. 0 \in Number
  BY BoardTestsAssumption DEF Number
<1>3. PICK first \in {"broadcast", "hello"} :
        at = [s \in Station |-> IF s = tester THEN first ELSE "recv"]
  BY DEF TestInit
<1>4. /\ number = 0 /\ heard = -1 /\ answered = -1 /\ printed = -1
      /\ source \in {"gateway", "other"} /\ recvData = "stack"
      /\ said = [s \in Station |-> [c \in Call |-> 0]]
      /\ got = [s \in Station |-> NoFrame]
  BY DEF TestInit
<1>5. TestTypeOK
  BY <1>1, <1>2, <1>3, <1>4 DEF TestTypeOK, IInv
<1>6. \A s \in Station : Unread(s) = {} /\ pc[s] = "idle" /\ data[s] = 0
  BY <1>1 DEF Init, Unread
<1>7. FromPeer /\ AllData
  BY <1>4, <1>6, Peers DEF FromPeer, AllData
<1>8. Numbering
  <2>1. at[tester] = first /\ at[target] = "recv"
    BY <1>3, Peers, BoardTestsAssumption
  <2>2. \A c \in Call : ~ (c <= 0)
    BY CallTypes
  <2>3. QED
    BY <1>4, <1>6, <2>1, <2>2, Peers, BoardTestsAssumption DEF Numbering, SaidInOrder
<1>9. Printed /\ Sources
  BY <1>4 DEF Printed, Sources
<1>10. QED
  BY <1>5, <1>7, <1>8, <1>9 DEF TestInv

(* ---- The theorems. ---- *)

(* Each board holds only what the other sent and in the order it was sent, *)
(* and what was printed last is behind it; what the sender prints when     *)
(* nothing has come is an empty message: the invariant of the tests.       *)
THEOREM TestInvHolds == TestSpec => []TestInv
<1>1. IInv /\ IInv' /\ CopiesInv /\ TestInv /\ [TestNext]_allVars => TestInv'
  BY TestInvNext DEF CopiesInv
<1>2. QED
  BY <1>1, TestInvInit, TestsUseLink, InvariantHolds, CopiesInvHolds, PTL DEF TestSpec

(* However often a frame is repeated and whichever are lost, the receiver  *)
(* of either test never prints a smaller number than before.               *)
THEOREM NumbersNeverGoBack == TestSpec => NumbersInOrder
<1>1. IInv /\ CopiesInv /\ TestInv /\ [TestNext]_allVars => [heard' >= heard]_allVars
  BY HeardGrows DEF CopiesInv
<1>2. QED
  BY <1>1, TestInvHolds, TestsUseLink, InvariantHolds, CopiesInvHolds, PTL
     DEF TestSpec, NumbersInOrder

(* The answers that IP_recv_data hands up to the sender of the IP test      *)
(* never go back either, and none is for a greeting whose send has failed. *)
THEOREM AnswersNeverGoBack == TestSpec => AnswersFollow
<1>1. IInv /\ CopiesInv /\ TestInv /\ [TestNext]_allVars =>
        [answered' >= answered /\ answered' < number']_allVars
  BY AnsweredGrows DEF CopiesInv
<1>2. QED
  BY <1>1, TestInvHolds, TestsUseLink, InvariantHolds, CopiesInvHolds, PTL
     DEF TestSpec, AnswersFollow
=============================================================================
