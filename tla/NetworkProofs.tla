--------------------------- MODULE NetworkProofs ----------------------------
(***************************************************************************)
(* Proofs about Network: its types, that two nodes have the same address   *)
(* only after the sink has discarded one of them, that a node takes the    *)
(* time only from an answer to its request, and that nodes and sink        *)
(* implement the register of addresses of Registry.                        *)
(***************************************************************************)
EXTENDS Network, TranslationTableProofs, SequenceTheorems

(* ---- Queues. ---- *)

(* The first unread frame is one of them, and reading adds none.           *)
LEMMA NodeReads ==
  ASSUME TypeOK, NEW n \in Mac, ReadsNode(n)
  PROVE  /\ inbox' \in [Mac -> Seq(ToNode)]
         /\ Head(inbox[n]) \in ToNode
         /\ Head(inbox[n]) \in Unread(n)
         /\ \A r \in Mac : Unread(r)' \subseteq Unread(r)
<1>1. inbox[n] \in Seq(ToNode) /\ inbox[n] # <<>>
  BY DEF TypeOK, ReadsNode
<1>2. inbox' = [inbox EXCEPT ![n] = Tail(inbox[n])]
  BY DEF ReadsNode
<1>3. /\ Head(inbox[n]) \in ToNode
      /\ Tail(inbox[n]) \in Seq(ToNode)
      /\ Len(Tail(inbox[n])) = Len(inbox[n]) - 1
      /\ \A i \in 1 .. Len(Tail(inbox[n])) : Tail(inbox[n])[i] = inbox[n][i + 1]
  BY <1>1, HeadTailProperties
<1>4. inbox' \in [Mac -> Seq(ToNode)]
  BY <1>2, <1>3 DEF TypeOK
<1>5. Len(inbox[n]) \in Nat \ {0} /\ DOMAIN inbox[n] = 1 .. Len(inbox[n])
  BY <1>1, LenProperties, EmptySeq
<1>6. Head(inbox[n]) \in Unread(n)
  <2>1. Head(inbox[n]) = inbox[n][1]
    BY <1>1
  <2>2. QED
    BY <2>1, <1>5 DEF Unread
<1>7. ASSUME NEW r \in Mac PROVE Unread(r)' \subseteq Unread(r)
  <2>1. CASE r = n
    <3>1. inbox'[r] = Tail(inbox[n])
      BY <1>2, <2>1 DEF TypeOK
    <3>2. DOMAIN Tail(inbox[n]) = 1 .. Len(inbox[n]) - 1
      BY <1>3, LenProperties
    <3>3. ASSUME NEW i \in 1 .. Len(inbox[n]) - 1
          PROVE  Tail(inbox[n])[i] = inbox[n][i + 1] /\ i + 1 \in DOMAIN inbox[n]
      BY <1>3, <1>5
    <3>4. QED
      BY <2>1, <3>1, <3>2, <3>3 DEF Unread
  <2>2. CASE r # n
    BY <1>2, <2>2 DEF Unread, TypeOK
  <2>3. QED
    BY <2>1, <2>2
<1>8. QED
  BY <1>3, <1>4, <1>6, <1>7

(* A transmission of the sink adds its frame, and only where it goes.      *)
LEMMA NodeReceives ==
  ASSUME TypeOK, NEW n \in Mac, NEW f \in ToNode, TransmitToNode(n, f)
  PROVE  /\ inbox' \in [Mac -> Seq(ToNode)]
         /\ \A r \in Mac : Unread(r)' \subseteq
                             Unread(r) \cup (IF r = n THEN {f} ELSE {})
<1>1. CASE UNCHANGED inbox
  BY <1>1 DEF TypeOK, Unread
<1>2. CASE inbox' = [inbox EXCEPT ![n] = Append(inbox[n], f)]
  <2>1. inbox' \in [Mac -> Seq(ToNode)] /\ inbox[n] \in Seq(ToNode)
    BY <1>2 DEF TypeOK
  <2>2. ASSUME NEW r \in Mac, r # n PROVE Unread(r)' = Unread(r)
    BY <1>2, <2>2 DEF Unread, TypeOK
  <2>3. Unread(n)' \subseteq Unread(n) \cup {f}
    <3>1. inbox'[n] = Append(inbox[n], f)
      BY <1>2 DEF TypeOK
    <3>2. /\ DOMAIN inbox'[n] = 1 .. Len(inbox[n]) + 1
          /\ DOMAIN inbox[n] = 1 .. Len(inbox[n])
          /\ Len(inbox[n]) \in Nat
      BY <3>1, <2>1, LenProperties
    <3>3. ASSUME NEW i \in 1 .. Len(inbox[n]) + 1
          PROVE  inbox'[n][i] = IF i = Len(inbox[n]) + 1 THEN f ELSE inbox[n][i]
      BY <3>1, <3>2, <2>1
    <3>4. QED
      BY <3>2, <3>3 DEF Unread
  <2>4. QED
    BY <2>1, <2>2, <2>3
<1>3. QED
  BY <1>1, <1>2 DEF TransmitToNode

LEMMA SinkReads ==
  ASSUME TypeOK, ReadsSink
  PROVE  sinkInbox' \in Seq(ToSink) /\ Head(sinkInbox) \in ToSink
BY HeadTailProperties DEF TypeOK, ReadsSink

LEMMA SinkReceives ==
  ASSUME TypeOK, NEW f \in ToSink, TransmitToSink(f)
  PROVE  sinkInbox' \in Seq(ToSink)
<1>1. sinkInbox \in Seq(ToSink)
  BY DEF TypeOK
<1>2. Append(sinkInbox, f) \in Seq(ToSink)
  BY <1>1, AppendProperties
<1>3. sinkInbox' = sinkInbox \/ sinkInbox' = Append(sinkInbox, f)
  BY DEF TransmitToSink
<1>4. QED
  BY <1>1, <1>2, <1>3

(* ---- What a node may come to hold is on record. ---- *)

(* A step keeps HeldOnRecord if nothing on record is forgotten, and what a *)
(* node newly holds or has unread is on record.                            *)
LEMMA HeldStaysOnRecord ==
  ASSUME HeldOnRecord,
         \A n \in Mac : \A i \in Pool : OnRecord(n, i) => OnRecord(n, i)',
         \A n \in Mac : \A i \in Pool :
           my_ip'[n] = i => my_ip[n] = i \/ OnRecord(n, i)',
         \A n \in Mac : \A f \in Unread(n)' : \A i \in Pool :
           f.to = i => f \in Unread(n) \/ OnRecord(n, i)'
  PROVE  HeldOnRecord'
<1>1. ASSUME NEW n \in Mac, NEW i \in Pool, my_ip'[n] = i
      PROVE  OnRecord(n, i)'
  BY <1>1 DEF HeldOnRecord
<1>2. ASSUME NEW n \in Mac, NEW i \in Pool, NEW f \in Unread(n)', f.to = i
      PROVE  OnRecord(n, i)'
  BY <1>2 DEF HeldOnRecord
<1>3. QED
  BY <1>1, <1>2 DEF HeldOnRecord, OnRecord

LEMMA InitRecordInv == Init => RecordInv
<1> SUFFICES ASSUME Init PROVE RecordInv
  OBVIOUS
<1>1. /\ \A i \in Pool : i \in Address /\ i # TABLE_SIZE - 1
      /\ Unset \in Address /\ Unset # TABLE_SIZE - 1
      /\ SinkIp \in Address /\ SinkIp # TABLE_SIZE - 1
  BY TableSizeAssumption DEF Pool, Address, Unset, SinkIp
<1>2. macTable \in [Address -> Mac \cup {NullMac, BroadcastMac}]
  BY DEF Init, init_trans_table
<1>3. NoHolderBelowPool
  BY <1>1 DEF Init, init_trans_table, NoHolderBelowPool
<1>4. \A n \in Mac : Unread(n) = {}
  BY DEF Init, Unread
<1>5. HeldOnRecord
  <2>1. Unset \notin Pool
    BY DEF Pool, Unset
  <2>2. QED
    BY <1>4, <2>1 DEF Init, HeldOnRecord
<1>6. JobOnRecord
  BY DEF Init, JobOnRecord
<1>7. TypeOK
  <2>1. inbox \in [Mac -> Seq(ToNode)] /\ sinkInbox \in Seq(ToSink)
    BY DEF Init
  <2>2. 0 \in 0 .. MAC_MAX_RETRIES - 1 /\ 0 \in 0 .. MaxReset
    BY NetworkAssumption
  <2>3. QED
    BY <1>2, <2>1, <2>2 DEF Init, TypeOK
<1>8. QED
  BY <1>3, <1>5, <1>6, <1>7 DEF RecordInv

(* ---- The steps of a node. ---- *)

(* A step that leaves the sink's state alone keeps what is on record.      *)
LEMMA NodeStepRecordInv ==
  ASSUME RecordInv, UNCHANGED <<sinkVars, evicted>>, TypeOK',
         \A n \in Mac : \A i \in Pool :
           my_ip'[n] = i => my_ip[n] = i \/ OnRecord(n, i),
         \A n \in Mac : Unread(n)' \subseteq Unread(n)
  PROVE  RecordInv'
<1>1. \A n \in Mac : \A i \in Pool : OnRecord(n, i)' <=> OnRecord(n, i)
  BY DEF OnRecord, sinkVars
<1>2. HeldOnRecord'
  BY <1>1, HeldStaysOnRecord DEF RecordInv
<1>3. JobOnRecord' /\ NoHolderBelowPool'
  BY DEF RecordInv, JobOnRecord, NoHolderBelowPool, sinkVars
<1>4. QED
  BY <1>2, <1>3 DEF RecordInv

(* The other half of TypeOK for such a step.                               *)
LEMMA NodeStepTypes ==
  ASSUME TypeOK, UNCHANGED <<sinkVars, history>>,
         pc' \in [Mac -> {"request", "response", "sync", "answer", "data",
                          "stopped"}],
         my_ip' \in [Mac -> Pool \cup {Unset}],
         gateway' \in [Mac -> {SinkIp, Unset}],
         retries' \in [Mac -> Nat],
         sent' \in [Mac -> 0 .. MAC_MAX_RETRIES - 1],
         inbox' \in [Mac -> Seq(ToNode)],
         sinkInbox' \in Seq(ToSink)
  PROVE  TypeOK'
BY DEF TypeOK, sinkVars, history

LEMMA AgainTypes ==
  ASSUME TypeOK, NEW n \in Mac, Again(n)
  PROVE  /\ pc' \in [Mac -> {"request", "response", "sync", "answer", "data",
                             "stopped"}]
         /\ retries' \in [Mac -> Nat]
         /\ sent' \in [Mac -> 0 .. MAC_MAX_RETRIES - 1]
<1>1. 0 \in 0 .. MAC_MAX_RETRIES - 1
  BY NetworkAssumption
<1>2. sent' \in [Mac -> 0 .. MAC_MAX_RETRIES - 1]
  BY <1>1 DEF Again, TypeOK
<1>3. CASE pc[n] = "data"
  BY <1>2, <1>3 DEF Again, TypeOK
<1>4. CASE pc[n] # "data"
  <2>1. PICK p \in {"stopped", "request", "sync"} : pc' = [pc EXCEPT ![n] = p]
    BY <1>4 DEF Again
  <2>2. retries' = [retries EXCEPT ![n] = @ + 1]
    BY <1>4 DEF Again
  <2>3. QED
    BY <1>2, <2>1, <2>2 DEF TypeOK
<1>5. QED
  BY <1>3, <1>4

LEMMA NodeTransmitsRecordInv ==
  ASSUME RecordInv, NEW n \in Mac, NodeTransmits(n)
  PROVE  RecordInv'
<1> TypeOK
  BY DEF RecordInv
<1>1. Outgoing(n) \in ToSink
  BY DEF NodeTransmits, Outgoing, ToSink, TypeOK
<1>2. sinkInbox' \in Seq(ToSink)
  BY <1>1, SinkReceives DEF NodeTransmits
<1>3. /\ pc' \in [Mac -> {"request", "response", "sync", "answer", "data",
                          "stopped"}]
      /\ retries' \in [Mac -> Nat]
      /\ sent' \in [Mac -> 0 .. MAC_MAX_RETRIES - 1]
  <2>1. CASE sent[n] + 1 < MAC_MAX_RETRIES
    <3>1. sent[n] + 1 \in 0 .. MAC_MAX_RETRIES - 1
      BY <2>1, NetworkAssumption DEF TypeOK
    <3>2. sent' = [sent EXCEPT ![n] = sent[n] + 1] /\ UNCHANGED <<pc, retries>>
      BY <2>1 DEF NodeTransmits
    <3>3. QED
      BY <3>1, <3>2 DEF TypeOK
  <2>2. CASE ~ (sent[n] + 1 < MAC_MAX_RETRIES)
    BY <2>2, AgainTypes DEF NodeTransmits
  <2>3. QED
    BY <2>1, <2>2
<1>4. UNCHANGED <<my_ip, gateway, inbox, sinkVars, history, evicted>>
  BY DEF NodeTransmits, history
<1>5. TypeOK'
  BY <1>2, <1>3, <1>4, NodeStepTypes DEF TypeOK
<1>6. \A m \in Mac : Unread(m)' \subseteq Unread(m)
  BY <1>4 DEF Unread
<1>7. QED
  BY <1>4, <1>5, <1>6, NodeStepRecordInv

LEMMA NodeAckedRecordInv ==
  ASSUME RecordInv, NEW n \in Mac, NodeAcked(n)
  PROVE  RecordInv'
<1> TypeOK
  BY DEF RecordInv
<1>1. /\ inbox' \in [Mac -> Seq(ToNode)]
      /\ \A m \in Mac : Unread(m)' \subseteq Unread(m)
  BY NodeReads DEF NodeAcked
<1>2. PICK p \in {"response", "answer", pc[n]} : pc' = [pc EXCEPT ![n] = p]
  BY DEF NodeAcked
<1>3. pc' \in [Mac -> {"request", "response", "sync", "answer", "data",
                       "stopped"}]
  BY <1>2 DEF TypeOK
<1>4. sent' \in [Mac -> 0 .. MAC_MAX_RETRIES - 1]
  <2>1. 0 \in 0 .. MAC_MAX_RETRIES - 1
    BY NetworkAssumption
  <2>2. QED
    BY <2>1 DEF NodeAcked, TypeOK
<1>5. UNCHANGED <<my_ip, gateway, retries, sinkVars, sinkInbox, history, evicted>>
  BY DEF NodeAcked, history
<1>6. TypeOK'
  BY <1>1, <1>3, <1>4, <1>5, NodeStepTypes DEF TypeOK
<1>7. QED
  BY <1>1, <1>5, <1>6, NodeStepRecordInv

LEMMA NodeDropsRecordInv ==
  ASSUME RecordInv, NEW n \in Mac, NodeDropsInsteadOfAck(n)
  PROVE  RecordInv'
<1> TypeOK
  BY DEF RecordInv
<1>1. /\ inbox' \in [Mac -> Seq(ToNode)]
      /\ \A m \in Mac : Unread(m)' \subseteq Unread(m)
  BY NodeReads DEF NodeDropsInsteadOfAck
<1>2. UNCHANGED <<nodeVars, sinkVars, sinkInbox, history, evicted>>
  BY DEF NodeDropsInsteadOfAck, history
<1>3. TypeOK'
  BY <1>1, <1>2, NodeStepTypes DEF TypeOK, nodeVars
<1>4. QED
  BY <1>1, <1>2, <1>3, NodeStepRecordInv DEF nodeVars

LEMMA NodeTakesAddressRecordInv ==
  ASSUME RecordInv, NEW n \in Mac, NodeTakesAddress(n)
  PROVE  RecordInv'
<1> TypeOK
  BY DEF RecordInv
<1> DEFINE f == Head(inbox[n])
<1>1. /\ inbox' \in [Mac -> Seq(ToNode)]
      /\ f \in ToNode /\ f \in Unread(n)
      /\ \A m \in Mac : Unread(m)' \subseteq Unread(m)
  BY NodeReads DEF NodeTakesAddress
<1>2. AckOf(n) \in ToSink
  BY DEF AckOf, ToSink
<1>3. sinkInbox' \in Seq(ToSink)
  BY <1>2, SinkReceives DEF NodeTakesAddress
<1>4. f.from \in {SinkIp, Unset} /\ f.to \in Pool \cup {Unset}
  BY <1>1 DEF ToNode
<1>5. /\ gateway' = [gateway EXCEPT ![n] = f.from]
      /\ my_ip' = [my_ip EXCEPT ![n] = f.to]
      /\ pc' = [pc EXCEPT ![n] = "sync"]
      /\ retries' = [retries EXCEPT ![n] = 0]
      /\ UNCHANGED <<sent, sinkVars, history, evicted>>
  BY DEF NodeTakesAddress, history
<1> HIDE DEF f
<1>6. TypeOK'
  <2>1. /\ gateway' \in [Mac -> {SinkIp, Unset}]
        /\ my_ip' \in [Mac -> Pool \cup {Unset}]
    BY <1>4, <1>5 DEF TypeOK
  <2>2. /\ pc' \in [Mac -> {"request", "response", "sync", "answer", "data",
                            "stopped"}]
        /\ retries' \in [Mac -> Nat]
        /\ sent' \in [Mac -> 0 .. MAC_MAX_RETRIES - 1]
    BY <1>5 DEF TypeOK
  <2>3. QED
    BY <1>1, <1>3, <1>5, <2>1, <2>2, NodeStepTypes
<1>7. ASSUME NEW m \in Mac, NEW i \in Pool, my_ip'[m] = i
      PROVE  my_ip[m] = i \/ OnRecord(m, i)
  <2>1. CASE m = n
    <3>1. f.to = i
      BY <1>5, <1>7, <2>1 DEF TypeOK
    <3>2. QED
      BY <1>1, <2>1, <3>1 DEF RecordInv, HeldOnRecord
  <2>2. CASE m # n
    BY <1>5, <1>7, <2>2 DEF TypeOK
  <2>3. QED
    BY <2>1, <2>2
<1>8. QED
  BY <1>1, <1>5, <1>6, <1>7, NodeStepRecordInv

LEMMA NodeTakesAnswerRecordInv ==
  ASSUME RecordInv, NEW n \in Mac, NodeTakesAnswer(n)
  PROVE  RecordInv'
<1> TypeOK
  BY DEF RecordInv
<1>1. /\ inbox' \in [Mac -> Seq(ToNode)]
      /\ \A m \in Mac : Unread(m)' \subseteq Unread(m)
  BY NodeReads DEF NodeTakesAnswer
<1>2. AckOf(n) \in ToSink
  BY DEF AckOf, ToSink
<1>3. sinkInbox' \in Seq(ToSink)
  BY <1>2, SinkReceives DEF NodeTakesAnswer
<1>4. /\ pc' \in [Mac -> {"request", "response", "sync", "answer", "data",
                          "stopped"}]
      /\ retries' \in [Mac -> Nat]
      /\ sent' \in [Mac -> 0 .. MAC_MAX_RETRIES - 1]
  <2>1. CASE IsAnswer(n, Head(inbox[n]))
    BY <2>1 DEF NodeTakesAnswer, TypeOK
  <2>2. CASE ~ IsAnswer(n, Head(inbox[n]))
    BY <2>2, AgainTypes DEF NodeTakesAnswer
  <2>3. QED
    BY <2>1, <2>2
<1>5. UNCHANGED <<my_ip, gateway, sinkVars, history, evicted>>
  BY DEF NodeTakesAnswer, history
<1>6. TypeOK'
  BY <1>1, <1>3, <1>4, <1>5, NodeStepTypes DEF TypeOK
<1>7. QED
  BY <1>1, <1>5, <1>6, NodeStepRecordInv

LEMMA NodeHearsNothingRecordInv ==
  ASSUME RecordInv, NEW n \in Mac, NodeHearsNothing(n)
  PROVE  RecordInv'
<1> TypeOK
  BY DEF RecordInv
<1>1. UNCHANGED <<my_ip, gateway, inbox, sinkVars, sinkInbox, history, evicted>>
  BY DEF NodeHearsNothing, history
<1>2. TypeOK'
  <2>1. /\ pc' \in [Mac -> {"request", "response", "sync", "answer", "data",
                            "stopped"}]
        /\ retries' \in [Mac -> Nat]
        /\ sent' \in [Mac -> 0 .. MAC_MAX_RETRIES - 1]
    BY AgainTypes DEF NodeHearsNothing
  <2>2. QED
    BY <1>1, <2>1, NodeStepTypes DEF TypeOK
<1>3. \A m \in Mac : Unread(m)' \subseteq Unread(m)
  BY <1>1 DEF Unread
<1>4. QED
  BY <1>1, <1>2, <1>3, NodeStepRecordInv

(* A reset empties the node, so that nothing of it needs to be on record.  *)
LEMMA NodeResetRecordInv ==
  ASSUME RecordInv, NEW n \in Mac, NodeReset(n)
  PROVE  RecordInv'
<1> TypeOK
  BY DEF RecordInv
<1>1. inbox' = [inbox EXCEPT ![n] = <<>>] /\ my_ip' = [my_ip EXCEPT ![n] = Unset]
  BY DEF NodeReset
<1>2. UNCHANGED <<sinkVars, sinkInbox>> /\ evicted' = evicted \ ({n} \X Pool)
  BY DEF NodeReset
<1>3. ASSUME NEW m \in Mac, m # n
      PROVE  /\ my_ip'[m] = my_ip[m] /\ Unread(m)' = Unread(m)
             /\ \A i \in Pool : OnRecord(m, i)' <=> OnRecord(m, i)
  <2>1. my_ip'[m] = my_ip[m] /\ inbox'[m] = inbox[m]
    BY <1>1, <1>3 DEF TypeOK
  <2>2. \A i \in Pool : <<m, i>> \in evicted' <=> <<m, i>> \in evicted
    BY <1>2, <1>3
  <2>3. QED
    BY <1>2, <2>1, <2>2 DEF Unread, OnRecord, sinkVars
<1>4. my_ip'[n] \notin Pool /\ Unread(n)' = {}
  <2>1. my_ip'[n] = Unset /\ inbox'[n] = <<>>
    BY <1>1 DEF TypeOK
  <2>2. QED
    BY <2>1 DEF Unread, Pool, Unset
<1>5. HeldOnRecord'
  <2>1. ASSUME NEW m \in Mac, NEW i \in Pool, my_ip'[m] = i
        PROVE  OnRecord(m, i)'
    BY <1>3, <1>4, <2>1 DEF RecordInv, HeldOnRecord
  <2>2. ASSUME NEW m \in Mac, NEW i \in Pool, NEW f \in Unread(m)', f.to = i
        PROVE  OnRecord(m, i)'
    BY <1>3, <1>4, <2>2 DEF RecordInv, HeldOnRecord
  <2>3. QED
    BY <2>1, <2>2 DEF HeldOnRecord, OnRecord
<1>6. JobOnRecord' /\ NoHolderBelowPool'
  BY <1>2 DEF RecordInv, JobOnRecord, NoHolderBelowPool, sinkVars
<1>7. TypeOK'
  <2>1. /\ inbox' \in [Mac -> Seq(ToNode)]
        /\ my_ip' \in [Mac -> Pool \cup {Unset}]
        /\ gateway' \in [Mac -> {SinkIp, Unset}]
    BY <1>1 DEF NodeReset, TypeOK
  <2>2. /\ pc' \in [Mac -> {"request", "response", "sync", "answer", "data",
                            "stopped"}]
        /\ retries' \in [Mac -> Nat]
    BY DEF NodeReset, TypeOK
  <2>3. sent' \in [Mac -> 0 .. MAC_MAX_RETRIES - 1]
    <3>1. 0 \in 0 .. MAC_MAX_RETRIES - 1
      BY NetworkAssumption
    <3>2. QED
      BY <3>1 DEF NodeReset, TypeOK
  <2>4. resets' \in 0 .. MaxReset /\ evicted' \subseteq Mac \X Pool
    BY <1>2, NetworkAssumption DEF NodeReset, TypeOK
  <2>5. QED
    BY <1>2, <2>1, <2>2, <2>3, <2>4 DEF TypeOK, sinkVars
<1>8. QED
  BY <1>5, <1>6, <1>7 DEF RecordInv

(* ---- The steps of the sink. ---- *)

(* A step of the sink keeps HeldOnRecord if it keeps what is on record and *)
(* what it transmits is on record.                                         *)
LEMMA SinkStepHeld ==
  ASSUME RecordInv, UNCHANGED my_ip,
         \A n \in Mac : \A i \in Pool : OnRecord(n, i) => OnRecord(n, i)',
         \A n \in Mac : \A f \in Unread(n)' : \A i \in Pool :
           f.to = i => f \in Unread(n) \/ OnRecord(n, i)'
  PROVE  HeldOnRecord'
BY HeldStaysOnRecord DEF RecordInv

(* The other half of TypeOK.                                               *)
LEMMA SinkStepTypes ==
  ASSUME TypeOK, UNCHANGED <<nodeVars, resets>>,
         inbox' \in [Mac -> Seq(ToNode)],
         macTable' \in [Address -> Mac \cup {NullMac, BroadcastMac}],
         heard' \subseteq Pool,
         sinkPc' \in {"recv", "issue", "answer"},
         job' \in Job \cup {NoJob},
         sinkSent' \in 0 .. MAC_MAX_RETRIES - 1,
         sinkInbox' \in Seq(ToSink),
         evicted' \subseteq Mac \X Pool
  PROVE  TypeOK'
BY DEF TypeOK, nodeVars

LEMMA PoolIsInTable ==
  /\ Pool \subseteq Address
  /\ Unset \notin Pool /\ SinkIp \notin Pool
  /\ Unset \in Address /\ SinkIp \in Address
BY TableSizeAssumption DEF Pool, Address, Unset, SinkIp

(* The acknowledgement of a frame adds nothing that has an address.        *)
LEMMA SinkAcknowledges ==
  ASSUME TypeOK, NEW n \in Mac, TransmitToNode(n, Ack)
  PROVE  /\ inbox' \in [Mac -> Seq(ToNode)]
         /\ \A m \in Mac : \A f \in Unread(m)' : \A i \in Pool :
              f.to = i => f \in Unread(m)
<1>1. Ack \in ToNode /\ Ack.to \notin Pool
  BY PoolIsInTable DEF Ack, ToNode
<1>2. /\ inbox' \in [Mac -> Seq(ToNode)]
      /\ \A r \in Mac : Unread(r)' \subseteq
                          Unread(r) \cup (IF r = n THEN {Ack} ELSE {})
  BY <1>1, NodeReceives
<1>3. QED
  BY <1>1, <1>2

LEMMA SinkCleansUpRecordInv ==
  ASSUME RecordInv, SinkCleansUp
  PROVE  RecordInv'
<1> TypeOK
  BY DEF RecordInv
<1> DEFINE gone == Entered \ heard
<1>1. /\ sinkPc = "recv" /\ UNCHANGED <<sinkPc, job, sinkSent>>
      /\ UNCHANGED <<nodeVars, inbox, sinkInbox, resets>>
      /\ macTable' = remove_ip_mac_entries(macTable, gone)
      /\ evicted' = evicted \cup {<<macTable[i], i>> : i \in gone}
      /\ heard' \subseteq heard
  BY DEF SinkCleansUp
<1>2. gone \subseteq Pool /\ \A i \in gone : macTable[i] \in Mac
  BY DEF Entered
<1>3. \A i \in Address : macTable'[i] = IF i \in gone THEN NullMac ELSE macTable[i]
  BY <1>1 DEF remove_ip_mac_entries
<1> HIDE DEF gone
<1>4. ASSUME NEW n \in Mac, NEW i \in Pool, OnRecord(n, i)
      PROVE  OnRecord(n, i)'
  <2>1. CASE macTable[i] = n /\ i \in gone
    BY <1>1, <2>1 DEF OnRecord
  <2>2. CASE macTable[i] = n /\ i \notin gone
    BY <1>3, <2>2, PoolIsInTable DEF OnRecord
  <2>3. CASE macTable[i] # n
    BY <1>1, <1>4, <2>3 DEF OnRecord
  <2>4. QED
    BY <2>1, <2>2, <2>3
<1>5. HeldOnRecord'
  <2>1. UNCHANGED my_ip /\ \A m \in Mac : Unread(m)' = Unread(m)
    BY <1>1 DEF nodeVars, Unread
  <2>2. QED
    BY <1>4, <2>1, SinkStepHeld
<1>6. JobOnRecord'
  BY <1>1 DEF JobOnRecord
<1>7. NoHolderBelowPool'
  BY <1>2, <1>3, PoolIsInTable DEF RecordInv, NoHolderBelowPool
<1>8. TypeOK'
  <2>1. macTable' \in [Address -> Mac \cup {NullMac, BroadcastMac}]
    <3>1. macTable' = [i \in Address |-> IF i \in gone THEN NullMac ELSE macTable[i]]
      BY <1>1 DEF remove_ip_mac_entries
    <3>2. QED
      BY <3>1 DEF TypeOK
  <2>2. evicted' \subseteq Mac \X Pool
    BY <1>1, <1>2 DEF TypeOK
  <2>3. QED
    BY <1>1, <2>1, <2>2, SinkStepTypes DEF TypeOK
<1>9. QED
  BY <1>5, <1>6, <1>7, <1>8 DEF RecordInv

LEMMA SinkTakesRequestRecordInv ==
  ASSUME RecordInv, SinkTakesRequest
  PROVE  RecordInv'
<1> TypeOK
  BY DEF RecordInv
<1> DEFINE f == Head(sinkInbox)
           ip == find_free_ip(macTable)
<1>1. sinkInbox' \in Seq(ToSink) /\ f \in ToSink
  BY SinkReads DEF SinkTakesRequest
<1>2. f.src \in Mac
  BY <1>1 DEF ToSink
<1>3. /\ sinkPc = "recv"
      /\ TransmitToNode(f.src, Ack)
      /\ UNCHANGED <<nodeVars, macTable, heard, sinkSent, history>>
  BY DEF SinkTakesRequest
<1>4. \/ UNCHANGED <<sinkPc, job>>
      \/ /\ ip \in Pool /\ macTable[ip] = NullMac
         /\ sinkPc' = "issue"
         /\ job' = [mac |-> f.src, ip |-> ip, retries |-> 0]
  <2>1. ip # None => ip \in Pool /\ macTable[ip] = NullMac
    BY FindFreeIpIsFree
  <2>2. QED
    BY <2>1 DEF SinkTakesRequest
<1> HIDE DEF f, ip
<1>5. /\ inbox' \in [Mac -> Seq(ToNode)]
      /\ \A m \in Mac : \A g \in Unread(m)' : \A i \in Pool :
           g.to = i => g \in Unread(m)
  BY <1>2, <1>3, SinkAcknowledges
<1>6. \A n \in Mac : \A i \in Pool : OnRecord(n, i) => OnRecord(n, i)'
  BY <1>3 DEF OnRecord, history
<1>7. HeldOnRecord'
  BY <1>3, <1>5, <1>6, SinkStepHeld DEF nodeVars
<1>8. NoHolderBelowPool'
  BY <1>3 DEF RecordInv, NoHolderBelowPool
<1>9. JobOnRecord' /\ job' \in Job \cup {NoJob}
                  /\ sinkPc' \in {"recv", "issue", "answer"}
  <2>1. CASE UNCHANGED <<sinkPc, job>>
    BY <1>3, <2>1 DEF JobOnRecord, TypeOK
  <2>2. CASE /\ ip \in Pool /\ macTable[ip] = NullMac
             /\ sinkPc' = "issue"
             /\ job' = [mac |-> f.src, ip |-> ip, retries |-> 0]
    <3>1. job' \in Job
      BY <1>2, <2>2, NetworkAssumption DEF Job
    <3>2. QED
      BY <1>3, <2>2, <3>1 DEF JobOnRecord
  <2>3. QED
    BY <1>4, <2>1, <2>2
<1>10. TypeOK'
  BY <1>1, <1>3, <1>5, <1>9, SinkStepTypes DEF TypeOK, history
<1>11. QED
  BY <1>7, <1>8, <1>9, <1>10 DEF RecordInv

(* A message of a holder: the job it starts is for that holder.            *)
LEMMA SinkTakesApplicationRecordInv ==
  ASSUME RecordInv, SinkTakesApplication
  PROVE  RecordInv'
<1> TypeOK
  BY DEF RecordInv
<1> DEFINE f == Head(sinkInbox)
<1>1. sinkInbox' \in Seq(ToSink) /\ f \in ToSink
  BY SinkReads DEF SinkTakesApplication
<1>2. /\ f.src \in Mac
      /\ f.from \in Pool \cup {Unset}
  BY <1>1 DEF ToSink
<1>3. /\ sinkPc = "recv"
      /\ TransmitToNode(f.src, Ack)
      /\ macTable[f.from] = f.src
      /\ heard' = heard \cup {f.from}
      /\ UNCHANGED <<nodeVars, macTable, sinkSent, history>>
  BY DEF SinkTakesApplication, IsApplication
<1>4. \/ UNCHANGED <<sinkPc, job>>
      \/ /\ sinkPc' = "answer"
         /\ job' = [mac |-> f.src, ip |-> f.from, retries |-> 0]
  BY DEF SinkTakesApplication
<1> HIDE DEF f
<1>5. f.from \in Pool
  BY <1>2, <1>3, MacAssumption DEF RecordInv, NoHolderBelowPool
<1>6. /\ inbox' \in [Mac -> Seq(ToNode)]
      /\ \A m \in Mac : \A g \in Unread(m)' : \A i \in Pool :
           g.to = i => g \in Unread(m)
  BY <1>2, <1>3, SinkAcknowledges
<1>7. \A n \in Mac : \A i \in Pool : OnRecord(n, i) => OnRecord(n, i)'
  BY <1>3 DEF OnRecord, history
<1>8. HeldOnRecord'
  BY <1>3, <1>6, <1>7, SinkStepHeld DEF nodeVars
<1>9. NoHolderBelowPool'
  BY <1>3 DEF RecordInv, NoHolderBelowPool
<1>10. JobOnRecord' /\ job' \in Job \cup {NoJob}
                   /\ sinkPc' \in {"recv", "issue", "answer"}
  <2>1. CASE UNCHANGED <<sinkPc, job>>
    BY <1>3, <2>1 DEF JobOnRecord, TypeOK
  <2>2. CASE /\ sinkPc' = "answer"
             /\ job' = [mac |-> f.src, ip |-> f.from, retries |-> 0]
    <3>1. job' \in Job
      BY <1>2, <1>5, <2>2, NetworkAssumption DEF Job
    <3>2. QED
      BY <1>3, <2>2, <3>1 DEF JobOnRecord
  <2>3. QED
    BY <1>4, <2>1, <2>2
<1>11. heard' \subseteq Pool
  BY <1>3, <1>5 DEF TypeOK
<1>12. TypeOK'
  BY <1>1, <1>3, <1>6, <1>10, <1>11, SinkStepTypes DEF TypeOK, history
<1>13. QED
  BY <1>8, <1>9, <1>10, <1>12 DEF RecordInv

LEMMA SinkTakesInvalidRecordInv ==
  ASSUME RecordInv, SinkTakesInvalid
  PROVE  RecordInv'
<1> TypeOK
  BY DEF RecordInv
<1> DEFINE f == Head(sinkInbox)
<1>1. sinkInbox' \in Seq(ToSink) /\ f.src \in Mac
  BY SinkReads DEF SinkTakesInvalid, ToSink
<1>2. TransmitToNode(f.src, Ack) /\ UNCHANGED <<nodeVars, sinkVars, history>>
  BY DEF SinkTakesInvalid
<1> HIDE DEF f
<1>3. /\ inbox' \in [Mac -> Seq(ToNode)]
      /\ \A m \in Mac : \A g \in Unread(m)' : \A i \in Pool :
           g.to = i => g \in Unread(m)
  BY <1>1, <1>2, SinkAcknowledges
<1>4. \A n \in Mac : \A i \in Pool : OnRecord(n, i) => OnRecord(n, i)'
  BY <1>2 DEF OnRecord, history, sinkVars
<1>5. HeldOnRecord'
  BY <1>2, <1>3, <1>4, SinkStepHeld DEF nodeVars
<1>6. NoHolderBelowPool' /\ JobOnRecord'
  BY <1>2 DEF RecordInv, NoHolderBelowPool, JobOnRecord, sinkVars
<1>7. TypeOK'
  BY <1>1, <1>2, <1>3, SinkStepTypes DEF TypeOK, history, sinkVars
<1>8. QED
  BY <1>5, <1>6, <1>7 DEF RecordInv

(* The entry takes over from the issue, and no holder loses its own.       *)
LEMMA EndIssueKeepsRecord ==
  ASSUME RecordInv, sinkPc = "issue", EndIssue, UNCHANGED evicted
  PROVE  /\ \A n \in Mac : \A i \in Pool : OnRecord(n, i) => OnRecord(n, i)'
         /\ NoHolderBelowPool'
         /\ macTable' \in [Address -> Mac \cup {NullMac, BroadcastMac}]
         /\ heard' \subseteq Pool
<1>1. job.ip \in Pool /\ job.mac \in Mac /\ macTable[job.ip] = NullMac
  BY DEF RecordInv, JobOnRecord, Job
<1>2. macTable \in [Address -> Mac \cup {NullMac, BroadcastMac}]
  BY DEF RecordInv, TypeOK
<1>3. macTable' = [macTable EXCEPT ![job.ip] = job.mac]
  BY DEF EndIssue, add_ip_mac_entry
<1>4. ASSUME NEW n \in Mac, NEW i \in Pool, OnRecord(n, i)
      PROVE  OnRecord(n, i)'
  <2>1. CASE macTable[i] = n
    <3>1. i # job.ip
      BY <1>1, <2>1, MacAssumption
    <3>2. QED
      BY <1>2, <1>3, <2>1, <3>1, PoolIsInTable DEF OnRecord
  <2>2. CASE job.mac = n /\ job.ip = i
    BY <1>1, <1>2, <1>3, <2>2, PoolIsInTable DEF OnRecord
  <2>3. CASE <<n, i>> \in evicted
    BY <2>3 DEF OnRecord
  <2>4. QED
    BY <1>4, <2>1, <2>2, <2>3 DEF OnRecord
<1>5. NoHolderBelowPool'
  BY <1>1, <1>2, <1>3, PoolIsInTable DEF RecordInv, NoHolderBelowPool
<1>6. heard' \subseteq Pool
  BY <1>1 DEF EndIssue, RecordInv, TypeOK
<1>7. QED
  BY <1>1, <1>2, <1>3, <1>4, <1>5, <1>6

LEMMA EndJobTypes ==
  ASSUME EndJob
  PROVE  /\ sinkPc' \in {"recv", "issue", "answer"}
         /\ job' \in Job \cup {NoJob}
         /\ sinkSent' \in 0 .. MAC_MAX_RETRIES - 1
         /\ JobOnRecord'
<1>1. 0 \in 0 .. MAC_MAX_RETRIES - 1
  BY NetworkAssumption
<1>2. QED
  BY <1>1 DEF EndJob, JobOnRecord

(* What SinkTransmits does besides transmitting.                           *)
LEMMA SinkCounts ==
  ASSUME RecordInv, SinkTransmits
  PROVE  /\ \A n \in Mac : \A i \in Pool : OnRecord(n, i) => OnRecord(n, i)'
         /\ NoHolderBelowPool'
         /\ JobOnRecord'
         /\ macTable' \in [Address -> Mac \cup {NullMac, BroadcastMac}]
         /\ heard' \subseteq Pool
         /\ sinkPc' \in {"recv", "issue", "answer"}
         /\ job' \in Job \cup {NoJob}
         /\ sinkSent' \in 0 .. MAC_MAX_RETRIES - 1
<1>1. UNCHANGED evicted /\ job \in Job /\ sinkPc \in {"issue", "answer"}
  BY DEF SinkTransmits, history, RecordInv, JobOnRecord
<1>2. CASE sinkSent + 1 < MAC_MAX_RETRIES
  <2>1. sinkSent' = sinkSent + 1 /\ UNCHANGED <<macTable, heard, sinkPc, job>>
    BY <1>2 DEF SinkTransmits
  <2>2. sinkSent' \in 0 .. MAC_MAX_RETRIES - 1
    BY <1>2, <2>1, NetworkAssumption DEF RecordInv, TypeOK
  <2>3. \A n \in Mac : \A i \in Pool : OnRecord(n, i) => OnRecord(n, i)'
    BY <1>1, <2>1 DEF OnRecord
  <2>4. NoHolderBelowPool' /\ JobOnRecord'
    BY <2>1 DEF RecordInv, NoHolderBelowPool, JobOnRecord
  <2>5. QED
    BY <2>1, <2>2, <2>3, <2>4 DEF RecordInv, TypeOK
<1>3. CASE ~ (sinkSent + 1 < MAC_MAX_RETRIES) /\ sinkPc = "answer"
  <2>1. EndJob /\ UNCHANGED <<macTable, heard>>
    <3>1. SinkFails
      BY <1>3 DEF SinkTransmits
    <3>2. QED
      BY <1>3, <3>1 DEF SinkFails
  <2>2. \A n \in Mac : \A i \in Pool : OnRecord(n, i) => OnRecord(n, i)'
    BY <1>1, <1>3, <2>1 DEF OnRecord
  <2>3. NoHolderBelowPool'
    BY <2>1 DEF RecordInv, NoHolderBelowPool
  <2>4. QED
    BY <2>1, <2>2, <2>3, EndJobTypes DEF RecordInv, TypeOK
<1>4. CASE /\ ~ (sinkSent + 1 < MAC_MAX_RETRIES) /\ sinkPc = "issue"
           /\ job.retries + 1 < IP_MAX_ISSUE_RETRIES
  <2>1. /\ job' = [job EXCEPT !.retries = @ + 1]
        /\ sinkSent' = 0
        /\ UNCHANGED <<sinkPc, macTable, heard>>
    <3>1. SinkFails
      BY <1>4 DEF SinkTransmits
    <3>2. job.retries \in Nat
      BY <1>1, NetworkAssumption DEF Job
    <3>3. QED
      BY <1>4, <3>1, <3>2, NetworkAssumption DEF SinkFails
  <2>2. job' \in Job /\ job'.mac = job.mac /\ job'.ip = job.ip
    BY <1>1, <1>4, <2>1, NetworkAssumption DEF Job
  <2>3. \A n \in Mac : \A i \in Pool : OnRecord(n, i) => OnRecord(n, i)'
    BY <1>1, <2>1, <2>2 DEF OnRecord
  <2>4. NoHolderBelowPool' /\ JobOnRecord'
    BY <2>1, <2>2 DEF RecordInv, NoHolderBelowPool, JobOnRecord
  <2>5. sinkSent' \in 0 .. MAC_MAX_RETRIES - 1
    BY <2>1, NetworkAssumption
  <2>6. QED
    BY <2>1, <2>2, <2>3, <2>4, <2>5 DEF RecordInv, TypeOK
<1>5. CASE /\ ~ (sinkSent + 1 < MAC_MAX_RETRIES) /\ sinkPc = "issue"
           /\ ~ (job.retries + 1 < IP_MAX_ISSUE_RETRIES)
  <2>1. EndIssue /\ EndJob
    <3>1. SinkFails
      BY <1>5 DEF SinkTransmits
    <3>2. EndUnsentIssue
      BY <1>5, <3>1 DEF SinkFails
    <3>3. QED
      BY <3>2 DEF EndUnsentIssue, EndIssue
  <2>2. QED
    BY <1>1, <1>5, <2>1, EndIssueKeepsRecord, EndJobTypes
<1>6. QED
  BY <1>1, <1>2, <1>3, <1>4, <1>5

LEMMA SinkTransmitsRecordInv ==
  ASSUME RecordInv, SinkTransmits
  PROVE  RecordInv'
<1> TypeOK
  BY DEF RecordInv
<1> DEFINE f == [kind |-> IF sinkPc = "issue" THEN "issue" ELSE "time",
                 from |-> SinkIp, to |-> job.ip]
<1>1. /\ job \in Job /\ sinkPc \in {"issue", "answer"}
      /\ TransmitToNode(job.mac, f)
      /\ UNCHANGED <<nodeVars, sinkInbox, history>>
  BY DEF SinkTransmits, RecordInv, JobOnRecord
<1>2. job.mac \in Mac /\ job.ip \in Pool /\ f \in ToNode /\ f.to = job.ip
  BY <1>1 DEF Job, ToNode
<1> HIDE DEF f
<1>3. /\ inbox' \in [Mac -> Seq(ToNode)]
      /\ \A r \in Mac : Unread(r)' \subseteq
                          Unread(r) \cup (IF r = job.mac THEN {f} ELSE {})
  BY <1>1, <1>2, NodeReceives
<1>4. OnRecord(job.mac, job.ip)
  BY <1>1 DEF OnRecord, RecordInv, JobOnRecord
<1>5. \A n \in Mac : \A i \in Pool : OnRecord(n, i) => OnRecord(n, i)'
  BY SinkCounts
<1>6. ASSUME NEW n \in Mac, NEW g \in Unread(n)', NEW i \in Pool, g.to = i
      PROVE  g \in Unread(n) \/ OnRecord(n, i)'
  <2>1. CASE g \in Unread(n)
    BY <2>1
  <2>2. CASE n = job.mac /\ g = f
    <3>1. i = job.ip
      BY <1>2, <1>6, <2>2
    <3>2. OnRecord(n, i)
      BY <1>4, <2>2, <3>1
    <3>3. QED
      BY <1>5, <3>2
  <2>3. QED
    BY <1>3, <2>1, <2>2
<1>7. HeldOnRecord'
  BY <1>1, <1>5, <1>6, SinkStepHeld DEF nodeVars
<1>8. TypeOK'
  <2>1. UNCHANGED <<nodeVars, resets, evicted, sinkInbox>>
    BY <1>1 DEF history
  <2>2. QED
    BY <1>3, <2>1, SinkCounts, SinkStepTypes DEF TypeOK
<1>9. QED
  BY <1>7, <1>8, SinkCounts DEF RecordInv

LEMMA SinkAckedRecordInv ==
  ASSUME RecordInv, SinkAcked
  PROVE  RecordInv'
<1> TypeOK
  BY DEF RecordInv
<1>1. sinkInbox' \in Seq(ToSink)
  BY SinkReads DEF SinkAcked
<1>2. UNCHANGED <<nodeVars, inbox, history>> /\ EndJob
  BY DEF SinkAcked, EndIssue
<1>3. /\ \A n \in Mac : \A i \in Pool : OnRecord(n, i) => OnRecord(n, i)'
      /\ NoHolderBelowPool'
      /\ macTable' \in [Address -> Mac \cup {NullMac, BroadcastMac}]
      /\ heard' \subseteq Pool
  <2>1. CASE sinkPc = "issue"
    <3>1. EndIssue /\ UNCHANGED evicted
      BY <1>2, <2>1 DEF SinkAcked, history
    <3>2. QED
      BY <2>1, <3>1, EndIssueKeepsRecord
  <2>2. CASE sinkPc # "issue"
    <3>1. UNCHANGED <<macTable, heard, evicted>>
      BY <1>2, <2>2 DEF SinkAcked, history
    <3>2. QED
      BY <2>2, <3>1 DEF OnRecord, RecordInv, NoHolderBelowPool, TypeOK
  <2>3. QED
    BY <2>1, <2>2
<1>4. UNCHANGED my_ip /\ \A m \in Mac : Unread(m)' = Unread(m)
  BY <1>2 DEF nodeVars, Unread
<1>5. HeldOnRecord'
  BY <1>3, <1>4, SinkStepHeld
<1>6. TypeOK'
  BY <1>1, <1>2, <1>3, EndJobTypes, SinkStepTypes DEF TypeOK, history
<1>7. QED
  BY <1>2, <1>3, <1>5, <1>6, EndJobTypes DEF RecordInv

LEMMA SinkDropsRecordInv ==
  ASSUME RecordInv, SinkDropsInsteadOfAck
  PROVE  RecordInv'
<1> TypeOK
  BY DEF RecordInv
<1>1. sinkInbox' \in Seq(ToSink)
  BY SinkReads DEF SinkDropsInsteadOfAck
<1>2. UNCHANGED <<nodeVars, inbox, sinkVars, history>>
  BY DEF SinkDropsInsteadOfAck
<1>3. HeldOnRecord' /\ JobOnRecord' /\ NoHolderBelowPool'
  BY <1>2 DEF RecordInv, HeldOnRecord, JobOnRecord, NoHolderBelowPool, OnRecord,
     Unread, nodeVars, sinkVars, history
<1>4. TypeOK'
  BY <1>1, <1>2, SinkStepTypes DEF TypeOK, sinkVars, history
<1>5. QED
  BY <1>3, <1>4 DEF RecordInv

(* A reset of the sink discards every entry and the issue in progress.     *)
LEMMA SinkResetRecordInv ==
  ASSUME RecordInv, SinkReset
  PROVE  RecordInv'
<1> TypeOK
  BY DEF RecordInv
<1>1. /\ UNCHANGED <<nodeVars, inbox>>
      /\ macTable' = init_trans_table /\ heard' = {} /\ sinkInbox' = <<>>
      /\ EndJob
      /\ evicted' = evicted \cup {<<macTable[i], i>> : i \in Entered}
            \cup (IF sinkPc = "issue" THEN {<<job.mac, job.ip>>} ELSE {})
  BY DEF SinkReset
<1>2. ASSUME NEW n \in Mac, NEW i \in Pool, OnRecord(n, i)
      PROVE  <<n, i>> \in evicted'
  <2>1. CASE macTable[i] = n
    BY <1>1, <2>1 DEF Entered
  <2>2. CASE sinkPc = "issue" /\ job.mac = n /\ job.ip = i
    BY <1>1, <2>2
  <2>3. CASE <<n, i>> \in evicted
    BY <1>1, <2>3
  <2>4. QED
    BY <1>2, <2>1, <2>2, <2>3 DEF OnRecord
<1>3. HeldOnRecord'
  <2>1. \A n \in Mac : \A i \in Pool : OnRecord(n, i) => OnRecord(n, i)'
    BY <1>2 DEF OnRecord
  <2>2. UNCHANGED my_ip /\ \A m \in Mac : Unread(m)' = Unread(m)
    BY <1>1 DEF nodeVars, Unread
  <2>3. QED
    BY <2>1, <2>2, SinkStepHeld
<1>4. JobOnRecord'
  BY <1>1, EndJobTypes
<1>5. \A i \in Pool \cup {Unset, SinkIp} : i \in Address /\ i # TABLE_SIZE - 1
  BY TableSizeAssumption DEF Pool, Address, Unset, SinkIp
<1>6. NoHolderBelowPool'
  BY <1>1, <1>5 DEF init_trans_table, NoHolderBelowPool
<1>7. TypeOK'
  <2>1. macTable' \in [Address -> Mac \cup {NullMac, BroadcastMac}]
    BY <1>1 DEF init_trans_table
  <2>2. evicted' \subseteq Mac \X Pool
    <3>1. {<<macTable[i], i>> : i \in Entered} \subseteq Mac \X Pool
      BY DEF Entered
    <3>2. sinkPc = "issue" => job.mac \in Mac /\ job.ip \in Pool
      BY DEF RecordInv, JobOnRecord, Job
    <3>3. QED
      BY <1>1, <3>1, <3>2 DEF TypeOK
  <2>3. resets' \in 0 .. MaxReset
    BY NetworkAssumption DEF SinkReset, TypeOK
  <2>4. sinkInbox' \in Seq(ToSink)
    BY <1>1
  <2>5. QED
    BY <1>1, <2>1, <2>2, <2>3, <2>4, EndJobTypes DEF TypeOK, nodeVars
<1>8. QED
  BY <1>3, <1>4, <1>6, <1>7 DEF RecordInv

LEMMA NextRecordInv == RecordInv /\ [Next]_vars => RecordInv'
<1> SUFFICES ASSUME RecordInv, [Next]_vars PROVE RecordInv'
  OBVIOUS
<1>1. ASSUME NEW n \in Mac, Node(n) PROVE RecordInv'
  BY <1>1, NodeTransmitsRecordInv, NodeAckedRecordInv, NodeDropsRecordInv, NodeTakesAddressRecordInv,
     NodeTakesAnswerRecordInv, NodeHearsNothingRecordInv DEF Node
<1>2. ASSUME NEW n \in Mac, NodeReset(n) PROVE RecordInv'
  BY <1>2, NodeResetRecordInv
<1>3. CASE Sink
  BY <1>3, SinkCleansUpRecordInv, SinkTakesRequestRecordInv, SinkTakesApplicationRecordInv,
     SinkTakesInvalidRecordInv, SinkTransmitsRecordInv, SinkAckedRecordInv, SinkDropsRecordInv DEF Sink
<1>4. CASE SinkReset
  BY <1>4, SinkResetRecordInv
<1>5. CASE UNCHANGED vars
  BY <1>5 DEF vars, nodeVars, sinkVars, history, RecordInv, TypeOK, HeldOnRecord,
     JobOnRecord, NoHolderBelowPool, OnRecord, Unread
<1>6. QED
  BY <1>1, <1>2, <1>3, <1>4, <1>5 DEF Next

(* ---- The order of the unread frames. ---- *)

(* Reading moves every frame but the first one place up.                   *)
LEMMA ReadingOrder ==
  ASSUME TypeOK, NEW n \in Mac, ReadsNode(n)
  PROVE  /\ \A r \in Mac : r # n => inbox'[r] = inbox[r]
         /\ 1 \in DOMAIN inbox[n] /\ Head(inbox[n]) = inbox[n][1]
         /\ DOMAIN inbox[n] \subseteq Nat \ {0}
         /\ \A k \in DOMAIN inbox'[n] :
              /\ k \in Nat \ {0}
              /\ k + 1 \in DOMAIN inbox[n]
              /\ inbox'[n][k] = inbox[n][k + 1]
<1>1. inbox[n] \in Seq(ToNode) /\ inbox[n] # <<>>
  BY DEF TypeOK, ReadsNode
<1>2. inbox' = [inbox EXCEPT ![n] = Tail(inbox[n])]
  BY DEF ReadsNode
<1>3. /\ Tail(inbox[n]) \in Seq(ToNode)
      /\ Len(Tail(inbox[n])) = Len(inbox[n]) - 1
      /\ \A i \in 1 .. Len(Tail(inbox[n])) : Tail(inbox[n])[i] = inbox[n][i + 1]
  BY <1>1, HeadTailProperties
<1>4. Len(inbox[n]) \in Nat \ {0} /\ DOMAIN inbox[n] = 1 .. Len(inbox[n])
  BY <1>1, LenProperties, EmptySeq
<1>5. inbox'[n] = Tail(inbox[n]) /\ \A r \in Mac : r # n => inbox'[r] = inbox[r]
  BY <1>2 DEF TypeOK
<1>6. DOMAIN inbox'[n] = 1 .. Len(inbox[n]) - 1
  BY <1>3, <1>5, LenProperties
<1>7. ASSUME NEW k \in DOMAIN inbox'[n]
      PROVE  /\ k \in Nat \ {0}
             /\ k + 1 \in DOMAIN inbox[n]
             /\ inbox'[n][k] = inbox[n][k + 1]
  BY <1>3, <1>4, <1>5, <1>6
<1>8. Head(inbox[n]) = inbox[n][1]
  BY <1>1
<1>9. QED
  BY <1>4, <1>5, <1>7, <1>8

(* A transmission leaves the frames before it where they are.              *)
LEMMA ReceivingOrder ==
  ASSUME TypeOK, NEW n \in Mac, NEW f \in ToNode, TransmitToNode(n, f)
  PROVE  \A r \in Mac :
           \/ inbox'[r] = inbox[r]
           \/ /\ r = n
              /\ DOMAIN inbox'[n] \subseteq Nat \ {0}
              /\ \E last \in DOMAIN inbox'[n] :
                   /\ inbox'[n][last] = f
                   /\ \A k \in DOMAIN inbox'[n] :
                        k # last => /\ k \in DOMAIN inbox[n]
                                    /\ k < last
                                    /\ inbox'[n][k] = inbox[n][k]
<1>1. CASE UNCHANGED inbox
  BY <1>1
<1>2. CASE inbox' = [inbox EXCEPT ![n] = Append(inbox[n], f)]
  <2>1. inbox[n] \in Seq(ToNode)
    BY DEF TypeOK
  <2>2. inbox'[n] = Append(inbox[n], f) /\ \A r \in Mac : r # n => inbox'[r] = inbox[r]
    BY <1>2 DEF TypeOK
  <2>3. /\ DOMAIN inbox'[n] = 1 .. Len(inbox[n]) + 1
        /\ DOMAIN inbox[n] = 1 .. Len(inbox[n])
        /\ Len(inbox[n]) \in Nat
    BY <2>1, <2>2, LenProperties
  <2>4. ASSUME NEW k \in 1 .. Len(inbox[n]) + 1
        PROVE  inbox'[n][k] = IF k = Len(inbox[n]) + 1 THEN f ELSE inbox[n][k]
    BY <2>1, <2>2, <2>3
  <2>5. Len(inbox[n]) + 1 \in DOMAIN inbox'[n]
    BY <2>3
  <2>6. \A k \in DOMAIN inbox'[n] : k # Len(inbox[n]) + 1 =>
          /\ k \in DOMAIN inbox[n] /\ k < Len(inbox[n]) + 1
          /\ inbox'[n][k] = inbox[n][k]
    BY <2>3, <2>4
  <2>7. inbox'[n][Len(inbox[n]) + 1] = f
    BY <2>3, <2>4
  <2>8. QED
    BY <2>2, <2>3, <2>5, <2>6, <2>7
<1>3. QED
  BY <1>1, <1>2 DEF TransmitToNode

(* A step that only ends an issue, or takes the node out of a wait.        *)
LEMMA QuietStepKeepsOrder ==
  ASSUME NEW n \in Mac, NEW i \in Pool, IssuedTogether(n, i),
         inbox'[n] = inbox[n], my_ip'[n] = my_ip[n],
         Issuing(n, i)' => Issuing(n, i),
         pc'[n] = "answer" => pc[n] = "answer"
  PROVE  IssuedTogether(n, i)'
BY DEF IssuedTogether, AckAt, CopyAt, SentAt, BeforeNews

(* Reading an ack is when a holder has seen the last copy.                 *)
LEMMA ReadingKeepsOrder ==
  ASSUME TypeOK, NEW n \in Mac, NEW i \in Pool, IssuedTogether(n, i), ReadsNode(n),
         my_ip'[n] = my_ip[n], Issuing(n, i)' => Issuing(n, i),
         pc'[n] = "answer" => pc[n] = "answer" \/ Head(inbox[n]).kind = "ack"
  PROVE  IssuedTogether(n, i)'
<1>1. /\ 1 \in DOMAIN inbox[n] /\ Head(inbox[n]) = inbox[n][1]
      /\ DOMAIN inbox[n] \subseteq Nat \ {0}
      /\ \A k \in DOMAIN inbox'[n] : /\ k \in Nat \ {0}
                                     /\ k + 1 \in DOMAIN inbox[n]
                                     /\ inbox'[n][k] = inbox[n][k + 1]
  BY ReadingOrder
<1>2. ASSUME NEW k \in DOMAIN inbox'[n], BeforeNews(n, k + 1, i)
      PROVE  BeforeNews(n, k, i)'
  BY <1>1, <1>2 DEF BeforeNews, SentAt
<1>3. ASSUME NEW k \in DOMAIN inbox'[n], NEW l \in DOMAIN inbox'[n],
             AckAt(n, k)', CopyAt(n, l, i)', k < l
      PROVE  BeforeNews(n, k, i)'
  <2>1. /\ AckAt(n, k + 1) /\ CopyAt(n, l + 1, i) /\ k + 1 < l + 1
    BY <1>1, <1>3 DEF AckAt, CopyAt, SentAt
  <2>2. BeforeNews(n, k + 1, i)
    BY <1>1, <2>1 DEF IssuedTogether
  <2>3. QED
    BY <1>2, <2>2
<1>4. ASSUME Issuing(n, i)', NEW k \in DOMAIN inbox'[n], AckAt(n, k)'
      PROVE  BeforeNews(n, k, i)'
  <2>1. Issuing(n, i) /\ AckAt(n, k + 1)
    BY <1>1, <1>4 DEF AckAt
  <2>2. BeforeNews(n, k + 1, i)
    BY <1>1, <2>1 DEF IssuedTogether
  <2>3. QED
    BY <1>2, <2>2
<1>5. ASSUME my_ip'[n] = i, pc'[n] = "answer"
      PROVE  ~ Issuing(n, i)' /\ \A l \in DOMAIN inbox'[n] : ~ CopyAt(n, l, i)'
  <2>1. CASE pc[n] = "answer"
    <3>1. ~ Issuing(n, i) /\ \A l \in DOMAIN inbox[n] : ~ CopyAt(n, l, i)
      BY <1>5, <2>1 DEF IssuedTogether
    <3>2. QED
      BY <1>1, <3>1 DEF CopyAt, SentAt
  <2>2. CASE Head(inbox[n]).kind = "ack"
    <3>1. AckAt(n, 1) /\ ~ BeforeNews(n, 1, i)
      BY <1>1, <1>5, <2>2 DEF AckAt, BeforeNews
    <3>2. ~ Issuing(n, i)
      BY <1>1, <3>1 DEF IssuedTogether
    <3>3. ASSUME NEW l \in DOMAIN inbox'[n], CopyAt(n, l, i)' PROVE FALSE
      <4>1. CopyAt(n, l + 1, i) /\ 1 < l + 1
        BY <1>1, <3>3 DEF CopyAt, SentAt
      <4>2. QED
        BY <1>1, <3>1, <4>1 DEF IssuedTogether
    <3>4. QED
      BY <3>2, <3>3
  <2>3. QED
    BY <1>5, <2>1, <2>2
<1>6. QED
  BY <1>3, <1>4, <1>5 DEF IssuedTogether

(* The frame a node takes its address from is the first: no ack before it. *)
LEMMA TakingAddressKeepsOrder ==
  ASSUME TypeOK, NEW n \in Mac, NEW i \in Pool, IssuedTogether(n, i), ReadsNode(n),
         my_ip'[n] = Head(inbox[n]).to, pc'[n] # "answer",
         Issuing(n, i)' => Issuing(n, i)
  PROVE  IssuedTogether(n, i)'
<1>1. /\ 1 \in DOMAIN inbox[n] /\ Head(inbox[n]) = inbox[n][1]
      /\ DOMAIN inbox[n] \subseteq Nat \ {0}
      /\ \A k \in DOMAIN inbox'[n] : /\ k \in Nat \ {0}
                                     /\ k + 1 \in DOMAIN inbox[n]
                                     /\ inbox'[n][k] = inbox[n][k + 1]
  BY ReadingOrder
<1>2. ASSUME NEW k \in DOMAIN inbox'[n], BeforeNews(n, k + 1, i)
      PROVE  BeforeNews(n, k, i)'
  <2>1. Head(inbox[n]).to # i
    BY <1>1, <1>2 DEF BeforeNews, SentAt
  <2>2. QED
    BY <1>1, <1>2, <2>1 DEF BeforeNews, SentAt
<1>3. ASSUME NEW k \in DOMAIN inbox'[n], NEW l \in DOMAIN inbox'[n],
             AckAt(n, k)', CopyAt(n, l, i)', k < l
      PROVE  BeforeNews(n, k, i)'
  <2>1. /\ AckAt(n, k + 1) /\ CopyAt(n, l + 1, i) /\ k + 1 < l + 1
    BY <1>1, <1>3 DEF AckAt, CopyAt, SentAt
  <2>2. BeforeNews(n, k + 1, i)
    BY <1>1, <2>1 DEF IssuedTogether
  <2>3. QED
    BY <1>2, <2>2
<1>4. ASSUME Issuing(n, i)', NEW k \in DOMAIN inbox'[n], AckAt(n, k)'
      PROVE  BeforeNews(n, k, i)'
  <2>1. Issuing(n, i) /\ AckAt(n, k + 1)
    BY <1>1, <1>4 DEF AckAt
  <2>2. BeforeNews(n, k + 1, i)
    BY <1>1, <2>1 DEF IssuedTogether
  <2>3. QED
    BY <1>2, <2>2
<1>5. QED
  BY <1>3, <1>4 DEF IssuedTogether

(* An ack goes behind all copies, and no issue is going on.                *)
LEMMA AckKeepsOrder ==
  ASSUME TypeOK, NEW m \in Mac, TransmitToNode(m, Ack),
         NEW n \in Mac, NEW i \in Pool, IssuedTogether(n, i),
         UNCHANGED <<my_ip, pc>>, ~ Issuing(n, i)'
  PROVE  IssuedTogether(n, i)'
<1>1. Ack \in ToNode /\ Ack.to # i
  BY PoolIsInTable DEF Ack, ToNode
<1>2. CASE inbox'[n] = inbox[n]
  BY <1>2, QuietStepKeepsOrder
<1>3. CASE n = m /\ inbox'[n] # inbox[n]
  <2>1. PICK last \in DOMAIN inbox'[n] :
          /\ inbox'[n][last] = Ack
          /\ \A k \in DOMAIN inbox'[n] :
               k # last => /\ k \in DOMAIN inbox[n]
                           /\ k < last
                           /\ inbox'[n][k] = inbox[n][k]
    BY <1>1, <1>3, ReceivingOrder
  <2>2. DOMAIN inbox'[n] \subseteq Nat \ {0}
    BY <1>1, <1>3, ReceivingOrder
  <2>3. \A l \in DOMAIN inbox'[n] :
          SentAt(n, l, i)' => SentAt(n, l, i) /\ l < last
    BY <1>1, <2>1 DEF SentAt
  <2>4. \A l \in DOMAIN inbox'[n] :
          CopyAt(n, l, i)' => CopyAt(n, l, i) /\ l < last
    BY <2>1, <2>2, <2>3 DEF CopyAt
  <2>5. ASSUME NEW k \in DOMAIN inbox'[n], NEW l \in DOMAIN inbox'[n],
               AckAt(n, k)', CopyAt(n, l, i)', k < l
        PROVE  BeforeNews(n, k, i)'
    <3>1. CopyAt(n, l, i) /\ l < last
      BY <2>4, <2>5
    <3>2. k # last
      BY <2>2, <2>5, <3>1
    <3>3. k \in DOMAIN inbox[n] /\ AckAt(n, k)
      BY <2>1, <2>5, <3>2 DEF AckAt
    <3>4. BeforeNews(n, k, i)
      BY <2>5, <3>1, <3>3 DEF IssuedTogether, CopyAt, SentAt
    <3>5. QED
      BY <2>3, <3>4 DEF BeforeNews, SentAt
  <2>6. ASSUME my_ip'[n] = i, pc'[n] = "answer", NEW l \in DOMAIN inbox'[n]
        PROVE  ~ CopyAt(n, l, i)'
    BY <2>4, <2>6 DEF IssuedTogether, CopyAt, SentAt
  <2>7. QED
    BY <2>5, <2>6 DEF IssuedTogether
<1>4. QED
  BY <1>1, <1>2, <1>3, ReceivingOrder

(* When an issue starts, the node has nothing of that address.             *)
LEMMA NewsIsNews ==
  ASSUME RecordInv, NEW n \in Mac, NEW i \in Pool, ~ OnRecord(n, i),
         inbox' \in [Mac -> Seq(ToNode)], UNCHANGED my_ip,
         \A g \in Unread(n)' : g.to = i => g \in Unread(n)
  PROVE  IssuedTogether(n, i)'
<1>1. my_ip'[n] # i /\ \A g \in Unread(n)' : g.to # i
  BY DEF RecordInv, HeldOnRecord
<1>2. \A l \in DOMAIN inbox'[n] : ~ SentAt(n, l, i)'
  BY <1>1 DEF SentAt, Unread
<1>3. QED
  BY <1>1, <1>2 DEF IssuedTogether, CopyAt, BeforeNews

(* A copy follows the others of its issue: an ack among them would be one  *)
(* between the first of them and the issue.                                *)
LEMMA TransmittingKeepsOrder ==
  ASSUME RecordInv, SinkTransmits,
         NEW n \in Mac, NEW i \in Pool, IssuedTogether(n, i),
         Issuing(n, i)' => Issuing(n, i)
  PROVE  IssuedTogether(n, i)'
<1> TypeOK
  BY DEF RecordInv
<1> DEFINE f == [kind |-> IF sinkPc = "issue" THEN "issue" ELSE "time",
                 from |-> SinkIp, to |-> job.ip]
<1>1. /\ job \in Job /\ sinkPc \in {"issue", "answer"}
      /\ TransmitToNode(job.mac, f)
      /\ UNCHANGED <<pc, my_ip>>
  BY DEF SinkTransmits, RecordInv, JobOnRecord, nodeVars
<1>2. /\ job.mac \in Mac /\ f \in ToNode /\ f.to = job.ip /\ f.kind # "ack"
      /\ f.kind = "issue" => sinkPc = "issue"
  BY <1>1 DEF Job, ToNode
<1> HIDE DEF f
<1>3. CASE inbox'[n] = inbox[n]
  BY <1>1, <1>3, QuietStepKeepsOrder
<1>4. CASE n = job.mac /\ inbox'[n] # inbox[n]
  <2>1. PICK last \in DOMAIN inbox'[n] :
          /\ inbox'[n][last] = f
          /\ \A k \in DOMAIN inbox'[n] :
               k # last => /\ k \in DOMAIN inbox[n]
                           /\ k < last
                           /\ inbox'[n][k] = inbox[n][k]
    BY <1>1, <1>2, <1>4, ReceivingOrder
  <2>2. ASSUME NEW k \in DOMAIN inbox'[n], AckAt(n, k)'
        PROVE  k \in DOMAIN inbox[n] /\ AckAt(n, k) /\ k < last
    BY <1>2, <2>1, <2>2 DEF AckAt
  <2>3. ASSUME NEW l \in DOMAIN inbox'[n], CopyAt(n, l, i)'
        PROVE  \/ l \in DOMAIN inbox[n] /\ CopyAt(n, l, i)
               \/ Issuing(n, i)
    BY <1>2, <1>4, <2>1, <2>3 DEF CopyAt, SentAt, Issuing
  <2>4. ASSUME NEW k \in DOMAIN inbox'[n], AckAt(n, k)', BeforeNews(n, k, i)
        PROVE  BeforeNews(n, k, i)'
    BY <1>1, <2>1, <2>2, <2>4 DEF BeforeNews, SentAt
  <2>5. ASSUME NEW k \in DOMAIN inbox'[n], NEW l \in DOMAIN inbox'[n],
               AckAt(n, k)', CopyAt(n, l, i)', k < l
        PROVE  BeforeNews(n, k, i)'
    <3>1. BeforeNews(n, k, i)
      BY <2>2, <2>3, <2>5 DEF IssuedTogether
    <3>2. QED
      BY <2>4, <2>5, <3>1
  <2>6. ASSUME Issuing(n, i)', NEW k \in DOMAIN inbox'[n], AckAt(n, k)'
        PROVE  BeforeNews(n, k, i)'
    <3>1. BeforeNews(n, k, i)
      BY <2>2, <2>6 DEF IssuedTogether
    <3>2. QED
      BY <2>4, <2>6, <3>1
  <2>7. ASSUME my_ip'[n] = i, pc'[n] = "answer"
        PROVE  ~ Issuing(n, i)' /\ \A l \in DOMAIN inbox'[n] : ~ CopyAt(n, l, i)'
    BY <1>1, <2>3, <2>7 DEF IssuedTogether
  <2>8. QED
    BY <2>5, <2>6, <2>7 DEF IssuedTogether
<1>5. QED
  BY <1>1, <1>2, <1>3, <1>4, ReceivingOrder

(* ---- No step breaks that order. ---- *)

LEMMA NodeKeepsOrder ==
  ASSUME IInv, NEW m \in Mac, Node(m)
  PROVE  CopiesBeforeAcks'
<1> TypeOK
  BY DEF IInv, RecordInv
<1>1. UNCHANGED <<sinkVars, history>>
  BY DEF Node, NodeTransmits, NodeAcked, NodeDropsInsteadOfAck, NodeTakesAddress,
     NodeTakesAnswer, NodeHearsNothing
<1> SUFFICES ASSUME NEW n \in Mac, NEW i \in Pool, <<n, i>> \notin evicted
             PROVE  IssuedTogether(n, i)'
  BY <1>1 DEF CopiesBeforeAcks, history
<1>2. IssuedTogether(n, i)
  BY DEF IInv, CopiesBeforeAcks
<1>3. Issuing(n, i)' => Issuing(n, i)
  BY <1>1 DEF Issuing, sinkVars
<1>4. ASSUME Again(m)
      PROVE  \A r \in Mac : pc'[r] = "answer" => pc[r] = "answer"
  BY <1>4 DEF Again, TypeOK
<1>5. CASE NodeTransmits(m)
  <2>1. UNCHANGED <<inbox, my_ip>>
    BY <1>5 DEF NodeTransmits
  <2>2. pc'[n] = "answer" => pc[n] = "answer"
    BY <1>4, <1>5 DEF NodeTransmits
  <2>3. QED
    BY <1>2, <1>3, <2>1, <2>2, QuietStepKeepsOrder
<1>6. CASE NodeHearsNothing(m)
  <2>1. UNCHANGED <<inbox, my_ip>>
    BY <1>6 DEF NodeHearsNothing
  <2>2. pc'[n] = "answer" => pc[n] = "answer"
    BY <1>4, <1>6 DEF NodeHearsNothing
  <2>3. QED
    BY <1>2, <1>3, <2>1, <2>2, QuietStepKeepsOrder
<1>7. ASSUME ReadsNode(m), my_ip'[n] = my_ip[n],
             pc'[n] = "answer" =>
               pc[n] = "answer" \/ (n = m /\ Head(inbox[m]).kind = "ack")
      PROVE  IssuedTogether(n, i)'
  <2>1. CASE n = m
    BY <1>2, <1>3, <1>7, <2>1, ReadingKeepsOrder
  <2>2. CASE n # m
    <3>1. inbox'[n] = inbox[n]
      BY <1>7, <2>2, ReadingOrder
    <3>2. QED
      BY <1>2, <1>3, <1>7, <2>2, <3>1, QuietStepKeepsOrder
  <2>3. QED
    BY <2>1, <2>2
<1>8. CASE NodeAcked(m)
  <2>1. ReadsNode(m) /\ Head(inbox[m]).kind = "ack" /\ UNCHANGED my_ip
    BY <1>8 DEF NodeAcked
  <2>2. n # m => pc'[n] = pc[n]
    BY <1>8 DEF NodeAcked, TypeOK
  <2>3. QED
    BY <1>7, <2>1, <2>2
<1>9. CASE NodeDropsInsteadOfAck(m)
  BY <1>7, <1>9 DEF NodeDropsInsteadOfAck, nodeVars
<1>10. CASE NodeTakesAnswer(m)
  <2>1. ReadsNode(m) /\ UNCHANGED my_ip
    BY <1>10 DEF NodeTakesAnswer
  <2>2. pc'[n] = "answer" => pc[n] = "answer"
    <3>1. CASE IsAnswer(m, Head(inbox[m]))
      BY <1>10, <3>1 DEF NodeTakesAnswer, TypeOK
    <3>2. CASE ~ IsAnswer(m, Head(inbox[m]))
      BY <1>4, <1>10, <3>2 DEF NodeTakesAnswer
    <3>3. QED
      BY <3>1, <3>2
  <2>3. QED
    BY <1>7, <2>1, <2>2
<1>11. CASE NodeTakesAddress(m)
  <2>1. /\ ReadsNode(m)
        /\ my_ip' = [my_ip EXCEPT ![m] = Head(inbox[m]).to]
        /\ pc' = [pc EXCEPT ![m] = "sync"]
    BY <1>11 DEF NodeTakesAddress
  <2>2. CASE n = m
    <3>1. my_ip'[n] = Head(inbox[n]).to /\ pc'[n] # "answer"
      BY <2>1, <2>2 DEF TypeOK
    <3>2. QED
      BY <1>2, <1>3, <2>1, <2>2, <3>1, TakingAddressKeepsOrder
  <2>3. CASE n # m
    <3>1. my_ip'[n] = my_ip[n] /\ pc'[n] = pc[n]
      BY <2>1, <2>3 DEF TypeOK
    <3>2. QED
      BY <1>7, <2>1, <3>1
  <2>4. QED
    BY <2>2, <2>3
<1>12. QED
  BY <1>5, <1>6, <1>8, <1>9, <1>10, <1>11 DEF Node

LEMMA NodeResetKeepsOrder ==
  ASSUME IInv, NEW m \in Mac, NodeReset(m)
  PROVE  CopiesBeforeAcks'
<1> TypeOK
  BY DEF IInv, RecordInv
<1>1. /\ inbox' = [inbox EXCEPT ![m] = <<>>]
      /\ my_ip' = [my_ip EXCEPT ![m] = Unset]
      /\ pc' = [pc EXCEPT ![m] = "request"]
      /\ evicted' = evicted \ ({m} \X Pool)
      /\ UNCHANGED sinkVars
  BY DEF NodeReset
<1> SUFFICES ASSUME NEW n \in Mac, NEW i \in Pool, <<n, i>> \notin evicted'
             PROVE  IssuedTogether(n, i)'
  BY DEF CopiesBeforeAcks
<1>2. CASE n = m
  <2>1. inbox'[n] = <<>> /\ my_ip'[n] # i
    BY <1>1, <1>2, PoolIsInTable DEF TypeOK
  <2>2. DOMAIN inbox'[n] = {}
    BY <2>1
  <2>3. QED
    BY <2>1, <2>2 DEF IssuedTogether
<1>3. CASE n # m
  <2>1. inbox'[n] = inbox[n] /\ my_ip'[n] = my_ip[n] /\ pc'[n] = pc[n]
    BY <1>1, <1>3 DEF TypeOK
  <2>2. <<n, i>> \notin evicted
    BY <1>1, <1>3
  <2>3. IssuedTogether(n, i)
    BY <2>2 DEF IInv, CopiesBeforeAcks
  <2>4. Issuing(n, i)' => Issuing(n, i)
    BY <1>1 DEF Issuing, sinkVars
  <2>5. QED
    BY <2>1, <2>3, <2>4, QuietStepKeepsOrder
<1>4. QED
  BY <1>2, <1>3

LEMMA SinkKeepsOrder ==
  ASSUME IInv, Sink
  PROVE  CopiesBeforeAcks'
<1> RecordInv /\ TypeOK
  BY DEF IInv, RecordInv
<1>1. UNCHANGED nodeVars /\ evicted \subseteq evicted'
  BY DEF Sink, SinkCleansUp, SinkTakesRequest, SinkTakesApplication,
     SinkTakesInvalid, SinkTransmits, SinkAcked, SinkDropsInsteadOfAck, history
<1> SUFFICES ASSUME NEW n \in Mac, NEW i \in Pool, <<n, i>> \notin evicted'
             PROVE  IssuedTogether(n, i)'
  BY DEF CopiesBeforeAcks
<1>2. IssuedTogether(n, i)
  BY <1>1 DEF IInv, CopiesBeforeAcks
<1>3. UNCHANGED <<my_ip, pc>>
  BY <1>1 DEF nodeVars
<1>4. CASE SinkCleansUp
  <2>1. UNCHANGED inbox /\ ~ Issuing(n, i)'
    BY <1>4 DEF SinkCleansUp, Issuing
  <2>2. QED
    BY <1>2, <1>3, <2>1, QuietStepKeepsOrder
<1>5. CASE SinkTakesRequest
  <2> DEFINE f == Head(sinkInbox)
             ip == find_free_ip(macTable)
  <2>1. f.src \in Mac
    BY <1>5, SinkReads DEF SinkTakesRequest, ToSink
  <2>2. sinkPc = "recv" /\ TransmitToNode(f.src, Ack)
    BY <1>5 DEF SinkTakesRequest
  <2>3. \/ UNCHANGED <<sinkPc, job>>
        \/ macTable[ip] = NullMac /\ job' = [mac |-> f.src, ip |-> ip, retries |-> 0]
    BY <1>5, FindFreeIpIsFree DEF SinkTakesRequest
  <2> HIDE DEF f, ip
  <2>4. CASE Issuing(n, i)'
    <3>1. macTable[i] = NullMac
      BY <2>2, <2>3, <2>4 DEF Issuing
    <3>2. ~ OnRecord(n, i)
      BY <1>1, <2>2, <3>1, MacAssumption DEF OnRecord
    <3>3. /\ inbox' \in [Mac -> Seq(ToNode)]
          /\ \A g \in Unread(n)' : g.to = i => g \in Unread(n)
      BY <2>1, <2>2, SinkAcknowledges
    <3>4. QED
      BY <1>3, <3>2, <3>3, NewsIsNews
  <2>5. CASE ~ Issuing(n, i)'
    BY <1>2, <1>3, <2>1, <2>2, <2>5, AckKeepsOrder
  <2>6. QED
    BY <2>4, <2>5
<1>6. CASE SinkTakesApplication
  <2>1. Head(sinkInbox).src \in Mac
    BY <1>6, SinkReads DEF SinkTakesApplication, ToSink
  <2>2. TransmitToNode(Head(sinkInbox).src, Ack) /\ ~ Issuing(n, i)'
    BY <1>6 DEF SinkTakesApplication, Issuing
  <2>3. QED
    BY <1>2, <1>3, <2>1, <2>2, AckKeepsOrder
<1>7. CASE SinkTakesInvalid
  <2>1. Head(sinkInbox).src \in Mac
    BY <1>7, SinkReads DEF SinkTakesInvalid, ToSink
  <2>2. TransmitToNode(Head(sinkInbox).src, Ack) /\ ~ Issuing(n, i)'
    BY <1>7 DEF SinkTakesInvalid, Issuing, sinkVars
  <2>3. QED
    BY <1>2, <1>3, <2>1, <2>2, AckKeepsOrder
<1>8. CASE SinkTransmits
  <2>1. Issuing(n, i)' => Issuing(n, i)
    <3>1. CASE sinkSent + 1 < MAC_MAX_RETRIES
      BY <1>8, <3>1 DEF SinkTransmits, Issuing
    <3>2. CASE ~ (sinkSent + 1 < MAC_MAX_RETRIES)
      BY <1>8, <3>2 DEF SinkTransmits, SinkFails, EndUnsentIssue, EndIssue, EndJob,
         Issuing, RecordInv, JobOnRecord, Job
    <3>3. QED
      BY <3>1, <3>2
  <2>2. QED
    BY <1>2, <1>8, <2>1, TransmittingKeepsOrder
<1>9. CASE SinkAcked
  <2>1. UNCHANGED inbox /\ ~ Issuing(n, i)'
    BY <1>9 DEF SinkAcked, EndIssue, EndJob, Issuing
  <2>2. QED
    BY <1>2, <1>3, <2>1, QuietStepKeepsOrder
<1>10. CASE SinkDropsInsteadOfAck
  <2>1. UNCHANGED <<inbox, sinkVars>>
    BY <1>10 DEF SinkDropsInsteadOfAck
  <2>2. QED
    BY <1>2, <1>3, <2>1, QuietStepKeepsOrder DEF Issuing, sinkVars
<1>11. QED
  BY <1>4, <1>5, <1>6, <1>7, <1>8, <1>9, <1>10 DEF Sink

LEMMA SinkResetKeepsOrder ==
  ASSUME IInv, SinkReset
  PROVE  CopiesBeforeAcks'
<1>1. UNCHANGED <<pc, my_ip, inbox>> /\ evicted \subseteq evicted' /\ sinkPc' = "recv"
  BY DEF SinkReset, EndJob, nodeVars
<1>2. ASSUME NEW n \in Mac, NEW i \in Pool, <<n, i>> \notin evicted'
      PROVE  IssuedTogether(n, i)'
  <2>1. IssuedTogether(n, i)
    BY <1>1, <1>2 DEF IInv, CopiesBeforeAcks
  <2>2. ~ Issuing(n, i)'
    BY <1>1 DEF Issuing
  <2>3. QED
    BY <1>1, <2>1, <2>2, QuietStepKeepsOrder
<1>3. QED
  BY <1>2 DEF CopiesBeforeAcks

(* ---- The theorems. ---- *)

LEMMA InitIInv == Init => IInv
<1> SUFFICES ASSUME Init PROVE CopiesBeforeAcks
  BY InitRecordInv DEF IInv
<1>1. \A n \in Mac : DOMAIN inbox[n] = {} /\ my_ip[n] = Unset
  BY DEF Init
<1>2. QED
  BY <1>1, PoolIsInTable DEF CopiesBeforeAcks, IssuedTogether

LEMMA NextIInv == IInv /\ [Next]_vars => IInv'
<1> SUFFICES ASSUME IInv, [Next]_vars PROVE CopiesBeforeAcks'
  BY NextRecordInv DEF IInv
<1>1. CASE UNCHANGED vars
  BY <1>1 DEF vars, nodeVars, sinkVars, history, IInv, CopiesBeforeAcks,
     IssuedTogether, AckAt, CopyAt, SentAt, BeforeNews, Issuing
<1>2. QED
  BY <1>1, NodeKeepsOrder, NodeResetKeepsOrder, SinkKeepsOrder,
     SinkResetKeepsOrder DEF Next

(* Every address that a node holds or has unread in its radio is on record *)
(* at the sink, whatever is lost, repeated, reset or discarded.            *)
THEOREM InvariantHolds == Spec => []IInv
BY InitIInv, NextIInv, PTL DEF Spec

(* The variables of nodes and sink keep their types.                       *)
THEOREM TypeCorrect == Spec => []TypeOK
<1>1. IInv => TypeOK
  BY DEF IInv, RecordInv
<1>2. QED
  BY <1>1, InvariantHolds, PTL

LEMMA OnRecordIsUnique == RecordInv => UniqueUntilEvicted
<1> SUFFICES ASSUME RecordInv, NEW m \in Mac, NEW n \in Mac, NEW i \in Pool,
                    Holds(m, i), Holds(n, i)
             PROVE  m = n
  BY DEF UniqueUntilEvicted
<1>1. /\ macTable[i] = m \/ (sinkPc = "issue" /\ job.mac = m /\ job.ip = i)
      /\ macTable[i] = n \/ (sinkPc = "issue" /\ job.mac = n /\ job.ip = i)
  BY DEF RecordInv, HeldOnRecord, OnRecord, Holds
<1>2. sinkPc = "issue" => macTable[job.ip] = NullMac
  BY DEF RecordInv, JobOnRecord
<1>3. QED
  BY <1>1, <1>2, MacAssumption

(* Two nodes have the same address only after the sink has discarded one   *)
(* of them or was reset: for any number of nodes and addresses, retries    *)
(* and resets, and whatever the air loses.                                 *)
THEOREM AddressesAreUnique == Spec => []UniqueUntilEvicted
<1>1. IInv => UniqueUntilEvicted
  BY OnRecordIsUnique DEF IInv
<1>2. QED
  BY <1>1, InvariantHolds, PTL

(* Only NodeTakesAnswer ends the wait for the answer well.                 *)
LEMMA AnswerIsTaken ==
  ASSUME TypeOK, NEW n \in Mac, pc[n] = "answer", pc'[n] = "data", [Next]_vars
  PROVE  ReadsNode(n) /\ IsAnswer(n, Head(inbox[n]))
<1>1. PICK m \in Mac : Node(m) \/ NodeReset(m)
  BY DEF Next, Sink, SinkCleansUp, SinkTakesRequest, SinkTakesApplication,
     SinkTakesInvalid, SinkTransmits, SinkAcked, SinkDropsInsteadOfAck, SinkReset,
     vars, nodeVars
<1>2. ~ NodeReset(m)
  BY DEF NodeReset, TypeOK
<1>3. ASSUME Again(m) PROVE FALSE
  BY <1>3 DEF Again, TypeOK
<1>4. ~ NodeTransmits(m) /\ ~ NodeHearsNothing(m)
  BY <1>3 DEF NodeTransmits, NodeHearsNothing
<1>5. ~ NodeAcked(m) /\ ~ NodeDropsInsteadOfAck(m) /\ ~ NodeTakesAddress(m)
  BY DEF NodeAcked, NodeDropsInsteadOfAck, NodeTakesAddress, nodeVars, TypeOK
<1>6. NodeTakesAnswer(m)
  BY <1>1, <1>2, <1>4, <1>5 DEF Node
<1>7. /\ ReadsNode(m) /\ IsAnswer(m, Head(inbox[m]))
      /\ pc' = [pc EXCEPT ![m] = "data"]
  BY <1>3, <1>6 DEF NodeTakesAnswer
<1>8. m = n
  BY <1>7 DEF TypeOK
<1>9. QED
  BY <1>7, <1>8

LEMMA AnswerIsTime ==
  ASSUME IInv, [Next]_vars, NEW n \in Mac,
         pc[n] = "answer", pc'[n] = "data", Holds(n, my_ip[n])
  PROVE  Head(inbox[n]).kind = "time"
<1> TypeOK
  BY DEF IInv, RecordInv
<1> DEFINE f == Head(inbox[n])
<1>1. ReadsNode(n) /\ IsAnswer(n, f)
  BY AnswerIsTaken
<1>2. f \in ToNode /\ 1 \in DOMAIN inbox[n] /\ f = inbox[n][1]
  BY <1>1, NodeReads, ReadingOrder
<1> HIDE DEF f
<1>3. f.from # Unset /\ f.to = my_ip[n]
  BY <1>1 DEF IsAnswer
<1>4. f.kind \in {"issue", "time"} /\ f.to \in Pool
  BY <1>2, <1>3 DEF ToNode
<1>5. IssuedTogether(n, my_ip[n])
  BY <1>3, <1>4 DEF IInv, CopiesBeforeAcks, Holds
<1>6. ~ CopyAt(n, 1, my_ip[n])
  BY <1>2, <1>5 DEF IssuedTogether
<1>7. f.kind # "issue"
  BY <1>2, <1>3, <1>6 DEF CopyAt, SentAt
<1>8. QED
  BY <1>4, <1>7 DEF f

(* A node whose address is still on record takes the system time only from *)
(* an answer to its request, never from a late copy of the frame that gave *)
(* it the address, whatever is lost and however often either side repeats. *)
THEOREM SyncComesFromAnswer == Spec => SyncFromAnswer
<1>1. IInv /\ [Next]_vars =>
        [\A n \in Mac :
           pc[n] = "answer" /\ pc'[n] = "data" /\ Holds(n, my_ip[n]) =>
             Head(inbox[n]).kind = "time"]_vars
  BY AnswerIsTime
<1>2. QED
  BY <1>1, InvariantHolds, PTL DEF Spec, SyncFromAnswer
-----------------------------------------------------------------------------
(* The refinement. A step of the network is read as a step of Registry.    *)

(* What comes to a node, as pairs.                                         *)
LEMMA ComingPairs ==
  \A n \in Mac : \A i \in Pool : <<n, i>> \in Coming <=> ComesTo(n, i)
BY DEF Coming

(* What comes to a node in a step was coming, or is new.                   *)
LEMMA ComingGrows ==
  ASSUME NEW new \in SUBSET (Mac \X Pool),
         \A n \in Mac : \A f \in Unread(n)' : \A i \in Pool :
           f.to = i => f \in Unread(n) \/ <<n, i>> \in Coming \cup new,
         \A n \in Mac : \A i \in Pool :
           Telling(n, i)' => Telling(n, i) \/ <<n, i>> \in Coming \cup new
  PROVE  Coming' \subseteq Coming \cup new
<1>1. ASSUME NEW n \in Mac, NEW i \in Pool, ComesTo(n, i)'
      PROVE  <<n, i>> \in Coming \cup new
  <2>1. CASE Telling(n, i)'
    BY <2>1, ComingPairs DEF ComesTo
  <2>2. CASE \E f \in Unread(n)' : f.to = i
    BY <2>2, ComingPairs DEF ComesTo
  <2>3. QED
    BY <1>1, <2>1, <2>2 DEF ComesTo
<1>2. ASSUME NEW p \in Coming' PROVE p \in Coming \cup new
  <2>1. p \in Mac \X Pool /\ ComesTo(p[1], p[2])'
    BY <1>2 DEF Coming
  <2>2. p = <<p[1], p[2]>> /\ p[1] \in Mac /\ p[2] \in Pool
    BY <2>1
  <2>3. QED
    BY <1>1, <2>1, <2>2
<1>3. QED
  BY <1>2

LEMMA ComingShrinks ==
  ASSUME \A n \in Mac : \A f \in Unread(n)' : \A i \in Pool :
           f.to = i => f \in Unread(n) \/ <<n, i>> \in Coming,
         \A n \in Mac : \A i \in Pool : Telling(n, i)' => Telling(n, i)
  PROVE  Coming' \subseteq Coming
BY ComingGrows, {} \in SUBSET (Mac \X Pool), Coming \cup {} = Coming

LEMMA OwnerStays ==
  ASSUME UNCHANGED <<macTable, sinkPc, job>>
  PROVE  Owner' = Owner /\ \A n, i : Telling(n, i)' = Telling(n, i)
BY DEF Owner, Telling

LEMMA OwnerOf ==
  ASSUME RecordInv
  PROVE  /\ \A i \in Pool : Owner[i] \in Mac \cup {NullMac}
         /\ \A i \in Pool : sinkPc # "issue" => Owner[i] = macTable[i]
         /\ sinkPc = "issue" =>
              /\ job.mac \in Mac /\ job.ip \in Pool
              /\ Owner[job.ip] = job.mac /\ macTable[job.ip] = NullMac
         /\ Owner = [i \in Pool |-> Owner[i]]
         /\ NullMac \notin Mac
BY MacAssumption DEF RecordInv, Owner, NoHolderBelowPool, JobOnRecord, Job

(* Nothing but an unread frame may be gone.                                *)
LEMMA Losing ==
  ASSUME UNCHANGED <<macTable, sinkPc, job, heard, my_ip, evicted>>,
         \A n \in Mac : \A f \in Unread(n)' : \A i \in Pool :
           f.to = i => f \in Unread(n) \/ <<n, i>> \in Coming
  PROVE  Registration!Next
<1>1. Coming' \subseteq Coming
  BY OwnerStays, ComingShrinks
<1>2. Registration!Lose
  BY <1>1, OwnerStays DEF Registration!Lose, Registration!Loses
<1>3. QED
  BY <1>2 DEF Registration!Next

(* ---- Steps of a node. ---- *)

LEMMA NodeMaps ==
  ASSUME RecordInv, NEW n \in Mac, Node(n)
  PROVE  Registration!Next
<1> TypeOK
  BY DEF RecordInv
<1>1. UNCHANGED <<macTable, sinkPc, job, heard, evicted>>
  BY DEF Node, NodeTransmits, NodeAcked, NodeDropsInsteadOfAck,
     NodeTakesAddress, NodeTakesAnswer, NodeHearsNothing, sinkVars, history
<1>2. \A m \in Mac : Unread(m)' \subseteq Unread(m)
  <2>1. UNCHANGED inbox \/ ReadsNode(n)
    BY DEF Node, NodeTransmits, NodeAcked, NodeDropsInsteadOfAck,
       NodeTakesAddress, NodeTakesAnswer, NodeHearsNothing
  <2>2. CASE UNCHANGED inbox
    BY <2>2 DEF Unread
  <2>3. CASE ReadsNode(n)
    BY <2>3, NodeReads
  <2>4. QED
    BY <2>1, <2>2, <2>3
<1>3. CASE UNCHANGED my_ip
  BY <1>1, <1>2, <1>3, Losing
<1>4. CASE NodeTakesAddress(n)
  <2> DEFINE i == Head(inbox[n]).to
  <2>1. Head(inbox[n]) \in ToNode /\ Head(inbox[n]) \in Unread(n)
    BY <1>4, NodeReads DEF NodeTakesAddress
  <2>2. i \in Pool \cup {Unset}
    BY <2>1 DEF ToNode
  <2>3. i \in Pool => <<n, i>> \in Coming
    BY <2>1, ComingPairs DEF ComesTo
  <2>4. my_ip' = [my_ip EXCEPT ![n] = i]
    BY <1>4 DEF NodeTakesAddress
  <2>5. Coming' \subseteq Coming
    BY <1>1, <1>2, OwnerStays, ComingShrinks
  <2> HIDE DEF i
  <2>6. Registration!Take(n)
    BY <1>1, <2>2, <2>3, <2>4, <2>5, OwnerStays
       DEF Registration!Take, Registration!Loses
  <2>7. QED
    BY <2>6 DEF Registration!Next
<1>5. UNCHANGED my_ip \/ NodeTakesAddress(n)
  BY DEF Node, NodeTransmits, NodeAcked, NodeDropsInsteadOfAck,
     NodeTakesAnswer, NodeHearsNothing, nodeVars
<1>6. QED
  BY <1>3, <1>4, <1>5

(* The sink may go on telling it of its address; its unread frames are gone. *)
LEMMA NodeResetMaps ==
  ASSUME RecordInv, NEW n \in Mac, NodeReset(n)
  PROVE  Registration!Next
<1> TypeOK
  BY DEF RecordInv
<1>1. /\ UNCHANGED <<macTable, sinkPc, job, heard>>
      /\ my_ip' = [my_ip EXCEPT ![n] = Unset]
      /\ inbox' = [inbox EXCEPT ![n] = <<>>]
      /\ evicted' = evicted \ ({n} \X Pool)
  BY DEF NodeReset, sinkVars
<1>2. inbox'[n] = <<>> /\ \A m \in Mac \ {n} : inbox'[m] = inbox[m]
  BY <1>1 DEF TypeOK
<1>3. Unread(n)' = {} /\ \A m \in Mac \ {n} : Unread(m)' = Unread(m)
  BY <1>2 DEF Unread
<1>4. Coming' \subseteq Coming
  BY <1>1, <1>3, OwnerStays, ComingShrinks
<1>5. ASSUME NEW i \in Pool, <<n, i>> \in Coming' PROVE Owner[i] = n
  <2>1. ComesTo(n, i)'
    BY <1>5 DEF Coming
  <2>2. Telling(n, i)
    BY <1>1, <1>3, <2>1, OwnerStays DEF ComesTo
  <2>3. QED
    BY <2>2, OwnerOf DEF Telling, RecordInv, JobOnRecord, TypeOK
<1>6. Registration!NodeRestarts(n)
  BY <1>1, <1>4, <1>5, OwnerStays
     DEF Registration!NodeRestarts, Registration!Loses
<1>7. QED
  BY <1>6 DEF Registration!Next

(* ---- Steps of the sink. ---- *)

LEMMA SinkCleansUpMaps ==
  ASSUME RecordInv, SinkCleansUp
  PROVE  Registration!Next
<1> DEFINE gone == Entered \ heard
<1>1. /\ sinkPc = "recv" /\ UNCHANGED <<sinkPc, job, my_ip, inbox>>
      /\ macTable' = remove_ip_mac_entries(macTable, gone)
      /\ evicted' = evicted \cup {<<macTable[i], i>> : i \in gone}
      /\ heard' \subseteq heard
  BY DEF SinkCleansUp, nodeVars
<1>2. gone \in SUBSET Pool /\ \A i \in gone : macTable[i] \in Mac /\ i \notin heard
  BY DEF Entered
<1> HIDE DEF gone
<1>3. \A i \in Pool : macTable'[i] = IF i \in gone THEN NullMac ELSE macTable[i]
  BY <1>1, PoolIsInTable DEF remove_ip_mac_entries
<1>4. \A i \in Pool : Owner[i] = macTable[i] /\ Owner'[i] = macTable'[i]
  BY <1>1 DEF Owner
<1>5. Owner' = [i \in Pool |-> IF i \in gone THEN NullMac ELSE Owner[i]]
  <2>1. Owner' = [i \in Pool |-> macTable'[i]]
    BY <1>1 DEF Owner
  <2>2. QED
    BY <1>3, <1>4, <2>1
<1>6. UNCHANGED Coming
  BY <1>1 DEF Coming, ComesTo, Telling, Unread
<1>7. {<<macTable[i], i>> : i \in gone} = {<<Owner[i], i>> : i \in gone}
  BY <1>2, <1>4
<1>8. Registration!CleanUp(gone)
  BY <1>1, <1>2, <1>4, <1>5, <1>6, <1>7, OwnerOf DEF Registration!CleanUp
<1>9. QED
  BY <1>2, <1>8 DEF Registration!Next

LEMMA SinkTakesRequestMaps ==
  ASSUME RecordInv, SinkTakesRequest
  PROVE  Registration!Next
<1> TypeOK
  BY DEF RecordInv
<1> DEFINE f == Head(sinkInbox)
           ip == find_free_ip(macTable)
<1>1. f.src \in Mac
  BY SinkReads DEF SinkTakesRequest, ToSink
<1>2. /\ sinkPc = "recv" /\ TransmitToNode(f.src, Ack)
      /\ UNCHANGED <<my_ip, macTable, heard, evicted>>
  BY DEF SinkTakesRequest, nodeVars, history
<1>3. \/ UNCHANGED <<sinkPc, job>>
      \/ /\ ip \in Pool /\ macTable[ip] = NullMac
         /\ sinkPc' = "issue"
         /\ job' = [mac |-> f.src, ip |-> ip, retries |-> 0]
  <2>1. ip # None => ip \in Pool /\ macTable[ip] = NullMac
    BY FindFreeIpIsFree
  <2>2. QED
    BY <2>1 DEF SinkTakesRequest
<1> HIDE DEF f, ip
<1>4. \A m \in Mac : \A g \in Unread(m)' : \A i \in Pool :
        g.to = i => g \in Unread(m)
  BY <1>1, <1>2, SinkAcknowledges
<1>5. CASE UNCHANGED <<sinkPc, job>>
  BY <1>2, <1>4, <1>5, Losing
<1>6. CASE /\ ip \in Pool /\ macTable[ip] = NullMac
           /\ sinkPc' = "issue"
           /\ job' = [mac |-> f.src, ip |-> ip, retries |-> 0]
  <2>1. \A i \in Pool : Owner[i] = macTable[i]
    BY <1>2, OwnerOf
  <2>2. Owner' = [Owner EXCEPT ![ip] = f.src]
    <3>1. Owner = [i \in Pool |-> Owner[i]]
      BY OwnerOf
    <3>2. Owner' = [i \in Pool |-> IF ip = i THEN f.src ELSE macTable[i]]
      BY <1>2, <1>6 DEF Owner
    <3>3. QED
      BY <1>6, <2>1, <3>1, <3>2
  <2>3. Coming' \subseteq Coming \cup {<<f.src, ip>>}
    <3>1. \A n \in Mac : \A i \in Pool :
            Telling(n, i)' => <<n, i>> \in Coming \cup {<<f.src, ip>>}
      BY <1>6 DEF Telling
    <3>2. {<<f.src, ip>>} \in SUBSET (Mac \X Pool)
      BY <1>1, <1>6
    <3>3. QED
      BY <1>4, <3>1, <3>2, ComingGrows
  <2>4. Registration!Grant(f.src, ip)
    BY <1>2, <1>6, <2>1, <2>2, <2>3
       DEF Registration!Grant, Registration!Sends
  <2>5. QED
    BY <1>1, <1>6, <2>4 DEF Registration!Next
<1>7. QED
  BY <1>3, <1>5, <1>6

LEMMA SinkTakesApplicationMaps ==
  ASSUME RecordInv, SinkTakesApplication
  PROVE  Registration!Next
<1> TypeOK
  BY DEF RecordInv
<1> DEFINE f == Head(sinkInbox)
<1>1. f.src \in Mac /\ f.from \in Pool \cup {Unset}
  BY SinkReads DEF SinkTakesApplication, ToSink
<1>2. /\ sinkPc = "recv" /\ TransmitToNode(f.src, Ack)
      /\ macTable[f.from] = f.src
      /\ heard' = heard \cup {f.from}
      /\ UNCHANGED <<my_ip, macTable, evicted>>
  BY DEF SinkTakesApplication, IsApplication, nodeVars, history
<1>3. \/ UNCHANGED <<sinkPc, job>>
      \/ /\ sinkPc' = "answer"
         /\ job' = [mac |-> f.src, ip |-> f.from, retries |-> 0]
  BY DEF SinkTakesApplication
<1> HIDE DEF f
<1>4. f.from \in Pool
  BY <1>1, <1>2, MacAssumption DEF RecordInv, NoHolderBelowPool
<1>5. \A m \in Mac : \A g \in Unread(m)' : \A i \in Pool :
        g.to = i => g \in Unread(m)
  BY <1>1, <1>2, SinkAcknowledges
<1>6. Owner' = Owner /\ Owner[f.from] = f.src
  <2>1. sinkPc' # "issue"
    BY <1>2, <1>3
  <2>2. Owner' = [i \in Pool |-> macTable[i]] /\ Owner = [i \in Pool |-> macTable[i]]
    BY <1>2, <2>1 DEF Owner
  <2>3. QED
    BY <1>2, <1>4, <2>2
<1>7. Coming' \subseteq Coming \cup {<<f.src, f.from>>}
  <2>1. \A n \in Mac : \A i \in Pool :
          Telling(n, i)' =>
            Telling(n, i) \/ <<n, i>> \in Coming \cup {<<f.src, f.from>>}
    BY <1>3 DEF Telling
  <2>2. {<<f.src, f.from>>} \in SUBSET (Mac \X Pool)
    BY <1>1, <1>4
  <2>3. QED
    BY <1>5, <2>1, <2>2, ComingGrows
<1>8. Registration!Contact(f.src, f.from)
  BY <1>2, <1>6, <1>7 DEF Registration!Contact, Registration!Sends
<1>9. QED
  BY <1>1, <1>4, <1>8 DEF Registration!Next

(* The end of an issue: the register had the owner, the table has it now.  *)
LEMMA EndIssueMaps ==
  ASSUME RecordInv, sinkPc = "issue", EndIssue, UNCHANGED <<my_ip, evicted>>,
         \A n \in Mac : \A f \in Unread(n)' : \A i \in Pool :
           f.to = i => f \in Unread(n) \/ <<n, i>> \in Coming
  PROVE  Registration!Next
<1>1. job.ip \in Pool /\ job.mac \in Mac /\ Owner[job.ip] = job.mac
  BY OwnerOf
<1>2. /\ macTable' = [macTable EXCEPT ![job.ip] = job.mac]
      /\ heard' = heard \cup {job.ip}
      /\ sinkPc' = "recv"
  BY DEF EndIssue, add_ip_mac_entry, EndJob
<1>3. Owner' = Owner
  <2>1. \A i \in Pool : macTable'[i] = IF job.ip = i THEN job.mac ELSE macTable[i]
    BY <1>2, PoolIsInTable DEF RecordInv, TypeOK
  <2>2. Owner' = [i \in Pool |-> macTable'[i]]
    BY <1>2 DEF Owner
  <2>3. QED
    BY <2>1, <2>2 DEF Owner
<1>4. Coming' \subseteq Coming
  <2>1. \A n, i : ~Telling(n, i)'
    BY <1>2 DEF Telling
  <2>2. QED
    BY <2>1, ComingShrinks
<1>5. Registration!Contact(job.mac, job.ip)
  BY <1>1, <1>2, <1>3, <1>4 DEF Registration!Contact, Registration!Sends
<1>6. QED
  BY <1>1, <1>5 DEF Registration!Next

(* The end of an answer, and one more try of an issue.                     *)
LEMMA JobGoesOnMaps ==
  ASSUME RecordInv, UNCHANGED <<macTable, heard, my_ip, evicted>>,
         \/ UNCHANGED <<sinkPc, job>>
         \/ sinkPc = "answer" /\ EndJob
         \/ UNCHANGED sinkPc /\ job'.mac = job.mac /\ job'.ip = job.ip,
         \A n \in Mac : \A f \in Unread(n)' : \A i \in Pool :
           f.to = i => f \in Unread(n) \/ <<n, i>> \in Coming
  PROVE  Registration!Next
<1>1. Owner' = Owner
  <2>1. CASE sinkPc = "answer" /\ EndJob
    BY <2>1 DEF Owner, EndJob
  <2>2. CASE UNCHANGED sinkPc /\ job'.mac = job.mac /\ job'.ip = job.ip
    BY <2>2 DEF Owner
  <2>3. QED
    BY <2>1, <2>2
<1>2. \A n \in Mac : \A i \in Pool : Telling(n, i)' => Telling(n, i)
  BY DEF Telling, EndJob
<1>3. Coming' \subseteq Coming
  BY <1>2, ComingShrinks
<1>4. Registration!Lose
  BY <1>1, <1>3 DEF Registration!Lose, Registration!Loses
<1>5. QED
  BY <1>4 DEF Registration!Next

LEMMA SinkTransmitsMaps ==
  ASSUME RecordInv, SinkTransmits
  PROVE  Registration!Next
<1> TypeOK
  BY DEF RecordInv
<1> DEFINE f == [kind |-> IF sinkPc = "issue" THEN "issue" ELSE "time",
                 from |-> SinkIp, to |-> job.ip]
<1>1. /\ job \in Job /\ sinkPc \in {"issue", "answer"}
      /\ TransmitToNode(job.mac, f)
      /\ UNCHANGED <<my_ip, evicted>>
  BY DEF SinkTransmits, RecordInv, JobOnRecord, nodeVars, history
<1>2. job.mac \in Mac /\ job.ip \in Pool /\ f \in ToNode /\ f.to = job.ip
  BY <1>1 DEF Job, ToNode
<1> HIDE DEF f
<1>3. \A r \in Mac : Unread(r)' \subseteq
                       Unread(r) \cup (IF r = job.mac THEN {f} ELSE {})
  BY <1>1, <1>2, NodeReceives
<1>4. <<job.mac, job.ip>> \in Coming
  BY <1>1, <1>2, ComingPairs DEF ComesTo, Telling
<1>5. \A n \in Mac : \A g \in Unread(n)' : \A i \in Pool :
        g.to = i => g \in Unread(n) \/ <<n, i>> \in Coming
  BY <1>2, <1>3, <1>4
<1>6. CASE sinkSent + 1 < MAC_MAX_RETRIES
  BY <1>1, <1>5, <1>6, JobGoesOnMaps DEF SinkTransmits
<1>7. CASE SinkFails
  <2>1. CASE sinkPc = "answer" /\ EndJob /\ UNCHANGED <<macTable, heard>>
    BY <1>1, <1>5, <2>1, JobGoesOnMaps
  <2>2. CASE /\ sinkPc = "issue" /\ UNCHANGED <<sinkPc, macTable, heard>>
             /\ job' = [job EXCEPT !.retries = @ + 1]
    <3>1. job'.mac = job.mac /\ job'.ip = job.ip
      BY <1>1, <2>2 DEF Job
    <3>2. QED
      BY <1>1, <1>5, <2>2, <3>1, JobGoesOnMaps
  <2>3. CASE sinkPc = "issue" /\ EndIssue
    BY <1>1, <1>5, <2>3, EndIssueMaps
  <2>4. QED
    BY <1>7, <2>1, <2>2, <2>3 DEF SinkFails, EndUnsentIssue
<1>8. QED
  BY <1>6, <1>7 DEF SinkTransmits

LEMMA SinkAckedMaps ==
  ASSUME RecordInv, SinkAcked
  PROVE  Registration!Next
<1>1. UNCHANGED <<my_ip, evicted>> /\ \A n \in Mac : Unread(n)' = Unread(n)
  BY DEF SinkAcked, nodeVars, history, Unread
<1>2. CASE sinkPc = "issue"
  <2>1. EndIssue
    BY <1>2 DEF SinkAcked
  <2>2. QED
    BY <1>1, <1>2, <2>1, EndIssueMaps
<1>3. CASE sinkPc = "answer"
  <2>1. EndJob /\ UNCHANGED <<macTable, heard>>
    BY <1>3 DEF SinkAcked
  <2>2. QED
    BY <1>1, <1>3, <2>1, JobGoesOnMaps
<1>4. CASE sinkPc = "recv"
  <2>1. EndJob /\ UNCHANGED <<macTable, heard>>
    BY <1>4 DEF SinkAcked
  <2>2. Owner' = Owner /\ \A n, i : ~Telling(n, i)'
    BY <1>4, <2>1 DEF Owner, Telling, EndJob
  <2>3. Coming' \subseteq Coming
    BY <1>1, <2>2, ComingShrinks
  <2>4. Registration!Lose
    BY <1>1, <2>1, <2>2, <2>3 DEF Registration!Lose, Registration!Loses
  <2>5. QED
    BY <2>4 DEF Registration!Next
<1>5. QED
  BY <1>2, <1>3, <1>4 DEF RecordInv, TypeOK

LEMMA SinkResetMaps ==
  ASSUME RecordInv, SinkReset
  PROVE  Registration!Next
<1>1. /\ UNCHANGED <<my_ip, inbox>>
      /\ macTable' = init_trans_table /\ heard' = {} /\ sinkPc' = "recv"
      /\ evicted' = evicted \cup {<<macTable[i], i>> : i \in Entered}
            \cup (IF sinkPc = "issue" THEN {<<job.mac, job.ip>>} ELSE {})
  BY DEF SinkReset, EndJob, nodeVars
<1>2. Owner' = [i \in Pool |-> NullMac]
  <2>1. \A i \in Pool : init_trans_table[i] = NullMac
    BY TableSizeAssumption DEF init_trans_table, Pool, Address
  <2>2. QED
    BY <1>1, <2>1 DEF Owner
<1>3. Coming' \subseteq Coming
  <2>1. \A n, i : ~Telling(n, i)'
    BY <1>1 DEF Telling
  <2>2. \A n \in Mac : Unread(n)' = Unread(n)
    BY <1>1 DEF Unread
  <2>3. QED
    BY <2>1, <2>2, ComingShrinks
<1> DEFINE owned == {j \in Pool : Owner[j] # NullMac}
<1>4. CASE sinkPc = "issue"
  <2>1. owned = Entered \cup {job.ip}
    BY <1>4, OwnerOf DEF Owner, Entered, RecordInv, NoHolderBelowPool
  <2>2. \A i \in Entered : Owner[i] = macTable[i]
    BY <1>4, OwnerOf DEF Owner, Entered
  <2>3. {<<Owner[i], i>> : i \in owned} =
          {<<macTable[i], i>> : i \in Entered} \cup {<<job.mac, job.ip>>}
    BY <1>4, <2>1, <2>2, OwnerOf
  <2>4. Registration!RegisterRestarts
    BY <1>1, <1>2, <1>3, <1>4, <2>3
       DEF Registration!RegisterRestarts, Registration!Loses
  <2>5. QED
    BY <2>4 DEF Registration!Next
<1>5. CASE sinkPc # "issue"
  <2>1. owned = Entered
    BY <1>5, OwnerOf DEF Entered, RecordInv, NoHolderBelowPool
  <2>2. {<<Owner[i], i>> : i \in owned} = {<<macTable[i], i>> : i \in Entered}
    BY <1>5, <2>1, OwnerOf DEF Entered
  <2>3. Registration!RegisterRestarts
    BY <1>1, <1>2, <1>3, <1>5, <2>2
       DEF Registration!RegisterRestarts, Registration!Loses
  <2>4. QED
    BY <2>3 DEF Registration!Next
<1>6. QED
  BY <1>4, <1>5

LEMMA SinkMaps ==
  ASSUME RecordInv, Sink
  PROVE  Registration!Next
<1> TypeOK
  BY DEF RecordInv
<1>1. CASE SinkTakesInvalid
  <2> DEFINE f == Head(sinkInbox)
  <2>1. f.src \in Mac
    BY <1>1, SinkReads DEF SinkTakesInvalid, ToSink
  <2>2. /\ TransmitToNode(f.src, Ack)
        /\ UNCHANGED <<macTable, sinkPc, job, heard, my_ip, evicted>>
    BY <1>1 DEF SinkTakesInvalid, nodeVars, sinkVars, history
  <2> HIDE DEF f
  <2>3. \A m \in Mac : \A g \in Unread(m)' : \A i \in Pool :
          g.to = i => g \in Unread(m)
    BY <2>1, <2>2, SinkAcknowledges
  <2>4. QED
    BY <2>2, <2>3, Losing
<1>2. CASE SinkDropsInsteadOfAck
  <2>1. /\ UNCHANGED <<macTable, sinkPc, job, heard, my_ip, evicted>>
        /\ \A n \in Mac : Unread(n)' = Unread(n)
    BY <1>2 DEF SinkDropsInsteadOfAck, nodeVars, sinkVars, history, Unread
  <2>2. QED
    BY <2>1, Losing
<1>3. QED
  BY <1>1, <1>2, SinkCleansUpMaps, SinkTakesRequestMaps,
     SinkTakesApplicationMaps, SinkTransmitsMaps, SinkAckedMaps DEF Sink

LEMMA InitMaps == Init => Registration!Init
<1> SUFFICES ASSUME Init PROVE Registration!Init
  OBVIOUS
<1>1. Owner = [i \in Pool |-> NullMac]
  BY TableSizeAssumption DEF Init, Owner, init_trans_table, Pool, Address
<1>2. Coming = {}
  <2>1. \A n \in Mac : \A i \in Pool : ~ComesTo(n, i)
    BY DEF Init, ComesTo, Telling, Unread
  <2>2. QED
    BY <2>1 DEF Coming
<1>3. QED
  BY <1>1, <1>2 DEF Init, Registration!Init

LEMMA NextMaps ==
  IInv /\ [Next]_vars => [Registration!Next]_(Registration!vars)
<1> SUFFICES ASSUME RecordInv, [Next]_vars
             PROVE  [Registration!Next]_(Registration!vars)
  BY DEF IInv
<1>1. CASE Next
  <2>1. Registration!Next
    BY <1>1, NodeMaps, NodeResetMaps, SinkMaps, SinkResetMaps DEF Next
  <2>2. QED
    BY <2>1
<1>2. CASE UNCHANGED vars
  BY <1>2 DEF vars, nodeVars, sinkVars, history, Registration!vars, Owner,
     Coming, ComesTo, Telling, Unread
<1>3. QED
  BY <1>1, <1>2

(* Whatever is lost, late or restarted, the network does to its addresses  *)
(* only what the register of module Registry allows.                       *)
THEOREM NetworkImplementsRegistry == Spec => RegistrySpec
<1>1. QED
  BY InitMaps, NextMaps, InvariantHolds, PTL
     DEF Spec, RegistrySpec, Registration!Spec
=============================================================================
