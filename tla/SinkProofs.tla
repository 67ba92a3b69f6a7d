----------------------------- MODULE SinkProofs -----------------------------
(***************************************************************************)
(* Proofs about Sink: its inductive invariant, and from it the type        *)
(* invariant, the bound on silence, the condition of an eviction and the   *)
(* refinement of Lease.                                                    *)
(***************************************************************************)
EXTENDS Sink, TranslationTableProofs, TLAPS

Entry == Mac \cup {NullMac, BroadcastMac, StampMac}

(* Writing the word past the end of IP_last_talked_to touches entry 0 only. *)
LEMMA MirrorStampOnlyEntryZero ==
  ASSUME NEW table \in [Address -> Entry], NEW i, NEW t
  PROVE  /\ MirrorStamp(table, i, t) \in [Address -> Entry]
         /\ \A j \in Address \ {0} : MirrorStamp(table, i, t)[j] = table[j]
         /\ table[0] \in {NullMac, StampMac} =>
              MirrorStamp(table, i, t)[0] \in {NullMac, StampMac}
BY TableSizeAssumption DEF MirrorStamp, Entry, Address

(* The special values of an entry are not nodes.                           *)
LEMMA SpecialEntries ==
  /\ NullMac \notin Mac /\ BroadcastMac \notin Mac /\ StampMac \notin Mac
  /\ StampMac # NullMac /\ BroadcastMac # NullMac
BY MacAssumption, SinkAssumption

(* The ranges of addresses: entry 1 is searched but never issued.          *)
LEMMA AddressRanges ==
  /\ Pool \subseteq Searched /\ Searched \subseteq Address \ {0}
  /\ Searched = Pool \cup {1}
  /\ 0 \in Address /\ 1 \in Address /\ TABLE_SIZE - 1 \in Address \ Searched
  /\ 1 \notin Pool /\ 0 \notin Searched
  /\ IP_MAX_COUNT \in Pool
  /\ None \notin Pool
BY TableSizeAssumption DEF Pool, Searched, Address, IP_MAX_COUNT, None

(* The start of APP_sink's loop satisfies the invariant.                   *)
LEMMA InitIInv == Init => IInv
<1> SUFFICES ASSUME Init PROVE IInv
  OBVIOUS
<1>1. TypeOK
  BY SinkAssumption, AddressRanges
     DEF Init, TypeOK, init_trans_table
<1>2. \A i \in Searched : ~Live(i) /\ IP_last_talked_to[i] = 0
  BY AddressRanges, SpecialEntries DEF Init, init_trans_table, Live, Searched
<1>3. LeaseRecorded
  BY <1>2 DEF LeaseRecorded
<1>4. ReservedEntries
  BY TableSizeAssumption DEF Init, init_trans_table, ReservedEntries, Address,
     Pool
<1>5. IssueReserved
  BY DEF Init, IssueReserved
<1>6. Clock
  BY SinkAssumption DEF Init, Clock
<1>7. Schedule
  BY SinkAssumption DEF Init, Schedule
<1>8. RecentContact
  BY <1>2, AddressRanges DEF RecentContact
<1>9. QED
  BY <1>1, <1>3, <1>4, <1>5, <1>6, <1>7, <1>8 DEF IInv
-----------------------------------------------------------------------------
(* The tables of the sink.  A step that leaves both alone, the clock too,   *)
(* keeps what the invariant says of them.                                  *)
LEMMA TablesUntouched ==
  ASSUME IInv, UNCHANGED <<macTable, IP_last_talked_to>>
  PROVE  LeaseRecorded' /\ ReservedEntries'
BY DEF IInv, LeaseRecorded, ReservedEntries, Live

(* IP_CLEAN_UP forgets entries and their times together, and what it leaves *)
(* was heard since the last clean-up.                                      *)
LEMMA CleanUpIInv == IInv /\ IP_CLEAN_UP => IInv'
<1> SUFFICES ASSUME IInv, IP_CLEAN_UP PROVE IInv'
  OBVIOUS
<1> DEFINE gone == Stale(lastClean)
           freed == gone \cup (IF IP_MAX_COUNT \in gone THEN {0} ELSE {})
<1>1. gone \subseteq Searched
  BY DEF Stale
<1>2. /\ macTable' = [i \in Address |-> IF i \in freed THEN NullMac
                                        ELSE macTable[i]]
      /\ IP_last_talked_to' = [i \in Searched |-> IF i \in gone THEN 0
                                                  ELSE IP_last_talked_to[i]]
  BY DEF IP_CLEAN_UP, remove_ip_mac_entries
<1>3. \A i \in Searched : i \in freed <=> i \in gone
  BY <1>1, AddressRanges
<1>4. pc = "top" /\ pc' = "stamp"
      /\ UNCHANGED <<systime, lastClean, issue, msg, passStart>>
  BY DEF IP_CLEAN_UP
<1>5. TypeOK'
  <2>1. macTable' \in [Address -> Entry]
    BY <1>2 DEF IInv, TypeOK, Entry
  <2>2. IP_last_talked_to' \in [Searched -> Nat]
    BY <1>2 DEF IInv, TypeOK
  <2>3. QED
    BY <2>1, <2>2, <1>4 DEF IInv, TypeOK, Entry
<1>6. LeaseRecorded'
  <2>1. SUFFICES ASSUME NEW i \in Searched
                 PROVE  Live(i)' <=> IP_last_talked_to'[i] # 0
    BY DEF LeaseRecorded
  <2>2. CASE i \in gone
    BY <2>2, <1>2, <1>3, AddressRanges, SpecialEntries DEF Live
  <2>3. CASE i \notin gone
    BY <2>3, <1>2, <1>3, AddressRanges DEF Live, IInv, LeaseRecorded
  <2>4. QED
    BY <2>2, <2>3
<1>7. ReservedEntries'
  <2>1. TABLE_SIZE - 1 \notin freed
    BY <1>1, AddressRanges, TableSizeAssumption
  <2>2. QED
    BY <2>1, <1>2, AddressRanges DEF IInv, ReservedEntries
<1>8. IssueReserved'
  BY <1>4 DEF IssueReserved
<1>9. Clock'
  BY <1>1, <1>2, <1>4 DEF IInv, Clock, TypeOK
<1>10. Schedule'
  BY <1>4 DEF IInv, Schedule
<1>11. RecentContact'
  <2>1. SUFFICES ASSUME NEW i \in Pool, Live(i)'
                 PROVE  lastClean - IP_last_talked_to'[i] =< 0
    BY <1>4 DEF RecentContact
  <2>2. i \notin gone
    BY <2>1, <1>2, <1>3, AddressRanges, SpecialEntries DEF Live
  <2>3. IP_last_talked_to'[i] = IP_last_talked_to[i] /\ Live(i)
    BY <2>1, <2>2, <1>2, <1>3, AddressRanges DEF Live
  <2>4. IP_last_talked_to[i] # 0 /\ IP_last_talked_to[i] \in Nat
    BY <2>3, AddressRanges DEF IInv, TypeOK, LeaseRecorded
  <2>5. ~ (IP_last_talked_to[i] < lastClean)
    BY <2>2, <2>4, AddressRanges DEF Stale
  <2>6. lastClean \in Nat
    BY DEF IInv, TypeOK
  <2>7. QED
    BY <2>3, <2>4, <2>5, <2>6
<1>12. QED
  BY <1>5, <1>6, <1>7, <1>8, <1>9, <1>10, <1>11 DEF IInv

(* A clean-up that is late makes the next one late, but not the passes.    *)
LEMMA StampCleanIInv == IInv /\ StampClean => IInv'
<1> SUFFICES ASSUME IInv, StampClean PROVE IInv'
  OBVIOUS
<1>1. /\ pc = "stamp" /\ pc' = "recv" /\ lastClean' = systime
      /\ UNCHANGED <<macTable, IP_last_talked_to, systime, issue, msg, passStart>>
  BY DEF StampClean
<1>2. TypeOK'
  BY <1>1 DEF IInv, TypeOK
<1>3. LeaseRecorded' /\ ReservedEntries'
  BY <1>1, TablesUntouched
<1>4. IssueReserved' /\ Clock'
  BY <1>1 DEF IInv, TypeOK, IssueReserved, Clock
<1>5. Schedule'
  BY <1>1, SinkAssumption DEF IInv, TypeOK, Clock, Schedule
<1>6. RecentContact'
  <2>1. SUFFICES ASSUME NEW i \in Pool, Live(i)'
                 PROVE  lastClean' - IP_last_talked_to'[i] =<
                          APP_EPOCH_UNTIL_CLEAN + 2 * MaxPass
    BY <1>1 DEF RecentContact
  <2>2. Live(i) /\ IP_last_talked_to[i] \in Nat
    BY <2>1, <1>1, AddressRanges DEF Live, IInv, TypeOK
  <2>3. lastClean - IP_last_talked_to[i] =< 0
    BY <2>2, <1>1 DEF IInv, RecentContact
  <2>4. systime - lastClean =< APP_EPOCH_UNTIL_CLEAN + 2 * MaxPass
    BY <1>1, SinkAssumption DEF IInv, TypeOK, Clock, Schedule
  <2>5. QED
    BY <2>2, <2>3, <2>4, <1>1, SinkAssumption DEF IInv, TypeOK
<1>7. QED
  BY <1>2, <1>3, <1>4, <1>5, <1>6 DEF IInv

(* Steps inside a pass that leave the tables and the clean-up alone.       *)
LEMMA QuietStepIInv ==
  ASSUME IInv,
         UNCHANGED <<macTable, IP_last_talked_to, systime, lastClean, passStart>>,
         pc # "stamp", pc' \in {"recv", "issue", "app", "delay"},
         systime - lastClean =< APP_EPOCH_UNTIL_CLEAN \/ pc # "top",
         TypeOK', IssueReserved'
  PROVE  IInv'
<1>1. LeaseRecorded' /\ ReservedEntries'
  BY TablesUntouched
<1>2. Clock'
  BY DEF IInv, Clock
<1>3. Schedule'
  BY SinkAssumption DEF IInv, TypeOK, Clock, Schedule
<1>4. RecentContact'
  BY DEF IInv, RecentContact, Live
<1>5. QED
  BY <1>1, <1>2, <1>3, <1>4 DEF IInv

LEMMA NoCleanUpIInv == IInv /\ NoCleanUp => IInv'
<1> SUFFICES ASSUME IInv, NoCleanUp PROVE IInv'
  OBVIOUS
<1>1. systime - lastClean =< APP_EPOCH_UNTIL_CLEAN
  BY SinkAssumption DEF NoCleanUp, CleanUpDue, IInv, TypeOK
<1>2. TypeOK' /\ IssueReserved'
  BY DEF NoCleanUp, IInv, TypeOK, IssueReserved
<1>3. QED
  BY <1>1, <1>2, QuietStepIInv DEF NoCleanUp

LEMMA RecvNothingIInv == IInv /\ RecvNothing => IInv'
<1> SUFFICES ASSUME IInv, RecvNothing PROVE IInv'
  OBVIOUS
<1>1. TypeOK' /\ IssueReserved'
  BY DEF RecvNothing, IInv, TypeOK, IssueReserved
<1>2. QED
  BY <1>1, QuietStepIInv DEF RecvNothing

LEMMA RecvInvalidIInv ==
  ASSUME IInv, NEW f \in Unicast, RecvInvalid(f) PROVE IInv'
<1>1. TypeOK' /\ IssueReserved'
  BY DEF RecvInvalid, IInv, TypeOK, IssueReserved
<1>2. QED
  BY <1>1, QuietStepIInv DEF RecvInvalid

(* The address that find_free_ip offers is free.                           *)
LEMMA RecvRequestIInv ==
  ASSUME IInv, NEW m \in Mac, RecvRequest(m) PROVE IInv'
<1> DEFINE ip == find_free_ip(macTable)
<1>1. CASE ip = None
  <2>1. TypeOK' /\ IssueReserved'
    BY <1>1 DEF RecvRequest, IInv, TypeOK, IssueReserved
  <2>2. pc = "recv" /\ pc' = "delay"
    BY <1>1 DEF RecvRequest
  <2>3. QED
    BY <2>1, <2>2, QuietStepIInv DEF RecvRequest
<1>2. CASE ip # None
  <2>1. ip \in Pool /\ macTable[ip] = NullMac
    BY <1>2, FindFreeIpIsFree
  <2>2. /\ pc = "recv" /\ pc' = "issue"
        /\ issue' = [mac |-> m, ip |-> ip, retries |-> 0]
        /\ UNCHANGED <<macTable, IP_last_talked_to, systime, lastClean, msg,
                       passStart>>
    BY <1>2 DEF RecvRequest
  <2>3. issue' \in Issue
    BY <2>1, <2>2, SinkAssumption DEF Issue
  <2>4. TypeOK'
    BY <2>2, <2>3 DEF IInv, TypeOK
  <2>5. IssueReserved'
    BY <2>1, <2>2, <2>3 DEF IssueReserved
  <2>6. QED
    BY <2>2, <2>4, <2>5, QuietStepIInv
<1>3. QED
  BY <1>1, <1>2

(* Entry i of the table becomes m and its time systime.                    *)
LEMMA StampedEntryIInv ==
  ASSUME IInv, NEW i \in Pool, NEW m \in Mac,
         macTable' = MirrorStamp([macTable EXCEPT ![i] = m], i, systime),
         IP_last_talked_to' = [IP_last_talked_to EXCEPT ![i] = systime],
         UNCHANGED <<systime, lastClean, passStart>>,
         pc \in {"recv", "issue"}, pc' \in {"app", "delay"},
         issue' \in Issue \cup {NoIssue}, msg' \in Unicast \cup {NoMsg}
  PROVE  IInv'
<1> DEFINE table == [macTable EXCEPT ![i] = m]
<1>1. table \in [Address -> Entry]
  BY AddressRanges DEF IInv, TypeOK, Entry
<1>2. /\ macTable' \in [Address -> Entry]
      /\ \A j \in Address \ {0} : macTable'[j] = table[j]
      /\ macTable'[0] \in {NullMac, StampMac}
  <2>1. table[0] = macTable[0]
    BY AddressRanges DEF IInv, TypeOK
  <2>2. table[0] \in {NullMac, StampMac}
    BY <2>1 DEF IInv, ReservedEntries
  <2> HIDE DEF table
  <2>3. macTable' = MirrorStamp(table, i, systime)
    BY DEF table
  <2>4. /\ MirrorStamp(table, i, systime) \in [Address -> Entry]
        /\ \A j \in Address \ {0} : MirrorStamp(table, i, systime)[j] = table[j]
        /\ MirrorStamp(table, i, systime)[0] \in {NullMac, StampMac}
    BY <1>1, <2>2, MirrorStampOnlyEntryZero
  <2>5. QED
    BY <2>3, <2>4
<1>3. /\ macTable'[i] = m
      /\ \A j \in Address \ {0, i} : macTable'[j] = macTable[j]
  BY <1>2, AddressRanges DEF IInv, TypeOK
<1>4. /\ IP_last_talked_to' \in [Searched -> Nat]
      /\ IP_last_talked_to'[i] = systime
      /\ \A j \in Searched \ {i} :
           IP_last_talked_to'[j] = IP_last_talked_to[j]
  BY AddressRanges DEF IInv, TypeOK
<1>5. TypeOK'
  <2>1. systime' \in Nat /\ lastClean' \in Nat /\ passStart' \in Nat
    BY DEF IInv, TypeOK
  <2>2. QED
    BY <2>1, <1>2, <1>4 DEF TypeOK, Entry
<1>6. LeaseRecorded'
  <2>1. SUFFICES ASSUME NEW j \in Searched
                 PROVE  Live(j)' <=> IP_last_talked_to'[j] # 0
    BY DEF LeaseRecorded
  <2>2. CASE j = i
    <3>1. systime # 0
      BY DEF IInv, TypeOK, Clock
    <3>2. QED
      BY <2>2, <3>1, <1>3, <1>4 DEF Live
  <2>3. CASE j # i
    BY <2>3, <1>3, <1>4, AddressRanges DEF Live, IInv, LeaseRecorded
  <2>4. QED
    BY <2>2, <2>3
<1>7. ReservedEntries'
  <2>1. {1, TABLE_SIZE - 1} \subseteq Address \ {0, i}
    BY AddressRanges, TableSizeAssumption
  <2>2. macTable'[1] = NullMac /\ macTable'[TABLE_SIZE - 1] = BroadcastMac
    BY <2>1, <1>3 DEF IInv, ReservedEntries
  <2>3. \A j \in Pool : macTable'[j] \in Mac \cup {NullMac}
    <3>1. SUFFICES ASSUME NEW j \in Pool
                   PROVE  macTable'[j] \in Mac \cup {NullMac}
      OBVIOUS
    <3>2. CASE j = i
      BY <3>2, <1>3
    <3>3. CASE j # i
      BY <3>3, <1>3, AddressRanges DEF IInv, ReservedEntries
    <3>4. QED
      BY <3>2, <3>3
  <2>4. QED
    BY <2>2, <2>3, <1>2 DEF ReservedEntries
<1>8. IssueReserved'
  BY DEF IssueReserved
<1>9. Clock'
  BY <1>4 DEF IInv, Clock, TypeOK
<1>10. Schedule'
  BY DEF IInv, Schedule
<1>11. RecentContact'
  <2>1. SUFFICES ASSUME NEW j \in Pool, Live(j)'
                 PROVE  lastClean - IP_last_talked_to'[j] =<
                          APP_EPOCH_UNTIL_CLEAN + 2 * MaxPass
    BY DEF RecentContact
  <2>2. CASE j = i
    BY <2>2, <1>4, SinkAssumption DEF IInv, Clock, TypeOK
  <2>3. CASE j # i
    BY <2>1, <2>3, <1>3, <1>4, AddressRanges DEF Live, IInv, RecentContact
  <2>4. QED
    BY <2>2, <2>3
<1>12. QED
  BY <1>5, <1>6, <1>7, <1>8, <1>9, <1>10, <1>11 DEF IInv

(* A frame that passes the checks of IP_recv_data is from the node its     *)
(* source address is leased to.                                            *)
LEMMA ApplicationIsFromHolder ==
  ASSUME NEW f \in Unicast, IsApplication(f)
  PROVE  f.ip \in Pool /\ f.mac \in Mac /\ macTable[f.ip] = f.mac
BY DEF IsApplication, Unicast, SinkIp

LEMMA RecvApplicationIInv ==
  ASSUME IInv, NEW f \in Unicast, RecvApplication(f) PROVE IInv'
<1>1. f.ip \in Pool /\ f.mac \in Mac /\ macTable[f.ip] = f.mac
  BY ApplicationIsFromHolder DEF RecvApplication
<1>2. [macTable EXCEPT ![f.ip] = f.mac] = macTable
  BY <1>1, AddressRanges DEF IInv, TypeOK
<1>3. macTable' = MirrorStamp([macTable EXCEPT ![f.ip] = f.mac], f.ip, systime)
  BY <1>2 DEF RecvApplication
<1>4. issue' \in Issue \cup {NoIssue} /\ msg' \in Unicast \cup {NoMsg}
  BY DEF RecvApplication, IInv, TypeOK
<1>5. QED
  BY <1>1, <1>3, <1>4, StampedEntryIInv DEF RecvApplication

LEMMA EndIssueIInv ==
  ASSUME IInv, pc = "issue", NEW r, EndIssue(r) PROVE IInv'
<1>1. issue \in Issue /\ issue.ip \in Pool /\ issue.mac \in Mac
  BY DEF IInv, IssueReserved, Issue
<1>2. issue' \in Issue \cup {NoIssue} /\ msg' \in Unicast \cup {NoMsg}
  BY DEF EndIssue, IInv, TypeOK
<1>3. CASE r < IP_MAX_REQUEST_IP_TIMEOUT
  BY <1>1, <1>2, <1>3, StampedEntryIInv DEF EndIssue, add_ip_mac_entry
<1>4. CASE ~ (r < IP_MAX_REQUEST_IP_TIMEOUT)
  <2>1. TypeOK' /\ IssueReserved'
    BY <1>2, <1>4 DEF EndIssue, IInv, TypeOK, IssueReserved
  <2>2. QED
    BY <1>4, <2>1, QuietStepIInv DEF EndIssue
<1>5. QED
  BY <1>3, <1>4

LEMMA IssueNotSentIInv == IInv /\ IssueNotSent => IInv'
<1> SUFFICES ASSUME IInv, IssueNotSent PROVE IInv'
  OBVIOUS
<1>1. issue \in Issue /\ macTable[issue.ip] = NullMac
  BY DEF IssueNotSent, IInv, IssueReserved
<1>2. issue' \in Issue /\ issue'.ip = issue.ip
  BY <1>1, SinkAssumption DEF IssueNotSent, Issue
<1>3. TypeOK'
  BY <1>2 DEF IssueNotSent, IInv, TypeOK
<1>4. IssueReserved'
  BY <1>1, <1>2 DEF IssueNotSent, IssueReserved
<1>5. QED
  BY <1>3, <1>4, QuietStepIInv DEF IssueNotSent

LEMMA HandleMsgIInv == IInv /\ HandleMsg => IInv'
<1> SUFFICES ASSUME IInv, HandleMsg PROVE IInv'
  OBVIOUS
<1>1. TypeOK' /\ IssueReserved'
  BY DEF HandleMsg, IInv, TypeOK, IssueReserved
<1>2. QED
  BY <1>1, QuietStepIInv DEF HandleMsg

(* A new pass starts at most MaxPass after the one before.                 *)
LEMMA DelayIInv == IInv /\ Delay => IInv'
<1> SUFFICES ASSUME IInv, Delay PROVE IInv'
  OBVIOUS
<1>1. TypeOK' /\ IssueReserved'
  BY DEF Delay, IInv, TypeOK, IssueReserved
<1>2. LeaseRecorded' /\ ReservedEntries'
  BY TablesUntouched DEF Delay
<1>3. Clock'
  BY SinkAssumption DEF Delay, IInv, TypeOK, Clock
<1>4. Schedule'
  BY SinkAssumption DEF Delay, IInv, TypeOK, Clock, Schedule
<1>5. RecentContact'
  BY DEF Delay, IInv, RecentContact, Live
<1>6. QED
  BY <1>1, <1>2, <1>3, <1>4, <1>5 DEF IInv

LEMMA TimerIInv == IInv /\ TimerBaseIntHandler => IInv'
<1> SUFFICES ASSUME IInv, TimerBaseIntHandler PROVE IInv'
  OBVIOUS
<1>1. TypeOK' /\ IssueReserved'
  BY DEF TimerBaseIntHandler, IInv, TypeOK, IssueReserved
<1>2. LeaseRecorded' /\ ReservedEntries'
  BY TablesUntouched DEF TimerBaseIntHandler
<1>3. Clock'
  BY SinkAssumption DEF TimerBaseIntHandler, IInv, TypeOK, Clock
<1>4. Schedule' /\ RecentContact'
  BY DEF TimerBaseIntHandler, IInv, Schedule, RecentContact, Live
<1>5. QED
  BY <1>1, <1>2, <1>3, <1>4 DEF IInv
-----------------------------------------------------------------------------
(* No step of the thread or of the timer breaks the invariant.             *)
LEMMA NextIInv == IInv /\ [Next]_vars => IInv'
<1> SUFFICES ASSUME IInv, [Next]_vars PROVE IInv'
  OBVIOUS
<1>1. CASE IP_CLEAN_UP
  BY <1>1, CleanUpIInv
<1>2. CASE StampClean
  BY <1>2, StampCleanIInv
<1>3. CASE NoCleanUp
  BY <1>3, NoCleanUpIInv
<1>4. CASE RecvNothing
  BY <1>4, RecvNothingIInv
<1>5. CASE \E m \in Mac : RecvRequest(m)
  BY <1>5, RecvRequestIInv
<1>6. CASE \E f \in Unicast : RecvApplication(f)
  BY <1>6, RecvApplicationIInv
<1>7. CASE \E f \in Unicast : RecvInvalid(f)
  BY <1>7, RecvInvalidIInv
<1>8. CASE IssueSent
  BY <1>8, EndIssueIInv DEF IssueSent
<1>9. CASE IssueNotSent
  BY <1>9, IssueNotSentIInv
<1>10. CASE IssueGivenUp
  BY <1>10, EndIssueIInv DEF IssueGivenUp
<1>11. CASE HandleMsg
  BY <1>11, HandleMsgIInv
<1>12. CASE Delay
  BY <1>12, DelayIInv
<1>13. CASE TimerBaseIntHandler
  BY <1>13, TimerIInv
<1>14. CASE UNCHANGED vars
  <2>1. UNCHANGED <<macTable, IP_last_talked_to, systime, lastClean, pc, issue,
                    msg, passStart>>
    BY <1>14 DEF vars
  <2>2. TypeOK' /\ IssueReserved' /\ LeaseRecorded' /\ ReservedEntries'
    BY <2>1, TablesUntouched DEF IInv, TypeOK, IssueReserved
  <2>3. Clock' /\ Schedule' /\ RecentContact'
    BY <2>1 DEF IInv, Clock, Schedule, RecentContact, Live
  <2>4. QED
    BY <2>2, <2>3 DEF IInv
<1>15. QED
  BY <1>1, <1>2, <1>3, <1>4, <1>5, <1>6, <1>7, <1>8, <1>9, <1>10, <1>11,
     <1>12, <1>13, <1>14 DEF Next, Thread

(* The parts of the inductive invariant hold in every reachable state.     *)
THEOREM InvariantHolds == Spec => []IInv
BY InitIInv, NextIInv, PTL DEF Spec

(* Every variable keeps its type, and the address of an issue its range.   *)
THEOREM TypeCorrect == Spec => []TypeOK
<1>1. IInv => TypeOK
  BY DEF IInv
<1>2. QED
  BY <1>1, InvariantHolds, PTL

(* The bound on the silence of a node in the table.                        *)
THEOREM SilentAreEvicted == Spec => []SilentEvicted
<1>1. IInv => SilentEvicted
  <2>1. SUFFICES ASSUME IInv, NEW i \in Pool, Live(i)
                 PROVE  systime - IP_last_talked_to[i] =< MaxSilence
    BY DEF SilentEvicted
  <2>2. /\ systime \in Nat /\ lastClean \in Nat /\ passStart \in Nat
        /\ IP_last_talked_to[i] \in Nat
    BY <2>1, AddressRanges DEF IInv, TypeOK
  <2>3. lastClean - IP_last_talked_to[i] =< APP_EPOCH_UNTIL_CLEAN + 2 * MaxPass
    BY <2>1, <2>2, SinkAssumption DEF IInv, RecentContact
  <2>4. systime - lastClean =< APP_EPOCH_UNTIL_CLEAN + 2 * MaxPass
    BY <2>1, <2>2, SinkAssumption DEF IInv, Clock, Schedule
  <2>5. QED
    BY <2>2, <2>3, <2>4, SinkAssumption DEF MaxSilence
<1>2. QED
  BY <1>1, InvariantHolds, PTL
(* The table and the times of contact agree, the word that address 254     *)
(* shares with entry 0 included.                                           *)
THEOREM LeasesAreRecorded == Spec => []LeaseRecorded
<1>1. IInv => LeaseRecorded
  BY DEF IInv
<1>2. QED
  BY <1>1, InvariantHolds, PTL

(* An answer goes to the board that asked.                                 *)
LEMMA ReplyKept ==
  ASSUME IInv, ReplyReachesSender, [Next]_vars
  PROVE  ReplyReachesSender'
<1>1. CASE \E f \in Unicast : RecvApplication(f)
  <2>1. PICK f \in Unicast : RecvApplication(f)
    BY <1>1
  <2>2. f.ip \in Pool /\ macTable[f.ip] = f.mac
    BY <2>1, ApplicationIsFromHolder DEF RecvApplication
  <2>3. macTable'[f.ip] = macTable[f.ip]
    <3>1. macTable' = MirrorStamp(macTable, f.ip, systime)
      BY <2>1 DEF RecvApplication
    <3>2. f.ip # 0 /\ f.ip \in Address
      BY <2>2, AddressRanges DEF Pool
    <3>3. QED
      BY <3>1, <3>2 DEF MirrorStamp, IInv, TypeOK
  <2>4. msg' = f
    BY <2>1 DEF RecvApplication
  <2>5. QED
    BY <2>2, <2>3, <2>4 DEF ReplyReachesSender
<1>2. CASE TimerBaseIntHandler \/ UNCHANGED vars
  BY <1>2 DEF TimerBaseIntHandler, vars, ReplyReachesSender
<1>3. CASE IP_CLEAN_UP \/ StampClean \/ NoCleanUp \/ HandleMsg \/ Delay
             \/ RecvNothing \/ IssueNotSent
  BY <1>3 DEF IP_CLEAN_UP, StampClean, NoCleanUp, HandleMsg, Delay,
     RecvNothing, IssueNotSent, ReplyReachesSender
<1>4. CASE \E m \in Mac : RecvRequest(m)
  BY <1>4 DEF RecvRequest, ReplyReachesSender
<1>5. CASE \E f \in Unicast : RecvInvalid(f)
  BY <1>5 DEF RecvInvalid, ReplyReachesSender
<1>6. CASE IssueSent \/ IssueGivenUp
  BY <1>6 DEF IssueSent, IssueGivenUp, EndIssue, ReplyReachesSender
<1>7. QED
  BY <1>1, <1>2, <1>3, <1>4, <1>5, <1>6 DEF Next, Thread

(* While a message is handled its address leads back to its sender.        *)
THEOREM RepliesReachSender == Spec => []ReplyReachesSender
<1>1. Init => ReplyReachesSender
  BY DEF Init, ReplyReachesSender
<1>2. QED
  BY <1>1, ReplyKept, InvariantHolds, PTL DEF Spec
-----------------------------------------------------------------------------
(* The refinement. A step of the sink is read as a step of Lease.          *)

(* The entries of the pool that a clean-up discards are the leases it ends. *)
LEMMA CleanUpExpires ==
  ASSUME IInv, IP_CLEAN_UP
  PROVE  \E S \in SUBSET Pool : Leases!Expire(S)
<1> DEFINE gone == Stale(lastClean)
           freed == gone \cup (IF IP_MAX_COUNT \in gone THEN {0} ELSE {})
<1>1. /\ macTable' = [i \in Address |-> IF i \in freed THEN NullMac
                                        ELSE macTable[i]]
      /\ IP_last_talked_to' = [i \in Searched |-> IF i \in gone THEN 0
                                                  ELSE IP_last_talked_to[i]]
      /\ systime' = systime
  BY DEF IP_CLEAN_UP, remove_ip_mac_entries
<1>2. \A i \in Pool : i \in freed <=> i \in gone
  BY AddressRanges
<1>3. \A i \in gone \cap Pool :
        macTable[i] # NullMac /\ systime - IP_last_talked_to[i] > APP_EPOCH_UNTIL_CLEAN
  <2>1. SUFFICES ASSUME NEW i \in Pool, i \in gone
                 PROVE  /\ macTable[i] # NullMac
                        /\ systime - IP_last_talked_to[i] > APP_EPOCH_UNTIL_CLEAN
    OBVIOUS
  <2>2. IP_last_talked_to[i] # 0 /\ IP_last_talked_to[i] < lastClean
    BY <2>1 DEF Stale
  <2>3. Live(i)
    BY <2>2, AddressRanges DEF IInv, LeaseRecorded
  <2>4. systime - lastClean > APP_EPOCH_UNTIL_CLEAN
    BY DEF IP_CLEAN_UP, CleanUpDue
  <2>5. systime \in Nat /\ lastClean \in Nat /\ IP_last_talked_to[i] \in Nat
    BY AddressRanges DEF IInv, TypeOK
  <2>6. QED
    BY <2>2, <2>3, <2>4, <2>5, SpecialEntries, SinkAssumption DEF Live
<1>4. [i \in Pool |-> macTable'[i]] =
        [i \in Pool |-> IF i \in gone \cap Pool THEN NullMac
                        ELSE [j \in Pool |-> macTable[j]][i]]
  BY <1>1, <1>2, AddressRanges
<1>5. [i \in Pool |-> IP_last_talked_to'[i]] =
        [i \in Pool |-> IF i \in gone \cap Pool THEN 0
                        ELSE [j \in Pool |-> IP_last_talked_to[j]][i]]
  BY <1>1, AddressRanges
<1>6. PICK S \in SUBSET Pool : S = gone \cap Pool
  OBVIOUS
<1>7. Leases!Expire(S)
  BY <1>1, <1>3, <1>4, <1>5, <1>6 DEF Leases!Expire
<1>8. QED
  BY <1>7

(* Writing an entry and its time is a grant or a renewal of that address.  *)
LEMMA StampedEntryMaps ==
  ASSUME IInv, NEW i \in Pool, NEW m \in Mac,
         macTable[i] \in {NullMac, m},
         macTable' = MirrorStamp([macTable EXCEPT ![i] = m], i, systime),
         IP_last_talked_to' = [IP_last_talked_to EXCEPT ![i] = systime],
         systime' = systime
  PROVE  Leases!Grant(i, m) \/ Leases!Renew(i)
<1> DEFINE table == [macTable EXCEPT ![i] = m]
<1>1. table \in [Address -> Entry]
  BY AddressRanges DEF IInv, TypeOK, Entry
<1>2. \A j \in Address \ {0} : macTable'[j] = table[j]
  <2> HIDE DEF table
  <2>1. macTable' = MirrorStamp(table, i, systime)
    BY DEF table
  <2>2. \A j \in Address \ {0} : MirrorStamp(table, i, systime)[j] = table[j]
    BY <1>1, MirrorStampOnlyEntryZero
  <2>3. QED
    BY <2>1, <2>2
<1>3. \A j \in Pool : macTable'[j] = IF j = i THEN m ELSE macTable[j]
  BY <1>2, AddressRanges DEF IInv, TypeOK
<1>4. [j \in Pool |-> macTable'[j]] =
        [[j \in Pool |-> macTable[j]] EXCEPT ![i] = m]
  BY <1>3
<1>5. [j \in Pool |-> IP_last_talked_to'[j]] =
        [[j \in Pool |-> IP_last_talked_to[j]] EXCEPT ![i] = systime]
  BY AddressRanges DEF IInv, TypeOK
<1>6. CASE macTable[i] = NullMac
  BY <1>4, <1>5, <1>6 DEF Leases!Grant
<1>7. CASE macTable[i] = m
  <2>1. [j \in Pool |-> macTable'[j]] = [j \in Pool |-> macTable[j]]
    BY <1>3, <1>7
  <2>2. m # NullMac
    BY SpecialEntries
  <2>3. QED
    BY <2>1, <2>2, <1>5, <1>7 DEF Leases!Renew
<1>8. QED
  BY <1>6, <1>7

(* The timer interrupt cannot advance past the limit of a lease: before it *)
(* does, the pass that is due has cleaned up.                              *)
LEMMA TimerMaps ==
  ASSUME IInv, TimerBaseIntHandler
  PROVE  Leases!Tick
<1>1. ASSUME NEW i \in Pool, macTable[i] # NullMac
      PROVE  systime - IP_last_talked_to[i] < MaxSilence
  <2>1. Live(i)
    BY <1>1 DEF IInv, ReservedEntries, Live
  <2>2. /\ systime \in Nat /\ lastClean \in Nat /\ passStart \in Nat
        /\ IP_last_talked_to[i] \in Nat
    BY AddressRanges DEF IInv, TypeOK
  <2>3. lastClean - IP_last_talked_to[i] =< APP_EPOCH_UNTIL_CLEAN + 2 * MaxPass
    BY <2>1, <2>2, SinkAssumption DEF IInv, RecentContact
  <2>4. systime - lastClean < APP_EPOCH_UNTIL_CLEAN + 2 * MaxPass
    BY <2>2, SinkAssumption DEF IInv, Schedule, TimerBaseIntHandler
  <2>5. QED
    BY <2>2, <2>3, <2>4, SinkAssumption DEF MaxSilence
<1>2. /\ systime' = systime + 1 /\ macTable' = macTable
      /\ IP_last_talked_to' = IP_last_talked_to
  BY DEF TimerBaseIntHandler
<1>3. QED
  BY <1>1, <1>2 DEF Leases!Tick

(* Every other step leaves the table and the clock alone.                  *)
LEMMA UntouchedMaps ==
  ASSUME UNCHANGED <<macTable, IP_last_talked_to, systime>>
  PROVE  UNCHANGED Leases!vars
BY DEF Leases!vars

LEMMA EndIssueMaps ==
  ASSUME IInv, pc = "issue", NEW r, EndIssue(r)
  PROVE  [Leases!Next]_(Leases!vars)
<1>1. PICK i \in Pool, m \in Mac :
        i = issue.ip /\ m = issue.mac /\ macTable[i] = NullMac
  BY DEF IInv, IssueReserved, Issue
<1>2. CASE r < IP_MAX_REQUEST_IP_TIMEOUT
  <2>1. /\ macTable' = MirrorStamp([macTable EXCEPT ![i] = m], i, systime)
        /\ IP_last_talked_to' = [IP_last_talked_to EXCEPT ![i] = systime]
        /\ systime' = systime
    BY <1>1, <1>2 DEF EndIssue, add_ip_mac_entry
  <2>2. Leases!Grant(i, m) \/ Leases!Renew(i)
    BY <1>1, <2>1, StampedEntryMaps
  <2>3. Leases!Next
    BY <2>2 DEF Leases!Next
  <2>4. QED
    BY <2>3
<1>3. CASE ~ (r < IP_MAX_REQUEST_IP_TIMEOUT)
  BY <1>3, UntouchedMaps DEF EndIssue
<1>4. QED
  BY <1>2, <1>3

LEMMA RecvApplicationMaps ==
  ASSUME IInv, NEW f \in Unicast, RecvApplication(f)
  PROVE  Leases!Next
<1>1. f.ip \in Pool /\ f.mac \in Mac /\ macTable[f.ip] = f.mac
  BY ApplicationIsFromHolder DEF RecvApplication
<1>2. [macTable EXCEPT ![f.ip] = f.mac] = macTable
  BY <1>1, AddressRanges DEF IInv, TypeOK
<1>3. macTable' = MirrorStamp([macTable EXCEPT ![f.ip] = f.mac], f.ip, systime)
  BY <1>2 DEF RecvApplication
<1>4. Leases!Grant(f.ip, f.mac) \/ Leases!Renew(f.ip)
  BY <1>1, <1>3, StampedEntryMaps DEF RecvApplication
<1>5. QED
  BY <1>1, <1>4 DEF Leases!Next

LEMMA InitMaps == Init => Leases!Init
<1> SUFFICES ASSUME Init PROVE Leases!Init
  OBVIOUS
<1>1. [i \in Pool |-> macTable[i]] = [i \in Pool |-> NullMac]
  BY TableSizeAssumption DEF Init, init_trans_table, Pool, Address
<1>2. [i \in Pool |-> IP_last_talked_to[i]] = [i \in Pool |-> 0]
  BY AddressRanges DEF Init
<1>3. QED
  BY <1>1, <1>2 DEF Init, Leases!Init

LEMMA NextMaps == IInv /\ [Next]_vars => [Leases!Next]_(Leases!vars)
<1> SUFFICES ASSUME IInv, [Next]_vars PROVE [Leases!Next]_(Leases!vars)
  OBVIOUS
<1>1. CASE IP_CLEAN_UP
  <2>1. Leases!Next
    BY <1>1, CleanUpExpires DEF Leases!Next
  <2>2. QED
    BY <2>1
<1>2. CASE StampClean \/ NoCleanUp \/ RecvNothing \/ IssueNotSent \/ HandleMsg
           \/ Delay
  BY <1>2, UntouchedMaps DEF StampClean, NoCleanUp, RecvNothing, IssueNotSent,
     HandleMsg, Delay
<1>3. CASE \E m \in Mac : RecvRequest(m)
  BY <1>3, UntouchedMaps DEF RecvRequest
<1>4. CASE \E f \in Unicast : RecvApplication(f)
  BY <1>4, RecvApplicationMaps
<1>5. CASE \E f \in Unicast : RecvInvalid(f)
  BY <1>5, UntouchedMaps DEF RecvInvalid
<1>6. CASE IssueSent
  BY <1>6, EndIssueMaps DEF IssueSent
<1>7. CASE IssueGivenUp
  BY <1>7, EndIssueMaps DEF IssueGivenUp
<1>8. CASE TimerBaseIntHandler
  <2>1. Leases!Tick
    BY <1>8, TimerMaps
  <2>2. QED
    BY <2>1 DEF Leases!Next
<1>9. CASE UNCHANGED vars
  BY <1>9, UntouchedMaps DEF vars
<1>10. QED
  BY <1>1, <1>2, <1>3, <1>4, <1>5, <1>6, <1>7, <1>8, <1>9 DEF Next, Thread

(* The sink implements the leases: one holder for an address at a time, no *)
(* lease ended before TTL and none kept beyond Limit.                      *)
THEOREM SinkImplementsLease == Spec => LeaseSpec
<1>1. Init => Leases!Init
  BY InitMaps
<1>2. IInv /\ [Next]_vars => [Leases!Next]_(Leases!vars)
  BY NextMaps
<1>3. QED
  BY <1>1, <1>2, InvariantHolds, PTL DEF Spec, LeaseSpec, Leases!Spec
-----------------------------------------------------------------------------
(* A node loses its address, to the pool or to another node, only after    *)
(* more than an epoch of silence.                                          *)
THEOREM EvictsOnlySilent == Spec => EvictOnlySilent
<1> DEFINE Evicts(i) == Live(i) /\ macTable'[i] # macTable[i] =>
                          systime - IP_last_talked_to[i] > APP_EPOCH_UNTIL_CLEAN
<1>1. IInv /\ [Next]_vars => [\A i \in Pool : Evicts(i)]_vars
  <2>1. SUFFICES ASSUME IInv, [Next]_vars, NEW i \in Pool, Live(i),
                        macTable'[i] # macTable[i]
                 PROVE  systime - IP_last_talked_to[i] > APP_EPOCH_UNTIL_CLEAN
    OBVIOUS
  <2>2. [Leases!Next]_(Leases!vars)
    BY <2>1, NextMaps
  <2>3. macTable[i] # NullMac
    BY <2>1, SpecialEntries DEF Live
  <2> DEFINE holder == [j \in Pool |-> macTable[j]]
             holderNext == [j \in Pool |-> macTable'[j]]
             heard == [j \in Pool |-> IP_last_talked_to[j]]
  <2>4. holder[i] # NullMac /\ holderNext[i] # holder[i]
    BY <2>1, <2>3
  <2>5. holderNext # holder
    BY <2>4
  <2>6. PICK S \in SUBSET Pool : Leases!Expire(S)
    <3>1. CASE \E j \in Pool, n \in Mac : Leases!Grant(j, n)
      <4>1. PICK j \in Pool, n \in Mac : Leases!Grant(j, n)
        BY <3>1
      <4>2. holder[j] = NullMac /\ holderNext = [holder EXCEPT ![j] = n]
        BY <4>1 DEF Leases!Grant
      <4>3. i # j
        BY <4>2, <2>4
      <4>4. holderNext[i] = holder[i]
        BY <4>2, <4>3
      <4>5. QED
        BY <4>4, <2>4
    <3>2. CASE \E j \in Pool : Leases!Renew(j)
      BY <3>2, <2>5 DEF Leases!Renew
    <3>3. CASE Leases!Tick
      BY <3>3, <2>5 DEF Leases!Tick
    <3>4. CASE UNCHANGED Leases!vars
      BY <3>4, <2>5 DEF Leases!vars
    <3>5. QED
      BY <2>2, <3>1, <3>2, <3>3, <3>4 DEF Leases!Next
  <2>7. i \in S
    <3>1. holderNext = [j \in Pool |-> IF j \in S THEN NullMac ELSE holder[j]]
      BY <2>6 DEF Leases!Expire
    <3>2. QED
      BY <3>1, <2>4
  <2>8. systime - heard[i] > APP_EPOCH_UNTIL_CLEAN
    BY <2>6, <2>7 DEF Leases!Expire
  <2>9. QED
    BY <2>8
<1>2. QED
  BY <1>1, InvariantHolds, PTL DEF Spec, EvictOnlySilent
=============================================================================
