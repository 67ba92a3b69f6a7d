-------------------------------- MODULE Sink --------------------------------
(***************************************************************************)
(* The sink: the main loop of APP_sink (sink/application.c) over the IP    *)
(* layer of the sink role (sink/ip.c).  One thread runs the loop; the      *)
(* timer interrupt advances systime under it.  The MAC layer is seen       *)
(* through its results: a frame handed up, or a MAC_send_data that         *)
(* succeeded or failed; its own protocol is module Link.                   *)
(*                                                                         *)
(* IP_last_talked_to has IP_MAX_COUNT elements, numbered from 0, while     *)
(* the addresses in use reach IP_MAX_COUNT itself.  The linker places      *)
(* macTable right behind the array (sink/Release/transceiver_mode.map,     *)
(* lines 382-383), so the word one past its end is the memory of           *)
(* macTable[0] and of two bytes of macTable[1].  The variable has a        *)
(* word for every address and MirrorStamp writes the overlapping one       *)
(* through.  The two bytes are the top of a 64-bit count of milliseconds   *)
(* and stay 0.                                                             *)
(***************************************************************************)
EXTENDS TranslationTable

CONSTANTS
  StampMac,                   \* six bytes that hold a nonzero systime
  IP_MAX_ISSUE_RETRIES,       \* 10 in sink/ip.h
  IP_MAX_REQUEST_IP_TIMEOUT,  \* 50 in sink/ip.h
  APP_EPOCH_UNTIL_CLEAN,      \* 20000 ms
  StartTime,                  \* systime when APP_sink enters its loop
  MaxPass,                    \* longest pass of the loop, in ms
  MaxTime                     \* largest systime: 2^64 - 1 in the program

ASSUME SinkAssumption ==
  /\ StampMac \notin Mac \cup {NullMac, BroadcastMac}
  /\ IP_MAX_ISSUE_RETRIES \in Nat
  /\ IP_MAX_REQUEST_IP_TIMEOUT \in Nat
  /\ APP_EPOCH_UNTIL_CLEAN \in Nat
  /\ StartTime \in Nat \ {0}    \* APP_test_systime has asserted that it moves
  /\ MaxPass \in Nat
  /\ MaxTime \in Nat

IP_MAX_COUNT == TABLE_SIZE - 2
SinkIp == 1

VARIABLES
  macTable,            \* address -> MAC
  IP_last_talked_to,   \* address -> systime of the last contact, 0 if none
  systime,             \* milliseconds, advanced by the timer interrupt
  lastClean,           \* systime of the last clean-up
  pc,                  \* where the thread is
  issue,               \* locals of IP_issue_ip
  msg,                 \* what IP_recv_data handed to APP_sink
  passStart            \* systime when the thread was last at the loop head

vars == <<macTable, IP_last_talked_to, systime, lastClean, pc, issue, msg,
          passStart>>

(* A unicast frame for the sink.  A node puts the address it was issued in *)
(* the source field and the sink's in the destination; an ack frame, which *)
(* has no IP header, reads as 0.0.0.0 in both.                             *)
Unicast ==
  [mac : Mac, ip : Pool, dst : {SinkIp}, app : {"S", "D", "other"}]
    \cup [mac : Mac, ip : {0}, dst : {0}, app : {"other"}]

NoIssue == [mac |-> NullMac, ip |-> None, retries |-> 0]
Issue == [mac : Mac, ip : Pool, retries : 0 .. IP_MAX_ISSUE_RETRIES]

NoMsg == [mac |-> NullMac, ip |-> None, dst |-> None, app |-> "other"]

TypeOK ==
  /\ macTable \in
       [Address -> Mac \cup {NullMac, BroadcastMac, StampMac}]
  /\ IP_last_talked_to \in [Searched -> Nat]
  /\ systime \in Nat
  /\ lastClean \in Nat
  /\ pc \in {"top", "stamp", "recv", "issue", "app", "delay"}
  /\ issue \in Issue \cup {NoIssue}
  /\ msg \in Unicast \cup {NoMsg}
  /\ passStart \in Nat
-----------------------------------------------------------------------------
(* IP_last_talked_to[i] = t, as it reaches macTable.                       *)
MirrorStamp(table, i, t) ==
  IF i = IP_MAX_COUNT
  THEN [table EXCEPT ![0] = IF t = 0 THEN NullMac ELSE StampMac]
  ELSE table

(* Mutant: an entry is allowed another epoch of silence.                   *)
StaleEpochLater(cutOff) ==
  {i \in Searched : /\ IP_last_talked_to[i] + APP_EPOCH_UNTIL_CLEAN < cutOff
                    /\ IP_last_talked_to[i] # 0}

(* The entries IP_CLEAN_UP(cutOff) discards.                               *)
Stale(cutOff) ==
  {i \in Searched : IP_last_talked_to[i] < cutOff /\ IP_last_talked_to[i] # 0}

(* IP_init(GLOBAL_ROLE_SINK), up to the loop of APP_sink.                  *)
Init ==
  /\ macTable = init_trans_table
  /\ IP_last_talked_to = [i \in Searched |-> 0]
  /\ systime = StartTime
  /\ lastClean = StartTime
  /\ pc = "top"
  /\ issue = NoIssue
  /\ msg = NoMsg
  /\ passStart = StartTime

CleanUpDue == systime - lastClean > APP_EPOCH_UNTIL_CLEAN

(* Mutant: the entry goes and its time stays, as in the node's copy of     *)
(* IP_CLEAN_UP (node/ip.c).                                                *)
CleanUpKeepsTime ==
  /\ pc = "top"
  /\ CleanUpDue
  /\ macTable' = remove_ip_mac_entries(macTable, Stale(lastClean))
  /\ pc' = "stamp"
  /\ UNCHANGED <<IP_last_talked_to, systime, lastClean, issue, msg, passStart>>

(* Mutant: lastClean is moved to systime before the clean-up.              *)
CleanUpAfterStamp ==
  /\ pc = "top"
  /\ CleanUpDue
  /\ LET gone == Stale(systime)
     IN /\ macTable' = remove_ip_mac_entries(macTable,
             gone \cup (IF IP_MAX_COUNT \in gone THEN {0} ELSE {}))
        /\ IP_last_talked_to' =
             [i \in Searched |-> IF i \in gone THEN 0 ELSE IP_last_talked_to[i]]
  /\ pc' = "stamp"
  /\ UNCHANGED <<systime, lastClean, issue, msg, passStart>>

(* IP_CLEAN_UP(lastClean).  Clearing the overlapping word frees entry 0.   *)
IP_CLEAN_UP ==
  /\ pc = "top"
  /\ CleanUpDue
  /\ LET gone == Stale(lastClean)
     IN /\ macTable' = remove_ip_mac_entries(macTable,
             gone \cup (IF IP_MAX_COUNT \in gone THEN {0} ELSE {}))
        /\ IP_last_talked_to' =
             [i \in Searched |-> IF i \in gone THEN 0 ELSE IP_last_talked_to[i]]
  /\ pc' = "stamp"
  /\ UNCHANGED <<systime, lastClean, issue, msg, passStart>>

(* systime is read a second time, after the clean-up.                      *)
StampClean ==
  /\ pc = "stamp"
  /\ lastClean' = systime
  /\ pc' = "recv"
  /\ UNCHANGED <<macTable, IP_last_talked_to, systime, issue, msg, passStart>>

NoCleanUp ==
  /\ pc = "top"
  /\ ~CleanUpDue
  /\ pc' = "recv"
  /\ UNCHANGED <<macTable, IP_last_talked_to, systime, lastClean, issue, msg,
                 passStart>>
-----------------------------------------------------------------------------
(* IP_recv_data returns IP_MSG_NO_MSG, or IP_MSG_INVALID for a broadcast   *)
(* that is no request.                                                     *)
RecvNothing ==
  /\ pc = "recv"
  /\ pc' = "delay"
  /\ UNCHANGED <<macTable, IP_last_talked_to, systime, lastClean, issue, msg,
                 passStart>>

(* A broadcast request of m: IP_issue_ip looks for a free address, without *)
(* asking whether m has one already, and fails at once if there is none.   *)
RecvRequest(m) ==
  /\ pc = "recv"
  /\ LET ip == find_free_ip(macTable)
     IN IF ip = None
        THEN pc' = "delay" /\ UNCHANGED issue
        ELSE /\ pc' = "issue"
             /\ issue' = [mac |-> m, ip |-> ip, retries |-> 0]
  /\ UNCHANGED <<macTable, IP_last_talked_to, systime, lastClean, msg,
                 passStart>>

(* Mutant: the source address need not belong to the sender.               *)
IsFromSomeEntry(f) ==
  /\ ResolvesMac(macTable, f.mac)
  /\ ResolvesIp(macTable, f.ip)
  /\ f.dst = SinkIp

(* The sender has an entry, its source address translates back to it, and  *)
(* the frame is for this sink.                                             *)
IsApplication(f) ==
  /\ ResolvesMac(macTable, f.mac)
  /\ ResolvesIp(macTable, f.ip)
  /\ macTable[f.ip] = f.mac
  /\ f.dst = SinkIp

RecvApplication(f) ==
  /\ pc = "recv"
  /\ IsApplication(f)
  /\ IP_last_talked_to' = [IP_last_talked_to EXCEPT ![f.ip] = systime]
  /\ macTable' = MirrorStamp(macTable, f.ip, systime)
  /\ msg' = f
  /\ pc' = "app"
  /\ UNCHANGED <<systime, lastClean, issue, passStart>>

RecvInvalid(f) ==
  /\ pc = "recv"
  /\ ~IsApplication(f)
  /\ pc' = "delay"
  /\ UNCHANGED <<macTable, IP_last_talked_to, systime, lastClean, issue, msg,
                 passStart>>
-----------------------------------------------------------------------------
(* Mutant: a new entry starts without a time.                              *)
EndIssueUnstamped(r) ==
  /\ IF r < IP_MAX_REQUEST_IP_TIMEOUT
     THEN macTable' = add_ip_mac_entry(macTable, issue.ip, issue.mac)
     ELSE UNCHANGED macTable
  /\ issue' = NoIssue
  /\ pc' = "delay"
  /\ UNCHANGED <<IP_last_talked_to, systime, lastClean, msg, passStart>>

(* The end of IP_issue_ip after r failed sends.  The test compares r with  *)
(* a timeout instead of the number of retries.                             *)
EndIssue(r) ==
  /\ IF r < IP_MAX_REQUEST_IP_TIMEOUT
     THEN /\ macTable' = MirrorStamp(
               add_ip_mac_entry(macTable, issue.ip, issue.mac),
               issue.ip, systime)
          /\ IP_last_talked_to' =
               [IP_last_talked_to EXCEPT ![issue.ip] = systime]
     ELSE UNCHANGED <<macTable, IP_last_talked_to>>
  /\ issue' = NoIssue
  /\ pc' = "delay"
  /\ UNCHANGED <<systime, lastClean, msg, passStart>>

(* MAC_send_data returned MAC_SEND_SUCCESS.                                *)
IssueSent ==
  /\ pc = "issue"
  /\ issue.retries < IP_MAX_ISSUE_RETRIES
  /\ EndIssue(issue.retries)

(* Mutant: the count starts again before it reaches the limit.             *)
IssueNotSentWraps ==
  /\ pc = "issue"
  /\ issue.retries < IP_MAX_ISSUE_RETRIES
  /\ issue' = [issue EXCEPT !.retries = (@ + 1) % IP_MAX_ISSUE_RETRIES]
  /\ UNCHANGED <<macTable, IP_last_talked_to, systime, lastClean, pc, msg,
                 passStart>>

(* MAC_send_data returned MAC_SEND_FAIL.                                   *)
IssueNotSent ==
  /\ pc = "issue"
  /\ issue.retries < IP_MAX_ISSUE_RETRIES
  /\ issue' = [issue EXCEPT !.retries = @ + 1]
  /\ UNCHANGED <<macTable, IP_last_talked_to, systime, lastClean, pc, msg,
                 passStart>>

IssueGivenUp ==
  /\ pc = "issue"
  /\ issue.retries = IP_MAX_ISSUE_RETRIES
  /\ EndIssue(issue.retries)

(* 'S' is answered with the period and systime, 'D' is logged, anything    *)
(* else is discarded.  None of it changes the sink's tables.               *)
HandleMsg ==
  /\ pc = "app"
  /\ msg' = NoMsg
  /\ pc' = "delay"
  /\ UNCHANGED <<macTable, IP_last_talked_to, systime, lastClean, issue,
                 passStart>>

(* UTIL_delay(1), back to the head of the loop.                            *)
Delay ==
  /\ pc = "delay"
  /\ pc' = "top"
  /\ passStart' = systime
  /\ UNCHANGED <<macTable, IP_last_talked_to, systime, lastClean, issue, msg>>
-----------------------------------------------------------------------------
(* TimerBaseIntHandler, between any two steps of the thread.  Every wait   *)
(* of the loop is bounded in the code, so a pass takes at most MaxPass.    *)
TimerBaseIntHandler ==
  /\ systime < MaxTime
  /\ systime - passStart < MaxPass
  /\ systime' = systime + 1
  /\ UNCHANGED <<macTable, IP_last_talked_to, lastClean, pc, issue, msg,
                 passStart>>

Thread ==
  \/ IP_CLEAN_UP
  \/ StampClean
  \/ NoCleanUp
  \/ RecvNothing
  \/ \E m \in Mac : RecvRequest(m)
  \/ \E f \in Unicast : RecvApplication(f)
  \/ \E f \in Unicast : RecvInvalid(f)
  \/ IssueSent
  \/ IssueNotSent
  \/ IssueGivenUp
  \/ HandleMsg
  \/ Delay

Next == Thread \/ TimerBaseIntHandler

Spec == Init /\ [][Next]_vars

(* The thread never blocks: every call of the loop returns.                *)
FairSpec == Spec /\ WF_vars(Thread)
-----------------------------------------------------------------------------
(* Properties. *)

Live(i) == macTable[i] \in Mac

(* An address is in the table exactly when its last contact is on record.  *)
(* A live entry whose record is 0 would never be cleaned up, and a record  *)
(* without an entry would clean up the next holder early (ip.c: 73-74,     *)
(* 261, 363-370).                                                          *)
LeaseRecorded ==
  \A i \in Searched : Live(i) <=> IP_last_talked_to[i] # 0

(* The longest a node can have been silent and still be in the table: it   *)
(* is spared by the clean-up that follows its last contact and lost to the *)
(* one after it, and either is late by up to two passes.                   *)
MaxSilence == 2 * (APP_EPOCH_UNTIL_CLEAN + 2 * MaxPass)

(* A node that left is discarded within MaxSilence: addresses come back to *)
(* the pool although only one clean-up in each epoch looks for them and    *)
(* the cut-off it uses is the previous clean-up (application.c: 305-310).  *)
SilentEvicted ==
  \A i \in Pool : Live(i) => systime - IP_last_talked_to[i] <= MaxSilence

(* No step takes an address from its holder, or gives it to another node,  *)
(* unless the holder has been silent for more than an epoch.               *)
EvictOnlySilent ==
  [][\A i \in Pool : Live(i) /\ macTable'[i] # macTable[i] =>
       systime - IP_last_talked_to[i] > APP_EPOCH_UNTIL_CLEAN]_vars

(* While a message is handled, its source address still leads back to the  *)
(* board that sent it, which is where the answer to 'S' goes through the   *)
(* table.  The word that overlaps entry 0 must not let an ack frame, whose *)
(* address reads as 0, pass for a message (ip.c: 254-255).                 *)
ReplyReachesSender ==
  pc = "app" => /\ msg.ip \in Pool
                /\ macTable[msg.ip] = msg.mac

(* The loop of APP_sink comes back to listen, whatever it receives and     *)
(* however often an issue has to be sent again.                            *)
ListensAgain == []<>(pc = "recv")

(* The sink implements the address leases of module Lease.                 *)
Leases == INSTANCE Lease WITH
  Node <- Mac, Nobody <- NullMac, Start <- StartTime,
  TTL <- APP_EPOCH_UNTIL_CLEAN, Limit <- MaxSilence,
  holder <- [i \in Pool |-> macTable[i]],
  heard <- [i \in Pool |-> IP_last_talked_to[i]],
  now <- systime

LeaseSpec == Leases!Spec
-----------------------------------------------------------------------------
(* The inductive invariant behind SilentEvicted and LeaseSpec. *)

(* Entries 0, 1 and the last one never belong to a node.                   *)
ReservedEntries ==
  /\ macTable[0] \in {NullMac, StampMac}
  /\ macTable[1] = NullMac
  /\ macTable[TABLE_SIZE - 1] = BroadcastMac
  /\ \A i \in Pool : macTable[i] \in Mac \cup {NullMac}

(* The address IP_issue_ip has chosen is still free when it is written.    *)
IssueReserved ==
  pc = "issue" => issue \in Issue /\ macTable[issue.ip] = NullMac

(* Nothing is stamped in the future, and a pass is bounded.                *)
Clock ==
  /\ 0 < systime
  /\ passStart =< systime /\ systime =< passStart + MaxPass
  /\ lastClean =< systime
  /\ \A i \in Searched : IP_last_talked_to[i] =< systime

(* How late a pass can start after the last clean-up.                      *)
Schedule ==
  passStart - lastClean =<
    APP_EPOCH_UNTIL_CLEAN + IF pc \in {"top", "stamp"} THEN MaxPass ELSE 0

(* What the last clean-up, or the one of this pass, has left in the table. *)
RecentContact ==
  \A i \in Pool : Live(i) =>
    lastClean - IP_last_talked_to[i] =<
      IF pc = "stamp" THEN 0 ELSE APP_EPOCH_UNTIL_CLEAN + 2 * MaxPass

(* The parts hold together in every reachable state and no step of the     *)
(* sink or of its timer breaks them; they are what ties the cut-off of     *)
(* IP_CLEAN_UP to the time a node has been silent.                         *)
IInv ==
  /\ TypeOK
  /\ LeaseRecorded
  /\ ReservedEntries
  /\ IssueReserved
  /\ Clock
  /\ Schedule
  /\ RecentContact
=============================================================================
