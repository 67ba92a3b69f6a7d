------------------------------ MODULE Network -------------------------------
(***************************************************************************)
(* Nodes and the sink together: how a node obtains an address              *)
(* (IP_request_ip), asks for the system time and then sends its data       *)
(* (APP_node), and what the sink does with it (APP_sink), over the MAC     *)
(* layer of mac.c.  The MAC layer appears frame by frame, because what the *)
(* IP layer takes for an answer depends on the order in which acks, copies *)
(* and answers are read.                                                   *)
(*                                                                         *)
(* Time is left out: any wait may end at any moment, and a clean-up        *)
(* discards the entries that were not heard since the one before, which is *)
(* what the time stamps of module Sink come to.  A request is broadcast    *)
(* and all boards receive it, but a node reads and ignores it, so only the *)
(* sink's copy is kept.  Either kind of board may be reset at any time; it *)
(* keeps nothing.                                                          *)
(***************************************************************************)
EXTENDS TranslationTable, Sequences

CONSTANTS
  MAC_MAX_RETRIES,          \* transmissions of one MAC_send_data
  IP_MAX_REQUEST_RETRIES,   \* of IP_request_ip
  APP_MAX_SYS_REQ_RETRIES,  \* of the loop that asks for the system time
  IP_MAX_ISSUE_RETRIES,     \* of IP_issue_ip
  INBOX,                    \* frames a radio processor holds
  MaxReset                  \* resets in a behaviour, of all boards together

ASSUME NetworkAssumption ==
  /\ MAC_MAX_RETRIES \in Nat \ {0}
  /\ IP_MAX_REQUEST_RETRIES \in Nat \ {0}
  /\ APP_MAX_SYS_REQ_RETRIES \in Nat \ {0}
  /\ IP_MAX_ISSUE_RETRIES \in Nat \ {0}
  /\ INBOX \in Nat
  /\ MaxReset \in Nat

SinkIp == 1
Unset == 0      \* an address of four zero bytes: no header, or never set

VARIABLES
  pc,         \* which loop of IP_request_ip or APP_node the node is in
  my_ip,      \* the node's address
  gateway,    \* the address it sends to
  retries,    \* iterations of the loop that have failed
  sent,       \* transmissions of its MAC_send_data, 0 outside of one
  inbox,      \* frames the node has received and not read
  macTable,   \* the sink's table
  heard,      \* addresses heard by the sink since its last clean-up
  sinkPc,     \* listening, or in the MAC_send_data of an issue or an answer
  job,        \* whom that is for, and the retries of IP_issue_ip
  sinkSent,   \* transmissions of it
  sinkInbox,  \* frames the sink has received and not read
  evicted,    \* <<node, address>> the sink has discarded since n started
  resets      \* number of resets so far

nodeVars == <<pc, my_ip, gateway, retries, sent>>
sinkVars == <<macTable, heard, sinkPc, job, sinkSent>>
history == <<evicted, resets>>
vars == <<nodeVars, inbox, sinkVars, sinkInbox, history>>

(* from and to are the addresses of the IP header, Unset where it has none.*)
ToSink ==
  [src : Mac, kind : {"ack", "request"}, from : {Unset}, to : {Unset}]
    \cup [src : Mac, kind : {"S", "D"}, from : Pool \cup {Unset},
          to : {SinkIp, Unset}]
ToNode ==
  [kind : {"ack"}, from : {Unset}, to : {Unset}]
    \cup [kind : {"issue", "time"}, from : {SinkIp}, to : Pool]

Ack == [kind |-> "ack", from |-> Unset, to |-> Unset]
AckOf(n) == [src |-> n, kind |-> "ack", from |-> Unset, to |-> Unset]

NoJob == [mac |-> NullMac, ip |-> Unset, retries |-> 0]
Job == [mac : Mac, ip : Pool, retries : 0 .. IP_MAX_ISSUE_RETRIES - 1]

TypeOK ==
  /\ pc \in [Mac -> {"request", "response", "sync", "answer", "data",
                     "stopped"}]
  /\ my_ip \in [Mac -> Pool \cup {Unset}]
  /\ gateway \in [Mac -> {SinkIp, Unset}]
  /\ retries \in [Mac -> Nat]
  /\ sent \in [Mac -> 0 .. MAC_MAX_RETRIES - 1]
  /\ inbox \in [Mac -> Seq(ToNode)]
  /\ macTable \in [Address -> Mac \cup {NullMac, BroadcastMac}]
  /\ heard \subseteq Pool
  /\ sinkPc \in {"recv", "issue", "answer"}
  /\ job \in Job \cup {NoJob}
  /\ sinkSent \in 0 .. MAC_MAX_RETRIES - 1
  /\ sinkInbox \in Seq(ToSink)
  /\ evicted \subseteq Mac \X Pool
  /\ resets \in 0 .. MaxReset

(* IP_init of both kinds of board.                                         *)
Init ==
  /\ pc = [n \in Mac |-> "request"]
  /\ my_ip = [n \in Mac |-> Unset]
  /\ gateway = [n \in Mac |-> Unset]
  /\ retries = [n \in Mac |-> 0]
  /\ sent = [n \in Mac |-> 0]
  /\ inbox = [n \in Mac |-> <<>>]
  /\ macTable = init_trans_table
  /\ heard = {}
  /\ sinkPc = "recv"
  /\ job = NoJob
  /\ sinkSent = 0
  /\ sinkInbox = <<>>
  /\ evicted = {}
  /\ resets = 0
-----------------------------------------------------------------------------
(* The air may lose a frame, and a full radio processor does.              *)
TransmitToSink(f) ==
  \/ UNCHANGED sinkInbox
  \/ Len(sinkInbox) < INBOX /\ sinkInbox' = Append(sinkInbox, f)

TransmitToNode(n, f) ==
  \/ UNCHANGED inbox
  \/ Len(inbox[n]) < INBOX /\ inbox' = [inbox EXCEPT ![n] = Append(@, f)]

(* ---- The node. ---- *)

(* Mutant: a failed iteration is not counted.                              *)
AgainUncounted(n) ==
  /\ sent' = [sent EXCEPT ![n] = 0]
  /\ pc' = [pc EXCEPT ![n] = CASE @ = "response" -> "request"
                               [] @ = "answer" -> "sync"
                               [] OTHER -> @]
  /\ UNCHANGED retries

(* Another iteration of the loop the node is in, unless it was the last:   *)
(* then the assertion of APP_node fails and the board halts.  The loop     *)
(* that sends data takes no notice of a failure.                           *)
Again(n) ==
  /\ sent' = [sent EXCEPT ![n] = 0]
  /\ IF pc[n] = "data"
     THEN UNCHANGED <<pc, retries>>
     ELSE LET asks  == pc[n] \in {"request", "response"}
              limit == IF asks THEN IP_MAX_REQUEST_RETRIES
                               ELSE APP_MAX_SYS_REQ_RETRIES
          IN /\ retries' = [retries EXCEPT ![n] = @ + 1]
             /\ pc' = [pc EXCEPT ![n] =
                         IF retries[n] + 1 >= limit THEN "stopped"
                         ELSE IF asks THEN "request" ELSE "sync"]

(* What MAC_send_data is called with in each of the three loops.           *)
Outgoing(n) ==
  [src  |-> n,
   kind |-> CASE pc[n] = "request" -> "request"
              [] pc[n] = "sync" -> "S"
              [] OTHER -> "D",
   from |-> IF pc[n] = "request" THEN Unset ELSE my_ip[n],
   to   |-> IF pc[n] = "request" THEN Unset ELSE gateway[n]]

(* A transmission of MAC_send_data; the last one is not waited for.        *)
NodeTransmits(n) ==
  /\ pc[n] \in {"request", "sync", "data"}
  /\ TransmitToSink(Outgoing(n))
  /\ IF sent[n] + 1 < MAC_MAX_RETRIES
     THEN sent' = [sent EXCEPT ![n] = @ + 1] /\ UNCHANGED <<pc, retries>>
     ELSE Again(n)
  /\ UNCHANGED <<my_ip, gateway, inbox, sinkVars, history>>

ReadsNode(n) == inbox[n] # <<>> /\ inbox' = [inbox EXCEPT ![n] = Tail(@)]

(* MAC_recv_ack takes any ack; all the node's frames come from the sink.   *)
NodeAcked(n) ==
  /\ sent[n] > 0
  /\ ReadsNode(n)
  /\ Head(inbox[n]).kind = "ack"
  /\ sent' = [sent EXCEPT ![n] = 0]
  /\ pc' = [pc EXCEPT ![n] = CASE @ = "request" -> "response"
                               [] @ = "sync" -> "answer"
                               [] OTHER -> @]
  /\ UNCHANGED <<my_ip, gateway, retries, sinkVars, sinkInbox, history>>

NodeDropsInsteadOfAck(n) ==
  /\ sent[n] > 0
  /\ ReadsNode(n)
  /\ Head(inbox[n]).kind # "ack"
  /\ UNCHANGED <<nodeVars, sinkVars, sinkInbox, history>>

(* The MAC_recv_data of IP_request_ip acknowledges whatever comes, and its *)
(* header is read as the sink's address and the node's.                    *)
NodeTakesAddress(n) ==
  /\ pc[n] = "response"
  /\ ReadsNode(n)
  /\ TransmitToSink(AckOf(n))
  /\ gateway' = [gateway EXCEPT ![n] = Head(inbox[n]).from]
  /\ my_ip' = [my_ip EXCEPT ![n] = Head(inbox[n]).to]
  /\ pc' = [pc EXCEPT ![n] = "sync"]
  /\ retries' = [retries EXCEPT ![n] = 0]
  /\ UNCHANGED <<sent, sinkVars, history>>

(* Mutant: the destination address is not compared.                        *)
IsFromGateway(n, f) ==
  /\ gateway[n] # Unset
  /\ f.from = gateway[n]

(* IP_MSG_APPLICATION: the sender is the board that is entered for the     *)
(* gateway, which resolve_mac_to_ip does not find at 0, and the frame is   *)
(* from the gateway's address to this node's.                              *)
IsAnswer(n, f) ==
  /\ gateway[n] # Unset
  /\ f.to = my_ip[n]
  /\ f.from = gateway[n]

(* IP_recv_data reads one frame.  The answer sets systime, and the node    *)
(* goes on to its slots; anything else costs an iteration.                 *)
NodeTakesAnswer(n) ==
  /\ pc[n] = "answer"
  /\ ReadsNode(n)
  /\ TransmitToSink(AckOf(n))
  /\ IF IsAnswer(n, Head(inbox[n]))
     THEN pc' = [pc EXCEPT ![n] = "data"] /\ UNCHANGED <<retries, sent>>
     ELSE Again(n)
  /\ UNCHANGED <<my_ip, gateway, sinkVars, history>>

NodeHearsNothing(n) ==
  /\ pc[n] \in {"response", "answer"}
  /\ Again(n)
  /\ UNCHANGED <<my_ip, gateway, inbox, sinkVars, sinkInbox, history>>

NodeReset(n) ==
  /\ resets < MaxReset
  /\ resets' = resets + 1
  /\ pc' = [pc EXCEPT ![n] = "request"]
  /\ my_ip' = [my_ip EXCEPT ![n] = Unset]
  /\ gateway' = [gateway EXCEPT ![n] = Unset]
  /\ retries' = [retries EXCEPT ![n] = 0]
  /\ sent' = [sent EXCEPT ![n] = 0]
  /\ inbox' = [inbox EXCEPT ![n] = <<>>]
  /\ evicted' = evicted \ ({n} \X Pool)
  /\ UNCHANGED <<sinkVars, sinkInbox>>
-----------------------------------------------------------------------------
(* ---- The sink. ---- *)

ReadsSink == sinkInbox # <<>> /\ sinkInbox' = Tail(sinkInbox)

Entered == {i \in Pool : macTable[i] \in Mac}

(* Mutant: the times of contact are not compared.                          *)
CleansUpAll ==
  /\ sinkPc = "recv"
  /\ macTable' = remove_ip_mac_entries(macTable, Entered)
  /\ evicted' = evicted \cup {<<macTable[i], i>> : i \in Entered}
  /\ heard' \in SUBSET heard
  /\ UNCHANGED <<nodeVars, inbox, sinkPc, job, sinkSent, sinkInbox, resets>>

(* The head of the loop of APP_sink.  An entry stamped in the millisecond  *)
(* of the clean-up counts as heard after it.                               *)
SinkCleansUp ==
  /\ sinkPc = "recv"
  /\ LET gone == Entered \ heard
     IN /\ macTable' = remove_ip_mac_entries(macTable, gone)
        /\ evicted' = evicted \cup {<<macTable[i], i>> : i \in gone}
  /\ heard' \in SUBSET heard
  /\ UNCHANGED <<nodeVars, inbox, sinkPc, job, sinkSent, sinkInbox, resets>>

(* A request is acknowledged, and IP_issue_ip starts if an address is free.*)
SinkTakesRequest ==
  /\ sinkPc = "recv"
  /\ ReadsSink
  /\ LET f  == Head(sinkInbox)
         ip == find_free_ip(macTable)
     IN /\ f.kind = "request"
        /\ TransmitToNode(f.src, Ack)
        /\ IF ip = None
           THEN UNCHANGED <<sinkPc, job>>
           ELSE /\ sinkPc' = "issue"
                /\ job' = [mac |-> f.src, ip |-> ip, retries |-> 0]
  /\ UNCHANGED <<nodeVars, macTable, heard, sinkSent, history>>

IsApplication(f) ==
  /\ ResolvesMac(macTable, f.src)
  /\ ResolvesIp(macTable, f.from)
  /\ macTable[f.from] = f.src
  /\ f.to = SinkIp

(* An application message: data is logged, a request for the time answered.*)
SinkTakesApplication ==
  /\ sinkPc = "recv"
  /\ ReadsSink
  /\ LET f == Head(sinkInbox)
     IN /\ f.kind # "request"
        /\ IsApplication(f)
        /\ TransmitToNode(f.src, Ack)
        /\ heard' = heard \cup {f.from}
        /\ IF f.kind = "S"
           THEN /\ sinkPc' = "answer"
                /\ job' = [mac |-> f.src, ip |-> f.from, retries |-> 0]
           ELSE UNCHANGED <<sinkPc, job>>
  /\ UNCHANGED <<nodeVars, macTable, sinkSent, history>>

(* Whatever else is for the sink is acknowledged first and discarded then, *)
(* acks and the messages of discarded nodes included.                      *)
SinkTakesInvalid ==
  /\ sinkPc = "recv"
  /\ ReadsSink
  /\ LET f == Head(sinkInbox)
     IN /\ f.kind # "request"
        /\ ~IsApplication(f)
        /\ TransmitToNode(f.src, Ack)
  /\ UNCHANGED <<nodeVars, sinkVars, history>>

EndJob ==
  /\ sinkPc' = "recv"
  /\ job' = NoJob
  /\ sinkSent' = 0

(* Mutant: an issue whose sends have all failed leaves no entry.           *)
NoEntryIfNotSent ==
  /\ EndJob
  /\ UNCHANGED <<macTable, heard>>

(* The entry is made after the sends, whatever became of them.             *)
EndIssue ==
  /\ macTable' = add_ip_mac_entry(macTable, job.ip, job.mac)
  /\ heard' = heard \cup {job.ip}
  /\ EndJob

(* The end of an issue whose sends have all failed: IP_MAX_ISSUE_RETRIES   *)
(* is less than the constant that ip.c:71 compares with.                   *)
EndUnsentIssue == EndIssue

SinkFails ==
  \/ sinkPc = "answer" /\ EndJob /\ UNCHANGED <<macTable, heard>>
  \/ /\ sinkPc = "issue" /\ job.retries + 1 < IP_MAX_ISSUE_RETRIES
     /\ job' = [job EXCEPT !.retries = @ + 1]
     /\ sinkSent' = 0
     /\ UNCHANGED <<sinkPc, macTable, heard>>
  \/ /\ sinkPc = "issue" /\ job.retries + 1 >= IP_MAX_ISSUE_RETRIES
     /\ EndUnsentIssue

(* A transmission of the MAC_send_data of an issue or an answer.           *)
SinkTransmits ==
  /\ sinkPc \in {"issue", "answer"}
  /\ TransmitToNode(job.mac,
       [kind |-> IF sinkPc = "issue" THEN "issue" ELSE "time",
        from |-> SinkIp, to |-> job.ip])
  /\ IF sinkSent + 1 < MAC_MAX_RETRIES
     THEN /\ sinkSent' = sinkSent + 1
          /\ UNCHANGED <<macTable, heard, sinkPc, job>>
     ELSE SinkFails
  /\ UNCHANGED <<nodeVars, sinkInbox, history>>

IsAckOfJob(f) == f.kind = "ack" /\ f.src = job.mac

SinkAcked ==
  /\ sinkSent > 0
  /\ ReadsSink
  /\ IsAckOfJob(Head(sinkInbox))
  /\ IF sinkPc = "issue"
     THEN EndIssue
     ELSE EndJob /\ UNCHANGED <<macTable, heard>>
  /\ UNCHANGED <<nodeVars, inbox, history>>

SinkDropsInsteadOfAck ==
  /\ sinkSent > 0
  /\ ReadsSink
  /\ ~IsAckOfJob(Head(sinkInbox))
  /\ UNCHANGED <<nodeVars, inbox, sinkVars, history>>

(* The sink starts again with an empty table; what its nodes hold is no    *)
(* longer on record.                                                       *)
SinkReset ==
  /\ resets < MaxReset
  /\ resets' = resets + 1
  /\ macTable' = init_trans_table
  /\ heard' = {}
  /\ EndJob
  /\ sinkInbox' = <<>>
  /\ evicted' = evicted \cup {<<macTable[i], i>> : i \in Entered}
                  \cup (IF sinkPc = "issue" THEN {<<job.mac, job.ip>>} ELSE {})
  /\ UNCHANGED <<nodeVars, inbox>>
-----------------------------------------------------------------------------
Node(n) ==
  \/ NodeTransmits(n)
  \/ NodeAcked(n)
  \/ NodeDropsInsteadOfAck(n)
  \/ NodeTakesAddress(n)
  \/ NodeTakesAnswer(n)
  \/ NodeHearsNothing(n)

Sink ==
  \/ SinkCleansUp
  \/ SinkTakesRequest
  \/ SinkTakesApplication
  \/ SinkTakesInvalid
  \/ SinkTransmits
  \/ SinkAcked
  \/ SinkDropsInsteadOfAck

Next ==
  \/ \E n \in Mac : Node(n) \/ NodeReset(n)
  \/ Sink
  \/ SinkReset

Spec == Init /\ [][Next]_vars

(* Every wait of the MAC layer is bounded by systime.                      *)
FairSpec ==
  /\ Spec
  /\ \A n \in Mac : WF_vars(NodeTransmits(n)) /\ WF_vars(NodeHearsNothing(n))
  /\ WF_vars(SinkTransmits)
-----------------------------------------------------------------------------
(* Properties. *)

Holds(n, i) == my_ip[n] = i /\ <<n, i>> \notin evicted

(* Two nodes have the same address only after the sink has discarded one   *)
(* of them, or lost its table: an address may have reached a node although *)
(* no ack came back, and must not be given to another one then.            *)
UniqueUntilEvicted ==
  \A m, n \in Mac : \A i \in Pool :
    m # n => ~(Holds(m, i) /\ Holds(n, i))

(* The system time is only taken from an answer to 'S'.  A copy of the     *)
(* frame that issued the address has the same header and zeros for its     *)
(* payload, which would make the period 0 and the slot a remainder of 0.   *)
(* What keeps such copies away from the node is that the radio delivers in *)
(* order and that the sink sends them all before its next ack.             *)
SyncFromAnswer ==
  [][\A n \in Mac :
       pc[n] = "answer" /\ pc'[n] = "data" /\ Holds(n, my_ip[n]) =>
         Head(inbox[n]).kind = "time"]_vars

(* A node that asks for an address ends up sending data or halts, also     *)
(* when it and the sink keep sending to each other and neither listens.    *)
JoinEnds ==
  \A n \in Mac : pc[n] = "request" ~> pc[n] \in {"data", "stopped"}
-----------------------------------------------------------------------------
Unread(n) == {inbox[n][k] : k \in DOMAIN inbox[n]}

(* The network implements the register of module Registry.  An address     *)
(* belongs to a node from the moment it is chosen, before the entry is     *)
(* made, and is coming to it while the sink sends and frames are unread.   *)
Owner ==
  [i \in Pool |->
     IF sinkPc = "issue" /\ job.ip = i THEN job.mac ELSE macTable[i]]

Telling(n, i) == sinkPc # "recv" /\ job.mac = n /\ job.ip = i
ComesTo(n, i) == Telling(n, i) \/ \E f \in Unread(n) : f.to = i
Coming == {p \in Mac \X Pool : ComesTo(p[1], p[2])}

Registration == INSTANCE Registry WITH
  Board <- Mac, Address <- Pool, Nobody <- NullMac,
  owner <- Owner, held <- my_ip, coming <- Coming, revoked <- evicted

(* Whatever is lost, late or restarted, the nodes and the sink only do     *)
(* what the register allows.                                               *)
RegistrySpec == Registration!Spec
-----------------------------------------------------------------------------
(* The inductive invariant behind UniqueUntilEvicted. *)

(* The address is spoken for: the sink has the node in its table, is about *)
(* to enter it, or has discarded it since the node started.                *)
OnRecord(n, i) ==
  \/ macTable[i] = n
  \/ sinkPc = "issue" /\ job.mac = n /\ job.ip = i
  \/ <<n, i>> \in evicted

(* Held and on its way: an issue that nobody acknowledged counts.          *)
HeldOnRecord ==
  \A n \in Mac :
    /\ my_ip[n] \in Pool => OnRecord(n, my_ip[n])
    /\ \A f \in Unread(n) : f.to \in Pool => OnRecord(n, f.to)

(* What the sink sends is for an address it has just found free, or for    *)
(* the holder of one.                                                      *)
JobOnRecord ==
  /\ sinkPc \in {"issue", "answer"} => job \in Job
  /\ sinkPc = "issue" => macTable[job.ip] = NullMac
  /\ sinkPc = "answer" => macTable[job.ip] = job.mac

(* A frame without an IP header never passes for one of a holder.          *)
NoHolderBelowPool ==
  /\ macTable[Unset] = NullMac /\ macTable[SinkIp] = NullMac
  /\ \A i \in Pool : macTable[i] \in Mac \cup {NullMac}

(* No step of a node, of the sink or of the air, and no reset, breaks the  *)
(* parts: an address that has left the sink stays on record.               *)
RecordInv ==
  /\ TypeOK
  /\ HeldOnRecord
  /\ JobOnRecord
  /\ NoHolderBelowPool

(* What SyncFromAnswer rests on besides: the order of the unread frames.   *)
AckAt(n, k) == k \in DOMAIN inbox[n] /\ inbox[n][k].kind = "ack"
SentAt(n, k, i) == k \in DOMAIN inbox[n] /\ inbox[n][k].to = i
CopyAt(n, k, i) == SentAt(n, k, i) /\ inbox[n][k].kind = "issue"

Issuing(n, i) == sinkPc = "issue" /\ job.mac = n /\ job.ip = i

(* The ack was sent before anything that told the node of address i.       *)
BeforeNews(n, k, i) ==
  /\ my_ip[n] # i
  /\ \A j \in DOMAIN inbox[n] : SentAt(n, j, i) => k < j

(* The copies of an issue come together: no ack is between two of them, or *)
(* between one and the issue still going on, and a node that has its       *)
(* address from one of them and has read an ack since has seen the last.   *)
IssuedTogether(n, i) ==
  /\ \A k, l \in DOMAIN inbox[n] :
       AckAt(n, k) /\ CopyAt(n, l, i) /\ k < l => BeforeNews(n, k, i)
  /\ Issuing(n, i) =>
       \A k \in DOMAIN inbox[n] : AckAt(n, k) => BeforeNews(n, k, i)
  /\ my_ip[n] = i /\ pc[n] = "answer" =>
       ~Issuing(n, i) /\ \A l \in DOMAIN inbox[n] : ~CopyAt(n, l, i)

CopiesBeforeAcks ==
  \A n \in Mac : \A i \in Pool :
    <<n, i>> \notin evicted => IssuedTogether(n, i)

IInv == RecordInv /\ CopiesBeforeAcks
-----------------------------------------------------------------------------
(* What the documentation says and the code does not do. *)

(* README.md:27: x is a unique number for each node.                       *)
AddressUnique ==
  \A m, n \in Mac :
    m # n /\ pc[m] = "data" /\ pc[n] = "data" => my_ip[m] # my_ip[n]

(* README.md:30: the node receives the assigned IP from the sink.          *)
AddressIsAssigned ==
  \A n \in Mac : pc[n] \in {"sync", "answer", "data"} => my_ip[n] \in Pool
=============================================================================
