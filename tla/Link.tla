-------------------------------- MODULE Link --------------------------------
(***************************************************************************)
(* The MAC layer (mac.c, the same file in both trees): MAC_send_data, which *)
(* sends a frame again and again until an acknowledgement arrives, and      *)
(* MAC_recv_data, which acknowledges what it hands up.  A station runs one  *)
(* of the two at a time, and which one is up to the layers above.           *)
(*                                                                          *)
(* A frame has no sequence number and an acknowledgement does not say what  *)
(* it acknowledges.  The model numbers the calls of MAC_send_data of each   *)
(* station to tell payloads apart; nothing the code does depends on the     *)
(* number.  The air delivers a frame to any of the stations it is addressed *)
(* to; what a station has not read waits, in order, in the radio processor, *)
(* which drops frames when it is full.  A frame for another station, which  *)
(* the code reads and ignores, is left out.                                 *)
(***************************************************************************)
EXTENDS Integers, Sequences, FiniteSets

CONSTANTS
  Station,          \* MAC addresses of the boards
  BroadcastMac,     \* six 0xff bytes
  MAC_MAX_RETRIES,  \* transmissions of one MAC_send_data: 10
  INBOX,            \* frames the radio processor holds
  MaxCall           \* calls of MAC_send_data per station

ASSUME LinkAssumption ==
  /\ BroadcastMac \notin Station
  /\ MAC_MAX_RETRIES \in Nat \ {0}
  /\ INBOX \in Nat
  /\ MaxCall \in Nat

Ack == 0
Call == 1 .. MaxCall
Destination == Station \cup {BroadcastMac}

(* data is Ack or the number of the call that composed the payload.        *)
Frame == [src : Station, dst : Destination, data : Call \cup {Ack}]

VARIABLES
  inbox,    \* frames received and not read yet
  open,     \* MAC_sd is an open socket
  pc,       \* where the station is: in no call, or in which loop
  dst,      \* destMac of the last MAC_send_data
  data,     \* number of the last MAC_send_data, 0 before the first
  retries,  \* its local of that name, 0 after it returned
  result,   \* what it returned
  frame,    \* the frame MAC_recv_data is acknowledging
  handed,   \* handed[r][s][c]: times r handed up the payload of s's call c
  quiet     \* the last MAC_send_data started with nothing of it around

vars == <<inbox, open, pc, dst, data, retries, result, frame, handed,
          quiet>>

NoFrame == [src |-> BroadcastMac, dst |-> BroadcastMac, data |-> Ack]

TypeOK ==
  /\ inbox \in [Station -> Seq(Frame)]
  /\ open \in [Station -> BOOLEAN]
  /\ pc \in [Station -> {"idle", "wait", "recv", "recvAny", "ack"}]
  /\ dst \in [Station -> Destination]
  /\ data \in [Station -> Call \cup {0}]
  /\ retries \in [Station -> 0 .. MAC_MAX_RETRIES - 1]
  /\ result \in [Station -> {"none", "success", "fail"}]
  /\ frame \in [Station -> Frame \cup {NoFrame}]
  /\ handed \in [Station -> [Station -> [Call -> Nat]]]
  /\ quiet \in [Station -> BOOLEAN]

(* MAC_init has opened the socket.                                         *)
Init ==
  /\ inbox = [s \in Station |-> <<>>]
  /\ open = [s \in Station |-> TRUE]
  /\ pc = [s \in Station |-> "idle"]
  /\ dst = [s \in Station |-> BroadcastMac]
  /\ data = [s \in Station |-> 0]
  /\ retries = [s \in Station |-> 0]
  /\ result = [s \in Station |-> "none"]
  /\ frame = [s \in Station |-> NoFrame]
  /\ handed = [r \in Station |-> [s \in Station |-> [c \in Call |-> 0]]]
  /\ quiet = [s \in Station |-> FALSE]
-----------------------------------------------------------------------------
(* The stations that can receive f from s.                                 *)
Hearers(s, f) ==
  {r \in Station \ {s} :
     open[s] /\ open[r] /\ f.dst \in {r, BroadcastMac} /\ Len(inbox[r]) < INBOX}

(* Mutant: a receiver reads the newest frame first.                        *)
TransmitNewestFirst(s, f) ==
  \E R \in SUBSET Hearers(s, f) :
    inbox' = [r \in Station |->
                IF r \in R THEN <<f>> \o inbox[r] ELSE inbox[r]]

(* MAC_send_payload_using_socket: some of them do.  An error of sl_Send is *)
(* ignored by every caller, so it is a frame that nobody hears.            *)
Transmit(s, f) ==
  \E R \in SUBSET Hearers(s, f) :
    inbox' = [r \in Station |->
                IF r \in R THEN Append(inbox[r], f) ELSE inbox[r]]

(* MAC_recv_payload_using_socket, when there is a frame.                   *)
Reads(s) == open[s] /\ inbox[s] # <<>>
Read(s) == inbox' = [inbox EXCEPT ![s] = Tail(@)]

(* Mutant: one transmission too many.                                      *)
CountTransmissionOneMore(s, n) ==
  IF n <= MAC_MAX_RETRIES
  THEN /\ pc' = [pc EXCEPT ![s] = "wait"]
       /\ retries' = [retries EXCEPT ![s] = n]
       /\ result' = [result EXCEPT ![s] = "none"]
  ELSE /\ pc' = [pc EXCEPT ![s] = "idle"]
       /\ retries' = [retries EXCEPT ![s] = 0]
       /\ result' = [result EXCEPT ![s] = "fail"]

(* The end of an iteration of the loop of MAC_send_data: another frame is  *)
(* out, and the last one is not waited for.                                *)
CountTransmission(s, n) ==
  IF n < MAC_MAX_RETRIES
  THEN /\ pc' = [pc EXCEPT ![s] = "wait"]
       /\ retries' = [retries EXCEPT ![s] = n]
       /\ result' = [result EXCEPT ![s] = "none"]
  ELSE /\ pc' = [pc EXCEPT ![s] = "idle"]
       /\ retries' = [retries EXCEPT ![s] = 0]
       /\ result' = [result EXCEPT ![s] = "fail"]

Unread(r) == {inbox[r][i] : i \in DOMAIN inbox[r]}

(* No frame of s is unread or being acknowledged, no ack waits for s.      *)
NothingAround(s) ==
  /\ \A r \in Station : /\ \A f \in Unread(r) : f.src # s
                        /\ pc[r] = "ack" => frame[r].src # s
  /\ \A f \in Unread(s) : f.data # Ack

(* MAC_send_data(d, ...) up to the end of its first iteration.             *)
MAC_send_data(s, d) ==
  /\ pc[s] = "idle"
  /\ data[s] < MaxCall
  /\ data' = [data EXCEPT ![s] = @ + 1]
  /\ dst' = [dst EXCEPT ![s] = d]
  /\ Transmit(s, [src |-> s, dst |-> d, data |-> data[s] + 1])
  /\ CountTransmission(s, 1)
  /\ quiet' = [quiet EXCEPT ![s] = NothingAround(s)]
  /\ UNCHANGED <<open, frame, handed>>

(* Mutant: any frame for this station counts as the ack.                   *)
IsAnyFrameFor(s, f) == f.dst = s /\ dst[s] \in {f.src, BroadcastMac}

(* MAC_recv_ack takes any ack when the frame was a broadcast.              *)
IsAckFor(s, f) ==
  f.dst = s /\ f.data = Ack /\ dst[s] \in {f.src, BroadcastMac}

AckReceived(s) ==
  /\ pc[s] = "wait"
  /\ Reads(s)
  /\ IsAckFor(s, Head(inbox[s]))
  /\ Read(s)
  /\ pc' = [pc EXCEPT ![s] = "idle"]
  /\ result' = [result EXCEPT ![s] = "success"]
  /\ retries' = [retries EXCEPT ![s] = 0]
  /\ UNCHANGED <<open, dst, data, frame, handed, quiet>>

(* Whatever else arrives while MAC_recv_ack waits is lost, data for this   *)
(* station included, and is not acknowledged.                              *)
DropInsteadOfAck(s) ==
  /\ pc[s] = "wait"
  /\ Reads(s)
  /\ ~IsAckFor(s, Head(inbox[s]))
  /\ Read(s)
  /\ UNCHANGED <<open, pc, dst, data, retries, result, frame, handed,
                 quiet>>

(* Mutant: retries is not incremented.                                     *)
AckTimeoutUncounted(s) ==
  /\ pc[s] = "wait"
  /\ Transmit(s, [src |-> s, dst |-> dst[s], data |-> data[s]])
  /\ CountTransmission(s, retries[s])
  /\ UNCHANGED <<open, dst, data, frame, handed, quiet>>

(* MAC_ACK_NOT_RECIEVED, and the next iteration.                           *)
AckTimeout(s) ==
  /\ pc[s] = "wait"
  /\ Transmit(s, [src |-> s, dst |-> dst[s], data |-> data[s]])
  /\ CountTransmission(s, retries[s] + 1)
  /\ UNCHANGED <<open, dst, data, frame, handed, quiet>>
-----------------------------------------------------------------------------
(* With MAC_IGNORE_BROADCAST and with MAC_ACCEPT_BROADCAST.                *)
MAC_recv_data(s, acceptBroadcast) ==
  /\ pc[s] = "idle"
  /\ pc' = [pc EXCEPT ![s] = IF acceptBroadcast THEN "recvAny" ELSE "recv"]
  /\ UNCHANGED <<inbox, open, dst, data, retries, result, frame, handed, quiet>>

(* MAC_MSG_ME, an ack too, or a broadcast that is not ignored.             *)
Accepts(s, f) == f.dst = s \/ (f.dst = BroadcastMac /\ pc[s] = "recvAny")

Receiving(s) == pc[s] \in {"recv", "recvAny"}

TakeFrame(s) ==
  /\ Receiving(s)
  /\ Reads(s)
  /\ Accepts(s, Head(inbox[s]))
  /\ Read(s)
  /\ frame' = [frame EXCEPT ![s] = Head(inbox[s])]
  /\ pc' = [pc EXCEPT ![s] = "ack"]
  /\ UNCHANGED <<open, dst, data, retries, result, handed, quiet>>

(* MAC_send_ack, and the frame goes up.                                    *)
MAC_send_ack(s) ==
  /\ pc[s] = "ack"
  /\ Transmit(s, [src |-> s, dst |-> frame[s].src, data |-> Ack])
  /\ IF frame[s].data = Ack
     THEN UNCHANGED handed
     ELSE handed' = [handed EXCEPT ![s][frame[s].src][frame[s].data] = @ + 1]
  /\ frame' = [frame EXCEPT ![s] = NoFrame]
  /\ pc' = [pc EXCEPT ![s] = "idle"]
  /\ UNCHANGED <<open, dst, data, retries, result, quiet>>

IgnoreBroadcast(s) ==
  /\ Receiving(s)
  /\ Reads(s)
  /\ ~Accepts(s, Head(inbox[s]))
  /\ Read(s)
  /\ UNCHANGED <<open, pc, dst, data, retries, result, frame, handed,
                 quiet>>

RecvTimeout(s) ==
  /\ Receiving(s)
  /\ pc' = [pc EXCEPT ![s] = "idle"]
  /\ UNCHANGED <<inbox, open, dst, data, retries, result, frame, handed,
                 quiet>>

(* sl_Recv fails.  The socket is closed and never opened again, and the    *)
(* callers, which look only for frames, go on as if nothing had come.      *)
RecvError(s) ==
  /\ pc[s] = "wait" \/ Receiving(s)
  /\ open[s]
  /\ open' = [open EXCEPT ![s] = FALSE]
  /\ inbox' = [inbox EXCEPT ![s] = <<>>]
  /\ UNCHANGED <<pc, dst, data, retries, result, frame, handed, quiet>>
-----------------------------------------------------------------------------
Next ==
  \E s \in Station :
    \/ \E d \in Destination \ {s} : MAC_send_data(s, d)
    \/ AckReceived(s)
    \/ DropInsteadOfAck(s)
    \/ AckTimeout(s)
    \/ \E b \in BOOLEAN : MAC_recv_data(s, b)
    \/ TakeFrame(s)
    \/ MAC_send_ack(s)
    \/ IgnoreBroadcast(s)
    \/ RecvTimeout(s)
    \/ RecvError(s)

Spec == Init /\ [][Next]_vars
-----------------------------------------------------------------------------
(* Properties. *)

(* The payload of the last call of s has been handed up where it was sent. *)
Delivered(s) ==
  \E r \in Station : dst[s] \in {r, BroadcastMac} /\ handed[r][s][data[s]] > 0

(* An acknowledgement does not name what it acknowledges.  Still, a call   *)
(* of MAC_send_data that starts when no frame of this station and no ack   *)
(* for it is around reports success only if the payload was handed up at   *)
(* its destination, whatever was lost, repeated or crossed in between.     *)
QuietSuccessIsDelivery ==
  \A s \in Station : result[s] = "success" /\ quiet[s] => Delivered(s)

(* A receiver does not recognise a repeated frame and hands it up again,   *)
(* but one payload reaches a station at most MAC_MAX_RETRIES times.        *)
BoundedDuplicates ==
  \A r, s \in Station : \A c \in Call : handed[r][s][c] <= MAC_MAX_RETRIES

(* A late copy of a payload is never handed up after a newer payload of    *)
(* the same sender.                                                        *)
InOrder ==
  [][\A r, s \in Station : \A c \in Call :
       handed'[r][s][c] # handed[r][s][c] =>
         \A e \in Call : e > c => handed[r][s][e] = 0]_vars

(* Every MAC_send_data returns: the retries run out even if frames keep    *)
(* arriving, the peer sends at the same time, or the socket is closed.     *)
SendReturns ==
  \A s \in Station : pc[s] = "wait" ~> pc[s] = "idle"
-----------------------------------------------------------------------------
(* The inductive invariant behind QuietSuccessIsDelivery. *)

QuietCall(s) == pc[s] = "wait" /\ quiet[s]

(* What is around of the station is of the call that is going on.          *)
OnlyThisCall ==
  \A s \in Station : QuietCall(s) =>
    \A r \in Station :
      /\ \A f \in Unread(r) : f.src = s => f.data = data[s]
      /\ pc[r] = "ack" /\ frame[r].src = s => frame[r].data = data[s]

(* So the acks that wait for it come from boards that have the payload.    *)
AcksOfThisCall ==
  \A s \in Station : QuietCall(s) =>
    \A f \in Unread(s) : f.data = Ack => handed[f.src][s][data[s]] > 0

(* A board that acknowledges has a frame; one that waits or has succeeded  *)
(* has made a call.                                                        *)
CallState ==
  \A s \in Station :
    /\ pc[s] = "wait" \/ result[s] = "success" => data[s] \in Call
    /\ pc[s] = "ack" => frame[s] \in Frame

(* The parts hold together in every reachable state, and no step breaks    *)
(* them: the loop of MAC_recv_ack may drop frames and the air may lose     *)
(* them, but neither invents an ack.                                       *)
IInv ==
  /\ TypeOK
  /\ CallState
  /\ OnlyThisCall
  /\ AcksOfThisCall
  /\ QuietSuccessIsDelivery
-----------------------------------------------------------------------------
(* The inductive invariant behind BoundedDuplicates and InOrder. *)

(* Where the payload of call c of s stands in a queue of frames.           *)
Places(q, s, c) == {i \in DOMAIN q : q[i].src = s /\ q[i].data = c}

InHand(r, s, c) == pc[r] = "ack" /\ frame[r].src = s /\ frame[r].data = c

(* How often s has sent it so far, or may have sent it.                    *)
TimesSent(s, c) ==
  IF c > data[s] THEN 0
  ELSE IF c = data[s] /\ pc[s] = "wait" THEN retries[s] ELSE MAC_MAX_RETRIES

(* The copies of it that r has had or has.                                 *)
Copies(r, s, c) ==
  handed[r][s][c] + Cardinality(Places(inbox[r], s, c))
    + (IF InHand(r, s, c) THEN 1 ELSE 0)

(* Every one of them has been sent.                                        *)
EveryCopySent ==
  \A r, s \in Station : \A c \in Call : Copies(r, s, c) <= TimesSent(s, c)

Had(r, s, c) == handed[r][s][c] > 0

(* What r has of s is in the order of the calls: first what it has handed  *)
(* up, then the frame in hand, then the unread ones.                       *)
OrderedCalls(r, s) ==
  \A c \in Call :
    /\ Had(r, s, c) \/ InHand(r, s, c)
         => \A e \in Call : Places(inbox[r], s, e) # {} => c <= e
    /\ Had(r, s, c) => \A e \in Call : InHand(r, s, e) => c <= e
    /\ \A e \in Call : \A i \in Places(inbox[r], s, c) :
         \A j \in Places(inbox[r], s, e) : i < j => c <= e
    /\ Had(r, s, c) \/ InHand(r, s, c) \/ Places(inbox[r], s, c) # {}
         => c <= data[s]

CallsInOrder == \A r, s \in Station : OrderedCalls(r, s)

(* Copies of a payload neither appear from nowhere nor overtake a payload  *)
(* of the same sender, whichever frames the air and the loops lose.        *)
CopiesInv == EveryCopySent /\ CallsInOrder

(* The two invariants together.                                            *)
LinkInv == IInv /\ CopiesInv
=============================================================================
