----------------------------- MODULE BoardTests -----------------------------
(***************************************************************************)
(* The test loops of application.c that two boards run against each other,  *)
(* on top of Link: APP_mac_layer_test_sender with _reciever, and            *)
(* APP_ip_layer_test_sender with _reciever.  Every call of the MAC layer is *)
(* the action of Link; this module adds what the loops do between calls and *)
(* what they print.  The boards have been set up: the sender of the IP test *)
(* has its address, so the tables of both resolve the peer.                 *)
(***************************************************************************)
EXTENDS Link

CONSTANTS
  tester,  \* the board of the sender
  target,  \* the board of the receiver, in the IP test the sink
  MaxSent  \* calls of MAC_send_data of the sender

(* MaxCall leaves room for an answer to every copy of a greeting.          *)
ASSUME BoardTestsAssumption ==
  /\ tester # target
  /\ Station = {tester, target}
  /\ MaxSent \in Nat
  /\ MaxSent * MAC_MAX_RETRIES <= MaxCall

VARIABLES
  at,        \* the call the loop of each board makes next, or is in
  number,    \* data of the MAC test, sendData[6] of the IP test
  said,      \* said[s][c]: the number in the payload of call c of s
  got,       \* the frame the last MAC_recv_data handed up, or NoFrame
  heard,     \* the last number the receiver printed, -1 before
  answered,  \* the number in the last answer that came up, -1 before
  source,    \* whose address is in srcFromRecentlySentData
  recvData,  \* what it points to: nothing defined, or the received payload
  printed    \* the number in the last message the sender printed, -1 before

answer == <<answered, source, recvData, printed>>
test == <<at, number, said, got, heard, answer>>
allVars == <<vars, test>>

Number == 0 .. MaxSent

TestTypeOK ==
  /\ TypeOK
  /\ at \in [Station -> {"broadcast", "target", "hello", "sent", "back", "recv",
                     "answer", "fault"}]
  /\ number \in Number
  /\ said \in [Station -> [Call -> Number]]
  /\ got \in [Station -> Frame \cup {NoFrame}]
  /\ heard \in Number \cup {-1}
  /\ answered \in Number \cup {-1}
  /\ source \in {"gateway", "other"}
  /\ recvData \in {"stack", "payload"}
  /\ printed \in Number \cup {-1}

(* The boards run one test or the other.  APP_ip_layer_test_sender does    *)
(* not initialise srcFromRecentlySentData, and the stack may hold anything. *)
TestInit ==
  /\ Init
  /\ \E first \in {"broadcast", "hello"} :
       at = [s \in Station |-> IF s = tester THEN first ELSE "recv"]
  /\ number = 0
  /\ said = [s \in Station |-> [c \in Call |-> 0]]
  /\ got = [s \in Station |-> NoFrame]
  /\ heard = -1
  /\ answered = -1
  /\ source \in {"gateway", "other"} /\ recvData = "stack"
  /\ printed = -1

InMacTest == at[tester] \in {"broadcast", "target"}

(* The loops of the MAC layer while a call goes on.                        *)
InCall(s) ==
  /\ \/ AckReceived(s)
     \/ DropInsteadOfAck(s)
     \/ AckTimeout(s)
     \/ TakeFrame(s)
     \/ IgnoreBroadcast(s)
     \/ RecvTimeout(s)
     \/ RecvError(s)
  /\ UNCHANGED test

(* MAC_recv_data hands the frame up with its ack.                          *)
HandsUp(s) ==
  /\ MAC_send_ack(s)
  /\ got' = [got EXCEPT ![s] = frame[s]]
  /\ UNCHANGED <<at, number, said, heard, answer>>

(* The call of MAC_recv_data at the top of a loop; acceptBroadcast is      *)
(* FALSE in the role of a node.                                            *)
Listens(s, acceptBroadcast) ==
  /\ at[s] = "recv"
  /\ got[s] = NoFrame
  /\ MAC_recv_data(s, acceptBroadcast)
  /\ UNCHANGED test

Sends(s, d, n) ==
  /\ MAC_send_data(s, d)
  /\ said' = [said EXCEPT ![s][data[s] + 1] = n]

(* IP_send_data.  The tables of both boards resolve the peer, so all that  *)
(* is left of it is the header, the number and MAC_send_data.              *)
IP_send_data(s, d, n) == Sends(s, d, n)

Says(s, f) == f.src = s /\ f.data \in Call
-----------------------------------------------------------------------------
(* APP_mac_layer_test_sender: the number to everybody, then to the target, *)
(* and the next number whatever the two calls returned.                    *)
SendsToBroadcast ==
  /\ at[tester] = "broadcast"
  /\ data[tester] < MaxSent
  /\ Sends(tester, BroadcastMac, number)
  /\ at' = [at EXCEPT ![tester] = "target"]
  /\ UNCHANGED <<number, got, heard, answer>>

SendsToTarget ==
  /\ at[tester] = "target"
  /\ data[tester] < MaxSent
  /\ Sends(tester, target, number)
  /\ number' = number + 1
  /\ at' = [at EXCEPT ![tester] = "broadcast"]
  /\ UNCHANGED <<got, heard, answer>>

(* APP_mac_layer_test_reciever prints data[0] of whatever comes.           *)
PrintsData ==
  /\ InMacTest
  /\ pc[target] = "idle"
  /\ got[target] # NoFrame
  /\ heard' = said[tester][got[target].data]
  /\ got' = [got EXCEPT ![target] = NoFrame]
  /\ UNCHANGED <<vars, at, number, said, answer>>

MacTest == SendsToBroadcast \/ SendsToTarget \/ PrintsData
-----------------------------------------------------------------------------
(* APP_ip_layer_test_sender: a greeting with the number, which counts the  *)
(* greetings that IP_send_data reported as sent.                           *)
SendsHello ==
  /\ at[tester] = "hello"
  /\ data[tester] < MaxSent
  /\ IP_send_data(tester, target, number)
  /\ at' = [at EXCEPT ![tester] = "sent"]
  /\ UNCHANGED <<number, got, heard, answer>>

HelloFails ==
  /\ at[tester] = "sent"
  /\ pc[tester] = "idle"
  /\ result[tester] = "fail"
  /\ at' = [at EXCEPT ![tester] = "hello"]
  /\ UNCHANGED <<vars, number, said, got, heard, answer>>

(* Mutant: the number would go on after the answer only.                   *)
HelloSentUncounted ==
  /\ at[tester] = "sent"
  /\ result[tester] = "success"
  /\ MAC_recv_data(tester, FALSE)
  /\ at' = [at EXCEPT ![tester] = "back"]
  /\ UNCHANGED <<number, said, got, heard, answer>>

(* ... and IP_recv_data for 100 ms.                                        *)
HelloSent ==
  /\ at[tester] = "sent"
  /\ result[tester] = "success"
  /\ MAC_recv_data(tester, FALSE)
  /\ number' = number + 1
  /\ at' = [at EXCEPT ![tester] = "back"]
  /\ UNCHANGED <<said, got, heard, answer>>

IP_recv_data_returns ==
  /\ at[tester] = "back"
  /\ pc[tester] = "idle"
  /\ got' = [got EXCEPT ![tester] = NoFrame]
  /\ UNCHANGED <<vars, number, said, heard>>

(* An answer comes up and is printed.                                      *)
PrintsAnswer ==
  /\ IP_recv_data_returns
  /\ Says(target, got[tester])
  /\ answered' = said[target][got[tester].data]
  /\ printed' = answered'
  /\ source' = "gateway" /\ recvData' = "payload"
  /\ at' = [at EXCEPT ![tester] = "hello"]

(* An ack is no message: the first letters of it were taken for an address. *)
ParsesAck ==
  /\ IP_recv_data_returns
  /\ got[tester] # NoFrame /\ got[tester].data = Ack
  /\ source' = "other" /\ recvData' = "payload"
  /\ at' = [at EXCEPT ![tester] = "hello"]
  /\ UNCHANGED <<answered, printed>>

(* Nothing has come.  IP_MSG_NO_MSG is not 0, so the test goes on with the  *)
(* source of an earlier message, and prints what recvData points to: the   *)
(* buffer that was cleared to receive, or whatever the stack made of it,   *)
(* and that may be no memory.                                              *)
PrintsNothing ==
  /\ IP_recv_data_returns
  /\ got[tester] = NoFrame
  /\ \/ /\ source = "other" /\ UNCHANGED printed
        /\ at' = [at EXCEPT ![tester] = "hello"]
     \/ /\ source = "gateway" /\ recvData = "payload" /\ printed' = 0
        /\ at' = [at EXCEPT ![tester] = "hello"]
     \/ /\ source = "gateway" /\ recvData = "stack"
        /\ \/ printed' \in Number /\ at' = [at EXCEPT ![tester] = "hello"]
           \/ UNCHANGED printed /\ at' = [at EXCEPT ![tester] = "fault"]
  /\ UNCHANGED <<answered, source, recvData>>

RecvReturns == PrintsAnswer \/ ParsesAck \/ PrintsNothing

(* APP_ip_layer_test_reciever: a greeting is printed and answered, an ack  *)
(* is an IP_MSG_INVALID.                                                   *)
PrintsHello ==
  /\ ~InMacTest
  /\ at[target] = "recv"
  /\ pc[target] = "idle"
  /\ Says(tester, got[target])
  /\ heard' = said[tester][got[target].data]
  /\ got' = [got EXCEPT ![target] = NoFrame]
  /\ at' = [at EXCEPT ![target] = "answer"]
  /\ UNCHANGED <<vars, number, said, answer>>

Invalid ==
  /\ ~InMacTest
  /\ pc[target] = "idle"
  /\ got[target].data = Ack
  /\ got[target] # NoFrame
  /\ got' = [got EXCEPT ![target] = NoFrame]
  /\ UNCHANGED <<vars, at, number, said, heard, answer>>

SendsAnswer ==
  /\ at[target] = "answer"
  /\ IP_send_data(target, tester, heard)
  /\ at' = [at EXCEPT ![target] = "recv"]
  /\ UNCHANGED <<number, got, heard, answer>>

IpTest ==
  \/ SendsHello
  \/ HelloFails
  \/ HelloSent
  \/ RecvReturns
  \/ PrintsHello
  \/ Invalid
  \/ SendsAnswer
-----------------------------------------------------------------------------
TestNext ==
  \/ MacTest
  \/ IpTest
  \/ Listens(target, TRUE)
  \/ \E s \in Station : InCall(s) \/ HandsUp(s)

SenderGoes ==
  \/ SendsToBroadcast \/ SendsToTarget
  \/ SendsHello \/ HelloFails \/ HelloSent \/ RecvReturns

ReceiverGoes == PrintsData \/ PrintsHello \/ Invalid \/ SendsAnswer

(* As in Link, systime ends the loops of the calls; the loops around the   *)
(* calls never wait for anything.                                          *)
Goes ==
  /\ \A s \in Station :
       /\ WF_allVars((AckTimeout(s) \/ RecvTimeout(s)) /\ UNCHANGED test)
       /\ WF_allVars(HandsUp(s))
  /\ WF_allVars(SenderGoes)
  /\ WF_allVars(ReceiverGoes)

TestSpec == TestInit /\ [][TestNext]_allVars /\ Goes
-----------------------------------------------------------------------------
(* Properties. *)

(* The receiver never prints a number smaller than one it printed before,  *)
(* although every frame may come MAC_MAX_RETRIES times.                    *)
NumbersInOrder == [][heard' >= heard]_allVars

(* An answer may be late, but the numbers of the answers that IP_recv_data *)
(* hands up never go back, and each is of a greeting that was reported as  *)
(* sent.  What is printed is not always an answer (Sources).               *)
AnswersFollow == [][answered' >= answered /\ answered' < number']_allVars

(* Neither board is stuck in a call or between two of them, even when each *)
(* waits for an ack and drops what the other sends: the sender is back at  *)
(* a send of its loop again and again, if it has not read from where there *)
(* is no memory.                                                           *)
TestGoesOn ==
  []<>(pc[tester] = "idle"
         /\ at[tester] \in {"broadcast", "target", "hello", "fault"})
-----------------------------------------------------------------------------
(* The inductive invariant behind NumbersInOrder and AnswersFollow, next   *)
(* to IInv and CopiesInv of Link.                                          *)

(* No board hears itself, and a call whose payload it holds was handed up. *)
FromPeer ==
  \A s \in Station :
    /\ \A f \in Unread(s) : f.src # s
    /\ pc[s] = "ack" => frame[s].src # s
    /\ got[s] # NoFrame =>
         got[s].src # s /\ (got[s].data = Ack \/ Had(s, got[s].src, got[s].data))

(* The sender of the MAC test never listens, so the receiver gets no acks. *)
AllData ==
  InMacTest =>
    /\ pc[tester] \in {"idle", "wait"}
    /\ \A f \in Unread(target) : f.data # Ack
    /\ pc[target] = "ack" => frame[target].data # Ack
    /\ got[target] # NoFrame => got[target].data # Ack

(* The numbers in the calls of s, in order and none above the bound.       *)
SaidInOrder(s, bound) ==
  \A c \in Call : c <= data[s] =>
    /\ said[s][c] <= bound
    /\ \A e \in Call : e <= c => said[s][e] <= said[s][c]

Numbering ==
  /\ number <= data[tester] /\ data[tester] <= MaxSent
  /\ at[tester] = "sent" => number < data[tester]
  /\ SaidInOrder(tester, IF at[tester] = "back" THEN number - 1 ELSE number)
  /\ SaidInOrder(target, heard)
  /\ at[target] = "answer" => heard # -1

(* What r printed last was handed up before what it holds now.             *)
PrintedFrom(r, s, n) ==
  \E c \in Call :
    /\ Had(r, s, c)
    /\ n = said[s][c]
    /\ Says(s, got[r]) => c <= got[r].data

Printed ==
  /\ heard # -1 => PrintedFrom(target, tester, heard)
  /\ answered # -1 => PrintedFrom(tester, target, answered)
  /\ answered < number

(* Only a message of the sink makes its address the source of the received *)
(* payload; from then on what is printed is that message or an empty one.  *)
Sources ==
  /\ source = "gateway" /\ recvData = "payload" => answered # -1
  /\ answered # -1 => recvData = "payload" /\ printed \in {0, answered}

(* The parts hold together, and no step of a loop or of a call breaks them *)
(* while copies of a payload neither appear from nowhere nor overtake.     *)
TestInv ==
  /\ TestTypeOK
  /\ FromPeer
  /\ AllData
  /\ Numbering
  /\ Printed
  /\ Sources
=============================================================================
