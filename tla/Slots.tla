------------------------------- MODULE Slots -------------------------------
(***************************************************************************)
(* The transmission slots: APP_node (node/application.c) from its request  *)
(* for the system time on, for several nodes whose clocks tick on their    *)
(* own, and the sink's answer with its time.  How a frame travels is       *)
(* module Network's; here an answer is a time stamp that is on its way for *)
(* any time, because the MAC layers send one and the same payload again    *)
(* and the node may be busy when it arrives.                               *)
(*                                                                         *)
(* A busy-wait reads the clock every few microseconds, so the clock does   *)
(* not tick past the condition it waits for.  UART_PRINT and IP_send_data  *)
(* take the milliseconds between a least and a largest number that are     *)
(* constants.  A board that has no system time yet has systime = 0: its    *)
(* own time matters to nothing here.                                       *)
(***************************************************************************)
EXTENDS Integers, FiniteSets

CONSTANTS
  Node,
  Pool,                       \* addresses the sink gives to nodes
  APP_MAX_SYS_REQ_RETRIES,    \* 20
  APP_DEFAULT_PERIOD_IN_MS,   \* 10000
  APP_DEFAULT_TIMESLOT_IN_MS, \* 1000
  RetryMs,                    \* 100: what the node adds for a retry
  FixMs,                      \* 75: what it adds for the last request
  Tolerance,                  \* 1: UTIL_within_tolerance at a period start
  MinPrint, MaxPrint,         \* ms the line "START OF PERIOD" takes
  MinSend, MaxSend,           \* ms from the log line to the end of a send
  Margin,                     \* how far apart the clocks of two nodes may be
  MaxDrift,                   \* ms a node's clock gains or loses (bound)
  MaxAge,                     \* ms an answer is on its way (bound)
  MaxAnswers,                 \* answers on their way to one node (bound)
  MaxTime                     \* largest time of a clock (bound)

Period == APP_DEFAULT_PERIOD_IN_MS
TimeSlot == APP_DEFAULT_TIMESLOT_IN_MS

(* From a period start, or from a slot's offset, to the end of the send.   *)
Width == Tolerance + MaxPrint + MaxSend

ASSUME SlotsAssumption ==
  /\ IsFiniteSet(Node)
  /\ Pool \subseteq Nat
  /\ APP_MAX_SYS_REQ_RETRIES \in Nat \ {0}
  /\ {RetryMs, FixMs, Tolerance, MinPrint, MaxPrint, MinSend, MaxSend,
      Margin, MaxDrift, MaxAge, MaxAnswers, MaxTime} \subseteq Nat
  /\ TimeSlot \in Nat \ {0}
  /\ Period \in Nat
  /\ TimeSlot <= Period
  /\ MinPrint <= MaxPrint /\ MinSend <= MaxSend
  /\ Tolerance < MinPrint + MinSend    \* the log lines outlast the tolerance
  /\ Margin + Width < TimeSlot

slotCount == Period \div TimeSlot

VARIABLES
  sinkTime,   \* systime of the sink
  systime,    \* node -> its systime
  my_ip,      \* node -> its address
  pc,         \* node -> where APP_node is
  retries,    \* node -> failed requests for the system time
  answers,    \* node -> stamps of the answers on their way to it
  last,       \* node -> systime when its present step began
  sentIn,     \* node -> start of the period of its last send
  jump        \* node -> how far its clock was ahead of the sink's when set

vars == <<sinkTime, systime, my_ip, pc, retries, answers, last, sentIn, jump>>

NoPeriod == -1
Timed == {"align", "print", "offset", "send"}

TypeOK ==
  /\ sinkTime \in Nat
  /\ systime \in [Node -> Nat]
  /\ my_ip \in [Node -> Pool]
  /\ pc \in [Node -> Timed \cup {"ask", "stopped"}]
  /\ retries \in [Node -> 0 .. APP_MAX_SYS_REQ_RETRIES]
  /\ answers \in [Node -> SUBSET Nat]
  /\ last \in [Node -> Nat]
  /\ sentIn \in [Node -> Nat \cup {NoPeriod}]
  /\ jump \in [Node -> Int]
-----------------------------------------------------------------------------
(* Mutant: the slots are counted by division.                              *)
SlotByDivision(n) == my_ip[n] \div slotCount

(* The node's slot and how far it lies behind the start of a period.       *)
slotNumber(n) == my_ip[n] % slotCount

(* Mutant: the sum that the sink's copy of this file waits for             *)
(* (sink/application.c:262).                                               *)
OffsetAndTime(n) == slotNumber(n) * TimeSlot + last[n]

offset(n) == slotNumber(n) * TimeSlot

(* Mutant: the tolerance of that copy (sink/application.c:255).            *)
AtPeriodStartOfCopy(t) == t % Period <= Tolerance + 4

(* UTIL_within_tolerance(systime % sysPeriod, Tolerance).                  *)
AtPeriodStart(t) == t % Period <= Tolerance

(* The start of the period that time t lies in.                            *)
PeriodOf(t) == t - (t % Period)

(* What the node makes of an answer to its request.                        *)
Corrected(n, stamp) == stamp + RetryMs * retries[n] + FixMs

Init ==
  /\ sinkTime = 0
  /\ systime = [n \in Node |-> 0]
  /\ my_ip \in {ip \in [Node -> Pool] :
                  \A m, n \in Node : m # n => ip[m] # ip[n]}
  /\ pc = [n \in Node |-> "ask"]
  /\ retries = [n \in Node |-> 0]
  /\ answers = [n \in Node |-> {}]
  /\ last = [n \in Node |-> 0]
  /\ sentIn = [n \in Node |-> NoPeriod]
  /\ jump = [n \in Node |-> 0]

(* What the node's clock has gained on the sink's since it was set.        *)
Drift(n) == systime[n] - sinkTime - jump[n]

(* The timer interrupt of the sink.                                        *)
SinkTick ==
  /\ sinkTime < MaxTime
  /\ \A n \in Node : /\ pc[n] \in Timed => Drift(n) > -MaxDrift
                     /\ \A stamp \in answers[n] : sinkTime - stamp < MaxAge
  /\ sinkTime' = sinkTime + 1
  /\ UNCHANGED <<systime, my_ip, pc, retries, answers, last, sentIn, jump>>

(* The timer interrupt of a node: during a print or a send up to its       *)
(* largest length, in a busy-wait up to what it waits for.                 *)
NodeTick(n) ==
  /\ systime[n] < MaxTime
  /\ Drift(n) < MaxDrift
  /\ \/ /\ pc[n] = "align"
        /\ ~(AtPeriodStart(systime[n]) /\ ~AtPeriodStart(systime[n] + 1))
     \/ pc[n] = "print" /\ systime[n] - last[n] < MaxPrint
     \/ pc[n] = "offset" /\ systime[n] - last[n] < offset(n)
     \/ pc[n] = "send" /\ systime[n] - last[n] < MaxSend
  /\ systime' = [systime EXCEPT ![n] = @ + 1]
  /\ UNCHANGED <<sinkTime, my_ip, pc, retries, answers, last, sentIn, jump>>

(* The sink answers a request 'S', or a copy of one, with its systime.     *)
SinkAnswers(n) ==
  /\ pc[n] = "ask"
  /\ Cardinality(answers[n]) < MaxAnswers
  /\ answers' = [answers EXCEPT ![n] = @ \cup {sinkTime}]
  /\ UNCHANGED <<sinkTime, systime, my_ip, pc, retries, last, sentIn, jump>>

(* An answer never arrives, or arrives where the node takes no message.    *)
AnswerLost(n) ==
  /\ \E stamp \in answers[n] :
       answers' = [answers EXCEPT ![n] = @ \ {stamp}]
  /\ UNCHANGED <<sinkTime, systime, my_ip, pc, retries, last, sentIn, jump>>

(* An iteration of the request loop fails, and with the last one the       *)
(* assertion behind it.                                                    *)
AskFails(n) ==
  /\ pc[n] = "ask"
  /\ retries' = [retries EXCEPT ![n] = @ + 1]
  /\ pc' = [pc EXCEPT ![n] =
              IF retries'[n] < APP_MAX_SYS_REQ_RETRIES THEN @ ELSE "stopped"]
  /\ UNCHANGED <<sinkTime, systime, my_ip, answers, last, sentIn, jump>>

(* The node sets its clock by an answer.                                   *)
TakesTime(n) ==
  /\ pc[n] = "ask"
  /\ \E stamp \in answers[n] :
       /\ systime' = [systime EXCEPT ![n] = Corrected(n, stamp)]
       /\ jump' = [jump EXCEPT ![n] = Corrected(n, stamp) - sinkTime]
  /\ answers' = [answers EXCEPT ![n] = {}]
  /\ pc' = [pc EXCEPT ![n] = "align"]
  /\ UNCHANGED <<sinkTime, my_ip, retries, last, sentIn>>

Step(n, from, to) ==
  /\ pc[n] = from
  /\ pc' = [pc EXCEPT ![n] = to]
  /\ last' = [last EXCEPT ![n] = systime[n]]
  /\ UNCHANGED <<sinkTime, systime, my_ip, retries, answers, jump>>

(* The wait for a period start ends and the line about it is printed.      *)
PeriodStarts(n) ==
  /\ AtPeriodStart(systime[n])
  /\ Step(n, "align", "print")
  /\ UNCHANGED sentIn

(* The line is out and the wait for the offset begins, counted from here.  *)
Printed(n) ==
  /\ systime[n] - last[n] >= MinPrint
  /\ Step(n, "print", "offset")
  /\ UNCHANGED sentIn

(* The offset is over and the node sends its data.                         *)
SendBegins(n) ==
  /\ systime[n] - last[n] >= offset(n)
  /\ Step(n, "offset", "send")
  /\ sentIn' = [sentIn EXCEPT ![n] = PeriodOf(systime[n])]

SendEnds(n) ==
  /\ systime[n] - last[n] >= MinSend
  /\ Step(n, "send", "align")
  /\ UNCHANGED sentIn

(* A reset: the board asks again, with an address that no other board has. *)
Restart(n) ==
  /\ systime' = [systime EXCEPT ![n] = 0]
  /\ \E ip \in Pool \ {my_ip[m] : m \in Node \ {n}} :
       my_ip' = [my_ip EXCEPT ![n] = ip]
  /\ pc' = [pc EXCEPT ![n] = "ask"]
  /\ retries' = [retries EXCEPT ![n] = 0]
  /\ answers' = [answers EXCEPT ![n] = {}]
  /\ last' = [last EXCEPT ![n] = 0]
  /\ sentIn' = [sentIn EXCEPT ![n] = NoPeriod]
  /\ jump' = [jump EXCEPT ![n] = 0]
  /\ UNCHANGED sinkTime

NodeStep(n) ==
  \/ NodeTick(n) \/ SinkAnswers(n) \/ AnswerLost(n) \/ AskFails(n)
  \/ TakesTime(n) \/ PeriodStarts(n) \/ Printed(n) \/ SendBegins(n)
  \/ SendEnds(n) \/ Restart(n)

Next == SinkTick \/ \E n \in Node : NodeStep(n)

Spec == Init /\ [][Next]_vars
-----------------------------------------------------------------------------
Apart(s, t) == IF s <= t THEN t - s ELSE s - t

Collide(m, n) ==
  m # n /\ slotNumber(m) # slotNumber(n) /\ pc[m] = "send" /\ pc[n] = "send"

(* Two nodes with different slots do not send at the same time while their *)
(* clocks agree up to Margin.  A send may start late by the tolerance of   *)
(* the period start and by the log line printed before `last` is taken,    *)
(* and the next period's first slot follows the last one directly.         *)
NoCollision ==
  \A m, n \in Node :
    Apart(systime[m], systime[n]) <= Margin => ~Collide(m, n)

(* What is known of the clocks of two nodes when they are set: they differ *)
(* by the age of an answer and by what the node adds for failed requests,  *)
(* later by the drift of both.                                             *)
SetAlike(m, n) ==
  RetryMs * Apart(retries[m], retries[n]) + MaxAge + 2 * MaxDrift <= Margin

(* Two nodes that set their clocks after as many failed requests, or nearly *)
(* so, never send at once, however old the answers were and whoever        *)
(* restarted, if their addresses are closer than the number of slots: the  *)
(* correction of application.c:242 is the same for both, and the slots of  *)
(* application.c:257 repeat with the eleventh address.                     *)
DisjointIfSetAlike ==
  \A m, n \in Node :
    /\ SetAlike(m, n)
    /\ Apart(my_ip[m], my_ip[n]) \in 1 .. slotCount - 1
    => ~(pc[m] = "send" /\ pc[n] = "send")

(* Slots keep nodes apart whatever the order of requests and answers was   *)
(* (README.md:33).  The code does not do this: a retry adds 100 ms to the  *)
(* time of an answer that may be fresh.                                    *)
SlotsAreDisjoint == \A m, n \in Node : ~Collide(m, n)

(* A node sends once in every period of its clock: the wait behind a send  *)
(* neither ends in the period of the send nor lets one pass.  Nothing in   *)
(* the loop but the time its log lines take keeps slot 0 from a second     *)
(* send in the same millisecond.                                           *)
NextPeriod ==
  [][\A n \in Node :
       (sentIn'[n] # NoPeriod /\ sentIn[n] # NoPeriod
          /\ pc[n] # "send" /\ pc'[n] = "send")
       => sentIn'[n] = sentIn[n] + Period]_vars
-----------------------------------------------------------------------------
(* The inductive invariant.  Late is how much after its period start, or   *)
(* its slot's, a step begins; the last send and what followed it are tied  *)
(* to one period.                                                          *)
Late == Tolerance + MaxPrint

InStep(n) ==
  /\ pc[n] = "ask" => retries[n] < APP_MAX_SYS_REQ_RETRIES /\ last[n] = 0
  /\ last[n] <= systime[n]
  /\ pc[n] = "print" =>
       /\ AtPeriodStart(last[n])
       /\ systime[n] - last[n] <= MaxPrint
  /\ pc[n] = "offset" =>
       /\ last[n] % Period \in MinPrint .. Late
       /\ systime[n] - last[n] <= offset(n)
  /\ pc[n] = "send" =>
       /\ last[n] % Period \in offset(n) + MinPrint .. offset(n) + Late
       /\ systime[n] - last[n] <= MaxSend

InRhythm(n) ==
  IF pc[n] \in Timed /\ sentIn[n] # NoPeriod
  THEN /\ PeriodOf(sentIn[n]) = sentIn[n]
       /\ pc[n] = "align" =>
            /\ sentIn[n] + Tolerance < systime[n]
            /\ systime[n] <= sentIn[n] + Period + Tolerance
       /\ pc[n] \in {"print", "offset"} =>
            PeriodOf(last[n]) = sentIn[n] + Period
       /\ pc[n] = "send" => PeriodOf(last[n]) = sentIn[n]
  ELSE sentIn[n] = NoPeriod /\ pc[n] # "send"

LoopInv == TypeOK /\ \A n \in Node : InStep(n) /\ InRhythm(n)

(* The clock is as far from the sink's as its answer was old, as requests  *)
(* failed, and as it has drifted since.                                    *)
InTime(n) ==
  /\ \A stamp \in answers[n] : sinkTime - stamp \in 0 .. MaxAge
  /\ pc[n] \in Timed =>
       /\ Drift(n) \in -MaxDrift .. MaxDrift
       /\ Corrected(n, 0) - jump[n] \in 0 .. MaxAge

IInv == LoopInv /\ \A n \in Node : InTime(n)
=============================================================================
