---------------------------- MODULE SlotsProofs ----------------------------
(***************************************************************************)
(* Proofs about Slots: its types, that nodes whose clocks agree keep out   *)
(* of each other's slots, that a node sends once in every period, and how  *)
(* far the clock of a node is from the sink's.                             *)
(***************************************************************************)
EXTENDS Slots, TLAPS

LEMMA PeriodIsPositive == Period \in Nat \ {0}
BY SlotsAssumption

(* A multiple of the period that is not 0 is at least a period away from   *)
(* it.                                                                     *)
LEMMA MultipleAbove ==
  ASSUME NEW k \in Int, k >= 1
  PROVE  Period * k >= Period
BY PeriodIsPositive

LEMMA MultipleBelow ==
  ASSUME NEW k \in Int, k <= -1
  PROVE  Period * k <= -Period
BY PeriodIsPositive

(* Quotient and phase of a time are unique.                                *)
LEMMA PhaseIsUnique ==
  ASSUME NEW j \in Int, NEW k \in Int,
         NEW r \in 0 .. Period - 1, NEW s \in 0 .. Period - 1,
         Period * j + r = Period * k + s
  PROVE  j = k /\ r = s
<1>1. Period \in Nat \ {0}
  BY PeriodIsPositive
<1>2. Period * (j - k) = s - r
  BY <1>1
<1>3. j - k \in Int
  OBVIOUS
<1>4. CASE j - k >= 1
  BY <1>1, <1>2, <1>3, <1>4, MultipleAbove
<1>5. CASE j - k <= -1
  BY <1>1, <1>2, <1>3, <1>5, MultipleBelow
<1>6. CASE j = k
  BY <1>1, <1>6
<1>7. QED
  BY <1>3, <1>4, <1>5, <1>6

(* A time is the start of its period and a phase within it.                *)
LEMMA Phase ==
  ASSUME NEW t \in Nat
  PROVE  /\ t % Period \in 0 .. Period - 1
         /\ t \div Period \in Nat
         /\ PeriodOf(t) = Period * (t \div Period)
         /\ PeriodOf(t) \in Nat
         /\ t = PeriodOf(t) + (t % Period)
<1>1. /\ t = Period * (t \div Period) + (t % Period)
      /\ t % Period \in 0 .. Period - 1
      /\ t \div Period \in Nat
  BY PeriodIsPositive
<1>2. Period * (t \div Period) \in Nat
  BY <1>1, PeriodIsPositive
<1>3. QED
  BY <1>1, <1>2 DEF PeriodOf

(* What lies between two starts of periods belongs to the first.           *)
LEMMA PhaseFrom ==
  ASSUME NEW k \in Int, NEW r \in 0 .. Period - 1, Period * k + r \in Nat
  PROVE  /\ (Period * k + r) % Period = r
         /\ PeriodOf(Period * k + r) = Period * k
<1> DEFINE t == Period * k + r
<1>1. t \in Nat
  OBVIOUS
<1>2. /\ t % Period \in 0 .. Period - 1
      /\ t \div Period \in Nat
      /\ PeriodOf(t) = Period * (t \div Period)
      /\ t = PeriodOf(t) + (t % Period)
  <2> HIDE DEF t
  <2>1. QED
    BY <1>1, Phase
<1>3. t \div Period = k /\ t % Period = r
  <2>1. Period * (t \div Period) + (t % Period) = Period * k + r
    BY <1>2
  <2>2. t \div Period \in Int /\ t % Period \in 0 .. Period - 1
    BY <1>2
  <2> HIDE DEF t
  <2>3. QED
    BY <2>1, <2>2, PhaseIsUnique
<1>4. QED
  BY <1>2, <1>3

(* A time within a period of the start of one, and what comes a little     *)
(* later than another time of that period.                                 *)
LEMMA SamePeriod ==
  ASSUME NEW s \in Nat, NEW d \in Nat, (s % Period) + d < Period
  PROVE  /\ PeriodOf(s + d) = PeriodOf(s)
         /\ (s + d) % Period = (s % Period) + d
<1>1. /\ s % Period \in 0 .. Period - 1
      /\ s \div Period \in Nat
      /\ PeriodOf(s) = Period * (s \div Period)
      /\ s = PeriodOf(s) + (s % Period)
  BY Phase
<1>2. /\ s + d = Period * (s \div Period) + ((s % Period) + d)
      /\ (s % Period) + d \in 0 .. Period - 1
      /\ s \div Period \in Int
  BY <1>1, PeriodIsPositive
<1> DEFINE k == s \div Period
           r == (s % Period) + d
<1>3. k \in Int /\ r \in 0 .. Period - 1 /\ Period * k + r \in Nat
  BY <1>2
<1>4. (Period * k + r) % Period = r /\ PeriodOf(Period * k + r) = Period * k
  <2> HIDE DEF k, r
  <2>1. QED
    BY <1>3, PhaseFrom
<1>5. QED
  BY <1>1, <1>2, <1>4

(* The period after a given one.                                           *)
LEMMA FollowingPeriod ==
  ASSUME NEW s \in Nat, PeriodOf(s) = s, NEW t \in Nat,
         s + Period <= t, t < s + Period + Period
  PROVE  PeriodOf(t) = s + Period /\ t % Period = t - (s + Period)
<1>1. s \div Period \in Nat /\ s = Period * (s \div Period)
  BY Phase
<1> DEFINE k == (s \div Period) + 1
           r == t - (s + Period)
<1>2. k \in Int /\ r \in 0 .. Period - 1
  BY <1>1, PeriodIsPositive
<1>3. Period * k = s + Period
  BY <1>1, PeriodIsPositive
<1>4. Period * k + r = t
  BY <1>2, <1>3, PeriodIsPositive
<1>5. (Period * k + r) % Period = r /\ PeriodOf(Period * k + r) = Period * k
  <2> HIDE DEF k, r
  <2>1. QED
    BY <1>2, <1>4, PhaseFrom
<1>6. QED
  BY <1>3, <1>4, <1>5

LEMMA OwnPeriod ==
  ASSUME NEW s \in Nat, PeriodOf(s) = s, NEW t \in Nat,
         s <= t, t < s + Period
  PROVE  PeriodOf(t) = s /\ t % Period = t - s
<1>1. s % Period = 0
  BY Phase
<1>2. t - s \in Nat /\ (s % Period) + (t - s) < Period /\ s + (t - s) = t
  BY <1>1, PeriodIsPositive
<1>3. QED
  BY <1>1, <1>2, SamePeriod

LEMMA PeriodOfStart ==
  ASSUME NEW t \in Nat
  PROVE  PeriodOf(PeriodOf(t)) = PeriodOf(t)
<1>1. t \div Period \in Int /\ PeriodOf(t) = Period * (t \div Period)
      /\ PeriodOf(t) \in Nat
  BY Phase
<1> DEFINE k == t \div Period
<1>2. k \in Int /\ 0 \in 0 .. Period - 1 /\ Period * k + 0 \in Nat
      /\ Period * k + 0 = PeriodOf(t)
  BY <1>1, PeriodIsPositive
<1>3. PeriodOf(Period * k + 0) = Period * k
  <2> HIDE DEF k
  <2>1. QED
    BY <1>2, PhaseFrom
<1>4. QED
  BY <1>1, <1>2, <1>3

(* The starts of two different periods lie a period apart.                 *)
LEMMA PeriodsApart ==
  ASSUME NEW s \in Nat, NEW t \in Nat, PeriodOf(s) # PeriodOf(t)
  PROVE  \/ PeriodOf(s) + Period <= PeriodOf(t)
         \/ PeriodOf(t) + Period <= PeriodOf(s)
<1>1. /\ s \div Period \in Nat /\ PeriodOf(s) = Period * (s \div Period)
      /\ t \div Period \in Nat /\ PeriodOf(t) = Period * (t \div Period)
  BY Phase
<1> DEFINE j == s \div Period
           k == t \div Period
<1>2. j \in Nat /\ k \in Nat /\ PeriodOf(s) = Period * j /\ PeriodOf(t) = Period * k
  BY <1>1
<1> HIDE DEF j, k
<1>3. j - k \in Int /\ k - j \in Int /\ j # k
  BY <1>2
<1>4. CASE j - k >= 1
  <2>1. Period * (j - k) >= Period
    BY <1>3, <1>4, MultipleAbove
  <2>2. Period * (j - k) = Period * j - Period * k
    BY <1>2, PeriodIsPositive
  <2>3. QED
    BY <1>2, <2>1, <2>2, PeriodIsPositive
<1>5. CASE k - j >= 1
  <2>1. Period * (k - j) >= Period
    BY <1>3, <1>5, MultipleAbove
  <2>2. Period * (k - j) = Period * k - Period * j
    BY <1>2, PeriodIsPositive
  <2>3. QED
    BY <1>2, <2>1, <2>2, PeriodIsPositive
<1>6. QED
  BY <1>2, <1>3, <1>4, <1>5
-----------------------------------------------------------------------------
(* The slots lie in the period, one behind the other.                      *)
LEMMA SlotCount == slotCount \in Nat \ {0} /\ slotCount * TimeSlot <= Period
<1>1. TimeSlot \in Nat \ {0} /\ Period \in Nat /\ TimeSlot <= Period
  BY SlotsAssumption
<1>2. /\ Period = TimeSlot * (Period \div TimeSlot) + (Period % TimeSlot)
      /\ Period % TimeSlot \in 0 .. TimeSlot - 1
      /\ Period \div TimeSlot \in Nat
  BY <1>1
<1> DEFINE q == Period \div TimeSlot
<1>3. q # 0
  <2>1. q = 0 => TimeSlot * q = 0
    BY <1>1
  <2>2. QED
    BY <1>1, <1>2, <2>1
<1>4. q \in Nat /\ q * TimeSlot <= Period
  BY <1>1, <1>2
<1>5. QED
  BY <1>3, <1>4 DEF slotCount

LEMMA SlotStarts ==
  ASSUME TypeOK, NEW n \in Node
  PROVE  /\ slotNumber(n) \in Nat
         /\ offset(n) \in Nat
         /\ offset(n) + TimeSlot <= Period
<1>1. my_ip[n] \in Nat
  BY SlotsAssumption DEF TypeOK
<1>2. slotNumber(n) \in 0 .. slotCount - 1
  BY <1>1, SlotCount DEF slotNumber
<1>3. TimeSlot \in Nat \ {0}
  BY SlotsAssumption
<1> DEFINE a == slotNumber(n)
           c == slotCount
<1>4. a \in Nat /\ c \in Nat /\ a + 1 <= c /\ c * TimeSlot <= Period
  BY <1>2, SlotCount
<1> HIDE DEF a, c
<1>5. (a + 1) * TimeSlot <= c * TimeSlot
  BY <1>3, <1>4
<1>6. (a + 1) * TimeSlot = a * TimeSlot + TimeSlot /\ a * TimeSlot \in Nat
  BY <1>3, <1>4
<1>7. a * TimeSlot + TimeSlot <= Period
  BY <1>3, <1>4, <1>5, <1>6, PeriodIsPositive
<1>8. QED
  BY <1>2, <1>6, <1>7 DEF a, offset

(* Different slots start a slot apart.                                     *)
LEMMA SlotsApart ==
  ASSUME TypeOK, NEW m \in Node, NEW n \in Node, slotNumber(m) # slotNumber(n)
  PROVE  \/ offset(m) + TimeSlot <= offset(n)
         \/ offset(n) + TimeSlot <= offset(m)
<1> DEFINE a == slotNumber(m)
           b == slotNumber(n)
<1>1. a \in Nat /\ b \in Nat /\ a # b /\ TimeSlot \in Nat
  BY SlotStarts, SlotsAssumption
<1> HIDE DEF a, b
<1>2. CASE a + 1 <= b
  <2>1. (a + 1) * TimeSlot <= b * TimeSlot
    BY <1>1, <1>2
  <2>2. (a + 1) * TimeSlot = a * TimeSlot + TimeSlot
    BY <1>1
  <2>3. QED
    BY <2>1, <2>2 DEF a, b, offset
<1>3. CASE b + 1 <= a
  <2>1. (b + 1) * TimeSlot <= a * TimeSlot
    BY <1>1, <1>3
  <2>2. (b + 1) * TimeSlot = b * TimeSlot + TimeSlot
    BY <1>1
  <2>3. QED
    BY <2>1, <2>2 DEF a, b, offset
<1>4. QED
  BY <1>1, <1>2, <1>3
-----------------------------------------------------------------------------
LEMMA Lengths ==
  /\ Tolerance \in Nat /\ MinPrint \in Nat /\ MaxPrint \in Nat
  /\ MinSend \in Nat /\ MaxSend \in Nat /\ Late \in Nat /\ Margin \in Nat
  /\ TimeSlot \in Nat /\ Period \in Nat
  /\ Late = Tolerance + MaxPrint
  /\ MinPrint <= MaxPrint /\ MinSend <= MaxSend
  /\ Tolerance < MinPrint + MinSend
  /\ Margin + Late + MaxSend < TimeSlot
  /\ Tolerance + 1 < Period
  /\ TimeSlot <= Period
BY SlotsAssumption DEF Late, Width

(* The invariant of a node that a step leaves alone.                       *)
LEMMA OthersKeep ==
  ASSUME NEW m \in Node, InStep(m), InRhythm(m),
         systime'[m] = systime[m], my_ip'[m] = my_ip[m], pc'[m] = pc[m],
         last'[m] = last[m], sentIn'[m] = sentIn[m], retries'[m] = retries[m]
  PROVE  InStep(m)' /\ InRhythm(m)'
BY DEF InStep, InRhythm, offset, slotNumber, AtPeriodStart, PeriodOf

LEMMA InitLoopInv == Init => LoopInv
<1> SUFFICES ASSUME Init
             PROVE  LoopInv
  OBVIOUS
<1>1. TypeOK
  BY SlotsAssumption DEF Init, TypeOK, Timed
<1>2. ASSUME NEW n \in Node PROVE InStep(n) /\ InRhythm(n)
  BY <1>2, SlotsAssumption DEF Init, InStep, InRhythm, Timed
<1>3. QED
  BY <1>1, <1>2 DEF LoopInv

LEMMA SinkTickKeeps == ASSUME LoopInv, SinkTick PROVE LoopInv'
<1>1. TypeOK'
  BY DEF LoopInv, TypeOK, SinkTick
<1>2. ASSUME NEW m \in Node PROVE InStep(m)' /\ InRhythm(m)'
  BY <1>2, OthersKeep DEF LoopInv, SinkTick
<1>3. QED
  BY <1>1, <1>2 DEF LoopInv

(* Steps of node n: the types and the invariant of n itself.               *)
NodeKeeps(n) == TypeOK' /\ InStep(n)' /\ InRhythm(n)'

LEMMA TickKeeps ==
  ASSUME LoopInv, NEW n \in Node, NodeTick(n)
  PROVE  NodeKeeps(n)
<1>1. TypeOK'
  BY DEF LoopInv, TypeOK, NodeTick
<1>2. /\ systime'[n] = systime[n] + 1 /\ systime[n] \in Nat
      /\ my_ip'[n] = my_ip[n] /\ pc'[n] = pc[n] /\ last'[n] = last[n]
      /\ sentIn'[n] = sentIn[n] /\ pc[n] # "ask"
      /\ last[n] \in Nat /\ last[n] <= systime[n]
      /\ offset(n)' = offset(n) /\ offset(n) \in Nat
  BY SlotStarts DEF LoopInv, TypeOK, NodeTick, InStep, offset, slotNumber
<1>3. InStep(n)'
  <2>1. CASE pc[n] = "align"
    BY <1>2, <2>1 DEF InStep
  <2>2. CASE pc[n] = "print" /\ systime[n] - last[n] < MaxPrint
    BY <1>2, <2>2, Lengths DEF LoopInv, InStep, AtPeriodStart
  <2>3. CASE pc[n] = "offset" /\ systime[n] - last[n] < offset(n)
    BY <1>2, <2>3, Lengths DEF LoopInv, InStep
  <2>4. CASE pc[n] = "send" /\ systime[n] - last[n] < MaxSend
    BY <1>2, <2>4, Lengths DEF LoopInv, InStep
  <2>5. QED
    BY <2>1, <2>2, <2>3, <2>4 DEF NodeTick
<1>4. InRhythm(n)'
  <2>1. CASE pc[n] = "align" /\ sentIn[n] # NoPeriod
    <3>1. /\ PeriodOf(sentIn[n]) = sentIn[n] /\ sentIn[n] \in Nat
          /\ sentIn[n] + Tolerance < systime[n]
          /\ systime[n] <= sentIn[n] + Period + Tolerance
      BY <2>1 DEF LoopInv, TypeOK, InRhythm, Timed
    <3>2. systime[n] # sentIn[n] + Period + Tolerance
      <4> SUFFICES ASSUME systime[n] = sentIn[n] + Period + Tolerance
                   PROVE  FALSE
        OBVIOUS
      <4>1. systime[n] % Period = Tolerance
        BY <1>2, <3>1, FollowingPeriod, Lengths, PeriodIsPositive
      <4>2. (systime[n] + 1) % Period = Tolerance + 1
        BY <1>2, <4>1, SamePeriod, Lengths
      <4>3. QED
        BY <2>1, <4>1, <4>2, Lengths DEF NodeTick, AtPeriodStart
    <3>3. systime'[n] <= sentIn[n] + Period + Tolerance
      BY <1>2, <3>1, <3>2, Lengths, PeriodIsPositive
    <3>4. sentIn[n] + Tolerance < systime'[n]
      BY <1>2, <3>1, Lengths
    <3>5. PeriodOf(sentIn[n])' = sentIn'[n]
      BY <1>2, <3>1 DEF PeriodOf
    <3>6. QED
      BY <1>2, <2>1, <3>3, <3>4, <3>5 DEF InRhythm, Timed
  <2>2. CASE pc[n] # "align" \/ sentIn[n] = NoPeriod
    <3>1. PeriodOf(sentIn[n])' = PeriodOf(sentIn[n])
          /\ PeriodOf(last[n])' = PeriodOf(last[n])
      BY <1>2 DEF PeriodOf
    <3>2. QED
      BY <1>2, <2>2, <3>1 DEF LoopInv, InRhythm
  <2>3. QED
    BY <2>1, <2>2
<1>5. QED
  BY <1>1, <1>3, <1>4 DEF NodeKeeps

LEMMA AskKeeps ==
  ASSUME LoopInv, NEW n \in Node,
         SinkAnswers(n) \/ AnswerLost(n) \/ AskFails(n)
  PROVE  NodeKeeps(n)
<1>1. CASE SinkAnswers(n) \/ AnswerLost(n)
  <2>1. TypeOK'
    BY <1>1 DEF LoopInv, TypeOK, SinkAnswers, AnswerLost
  <2>2. QED
    BY <1>1, <2>1, OthersKeep DEF LoopInv, NodeKeeps, SinkAnswers, AnswerLost
<1>2. CASE AskFails(n)
  <2>1. retries[n] \in 0 .. APP_MAX_SYS_REQ_RETRIES /\ pc[n] = "ask"
        /\ APP_MAX_SYS_REQ_RETRIES \in Nat
    BY <1>2, SlotsAssumption DEF LoopInv, TypeOK, AskFails
  <2>2. retries[n] < APP_MAX_SYS_REQ_RETRIES
    BY <2>1 DEF LoopInv, InStep
  <2>3. retries'[n] = retries[n] + 1 /\ systime' = systime /\ last' = last
        /\ sentIn' = sentIn /\ pc'[n] \in {"ask", "stopped"}
        /\ (pc'[n] = "ask" => retries'[n] < APP_MAX_SYS_REQ_RETRIES)
    BY <1>2, <2>1, <2>2 DEF LoopInv, TypeOK, AskFails
  <2>4. TypeOK'
    BY <1>2, <2>1, <2>2, <2>3 DEF LoopInv, TypeOK, AskFails
  <2>5. InStep(n)' /\ InRhythm(n)'
    BY <2>1, <2>3 DEF LoopInv, InStep, InRhythm, Timed
  <2>6. QED
    BY <2>4, <2>5 DEF NodeKeeps
<1>3. QED
  BY <1>1, <1>2

LEMMA TakesTimeKeeps ==
  ASSUME LoopInv, NEW n \in Node, TakesTime(n)
  PROVE  NodeKeeps(n)
<1>1. PICK stamp \in answers[n] :
        /\ systime' = [systime EXCEPT ![n] = Corrected(n, stamp)]
        /\ jump' = [jump EXCEPT ![n] = Corrected(n, stamp) - sinkTime]
  BY DEF TakesTime
<1>2. stamp \in Nat /\ retries[n] \in Nat /\ RetryMs \in Nat /\ FixMs \in Nat
      /\ sinkTime \in Nat
  BY SlotsAssumption DEF LoopInv, TypeOK
<1>3. RetryMs * retries[n] \in Nat
  BY <1>2
<1>4. Corrected(n, stamp) \in Nat
  BY <1>2, <1>3 DEF Corrected
<1>5. pc[n] = "ask" /\ sentIn[n] = NoPeriod /\ last[n] = 0
  BY DEF LoopInv, InStep, InRhythm, TakesTime, Timed
<1>6. /\ pc'[n] = "align" /\ sentIn'[n] = NoPeriod /\ last'[n] = 0
      /\ systime'[n] \in Nat
  BY <1>1, <1>4, <1>5 DEF LoopInv, TypeOK, TakesTime
<1>7. TypeOK'
  BY <1>1, <1>2, <1>4 DEF LoopInv, TypeOK, TakesTime, Timed
<1>8. InStep(n)' /\ InRhythm(n)'
  BY <1>6 DEF InStep, InRhythm
<1>9. QED
  BY <1>7, <1>8 DEF NodeKeeps

(* What a step of the loop has in common.                                  *)
LEMMA StepFacts ==
  ASSUME LoopInv, NEW n \in Node, NEW from \in Timed, NEW to \in Timed,
         Step(n, from, to), sentIn' \in [Node -> Nat \cup {NoPeriod}]
  PROVE  /\ TypeOK'
         /\ pc[n] = from /\ pc'[n] = to
         /\ systime[n] \in Nat /\ last[n] \in Nat /\ last[n] <= systime[n]
         /\ systime'[n] = systime[n] /\ last'[n] = systime[n]
         /\ offset(n) \in Nat /\ offset(n)' = offset(n)
         /\ offset(n) + TimeSlot <= Period
         /\ sentIn[n] \in Nat \cup {NoPeriod}
<1>1. TypeOK /\ InStep(n)
  BY DEF LoopInv
<1>2. TypeOK'
  BY <1>1 DEF TypeOK, Step, Timed
<1>3. /\ offset(n) \in Nat /\ offset(n) + TimeSlot <= Period
      /\ offset(n)' = offset(n)
  BY <1>1, SlotStarts DEF Step, offset, slotNumber
<1>4. QED
  BY <1>1, <1>2, <1>3 DEF TypeOK, Step, InStep

LEMMA PeriodStartsKeeps ==
  ASSUME LoopInv, NEW n \in Node, PeriodStarts(n)
  PROVE  NodeKeeps(n)
<1>1. /\ AtPeriodStart(systime[n]) /\ Step(n, "align", "print")
      /\ sentIn' = sentIn
  BY DEF PeriodStarts
<1>2. /\ TypeOK'
      /\ pc[n] = "align" /\ pc'[n] = "print"
      /\ systime[n] \in Nat
      /\ systime'[n] = systime[n] /\ last'[n] = systime[n]
      /\ sentIn'[n] = sentIn[n] /\ sentIn[n] \in Nat \cup {NoPeriod}
  BY <1>1, StepFacts DEF Timed, LoopInv, TypeOK
<1>3. InStep(n)'
  BY <1>1, <1>2, Lengths DEF InStep, AtPeriodStart
<1>4. CASE sentIn[n] = NoPeriod
  BY <1>2, <1>3, <1>4 DEF InRhythm, NodeKeeps
<1>5. CASE sentIn[n] # NoPeriod
  <2>1. /\ sentIn[n] \in Nat /\ PeriodOf(sentIn[n]) = sentIn[n]
        /\ sentIn[n] + Tolerance < systime[n]
        /\ systime[n] <= sentIn[n] + Period + Tolerance
    BY <1>2, <1>5 DEF LoopInv, InRhythm, Timed
  <2>2. systime[n] >= sentIn[n] + Period
    <3>1. ASSUME systime[n] < sentIn[n] + Period PROVE FALSE
      <4>1. systime[n] % Period = systime[n] - sentIn[n]
        BY <1>2, <2>1, <3>1, OwnPeriod, Lengths
      <4>2. QED
        BY <1>1, <1>2, <2>1, <4>1, Lengths DEF AtPeriodStart
    <3>2. QED
      BY <1>2, <2>1, <3>1, PeriodIsPositive
  <2>3. PeriodOf(systime[n]) = sentIn[n] + Period
    BY <1>2, <2>1, <2>2, FollowingPeriod, Lengths, PeriodIsPositive
  <2>4. PeriodOf(last[n])' = sentIn[n] + Period /\ PeriodOf(sentIn[n])' = sentIn[n]
    BY <1>2, <2>1, <2>3 DEF PeriodOf
  <2>5. InRhythm(n)'
    BY <1>2, <1>5, <2>4 DEF InRhythm, Timed
  <2>6. QED
    BY <1>2, <1>3, <2>5 DEF NodeKeeps
<1>6. QED
  BY <1>4, <1>5

LEMMA PrintedKeeps ==
  ASSUME LoopInv, NEW n \in Node, Printed(n)
  PROVE  NodeKeeps(n)
<1>1. /\ systime[n] - last[n] >= MinPrint /\ Step(n, "print", "offset")
      /\ sentIn' = sentIn
  BY DEF Printed
<1>2. /\ TypeOK'
      /\ pc[n] = "print" /\ pc'[n] = "offset"
      /\ systime[n] \in Nat /\ last[n] \in Nat /\ last[n] <= systime[n]
      /\ systime'[n] = systime[n] /\ last'[n] = systime[n]
      /\ offset(n) \in Nat /\ offset(n)' = offset(n)
      /\ sentIn'[n] = sentIn[n] /\ sentIn[n] \in Nat \cup {NoPeriod}
  BY <1>1, StepFacts DEF Timed, LoopInv, TypeOK
<1>3. last[n] % Period \in 0 .. Tolerance /\ systime[n] - last[n] <= MaxPrint
  <2>1. AtPeriodStart(last[n]) /\ systime[n] - last[n] <= MaxPrint
    BY <1>2 DEF LoopInv, InStep
  <2>2. last[n] % Period \in 0 .. Period - 1
    BY <1>2, Phase
  <2>3. QED
    BY <2>1, <2>2, Lengths DEF AtPeriodStart
<1>4. /\ PeriodOf(systime[n]) = PeriodOf(last[n])
      /\ systime[n] % Period = (last[n] % Period) + (systime[n] - last[n])
  <2> DEFINE d == systime[n] - last[n]
  <2>1. d \in Nat /\ last[n] + d = systime[n]
    BY <1>2
  <2>2. (last[n] % Period) + d < Period
    <3> DEFINE r == last[n] % Period
    <3>1. r \in 0 .. Tolerance /\ d <= MaxPrint
      BY <1>3
    <3> HIDE DEF r, d
    <3>2. r + d < Period
      BY <2>1, <3>1, Lengths, PeriodIsPositive
    <3>3. QED
      BY <3>2 DEF r
  <2> HIDE DEF d
  <2>3. /\ PeriodOf(last[n] + d) = PeriodOf(last[n])
        /\ (last[n] + d) % Period = (last[n] % Period) + d
    BY <1>2, <2>1, <2>2, SamePeriod
  <2>4. QED
    BY <2>1, <2>3 DEF d
<1>5. systime[n] % Period \in MinPrint .. Late
  BY <1>1, <1>2, <1>3, <1>4, Lengths
<1>6. InStep(n)'
  BY <1>2, <1>5 DEF InStep
<1>7. InRhythm(n)'
  <2>1. PeriodOf(last[n])' = PeriodOf(last[n])
        /\ PeriodOf(sentIn[n])' = PeriodOf(sentIn[n])
    BY <1>2, <1>4 DEF PeriodOf
  <2>2. QED
    BY <1>2, <2>1 DEF LoopInv, InRhythm, Timed
<1>8. QED
  BY <1>2, <1>6, <1>7 DEF NodeKeeps

(* The wait for the offset ends in the period it began in.                 *)
LEMMA OffsetInPeriod ==
  ASSUME LoopInv, NEW n \in Node, SendBegins(n)
  PROVE  /\ PeriodOf(systime[n]) = PeriodOf(last[n])
         /\ systime[n] % Period \in offset(n) + MinPrint .. offset(n) + Late
<1>1. /\ systime[n] - last[n] >= offset(n) /\ pc[n] = "offset"
  BY DEF SendBegins, Step
<1>2. /\ systime[n] \in Nat /\ last[n] \in Nat
      /\ last[n] % Period \in MinPrint .. Late
      /\ systime[n] - last[n] <= offset(n)
  BY <1>1 DEF LoopInv, TypeOK, InStep
<1>3. offset(n) \in Nat /\ offset(n) + TimeSlot <= Period
  BY SlotStarts DEF LoopInv
<1> DEFINE r == last[n] % Period
<1>4. r \in MinPrint .. Late /\ last[n] + offset(n) = systime[n]
  BY <1>1, <1>2, <1>3
<1>5. /\ r + offset(n) < Period
      /\ r + offset(n) \in offset(n) + MinPrint .. offset(n) + Late
  <2> HIDE DEF r
  <2>1. QED
    BY <1>3, <1>4, Lengths, PeriodIsPositive
<1>6. /\ PeriodOf(systime[n]) = PeriodOf(last[n])
      /\ systime[n] % Period = r + offset(n)
  BY <1>2, <1>3, <1>4, <1>5, SamePeriod
<1>7. QED
  BY <1>5, <1>6

LEMMA SendBeginsKeeps ==
  ASSUME LoopInv, NEW n \in Node, SendBegins(n)
  PROVE  NodeKeeps(n)
<1>1. /\ systime[n] - last[n] >= offset(n) /\ Step(n, "offset", "send")
      /\ sentIn' = [sentIn EXCEPT ![n] = PeriodOf(systime[n])]
  BY DEF SendBegins
<1>2. systime[n] \in Nat /\ PeriodOf(systime[n]) \in Nat
      /\ sentIn \in [Node -> Nat \cup {NoPeriod}]
  BY Phase DEF LoopInv, TypeOK
<1>3. /\ TypeOK'
      /\ pc[n] = "offset" /\ pc'[n] = "send"
      /\ last[n] \in Nat /\ last[n] <= systime[n]
      /\ systime'[n] = systime[n] /\ last'[n] = systime[n]
      /\ offset(n) \in Nat /\ offset(n)' = offset(n)
      /\ offset(n) + TimeSlot <= Period
      /\ sentIn'[n] = PeriodOf(systime[n])
  BY <1>1, <1>2, StepFacts DEF Timed
<1>4. InStep(n)'
  <2>1. systime[n] % Period \in offset(n) + MinPrint .. offset(n) + Late
    BY OffsetInPeriod
  <2>2. QED
    BY <1>2, <1>3, <2>1, Lengths DEF InStep
<1>5. PeriodOf(PeriodOf(systime[n])) = PeriodOf(systime[n])
  BY <1>2, PeriodOfStart
<1>6. InRhythm(n)'
  <2>1. /\ PeriodOf(last[n])' = sentIn'[n]
        /\ PeriodOf(sentIn[n])' = sentIn'[n]
        /\ sentIn'[n] # NoPeriod
    BY <1>2, <1>3, <1>5 DEF PeriodOf, NoPeriod
  <2>2. QED
    BY <1>3, <2>1 DEF InRhythm, Timed
<1>7. QED
  BY <1>3, <1>4, <1>6 DEF NodeKeeps

LEMMA SendEndsKeeps ==
  ASSUME LoopInv, NEW n \in Node, SendEnds(n)
  PROVE  NodeKeeps(n)
<1>1. /\ systime[n] - last[n] >= MinSend /\ Step(n, "send", "align")
      /\ sentIn' = sentIn
  BY DEF SendEnds
<1>2. /\ TypeOK'
      /\ pc[n] = "send" /\ pc'[n] = "align"
      /\ systime[n] \in Nat /\ last[n] \in Nat /\ last[n] <= systime[n]
      /\ systime'[n] = systime[n] /\ last'[n] = systime[n]
      /\ offset(n) \in Nat /\ offset(n) + TimeSlot <= Period
      /\ sentIn'[n] = sentIn[n] /\ sentIn[n] \in Nat \cup {NoPeriod}
  BY <1>1, StepFacts DEF Timed, LoopInv, TypeOK
<1>3. /\ last[n] % Period \in offset(n) + MinPrint .. offset(n) + Late
      /\ systime[n] - last[n] <= MaxSend
  BY <1>2 DEF LoopInv, InStep
<1>4. /\ sentIn[n] \in Nat
      /\ PeriodOf(sentIn[n]) = sentIn[n] /\ PeriodOf(last[n]) = sentIn[n]
  BY <1>2 DEF LoopInv, InRhythm, Timed
<1>5. last[n] = sentIn[n] + (last[n] % Period)
  BY <1>2, <1>4, Phase
<1>6. /\ sentIn[n] + Tolerance < systime[n]
      /\ systime[n] <= sentIn[n] + Period + Tolerance
  <2> DEFINE r == last[n] % Period
             d == systime[n] - last[n]
  <2>1. /\ r \in offset(n) + MinPrint .. offset(n) + Late
        /\ d \in Nat /\ d >= MinSend /\ d <= MaxSend
        /\ systime[n] = sentIn[n] + r + d
    BY <1>1, <1>2, <1>3, <1>4, <1>5
  <2> HIDE DEF r, d
  <2>2. QED
    BY <1>2, <1>4, <2>1, Lengths, PeriodIsPositive
<1>7. PeriodOf(sentIn[n])' = sentIn'[n]
  BY <1>2, <1>4 DEF PeriodOf
<1>8. InStep(n)' /\ InRhythm(n)'
  BY <1>2, <1>4, <1>6, <1>7 DEF InStep, InRhythm, Timed
<1>9. QED
  BY <1>2, <1>8 DEF NodeKeeps

LEMMA RestartKeeps ==
  ASSUME LoopInv, NEW n \in Node, Restart(n)
  PROVE  NodeKeeps(n)
<1>1. PICK ip \in Pool : my_ip' = [my_ip EXCEPT ![n] = ip]
  BY DEF Restart
<1>2. TypeOK'
  BY <1>1, SlotsAssumption DEF LoopInv, TypeOK, Restart, Timed
<1>3. /\ pc'[n] = "ask" /\ retries'[n] = 0 /\ last'[n] = 0 /\ systime'[n] = 0
      /\ sentIn'[n] = NoPeriod
  BY DEF LoopInv, TypeOK, Restart
<1>4. QED
  BY <1>2, <1>3, SlotsAssumption DEF NodeKeeps, InStep, InRhythm, Timed

LEMMA NodeStepKeeps ==
  ASSUME LoopInv, NEW n \in Node, NodeStep(n)
  PROVE  LoopInv'
<1>1. NodeKeeps(n)
  BY TickKeeps, AskKeeps, TakesTimeKeeps, PeriodStartsKeeps, PrintedKeeps,
     SendBeginsKeeps, SendEndsKeeps, RestartKeeps DEF NodeStep
<1>2. ASSUME NEW m \in Node, m # n
      PROVE  /\ systime'[m] = systime[m] /\ my_ip'[m] = my_ip[m]
             /\ pc'[m] = pc[m] /\ last'[m] = last[m]
             /\ sentIn'[m] = sentIn[m] /\ retries'[m] = retries[m]
  <2>1. CASE NodeTick(n) \/ SinkAnswers(n) \/ AnswerLost(n) \/ AskFails(n)
    BY <1>2, <2>1
    DEF LoopInv, TypeOK, NodeTick, SinkAnswers, AnswerLost, AskFails
  <2>2. CASE TakesTime(n) \/ Restart(n)
    BY <1>2, <2>2 DEF LoopInv, TypeOK, TakesTime, Restart
  <2>3. CASE PeriodStarts(n) \/ Printed(n) \/ SendBegins(n) \/ SendEnds(n)
    BY <1>2, <2>3
    DEF LoopInv, TypeOK, PeriodStarts, Printed, SendBegins, SendEnds, Step
  <2>4. QED
    BY <2>1, <2>2, <2>3 DEF NodeStep
<1>3. ASSUME NEW m \in Node PROVE InStep(m)' /\ InRhythm(m)'
  <2>1. CASE m = n
    BY <1>1, <2>1 DEF NodeKeeps
  <2>2. CASE m # n
    BY <1>2, <2>2, OthersKeep DEF LoopInv
  <2>3. QED
    BY <2>1, <2>2
<1>4. QED
  BY <1>1, <1>3 DEF LoopInv, NodeKeeps

LEMMA NextLoopInv == LoopInv /\ [Next]_vars => LoopInv'
<1> SUFFICES ASSUME LoopInv, [Next]_vars
             PROVE  LoopInv'
  OBVIOUS
<1>1. CASE UNCHANGED vars
  <2>1. TypeOK'
    BY <1>1 DEF LoopInv, TypeOK, vars
  <2>2. ASSUME NEW m \in Node PROVE InStep(m)' /\ InRhythm(m)'
    BY <1>1, <2>2, OthersKeep DEF LoopInv, vars
  <2>3. QED
    BY <2>1, <2>2 DEF LoopInv
<1>2. QED
  BY <1>1, SinkTickKeeps, NodeStepKeeps DEF Next

(* Every step of a node's loop is in its place in the period, for any      *)
(* number of nodes, any lengths the assumption allows, and clocks that     *)
(* drift apart by any amount.                                              *)
LEMMA LoopInvHolds == Spec => []LoopInv
BY InitLoopInv, NextLoopInv, PTL DEF Spec

(* The variables of the nodes keep their types.                            *)
THEOREM TypeCorrect == Spec => []TypeOK
<1>1. LoopInv => TypeOK
  BY DEF LoopInv
<1>2. QED
  BY <1>1, LoopInvHolds, PTL
-----------------------------------------------------------------------------
(* A node that sends does so in its slot: late by less than the rest of    *)
(* the slot that Margin leaves.                                            *)
LEMMA SendsInSlot ==
  ASSUME LoopInv, NEW n \in Node, pc[n] = "send"
  PROVE  /\ systime[n] \in Nat
         /\ systime[n] % Period \in offset(n) .. offset(n) + Late + MaxSend
<1>1. /\ systime[n] \in Nat /\ last[n] \in Nat /\ last[n] <= systime[n]
      /\ last[n] % Period \in offset(n) + MinPrint .. offset(n) + Late
      /\ systime[n] - last[n] <= MaxSend
  BY DEF LoopInv, TypeOK, InStep
<1>2. offset(n) \in Nat /\ offset(n) + TimeSlot <= Period
  BY SlotStarts DEF LoopInv
<1> DEFINE r == last[n] % Period
           d == systime[n] - last[n]
<1>3. /\ r \in offset(n) + MinPrint .. offset(n) + Late
      /\ d \in Nat /\ d <= MaxSend /\ last[n] + d = systime[n]
  BY <1>1
<1>4. r + d < Period /\ r + d \in offset(n) .. offset(n) + Late + MaxSend
  <2> HIDE DEF r, d
  <2>1. QED
    BY <1>2, <1>3, Lengths, PeriodIsPositive
<1>5. (last[n] + d) % Period = r + d
  <2> HIDE DEF d
  <2>1. QED
    BY <1>1, <1>3, <1>4, SamePeriod
<1>6. systime[n] % Period = r + d
  BY <1>3, <1>5
<1>7. QED
  <2> HIDE DEF r, d
  <2>1. QED
    BY <1>1, <1>4, <1>6

LEMMA SlotsKeepApart == LoopInv => NoCollision
<1> SUFFICES ASSUME LoopInv, NEW m \in Node, NEW n \in Node,
                    Apart(systime[m], systime[n]) <= Margin,
                    slotNumber(m) # slotNumber(n),
                    pc[m] = "send", pc[n] = "send"
             PROVE  FALSE
  BY DEF NoCollision, Collide
<1> DEFINE s == systime[m]
           t == systime[n]
           u == s % Period
           v == t % Period
           a == offset(m)
           b == offset(n)
           W == Late + MaxSend
<1>1. s \in Nat /\ u \in a .. a + W /\ t \in Nat /\ v \in b .. b + W
  <2>1. a \in Nat /\ b \in Nat
    BY SlotStarts DEF LoopInv
  <2>2. a + Late + MaxSend = a + W /\ b + Late + MaxSend = b + W
    <3> HIDE DEF a, b
    <3>1. QED
      BY <2>1, Lengths
  <2>3. s \in Nat /\ u \in a .. a + Late + MaxSend
        /\ t \in Nat /\ v \in b .. b + Late + MaxSend
    BY SendsInSlot
  <2>4. QED
    BY <2>2, <2>3
<1>2. /\ a \in Nat /\ a + TimeSlot <= Period
      /\ b \in Nat /\ b + TimeSlot <= Period
      /\ (a + TimeSlot <= b \/ b + TimeSlot <= a)
  BY SlotStarts, SlotsApart DEF LoopInv
<1>3. /\ s = PeriodOf(s) + u /\ PeriodOf(s) \in Nat
      /\ t = PeriodOf(t) + v /\ PeriodOf(t) \in Nat
      /\ \/ PeriodOf(s) = PeriodOf(t)
         \/ PeriodOf(s) + Period <= PeriodOf(t)
         \/ PeriodOf(t) + Period <= PeriodOf(s)
  <2> HIDE DEF s, t
  <2>1. QED
    BY <1>1, Phase, PeriodsApart
<1>4. s - t <= Margin /\ t - s <= Margin
  BY <1>1, Lengths DEF Apart
<1>5. W \in Nat /\ Margin \in Nat /\ Margin + W < TimeSlot /\ TimeSlot \in Nat
  BY Lengths, SlotsAssumption
<1>6. u \in Nat /\ v \in Nat /\ u <= a + W /\ a <= u /\ v <= b + W /\ b <= v
  <2> HIDE DEF u, v, a, b, W
  <2>1. QED
    BY <1>1, <1>2, <1>5
<1> DEFINE p == PeriodOf(s)
           q == PeriodOf(t)
<1>7. /\ p \in Nat /\ q \in Nat /\ s = p + u /\ t = q + v
      /\ (p = q \/ p + Period <= q \/ q + Period <= p)
  BY <1>3
<1> HIDE DEF s, t, u, v, a, b, W, p, q
<1>8. QED
  BY <1>1, <1>2, <1>4, <1>5, <1>6, <1>7, PeriodIsPositive

(* Nodes with different slots whose clocks agree up to Margin never send   *)
(* at the same time: for any number of nodes and any lengths of period,    *)
(* slot, log lines and sends that leave Margin in a slot.                  *)
THEOREM SlotsDoNotCollide == Spec => []NoCollision
BY SlotsKeepApart, LoopInvHolds, PTL

(* A node sends once in every period of its clock, as long as its log      *)
(* lines outlast the tolerance.                                            *)
THEOREM SendsOncePerPeriod == Spec => NextPeriod
<1>1. ASSUME LoopInv, [Next]_vars, NEW n \in Node,
             sentIn'[n] # NoPeriod, sentIn[n] # NoPeriod,
             pc[n] # "send", pc'[n] = "send"
      PROVE  sentIn'[n] = sentIn[n] + Period
  <2>1. PICK m \in Node : NodeStep(m)
    BY <1>1 DEF Next, SinkTick, vars
  <2>2. SendBegins(n)
    <3>1. CASE NodeTick(m) \/ SinkAnswers(m) \/ AnswerLost(m)
      BY <1>1, <3>1 DEF NodeTick, SinkAnswers, AnswerLost
    <3>2. CASE AskFails(m) \/ TakesTime(m) \/ Restart(m)
      BY <1>1, <3>2 DEF AskFails, TakesTime, Restart, LoopInv, TypeOK
    <3>3. CASE PeriodStarts(m) \/ Printed(m) \/ SendEnds(m)
      BY <1>1, <3>3 DEF PeriodStarts, Printed, SendEnds, Step, LoopInv, TypeOK
    <3>4. CASE SendBegins(m)
      BY <1>1, <3>4 DEF SendBegins, Step, LoopInv, TypeOK
    <3>5. QED
      BY <2>1, <3>1, <3>2, <3>3, <3>4 DEF NodeStep
  <2>3. pc[n] = "offset" /\ sentIn'[n] = PeriodOf(systime[n])
    BY <1>1, <2>2 DEF SendBegins, Step, LoopInv, TypeOK
  <2>4. PeriodOf(last[n]) = sentIn[n] + Period
    BY <1>1, <2>3 DEF LoopInv, InRhythm, Timed
  <2>5. PeriodOf(systime[n]) = PeriodOf(last[n])
    BY <1>1, <2>2, OffsetInPeriod
  <2>6. QED
    BY <2>3, <2>4, <2>5
<1>2. LoopInv /\ [Next]_vars =>
        [\A n \in Node :
           (sentIn'[n] # NoPeriod /\ sentIn[n] # NoPeriod
              /\ pc[n] # "send" /\ pc'[n] = "send")
           => sentIn'[n] = sentIn[n] + Period]_vars
  BY <1>1
<1>3. QED
  BY <1>2, LoopInvHolds, PTL DEF Spec, NextPeriod
-----------------------------------------------------------------------------
(* How far a node's clock is from the sink's.                              *)

LEMMA ClockTypes ==
  ASSUME TypeOK, NEW n \in Node
  PROVE  /\ sinkTime \in Int /\ systime[n] \in Int /\ jump[n] \in Int
         /\ answers[n] \subseteq Nat
         /\ RetryMs * retries[n] \in Int /\ FixMs \in Int
         /\ MaxDrift \in Nat /\ MaxAge \in Nat
         /\ Timed \subseteq {"align", "print", "offset", "send"}
<1>1. RetryMs \in Nat /\ retries[n] \in Nat
  BY SlotsAssumption DEF TypeOK
<1>2. RetryMs * retries[n] \in Int
  BY <1>1
<1>3. QED
  BY <1>2, SlotsAssumption DEF TypeOK, Timed

(* A step that leaves the clock of m and the answers to it alone, and may  *)
(* only stop m.                                                            *)
LEMMA InTimeStays ==
  ASSUME NEW m \in Node, InTime(m),
         UNCHANGED <<sinkTime, systime[m], jump[m], retries[m], answers[m]>>,
         pc'[m] \in Timed => pc[m] \in Timed
  PROVE  InTime(m)'
BY DEF InTime, Drift, Corrected

LEMMA SinkTickInTime ==
  ASSUME TypeOK, SinkTick, NEW m \in Node, InTime(m)
  PROVE  InTime(m)'
<1>1. /\ sinkTime' = sinkTime + 1
      /\ UNCHANGED <<systime, jump, retries, answers, pc>>
      /\ pc[m] \in Timed => Drift(m) > -MaxDrift
      /\ \A stamp \in answers[m] : sinkTime - stamp < MaxAge
  BY DEF SinkTick
<1>2. \A stamp \in answers'[m] : sinkTime' - stamp \in 0 .. MaxAge
  BY <1>1, ClockTypes DEF InTime
<1>3. ASSUME pc'[m] \in Timed
      PROVE  /\ Drift(m)' \in -MaxDrift .. MaxDrift
             /\ Corrected(m, 0)' - jump'[m] \in 0 .. MaxAge
  <2>1. /\ Drift(m) \in -MaxDrift .. MaxDrift
        /\ Corrected(m, 0) - jump[m] \in 0 .. MaxAge
    BY <1>1, <1>3 DEF InTime
  <2>2. Drift(m)' = Drift(m) - 1
    BY <1>1, ClockTypes DEF Drift
  <2>3. Corrected(m, 0)' = Corrected(m, 0) /\ jump'[m] = jump[m]
    BY <1>1 DEF Corrected
  <2>4. QED
    BY <1>1, <1>3, <2>1, <2>2, <2>3, ClockTypes
<1>4. QED
  BY <1>2, <1>3 DEF InTime

LEMMA NodeTickInTime ==
  ASSUME TypeOK, NEW n \in Node, NodeTick(n), InTime(n)
  PROVE  InTime(n)'
<1>1. /\ systime'[n] = systime[n] + 1
      /\ UNCHANGED <<sinkTime, jump, retries, answers, pc>>
      /\ Drift(n) < MaxDrift
  BY DEF NodeTick, TypeOK
<1>2. Drift(n)' = Drift(n) + 1
  BY <1>1, ClockTypes DEF Drift
<1>3. Corrected(n, 0)' = Corrected(n, 0)
  BY <1>1 DEF Corrected
<1>4. QED
  BY <1>1, <1>2, <1>3, ClockTypes DEF InTime

(* The clock is set: what it is ahead is the correction less the age.      *)
LEMMA TakesTimeInTime ==
  ASSUME TypeOK, NEW n \in Node, TakesTime(n), InTime(n)
  PROVE  InTime(n)'
<1>1. PICK stamp \in answers[n] :
        /\ systime'[n] = Corrected(n, stamp)
        /\ jump'[n] = Corrected(n, stamp) - sinkTime
  BY DEF TakesTime, TypeOK
<1>2. UNCHANGED <<sinkTime, retries>> /\ answers'[n] = {}
  BY DEF TakesTime, TypeOK
<1>3. PICK added \in Int : added = RetryMs * retries[n]
  BY ClockTypes
<1>4. stamp \in Nat /\ sinkTime - stamp \in 0 .. MaxAge
  BY <1>1, ClockTypes DEF InTime
<1>5. /\ Corrected(n, stamp) = stamp + added + FixMs
      /\ Corrected(n, 0)' = 0 + added + FixMs
  BY <1>2, <1>3 DEF Corrected
<1>6. Drift(n)' = 0
  BY <1>1, <1>2, <1>3, <1>4, <1>5, ClockTypes DEF Drift
<1>7. Corrected(n, 0)' - jump'[n] \in 0 .. MaxAge
  BY <1>1, <1>3, <1>4, <1>5, ClockTypes
<1>8. QED
  BY <1>2, <1>6, <1>7, ClockTypes DEF InTime

LEMMA NodeStepInTime ==
  ASSUME TypeOK, NEW n \in Node, NodeStep(n), NEW m \in Node, InTime(m)
  PROVE  InTime(m)'
<1>1. CASE m # n
  <2>1. /\ UNCHANGED <<sinkTime, systime[m], jump[m], retries[m], answers[m]>>
        /\ pc'[m] = pc[m]
    <3>1. CASE NodeTick(n) \/ SinkAnswers(n) \/ AnswerLost(n) \/ AskFails(n)
      BY <1>1, <3>1 DEF TypeOK, NodeTick, SinkAnswers, AnswerLost, AskFails
    <3>2. CASE TakesTime(n) \/ Restart(n)
      BY <1>1, <3>2 DEF TypeOK, TakesTime, Restart
    <3>3. CASE PeriodStarts(n) \/ Printed(n) \/ SendBegins(n) \/ SendEnds(n)
      BY <1>1, <3>3
      DEF TypeOK, PeriodStarts, Printed, SendBegins, SendEnds, Step
    <3>4. QED
      BY <3>1, <3>2, <3>3 DEF NodeStep
  <2>2. QED
    BY <2>1, InTimeStays
<1>2. CASE m = n
  <2>1. CASE NodeTick(n)
    BY <1>2, <2>1, NodeTickInTime
  <2>2. CASE TakesTime(n)
    BY <1>2, <2>2, TakesTimeInTime
  <2>3. CASE SinkAnswers(n)
    <3>1. /\ UNCHANGED <<sinkTime, systime, jump, retries, pc>>
          /\ answers'[n] = answers[n] \cup {sinkTime}
      BY <2>3 DEF SinkAnswers, TypeOK
    <3>2. \A stamp \in answers'[n] : sinkTime' - stamp \in 0 .. MaxAge
      BY <1>2, <3>1, ClockTypes DEF InTime
    <3>3. QED
      BY <1>2, <3>1, <3>2 DEF InTime, Drift, Corrected
  <2>4. CASE AnswerLost(n)
    <3>1. /\ UNCHANGED <<sinkTime, systime, jump, retries, pc>>
          /\ answers'[n] \subseteq answers[n]
      BY <2>4 DEF AnswerLost, TypeOK
    <3>2. QED
      BY <1>2, <3>1 DEF InTime, Drift, Corrected
  <2>5. CASE AskFails(n)
    <3>1. /\ UNCHANGED <<sinkTime, answers>>
          /\ pc'[n] \in {"ask", "stopped"}
      BY <2>5 DEF AskFails, TypeOK
    <3>2. QED
      BY <1>2, <3>1 DEF InTime, Timed
  <2>6. CASE Restart(n)
    <3>1. pc'[n] = "ask" /\ answers'[n] = {}
      BY <2>6 DEF Restart, TypeOK
    <3>2. QED
      BY <1>2, <3>1 DEF InTime, Timed
  <2>7. CASE PeriodStarts(n) \/ Printed(n) \/ SendBegins(n) \/ SendEnds(n)
    <3>1. /\ UNCHANGED <<sinkTime, systime, jump, retries, answers>>
          /\ pc[n] \in Timed
      BY <2>7 DEF PeriodStarts, Printed, SendBegins, SendEnds, Step, Timed
    <3>2. QED
      BY <1>2, <3>1, InTimeStays
  <2>8. QED
    BY <2>1, <2>2, <2>3, <2>4, <2>5, <2>6, <2>7 DEF NodeStep
<1>3. QED
  BY <1>1, <1>2

LEMMA InitIInv == Init => IInv
<1>1. Init => \A n \in Node : InTime(n)
  BY DEF Init, InTime, Timed
<1>2. QED
  BY <1>1, InitLoopInv DEF IInv

LEMMA NextIInv == IInv /\ [Next]_vars => IInv'
<1> SUFFICES ASSUME IInv, [Next]_vars
             PROVE  IInv'
  OBVIOUS
<1>1. TypeOK
  BY DEF IInv, LoopInv
<1>2. ASSUME NEW m \in Node PROVE InTime(m)'
  <2>1. InTime(m)
    BY DEF IInv
  <2>2. CASE UNCHANGED vars
    BY <2>1, <2>2, InTimeStays DEF vars
  <2>3. QED
    BY <1>1, <2>1, <2>2, SinkTickInTime, NodeStepInTime DEF Next
<1>3. QED
  BY <1>2, NextLoopInv DEF IInv

(* Every step keeps the invariant: where each node is in its period, and   *)
(* how far its clock is from the sink's.                                   *)
THEOREM InvariantHolds == Spec => []IInv
BY InitIInv, NextIInv, PTL DEF Spec

(* The clocks of two nodes that send differ by what their failed requests  *)
(* add, the age of an answer and the drift of both.                        *)
LEMMA ClocksOfSenders ==
  ASSUME IInv, NEW m \in Node, NEW n \in Node, SetAlike(m, n),
         pc[m] = "send", pc[n] = "send"
  PROVE  Apart(systime[m], systime[n]) <= Margin
<1>1. TypeOK /\ InTime(m) /\ InTime(n)
  BY DEF IInv, LoopInv
<1>2. PICK a \in Int, b \in Int :
        a = RetryMs * retries[m] /\ b = RetryMs * retries[n]
  BY <1>1, ClockTypes
<1>3. PICK d \in Nat : d = RetryMs * Apart(retries[m], retries[n])
                      /\ a - b <= d /\ b - a <= d
  <2>1. RetryMs \in Nat /\ retries[m] \in Nat /\ retries[n] \in Nat
    BY <1>1, SlotsAssumption DEF TypeOK
  <2>2. \A k, x, y \in Nat :
          /\ x <= y => k * (y - x) \in Nat /\ k * (y - x) = k * y - k * x
          /\ k * x \in Nat
    OBVIOUS
  <2>3. CASE retries[m] <= retries[n]
    BY <1>2, <2>1, <2>2, <2>3 DEF Apart
  <2>4. CASE ~ (retries[m] <= retries[n])
    BY <1>2, <2>1, <2>2, <2>4 DEF Apart
  <2>5. QED
    BY <2>3, <2>4
<1>4. d + MaxAge + 2 * MaxDrift <= Margin /\ Margin \in Nat
  BY <1>3, Lengths DEF SetAlike
<1>5. /\ systime[m] - sinkTime - jump[m] \in -MaxDrift .. MaxDrift
      /\ a + FixMs - jump[m] \in 0 .. MaxAge
      /\ systime[n] - sinkTime - jump[n] \in -MaxDrift .. MaxDrift
      /\ b + FixMs - jump[n] \in 0 .. MaxAge
  <2>1. ASSUME NEW i \in Node, pc[i] = "send", InTime(i)
        PROVE  /\ systime[i] - sinkTime - jump[i] \in -MaxDrift .. MaxDrift
               /\ RetryMs * retries[i] + FixMs - jump[i] \in 0 .. MaxAge
    <3>1. /\ Drift(i) \in -MaxDrift .. MaxDrift
          /\ Corrected(i, 0) - jump[i] \in 0 .. MaxAge
      BY <2>1 DEF InTime, Timed
    <3>2. Drift(i) = systime[i] - sinkTime - jump[i]
      BY DEF Drift
    <3>3. Corrected(i, 0) = RetryMs * retries[i] + FixMs
      BY <1>1, ClockTypes DEF Corrected
    <3>4. QED
      BY <1>1, <3>1, <3>2, <3>3, ClockTypes
  <2>2. QED
    BY <1>1, <1>2, <2>1
<1>6. /\ sinkTime \in Int /\ FixMs \in Int /\ MaxDrift \in Nat /\ MaxAge \in Nat
      /\ systime[m] \in Int /\ jump[m] \in Int
      /\ systime[n] \in Int /\ jump[n] \in Int
  BY <1>1, ClockTypes
<1>7. /\ systime[m] - systime[n] <= Margin
      /\ systime[n] - systime[m] <= Margin
  BY <1>3, <1>4, <1>5, <1>6
<1>8. QED
  BY <1>6, <1>7 DEF Apart

(* Addresses closer than the number of slots have slots of their own.      *)
LEMMA NeighboursSlots ==
  ASSUME TypeOK, NEW m \in Node, NEW n \in Node,
         Apart(my_ip[m], my_ip[n]) \in 1 .. slotCount - 1
  PROVE  m # n /\ slotNumber(m) # slotNumber(n)
<1> DEFINE c == slotCount
           x == my_ip[m]
           y == my_ip[n]
<1>1. c \in Nat \ {0} /\ x \in Nat /\ y \in Nat
  BY SlotCount, SlotsAssumption DEF TypeOK
<1>2. /\ x - y < c /\ y - x < c /\ x # y
  BY <1>1 DEF Apart
<1>3. PICK j \in Int, k \in Int, r \in Int, s \in Int :
        /\ x = c * j + r /\ r = x % c
        /\ y = c * k + s /\ s = y % c
  <2> HIDE DEF c, x, y
  <2>1. /\ x = c * (x \div c) + (x % c) /\ x \div c \in Int /\ x % c \in Int
        /\ y = c * (y \div c) + (y % c) /\ y \div c \in Int /\ y % c \in Int
    BY <1>1
  <2>2. QED
    BY <2>1
<1>4. r # s
  <2> HIDE DEF c, x, y
  <2> SUFFICES ASSUME r = s
               PROVE  FALSE
    OBVIOUS
  <2>1. x - y = c * (j - k)
    <3>1. c * j \in Int /\ c * k \in Int /\ c * (j - k) = c * j - c * k
      BY <1>1
    <3>2. x = c * j + r /\ y = c * k + r
      BY <1>3
    <3>3. QED
      BY <3>1, <3>2
  <2>2. CASE j - k >= 1
    <3>1. c * (j - k) >= c
      BY <1>1, <2>2
    <3>2. QED
      BY <1>1, <1>2, <2>1, <3>1
  <2>3. CASE j - k <= -1
    <3>1. c * (j - k) <= -c
      BY <1>1, <2>3
    <3>2. QED
      BY <1>1, <1>2, <2>1, <3>1
  <2>4. CASE j = k
    BY <1>1, <1>2, <1>3, <2>4
  <2>5. QED
    BY <2>2, <2>3, <2>4
<1>5. QED
  BY <1>2, <1>3, <1>4 DEF slotNumber

(* Nodes that set their clocks after about as many failed requests, and    *)
(* whose addresses are closer than the number of slots, never send at      *)
(* once: the bound is on what happened, for any number of nodes, age of    *)
(* answers, drift and restarts.                                            *)
THEOREM SetAlikeDoNotCollide == Spec => []DisjointIfSetAlike
<1>1. IInv => DisjointIfSetAlike
  <2> SUFFICES ASSUME IInv, NEW m \in Node, NEW n \in Node, SetAlike(m, n),
                      Apart(my_ip[m], my_ip[n]) \in 1 .. slotCount - 1,
                      pc[m] = "send", pc[n] = "send"
               PROVE  FALSE
    BY DEF DisjointIfSetAlike
  <2>1. Apart(systime[m], systime[n]) <= Margin
    BY ClocksOfSenders
  <2>2. m # n /\ slotNumber(m) # slotNumber(n)
    BY NeighboursSlots DEF IInv, LoopInv
  <2>3. NoCollision
    BY SlotsKeepApart DEF IInv
  <2>4. QED
    BY <2>1, <2>2, <2>3 DEF NoCollision, Collide
<1>2. QED
  BY <1>1, InvariantHolds, PTL
=============================================================================
