----------------------------- MODULE BoardProofs -----------------------------
(***************************************************************************)
(* Proofs about a board: the inductive invariant of Boot and the state in  *)
(* which the application gets the radio; that a board with its timer       *)
(* interrupt and its application (Board) still starts as Boot says; and    *)
(* the clock of SysTime, with lemmas on words and the digits of a number.  *)
(***************************************************************************)
EXTENDS Board, SequenceTheorems, TLAPS

Setting == [role : Role, auto : BOOLEAN, profiles : BOOLEAN]

(* Storing one of the settings keeps their type.                           *)
LEMMA StoreType ==
  ASSUME TypeOK, NEW key \in {"role", "auto", "profiles"}, NEW value,
         value \in IF key = "role" THEN Role ELSE BOOLEAN,
         Store(key, value)
  PROVE  /\ stored' \in Setting
         /\ stored'[key] = value
         /\ \A other \in {"role", "auto", "profiles"} \ {key} :
              stored'[other] = stored[other]
         /\ role' = role /\ linked' = linked /\ events' = events
<1>1. stored \in Setting
  BY DEF TypeOK, Setting
<1>2. stored' = [stored EXCEPT ![key] = value]
  BY DEF Store
<1>3. CASE key = "role"
  BY <1>1, <1>2, <1>3 DEF Setting, Store
<1>4. CASE key # "role"
  BY <1>1, <1>2, <1>4 DEF Setting, Store
<1>5. QED
  BY <1>3, <1>4

(* No event, or one more, in the queue.                                    *)
LEMMA QueueType ==
  /\ <<>> \in Seq(Event)
  /\ \A q \in Seq(Event), event \in Event : Append(q, event) \in Seq(Event)
  /\ <<"IPACQUIRED">> \in Seq(Event)
BY DEF Event

(* The status and the timer, as TypeOK has them.                           *)
LEMMA SetTypes ==
  /\ {} \subseteq {"CONNECTION", "IP_AQUIRED"}
  /\ \A done \in {"enabled", "configured", "handler", "running"} :
       \A t \in SUBSET {"enabled", "configured", "handler", "running"} :
         t \cup {done} \subseteq {"enabled", "configured", "handler", "running"}
OBVIOUS

(* Powering up keeps the types and the stored settings; a station has no   *)
(* event of it.                                                            *)
LEMMA PowersUpType ==
  ASSUME TypeOK, PowersUp
  PROVE  /\ role' \in Role /\ role' = stored.role
         /\ stored' = stored /\ linked' = linked
         /\ events' \in Seq(Event)
         /\ role' # "AP" => events' = <<>>
<1>1. stored.role \in Role /\ stored' = stored /\ linked' = linked
  BY DEF TypeOK, PowersUp
<1>2. role' = stored.role
      /\ events' = IF stored.role = "AP" THEN <<"IPACQUIRED">> ELSE <<>>
  BY DEF PowersUp
<1>3. QED
  BY <1>1, <1>2, QueueType

(* The first state of a board satisfies the invariant.                     *)
LEMMA InitInv == Init => BootInv
<1> SUFFICES ASSUME Init PROVE BootInv
  OBVIOUS
<1>1. TypeOK
  BY QueueType DEF Init, TypeOK, Calls, WaitLoops, TimerCalls
<1>2. QED
  BY <1>1
     DEF Init, BootInv, Off, Stored, Configuring, Started, Unlinked, TimerCalls

(* A step of the host reaches the next program point with what it promises. *)
LEMMA HostStepInv == BootInv /\ HostStep => BootInv'
<1> SUFFICES ASSUME BootInv, HostStep PROVE BootInv'
  OBVIOUS
<1> USE DEF BootInv, Off, Stored, Configuring, Started, Unlinked, AsStation,
            Calls, WaitLoops, TimerCalls, Goes
<1>0. TypeOK /\ resets' = resets
  BY DEF HostStep
<1>1. CASE BoardInit
  BY <1>0, <1>1
     DEF BoardInit, InitializeAppVariables, nwpVars, TypeOK
<1>2. CASE Starts
  BY <1>0, <1>2, PowersUpType DEF Starts, hostVars, TypeOK, Role
<1>3. CASE HasIp
  BY <1>0, <1>3 DEF HasIp, nwpVars, hostVars, TypeOK
<1>4. CASE SetsMode
  <2>1. "role" \in {"role", "auto", "profiles"} /\ "STA" \in Role
    BY DEF Role
  <2>2. Store("role", "STA")
    BY <1>4 DEF SetsMode
  <2>3. /\ stored' \in Setting /\ stored'.role = "STA"
        /\ role' = role /\ linked' = linked /\ events' = events
    BY <1>0, <2>1, <2>2, StoreType
  <2>4. QED
    BY <1>0, <1>4, <2>3 DEF SetsMode, hostVars, TypeOK, Setting
<1>5. CASE StopsForMode
  BY <1>0, <1>5, QueueType DEF StopsForMode, PowersDown, hostVars, TypeOK
<1>6. CASE StartsInMode
  BY <1>0, <1>6, PowersUpType DEF StartsInMode, hostVars, TypeOK, Role
<1>7. CASE GetsVersion
  BY <1>0, <1>7 DEF GetsVersion, nwpVars, hostVars, TypeOK
<1>8. CASE SetsPolicy
  <2>1. "auto" \in {"role", "auto", "profiles"} /\ "auto" # "role"
    OBVIOUS
  <2>2. Store("auto", TRUE)
    BY <1>8 DEF SetsPolicy
  <2>3. /\ stored' \in Setting /\ stored'.role = stored.role
        /\ role' = role /\ linked' = linked /\ events' = events
    BY <1>0, <2>1, <2>2, StoreType
  <2>4. QED
    BY <1>0, <1>8, <2>3 DEF SetsPolicy, hostVars, TypeOK, Setting
<1>9. CASE DeletesProfiles
  <2>1. "profiles" \in {"role", "auto", "profiles"} /\ "profiles" # "role"
    OBVIOUS
  <2>2. Store("profiles", FALSE)
    BY <1>9 DEF DeletesProfiles
  <2>3. /\ stored' \in Setting /\ stored'.role = stored.role
        /\ stored'.profiles = FALSE
        /\ role' = role /\ linked' = linked /\ events' = events
    BY <1>0, <2>1, <2>2, StoreType
  <2>4. QED
    BY <1>0, <1>9, <2>3 DEF DeletesProfiles, hostVars, TypeOK, Setting
<1>10. CASE Disconnects
  <2>1. "DISCONNECT" \in Event
    BY DEF Event
  <2>2. events' \in Seq(Event)
    BY <1>0, <1>10, <2>1, QueueType DEF Disconnects, TypeOK
  <2>3. TypeOK'
    BY <1>0, <1>10, <2>2 DEF Disconnects, hostVars, TypeOK
  <2>4. QED
    BY <1>10, <2>3 DEF Disconnects
<1>11. CASE HasDisconnected
  BY <1>0, <1>11 DEF HasDisconnected, nwpVars, hostVars, TypeOK
<1>12. CASE Configures
  BY <1>0, <1>12 DEF Configures, nwpVars, hostVars, TypeOK
<1>13. CASE Stops
  <2>1. TypeOK'
    BY <1>0, <1>13, QueueType, SetTypes
       DEF Stops, PowersDown, InitializeAppVariables, TypeOK
  <2>2. QED
    BY <1>13, <2>1 DEF Stops, PowersDown, InitializeAppVariables
<1>14. CASE StartsAsStation
  BY <1>0, <1>14, PowersUpType DEF StartsAsStation, hostVars, TypeOK, Role
<1>15. CASE ClearsPolicy
  <2>1. "auto" \in {"role", "auto", "profiles"} /\ "auto" # "role"
    OBVIOUS
  <2>2. Store("auto", FALSE)
    BY <1>15 DEF ClearsPolicy
  <2>3. /\ stored' \in Setting /\ stored'.role = stored.role
        /\ stored'.profiles = stored.profiles
        /\ role' = role /\ linked' = linked /\ events' = events
    BY <1>0, <2>1, <2>2, StoreType
  <2>4. QED
    BY <1>0, <1>15, <2>3 DEF ClearsPolicy, hostVars, TypeOK, Setting
<1>16. CASE GetsMac
  BY <1>0, <1>16 DEF GetsMac, nwpVars, hostVars, TypeOK
<1>17. CASE SetsUpTimer
  <2>1. PICK done \in {"configured", "handler", "running"} :
          timer' = timer \cup {done}
    BY <1>17 DEF SetsUpTimer, SetsTimer, Timer_IF_Init,
        Timer_IF_IntSetup, Timer_IF_Start
  <2>2. UNCHANGED <<nwpVars, g_ulStatus, g_ulGatewayIP>>
    BY <1>17 DEF SetsUpTimer, SetsTimer, Timer_IF_Init,
        Timer_IF_IntSetup, Timer_IF_Start
  <2>3. pc \in TimerCalls /\ pc' \in TimerCalls \cup {"app"}
    BY <1>17 DEF SetsUpTimer, SetsTimer, Timer_IF_Init,
        Timer_IF_IntSetup, Timer_IF_Start
  <2>4. timer' \subseteq {"enabled", "configured", "handler", "running"}
    BY <1>0, <2>1 DEF TypeOK
  <2>5. TypeOK'
    BY <1>0, <2>2, <2>3, <2>4 DEF nwpVars, TypeOK
  <2>6. QED
    BY <2>2, <2>3, <2>5 DEF nwpVars
<1>18. CASE CallFails
  BY <1>0, <1>18 DEF CallFails, nwpVars, hostVars, TypeOK
<1>19. QED
  BY <1>1, <1>2, <1>3, <1>4, <1>5, <1>6, <1>7, <1>8, <1>9, <1>10, <1>11,
     <1>12, <1>13, <1>14, <1>15, <1>16, <1>17, <1>18 DEF HostStep

(* An event handler changes the status only while an event is queued, and  *)
(* then the radio has not been made ready.                                 *)
LEMMA HandlesEventInv == BootInv /\ HandlesEvent => BootInv'
<1> SUFFICES ASSUME BootInv, HandlesEvent PROVE BootInv'
  OBVIOUS
<1>1. TypeOK /\ events # <<>>
  BY DEF BootInv, HandlesEvent
<1>2. Head(events) \in Event /\ Tail(events) \in Seq(Event)
  BY <1>1 DEF TypeOK
<1>3. Handled(Head(events)) \subseteq {"CONNECTION", "IP_AQUIRED"}
  BY <1>1, <1>2 DEF Handled, Event, TypeOK
<1>4. TypeOK'
  BY <1>1, <1>2, <1>3 DEF HandlesEvent, TypeOK
<1>5. QED
  BY <1>1, <1>4
     DEF BootInv, HandlesEvent, Off, Stored, Configuring, Started, Unlinked,
         AsStation

(* The network processor cannot connect once its profiles are gone, and    *)
(* reports nothing while it is not connected.                              *)
LEMMA NwpStepInv == BootInv /\ NwpStep => BootInv'
<1> SUFFICES ASSUME BootInv, NwpStep PROVE BootInv'
  OBVIOUS
<1>1. PICK event \in Event : Reports(event)
  BY DEF NwpStep, Event
<1>2. linked' \in BOOLEAN /\ (linked \/ CanConnect)
  BY DEF NwpStep, BootInv, TypeOK
<1>3. TypeOK'
  BY <1>1, <1>2 DEF BootInv, TypeOK, Reports, hostVars
<1>4. pc \notin Unlinked
  BY <1>2 DEF BootInv, CanConnect
<1>5. pc' = pc /\ stored' = stored /\ role' = role
  BY <1>1 DEF Reports
<1>6. QED
  BY <1>3, <1>4, <1>5
     DEF BootInv, Unlinked, Started, AsStation

(* A reset keeps what the network processor has stored.                    *)
LEMMA ResetInv == BootInv /\ Reset => BootInv'
<1> SUFFICES ASSUME BootInv, Reset PROVE BootInv'
  OBVIOUS
<1>1. resets' \in Nat /\ stored' = stored
  BY DEF BootInv, TypeOK, Reset
<1>2. TypeOK'
  BY <1>1, QueueType, SetTypes DEF BootInv, TypeOK, Reset
<1>3. QED
  BY <1>2
     DEF BootInv, Reset, Off, Stored, Configuring, Started, Unlinked,
         TimerCalls

(* Every step keeps the invariant, ...                                     *)
LEMMA NextInv == BootInv /\ [Next]_vars => BootInv'
<1> SUFFICES ASSUME BootInv, [Next]_vars PROVE BootInv'
  OBVIOUS
<1>1. CASE UNCHANGED vars
  BY <1>1
     DEF vars, BootInv, TypeOK, AsStation
<1>2. QED
  BY <1>1, HostStepInv, HandlesEventInv, NwpStepInv, ResetInv DEF Next

(* ... so it holds: whatever the network processor kept from the last      *)
(* start, the start brings it to the state the program points promise.     *)
THEOREM InvariantHolds == Spec => []BootInv
<1>1. QED
  BY InitInv, NextInv, PTL DEF Spec
-----------------------------------------------------------------------------
(* The application gets a station without a connection, without the means  *)
(* to make one and without an event left over.                             *)
THEOREM RadioIsReady == Spec => []RadioReady
<1>1. BootInv => RadioReady
  BY DEF BootInv, RadioReady, Started, Unlinked, AsStation, CanConnect,
         TimerCalls
<1>2. QED
  BY <1>1, InvariantHolds, PTL
-----------------------------------------------------------------------------
(* A board starts as Boot says: neither the timer interrupt nor the        *)
(* application disturbs the start, and a reset of the board is one of the  *)
(* network processor.                                                      *)
THEOREM BoardStarts == BoardSpec => Spec
<1>1. PowerOn => Init
  BY DEF PowerOn
<1>2. ASSUME [BoardNext]_boardVars PROVE [Next]_vars
  BY <1>2
     DEF BoardNext, boardVars, Starting, Handling, Radio, BoardReset,
         Interrupt, Runs, Next
<1>3. QED
  BY <1>1, <1>2, PTL DEF BoardSpec, Spec

(* So the radio of a board is ready whenever its application runs.         *)
THEOREM BoardRadioReady == BoardSpec => []RadioReady
BY BoardStarts, RadioIsReady, PTL
-----------------------------------------------------------------------------
(* Arithmetic: words, and unsigned long longs of two of them.              *)
LEMMA ByteSquared ==
  /\ BYTE * BYTE \in Nat /\ BYTE * BYTE >= 4
  /\ BYTE * BYTE * BYTE \in Nat /\ BYTE * BYTE * BYTE >= 8
<1>1. BYTE \in Nat /\ BYTE >= 2
  BY SysTimeAssumption
<1>2. BYTE * BYTE \in Nat /\ BYTE * BYTE >= 4
  BY <1>1
<1>3. QED
  <2> DEFINE b == BYTE * BYTE
  <2>1. b \in Nat /\ b >= 4
    BY <1>2
  <2> HIDE DEF b
  <2>2. b * BYTE \in Nat /\ b * BYTE >= 8
    BY <1>1, <2>1
  <2>3. QED
    BY <1>2, <2>2 DEF b

LEMMA Sizes ==
  /\ WORD \in Nat /\ WORD >= 16
  /\ ULL \in Nat /\ ULL >= 16 * WORD
<1>1. WORD \in Nat /\ WORD >= 16
  <2> DEFINE b == BYTE * BYTE * BYTE
  <2>1. b \in Nat /\ b >= 8 /\ BYTE \in Nat /\ BYTE >= 2
    BY ByteSquared, SysTimeAssumption
  <2>2. WORD = b * BYTE
    BY DEF WORD
  <2> HIDE DEF b
  <2>3. b * BYTE \in Nat /\ b * BYTE >= 16
    BY <2>1
  <2>4. QED
    BY <2>2, <2>3
<1>2. WORD * WORD \in Nat /\ WORD * WORD >= 16 * WORD
  BY <1>1
<1>3. QED
  BY <1>1, <1>2 DEF ULL

(* The quotient and the remainder of a number: they make it up, ...        *)
LEMMA Division ==
  ASSUME NEW t \in Nat, NEW k \in Nat \ {0}
  PROVE  /\ t % k \in 0 .. k - 1 /\ t \div k \in Nat
         /\ t = k * (t \div k) + (t % k)
OBVIOUS

(* ... and no others do.                                                   *)
LEMMA DivisionIsUnique ==
  ASSUME NEW k \in Nat \ {0}, NEW i \in Int, NEW j \in Int,
         NEW r \in 0 .. k - 1, NEW s \in 0 .. k - 1,
         k * i + r = k * j + s
  PROVE  i = j /\ r = s
<1>1. k * (i - j) = s - r
  OBVIOUS
<1>2. CASE i - j >= 1
  <2>1. k * (i - j) >= k
    BY <1>2
  <2>2. QED
    BY <1>1, <2>1
<1>3. CASE i - j <= -1
  <2>1. k * (i - j) <= -k
    BY <1>3
  <2>2. QED
    BY <1>1, <2>1
<1>4. CASE i = j
  BY <1>4
<1>5. QED
  BY <1>2, <1>3, <1>4

LEMMA DivisionOf ==
  ASSUME NEW k \in Nat \ {0}, NEW q \in Nat, NEW r \in 0 .. k - 1
  PROVE  (k * q + r) % k = r /\ (k * q + r) \div k = q
<1> DEFINE t == k * q + r
<1>1. t \in Nat
  <2>1. k * q \in Nat
    OBVIOUS
  <2>2. QED
    BY <2>1
<1>2. t = k * q + r
  OBVIOUS
<1> HIDE DEF t
<1>3. /\ t % k \in 0 .. k - 1 /\ t \div k \in Nat
      /\ t = k * (t \div k) + (t % k)
  BY <1>1, Division
<1>4. t \div k = q /\ t % k = r
  <2> DEFINE i == t \div k
             s == t % k
  <2>1. i \in Int /\ s \in 0 .. k - 1 /\ q \in Int /\ k * i + s = k * q + r
    BY <1>2, <1>3
  <2> HIDE DEF i, s
  <2>2. i = q /\ s = r
    BY <2>1, DivisionIsUnique
  <2>3. QED
    BY <2>2 DEF i, s
<1>5. QED
  BY <1>4 DEF t

(* Dividing twice divides by the product.                                  *)
LEMMA DivisionTwice ==
  ASSUME NEW t \in Nat, NEW k \in Nat \ {0}, NEW m \in Nat \ {0}
  PROVE  (t \div k) \div m = t \div (k * m)
<1> DEFINE q == t \div k
           r == t % k
           d == q \div m
           e == q % m
<1>1. q \in Nat /\ r \in 0 .. k - 1 /\ t = k * q + r
  BY Division
<1>2. d \in Nat /\ e \in 0 .. m - 1 /\ q = m * d + e
  <2> HIDE DEF q
  <2>1. QED
    BY <1>1, Division
<1> HIDE DEF q, r, d, e
<1>3. t = (k * m) * d + (k * e + r)
  <2>1. k * q = k * (m * d) + k * e
    BY <1>2
  <2>2. k * (m * d) = (k * m) * d
    BY <1>2
  <2>3. k * e \in Int /\ k * (m * d) \in Int
    BY <1>2
  <2>4. QED
    BY <1>1, <2>1, <2>2, <2>3
<1>4. k * e + r \in 0 .. k * m - 1 /\ k * m \in Nat \ {0}
  <2>1. k * e <= k * (m - 1) /\ k * e \in Nat
    BY <1>2
  <2>2. k * (m - 1) = k * m - k
    OBVIOUS
  <2>3. k * m \in Nat /\ k * m > 0
    OBVIOUS
  <2>4. QED
    BY <1>1, <2>1, <2>2, <2>3
<1>5. t \div (k * m) = d
  <2> DEFINE p == k * m
             s == k * e + r
  <2>1. p \in Nat \ {0} /\ s \in 0 .. p - 1 /\ t = p * d + s
    BY <1>3, <1>4
  <2> HIDE DEF p, s
  <2>2. t \div p = d
    BY <1>2, <2>1, DivisionOf
  <2>3. QED
    BY <2>2 DEF p
<1>6. QED
  BY <1>5 DEF d, q

(* Sums and differences of unsigned long longs.                            *)
LEMMA SumWraps ==
  ASSUME NEW t \in 0 .. ULL + ULL - 1
  PROVE  t % ULL = IF t < ULL THEN t ELSE t - ULL
<1>1. ULL \in Nat \ {0} /\ t \in Nat
  BY Sizes
<1>2. CASE t < ULL
  <2>1. (ULL * 0 + t) % ULL = t
    BY <1>1, <1>2, DivisionOf
  <2>2. ULL * 0 + t = t
    BY <1>1
  <2>3. QED
    BY <1>2, <2>1, <2>2
<1>3. CASE ~(t < ULL)
  <2> DEFINE r == t - ULL
  <2>1. r \in 0 .. ULL - 1
    BY <1>1, <1>3
  <2> HIDE DEF r
  <2>2. (ULL * 1 + r) % ULL = r
    BY <1>1, <2>1, DivisionOf
  <2>3. ULL * 1 + r = t
    BY <1>1 DEF r
  <2>4. QED
    BY <1>3, <2>2, <2>3 DEF r
<1>4. QED
  BY <1>2, <1>3

LEMMA Sums ==
  ASSUME NEW m \in 0 .. ULL - 1, NEW n \in 0 .. ULL - 1
  PROVE  /\ Plus(m, n) = IF m + n < ULL THEN m + n ELSE m + n - ULL
         /\ Minus(m, n) = IF n <= m THEN m - n ELSE m + ULL - n
         /\ Plus(m, n) \in 0 .. ULL - 1 /\ Minus(m, n) \in 0 .. ULL - 1
<1>1. ULL \in Nat /\ ULL > 0
  BY Sizes
<1>2. Plus(m, n) = IF m + n < ULL THEN m + n ELSE m + n - ULL
  <2> DEFINE t == m + n
  <2>1. t \in 0 .. ULL + ULL - 1
    BY <1>1
  <2> HIDE DEF t
  <2>2. t % ULL = IF t < ULL THEN t ELSE t - ULL
    BY <2>1, SumWraps
  <2>3. Plus(m, n) = t % ULL /\ m + n = t
    BY DEF Plus, t
  <2>4. QED
    BY <1>1, <2>1, <2>2, <2>3
<1>3. Minus(m, n) = IF n <= m THEN m - n ELSE m + ULL - n
  <2> DEFINE t == m + ULL - n
  <2>1. t \in 0 .. ULL + ULL - 1
    BY <1>1
  <2>2. n <= m <=> ~(t < ULL)
    BY <1>1
  <2>3. t - ULL = m - n
    BY <1>1
  <2> HIDE DEF t
  <2>4. t % ULL = IF t < ULL THEN t ELSE t - ULL
    BY <2>1, SumWraps
  <2>5. Minus(m, n) = t % ULL /\ m + ULL - n = t
    BY DEF Minus, t
  <2>6. QED
    BY <2>2, <2>3, <2>4, <2>5
<1>4. QED
  BY <1>1, <1>2, <1>3

(* A number of two words, and two words of a number.                       *)
LEMMA Halves ==
  ASSUME NEW t \in 0 .. ULL - 1
  PROVE  /\ t % WORD \in 0 .. WORD - 1 /\ t \div WORD \in 0 .. WORD - 1
         /\ t = (t \div WORD) * WORD + (t % WORD)
<1> DEFINE h == t \div WORD
           l == t % WORD
<1>1. WORD \in Nat \ {0} /\ ULL \in Nat /\ ULL = WORD * WORD /\ t \in Nat
  BY Sizes DEF ULL
<1>2. l \in 0 .. WORD - 1 /\ h \in Nat /\ t = WORD * h + l
  BY <1>1, Division
<1> HIDE DEF h, l
<1>3. h <= WORD - 1
  <2>1. SUFFICES ASSUME h >= WORD PROVE FALSE
    BY <1>1, <1>2
  <2>2. WORD * h >= WORD * WORD
    BY <1>1, <1>2, <2>1
  <2>3. WORD * h \in Int /\ t < WORD * WORD
    BY <1>1, <1>2
  <2>4. QED
    BY <1>1, <1>2, <2>2, <2>3
<1>4. WORD * h = h * WORD
  BY <1>1, <1>2
<1>5. QED
  BY <1>1, <1>2, <1>3, <1>4 DEF h, l

LEMMA TwoWords ==
  ASSUME NEW h \in 0 .. WORD - 1, NEW l \in 0 .. WORD - 1
  PROVE  /\ h * WORD + l \in 0 .. ULL - 1
         /\ (h * WORD + l) % WORD = l
         /\ (h * WORD + l) \div WORD = h
<1>1. WORD \in Nat \ {0} /\ ULL = WORD * WORD /\ h \in Nat
  BY Sizes DEF ULL
<1>2. WORD * h = h * WORD
  BY <1>1
<1>3. (WORD * h + l) % WORD = l /\ (WORD * h + l) \div WORD = h
  BY <1>1, DivisionOf
<1>4. h * WORD \in Nat /\ h * WORD <= (WORD - 1) * WORD
  BY <1>1
<1>5. (WORD - 1) * WORD = WORD * WORD - WORD /\ WORD * WORD \in Nat
  BY <1>1
<1>6. h * WORD + l \in 0 .. ULL - 1
  BY <1>1, <1>4, <1>5
<1>7. QED
  BY <1>2, <1>3, <1>6

(* A tick changes the low word, and carries into the high one.             *)
LEMMA NextWords ==
  ASSUME NEW t \in 0 .. ULL - 1
  PROVE  /\ Plus(t, 1) \in 0 .. ULL - 1
         /\ t % WORD # WORD - 1 =>
              /\ Plus(t, 1) % WORD = (t % WORD) + 1
              /\ Plus(t, 1) \div WORD = t \div WORD
         /\ t % WORD = WORD - 1 =>
              /\ Plus(t, 1) % WORD = 0
              /\ Plus(t, 1) \div WORD =
                   IF t \div WORD = WORD - 1 THEN 0 ELSE (t \div WORD) + 1
<1> DEFINE h == t \div WORD
           l == t % WORD
<1>1. /\ WORD \in Nat /\ WORD >= 16 /\ ULL \in Nat /\ ULL >= 16 * WORD
      /\ 1 \in 0 .. ULL - 1
  BY Sizes
<1>2. ULL = (WORD - 1) * WORD + WORD /\ (WORD - 1) * WORD \in Int
  BY <1>1 DEF ULL
<1>3. l \in 0 .. WORD - 1 /\ h \in 0 .. WORD - 1 /\ t = h * WORD + l
  BY Halves
<1>4. /\ Plus(t, 1) = IF t + 1 < ULL THEN t + 1 ELSE t + 1 - ULL
      /\ Plus(t, 1) \in 0 .. ULL - 1
  BY <1>1, Sums
<1> HIDE DEF h, l
<1>5. CASE l # WORD - 1
  <2>1. l + 1 \in 0 .. WORD - 1
    BY <1>1, <1>3, <1>5
  <2>2. /\ h * WORD + (l + 1) \in 0 .. ULL - 1
        /\ (h * WORD + (l + 1)) % WORD = l + 1
        /\ (h * WORD + (l + 1)) \div WORD = h
    BY <1>3, <2>1, TwoWords
  <2>3. h * WORD \in Int
    BY <1>1, <1>3
  <2>4. t + 1 = h * WORD + (l + 1)
    BY <1>1, <1>3, <2>3
  <2>5. Plus(t, 1) = h * WORD + (l + 1)
    BY <1>1, <1>4, <2>2, <2>4
  <2>6. QED
    BY <1>4, <1>5, <2>2, <2>5 DEF h, l
<1>6. CASE l = WORD - 1 /\ h # WORD - 1
  <2>1. h + 1 \in 0 .. WORD - 1 /\ 0 \in 0 .. WORD - 1
    BY <1>1, <1>3, <1>6
  <2>2. /\ (h + 1) * WORD + 0 \in 0 .. ULL - 1
        /\ ((h + 1) * WORD + 0) % WORD = 0
        /\ ((h + 1) * WORD + 0) \div WORD = h + 1
    BY <2>1, TwoWords
  <2>3. h * WORD \in Int /\ (h + 1) * WORD = h * WORD + WORD
    BY <1>1, <1>3
  <2>4. t + 1 = (h + 1) * WORD + 0
    BY <1>1, <1>3, <1>6, <2>3
  <2>5. Plus(t, 1) = (h + 1) * WORD + 0
    BY <1>1, <1>4, <2>2, <2>4
  <2>6. QED
    BY <1>4, <1>6, <2>2, <2>5 DEF h, l
<1>7. CASE l = WORD - 1 /\ h = WORD - 1
  <2>1. t + 1 = ULL
    BY <1>1, <1>2, <1>3, <1>7
  <2>2. Plus(t, 1) = 0
    BY <1>1, <1>4, <2>1
  <2>3. 0 \in 0 .. WORD - 1
    BY <1>1
  <2>4. (0 * WORD + 0) % WORD = 0 /\ (0 * WORD + 0) \div WORD = 0
    BY <2>3, TwoWords
  <2>5. 0 * WORD + 0 = 0
    BY <1>1
  <2>6. QED
    BY <1>4, <1>7, <2>2, <2>4, <2>5 DEF h, l
<1>8. QED
  BY <1>5, <1>6, <1>7 DEF l

(* The high word of a time and the low word of the one before it.          *)
LEMMA TornRead ==
  ASSUME NEW t \in 0 .. ULL - 1
  PROVE  (Plus(t, 1) \div WORD) * WORD + (t % WORD) =
           IF Plus(t, 1) % WORD = 0 THEN Plus(t, WORD) ELSE t
<1> DEFINE h == t \div WORD
           l == t % WORD
<1>1. /\ WORD \in Nat /\ WORD >= 16 /\ ULL \in Nat /\ ULL >= 16 * WORD
      /\ WORD \in 0 .. ULL - 1
  BY Sizes
<1>2. ULL = (WORD - 1) * WORD + WORD /\ (WORD - 1) * WORD \in Int
  BY <1>1 DEF ULL
<1>3. l \in 0 .. WORD - 1 /\ h \in 0 .. WORD - 1 /\ t = h * WORD + l
  BY Halves
<1>4. Plus(t, WORD) = IF t + WORD < ULL THEN t + WORD ELSE t + WORD - ULL
  BY <1>1, Sums
<1>5. /\ l # WORD - 1 =>
           Plus(t, 1) % WORD = l + 1 /\ Plus(t, 1) \div WORD = h
      /\ l = WORD - 1 =>
           /\ Plus(t, 1) % WORD = 0
           /\ Plus(t, 1) \div WORD = IF h = WORD - 1 THEN 0 ELSE h + 1
  BY NextWords
<1> HIDE DEF h, l
<1>6. CASE l # WORD - 1
  BY <1>1, <1>3, <1>5, <1>6 DEF l
<1>7. CASE l = WORD - 1 /\ h # WORD - 1
  <2>1. /\ (h + 1) * WORD = h * WORD + WORD /\ h * WORD \in Int
        /\ h * WORD <= (WORD - 1) * WORD - WORD
    <3>1. h \in Int /\ h <= WORD - 2
      BY <1>1, <1>3, <1>7
    <3>2. h * WORD <= (WORD - 2) * WORD
      BY <1>1, <3>1
    <3>3. (WORD - 2) * WORD = (WORD - 1) * WORD - WORD
      BY <1>1
    <3>4. (h + 1) * WORD = h * WORD + WORD /\ h * WORD \in Int
      BY <1>1, <3>1
    <3>5. QED
      BY <3>2, <3>3, <3>4
  <2>2. t + WORD < ULL
    BY <1>1, <1>2, <1>3, <1>7, <2>1
  <2>3. Plus(t, WORD) = (h + 1) * WORD + l
    BY <1>1, <1>3, <1>4, <2>1, <2>2
  <2>4. QED
    BY <1>5, <1>7, <2>3 DEF l
<1>8. CASE l = WORD - 1 /\ h = WORD - 1
  <2>1. t + WORD = ULL + l
    BY <1>1, <1>2, <1>3, <1>8
  <2>2. Plus(t, WORD) = l
    BY <1>1, <1>3, <1>4, <2>1
  <2>3. 0 * WORD + l = l
    BY <1>1, <1>3
  <2>4. QED
    BY <1>5, <1>8, <2>2, <2>3 DEF l
<1>9. QED
  BY <1>6, <1>7, <1>8
-----------------------------------------------------------------------------
(* Encoding: the bytes of a number, and the number back from them.         *)
LEMMA Weights ==
  /\ Weight[8] = 1 /\ Weight[7] = BYTE /\ Weight[6] = Weight[7] * BYTE
  /\ Weight[5] = Weight[6] * BYTE /\ Weight[4] = Weight[5] * BYTE
  /\ Weight[4] = WORD
  /\ Weight[3] = Weight[4] * BYTE /\ Weight[2] = Weight[3] * BYTE
  /\ Weight[1] = Weight[2] * BYTE /\ ULL = Weight[1] * BYTE
  /\ \A i \in 1 .. 8 : Weight[i] \in Nat \ {0}
<1>1. /\ Weight[8] = 1 /\ Weight[7] = BYTE /\ Weight[6] = BYTE * BYTE
      /\ Weight[5] = BYTE * BYTE * BYTE /\ Weight[4] = WORD
      /\ Weight[3] = WORD * BYTE /\ Weight[2] = WORD * BYTE * BYTE
      /\ Weight[1] = WORD * BYTE * BYTE * BYTE
  BY DEF Weight
<1>2. BYTE \in Nat \ {0} /\ WORD \in Nat \ {0}
  BY SysTimeAssumption, Sizes
<1>3. \A i, j \in Nat \ {0} : i * j \in Nat \ {0}
  OBVIOUS
<1>4. WORD = Weight[5] * BYTE
  BY <1>1 DEF WORD
<1>5. ULL = WORD * BYTE * BYTE * BYTE * BYTE
  <2> DEFINE b == BYTE * BYTE
  <2>1. b \in Nat
    BY ByteSquared
  <2>2. ULL = WORD * (b * BYTE * BYTE) /\ Weight[2] = WORD * BYTE * BYTE
    BY <1>1 DEF ULL, WORD
  <2>3. WORD * BYTE * BYTE = WORD * b
    BY <1>2
  <2> HIDE DEF b
  <2>4. WORD * (b * BYTE * BYTE) = WORD * b * BYTE * BYTE
    BY <1>2, <2>1
  <2>5. QED
    BY <2>2, <2>3, <2>4
<1>6. \A i \in 1 .. 8 : Weight[i] \in Nat \ {0}
  <2>1. Weight[7] \in Nat \ {0}
    BY <1>1, <1>2
  <2>2. Weight[6] \in Nat \ {0}
    BY <1>1, <1>2, <1>3
  <2>3. Weight[5] \in Nat \ {0}
    BY <1>1, <1>2, <1>3, <2>2
  <2>4. Weight[3] \in Nat \ {0}
    BY <1>1, <1>2, <1>3
  <2>5. Weight[2] \in Nat \ {0}
    BY <1>1, <1>2, <1>3, <2>4
  <2>6. Weight[1] \in Nat \ {0}
    BY <1>1, <1>2, <1>3, <2>5
  <2>7. QED
    BY <1>1, <1>2, <2>1, <2>2, <2>3, <2>4, <2>5, <2>6
<1>7. QED
  BY <1>1, <1>2, <1>4, <1>5, <1>6

(* What is left of a number above one byte, and that byte.                 *)
LEMMA OneByte ==
  ASSUME NEW t \in Nat, NEW w \in Nat \ {0}
  PROVE  /\ (t \div w) % BYTE \in 0 .. BYTE - 1
         /\ t \div w \in Nat
         /\ w * (t \div w) =
              (w * BYTE) * (t \div (w * BYTE)) + ((t \div w) % BYTE) * w
<1> DEFINE q == t \div w
           r == q % BYTE
           p == q \div BYTE
<1>1. BYTE \in Nat \ {0} /\ q \in Nat
  BY SysTimeAssumption, Division
<1>2. p = t \div (w * BYTE)
  BY <1>1, DivisionTwice
<1> HIDE DEF q
<1>3. r \in 0 .. BYTE - 1 /\ p \in Nat /\ q = BYTE * p + r
  BY <1>1, Division
<1> HIDE DEF r, p
<1>4. w * q = w * (BYTE * p) + w * r
  BY <1>1, <1>3
<1>5. w * (BYTE * p) = (w * BYTE) * p /\ w * r = r * w
  BY <1>1, <1>3
<1>6. w * q = (w * BYTE) * p + r * w
  BY <1>4, <1>5
<1>7. QED
  BY <1>1, <1>2, <1>3, <1>6 DEF q, r

(* The bytes of a number make it up.                                       *)
LEMMA BytesMakeUp ==
  ASSUME NEW t \in 0 .. ULL - 1,
         NEW b, b = UTIL_convert_unsigned_long_long_to_8bytes(t)
  PROVE  /\ b \in [1 .. 8 -> 0 .. BYTE - 1]
         /\ UTIL_convert_8Bytes_to_unsigned_long_long(b) = t
<1> DEFINE q(i) == Weight[i] * (t \div Weight[i])
           d(i) == ((t \div Weight[i]) % BYTE) * Weight[i]
<1>1. t \in Nat /\ ULL \in Nat \ {0} /\ BYTE \in Nat \ {0}
  BY Sizes, SysTimeAssumption
<1>2. \A i \in 1 .. 8 : (t \div Weight[i]) % BYTE \in 0 .. BYTE - 1
  BY <1>1, Weights, OneByte
<1>3. b = [i \in 1 .. 8 |-> (t \div Weight[i]) % BYTE]
  BY DEF UTIL_convert_unsigned_long_long_to_8bytes
<1>4. b \in [1 .. 8 -> 0 .. BYTE - 1]
  BY <1>2, <1>3
<1>5. \A i \in 1 .. 8 : b[i] * Weight[i] = d(i) /\ d(i) \in Int /\ q(i) \in Int
  <2> TAKE i \in 1 .. 8
  <2>1. b[i] = (t \div Weight[i]) % BYTE
    BY <1>3
  <2>2. Weight[i] \in Nat \ {0} /\ t \div Weight[i] \in Nat
    BY <1>1, Weights, OneByte
  <2>3. QED
    BY <1>1, <1>2, <2>1, <2>2
<1>6. \A i \in 2 .. 8 : q(i) = q(i - 1) + d(i)
  <2> TAKE i \in 2 .. 8
  <2>1. Weight[i] \in Nat \ {0} /\ Weight[i - 1] = Weight[i] * BYTE
    BY Weights
  <2>2. QED
    BY <1>1, <2>1, OneByte
<1>7. q(1) = d(1)
  <2>1. Weight[1] \in Nat \ {0} /\ ULL = Weight[1] * BYTE
    BY Weights
  <2>2. q(1) = ULL * (t \div ULL) + d(1)
    BY <1>1, <2>1, OneByte
  <2>3. t \div ULL = 0
    <3>1. t \in 0 .. ULL - 1 /\ 0 \in Nat
      OBVIOUS
    <3>2. (ULL * 0 + t) \div ULL = 0
      BY <1>1, <3>1, DivisionOf
    <3>3. ULL * 0 + t = t
      BY <1>1
    <3>4. QED
      BY <3>2, <3>3
  <2>4. QED
    BY <1>1, <1>5, <2>2, <2>3
<1>8. q(8) = t /\ d(8) = b[8]
  <2>1. Weight[8] = 1
    BY Weights
  <2>2. t \div 1 = t
    BY <1>1
  <2>3. b[8] = (t \div Weight[8]) % BYTE /\ b[8] \in Int
    BY <1>1, <1>3, <1>4
  <2>4. QED
    BY <1>1, <2>1, <2>2, <2>3
<1>9. t = d(1) + d(2) + d(3) + d(4) + (d(5) + d(6) + d(7) + d(8))
  <2> HIDE DEF q, d
  <2>1. /\ q(8) = q(7) + d(8) /\ q(7) = q(6) + d(7) /\ q(6) = q(5) + d(6)
        /\ q(5) = q(4) + d(5) /\ q(4) = q(3) + d(4) /\ q(3) = q(2) + d(3)
        /\ q(2) = q(1) + d(2)
    BY <1>6
  <2>2. /\ q(1) \in Int /\ q(2) \in Int /\ q(3) \in Int /\ q(4) \in Int
        /\ q(5) \in Int /\ q(6) \in Int /\ q(7) \in Int /\ q(8) \in Int
        /\ d(1) \in Int /\ d(2) \in Int /\ d(3) \in Int /\ d(4) \in Int
        /\ d(5) \in Int /\ d(6) \in Int /\ d(7) \in Int /\ d(8) \in Int
    BY <1>5
  <2>3. QED
    BY <1>7, <1>8, <2>1, <2>2
<1>10. /\ b[1] * Weight[1] = d(1) /\ b[2] * Weight[2] = d(2)
       /\ b[3] * Weight[3] = d(3) /\ b[4] * Weight[4] = d(4)
       /\ b[5] * Weight[5] = d(5) /\ b[6] * Weight[6] = d(6)
       /\ b[7] * Weight[7] = d(7)
  <2> HIDE DEF d
  <2>1. QED
    BY <1>5
<1>11. UTIL_convert_8Bytes_to_unsigned_long_long(b) = t
  <2> HIDE DEF d
  <2>1. QED
    BY <1>8, <1>9, <1>10 DEF UTIL_convert_8Bytes_to_unsigned_long_long
<1>12. QED
  BY <1>4, <1>11

(* The same for the four bytes of an int.                                  *)
LEMMA IntBytesMakeUp ==
  ASSUME NEW n \in 0 .. WORD - 1,
         NEW b, b = UTIL_convert_int_to_4bytes(n)
  PROVE  /\ b \in [1 .. 4 -> 0 .. BYTE - 1]
         /\ UTIL_convert_4Bytes_to_Int(b) = n
<1> DEFINE q(i) == Weight[i + 4] * (n \div Weight[i + 4])
           d(i) == ((n \div Weight[i + 4]) % BYTE) * Weight[i + 4]
<1>1. n \in Nat /\ WORD \in Nat \ {0} /\ BYTE \in Nat \ {0}
  BY Sizes, SysTimeAssumption
<1>2. \A i \in 1 .. 4 : (n \div Weight[i + 4]) % BYTE \in 0 .. BYTE - 1
  <2> TAKE i \in 1 .. 4
  <2>1. Weight[i + 4] \in Nat \ {0}
    BY Weights
  <2>2. QED
    BY <1>1, <2>1, OneByte
<1>3. b = [i \in 1 .. 4 |-> (n \div Weight[i + 4]) % BYTE]
  BY DEF UTIL_convert_int_to_4bytes
<1>4. b \in [1 .. 4 -> 0 .. BYTE - 1]
  BY <1>2, <1>3
<1>5. \A i \in 1 .. 4 :
        b[i] * Weight[i + 4] = d(i) /\ d(i) \in Int /\ q(i) \in Int
  <2> TAKE i \in 1 .. 4
  <2>1. b[i] = (n \div Weight[i + 4]) % BYTE
    BY <1>3
  <2>2. Weight[i + 4] \in Nat \ {0}
    BY Weights
  <2>3. n \div Weight[i + 4] \in Nat
    BY <1>1, <2>2, OneByte
  <2>4. QED
    BY <1>1, <1>2, <2>1, <2>2, <2>3
<1>6. \A i \in 2 .. 4 : q(i) = q(i - 1) + d(i)
  <2> TAKE i \in 2 .. 4
  <2>1. /\ Weight[i + 4] \in Nat \ {0}
        /\ Weight[(i - 1) + 4] = Weight[i + 4] * BYTE
    BY Weights
  <2>2. QED
    BY <1>1, <2>1, OneByte
<1>7. q(1) = d(1)
  <2>1. Weight[5] \in Nat \ {0} /\ WORD = Weight[5] * BYTE
    BY Weights
  <2>2. Weight[5] * (n \div Weight[5]) =
          WORD * (n \div WORD) + ((n \div Weight[5]) % BYTE) * Weight[5]
    BY <1>1, <2>1, OneByte
  <2>3. n \div WORD = 0
    <3>1. n \in 0 .. WORD - 1 /\ 0 \in Nat
      OBVIOUS
    <3>2. (WORD * 0 + n) \div WORD = 0
      BY <1>1, <3>1, DivisionOf
    <3>3. WORD * 0 + n = n
      BY <1>1
    <3>4. QED
      BY <3>2, <3>3
  <2>4. 1 + 4 = 5
    OBVIOUS
  <2>5. QED
    BY <1>1, <1>5, <2>2, <2>3, <2>4
<1>8. q(4) = n /\ d(4) = b[4]
  <2>1. Weight[4 + 4] = 1
    BY Weights
  <2>2. n \div 1 = n
    BY <1>1
  <2>3. b[4] = (n \div Weight[4 + 4]) % BYTE /\ b[4] \in Int
    BY <1>1, <1>3, <1>4
  <2>4. QED
    BY <1>1, <2>1, <2>2, <2>3
<1>9. n = d(1) + d(2) + d(3) + d(4)
  <2> HIDE DEF q, d
  <2>1. /\ q(4) = q(3) + d(4) /\ q(3) = q(2) + d(3) /\ q(2) = q(1) + d(2)
    BY <1>6
  <2>2. /\ q(1) \in Int /\ q(2) \in Int /\ q(3) \in Int /\ q(4) \in Int
        /\ d(1) \in Int /\ d(2) \in Int /\ d(3) \in Int /\ d(4) \in Int
    BY <1>5
  <2>3. QED
    BY <1>7, <1>8, <2>1, <2>2
<1>10. /\ b[1] * Weight[5] = d(1) /\ b[2] * Weight[6] = d(2)
       /\ b[3] * Weight[7] = d(3)
  <2>1. \A i \in 1 .. 4 : b[i] * Weight[i + 4] = d(i)
    BY <1>5
  <2> HIDE DEF d
  <2>2. QED
    BY <2>1
<1>11. UTIL_convert_4Bytes_to_Int(b) = n
  <2> HIDE DEF d
  <2>1. QED
    BY <1>8, <1>9, <1>10 DEF UTIL_convert_4Bytes_to_Int
<1>12. QED
  BY <1>4, <1>11

LEMMA FunctionIsSequence ==
  ASSUME NEW S, NEW n \in Nat, NEW f \in [1 .. n -> S]
  PROVE  f \in Seq(S) /\ Len(f) = n
OBVIOUS

LEMMA NotEmpty ==
  ASSUME NEW S, NEW m \in Seq(S), Len(m) = 12
  PROVE  m # <<>>
OBVIOUS

(* What a node decodes of an answer is what the sink has put into it.      *)
LEMMA ParamsDecoded ==
  ASSUME NEW t \in 0 .. ULL - 1
  PROVE  /\ Params(t) \in [1 .. 12 -> 0 .. BYTE - 1]
         /\ Params(t) # NoMessage
         /\ Period(Params(t)) = APP_DEFAULT_PERIOD_IN_MS
         /\ Time(Params(t)) = t
<1> DEFINE S == 0 .. BYTE - 1
           p == UTIL_convert_int_to_4bytes(APP_DEFAULT_PERIOD_IN_MS)
           b == UTIL_convert_unsigned_long_long_to_8bytes(t)
           m == Params(t)
<1>1. /\ p \in [1 .. 4 -> S]
      /\ UTIL_convert_4Bytes_to_Int(p) = APP_DEFAULT_PERIOD_IN_MS
  <2>1. APP_DEFAULT_PERIOD_IN_MS \in 0 .. WORD - 1
    BY SysTimeAssumption
  <2>2. QED
    BY <2>1, IntBytesMakeUp
<1>2. /\ b \in [1 .. 8 -> S]
      /\ UTIL_convert_8Bytes_to_unsigned_long_long(b) = t
  BY BytesMakeUp
<1>3. m = p \o b
  BY DEF Params
<1> HIDE DEF p, b, m, S
<1>4. p \in Seq(S) /\ Len(p) = 4 /\ b \in Seq(S) /\ Len(b) = 8
  <2>1. 4 \in Nat /\ 8 \in Nat
    OBVIOUS
  <2>2. p \in Seq(S) /\ Len(p) = 4
    BY <1>1, <2>1, FunctionIsSequence
  <2>3. b \in Seq(S) /\ Len(b) = 8
    BY <1>2, <2>1, FunctionIsSequence
  <2>4. QED
    BY <2>2, <2>3
<1>5. /\ m \in Seq(S) /\ Len(m) = 12
      /\ \A i \in 1 .. 12 : m[i] = IF i <= 4 THEN p[i] ELSE b[i - 4]
  <2>1. /\ p \o b \in Seq(S) /\ Len(p \o b) = Len(p) + Len(b)
        /\ \A i \in 1 .. Len(p) + Len(b) :
             (p \o b)[i] = IF i <= Len(p) THEN p[i] ELSE b[i - Len(p)]
    BY <1>4, ConcatProperties
  <2>2. Len(m) = 12 /\ m \in Seq(S)
    BY <1>3, <1>4, <2>1
  <2>3. \A i \in 1 .. 4 + 8 : m[i] = IF i <= 4 THEN p[i] ELSE b[i - 4]
    BY <1>3, <1>4, <2>1
  <2>4. 4 + 8 = 12
    OBVIOUS
  <2>5. QED
    BY <2>2, <2>3, <2>4
<1>6. m \in [1 .. 12 -> S]
  BY <1>5, LenProperties
<1>7. m # NoMessage
  BY <1>5, NotEmpty DEF NoMessage
<1>8. \A i \in 1 .. 4 : SubSeq(m, 1, 4)[i] = p[i]
  <2>1. \A i \in 1 .. 4 : m[i] \in S /\ m[i] = p[i]
    BY <1>5, <1>6
  <2>2. \A i \in 1 .. 4 - 1 + 1 : SubSeq(m, 1, 4)[i] = m[1 + i - 1]
    BY <2>1, SubSeqProperties
  <2>3. QED
    BY <2>1, <2>2
<1>9. \A i \in 1 .. 8 : SubSeq(m, 5, 12)[i] = b[i]
  <2>1. \A i \in 5 .. 12 : m[i] \in S /\ m[i] = b[i - 4]
    BY <1>5, <1>6
  <2>2. \A i \in 1 .. 12 - 5 + 1 : SubSeq(m, 5, 12)[i] = m[5 + i - 1]
    BY <2>1, SubSeqProperties
  <2>3. QED
    BY <2>1, <2>2
<1>10. Period(m) = APP_DEFAULT_PERIOD_IN_MS
  BY <1>1, <1>8 DEF Period, UTIL_convert_4Bytes_to_Int
<1>11. Time(m) = t
  BY <1>2, <1>9 DEF Time, UTIL_convert_8Bytes_to_unsigned_long_long
<1>12. QED
  BY <1>6, <1>7, <1>10, <1>11 DEF m, S
-----------------------------------------------------------------------------
(* What the time and the locals of the thread stand for.                   *)
LEMMA Limits ==
  /\ WORD \in Nat /\ WORD >= 16
  /\ ULL \in Nat /\ ULL >= 16 * WORD
  /\ APP_EPOCH_UNTIL_CLEAN \in Nat /\ APP_EPOCH_UNTIL_CLEAN >= 1
  /\ DelayMs \in Nat /\ DelayMs >= 1
  /\ MaxPass \in Nat
  /\ APP_EPOCH_UNTIL_CLEAN + MaxPass + DelayMs + 10 <= WORD
  /\ Overdue = APP_EPOCH_UNTIL_CLEAN + 2
BY Sizes, SysTimeAssumption DEF Overdue

LEMMA DifferenceTypes ==
  ASSUME ClockTypeOK
  PROVE  /\ Untorn("last", last) \in 0 .. ULL - 1
         /\ Untorn("lastClean", lastClean) \in 0 .. ULL - 1
         /\ Waited \in 0 .. ULL - 1 /\ Elapsed \in 0 .. ULL - 1
<1>1. /\ systime \in 0 .. ULL - 1 /\ last \in 0 .. ULL - 1
      /\ lastClean \in 0 .. ULL - 1 /\ WORD \in 0 .. ULL - 1
  BY Limits DEF ClockTypeOK
<1>2. /\ Untorn("last", last) \in 0 .. ULL - 1
      /\ Untorn("lastClean", lastClean) \in 0 .. ULL - 1
  BY <1>1, Sums DEF Untorn
<1>3. QED
  BY <1>1, <1>2, Sums DEF Waited, Elapsed

(* A tick is one ms, if the difference does not wrap.                      *)
LEMMA TickedDifference ==
  ASSUME NEW s \in 0 .. ULL - 1, NEW x \in 0 .. ULL - 1,
         Minus(s, x) < ULL - 1
  PROVE  Minus(Plus(s, 1), x) = Minus(s, x) + 1
<1>1. ULL \in Nat /\ 1 \in 0 .. ULL - 1
  BY Limits
<1>2. /\ Plus(s, 1) = IF s + 1 < ULL THEN s + 1 ELSE s + 1 - ULL
      /\ Plus(s, 1) \in 0 .. ULL - 1
  BY <1>1, Sums
<1>3. Minus(s, x) = IF x <= s THEN s - x ELSE s + ULL - x
  BY Sums
<1> DEFINE t == Plus(s, 1)
<1>4. t \in 0 .. ULL - 1 /\ t = IF s + 1 < ULL THEN s + 1 ELSE s + 1 - ULL
  BY <1>2
<1> HIDE DEF t
<1>5. Minus(t, x) = IF x <= t THEN t - x ELSE t + ULL - x
  BY <1>4, Sums
<1>6. Minus(t, x) = Minus(s, x) + 1
  BY <1>1, <1>3, <1>4, <1>5
<1>7. QED
  BY <1>6 DEF t

(* A difference of two reads: torn both or neither, they give the          *)
(* difference of the times; else it is wrong by more than a word.          *)
LEMMA ReadDifference ==
  ASSUME NEW r \in 0 .. ULL - 1, NEW x \in 0 .. ULL - 1,
         NEW c \in BOOLEAN, NEW d \in BOOLEAN,
         NEW v, v = IF c THEN Plus(r, WORD) ELSE r,
         NEW u, u = IF d THEN Minus(x, WORD) ELSE x,
         Minus(r, u) < WORD
  PROVE  /\ c = d => Minus(v, x) = Minus(r, u)
         /\ c # d => Minus(v, x) >= WORD
<1>1. /\ WORD \in Nat /\ ULL \in Nat /\ ULL >= 16 * WORD /\ WORD >= 16
      /\ WORD \in 0 .. ULL - 1
  BY Limits
<1>2. /\ v = IF c THEN IF r + WORD < ULL THEN r + WORD ELSE r + WORD - ULL
             ELSE r
      /\ v \in 0 .. ULL - 1
  <2>1. Plus(r, WORD) = IF r + WORD < ULL THEN r + WORD ELSE r + WORD - ULL
    BY <1>1, Sums
  <2>2. QED
    BY <1>1, <2>1
<1>3. /\ u = IF d THEN IF WORD <= x THEN x - WORD ELSE x + ULL - WORD ELSE x
      /\ u \in 0 .. ULL - 1
  <2>1. Minus(x, WORD) = IF WORD <= x THEN x - WORD ELSE x + ULL - WORD
    BY <1>1, Sums
  <2>2. QED
    BY <1>1, <2>1
<1>4. Minus(r, u) = IF u <= r THEN r - u ELSE r + ULL - u
  BY <1>3, Sums
<1>5. Minus(v, x) = IF x <= v THEN v - x ELSE v + ULL - x
  BY <1>2, Sums
<1>6. CASE c /\ d
  BY <1>1, <1>2, <1>3, <1>4, <1>5, <1>6
<1>7. CASE c /\ ~d
  <2>1. u = x
    BY <1>3, <1>7
  <2>2. v = IF r + WORD < ULL THEN r + WORD ELSE r + WORD - ULL
    BY <1>2, <1>7
  <2>3. Minus(v, x) = Minus(r, u) + WORD
    BY <1>1, <1>2, <1>4, <1>5, <2>1, <2>2
  <2>4. Minus(r, u) \in Nat
    BY <1>1, <1>3, <1>4
  <2>5. Minus(v, x) >= WORD
    BY <1>1, <2>3, <2>4
  <2>6. QED
    BY <1>7, <2>5
<1>8. CASE ~c /\ d
  <2>1. u = IF WORD <= x THEN x - WORD ELSE x + ULL - WORD
    BY <1>3, <1>8
  <2>2. v = r
    BY <1>2, <1>8
  <2>3. Minus(v, x) = Minus(r, u) + ULL - WORD
    BY <1>1, <1>3, <1>4, <1>5, <2>1, <2>2
  <2>4. Minus(r, u) \in Nat
    BY <1>1, <1>3, <1>4
  <2>5. Minus(v, x) >= WORD
    BY <1>1, <2>3, <2>4
  <2>6. QED
    BY <1>8, <2>5
<1>9. CASE ~c /\ ~d
  BY <1>1, <1>2, <1>3, <1>4, <1>5, <1>9
<1>10. QED
  BY <1>6, <1>7, <1>8, <1>9

(* What the thread reads is the time at which it loaded the low word,      *)
(* but for a carry.                                                        *)
LEMMA ReadTimes ==
  ASSUME ClockTypeOK
  PROVE  /\ ReadTime \in 0 .. ULL - 1
         /\ systime = IF ticked THEN Plus(ReadTime, 1) ELSE ReadTime
<1>1. systime \in 0 .. ULL - 1 /\ ticked \in BOOLEAN /\ ULL \in Nat
  BY Limits DEF ClockTypeOK
<1>2. 1 \in 0 .. ULL - 1
  BY Limits
<1> DEFINE r == Minus(systime, 1)
<1>3. /\ r = IF 1 <= systime THEN systime - 1 ELSE systime + ULL - 1
      /\ r \in 0 .. ULL - 1
  BY <1>1, <1>2, Sums
<1> HIDE DEF r
<1>4. Plus(r, 1) = IF r + 1 < ULL THEN r + 1 ELSE r + 1 - ULL
  BY <1>2, <1>3, Sums
<1>5. Plus(r, 1) = systime
  BY <1>1, <1>3, <1>4
<1>6. QED
  BY <1>1, <1>3, <1>5 DEF ReadTime, r

LEMMA ValueRead ==
  ASSUME ClockTypeOK, Loaded, low # None, at # "set"
  PROVE  /\ Value = IF Carried THEN Plus(ReadTime, WORD) ELSE ReadTime
         /\ Value \in 0 .. ULL - 1
<1> DEFINE r == ReadTime
<1>1. /\ r \in 0 .. ULL - 1
      /\ systime = IF ticked THEN Plus(r, 1) ELSE r
  BY ReadTimes
<1>2. low = r % WORD /\ ticked \in BOOLEAN
  BY DEF Loaded, ClockTypeOK
<1>3. WORD \in 0 .. ULL - 1
  BY Limits
<1> HIDE DEF r
<1>4. Plus(r, WORD) \in 0 .. ULL - 1
  BY <1>1, <1>3, Sums
<1>5. CASE ticked
  <2>1. (Plus(r, 1) \div WORD) * WORD + (r % WORD) =
          IF Plus(r, 1) % WORD = 0 THEN Plus(r, WORD) ELSE r
    BY <1>1, TornRead
  <2>2. QED
    BY <1>1, <1>2, <1>4, <1>5, <2>1 DEF Value, Carried, r
<1>6. CASE ~ticked
  <2>1. r = (r \div WORD) * WORD + (r % WORD)
    BY <1>1, Halves
  <2>2. QED
    BY <1>1, <1>2, <1>4, <1>6, <2>1 DEF Value, Carried, r
<1>7. QED
  BY <1>2, <1>5, <1>6

(* The wait and the loop look at a difference with a local: it is the      *)
(* time that had passed at the read, or, after one torn read of the two,   *)
(* far too long.                                                           *)
LEMMA PassedAtRead ==
  ASSUME ClockTypeOK, Loaded, low # None, at # "set",
         NEW local \in {"last", "lastClean"}, NEW x \in 0 .. ULL - 1,
         NEW d, d = Minus(systime, Untorn(local, x)),
         Ticks <= d, d < WORD + Ticks
  PROVE  /\ Minus(Value, x) \in 0 .. ULL - 1
         /\ Carried = (local \in torn) => Minus(Value, x) = d - Ticks
         /\ Carried # (local \in torn) => Minus(Value, x) >= WORD
<1> DEFINE r == ReadTime
           u == Untorn(local, x)
<1>1. /\ r \in 0 .. ULL - 1 /\ ticked \in BOOLEAN
      /\ systime = IF ticked THEN Plus(r, 1) ELSE r
  BY ReadTimes DEF ClockTypeOK
<1>2. /\ WORD \in Nat /\ ULL \in Nat /\ ULL >= 16 * WORD /\ WORD >= 16
      /\ WORD \in 0 .. ULL - 1 /\ 1 \in 0 .. ULL - 1
  BY Limits
<1>3. /\ u = IF local \in torn THEN Minus(x, WORD) ELSE x
      /\ u \in 0 .. ULL - 1
  BY <1>2, Sums DEF Untorn
<1>4. Ticks = IF ticked THEN 1 ELSE 0
  BY DEF Ticks
<1>5. d = Minus(systime, u)
  OBVIOUS
<1>6. /\ Value = IF Carried THEN Plus(r, WORD) ELSE r
      /\ Value \in 0 .. ULL - 1
  BY ValueRead
<1> HIDE DEF r, u
<1>7. Minus(r, u) = d - Ticks
  <2>1. CASE ~ticked
    BY <1>1, <1>2, <1>3, <1>4, <1>5, <2>1, Sums
  <2>2. CASE ticked
    <3>1. /\ Minus(r, u) = IF u <= r THEN r - u ELSE r + ULL - u
          /\ Minus(r, u) \in 0 .. ULL - 1
      BY <1>1, <1>3, Sums
    <3>2. d = Minus(Plus(r, 1), u)
      BY <1>1, <1>5, <2>2
    <3>3. CASE Minus(r, u) < ULL - 1
      BY <1>1, <1>2, <1>3, <1>4, <2>2, <3>1, <3>2, <3>3, TickedDifference
    <3>4. CASE Minus(r, u) = ULL - 1
      <4> DEFINE s == Plus(r, 1)
      <4>1. s = IF r + 1 < ULL THEN r + 1 ELSE r + 1 - ULL
        BY <1>1, <1>2, Sums
      <4>2. s \in 0 .. ULL - 1
        BY <1>1, <1>2, Sums
      <4> HIDE DEF s
      <4>3. s = u
        BY <1>1, <1>2, <1>3, <3>1, <3>4, <4>1
      <4>4. d = 0
        <5>1. d = Minus(s, u)
          BY <3>2 DEF s
        <5>2. Minus(s, u) = IF u <= s THEN s - u ELSE s + ULL - u
          BY <1>3, <4>2, Sums
        <5>3. QED
          BY <1>3, <4>2, <4>3, <5>1, <5>2
      <4>5. QED
        BY <1>4, <2>2, <4>4
    <3>5. QED
      BY <1>2, <3>1, <3>3, <3>4
  <2>3. QED
    BY <1>1, <2>1, <2>2
<1>8. Minus(r, u) < WORD
  <2>1. d \in Int /\ Ticks \in Int
    <3>1. systime \in 0 .. ULL - 1
      BY DEF ClockTypeOK
    <3>2. QED
      BY <1>2, <1>3, <1>4, <1>5, <3>1, Sums
  <2>2. QED
    BY <1>2, <1>7, <2>1
<1>9. Carried \in BOOLEAN /\ (local \in torn) \in BOOLEAN
  BY <1>1 DEF Carried
<1>10. /\ Carried = (local \in torn) => Minus(Value, x) = Minus(r, u)
       /\ Carried # (local \in torn) => Minus(Value, x) >= WORD
  <2> DEFINE c == Carried
             e == local \in torn
  <2>1. /\ c \in BOOLEAN /\ e \in BOOLEAN
        /\ Value = IF c THEN Plus(r, WORD) ELSE r
        /\ u = IF e THEN Minus(x, WORD) ELSE x
    BY <1>3, <1>6, <1>9
  <2> HIDE DEF c, e
  <2>2. /\ c = e => Minus(Value, x) = Minus(r, u)
        /\ c # e => Minus(Value, x) >= WORD
    BY <1>1, <1>8, <2>1, ReadDifference
  <2>3. QED
    BY <2>2 DEF c, e
<1>11. Minus(Value, x) \in 0 .. ULL - 1
  BY <1>6, Sums
<1>12. QED
  BY <1>7, <1>10, <1>11
-----------------------------------------------------------------------------
(* The first state, and the steps one by one.                              *)
LEMMA InitClockInv == ClockInit => ClockInv
<1> SUFFICES ASSUME ClockInit PROVE ClockInv
  OBVIOUS
<1>1. ULL \in Nat /\ 0 \in 0 .. ULL - 1 /\ DelayMs \in Nat
      /\ Overdue \in Nat /\ MaxPass \in Nat /\ None # 0
  BY Limits DEF None
<1>2. ClockTypeOK
  <2>1. /\ systime \in 0 .. ULL - 1 /\ clock \in 0 .. ULL - 1
        /\ last \in 0 .. ULL - 1 /\ lastClean \in 0 .. ULL - 1
        /\ stamp \in 0 .. ULL - 1
    BY <1>1 DEF ClockInit
  <2>2. /\ since \in 0 .. DelayMs /\ sinceClean \in 0 .. Overdue
        /\ pass \in 0 .. MaxPass
    BY <1>1 DEF ClockInit
  <2>3. torn \subseteq {"last", "lastClean", "systime"}
    BY DEF ClockInit
  <2>4. QED
    BY <1>1, <2>1, <2>2, <2>3 DEF ClockInit, ClockTypeOK
<1>3. Places /\ Message /\ Loaded /\ FirstTicks /\ Waiting /\ Cleaning
  BY DEF ClockInit, Places, Message, Loaded, FirstTicks, Waiting, Cleaning,
         Ticks
<1>4. Time64
  BY DEF ClockInit, Time64, Storing
<1>5. QED
  BY <1>2, <1>3, <1>4 DEF ClockInv

LEMMA ResetClockInv == ClockInv /\ ClockReset => ClockInv'
<1> SUFFICES ASSUME ClockInv, ClockReset PROVE ClockInv'
  OBVIOUS
<1>1. ULL \in Nat /\ 0 \in 0 .. ULL - 1 /\ DelayMs \in Nat
      /\ Overdue \in Nat /\ MaxPass \in Nat /\ app \in {"sink", "node"}
  BY Limits DEF ClockInv, ClockTypeOK
<1>2. ClockTypeOK'
  <2>1. /\ systime' \in 0 .. ULL - 1 /\ clock' \in 0 .. ULL - 1
        /\ last' \in 0 .. ULL - 1 /\ lastClean' \in 0 .. ULL - 1
        /\ stamp' \in 0 .. ULL - 1
    BY <1>1 DEF ClockReset
  <2>2. /\ since' \in 0 .. DelayMs /\ sinceClean' \in 0 .. Overdue
        /\ pass' \in 0 .. MaxPass
    BY <1>1 DEF ClockReset
  <2>3. torn' \subseteq {"last", "lastClean", "systime"}
    BY DEF ClockReset
  <2>4. QED
    BY <1>1, <2>1, <2>2, <2>3 DEF ClockReset, ClockTypeOK
<1>3. /\ Places' /\ Message' /\ Loaded' /\ FirstTicks' /\ Waiting'
      /\ Cleaning'
  BY DEF ClockReset, Places, Message, Loaded, FirstTicks, Waiting, Cleaning,
         Ticks
<1>4. Time64'
  BY DEF ClockReset, Time64, Storing
<1>5. QED
  BY <1>2, <1>3, <1>4 DEF ClockInv

(* A node takes the stamp of the answer and adds its offset.               *)
LEMMA NewTimeType ==
  ASSUME ClockTypeOK, Message, message # NoMessage
  PROVE  NewTime \in 0 .. ULL - 1 /\ Time(message) = stamp
<1>1. stamp \in 0 .. ULL - 1 /\ message = Params(stamp)
  BY DEF ClockTypeOK, Message
<1>2. Time(message) = stamp
  BY <1>1, ParamsDecoded
<1>3. stamp + FixMs \in Nat /\ ULL \in Nat \ {0}
  BY <1>1, Limits, SysTimeAssumption
<1>4. (stamp + FixMs) % ULL \in 0 .. ULL - 1
  BY <1>3, Division
<1>5. QED
  BY <1>2, <1>4 DEF NewTime, Plus

(* The interrupt.                                                          *)
LEMMA TickKeeps == ClockInv /\ Tick => ClockInv'
<1> SUFFICES ASSUME ClockInv, Tick PROVE ClockInv'
  OBVIOUS
<1>1. /\ WORD \in Nat /\ WORD >= 16 /\ ULL \in Nat /\ ULL >= 16 * WORD
      /\ 1 \in 0 .. ULL - 1
      /\ APP_EPOCH_UNTIL_CLEAN \in Nat /\ APP_EPOCH_UNTIL_CLEAN >= 1
      /\ DelayMs \in Nat /\ DelayMs >= 1
      /\ MaxPass \in Nat
      /\ APP_EPOCH_UNTIL_CLEAN + MaxPass + DelayMs + 10 <= WORD
      /\ Overdue = APP_EPOCH_UNTIL_CLEAN + 2
  BY Limits
<1>2. /\ systime \in 0 .. ULL - 1 /\ clock \in 0 .. ULL - 1
      /\ since \in 0 .. DelayMs /\ sinceClean \in 0 .. Overdue
      /\ pass \in 0 .. MaxPass /\ ClockTypeOK
  BY DEF ClockInv, ClockTypeOK
<1>3. /\ systime' = Plus(systime, 1) /\ clock' = Plus(clock, 1)
      /\ ~ticked /\ ticked'
      /\ since' = IF since < DelayMs THEN since + 1 ELSE since
      /\ sinceClean' = IF sinceClean < Overdue THEN sinceClean + 1
                       ELSE sinceClean
      /\ app' = app /\ at' = at /\ low' = low /\ last' = last
      /\ lastClean' = lastClean /\ message' = message /\ stamp' = stamp
      /\ torn' = torn /\ pass' = pass
  BY DEF Tick, Count
<1>4. Ticks = 0 /\ Ticks' = 1 /\ Halfway' = Halfway /\ Halfway \in {0, 1}
  BY <1>3 DEF Ticks, Halfway
<1>5. /\ systime' \in 0 .. ULL - 1 /\ clock' \in 0 .. ULL - 1
      /\ systime' = IF systime + 1 < ULL THEN systime + 1
                    ELSE systime + 1 - ULL
  BY <1>1, <1>2, <1>3, Sums
<1>6. ClockTypeOK'
  <2>1. since' \in 0 .. DelayMs /\ sinceClean' \in 0 .. Overdue
    BY <1>1, <1>2, <1>3
  <2>2. QED
    BY <1>2, <1>3, <1>5, <2>1 DEF ClockTypeOK
<1>7. Places' /\ Message'
  BY <1>3 DEF ClockInv, Places, Message
<1>8. Time64'
  <2>1. Storing' = Storing /\ NewTime' = NewTime
    BY <1>3 DEF Storing, NewTime
  <2>2. CASE ~Storing
    BY <1>3, <2>1, <2>2 DEF ClockInv, Time64
  <2>3. CASE Storing
    <3>1. clock' = Plus(NewTime, 1)
      BY <1>3, <2>3 DEF ClockInv, Time64
    <3>2. systime % WORD = clock % WORD
      BY <2>3 DEF ClockInv, Time64
    <3>3. Plus(systime, 1) % WORD = Plus(clock, 1) % WORD
      BY <1>2, <3>2, NextWords
    <3>4. QED
      BY <1>3, <2>1, <2>3, <3>1, <3>3 DEF Time64
  <2>4. QED
    BY <2>2, <2>3
<1>9. Loaded'
  <2>1. ReadTime = systime
    BY <1>3 DEF ReadTime
  <2>2. ReadTime' = systime
    <3>1. ReadTime' = Minus(systime', 1)
      BY <1>3 DEF ReadTime
    <3> DEFINE s == systime'
    <3>2. s \in 0 .. ULL - 1
      BY <1>5
    <3>3. s = IF systime + 1 < ULL THEN systime + 1 ELSE systime + 1 - ULL
      BY <1>5
    <3> HIDE DEF s
    <3>4. Minus(s, 1) = IF 1 <= s THEN s - 1 ELSE s + ULL - 1
      BY <1>1, <3>2, Sums
    <3>5. Minus(s, 1) = systime
      BY <1>1, <1>2, <3>2, <3>3, <3>4
    <3>6. QED
      BY <3>1, <3>5 DEF s
  <2>3. QED
    BY <1>3, <2>1, <2>2 DEF ClockInv, Loaded
<1>10. FirstTicks'
  <2>1. at # "failed"
    BY DEF ClockInv, FirstTicks
  <2>2. ASSUME at = "off" \/ (at = "test" /\ low = None)
        PROVE  systime' = Ticks'
    <3>1. systime = 0
      BY <1>4, <2>2 DEF ClockInv, FirstTicks
    <3>2. QED
      BY <1>1, <1>4, <1>5, <3>1
  <2>3. ASSUME at = "test", low # None
        PROVE  low \in 0 .. 1 /\ systime' = low + Ticks' /\ since' = Ticks'
    <3>1. low \in 0 .. 1 /\ systime = low /\ since = 0
      BY <1>4, <2>3 DEF ClockInv, FirstTicks
    <3>2. QED
      BY <1>1, <1>3, <1>4, <1>5, <3>1
  <2>4. ASSUME at = "assert", low = None
        PROVE  /\ last \in 0 .. 1 /\ systime' \in last .. last + 1 + Ticks'
               /\ since' > 0 => systime' > last
    <3>1. last \in 0 .. 1 /\ systime \in last .. last + 1
      BY <1>4, <2>4 DEF ClockInv, FirstTicks
    <3>2. QED
      BY <1>1, <1>4, <1>5, <3>1
  <2>5. ASSUME at = "assert", low # None
        PROVE  last < low /\ low <= 4 /\ systime' = low + Ticks'
    <3>1. last < low /\ low <= 4 /\ systime = low
      BY <1>2, <1>4, <2>5 DEF ClockInv, FirstTicks, ClockTypeOK, None
    <3>2. QED
      BY <1>1, <1>2, <1>4, <1>5, <3>1
  <2>6. QED
    BY <1>3, <2>1, <2>2, <2>3, <2>4, <2>5 DEF FirstTicks
<1>11. ASSUME at = "wait" PROVE Waited' = Waited + 1 /\ Waited \in Nat
  <2> DEFINE x == Untorn("last", last)
  <2>1. x \in 0 .. ULL - 1 /\ Waited \in Nat
    BY <1>2, DifferenceTypes
  <2>2. Waited = Minus(systime, x)
    BY DEF Waited
  <2>3. Waited' = Minus(Plus(systime, 1), x)
    BY <1>3 DEF Waited, Untorn
  <2>4. Waited <= DelayMs + Halfway
    BY <1>1, <1>4, <2>1, <1>11 DEF ClockInv, Waiting
  <2> HIDE DEF x
  <2>5. QED
    BY <1>1, <1>2, <1>4, <2>1, <2>2, <2>3, <2>4, TickedDifference
<1>12. Waiting'
  <2>1. ASSUME at = "delay", low # None PROVE since' = Ticks'
    <3>1. since = 0
      BY <1>4, <2>1 DEF ClockInv, Waiting
    <3>2. QED
      BY <1>1, <1>3, <1>4, <3>1
  <2>2. ASSUME at = "wait"
        PROVE  /\ since' = IF Waited' < DelayMs THEN Waited' ELSE DelayMs
               /\ Ticks' <= Waited'
               /\ Waited' <= DelayMs + Ticks' + Halfway'
    <3>1. /\ since = IF Waited < DelayMs THEN Waited ELSE DelayMs
          /\ Waited <= DelayMs + 0 + Halfway
      BY <1>4, <2>2 DEF ClockInv, Waiting
    <3>2. Waited' = Waited + 1 /\ Waited \in Nat
      BY <1>11, <2>2
    <3>3. QED
      BY <1>1, <1>3, <1>4, <3>1, <3>2
  <2>3. QED
    BY <1>3, <2>1, <2>2 DEF Waiting
<1>13. Cleaning'
  <2> SUFFICES ASSUME app = "sink" PROVE Cleaning'
    BY <1>3 DEF Cleaning
  <2>1. ASSUME at \in {"enter", "clean"}, low # None PROVE sinceClean' = Ticks'
    <3>1. sinceClean = 0
      BY <1>4, <2>1 DEF ClockInv, Cleaning
    <3>2. QED
      BY <1>1, <1>3, <1>4, <3>1
  <2>2. ASSUME at \in {"recv", "stamp", "send", "delay", "wait", "loop"}
        PROVE  /\ Elapsed \in Nat /\ Elapsed' = Elapsed + 1
               /\ sinceClean' = IF Elapsed' < Overdue THEN Elapsed'
                                ELSE Overdue
    <3> DEFINE x == Untorn("lastClean", lastClean)
    <3>1. x \in 0 .. ULL - 1 /\ Elapsed \in Nat
      BY <1>2, DifferenceTypes
    <3>2. Elapsed = Minus(systime, x)
      BY DEF Elapsed
    <3>3. Elapsed' = Minus(Plus(systime, 1), x)
      BY <1>3 DEF Elapsed, Untorn
    <3>4. Elapsed < ULL - 1
      <4>1. CASE at = "wait"
        <5>1. /\ Elapsed <= APP_EPOCH_UNTIL_CLEAN + pass + 6 + Waited
              /\ Waited <= DelayMs + 0 + Halfway /\ Waited \in Nat
          BY <1>4, <1>11, <4>1 DEF ClockInv, Cleaning, Waiting
        <5>2. QED
          BY <1>1, <1>2, <1>4, <3>1, <5>1
      <4>2. CASE at # "wait"
        <5>1. Elapsed <= APP_EPOCH_UNTIL_CLEAN + MaxPass + DelayMs + 8 + 0 + Halfway
          BY <1>1, <1>2, <1>4, <2>2, <3>1, <4>2 DEF ClockInv, Cleaning
        <5>2. QED
          BY <1>1, <1>4, <3>1, <5>1
      <4>3. QED
        BY <4>1, <4>2
    <3> HIDE DEF x
    <3>5. Elapsed' = Elapsed + 1
      BY <1>2, <3>1, <3>2, <3>3, <3>4, TickedDifference
    <3>6. sinceClean = IF Elapsed < Overdue THEN Elapsed ELSE Overdue
      BY <2>2 DEF ClockInv, Cleaning
    <3>7. QED
      BY <1>1, <1>3, <3>1, <3>5, <3>6
  <2>3. QED
    BY <1>1, <1>2, <1>3, <1>4, <1>11, <2>1, <2>2 DEF ClockInv, Cleaning
<1>14. QED
  BY <1>6, <1>7, <1>8, <1>9, <1>10, <1>12, <1>13 DEF ClockInv

LEMMA SmallRemainder ==
  ASSUME NEW n \in 0 .. WORD - 1
  PROVE  n % WORD = n
<1>1. WORD \in Nat /\ 0 \in 0 .. WORD - 1
  BY Limits
<1>2. (0 * WORD + n) % WORD = n
  BY <1>1, TwoWords
<1>3. 0 * WORD + n = n
  BY <1>1
<1>4. QED
  BY <1>2, <1>3

(* The thread loads the low word of systime.                               *)
LEMMA LoadsLowKeeps ==
  ASSUME ClockInv, LoadsLow, at = "assert" => since > 0
  PROVE  ClockInv'
<1>1. /\ WORD \in Nat /\ WORD >= 16 /\ ULL \in Nat /\ ULL >= 16 * WORD
      /\ DelayMs \in Nat /\ DelayMs >= 1
      /\ APP_EPOCH_UNTIL_CLEAN \in Nat /\ MaxPass \in Nat
      /\ Overdue = APP_EPOCH_UNTIL_CLEAN + 2
  BY Limits
<1>2. /\ systime \in 0 .. ULL - 1 /\ clock \in 0 .. ULL - 1
      /\ since \in 0 .. DelayMs /\ sinceClean \in 0 .. Overdue
      /\ ticked \in BOOLEAN /\ last \in 0 .. ULL - 1
      /\ pass \in 0 .. MaxPass /\ ClockTypeOK
  BY DEF ClockInv, ClockTypeOK
<1>3. /\ low = None /\ low' = systime % WORD /\ low' # None
      /\ low' \in 0 .. WORD - 1
      /\ at \in {"test", "assert", "enter", "loop", "clean", "stamp",
                 "delay", "wait"}
      /\ systime' = systime /\ clock' = clock /\ app' = app /\ at' = at
      /\ last' = last /\ lastClean' = lastClean /\ message' = message
      /\ stamp' = stamp /\ torn' = torn /\ pass' = pass /\ ~ticked'
      /\ since' = IF at \in {"test", "delay"} THEN 0 ELSE since
      /\ sinceClean' = IF at \in {"enter", "clean"} THEN 0 ELSE sinceClean
  <2>1. systime % WORD \in 0 .. WORD - 1
    BY <1>2, Halves
  <2>2. \A n \in 0 .. WORD - 1 : n # None
    BY <1>1 DEF None
  <2>3. QED
    BY <2>1, <2>2 DEF LoadsLow
<1>4. /\ Ticks \in {0, 1} /\ Ticks' = 0 /\ Halfway = 0 /\ Halfway' = 1
  BY <1>2, <1>3 DEF Ticks, Halfway
<1>5. ClockTypeOK'
  <2>1. since' \in 0 .. DelayMs /\ sinceClean' \in 0 .. Overdue
    BY <1>1, <1>2, <1>3
  <2>2. low' \in 0 .. WORD - 1 \cup {None} /\ ticked' \in BOOLEAN
    BY <1>3 DEF LoadsLow
  <2>3. UNCHANGED <<systime, clock, app, at, last, lastClean, message, stamp,
                    torn, pass>>
    BY <1>3
  <2>4. QED
    BY <1>2, <2>1, <2>2, <2>3 DEF ClockTypeOK
<1>6. Places' /\ Message' /\ Time64'
  BY <1>3 DEF ClockInv, Places, Message, Time64, Storing
<1>7. Loaded'
  <2>1. ReadTime' = systime
    BY <1>3 DEF ReadTime
  <2>2. QED
    BY <1>3, <2>1 DEF Loaded
<1>8. FirstTicks'
  <2>1. \A n \in 0 .. WORD - 1 : n % WORD = n
    BY SmallRemainder
  <2>2. ASSUME at = "test"
        PROVE  low' \in 0 .. 1 /\ systime' = low' + Ticks' /\ since' = Ticks'
    <3>1. systime = Ticks
      BY <1>3, <2>2 DEF ClockInv, FirstTicks
    <3>2. systime \in 0 .. WORD - 1
      BY <1>1, <1>4, <3>1
    <3>3. low' = systime
      BY <1>3, <2>1, <3>2
    <3>4. QED
      BY <1>3, <1>4, <2>2, <3>1, <3>3
  <2>3. ASSUME at = "assert"
        PROVE  last' < low' /\ low' <= 4 /\ systime' = low' + Ticks'
    <3>1. /\ last \in 0 .. 1 /\ systime \in last .. last + 1 + Ticks
          /\ systime > last
      BY <1>3, <2>3 DEF ClockInv, FirstTicks
    <3>2. systime \in 0 .. WORD - 1
      BY <1>1, <1>4, <3>1
    <3>3. low' = systime
      BY <1>3, <2>1, <3>2
    <3>4. QED
      BY <1>2, <1>3, <1>4, <3>1, <3>3
  <2>4. QED
    BY <1>3, <2>2, <2>3 DEF ClockInv, FirstTicks
<1>9. Waited' = Waited /\ Elapsed' = Elapsed
  BY <1>3 DEF Waited, Elapsed, Untorn
<1>10. Waited \in Nat /\ Elapsed \in Nat
  BY <1>2, DifferenceTypes
<1>11. Waiting'
  <2>1. at = "delay" => since' = Ticks'
    BY <1>3, <1>4
  <2>2. at = "wait" =>
          /\ since' = IF Waited < DelayMs THEN Waited ELSE DelayMs
          /\ Ticks' <= Waited /\ Waited <= DelayMs + 0 + 1
    BY <1>1, <1>3, <1>4, <1>10 DEF ClockInv, Waiting
  <2>3. QED
    BY <1>3, <1>4, <1>9, <2>1, <2>2 DEF Waiting
<1>12. Cleaning'
  <2> SUFFICES ASSUME app = "sink" PROVE Cleaning'
    BY <1>3 DEF Cleaning
  <2>1. at \in {"enter", "clean"} => sinceClean' = Ticks'
    BY <1>3, <1>4
  <2>2. at \in {"stamp", "delay", "wait", "loop"} =>
          /\ sinceClean' = IF Elapsed < Overdue THEN Elapsed ELSE Overdue
          /\ Ticks' <= Elapsed
    BY <1>3, <1>4, <1>10 DEF ClockInv, Cleaning
  <2>3. /\ at = "stamp" => Elapsed <= APP_EPOCH_UNTIL_CLEAN + pass + 2 + 0 + 1
        /\ at = "delay" => Elapsed <= APP_EPOCH_UNTIL_CLEAN + pass + 5 + 0 + 1
        /\ at = "wait"  => Elapsed <= APP_EPOCH_UNTIL_CLEAN + pass + 6 + Waited
        /\ at = "loop"  =>
             Elapsed <= APP_EPOCH_UNTIL_CLEAN + MaxPass + DelayMs + 8 + 0 + 1
    BY <1>1, <1>2, <1>4, <1>10 DEF ClockInv, Cleaning
  <2>4. QED
    BY <1>3, <1>4, <1>9, <2>1, <2>2, <2>3 DEF Cleaning
<1>13. QED
  BY <1>5, <1>6, <1>7, <1>8, <1>11, <1>12 DEF ClockInv

(* The second half of a read leaves the time as it is.                     *)
LEMMA ReadsFacts ==
  ASSUME ClockInv, NEW from, NEW to, Reads(from, to), from # "set"
  PROVE  /\ at = from /\ low # None /\ at' = to /\ low' = None
         /\ systime' = systime /\ clock' = clock /\ app' = app
         /\ since' = since /\ sinceClean' = sinceClean /\ ~ticked'
         /\ Ticks \in {0, 1} /\ Ticks' = 0 /\ Halfway = 1 /\ Halfway' = 0
         /\ Value = IF Carried THEN Plus(ReadTime, WORD) ELSE ReadTime
         /\ Value \in 0 .. ULL - 1 /\ ReadTime \in 0 .. ULL - 1
         /\ Loaded' /\ ~Storing /\ ~Storing'
         /\ ClockTypeOK
<1>1. ClockTypeOK /\ Loaded /\ ticked \in BOOLEAN
  BY DEF ClockInv, ClockTypeOK
<1>2. /\ at = from /\ low # None /\ at' = to /\ low' = None
      /\ systime' = systime /\ clock' = clock /\ app' = app
      /\ since' = since /\ sinceClean' = sinceClean /\ ~ticked'
  BY DEF Reads
<1>3. /\ Ticks \in {0, 1} /\ Ticks' = 0 /\ Halfway = 1 /\ Halfway' = 0
      /\ Loaded' /\ ~Storing /\ ~Storing'
  BY <1>1, <1>2 DEF Ticks, Halfway, Loaded, Storing
<1>4. QED
  BY <1>1, <1>2, <1>3, ValueRead, ReadTimes

(* The local that takes the value of a read stands for the time of it.     *)
LEMMA TakenIsRead ==
  ASSUME ClockInv, NEW from, NEW to, Reads(from, to), from # "set",
         NEW local \in {"last", "lastClean"}, Tears(local)
  PROVE  /\ (IF local \in torn' THEN Minus(Value, WORD) ELSE Value) = ReadTime
         /\ Minus(systime, ReadTime) = Ticks
<1>1. /\ Value = IF Carried THEN Plus(ReadTime, WORD) ELSE ReadTime
      /\ ReadTime \in 0 .. ULL - 1 /\ Ticks \in {0, 1} /\ ClockTypeOK
  BY ReadsFacts
<1>2. local \in torn' <=> Carried
  BY DEF Tears
<1>3. /\ WORD \in Nat /\ ULL \in Nat /\ ULL >= 16 * WORD /\ WORD >= 16
      /\ WORD \in 0 .. ULL - 1 /\ 1 \in 0 .. ULL - 1
  BY Limits
<1> DEFINE r == ReadTime
<1>4. r \in 0 .. ULL - 1
  BY <1>1
<1>5. systime = IF ticked THEN Plus(r, 1) ELSE r
  BY <1>1, ReadTimes
<1>6. ticked \in BOOLEAN /\ Ticks = IF ticked THEN 1 ELSE 0
  BY <1>1 DEF ClockTypeOK, Ticks
<1> HIDE DEF r
<1>7. Minus(Plus(r, WORD), WORD) = r
  <2> DEFINE v == Plus(r, WORD)
  <2>1. /\ v = IF r + WORD < ULL THEN r + WORD ELSE r + WORD - ULL
        /\ v \in 0 .. ULL - 1
    BY <1>3, <1>4, Sums
  <2> HIDE DEF v
  <2>2. Minus(v, WORD) = IF WORD <= v THEN v - WORD ELSE v + ULL - WORD
    BY <1>3, <2>1, Sums
  <2>3. Minus(v, WORD) = r
    BY <1>3, <1>4, <2>1, <2>2
  <2>4. QED
    BY <2>3 DEF v
<1>8. Minus(r, r) = 0
  BY <1>3, <1>4, Sums
<1>9. Minus(Plus(r, 1), r) = 1
  BY <1>3, <1>4, <1>8, TickedDifference
<1>10. QED
  BY <1>1, <1>2, <1>5, <1>6, <1>7, <1>8, <1>9 DEF r

(* What a read has to leave right, but for what every read does.           *)
Position == {"off", "test", "assert", "failed", "enter", "loop", "clean",
             "recv", "stamp", "send", "ask", "set", "slot", "delay", "wait"}

LEMMA ReadsKeeps ==
  ASSUME ClockInv, NEW from, NEW to, Reads(from, to), from # "set",
         to \in Position, last' \in 0 .. ULL - 1, lastClean' \in 0 .. ULL - 1,
         stamp' \in 0 .. ULL - 1,
         message' = NoMessage \/ message' \in [1 .. 12 -> 0 .. BYTE - 1],
         torn' \subseteq {"last", "lastClean", "systime"},
         pass' \in 0 .. MaxPass,
         "systime" \in torn' <=> "systime" \in torn,
         Places', Message', FirstTicks', Waiting', Cleaning'
  PROVE  ClockInv'
<1>1. /\ at' = to /\ low' = None /\ ~ticked'
      /\ UNCHANGED <<systime, clock, app, since, sinceClean>>
      /\ Loaded' /\ ~Storing /\ ~Storing' /\ ClockTypeOK
  BY ReadsFacts
<1>2. ClockTypeOK'
  <2>1. at' \in Position /\ ticked' \in BOOLEAN
    BY <1>1, ReadsFacts DEF Reads
  <2>2. QED
    BY <1>1, <2>1 DEF ClockTypeOK, Position
<1>3. Time64'
  BY <1>1 DEF ClockInv, Time64
<1>4. QED
  BY <1>1, <1>2, <1>3 DEF ClockInv

(* What they leave alone has its type, and message its stamp.              *)
LEMMA KeptLocals ==
  ASSUME ClockInv
  PROVE  /\ last \in 0 .. ULL - 1 /\ lastClean \in 0 .. ULL - 1
         /\ stamp \in 0 .. ULL - 1
         /\ message = NoMessage \/ message \in [1 .. 12 -> 0 .. BYTE - 1]
         /\ torn \subseteq {"last", "lastClean", "systime"}
         /\ app \in {"sink", "node"} /\ at \in Position
         /\ Waited \in Nat /\ Elapsed \in Nat
         /\ pass \in 0 .. MaxPass
BY DifferenceTypes DEF ClockInv, ClockTypeOK, Position

LEMMA TornLocals ==
  ASSUME ClockInv, NEW local \in {"last", "lastClean"}, Tears(local)
  PROVE  /\ torn' \subseteq {"last", "lastClean", "systime"}
         /\ \A other : other # local => (other \in torn' <=> other \in torn)
BY DEF ClockInv, ClockTypeOK, Tears

(* While systime has only begun to count, no read is torn.                 *)
LEMMA EarlyRead ==
  ASSUME ClockInv, low # None, at \in {"test", "assert"}
  PROVE  /\ Value = low /\ low \in 0 .. 4 /\ systime = low + Ticks
         /\ ~Carried
<1>1. /\ WORD \in Nat /\ WORD >= 16 /\ ULL \in Nat /\ ULL >= 16 * WORD
      /\ 1 \in 0 .. ULL - 1
  BY Limits
<1>2. /\ ticked \in BOOLEAN /\ low \in 0 .. WORD - 1
      /\ last \in 0 .. ULL - 1 /\ ClockTypeOK /\ Loaded
  BY DEF ClockInv, ClockTypeOK
<1>3. /\ low <= 4 /\ systime = low + Ticks /\ Ticks = IF ticked THEN 1 ELSE 0
  BY <1>1, <1>2 DEF ClockInv, FirstTicks, Ticks
<1>4. systime \in 0 .. WORD - 1
  BY <1>1, <1>2, <1>3
<1>5. systime % WORD = systime
  BY <1>4, SmallRemainder
<1>6. ~Carried
  BY <1>1, <1>2, <1>3, <1>5 DEF Carried
<1>7. ReadTime = low
  <2>1. CASE ~ticked
    BY <1>2, <1>3, <2>1 DEF ReadTime
  <2>2. CASE ticked
    <3>1. systime \in 0 .. ULL - 1 /\ 1 <= systime
      BY <1>1, <1>2, <1>3, <1>4, <2>2
    <3>2. Minus(systime, 1) = systime - 1
      BY <1>1, <3>1, Sums
    <3>3. QED
      BY <1>2, <1>3, <2>2, <3>2 DEF ReadTime
  <2>3. QED
    BY <2>1, <2>2
<1>8. Value = ReadTime
  BY <1>2, <1>6, ValueRead
<1>9. QED
  BY <1>2, <1>3, <1>6, <1>7, <1>8

(* APP_test_systime.                                                       *)
LEMMA TestsKeeps == ClockInv /\ Tests => ClockInv'
<1> SUFFICES ASSUME ClockInv, Tests PROVE ClockInv'
  OBVIOUS
<1>1. /\ WORD \in Nat /\ WORD >= 16 /\ ULL \in Nat /\ ULL >= 16 * WORD
      /\ DelayMs \in Nat /\ DelayMs >= 1
  BY Limits
<1>2. ASSUME TakesLast("test", "assert") PROVE ClockInv'
  <2>1. Reads("test", "assert") /\ last' = Value /\ Tears("last")
        /\ UNCHANGED <<lastClean, message, stamp, pass>>
    BY <1>2 DEF TakesLast
  <2>2. /\ at = "test" /\ low # None /\ at' = "assert" /\ low' = None
        /\ systime' = systime /\ app' = app /\ since' = since
        /\ Ticks \in {0, 1} /\ Ticks' = 0 /\ Value \in 0 .. ULL - 1
    BY <2>1, ReadsFacts
  <2>3. last' = low /\ low \in 0 .. 1 /\ systime = low + Ticks
        /\ since = Ticks
    BY <2>1, <2>2, EarlyRead DEF ClockInv, FirstTicks
  <2>4. Places'
    BY <2>2 DEF ClockInv, Places
  <2>5. Message'
    BY <2>1, <2>2 DEF ClockInv, Message
  <2>6. FirstTicks'
    <3>1. last' \in 0 .. 1 /\ systime' \in last' .. last' + 1 + 0
      BY <2>2, <2>3
    <3>2. since' > 0 => systime' > last'
      BY <2>2, <2>3
    <3>3. QED
      BY <2>2, <3>1, <3>2 DEF FirstTicks
  <2>7. Waiting' /\ Cleaning'
    BY <2>2 DEF Waiting, Cleaning
  <2>8. QED
    BY <2>1, <2>2, <2>4, <2>5, <2>6, <2>7, KeptLocals, TornLocals, ReadsKeeps
       DEF Position
<1>3. ASSUME NEW to \in {"failed", "enter", "ask"},
             to = IF Value <= last THEN "failed"
                  ELSE IF app = "sink" THEN "enter" ELSE "ask",
             Reads("assert", to), KeepsLocals
      PROVE  ClockInv'
  <2>1. /\ at = "assert" /\ low # None /\ at' = to /\ low' = None
        /\ app' = app
    BY <1>3, ReadsFacts
  <2>2. UNCHANGED <<last, lastClean, message, stamp, pass, torn>>
    BY <1>3 DEF KeepsLocals
  <2>3. Value > last
    <3>1. Value = low /\ low \in 0 .. 4 /\ last < low
      BY <2>1, EarlyRead DEF ClockInv, FirstTicks
    <3>2. QED
      BY <3>1
  <2>4. to = IF app = "sink" THEN "enter" ELSE "ask"
    <3>1. last \in Int /\ Value \in Int
      BY <1>1, <1>3, KeptLocals, ReadsFacts
    <3>2. QED
      BY <1>3, <2>3, <3>1
  <2>5. Places'
    BY <2>1, <2>4, KeptLocals DEF Places
  <2>6. Message' /\ FirstTicks' /\ Waiting' /\ Cleaning'
    BY <2>1, <2>2, <2>4
       DEF ClockInv, Message, FirstTicks, Waiting, Cleaning
  <2>7. QED
    BY <1>3, <2>2, <2>5, <2>6, KeptLocals, ReadsKeeps DEF Position
<1>4. QED
  BY <1>2, <1>3 DEF Tests

(* The sink notes the time before its first pass and after a clean-up.     *)
LEMMA TakesLastCleanKeeps ==
  ASSUME ClockInv,
         \/ TakesLastClean("enter", "loop")
         \/ TakesLastClean("clean", "recv")
  PROVE  ClockInv'
<1>1. /\ WORD \in Nat /\ ULL \in Nat
      /\ APP_EPOCH_UNTIL_CLEAN \in Nat /\ APP_EPOCH_UNTIL_CLEAN >= 1
      /\ Overdue = APP_EPOCH_UNTIL_CLEAN + 2
  BY Limits
<1> PICK from \in {"enter", "clean"}, to \in {"loop", "recv"} :
      TakesLastClean(from, to)
  OBVIOUS
<1>2. /\ Reads(from, to) /\ lastClean' = Value /\ Tears("lastClean")
      /\ UNCHANGED <<last, message, stamp, pass>>
  BY DEF TakesLastClean
<1>3. /\ at = from /\ low # None /\ at' = to /\ low' = None
      /\ systime' = systime /\ app' = app /\ sinceClean' = sinceClean
      /\ Ticks \in {0, 1} /\ Ticks' = 0 /\ Value \in 0 .. ULL - 1
  BY <1>2, ReadsFacts
<1>4. app = "sink" /\ sinceClean = Ticks
  BY <1>3, KeptLocals DEF ClockInv, Places, Cleaning
<1>5. Elapsed' = Ticks
  <2>1. /\ (IF "lastClean" \in torn' THEN Minus(Value, WORD) ELSE Value)
             = ReadTime
        /\ Minus(systime, ReadTime) = Ticks
    BY <1>2, TakenIsRead
  <2>2. Elapsed' = Minus(systime', IF "lastClean" \in torn'
                                   THEN Minus(lastClean', WORD)
                                   ELSE lastClean')
    BY DEF Elapsed, Untorn
  <2>3. QED
    BY <1>2, <1>3, <2>1, <2>2
<1>6. pass' = pass /\ pass \in Nat
  BY <1>2, KeptLocals
<1>7. Places' /\ Message' /\ FirstTicks' /\ Waiting'
  BY <1>2, <1>3, <1>4 DEF ClockInv, Places, Message, FirstTicks, Waiting
<1>8. Cleaning'
  <2>1. /\ sinceClean' = IF Elapsed' < Overdue THEN Elapsed' ELSE Overdue
        /\ Ticks' <= Elapsed'
        /\ Elapsed' <= APP_EPOCH_UNTIL_CLEAN + pass' + 1 + Ticks'
        /\ Elapsed' <= APP_EPOCH_UNTIL_CLEAN + MaxPass + DelayMs + 8 + Ticks'
                          + Halfway'
    <3>1. MaxPass \in Nat /\ DelayMs \in Nat /\ Halfway' \in {0, 1}
      BY Limits, SysTimeAssumption DEF Halfway
    <3>2. /\ sinceClean' = IF Elapsed' < Overdue THEN Elapsed' ELSE Overdue
          /\ Ticks' <= Elapsed'
          /\ Elapsed' <= APP_EPOCH_UNTIL_CLEAN + pass' + 1 + Ticks'
      BY <1>1, <1>3, <1>4, <1>5, <1>6
    <3>3. Elapsed' <= APP_EPOCH_UNTIL_CLEAN + MaxPass + DelayMs + 8 + Ticks'
                        + Halfway'
      <4>1. Elapsed' \in {0, 1} /\ Ticks' = 0
        BY <1>3, <1>5
      <4> DEFINE e == Elapsed'
                 h == Halfway'
      <4>2. APP_EPOCH_UNTIL_CLEAN \in Nat /\ MaxPass \in Nat /\ DelayMs \in Nat
            /\ e \in {0, 1} /\ h \in {0, 1}
        BY <1>1, <3>1, <4>1
      <4> HIDE DEF e, h
      <4>3. e <= APP_EPOCH_UNTIL_CLEAN + MaxPass + DelayMs + 8 + 0 + h
        BY <4>2
      <4>4. QED
        BY <4>1, <4>3 DEF e, h
    <3>4. QED
      BY <3>2, <3>3
  <2>2. QED
    BY <1>3, <2>1 DEF Cleaning
<1>9. QED
  BY <1>2, <1>3, <1>7, <1>8, KeptLocals, TornLocals, ReadsKeeps
     DEF Position

(* At the top of the loop the sink has not waited for a word's time since  *)
(* its last clean-up: a torn read makes the difference too large, never    *)
(* too small.                                                              *)
LEMMA LoopLooks ==
  ASSUME ClockInv, at = "loop", low # None
  PROVE  /\ app = "sink" /\ Ticks \in {0, 1}
         /\ Elapsed \in Nat /\ Elapsed >= Ticks
         /\ Minus(Value, lastClean) \in Nat
         /\ Minus(Value, lastClean) <= APP_EPOCH_UNTIL_CLEAN =>
              Elapsed <= APP_EPOCH_UNTIL_CLEAN + Ticks
         /\ Minus(Value, lastClean) > APP_EPOCH_UNTIL_CLEAN =>
              \/ Elapsed > APP_EPOCH_UNTIL_CLEAN + Ticks
              \/ "lastClean" \in torn \/ Carried
<1>1. /\ WORD \in Nat /\ ULL \in Nat
      /\ APP_EPOCH_UNTIL_CLEAN \in Nat /\ DelayMs \in Nat
      /\ APP_EPOCH_UNTIL_CLEAN + MaxPass + DelayMs + 10 <= WORD /\ DelayMs >= 1
      /\ MaxPass \in Nat
  BY Limits
<1>2. /\ app = "sink" /\ Elapsed \in Nat
      /\ lastClean \in 0 .. ULL - 1 /\ ClockTypeOK /\ Loaded
  BY KeptLocals DEF ClockInv, Places
<1>3. Ticks \in {0, 1} /\ Halfway = 1
  BY <1>2 DEF ClockTypeOK, Ticks, Halfway
<1>4. /\ Ticks <= Elapsed
      /\ Elapsed <= APP_EPOCH_UNTIL_CLEAN + MaxPass + DelayMs + 8 + Ticks + 1
  BY <1>2, <1>3 DEF ClockInv, Cleaning
<1>5. Elapsed < WORD + Ticks
  BY <1>1, <1>2, <1>3, <1>4
<1>6. /\ Minus(Value, lastClean) \in 0 .. ULL - 1
      /\ Carried = ("lastClean" \in torn) =>
           Minus(Value, lastClean) = Elapsed - Ticks
      /\ Carried # ("lastClean" \in torn) => Minus(Value, lastClean) >= WORD
  <2>1. Elapsed = Minus(systime, Untorn("lastClean", lastClean))
    BY DEF Elapsed
  <2> DEFINE d == Elapsed
  <2>2. /\ d = Minus(systime, Untorn("lastClean", lastClean))
        /\ Ticks <= d /\ d < WORD + Ticks
    BY <1>4, <1>5, <2>1
  <2> HIDE DEF d
  <2>3. /\ Minus(Value, lastClean) \in 0 .. ULL - 1
        /\ Carried = ("lastClean" \in torn) =>
             Minus(Value, lastClean) = d - Ticks
        /\ Carried # ("lastClean" \in torn) =>
             Minus(Value, lastClean) >= WORD
    BY <1>2, <2>2, PassedAtRead
  <2>4. QED
    BY <2>3 DEF d
<1> DEFINE v == Minus(Value, lastClean)
           c == Carried
           e == "lastClean" \in torn
<1>7. /\ v \in Nat
      /\ c = e => v = Elapsed - Ticks
      /\ c # e => v >= WORD
      /\ c \in BOOLEAN /\ e \in BOOLEAN
  <2>1. c \in BOOLEAN /\ e \in BOOLEAN
    BY <1>2 DEF ClockTypeOK, Carried
  <2>2. QED
    BY <1>1, <1>6, <2>1
<1> HIDE DEF v, c, e
<1>8. v <= APP_EPOCH_UNTIL_CLEAN => Elapsed <= APP_EPOCH_UNTIL_CLEAN + Ticks
  BY <1>1, <1>2, <1>3, <1>7
<1>9. v > APP_EPOCH_UNTIL_CLEAN =>
        Elapsed > APP_EPOCH_UNTIL_CLEAN + Ticks \/ c \/ e
  BY <1>1, <1>2, <1>3, <1>7
<1>10. QED
  BY <1>2, <1>3, <1>4, <1>7, <1>8, <1>9 DEF v, c, e

LEMMA LoopsKeeps == ClockInv /\ Loops => ClockInv'
<1> SUFFICES ASSUME ClockInv, Loops PROVE ClockInv'
  OBVIOUS
<1>1. /\ APP_EPOCH_UNTIL_CLEAN \in Nat
      /\ Overdue = APP_EPOCH_UNTIL_CLEAN + 2
  BY Limits
<1>2. PICK to \in {"clean", "recv"} :
        /\ Reads("loop", to)
        /\ to = "recv" => ~(Minus(Value, lastClean) > APP_EPOCH_UNTIL_CLEAN)
  BY DEF Loops
<1>3. UNCHANGED <<last, lastClean, message, stamp, pass, torn>>
  BY DEF Loops, KeepsLocals
<1>4. /\ at = "loop" /\ low # None /\ at' = to /\ low' = None
      /\ systime' = systime /\ app' = app /\ sinceClean' = sinceClean
      /\ Ticks \in {0, 1} /\ Ticks' = 0
  BY <1>2, ReadsFacts
<1>5. /\ app = "sink" /\ Elapsed \in Nat
      /\ to = "recv" => Elapsed <= APP_EPOCH_UNTIL_CLEAN + Ticks
  <2>1. Minus(Value, lastClean) \in Nat
    BY <1>4, LoopLooks
  <2>2. to = "recv" => Minus(Value, lastClean) <= APP_EPOCH_UNTIL_CLEAN
    BY <1>1, <1>2, <2>1
  <2>3. QED
    BY <1>4, <2>2, LoopLooks
<1>6. Elapsed' = Elapsed
  BY <1>3, <1>4 DEF Elapsed, Untorn
<1>7. Places' /\ Message' /\ FirstTicks' /\ Waiting'
  BY <1>3, <1>4, <1>5 DEF ClockInv, Places, Message, FirstTicks, Waiting
<1>8. Cleaning'
  <2>1. sinceClean = IF Elapsed < Overdue THEN Elapsed ELSE Overdue
    BY <1>4, <1>5 DEF ClockInv, Cleaning
  <2>2. to = "recv" => Elapsed <= APP_EPOCH_UNTIL_CLEAN + pass' + 1 + 0
    BY <1>1, <1>3, <1>4, <1>5, KeptLocals
  <2>3. 0 <= Elapsed
    BY <1>5
  <2>4. QED
    BY <1>4, <1>6, <2>1, <2>2, <2>3 DEF Cleaning
<1>9. QED
  BY <1>2, <1>3, <1>7, <1>8, KeptLocals, ReadsKeeps DEF Position

(* A call has taken another ms.                                            *)
LEMMA SpendsKeeps == ClockInv /\ Spends => ClockInv'
<1> SUFFICES ASSUME ClockInv, Spends PROVE ClockInv'
  OBVIOUS
<1>1. /\ at \in {"enter", "clean", "recv", "send", "ask", "slot"}
      /\ low = None /\ ticked /\ pass < MaxPass /\ pass' = pass + 1
      /\ ~ticked' /\ ticked' \in BOOLEAN
      /\ UNCHANGED <<systime, clock, app, at, low, last, lastClean, message,
                     stamp, since, sinceClean, torn>>
  BY DEF Spends
<1>2. APP_EPOCH_UNTIL_CLEAN \in Nat /\ MaxPass \in Nat /\ pass \in Nat
  BY Limits, KeptLocals
<1>3. Ticks = 1 /\ Ticks' = 0
  BY <1>1 DEF Ticks
<1>4. ClockTypeOK'
  <2>1. pass' \in 0 .. MaxPass
    BY <1>1, <1>2
  <2>2. QED
    BY <1>1, <2>1 DEF ClockInv, ClockTypeOK
<1>5. Places' /\ Message' /\ Loaded' /\ FirstTicks' /\ Waiting' /\ Time64'
  BY <1>1
     DEF ClockInv, Places, Message, Loaded, FirstTicks, Waiting, Time64,
         Storing
<1>6. Cleaning'
  <2> SUFFICES ASSUME app = "sink", at \in {"recv", "send"} PROVE Cleaning'
    BY <1>1 DEF Cleaning
  <2>1. /\ sinceClean = IF Elapsed < Overdue THEN Elapsed ELSE Overdue
        /\ Elapsed \in Nat
        /\ at = "recv" => Elapsed <= APP_EPOCH_UNTIL_CLEAN + pass + 1 + 1
        /\ at = "send" => Elapsed <= APP_EPOCH_UNTIL_CLEAN + pass + 4 + 1
    BY <1>3, KeptLocals DEF ClockInv, Cleaning
  <2>2. Elapsed' = Elapsed
    BY <1>1 DEF Elapsed, Untorn
  <2>3. /\ 0 <= Elapsed
        /\ at = "recv" => Elapsed <= APP_EPOCH_UNTIL_CLEAN + pass' + 1 + 0
        /\ at = "send" => Elapsed <= APP_EPOCH_UNTIL_CLEAN + pass' + 4 + 0
    BY <1>1, <1>2, <2>1
  <2>4. QED
    BY <1>1, <1>3, <2>1, <2>2, <2>3 DEF Cleaning
<1>7. QED
  BY <1>4, <1>5, <1>6 DEF ClockInv

(* A call returns: a message 'S' has come, or not; the answer has been     *)
(* sent, or given up; the next period of a node begins.                    *)
LEMMA ReturnsKeeps ==
  ASSUME ClockInv,
         \/ at = "recv" /\ at' \in {"stamp", "delay"}
         \/ at \in {"send", "slot"} /\ at' = "delay",
         ticked' = FALSE,
         \/ UNCHANGED <<message, stamp>>
         \/ message' = NoMessage /\ stamp' = 0,
         UNCHANGED <<systime, clock, app, low, last, lastClean, pass, since,
                     sinceClean, torn>>
  PROVE  ClockInv'
<1>1. APP_EPOCH_UNTIL_CLEAN \in Nat /\ ULL \in Nat /\ ULL >= 16 * WORD
      /\ WORD \in Nat /\ WORD >= 16
  BY Limits
<1>2. /\ low = None /\ pass \in Nat
      /\ at \in {"recv", "send"} => app = "sink"
      /\ at = "slot" => app = "node"
  BY KeptLocals DEF ClockInv, Places
<1>3. Ticks \in {0, 1} /\ Ticks' = 0 /\ Halfway' = 0
  <2>1. ticked \in BOOLEAN /\ low' = None
    BY <1>2 DEF ClockInv, ClockTypeOK
  <2>2. QED
    BY <2>1 DEF Ticks, Halfway
<1>4. ClockTypeOK'
  <2>1. /\ stamp' \in 0 .. ULL - 1
        /\ message' = NoMessage \/ message' \in [1 .. 12 -> 0 .. BYTE - 1]
    <3>1. 0 \in 0 .. ULL - 1
      BY <1>1
    <3>2. QED
      BY <3>1, KeptLocals
  <2>2. ticked' \in BOOLEAN /\ at' \in Position
    BY DEF Position
  <2>3. QED
    BY <2>1, <2>2 DEF ClockInv, ClockTypeOK, Position
<1>5. Places' /\ Loaded' /\ FirstTicks' /\ Waiting' /\ Time64'
  BY <1>2
     DEF ClockInv, Places, Loaded, FirstTicks, Waiting, Time64, Storing
<1>6. Message'
  BY DEF ClockInv, Message
<1>7. Cleaning'
  <2> SUFFICES ASSUME app = "sink" PROVE Cleaning'
    BY DEF Cleaning
  <2>0. at # "slot" /\ Elapsed \in Nat
    BY <1>2, KeptLocals
  <2>1. /\ sinceClean = IF Elapsed < Overdue THEN Elapsed ELSE Overdue
        /\ at = "recv" => Elapsed <= APP_EPOCH_UNTIL_CLEAN + pass + 1 + Ticks
        /\ at = "send" => Elapsed <= APP_EPOCH_UNTIL_CLEAN + pass + 4 + Ticks
    BY <2>0 DEF ClockInv, Cleaning
  <2>2. Elapsed' = Elapsed
    BY DEF Elapsed, Untorn
  <2>3. /\ 0 <= Elapsed
        /\ Elapsed <= APP_EPOCH_UNTIL_CLEAN + pass + 5 + 0 + 0
        /\ at' = "stamp" => Elapsed <= APP_EPOCH_UNTIL_CLEAN + pass + 2 + 0 + 0
    BY <1>1, <1>2, <1>3, <2>0, <2>1
  <2>4. QED
    BY <1>3, <2>0, <2>1, <2>2, <2>3 DEF Cleaning
<1>8. QED
  BY <1>4, <1>5, <1>6, <1>7 DEF ClockInv

LEMMA ReceivesKeeps == ClockInv /\ Receives => ClockInv'
BY ReturnsKeeps DEF Receives, GoesTo

LEMMA SentKeeps == ClockInv /\ Sent => ClockInv'
BY ReturnsKeeps DEF Sent

LEMMA NextPeriodKeeps == ClockInv /\ NextPeriod => ClockInv'
BY ReturnsKeeps DEF NextPeriod, GoesTo

(* The sink stamps its answer.                                             *)
LEMMA AnswersKeeps == ClockInv /\ Answers => ClockInv'
<1> SUFFICES ASSUME ClockInv, Answers PROVE ClockInv'
  OBVIOUS
<1>1. APP_EPOCH_UNTIL_CLEAN \in Nat
  BY Limits
<1>2. /\ Reads("stamp", "send") /\ stamp' = Value
      /\ message' = Params(Value) /\ UNCHANGED <<last, lastClean, pass, torn>>
  BY DEF Answers
<1>3. /\ at = "stamp" /\ low # None /\ at' = "send" /\ low' = None
      /\ systime' = systime /\ app' = app /\ sinceClean' = sinceClean
      /\ Ticks \in {0, 1} /\ Ticks' = 0 /\ Halfway = 1 /\ Halfway' = 0
      /\ Value \in 0 .. ULL - 1
  BY <1>2, ReadsFacts
<1>4. app = "sink"
  BY <1>3, KeptLocals DEF ClockInv, Places
<1>5. message' \in [1 .. 12 -> 0 .. BYTE - 1] /\ Message'
  <2>1. Params(Value) \in [1 .. 12 -> 0 .. BYTE - 1]
    BY <1>3, ParamsDecoded
  <2>2. message' = Params(stamp')
    BY <1>2
  <2>3. QED
    BY <1>2, <1>3, <2>1, <2>2 DEF Message
<1>6. Places' /\ FirstTicks' /\ Waiting'
  BY <1>3, <1>4 DEF Places, FirstTicks, Waiting
<1>7. Cleaning'
  <2>1. /\ sinceClean = IF Elapsed < Overdue THEN Elapsed ELSE Overdue
        /\ Elapsed <= APP_EPOCH_UNTIL_CLEAN + pass + 2 + Ticks + Halfway
        /\ Elapsed \in Nat /\ pass \in Nat /\ pass' = pass
    BY <1>2, <1>3, <1>4, KeptLocals DEF ClockInv, Cleaning
  <2>2. Elapsed' = Elapsed
    BY <1>2, <1>3 DEF Elapsed, Untorn
  <2>3. 0 <= Elapsed /\ Elapsed <= APP_EPOCH_UNTIL_CLEAN + pass + 4 + 0
    BY <1>1, <1>3, <2>1
  <2>4. QED
    BY <1>3, <2>1, <2>2, <2>3 DEF Cleaning
<1>8. QED
  BY <1>2, <1>3, <1>5, <1>6, <1>7, KeptLocals, ReadsKeeps DEF Position

(* A wait begins.                                                          *)
LEMMA DelaysKeeps == ClockInv /\ Delays => ClockInv'
<1> SUFFICES ASSUME ClockInv, Delays PROVE ClockInv'
  OBVIOUS
<1>1. /\ APP_EPOCH_UNTIL_CLEAN \in Nat /\ DelayMs \in Nat /\ DelayMs >= 1
      /\ WORD \in Nat /\ ULL \in Nat
  BY Limits
<1>2. /\ Reads("delay", "wait") /\ last' = Value /\ Tears("last")
      /\ UNCHANGED <<lastClean, message, stamp, pass>>
  BY DEF Delays, TakesLast
<1>3. /\ at = "delay" /\ low # None /\ at' = "wait" /\ low' = None
      /\ systime' = systime /\ app' = app /\ sinceClean' = sinceClean
      /\ since' = since /\ Value \in 0 .. ULL - 1
      /\ Ticks \in {0, 1} /\ Ticks' = 0 /\ Halfway = 1 /\ Halfway' = 0
  BY <1>2, ReadsFacts
<1>4. Waited' = Ticks
  <2>1. /\ (IF "last" \in torn' THEN Minus(Value, WORD) ELSE Value) = ReadTime
        /\ Minus(systime, ReadTime) = Ticks
    BY <1>2, TakenIsRead
  <2>2. Waited' = Minus(systime', IF "last" \in torn'
                                  THEN Minus(last', WORD) ELSE last')
    BY DEF Waited, Untorn
  <2>3. QED
    BY <1>2, <1>3, <2>1, <2>2
<1>5. Elapsed' = Elapsed
  <2>1. "lastClean" \in torn' <=> "lastClean" \in torn
    BY <1>2, TornLocals
  <2>2. QED
    BY <1>2, <1>3, <2>1 DEF Elapsed, Untorn
<1>6. Places' /\ Message' /\ FirstTicks'
  BY <1>2, <1>3 DEF ClockInv, Places, Message, FirstTicks
<1>7. Waiting'
  <2>1. since = Ticks
    BY <1>3 DEF ClockInv, Waiting
  <2>2. /\ since' = IF Waited' < DelayMs THEN Waited' ELSE DelayMs
        /\ Ticks' <= Waited' /\ Waited' <= DelayMs + Ticks' + Halfway'
    BY <1>1, <1>3, <1>4, <2>1
  <2>3. QED
    BY <1>3, <2>2 DEF Waiting
<1>8. Cleaning'
  <2> SUFFICES ASSUME app = "sink" PROVE Cleaning'
    BY <1>3 DEF Cleaning
  <2>1. /\ sinceClean = IF Elapsed < Overdue THEN Elapsed ELSE Overdue
        /\ Elapsed <= APP_EPOCH_UNTIL_CLEAN + pass + 5 + Ticks + Halfway
        /\ Elapsed \in Nat /\ pass \in Nat /\ pass' = pass
    BY <1>2, <1>3, KeptLocals DEF ClockInv, Cleaning
  <2>2. 0 <= Elapsed /\ Elapsed <= APP_EPOCH_UNTIL_CLEAN + pass + 6 + Waited'
    BY <1>1, <1>3, <1>4, <2>1
  <2>3. QED
    BY <1>3, <1>5, <2>1, <2>2 DEF Cleaning
<1>9. QED
  BY <1>2, <1>3, <1>6, <1>7, <1>8, KeptLocals, TornLocals, ReadsKeeps
     DEF Position

(* A wait goes on only while less than it is to last has passed, and it    *)
(* ends, but for a torn read, when that has passed.                        *)
LEMMA WaitLooks ==
  ASSUME ClockInv, at = "wait", low # None
  PROVE  /\ Ticks \in {0, 1} /\ Waited \in Nat /\ Waited >= Ticks
         /\ Waited <= DelayMs + Ticks + 1
         /\ Minus(Value, last) \in Nat
         /\ Minus(Value, last) < DelayMs => Waited < DelayMs + Ticks
         /\ Minus(Value, last) >= DelayMs =>
              \/ Waited >= DelayMs + Ticks \/ "last" \in torn \/ Carried
<1>1. /\ WORD \in Nat /\ ULL \in Nat
      /\ APP_EPOCH_UNTIL_CLEAN \in Nat /\ DelayMs \in Nat
      /\ MaxPass \in Nat
      /\ APP_EPOCH_UNTIL_CLEAN + MaxPass + DelayMs + 10 <= WORD
  BY Limits
<1>2. /\ Waited \in Nat /\ last \in 0 .. ULL - 1 /\ ClockTypeOK /\ Loaded
  BY KeptLocals DEF ClockInv
<1>3. Ticks \in {0, 1} /\ Halfway = 1
  BY <1>2 DEF ClockTypeOK, Ticks, Halfway
<1>4. Ticks <= Waited /\ Waited <= DelayMs + Ticks + 1
  BY <1>2, <1>3 DEF ClockInv, Waiting
<1>5. Waited < WORD + Ticks
  BY <1>1, <1>2, <1>3, <1>4
<1>6. /\ Minus(Value, last) \in 0 .. ULL - 1
      /\ Carried = ("last" \in torn) => Minus(Value, last) = Waited - Ticks
      /\ Carried # ("last" \in torn) => Minus(Value, last) >= WORD
  <2> DEFINE d == Waited
  <2>1. /\ d = Minus(systime, Untorn("last", last))
        /\ Ticks <= d /\ d < WORD + Ticks
    BY <1>4, <1>5 DEF Waited
  <2> HIDE DEF d
  <2>2. /\ Minus(Value, last) \in 0 .. ULL - 1
        /\ Carried = ("last" \in torn) => Minus(Value, last) = d - Ticks
        /\ Carried # ("last" \in torn) => Minus(Value, last) >= WORD
    BY <1>2, <2>1, PassedAtRead
  <2>3. QED
    BY <2>2 DEF d
<1> DEFINE v == Minus(Value, last)
           c == Carried
           e == "last" \in torn
<1>7. /\ v \in Nat
      /\ c = e => v = Waited - Ticks
      /\ c # e => v >= WORD
      /\ c \in BOOLEAN /\ e \in BOOLEAN
  <2>1. c \in BOOLEAN /\ e \in BOOLEAN
    BY <1>2 DEF ClockTypeOK, Carried
  <2>2. QED
    BY <1>1, <1>6, <2>1
<1> HIDE DEF v, c, e
<1>8. v < DelayMs => Waited < DelayMs + Ticks
  BY <1>1, <1>2, <1>3, <1>7
<1>9. v >= DelayMs => Waited >= DelayMs + Ticks \/ c \/ e
  BY <1>1, <1>2, <1>3, <1>7
<1>10. QED
  BY <1>2, <1>3, <1>4, <1>7, <1>8, <1>9 DEF v, c, e

LEMMA WaitsKeeps == ClockInv /\ Waits => ClockInv'
<1> SUFFICES ASSUME ClockInv, Waits PROVE ClockInv'
  OBVIOUS
<1>1. /\ APP_EPOCH_UNTIL_CLEAN \in Nat /\ DelayMs \in Nat /\ DelayMs >= 1
      /\ WORD \in Nat /\ ULL \in Nat /\ ULL >= 16 * WORD /\ WORD >= 16
  BY Limits
<1>2. MaxPass \in Nat /\ pass \in 0 .. MaxPass
  BY Limits, KeptLocals
<1>3. ASSUME Minus(Value, last) < DelayMs, Reads("wait", "wait"), KeepsLocals
      PROVE  ClockInv'
  <2>1. /\ at = "wait" /\ low # None /\ at' = "wait" /\ low' = None
        /\ systime' = systime /\ app' = app /\ sinceClean' = sinceClean
        /\ since' = since
        /\ Ticks \in {0, 1} /\ Ticks' = 0 /\ Halfway = 1 /\ Halfway' = 0
    BY <1>3, ReadsFacts
  <2>2. UNCHANGED <<last, lastClean, message, stamp, pass, torn>>
    BY <1>3 DEF KeepsLocals
  <2>3. Waited' = Waited /\ Elapsed' = Elapsed
    BY <2>1, <2>2 DEF Waited, Elapsed, Untorn
  <2>4. Waited \in Nat /\ Waited < DelayMs + Ticks
    BY <1>3, <2>1, WaitLooks
  <2>5. Places' /\ Message' /\ FirstTicks'
    BY <2>1, <2>2 DEF ClockInv, Places, Message, FirstTicks
  <2>6. Waiting'
    <3>1. since = IF Waited < DelayMs THEN Waited ELSE DelayMs
      BY <2>1 DEF ClockInv, Waiting
    <3>2. 0 <= Waited /\ Waited <= DelayMs + 0 + 0
      BY <1>1, <2>1, <2>4
    <3>3. QED
      BY <2>1, <2>3, <3>1, <3>2 DEF Waiting
  <2>7. Cleaning'
    <3> SUFFICES ASSUME app = "sink" PROVE Cleaning'
      BY <2>1 DEF Cleaning
    <3>1. /\ sinceClean = IF Elapsed < Overdue THEN Elapsed ELSE Overdue
          /\ Elapsed <= APP_EPOCH_UNTIL_CLEAN + pass + 6 + Waited
          /\ Elapsed \in Nat /\ 0 <= Elapsed
      BY <2>1, KeptLocals DEF ClockInv, Cleaning
    <3>2. pass' = pass
      BY <2>2
    <3>3. QED
      BY <2>1, <2>3, <3>1, <3>2 DEF Cleaning
  <2>8. QED
    BY <1>3, <2>2, <2>5, <2>6, <2>7, KeptLocals, ReadsKeeps DEF Position
<1>4. ASSUME NEW to \in {"loop", "slot"},
             to = IF app = "sink" THEN "loop" ELSE "slot",
             Reads("wait", to), last' = 0, pass' = 0,
             torn' = torn \ {"last"}, UNCHANGED <<lastClean, message, stamp>>
      PROVE  ClockInv'
  <2>1. /\ at = "wait" /\ low # None /\ at' = to /\ low' = None
        /\ systime' = systime /\ app' = app /\ sinceClean' = sinceClean
        /\ Ticks \in {0, 1} /\ Ticks' = 0 /\ Halfway = 1 /\ Halfway' = 0
    BY <1>4, ReadsFacts
  <2>2. Elapsed' = Elapsed
    BY <1>4, <2>1 DEF Elapsed, Untorn
  <2>3. Places' /\ Message' /\ FirstTicks' /\ Waiting'
    BY <1>4, <2>1, KeptLocals
       DEF ClockInv, Places, Message, FirstTicks, Waiting
  <2>4. Cleaning'
    <3> SUFFICES ASSUME app = "sink" PROVE Cleaning'
      BY <2>1 DEF Cleaning
    <3>1. /\ sinceClean = IF Elapsed < Overdue THEN Elapsed ELSE Overdue
          /\ Elapsed <= APP_EPOCH_UNTIL_CLEAN + pass + 6 + Waited
          /\ Elapsed \in Nat
      BY <2>1, KeptLocals DEF ClockInv, Cleaning
    <3>2. Waited \in Nat /\ Waited <= DelayMs + Ticks + 1
      BY <2>1, WaitLooks
    <3>3. /\ 0 <= Elapsed
          /\ Elapsed <= APP_EPOCH_UNTIL_CLEAN + MaxPass + DelayMs + 8 + 0 + 0
      BY <1>1, <1>2, <2>1, <3>1, <3>2
    <3>4. at' = "loop"
      BY <1>4, <2>1
    <3>5. QED
      BY <2>1, <2>2, <3>1, <3>3, <3>4 DEF Cleaning
  <2>5. 0 \in 0 .. ULL - 1 /\ pass' \in 0 .. MaxPass
    BY <1>1, <1>4, <1>2
  <2>6. /\ torn' \subseteq {"last", "lastClean", "systime"}
        /\ "systime" \in torn' <=> "systime" \in torn
    BY <1>4, KeptLocals
  <2>7. QED
    BY <1>4, <2>3, <2>4, <2>5, <2>6, KeptLocals, ReadsKeeps DEF Position
<1>5. QED
  BY <1>3, <1>4 DEF Waits

(* A node gets its answer ...                                              *)
LEMMA IsToldKeeps == ClockInv /\ IsTold => ClockInv'
<1> SUFFICES ASSUME ClockInv, IsTold PROVE ClockInv'
  OBVIOUS
<1>1. PICK t \in Stamps : stamp' = t /\ message' = Params(t)
  BY DEF IsTold
<1>2. /\ at = "ask" /\ at' = "set" /\ ~ticked' /\ ticked' \in BOOLEAN
      /\ pass' = 0 /\ MaxPass \in Nat
      /\ UNCHANGED <<systime, clock, app, low, last, lastClean, since,
                     sinceClean, torn>>
  BY Limits DEF IsTold
<1>3. t \in 0 .. ULL - 1
  BY SysTimeAssumption
<1>4. /\ Params(t) \in [1 .. 12 -> 0 .. BYTE - 1] /\ Params(t) # NoMessage
  BY <1>3, ParamsDecoded
<1>5. low = None /\ app = "node"
  BY <1>2, KeptLocals DEF ClockInv, Places
<1>6. ClockTypeOK'
  BY <1>1, <1>2, <1>3, <1>4 DEF ClockInv, ClockTypeOK
<1>7. Message'
  <2>1. message' = Params(stamp')
    BY <1>1
  <2>2. QED
    BY <1>1, <1>4, <2>1 DEF Message
<1>8. Places' /\ Loaded' /\ FirstTicks' /\ Waiting' /\ Time64' /\ Cleaning'
  BY <1>2, <1>5
     DEF ClockInv, Places, Loaded, FirstTicks, Waiting, Time64, Storing,
         Cleaning
<1>9. QED
  BY <1>6, <1>7, <1>8 DEF ClockInv

(* ... and stores the low word of its time, ...                            *)
LEMMA StoresLowKeeps == ClockInv /\ StoresLow => ClockInv'
<1> SUFFICES ASSUME ClockInv, StoresLow PROVE ClockInv'
  OBVIOUS
<1>1. /\ at = "set" /\ low = None /\ low' = NewTime % WORD
      /\ systime' = (systime \div WORD) * WORD + (NewTime % WORD)
      /\ clock' = NewTime /\ ~ticked' /\ ticked' \in BOOLEAN
      /\ UNCHANGED <<app, at, last, lastClean, message, stamp, pass,
                     since, sinceClean, torn>>
  BY DEF StoresLow
<1>2. NewTime \in 0 .. ULL - 1
  BY <1>1, NewTimeType DEF ClockInv, Message
<1>3. systime \div WORD \in 0 .. WORD - 1 /\ NewTime % WORD \in 0 .. WORD - 1
  BY <1>2, Halves DEF ClockInv, ClockTypeOK
<1>4. systime' \in 0 .. ULL - 1 /\ systime' % WORD = NewTime % WORD
  <2> DEFINE h == systime \div WORD
             l == NewTime % WORD
  <2>1. h \in 0 .. WORD - 1 /\ l \in 0 .. WORD - 1
    BY <1>3
  <2>2. systime' = h * WORD + l
    BY <1>1
  <2> HIDE DEF h, l
  <2>3. h * WORD + l \in 0 .. ULL - 1 /\ (h * WORD + l) % WORD = l
    BY <2>1, TwoWords
  <2>4. systime' \in 0 .. ULL - 1 /\ systime' % WORD = l
    BY <2>2, <2>3
  <2>5. QED
    BY <2>4 DEF l
<1>5. ClockTypeOK'
  BY <1>1, <1>2, <1>3, <1>4 DEF ClockInv, ClockTypeOK
<1>6. Places' /\ Message' /\ Loaded' /\ FirstTicks' /\ Waiting' /\ Cleaning'
  BY <1>1, KeptLocals
     DEF ClockInv, Places, Message, Loaded, FirstTicks, Waiting, Cleaning
<1>7. Time64'
  <2>1. NewTime' = NewTime
    BY <1>1 DEF NewTime
  <2>2. \A n \in 0 .. WORD - 1 : n # None
    BY Limits DEF None
  <2>3. Storing'
    BY <1>1, <1>3, <2>2 DEF Storing
  <2>4. QED
    BY <1>1, <1>4, <2>1, <2>3 DEF Time64
<1>8. QED
  BY <1>5, <1>6, <1>7 DEF ClockInv

(* ... and the high word, under which the timer may have carried.          *)
LEMMA StoresHighKeeps == ClockInv /\ StoresHigh => ClockInv'
<1> SUFFICES ASSUME ClockInv, StoresHigh PROVE ClockInv'
  OBVIOUS
<1>1. /\ at = "set" /\ low # None /\ at' = "slot" /\ low' = None
      /\ systime' = (NewTime \div WORD) * WORD + (systime % WORD)
      /\ torn' = IF Carried THEN torn \cup {"systime"}
                 ELSE torn \ {"systime"}
      /\ message' = NoMessage /\ stamp' = 0 /\ ~ticked' /\ ticked' \in BOOLEAN
      /\ UNCHANGED <<clock, app, last, lastClean, pass, since, sinceClean>>
  BY DEF StoresHigh, Tears
<1>2. NewTime \in 0 .. ULL - 1
  BY <1>1, NewTimeType DEF ClockInv, Message
<1>3. /\ systime % WORD \in 0 .. WORD - 1
      /\ NewTime \div WORD \in 0 .. WORD - 1
      /\ NewTime = (NewTime \div WORD) * WORD + (NewTime % WORD)
  BY <1>2, Halves DEF ClockInv, ClockTypeOK
<1>4. systime' \in 0 .. ULL - 1
  BY <1>1, <1>3, TwoWords
<1>5. ClockTypeOK'
  <2>1. 0 \in 0 .. ULL - 1 /\ torn' \subseteq {"last", "lastClean", "systime"}
    BY <1>1, Limits, KeptLocals
  <2>2. QED
    BY <1>1, <1>4, <2>1 DEF ClockInv, ClockTypeOK
<1>6. app = "node"
  BY <1>1, KeptLocals DEF ClockInv, Places
<1>7. Places' /\ Message' /\ Loaded' /\ FirstTicks' /\ Waiting' /\ Cleaning'
  BY <1>1, <1>6
     DEF Places, Message, Loaded, FirstTicks, Waiting, Cleaning
<1>8. ASSUME ~Carried PROVE systime' = clock
  <2>1. /\ clock = IF ticked THEN Plus(NewTime, 1) ELSE NewTime
        /\ systime % WORD = clock % WORD
    BY <1>1 DEF ClockInv, Time64, Storing
  <2>2. CASE ~ticked
    BY <1>1, <1>3, <2>1, <2>2
  <2>3. CASE ticked
    <3>1. systime % WORD # 0
      BY <1>8, <2>3 DEF Carried
    <3>2. clock = Plus(NewTime, 1) /\ clock % WORD # 0
      BY <2>1, <2>3, <3>1
    <3> DEFINE m == NewTime
    <3>3. m \in 0 .. ULL - 1
      BY <1>2
    <3> HIDE DEF m
    <3>4. /\ Plus(m, 1) \in 0 .. ULL - 1
          /\ m % WORD # WORD - 1 => Plus(m, 1) \div WORD = m \div WORD
          /\ m % WORD = WORD - 1 => Plus(m, 1) % WORD = 0
      BY <3>3, NextWords
    <3>5. Plus(m, 1) \div WORD = m \div WORD
      BY <3>2, <3>4 DEF m
    <3>6. clock \in 0 .. ULL - 1
      BY DEF ClockInv, ClockTypeOK
    <3>7. clock = (clock \div WORD) * WORD + (clock % WORD)
      BY <3>6, Halves
    <3>8. QED
      BY <1>1, <2>1, <3>2, <3>5, <3>7 DEF m
  <2>4. QED
    BY <2>2, <2>3
<1>9. Time64'
  BY <1>1, <1>8 DEF Time64, Storing
<1>10. QED
  BY <1>5, <1>7, <1>9 DEF ClockInv

(* main calls the application.                                             *)
LEMMA EntersKeeps == ClockInv /\ Enters => ClockInv'
<1> SUFFICES ASSUME ClockInv, Enters PROVE ClockInv'
  OBVIOUS
<1>1. /\ at = "off" /\ at' = "test"
      /\ UNCHANGED <<systime, clock, app, low, last, lastClean, message,
                     stamp, ticked, pass, since, sinceClean, torn>>
  BY DEF Enters
<1>2. low = None /\ systime = Ticks /\ Ticks' = Ticks
  BY <1>1 DEF ClockInv, Places, FirstTicks, Ticks
<1>3. ClockTypeOK'
  BY <1>1 DEF ClockInv, ClockTypeOK
<1>4. /\ Places' /\ Message' /\ Loaded' /\ FirstTicks' /\ Waiting'
      /\ Cleaning' /\ Time64'
  BY <1>1, <1>2
     DEF ClockInv, Places, Message, Loaded, FirstTicks, Waiting, Cleaning,
         Time64, Storing
<1>5. QED
  BY <1>3, <1>4 DEF ClockInv
-----------------------------------------------------------------------------
(* The board: the start and the application together.                      *)

(* The timer is set up call by call, before the application is called.     *)
LEMMA TimerInvKeeps ==
  ASSUME BootInv, TimerInv, [Next]_vars
  PROVE  TimerInv'
<1>1. CASE UNCHANGED vars
  BY <1>1 DEF vars, TimerInv
<1>2. CASE HostStep
  <2>1. CASE BoardInit
    BY <2>1 DEF BoardInit, Goes, TimerInv
  <2>2. CASE SetsUpTimer
    <3>1. CASE Timer_IF_Init
      BY <3>1 DEF Timer_IF_Init, SetsTimer, Goes, TimerInv
    <3>2. CASE Timer_IF_IntSetup
      BY <3>2 DEF Timer_IF_IntSetup, SetsTimer, Goes, TimerInv
    <3>3. CASE Timer_IF_Start
      BY <3>3 DEF Timer_IF_Start, SetsTimer, Goes, TimerInv
    <3>4. QED
      BY <2>2, <3>1, <3>2, <3>3 DEF SetsUpTimer
  <2>3. CASE GetsMac
    BY <2>3 DEF GetsMac, Goes, hostVars, TimerInv
  <2>4. CASE ~BoardInit /\ ~SetsUpTimer /\ ~GetsMac
    <3>1. \/ Starts \/ HasIp \/ SetsMode \/ StopsForMode
          \/ StartsInMode \/ GetsVersion \/ SetsPolicy \/ DeletesProfiles
          \/ Disconnects \/ HasDisconnected \/ Configures \/ Stops
          \/ StartsAsStation \/ ClearsPolicy \/ CallFails
      BY <1>2, <2>4 DEF HostStep
    <3>2. /\ timer' = timer /\ pc # "init"
          /\ pc' \notin {"init", "timerInt", "timerStart", "app"}
      <4>1. CASE Starts
        BY <4>1, PowersUpType
           DEF Starts, hostVars, BootInv, Role
      <4>2. CASE HasIp \/ SetsMode \/ StopsForMode \/ GetsVersion
        BY <4>2 DEF HasIp, SetsMode, StopsForMode, GetsVersion, Goes, hostVars
      <4>3. CASE StartsInMode \/ StartsAsStation
        BY <4>3 DEF StartsInMode, StartsAsStation, hostVars
      <4>4. CASE SetsPolicy \/ DeletesProfiles \/ Disconnects
        BY <4>4 DEF SetsPolicy, DeletesProfiles, Disconnects, Goes, hostVars
      <4>5. CASE HasDisconnected \/ Configures \/ Stops \/ ClearsPolicy
        BY <4>5
           DEF HasDisconnected, Configures, Stops, ClearsPolicy, Goes, hostVars
      <4>6. CASE CallFails
        BY <4>6 DEF CallFails, Calls, hostVars
      <4>7. QED
        BY <3>1, <4>1, <4>2, <4>3, <4>4, <4>5, <4>6
    <3>3. QED
      BY <3>2 DEF TimerInv
  <2>5. QED
    BY <2>1, <2>2, <2>3, <2>4
<1>3. CASE HandlesEvent
  BY <1>3 DEF HandlesEvent, TimerInv
<1>4. CASE NwpStep
  BY <1>4 DEF NwpStep, Reports, hostVars, TimerInv
<1>5. CASE Reset
  BY <1>5 DEF Reset, TimerInv
<1>6. QED
  BY <1>1, <1>2, <1>3, <1>4, <1>5 DEF Next

(* The timer runs when the application does.                               *)
LEMMA TimerRunsInApp ==
  ASSUME BootInv, TimerInv, pc = "app"
  PROVE  TimerRuns
BY DEF BootInv, TypeOK, TimerInv, TimerRuns

(* A step of a board is one of its start, ...                              *)
LEMMA BoardStepStarts ==
  ASSUME [BoardNext]_boardVars
  PROVE  [Next]_vars
BY DEF BoardNext, boardVars, Starting, Handling, Radio, BoardReset,
       Interrupt, Runs, Next

(* ... and keeps what the time and the locals stand for.                   *)
LEMMA BoardStepClock ==
  ASSUME BoardInv, [BoardNext]_boardVars
  PROVE  ClockInv'
<1>1. ClockInv /\ BootInv /\ TimerInv
  BY DEF BoardInv
<1>2. CASE UNCHANGED clockVars
  BY <1>1, <1>2
     DEF clockVars, ClockInv, ClockTypeOK, Places, Message, Time64, Storing,
         NewTime, Loaded, ReadTime, FirstTicks, Waiting, Cleaning, Ticks,
         Halfway, Waited, Elapsed, Untorn
<1>3. CASE Runs
  <2>1. CASE Enters
    BY <1>1, <2>1, EntersKeeps
  <2>2. CASE BusyDelayIsOver /\ Thread
    <3>1. TimerRuns
      BY <1>1, <1>3, TimerRunsInApp DEF Runs
    <3>2. CASE LoadsLow
      <4>1. at = "assert" => since > 0
        BY <2>2, <3>1, <3>2 DEF BusyDelayIsOver, LoadsLow
      <4>2. QED
        BY <1>1, <3>2, <4>1, LoadsLowKeeps
    <3>3. CASE \/ TakesLastClean("enter", "loop")
              \/ TakesLastClean("clean", "recv")
      BY <1>1, <3>3, TakesLastCleanKeeps
    <3>4. QED
      BY <1>1, <2>2, <3>2, <3>3, TestsKeeps, LoopsKeeps, ReceivesKeeps,
         AnswersKeeps, SentKeeps, DelaysKeeps, WaitsKeeps, NextPeriodKeeps,
         IsToldKeeps, StoresLowKeeps, StoresHighKeeps, SpendsKeeps
         DEF Thread
  <2>3. QED
    BY <1>3, <2>1, <2>2 DEF Runs
<1>4. CASE Interrupt
  BY <1>1, <1>4, TickKeeps DEF Interrupt
<1>5. CASE BoardReset
  BY <1>1, <1>5, ResetClockInv DEF BoardReset
<1>6. QED
  BY <1>2, <1>3, <1>4, <1>5
     DEF BoardNext, boardVars, Starting, Handling, Radio

LEMMA BoardInit0 == PowerOn => BoardInv
BY InitInv, InitClockInv DEF PowerOn, BoardInv, TimerInv, Init

LEMMA BoardStep == BoardInv /\ [BoardNext]_boardVars => BoardInv'
<1> SUFFICES ASSUME BoardInv, [BoardNext]_boardVars PROVE BoardInv'
  OBVIOUS
<1>1. BootInv' /\ TimerInv'
  BY BoardStepStarts, NextInv, TimerInvKeeps DEF BoardInv
<1>2. QED
  BY <1>1, BoardStepClock DEF BoardInv

(* What the start has achieved holds while the application runs, and every *)
(* half read word and every local of its thread is the time it stands for, *)
(* whenever the timer interrupts it and however often systime wraps.       *)
THEOREM BoardInvHolds == BoardSpec => []BoardInv
BY BoardInit0, BoardStep, PTL DEF BoardSpec

(* No millisecond is lost to the interrupt or to the store of a new time,  *)
(* but for a carry between the two words of the store.                     *)
THEOREM TimeIsKept == BoardSpec => []KeepsTime
<1>1. BoardInv => KeepsTime
  BY DEF BoardInv, ClockInv, Time64, Storing, KeepsTime
<1>2. QED
  BY <1>1, BoardInvHolds, PTL

(* A node decodes the period and the time that the sink encoded, for every *)
(* time that 64 bits hold.                                                 *)
THEOREM StampsArrive == BoardSpec => []StampArrives
<1>1. BoardInv => StampArrives
  <2> SUFFICES ASSUME BoardInv, message # NoMessage
               PROVE  /\ Period(message) = APP_DEFAULT_PERIOD_IN_MS
                      /\ Time(message) = stamp
    BY DEF StampArrives
  <2>1. message = Params(stamp) /\ stamp \in 0 .. ULL - 1
    BY DEF BoardInv, ClockInv, Message, ClockTypeOK
  <2>2. QED
    BY <2>1, ParamsDecoded
<1>2. QED
  BY <1>1, BoardInvHolds, PTL

(* The assertion of APP_test_systime never fails: whenever the application *)
(* is called, the start has the timer running.                             *)
THEOREM ClockAlwaysMoves == BoardSpec => []ClockMoves
<1>1. BoardInv => ClockMoves
  BY DEF BoardInv, ClockInv, FirstTicks, ClockMoves
<1>2. QED
  BY <1>1, BoardInvHolds, PTL

(* A step that takes the thread away from a place is of that place, or a   *)
(* reset.                                                                  *)
LEMMA LeavesPlace ==
  ASSUME BoardInv, [BoardNext]_boardVars, at' # at, at' # "off",
         at \in {"wait", "loop"}
  PROVE  \/ at = "wait" /\ low # None /\ Minus(Value, last) >= DelayMs
         \/ /\ at = "loop" /\ low # None
            /\ at' = "clean" => Minus(Value, lastClean) > APP_EPOCH_UNTIL_CLEAN
            /\ at' = "recv" =>
                 ~(Minus(Value, lastClean) > APP_EPOCH_UNTIL_CLEAN)
<1>1. BusyDelayIsOver /\ Thread
  BY DEF BoardNext, boardVars, clockVars, Starting, Handling, Radio,
         BoardReset, ClockReset, Interrupt, Tick, Runs, Enters
<1>2. Waits \/ Loops
  BY <1>1
     DEF Thread, LoadsLow, Tests, TakesLast, TakesLastClean, Receives,
         Answers, Sent, Delays, NextPeriod, IsTold, StoresLow, StoresHigh,
         Spends, GoesTo, Reads
<1>3. QED
  BY <1>2 DEF Waits, Loops, Reads

(* A wait is never too short, but for a torn read ...                      *)
THEOREM DelaysLast == BoardSpec => DelayLasts
<1>1. ASSUME BoardInv, [BoardNext]_boardVars
      PROVE  [at = "wait" /\ at' # "wait" =>
                since >= DelayMs \/ "last" \in torn \/ Carried
                  \/ at' = "off"]_clockVars
  <2> SUFFICES ASSUME at = "wait", at' # "wait", at' # "off"
               PROVE  since >= DelayMs \/ "last" \in torn \/ Carried
    OBVIOUS
  <2>1. ClockInv /\ low # None /\ Minus(Value, last) >= DelayMs
    BY <1>1, LeavesPlace DEF BoardInv
  <2>2. /\ Ticks \in {0, 1} /\ Waited \in Nat
        /\ Waited >= DelayMs + Ticks \/ "last" \in torn \/ Carried
    BY <2>1, WaitLooks
  <2>3. since = IF Waited < DelayMs THEN Waited ELSE DelayMs
    BY <2>1 DEF ClockInv, Waiting
  <2>4. QED
    BY <2>2, <2>3, Limits
<1>2. QED
  BY <1>1, BoardInvHolds, PTL DEF BoardSpec, DelayLasts

(* ... and a clean-up comes neither early, but for a torn read, nor later  *)
(* than the first look after the epoch, however many interrupts the calls  *)
(* of a pass outlast (up to MaxPass).                                      *)
THEOREM CleansOnTime == BoardSpec => CleansInTime
<1>1. ASSUME BoardInv, [BoardNext]_boardVars
      PROVE  [at = "loop" =>
                /\ at' = "clean" => \/ sinceClean > APP_EPOCH_UNTIL_CLEAN
                                    \/ "lastClean" \in torn \/ Carried
                /\ at' = "recv"  => sinceClean < Overdue]_clockVars
  <2> SUFFICES ASSUME at = "loop", at' \in {"clean", "recv"}
               PROVE  /\ at' = "clean" =>
                           \/ sinceClean > APP_EPOCH_UNTIL_CLEAN
                           \/ "lastClean" \in torn \/ Carried
                      /\ at' = "recv"  => sinceClean < Overdue
    OBVIOUS
  <2>1. /\ ClockInv /\ low # None
        /\ at' = "clean" => Minus(Value, lastClean) > APP_EPOCH_UNTIL_CLEAN
        /\ at' = "recv" => ~(Minus(Value, lastClean) > APP_EPOCH_UNTIL_CLEAN)
    BY <1>1, LeavesPlace DEF BoardInv
  <2>2. /\ app = "sink" /\ Ticks \in {0, 1} /\ Elapsed \in Nat
        /\ Minus(Value, lastClean) \in Nat
        /\ Minus(Value, lastClean) <= APP_EPOCH_UNTIL_CLEAN =>
             Elapsed <= APP_EPOCH_UNTIL_CLEAN + Ticks
        /\ Minus(Value, lastClean) > APP_EPOCH_UNTIL_CLEAN =>
             \/ Elapsed > APP_EPOCH_UNTIL_CLEAN + Ticks
             \/ "lastClean" \in torn \/ Carried
    BY <2>1, LoopLooks
  <2>3. sinceClean = IF Elapsed < Overdue THEN Elapsed ELSE Overdue
    BY <2>1, <2>2 DEF ClockInv, Cleaning
  <2>4. /\ APP_EPOCH_UNTIL_CLEAN \in Nat
        /\ Overdue = APP_EPOCH_UNTIL_CLEAN + 2
    BY Limits
  <2>5. CASE at' = "clean"
    BY <2>1, <2>2, <2>3, <2>4, <2>5
  <2>6. CASE at' = "recv"
    <3>1. Minus(Value, lastClean) <= APP_EPOCH_UNTIL_CLEAN
      BY <2>1, <2>2, <2>4, <2>6
    <3>2. Elapsed <= APP_EPOCH_UNTIL_CLEAN + 1
      BY <2>2, <2>4, <3>1
    <3>3. QED
      BY <2>2, <2>3, <2>4, <2>6, <3>2
  <2>7. QED
    BY <2>5, <2>6
<1>2. QED
  BY <1>1, BoardInvHolds, PTL DEF BoardSpec, CleansInTime
=============================================================================
