------------------------------ MODULE SysTime ------------------------------
(***************************************************************************)
(* systime as the processor has it: 64 bits in two words of memory, which  *)
(* the timer interrupt increments (main.c) and the thread of APP_sink or   *)
(* APP_node reads and sets without locking it out.  The compiler reads it  *)
(* with one instruction that loads two registers, the low word first, and  *)
(* the processor may take an interrupt between the two loads and go on     *)
(* with the second one; a store of two words is the same.                  *)
(*                                                                         *)
(* What the thread does with the time is here: the clean-up interval of    *)
(* APP_sink, the stamp in its answer to 'S', UTIL_delay, and the time that *)
(* APP_node takes from such an answer.  A byte counts to BYTE, so that a   *)
(* word of four bytes wraps within reach of the model.                     *)
(***************************************************************************)
EXTENDS Integers, Sequences

CONSTANTS
  BYTE,                      \* 256
  APP_DEFAULT_PERIOD_IN_MS,  \* 10000
  APP_EPOCH_UNTIL_CLEAN,     \* 20000 ms
  DelayMs,                   \* what a wait lasts: 1 ms in APP_sink
  MaxPass,                   \* ms that the calls of a pass of a loop may take
  FixMs,                     \* 75: what a node adds to the sink's time
  Stamps                     \* times a node may be told

WORD == BYTE * BYTE * BYTE * BYTE
ULL == WORD * WORD           \* values of an unsigned long long

(* What a byte of an unsigned long long counts, the highest first.         *)
Weight == <<WORD * BYTE * BYTE * BYTE, WORD * BYTE * BYTE, WORD * BYTE, WORD,
            BYTE * BYTE * BYTE, BYTE * BYTE, BYTE, 1>>

ASSUME SysTimeAssumption ==
  /\ BYTE \in Nat \ {0, 1}
  /\ APP_DEFAULT_PERIOD_IN_MS \in 1 .. WORD - 1
  /\ APP_EPOCH_UNTIL_CLEAN \in 1 .. WORD - 1
  /\ DelayMs \in 1 .. WORD - 1
  /\ MaxPass \in Nat
  \* an epoch and a pass of the loop of APP_sink fit into a word
  /\ APP_EPOCH_UNTIL_CLEAN + MaxPass + DelayMs + 10 <= WORD
  /\ FixMs \in Nat
  /\ Stamps \subseteq 0 .. ULL - 1

VARIABLES
  systime,     \* its value in memory
  clock,       \* the time it stands for
  app,         \* APP_sink or APP_node
  at,          \* where the thread is
  low,         \* the first word it has loaded or stored, or None
  last,        \* local of UTIL_delay, APP_node and APP_test_systime
  lastClean,   \* local of APP_sink
  message,     \* sendData of APP_sink, respData of APP_node
  stamp,       \* the time in it
  ticked,      \* the timer has interrupted since the thread's last step
  pass,        \* ms spent in calls since the last wait
  since,       \* ms since `last` was taken, counted up to DelayMs
  sinceClean,  \* ms since lastClean was taken, counted past the epoch
  torn         \* locals, and systime, that missed a carry

clockVars == <<systime, clock, app, at, low, last, lastClean, message, stamp,
               ticked, pass, since, sinceClean, torn>>

None == -1
NoMessage == <<>>
Overdue == APP_EPOCH_UNTIL_CLEAN + 2

ClockTypeOK ==
  /\ systime \in 0 .. ULL - 1 /\ clock \in 0 .. ULL - 1
  /\ app \in {"sink", "node"}
  /\ at \in {"off", "test", "assert", "failed",
             "enter", "loop", "clean", "recv", "stamp", "send",
             "ask", "set", "slot", "delay", "wait"}
  /\ low \in 0 .. WORD - 1 \cup {None}
  /\ last \in 0 .. ULL - 1 /\ lastClean \in 0 .. ULL - 1
  /\ message = NoMessage \/ message \in [1 .. 12 -> 0 .. BYTE - 1]
  /\ stamp \in 0 .. ULL - 1
  /\ ticked \in BOOLEAN
  /\ pass \in 0 .. MaxPass
  /\ since \in 0 .. DelayMs
  /\ sinceClean \in 0 .. Overdue
  /\ torn \subseteq {"last", "lastClean", "systime"}
-----------------------------------------------------------------------------
(* Arithmetic of unsigned long long.                                       *)
Plus(m, n) == (m + n) % ULL
Minus(m, n) == (m + ULL - n) % ULL

(* The bytes of a number, the highest first, and back.                     *)
UTIL_convert_unsigned_long_long_to_8bytes(n) ==
  [i \in 1 .. 8 |-> (n \div Weight[i]) % BYTE]

UTIL_convert_int_to_4bytes(n) ==
  [i \in 1 .. 4 |-> (n \div Weight[i + 4]) % BYTE]

UTIL_convert_4Bytes_to_Int(b) ==
  b[1] * Weight[5] + b[2] * Weight[6] + b[3] * Weight[7] + b[4]

(* Mutant: char is signed.                                                 *)
FromSignedBytes(b) ==
  LET d == [i \in 1 .. 8 |-> IF b[i] < BYTE \div 2 THEN b[i] ELSE b[i] - BYTE]
  IN  (ULL + d[1] * Weight[1] + d[2] * Weight[2] + d[3] * Weight[3]
         + d[4] * Weight[4] + d[5] * Weight[5] + d[6] * Weight[6]
         + d[7] * Weight[7] + d[8]) % ULL

UTIL_convert_8Bytes_to_unsigned_long_long(b) ==
  LET upper == b[1] * Weight[1] + b[2] * Weight[2] + b[3] * Weight[3]
                 + b[4] * Weight[4]
      lower == b[5] * Weight[5] + b[6] * Weight[6] + b[7] * Weight[7] + b[8]
  IN  upper + lower

Period(m) == UTIL_convert_4Bytes_to_Int(SubSeq(m, 1, 4))
Time(m) == UTIL_convert_8Bytes_to_unsigned_long_long(SubSeq(m, 5, 12))

Params(t) ==
  UTIL_convert_int_to_4bytes(APP_DEFAULT_PERIOD_IN_MS)
    \o UTIL_convert_unsigned_long_long_to_8bytes(t)

Count(n, bound) == IF n < bound THEN n + 1 ELSE n

ClockInit ==
  /\ systime = 0 /\ clock = 0
  /\ app \in {"sink", "node"} /\ at = "off" /\ low = None
  /\ last = 0 /\ lastClean = 0
  /\ message = NoMessage /\ stamp = 0
  /\ ticked = FALSE /\ pass = 0 /\ since = 0 /\ sinceClean = 0
  /\ torn = {}

(* TimerBaseIntHandler.  A step of the thread takes less than a ms, so     *)
(* there is one interrupt at most between two of them: between the two     *)
(* words of systime, and between the places where the thread looks at it.  *)
(* What takes longer takes many steps (Spends).                            *)
Tick ==
  /\ ~ticked
  /\ systime' = Plus(systime, 1)
  /\ clock' = Plus(clock, 1)
  /\ ticked' = TRUE
  /\ since' = Count(since, DelayMs)
  /\ sinceClean' = Count(sinceClean, Overdue)
  /\ UNCHANGED <<app, at, low, last, lastClean, message, stamp, pass, torn>>

(* A call of the layers below goes on after an interrupt, or printing      *)
(* does: IP_init, IP_CLEAN_UP, IP_recv_data, which waits 100 ms and may     *)
(* issue an address, IP_send_data with its retries; in APP_node the        *)
(* request for the time, and what it does in its slot until the next.      *)
Spends ==
  /\ at \in {"enter", "clean", "recv", "send", "ask", "slot"}
  /\ low = None
  /\ ticked /\ pass < MaxPass
  /\ pass' = pass + 1
  /\ ticked' = FALSE
  /\ UNCHANGED <<systime, clock, app, at, low, last, lastClean, message,
                 stamp, since, sinceClean, torn>>

(* The interrupt came between the two words and carried from one to the    *)
(* other.                                                                  *)
Carried == ticked /\ systime % WORD = 0

(* The first half of a read: the low word.                                 *)
LoadsLow ==
  /\ at \in {"test", "assert", "enter", "loop", "clean", "stamp", "delay",
             "wait"}
  /\ low = None
  /\ low' = systime % WORD
  /\ since' = IF at \in {"test", "delay"} THEN 0 ELSE since
  /\ sinceClean' = IF at \in {"enter", "clean"} THEN 0 ELSE sinceClean
  /\ ticked' = FALSE
  /\ UNCHANGED <<systime, clock, app, at, last, lastClean, message, stamp,
                 pass, torn>>

(* The second half, and the value that results.                            *)
Value == (systime \div WORD) * WORD + low

Reads(from, to) ==
  /\ at = from /\ low # None
  /\ at' = to
  /\ low' = None
  /\ ticked' = FALSE
  /\ UNCHANGED <<systime, clock, app, since, sinceClean>>

Tears(local) ==
  torn' = IF Carried THEN torn \cup {local} ELSE torn \ {local}

KeepsLocals == UNCHANGED <<last, lastClean, message, stamp, pass, torn>>

TakesLast(from, to) ==
  /\ Reads(from, to)
  /\ last' = Value
  /\ Tears("last")
  /\ UNCHANGED <<lastClean, message, stamp, pass>>

(* APP_test_systime; what follows it is APP_sink or APP_node.              *)
Tests ==
  \/ TakesLast("test", "assert")
  \/ /\ Reads("assert", IF Value <= last THEN "failed"
                       ELSE IF app = "sink" THEN "enter" ELSE "ask")
     /\ KeepsLocals

TakesLastClean(from, to) ==
  /\ Reads(from, to)
  /\ lastClean' = Value
  /\ Tears("lastClean")
  /\ UNCHANGED <<last, message, stamp, pass>>

(* Mutant: the epoch is added to lastClean.                                *)
LoopsBySum ==
  /\ IF Value > Plus(lastClean, APP_EPOCH_UNTIL_CLEAN)
     THEN Reads("loop", "clean")
     ELSE Reads("loop", "recv")
  /\ KeepsLocals

(* The top of the loop of APP_sink: IP_CLEAN_UP when the epoch is over.    *)
Loops ==
  /\ IF Minus(Value, lastClean) > APP_EPOCH_UNTIL_CLEAN
     THEN Reads("loop", "clean")
     ELSE Reads("loop", "recv")
  /\ KeepsLocals

GoesTo(place) ==
  /\ at' = place
  /\ ticked' = FALSE
  /\ UNCHANGED <<systime, clock, app, low, last, lastClean, message, stamp,
                 pass, since, sinceClean, torn>>

(* IP_recv_data returns with a message 'S', or with anything else.         *)
Receives == at = "recv" /\ (GoesTo("stamp") \/ GoesTo("delay"))

(* The answer to it ...                                                    *)
Answers ==
  /\ Reads("stamp", "send")
  /\ stamp' = Value
  /\ message' = Params(Value)
  /\ UNCHANGED <<last, lastClean, pass, torn>>

(* ... has been sent, or IP_send_data has given up.                        *)
Sent ==
  /\ at = "send"
  /\ at' = "delay"
  /\ ticked' = FALSE
  /\ message' = NoMessage /\ stamp' = 0
  /\ UNCHANGED <<systime, clock, app, low, last, lastClean, pass, since,
                 sinceClean, torn>>

(* UTIL_delay, and the same loop in APP_node, which waits for its offset   *)
(* again and again.                                                        *)
Delays == TakesLast("delay", "wait")

(* Mutant: the end of the wait is computed first.                          *)
WaitsForSum ==
  \/ /\ Value < Plus(last, DelayMs)
     /\ Reads("wait", "wait")
     /\ KeepsLocals
  \/ /\ Value >= Plus(last, DelayMs)
     /\ Reads("wait", IF app = "sink" THEN "loop" ELSE "slot")
     /\ last' = 0 /\ pass' = 0
     /\ torn' = torn \ {"last"}
     /\ UNCHANGED <<lastClean, message, stamp>>

(* Mutant: the loop looks at a copy of systime in a register.             *)
WaitsInRegister ==
  /\ Reads("wait", "wait")
  /\ KeepsLocals

Waits ==
  \/ /\ Minus(Value, last) < DelayMs
     /\ Reads("wait", "wait")
     /\ KeepsLocals
  \/ /\ Minus(Value, last) >= DelayMs
     /\ Reads("wait", IF app = "sink" THEN "loop" ELSE "slot")
     /\ last' = 0 /\ pass' = 0
     /\ torn' = torn \ {"last"}
     /\ UNCHANGED <<lastClean, message, stamp>>

(* APP_node has sent in its slot and a period begins.                      *)
NextPeriod == at = "slot" /\ GoesTo("delay")

(* It gets the sink's answer, ...                                          *)
IsTold ==
  /\ at = "ask"
  /\ \E t \in Stamps : stamp' = t /\ message' = Params(t)
  /\ at' = "set"
  /\ ticked' = FALSE /\ pass' = 0
  /\ UNCHANGED <<systime, clock, app, low, last, lastClean, since, sinceClean,
                 torn>>

(* ... and stores its time, the low word first.  The timer may interrupt   *)
(* between the two stores.                                                 *)
NewTime == Plus(Time(message), FixMs)

StoresLow ==
  /\ at = "set" /\ low = None
  /\ systime' = (systime \div WORD) * WORD + (NewTime % WORD)
  /\ low' = NewTime % WORD
  /\ clock' = NewTime
  /\ ticked' = FALSE
  /\ UNCHANGED <<app, at, last, lastClean, message, stamp, pass, since,
                 sinceClean, torn>>

(* Mutant: what the timer did in between is overwritten.                   *)
StoresBoth ==
  /\ at = "set" /\ low # None
  /\ systime' = NewTime
  /\ Tears("systime")
  /\ at' = "slot" /\ low' = None /\ message' = NoMessage /\ stamp' = 0
  /\ ticked' = FALSE
  /\ UNCHANGED <<clock, app, last, lastClean, pass, since, sinceClean>>

StoresHigh ==
  /\ at = "set" /\ low # None
  /\ systime' = (NewTime \div WORD) * WORD + (systime % WORD)
  /\ Tears("systime")
  /\ at' = "slot" /\ low' = None /\ message' = NoMessage /\ stamp' = 0
  /\ ticked' = FALSE
  /\ UNCHANGED <<clock, app, last, lastClean, pass, since, sinceClean>>

(* main calls APP_sink or APP_node.                                        *)
Enters == at = "off" /\ at' = "test" /\ UNCHANGED
  <<systime, clock, app, low, last, lastClean, message, stamp, ticked, pass,
    since, sinceClean, torn>>

Thread ==
  \/ LoadsLow \/ Tests \/ TakesLastClean("enter", "loop")
  \/ TakesLastClean("clean", "recv")
  \/ Loops \/ Receives \/ Answers \/ Sent \/ Delays \/ Waits
  \/ NextPeriod \/ IsTold \/ StoresLow \/ StoresHigh \/ Spends

(* A reset.                                                                *)
ClockReset ==
  /\ systime' = 0 /\ clock' = 0
  /\ at' = "off" /\ low' = None
  /\ last' = 0 /\ lastClean' = 0
  /\ message' = NoMessage /\ stamp' = 0
  /\ ticked' = FALSE /\ pass' = 0 /\ since' = 0 /\ sinceClean' = 0
  /\ torn' = {}
  /\ UNCHANGED app
-----------------------------------------------------------------------------
(* Interrupts and the store of a new time lose no millisecond, but for a   *)
(* carry between the two words of the store.                               *)
KeepsTime ==
  (at = "set" => low = None) /\ "systime" \notin torn => systime = clock

(* What a node decodes is the period and the time the sink has read.       *)
StampArrives ==
  message # NoMessage =>
    Period(message) = APP_DEFAULT_PERIOD_IN_MS /\ Time(message) = stamp

(* A wait lasts what it is asked to, across every wrap of systime; only a  *)
(* read that a carry tears, once in 49 days, can cut it short.             *)
DelayLasts ==
  [][at = "wait" /\ at' # "wait" =>
       since >= DelayMs \/ "last" \in torn \/ Carried \/ at' = "off"]_clockVars

(* The sink cleans up when the epoch since its last clean-up is over: not  *)
(* before it, but for a torn read, and at the first look after it, torn    *)
(* reads or not.                                                           *)
CleansInTime ==
  [][at = "loop" =>
       /\ at' = "clean" => \/ sinceClean > APP_EPOCH_UNTIL_CLEAN
                           \/ "lastClean" \in torn \/ Carried
       /\ at' = "recv"  => sinceClean < Overdue]_clockVars
-----------------------------------------------------------------------------
(* The inductive invariant.                                                *)

(* The interrupt since the thread's last step, as a number.                *)
Ticks == IF ticked THEN 1 ELSE 0

(* A read takes its time when it loads the low word; a carry between the   *)
(* words gives one too many in the high word.                              *)
ReadTime == IF ticked THEN Minus(systime, 1) ELSE systime
Untorn(local, value) == IF local \in torn THEN Minus(value, WORD) ELSE value

Waited == Minus(systime, Untorn("last", last))
Elapsed == Minus(systime, Untorn("lastClean", lastClean))

(* The two applications share the test and the wait, nothing else.         *)
Places ==
  /\ app = "sink" => at \notin {"ask", "set", "slot"}
  /\ app = "node" =>
       at \notin {"enter", "loop", "clean", "recv", "stamp", "send"}
  /\ at \in {"off", "ask", "recv", "send", "slot", "failed"} => low = None

(* A message is the encoded stamp.                                         *)
Message ==
  /\ message \in {NoMessage, Params(stamp)}
  /\ at = "set" => message # NoMessage

(* systime is the time, or on the way to it: half stored, ...              *)
Storing == at = "set" /\ low # None
Time64 ==
  /\ ~Storing /\ "systime" \notin torn => systime = clock
  /\ Storing => /\ clock = IF ticked THEN Plus(NewTime, 1) ELSE NewTime
                /\ systime % WORD = clock % WORD

(* ... or half read.                                                       *)
Loaded == low # None /\ at # "set" => low = ReadTime % WORD

(* The test at the start sees the first few ticks of the timer.            *)
FirstTicks ==
  /\ at # "failed"
  /\ at = "off" \/ (at = "test" /\ low = None) => systime = Ticks
  /\ at = "test" /\ low # None =>
       low \in 0 .. 1 /\ systime = low + Ticks /\ since = Ticks
  /\ at = "assert" /\ low = None =>
       /\ last \in 0 .. 1 /\ systime \in last .. last + 1 + Ticks
       /\ since > 0 => systime > last
  /\ at = "assert" /\ low # None =>
       last < low /\ low <= 4 /\ systime = low + Ticks

(* A wait counts the time since it began, and has not run over.            *)
Halfway == IF low = None THEN 0 ELSE 1

Waiting ==
  /\ at = "delay" /\ low # None => since = Ticks
  /\ at = "wait" =>
       /\ since = IF Waited < DelayMs THEN Waited ELSE DelayMs
       /\ Ticks <= Waited /\ Waited <= DelayMs + Ticks + Halfway

(* What can have passed since the last clean-up, place by place.           *)
Cleaning ==
  app = "sink" =>
    /\ at \in {"enter", "clean"} /\ low # None => sinceClean = Ticks
    /\ at \in {"recv", "stamp", "send", "delay", "wait", "loop"} =>
         /\ sinceClean = IF Elapsed < Overdue THEN Elapsed ELSE Overdue
         /\ Ticks <= Elapsed
    /\ at = "recv"  => Elapsed <= APP_EPOCH_UNTIL_CLEAN + pass + 1 + Ticks
    /\ at = "stamp" => Elapsed <= APP_EPOCH_UNTIL_CLEAN + pass + 2 + Ticks
                                    + Halfway
    /\ at = "send"  => Elapsed <= APP_EPOCH_UNTIL_CLEAN + pass + 4 + Ticks
    /\ at = "delay" => Elapsed <= APP_EPOCH_UNTIL_CLEAN + pass + 5 + Ticks
                                    + Halfway
    /\ at = "wait"  => Elapsed <= APP_EPOCH_UNTIL_CLEAN + pass + 6 + Waited
    /\ at = "loop"  => Elapsed <= APP_EPOCH_UNTIL_CLEAN + MaxPass + DelayMs + 8
                                    + Ticks + Halfway

ClockInv ==
  /\ ClockTypeOK
  /\ Places /\ Message /\ Time64 /\ Loaded
  /\ FirstTicks /\ Waiting /\ Cleaning
=============================================================================
