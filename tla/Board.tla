-------------------------------- MODULE Board --------------------------------
(***************************************************************************)
(* A board from its reset on: its start (Boot), then its application with  *)
(* the timer interrupt under it (SysTime).  The interrupt comes once       *)
(* interrupts are enabled, the timer is configured and runs and its        *)
(* handler is registered.                                                  *)
(***************************************************************************)
EXTENDS Boot, SysTime

boardVars == <<vars, clockVars>>

TimerRuns == timer = {"enabled", "configured", "handler", "running"}

(* What the start has set up of the timer.                                 *)
TimerInv ==
  /\ pc # "init" => "enabled" \in timer
  /\ pc \in {"timerInt", "timerStart", "app"} => "configured" \in timer
  /\ pc \in {"timerStart", "app"} => "handler" \in timer
  /\ pc = "app" => "running" \in timer

(* The variables have their types, and what each part of the start has     *)
(* achieved holds also while the application runs and the timer interrupts *)
(* it, until the next reset; what the thread holds of the time, in half    *)
(* read words and in locals, is the time it stands for.                    *)
BoardInv == BootInv /\ TimerInv /\ ClockInv

PowerOn == Init /\ ClockInit

Interrupt == TimerRuns /\ Tick /\ UNCHANGED vars

(* MAP_UtilsDelay(80*1000*100) of APP_test_systime lasts 300 ms: the timer *)
(* interrupts in that time if it runs.                                     *)
BusyDelayIsOver == (at = "assert" /\ low = None /\ TimerRuns) => since > 0

Runs ==
  /\ pc = "app"
  /\ Enters \/ (BusyDelayIsOver /\ Thread)
  /\ UNCHANGED vars

Starting == HostStep /\ UNCHANGED clockVars
Handling == HandlesEvent /\ UNCHANGED clockVars
Radio == NwpStep /\ UNCHANGED clockVars
BoardReset == Reset /\ ClockReset

BoardNext ==
  \/ Starting \/ Handling \/ Radio \/ BoardReset
  \/ Interrupt \/ Runs

(* The processor runs on, the driver hands over the events it has, and the *)
(* timer interrupts again and again.                                       *)
Fairness ==
  /\ WF_boardVars(Starting) /\ WF_boardVars(Handling)
  /\ WF_boardVars(Interrupt) /\ WF_boardVars(Runs)

BoardSpec == PowerOn /\ [][BoardNext]_boardVars /\ Fairness
-----------------------------------------------------------------------------
(* The start ends: neither wait for an event of the radio is endless,      *)
(* though neither has a timeout.                                           *)
BootEnds == pc = "init" ~> pc \in {"app", "halted"}

(* APP_test_systime never fails: when the application starts, the timer    *)
(* has been set up so that systime moves.                                  *)
ClockMoves == at # "failed"

(* The sink comes to clean up again and again, unless it is reset.         *)
CleansAgain == at = "loop" ~> at \in {"clean", "off"}
=============================================================================
