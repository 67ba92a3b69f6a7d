-------------------------------- MODULE Boot --------------------------------
(***************************************************************************)
(* The start of a board: init_board and main (main.c, the same on nodes    *)
(* and sink), with the SimpleLink event handlers, up to the call of        *)
(* APP_node or APP_sink.                                                   *)
(*                                                                         *)
(* The network processor is modelled from how main.c uses it.  It keeps    *)
(* its role, its connection policy and its profiles over a reset, connects *)
(* on its own while policy and profiles let it, and queues events for the  *)
(* host.  The build has no operating system: the handlers run inside the   *)
(* driver, while the host makes a call or is in a wait that calls          *)
(* _SlNonOsMainLoopTask.  Provisioning by SmartConfig, which would add a   *)
(* profile, is left out.                                                   *)
(***************************************************************************)
EXTENDS Naturals, Sequences

CONSTANTS
  MaxEvents,   \* length of the queue of events (bound)
  MaxResets    \* resets of the board (bound)

ASSUME BootAssumption == MaxEvents \in Nat /\ MaxResets \in Nat

Role == {"STA", "AP", "P2P"}
Event == {"CONNECT", "DISCONNECT", "IPACQUIRED"}

VARIABLES
  pc,           \* the next call of init_board or main
  stored,       \* what the network processor keeps over a reset
  role,         \* its role while it runs, else "off"
  linked,       \* it is connected to an access point
  events,       \* events it has queued for the host
  g_ulStatus,   \* status bits the handlers set and clear
  g_ulGatewayIP,\* the handler has noted a gateway
  timer,        \* the set-up of the system timer
  resets        \* resets so far

vars == <<pc, stored, role, linked, events, g_ulStatus, g_ulGatewayIP, timer,
          resets>>

nwpVars == <<stored, role, linked, events>>
hostVars == <<g_ulStatus, g_ulGatewayIP, timer>>

(* Driver calls of ConfigureSimpleLinkToDefaultState and of init_board, in *)
(* order; "settings" stands for the calls between the wait for the         *)
(* disconnection and the stop, which the model keeps no state of.          *)
Calls == {"start", "setMode", "stopMode", "startMode", "version", "policy",
          "profiles", "disconnect", "settings", "stop", "startSta",
          "noPolicy", "mac"}
WaitLoops == {"waitIp", "waitDisconnect"}
TimerCalls == {"timerInit", "timerInt", "timerStart"}

TypeOK ==
  /\ pc \in Calls \cup WaitLoops \cup TimerCalls \cup {"init", "app", "halted"}
  /\ stored \in [role : Role, auto : BOOLEAN, profiles : BOOLEAN]
  /\ role \in Role \cup {"off"}
  /\ linked \in BOOLEAN
  /\ events \in Seq(Event)
  /\ g_ulStatus \subseteq {"CONNECTION", "IP_AQUIRED"}
  /\ g_ulGatewayIP \in BOOLEAN
  /\ timer \subseteq {"enabled", "configured", "handler", "running"}
  /\ resets \in Nat
-----------------------------------------------------------------------------
(* The network processor comes up in the role it has stored; an access     *)
(* point announces its own address.                                        *)
PowersUp ==
  /\ role' = stored.role
  /\ events' = IF stored.role = "AP" THEN <<"IPACQUIRED">> ELSE <<>>
  /\ UNCHANGED <<stored, linked>>

(* It stops, and what it has not delivered is lost.                        *)
PowersDown ==
  /\ role' = "off"
  /\ linked' = FALSE
  /\ events' = <<>>
  /\ UNCHANGED stored

Store(key, value) ==
  /\ stored' = [stored EXCEPT ![key] = value]
  /\ UNCHANGED <<role, linked, events>>

InitializeAppVariables == g_ulStatus' = {} /\ g_ulGatewayIP' = FALSE

Init ==
  /\ pc = "init"
  /\ stored \in [role : Role, auto : BOOLEAN, profiles : BOOLEAN]
  /\ role = "off" /\ linked = FALSE /\ events = <<>>
  /\ g_ulStatus = {} /\ g_ulGatewayIP = FALSE /\ timer = {}
  /\ resets = 0

Goes(from, to) == pc = from /\ pc' = to

(* BoardInit enables interrupts.                                           *)
BoardInit ==
  /\ Goes("init", "start")
  /\ timer' = timer \cup {"enabled"}
  /\ InitializeAppVariables
  /\ UNCHANGED nwpVars

(* A call of the driver fails: init_board ends in LOOP_FOREVER.  Only of   *)
(* the disconnection and of the reading of the MAC address is the result   *)
(* ignored.                                                                *)
CallFails ==
  /\ pc \in Calls \ {"disconnect", "mac"}
  /\ pc' = "halted"
  /\ UNCHANGED <<nwpVars, hostVars>>

(* The first start, and what follows from the role it reports.             *)
Starts ==
  /\ pc = "start"
  /\ PowersUp
  /\ pc' = CASE role' = "STA" -> "version"
             [] role' = "AP"  -> "waitIp"
             [] role' = "P2P" -> "setMode"
  /\ UNCHANGED hostVars

(* An access point waits for its own address first.                        *)
HasIp ==
  /\ Goes("waitIp", "setMode")
  /\ "IP_AQUIRED" \in g_ulStatus
  /\ UNCHANGED <<nwpVars, hostVars>>

SetsMode ==
  /\ Goes("setMode", "stopMode")
  /\ Store("role", "STA")
  /\ UNCHANGED hostVars

StopsForMode ==
  /\ Goes("stopMode", "startMode")
  /\ PowersDown
  /\ UNCHANGED hostVars

StartsInMode ==
  /\ pc = "startMode"
  /\ PowersUp
  /\ pc' = IF role' = "STA" THEN "version" ELSE "halted"
  /\ UNCHANGED hostVars

GetsVersion ==
  /\ Goes("version", "policy")
  /\ UNCHANGED <<nwpVars, hostVars>>

(* The default state has the policy to connect automatically, ...          *)
SetsPolicy ==
  /\ Goes("policy", "profiles")
  /\ Store("auto", TRUE)
  /\ UNCHANGED hostVars

(* Mutant: the profiles stay.                                              *)
KeepsProfiles ==
  /\ Goes("profiles", "disconnect")
  /\ UNCHANGED <<nwpVars, hostVars>>

(* ... but nothing to connect to.                                          *)
DeletesProfiles ==
  /\ Goes("profiles", "disconnect")
  /\ Store("profiles", FALSE)
  /\ UNCHANGED hostVars

(* sl_WlanDisconnect: 0, and an event to come, if there was a connection.  *)
Disconnects ==
  /\ pc = "disconnect"
  /\ linked' = FALSE
  /\ \/ linked /\ pc' = "waitDisconnect"
        /\ events' = Append(events, "DISCONNECT")
     \/ ~linked /\ pc' = "settings" /\ UNCHANGED events
  /\ UNCHANGED <<stored, role, hostVars>>

HasDisconnected ==
  /\ Goes("waitDisconnect", "settings")
  /\ "CONNECTION" \notin g_ulStatus
  /\ UNCHANGED <<nwpVars, hostVars>>

Configures ==
  /\ Goes("settings", "stop")
  /\ UNCHANGED <<nwpVars, hostVars>>

(* The radio stops in its default state; init_board clears the status.     *)
Stops ==
  /\ Goes("stop", "startSta")
  /\ PowersDown
  /\ InitializeAppVariables
  /\ UNCHANGED timer

StartsAsStation ==
  /\ pc = "startSta"
  /\ PowersUp
  /\ pc' = IF role' = "STA" THEN "noPolicy" ELSE "halted"
  /\ UNCHANGED hostVars

ClearsPolicy ==
  /\ Goes("noPolicy", "mac")
  /\ Store("auto", FALSE)
  /\ UNCHANGED hostVars

GetsMac ==
  /\ Goes("mac", "timerInit")
  /\ UNCHANGED <<nwpVars, hostVars>>

(* The calls of main that set up the system timer.                         *)
SetsTimer(from, to, done) ==
  /\ Goes(from, to)
  /\ timer' = timer \cup {done}
  /\ UNCHANGED <<nwpVars, g_ulStatus, g_ulGatewayIP>>

Timer_IF_Init == SetsTimer("timerInit", "timerInt", "configured")
Timer_IF_IntSetup == SetsTimer("timerInt", "timerStart", "handler")
Timer_IF_Start == SetsTimer("timerStart", "app", "running")

(* Mutant: the timer is never started.                                     *)
LeavesTimerOff == Timer_IF_Init \/ SetsTimer("timerInt", "app", "handler")

SetsUpTimer == Timer_IF_Init \/ Timer_IF_IntSetup \/ Timer_IF_Start

HostStep ==
  /\ \/ BoardInit \/ Starts \/ HasIp \/ SetsMode \/ StopsForMode
     \/ StartsInMode \/ GetsVersion \/ SetsPolicy \/ DeletesProfiles
     \/ Disconnects \/ HasDisconnected \/ Configures \/ Stops
     \/ StartsAsStation \/ ClearsPolicy \/ GetsMac \/ SetsUpTimer
     \/ CallFails
  /\ UNCHANGED resets
-----------------------------------------------------------------------------
(* Mutant: a disconnection takes the address only.                         *)
HandledForgetting(event) ==
  CASE event = "CONNECT"    -> g_ulStatus \cup {"CONNECTION"}
    [] event = "DISCONNECT" -> g_ulStatus \ {"IP_AQUIRED"}
    [] event = "IPACQUIRED" -> g_ulStatus \cup {"IP_AQUIRED"}

(* SimpleLinkWlanEventHandler and SimpleLinkNetAppEventHandler.            *)
Handled(event) ==
  CASE event = "CONNECT"    -> g_ulStatus \cup {"CONNECTION"}
    [] event = "DISCONNECT" -> g_ulStatus \ {"CONNECTION", "IP_AQUIRED"}
    [] event = "IPACQUIRED" -> g_ulStatus \cup {"IP_AQUIRED"}

HandlesEvent ==
  /\ pc \in Calls \cup WaitLoops
  /\ events # <<>>
  /\ events' = Tail(events)
  /\ g_ulStatus' = Handled(Head(events))
  /\ g_ulGatewayIP' = (g_ulGatewayIP \/ Head(events) = "IPACQUIRED")
  /\ UNCHANGED <<pc, stored, role, linked, timer, resets>>

Reports(event) ==
  /\ Len(events) < MaxEvents
  /\ events' = Append(events, event)
  /\ UNCHANGED <<pc, stored, role, hostVars, resets>>

CanConnect ==
  role \in {"STA", "P2P"} /\ stored.auto /\ stored.profiles

(* The network processor connects, gets an address, loses the connection.  *)
NwpStep ==
  \/ ~linked /\ CanConnect /\ linked' = TRUE /\ Reports("CONNECT")
  \/ linked /\ Reports("IPACQUIRED") /\ UNCHANGED linked
  \/ linked /\ linked' = FALSE /\ Reports("DISCONNECT")

(* A reset of the board, at any point.                                     *)
Reset ==
  /\ resets < MaxResets
  /\ resets' = resets + 1
  /\ pc' = "init"
  /\ role' = "off" /\ linked' = FALSE /\ events' = <<>>
  /\ g_ulStatus' = {} /\ g_ulGatewayIP' = FALSE /\ timer' = {}
  /\ UNCHANGED stored

Next == HostStep \/ HandlesEvent \/ NwpStep \/ Reset

Spec == Init /\ [][Next]_vars
-----------------------------------------------------------------------------
(* The application gets a radio that is a station, has no connection and   *)
(* can get none, and of which no event is left over, from whatever state   *)
(* of the network processor, wherever a reset cut the last start short,    *)
(* and whenever it connected in between.                                   *)
RadioReady ==
  pc \in TimerCalls \cup {"app"} =>
    /\ role = "STA"
    /\ ~linked /\ ~CanConnect
    /\ events = <<>> /\ g_ulStatus = {}
-----------------------------------------------------------------------------
(* The inductive invariant: what each part of the start has achieved.      *)
AsStation == role = "STA" /\ stored.role = "STA"

Off == {"init", "start", "startMode", "startSta"}
Stored == {"stopMode", "startMode", "startSta"}
Configuring == {"version", "policy", "profiles", "disconnect",
                "waitDisconnect", "settings", "stop"}
Started == {"noPolicy", "mac", "app"} \cup TimerCalls
Unlinked == {"waitDisconnect", "settings", "stop", "startSta"} \cup Started

BootInv ==
  /\ TypeOK
  /\ pc \in Off => role = "off"
  /\ pc \in Stored => stored.role = "STA"
  /\ pc \in Configuring \cup Started => AsStation
  /\ pc \in Unlinked \cup {"disconnect"} => ~stored.profiles
  /\ pc \in Unlinked => ~linked
  /\ pc \in Started \cup {"startSta"} => events = <<>> /\ g_ulStatus = {}
=============================================================================
