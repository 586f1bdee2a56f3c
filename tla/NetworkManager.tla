--------------------------- MODULE NetworkManager ---------------------------
(***************************************************************************)
(* Joining a WiFi network (components/networ_manager/network_manager.cpp). *)
(*                                                                         *)
(* Four parties: the console's thread, which runs `join` and then waits    *)
(* for the connected bit; the event loop's thread, which calls             *)
(* eventHandler for each event in the order of posting, taking the same    *)
(* mutex and giving an event up if it does not get it within two seconds;  *)
(* the timer task, which samples the pairing button, forgets the network   *)
(* after a long press and restarts the device, and blinks the LED; and the *)
(* WiFi driver, external, which posts the events.                          *)
(***************************************************************************)
EXTENDS Naturals, Sequences, StatusLed, PairButton

CONSTANTS
    Networks,   \* names that can be joined
    NoNetwork,  \* no network is configured
    MaxJoins,   \* bound on join commands
    MaxLosses,  \* bound on the times an access point refuses or is lost
    MaxDrops,   \* bound on events given up for want of the mutex
    MaxPushes   \* bound on the button's going down and up

ASSUME NetworkAssumption ==
    /\ NoNetwork \notin Networks
    /\ {MaxJoins, MaxLosses, MaxDrops, MaxPushes} \subseteq Nat

VARIABLES
    config,     \* the network in the driver's flash configuration
    driver,     \* "null" (no station mode), "off" or "on"
    link,       \* "down", "connecting" or "up" (with an IP address)
    events,     \* posted and not yet taken by the event loop
    handling,   \* the event in eventHandler, or "none"
    mutex,      \* mMutex: "free", "loop" or "console"
    bit,        \* WIFI_CONNECTED_EVENT in mWifiEventGroup
    join,       \* where join is, and the network it was asked for
    said,       \* what WifiCmd last logged
    news,       \* history: an IP address was reported since join was called
    pairing,    \* the timer task is between removeProvision and esp_restart
    joins, losses, drops, pushes

console == <<join, said, joins>>
wifi == <<config, driver, link>>
loop == <<handling, bit>>
timer == <<button, pairing, pushes>>
vars == <<wifi, events, loop, led, mutex, console, news, timer, losses, drops>>

Idle == [pc |-> "idle", ssid |-> NoNetwork]

\* NetworkManager::init: with a network configured the station starts.
Driver(c) == IF c = NoNetwork THEN "null" ELSE "on"
Posted(c) == IF c = NoNetwork THEN <<>> ELSE <<"start">>

Init ==
    /\ config \in Networks \cup {NoNetwork}
    /\ driver = Driver(config)
    /\ events = Posted(config)
    /\ link = "down"
    /\ handling = "none"
    /\ mutex = "free"
    /\ bit = FALSE
    /\ LedInit
    /\ join = Idle
    /\ said = "nothing"
    /\ news = FALSE
    /\ ButtonInit
    /\ pairing = FALSE
    /\ joins = 0
    /\ losses = 0
    /\ drops = 0
    /\ pushes = 0

-----------------------------------------------------------------------------
(* The WiFi driver and the access point *)

LinkUp ==
    /\ link = "connecting"
    /\ link' = "up"
    /\ events' = Append(events, "gotip")
    /\ UNCHANGED <<config, driver, loop, led, mutex, console, news, timer, losses, drops>>

\* The access point refuses, or an existing connection is lost.
LinkLost ==
    /\ link \in {"connecting", "up"}
    /\ losses < MaxLosses
    /\ losses' = losses + 1
    /\ link' = "down"
    /\ events' = Append(events, "disconnected")
    /\ UNCHANGED <<config, driver, loop, led, mutex, console, news, timer, drops>>

-----------------------------------------------------------------------------
(* The event loop: NetworkManager::eventHandler *)

\* mMutex is recursive: it is also there for who has it.
Lock(who) == mutex \in {"free", who} /\ mutex' = who

TakeEvent ==
    /\ handling = "none"
    /\ events # <<>>
    /\ Lock("loop")
    /\ handling' = Head(events)
    /\ events' = Tail(events)
    /\ UNCHANGED <<wifi, bit, led, console, news, timer, losses, drops>>

\* try_lock_until fails: the event is gone.
DropEvent ==
    /\ handling = "none"
    /\ events # <<>>
    /\ mutex = "console"
    /\ drops < MaxDrops
    /\ drops' = drops + 1
    /\ events' = Tail(events)
    /\ UNCHANGED <<wifi, loop, led, mutex, console, news, timer, losses>>

Handled ==
    /\ handling' = "none"
    /\ mutex' = "free"
    /\ UNCHANGED <<config, driver, console, timer, losses, drops>>

\* Mutant: the started station is not told to connect.
HandleStart_NoConnect ==
    /\ handling = "start"
    /\ LedBlink
    /\ Handled
    /\ UNCHANGED <<link, events, bit, news>>

\* WIFI_EVENT_STA_START: esp_wifi_connect, if the driver still runs.
HandleStart ==
    /\ handling = "start"
    /\ link' = IF driver = "on" /\ link = "down" THEN "connecting" ELSE link
    /\ LedBlink
    /\ Handled
    /\ UNCHANGED <<events, bit, news>>

\* WIFI_EVENT_STA_STOP: esp_wifi_disconnect, of whatever is connected now.
HandleStop ==
    /\ handling = "stop"
    /\ LedBlink
    /\ \/ /\ link # "down"
          /\ link' = "down"
          /\ events' = Append(events, "disconnected")
       \/ /\ link = "down"
          /\ UNCHANGED <<link, events>>
    /\ Handled
    /\ UNCHANGED <<bit, news>>

\* IP_EVENT_STA_GOT_IP
HandleGotIp ==
    /\ handling = "gotip"
    /\ bit' = TRUE
    /\ LedOn
    /\ news' = TRUE
    /\ Handled
    /\ UNCHANGED <<link, events>>

\* Mutant: an event that is ignored returns before the mutex is released.
HandleDisconnected_Returns ==
    /\ handling = "disconnected"
    /\ handling' = "none"
    /\ UNCHANGED <<wifi, events, bit, led, mutex, console, news, timer, losses, drops>>

\* WIFI_EVENT_STA_DISCONNECTED falls into the first `event_base == WIFI_EVENT`,
\* whose switch ignores it; the second such branch is never reached.
HandleDisconnected ==
    /\ handling = "disconnected"
    /\ Handled
    /\ UNCHANGED <<link, events, bit, led, news>>

-----------------------------------------------------------------------------
(* The console: WifiCmd::excute and NetworkManager::join *)

Join(s) ==
    /\ join.pc = "idle"
    /\ joins < MaxJoins
    /\ joins' = joins + 1
    /\ join' = [pc |-> "lock", ssid |-> s]
    /\ news' = FALSE
    /\ UNCHANGED <<wifi, events, loop, led, mutex, said, timer, losses, drops>>

JoinLock ==
    /\ join.pc = "lock"
    /\ Lock("console")
    /\ join' = [join EXCEPT !.pc = "stop"]
    /\ UNCHANGED <<wifi, events, loop, led, said, news, timer, joins, losses, drops>>

\* esp_wifi_stop drops the connection and posts its events.
JoinStop ==
    /\ join.pc = "stop"
    /\ join' = [join EXCEPT !.pc = "config"]
    /\ driver' = "off"
    /\ link' = "down"
    /\ events' = events \o (IF link = "down" THEN <<>> ELSE <<"disconnected">>)
                        \o (IF driver = "null" THEN <<>> ELSE <<"stop">>)
    /\ UNCHANGED <<config, loop, led, mutex, said, news, timer, joins, losses, drops>>

JoinConfig ==
    /\ join.pc = "config"
    /\ join' = [join EXCEPT !.pc = "start"]
    /\ config' = join.ssid
    /\ UNCHANGED <<driver, link, events, loop, led, mutex, said, news, timer,
                   joins, losses, drops>>

\* esp_wifi_start, and the end of the locked part.
JoinStart ==
    /\ join.pc = "start"
    /\ join' = [join EXCEPT !.pc = "wait"]
    /\ driver' = "on"
    /\ events' = Append(events, "start")
    /\ mutex' = "free"
    /\ UNCHANGED <<config, link, loop, led, said, news, timer, joins, losses, drops>>

\* xEventGroupWaitBits finds the bit (and leaves it set), or ten seconds pass.
JoinEnd ==
    /\ join.pc = "wait"
    /\ join' = Idle
    /\ said' = IF bit THEN "Connected" ELSE "Connection timed out"
    /\ UNCHANGED <<wifi, events, loop, led, mutex, news, timer, joins, losses, drops>>

-----------------------------------------------------------------------------
(* The timer task, and the user's finger *)

PushButton ==
    /\ pushes < MaxPushes
    /\ pushes' = pushes + 1
    /\ Push
    /\ UNCHANGED <<wifi, events, loop, led, mutex, console, news, pairing,
                   losses, drops>>

Blink ==
    /\ ~pairing
    /\ LedToggle
    /\ UNCHANGED <<wifi, events, loop, mutex, console, news, timer, losses, drops>>

\* A long press: removeProvision takes no mutex.  If esp_wifi_set_config fails
\* (it does in the driver's null mode) it aborts with the network still there.
Sample ==
    /\ ~pairing
    /\ SamplePressed \/ SampleReleased
    /\ pairing' = IsLong
    /\ config' \in IF IsLong THEN {NoNetwork, config} ELSE {config}
    /\ UNCHANGED <<driver, link, events, loop, led, mutex, console, news, pushes,
                   losses, drops>>

\* The device restarts, and NetworkManager::init runs again.
Reboot ==
    /\ pairing' = FALSE
    /\ driver' = Driver(config)
    /\ events' = Posted(config)
    /\ link' = "down"
    /\ handling' = "none"
    /\ mutex' = "free"
    /\ bit' = FALSE
    /\ blinking' = TRUE
    /\ lit' = FALSE
    /\ join' = Idle
    /\ said' = "nothing"
    /\ news' = FALSE
    /\ last' = FALSE
    /\ time' = 0
    /\ held' = 0
    /\ UNCHANGED <<config, pressed, pushes, joins, losses, drops>>

\* esp_restart
Restart == pairing /\ Reboot

\* A call of the driver in join fails: ESP_ERROR_CHECK aborts.
JoinAborts == join.pc \in {"stop", "config", "start"} /\ Reboot

-----------------------------------------------------------------------------
EventLoop == \/ TakeEvent \/ DropEvent
             \/ HandleStart \/ HandleStop \/ HandleGotIp \/ HandleDisconnected
Console == JoinLock \/ JoinStop \/ JoinConfig \/ JoinStart \/ JoinEnd

Next ==
    \/ LinkUp \/ LinkLost
    \/ EventLoop
    \/ \E s \in Networks : Join(s)
    \/ Console
    \/ PushButton \/ Blink \/ Sample
    \/ Restart \/ JoinAborts

(* Both threads run and the FreeRTOS mutex passes to whoever waits for it; the
   driver ends a connection attempt one way or the other; a restart that has
   begun comes; a finger does not stay on the button for ever. *)
Fairness ==
    /\ SF_vars(EventLoop)
    /\ SF_vars(Console)
    /\ WF_vars(LinkUp)
    /\ WF_vars(Restart)
    /\ WF_vars(pressed /\ PushButton)

Spec == Init /\ [][Next]_vars
FairSpec == Spec /\ Fairness

-----------------------------------------------------------------------------
(* Properties *)

Event == {"start", "stop", "gotip", "disconnected"}

\* Every variable keeps to its type (network_manager.cpp, members and events).
TypeOK ==
    /\ config \in Networks \cup {NoNetwork}
    /\ driver \in {"null", "off", "on"}
    /\ link \in {"down", "connecting", "up"}
    /\ events \in Seq(Event)
    /\ handling \in Event \cup {"none"}
    /\ mutex \in {"free", "loop", "console"}
    /\ bit \in BOOLEAN
    /\ LedTypeOK
    /\ ButtonTypeOK
    /\ pairing \in BOOLEAN
    /\ join \in [pc : {"idle", "lock", "stop", "config", "start", "wait"},
                 ssid : Networks \cup {NoNetwork}]
    /\ said \in {"nothing", "Connected", "Connection timed out"}
    /\ news \in BOOLEAN
    /\ joins \in 0..MaxJoins
    /\ losses \in 0..MaxLosses
    /\ drops \in 0..MaxDrops
    /\ pushes \in 0..MaxPushes

\* Once all events are handled the status LED is steady exactly when the device
\* is connected, however joins and events overlap, as long as no access point
\* was lost and no event given up (eventHandler, network_manager.cpp:43-99).
LedFollowsLink ==
    (/\ events = <<>> /\ handling = "none" /\ join.pc \in {"idle", "lock", "wait"}
     /\ losses = 0 /\ drops = 0 /\ link # "connecting")
    => (~blinking /\ lit <=> link = "up")

\* A network is forgotten only after the button was found pressed at every
\* sample of three seconds, never after several shorter presses
\* (button.cpp:59-76, network_manager.cpp:182-189).
ForgetsOnlyWhenHeld ==
    [][config # NoNetwork /\ config' = NoNetwork => held' > LongPress]_vars

\* A station that runs with a network in reach gets connected, whatever stops
\* and starts are queued, unless an event is given up: then it may stay down.
EndsConnected ==
    <>[](driver = "on" /\ drops = 0 => link = "up" \/ losses > 0)

\* join comes back, unless the device restarts: it cannot lose the mutex for
\* ever to the handler of the events it causes itself
\* (network_manager.cpp:46-98, 156).
JoinReturns == join.pc # "idle" ~> join.pc = "idle"

\* `join` reports "Connected" only for a connection made since it was called
\* (network_manager.cpp:225).
ConnectedIsNews == said = "Connected" /\ join.pc = "idle" => news

\* After a loss the device connects again, as it logs (network_manager.cpp:90,
\* "Disconnected. Connecting to the AP again...").
Reconnects == handling = "disconnected" ~> link # "down"
=============================================================================
