------------------------- MODULE NetworkManagerProofs -------------------------
(***************************************************************************)
(* Proofs about NetworkManager for any number of networks, joins, losses   *)
(* and presses.                                                            *)
(*                                                                         *)
(* That a network is only forgotten after a long press rests on the count  *)
(* of samples being that of one press (Counted).  That the LED ends up     *)
(* showing the link rests on what is still to be handled: while the link   *)
(* is up its report comes last (UpIsLast), while it is down a start is on  *)
(* its way or no report is (DownIsKnown), and a stop that will take it     *)
(* down has its start behind it (StopThenStart).                           *)
(***************************************************************************)
EXTENDS NetworkManager, SequenceTheorems, TLAPS

Quiet == losses = 0 /\ drops = 0

\* The time of a press is the number of samples that found it, and no sample
\* is taken after the one that made it long.
Counted == time = held /\ (~pairing => time <= LongPress)

JoinsNetwork == join.pc # "idle" => join.ssid \in Networks

\* The station is off just while join is between stop and start.
OffInJoin ==
    /\ driver = "off" <=> join.pc \in {"config", "start"}
    /\ driver # "on" => link = "down"
    /\ driver = "null" => events = <<>> /\ handling = "none" /\ blinking

Pending(e) == handling = e \/ \E i \in DOMAIN events : events[i] = e

StopThenStart ==
    /\ handling = "stop" => driver = "off" \/ \E j \in DOMAIN events : events[j] = "start"
    /\ \A i \in DOMAIN events : events[i] = "stop" =>
          driver = "off" \/ \E j \in DOMAIN events : i < j /\ events[j] = "start"

DownIsKnown ==
    link = "down" /\ driver = "on" =>
        Pending("start") \/ (~Pending("gotip") /\ blinking)

UpIsLast ==
    link = "up" =>
        \/ \E i \in DOMAIN events :
              /\ events[i] = "gotip"
              /\ \A j \in DOMAIN events : i < j => events[j] = "disconnected"
        \/ /\ \A j \in DOMAIN events : events[j] = "disconnected"
           /\ \/ handling = "gotip"
              \/ handling \in {"none", "disconnected"} /\ ~blinking /\ lit

Shown == Quiet => OffInJoin /\ StopThenStart /\ DownIsKnown /\ UpIsLast

Inv == TypeOK /\ Counted /\ JoinsNetwork /\ Shown

Types == TypeOK /\ Counted /\ JoinsNetwork

LEMMA AppendFacts ==
    ASSUME NEW S, NEW s \in Seq(S), NEW e \in S
    PROVE  /\ Append(s, e) \in Seq(S)
           /\ Len(s) \in Nat /\ DOMAIN s = 1..Len(s)
           /\ DOMAIN Append(s, e) = 1..(Len(s) + 1)
           /\ \A i \in DOMAIN s : i \in DOMAIN Append(s, e) /\ Append(s, e)[i] = s[i]
                                  /\ i < Len(s) + 1
           /\ Len(s) + 1 \in DOMAIN Append(s, e)
           /\ Append(s, e)[Len(s) + 1] = e
           /\ \A i \in DOMAIN Append(s, e) : i \in DOMAIN s \/ i = Len(s) + 1
<1>1. /\ Append(s, e) \in Seq(S) /\ Len(Append(s, e)) = Len(s) + 1
      /\ \A i \in 1..Len(s) : Append(s, e)[i] = s[i]
      /\ Append(s, e)[Len(s) + 1] = e
  BY AppendProperties
<1>2. Len(s) \in Nat /\ DOMAIN s = 1..Len(s) /\ DOMAIN Append(s, e) = 1..(Len(s) + 1)
  BY <1>1, LenProperties
<1> QED
  BY <1>1, <1>2

LEMMA TailFacts ==
    ASSUME NEW S, NEW s \in Seq(S), s # <<>>
    PROVE  /\ Head(s) \in S /\ Head(s) = s[1] /\ 1 \in DOMAIN s
           /\ Tail(s) \in Seq(S)
           /\ \A i \in DOMAIN Tail(s) : i \in Nat /\ i + 1 \in DOMAIN s /\ Tail(s)[i] = s[i + 1]
           /\ \A i \in DOMAIN s : i \in Nat /\ (i # 1 => i - 1 \in DOMAIN Tail(s)
                                                        /\ Tail(s)[i - 1] = s[i])
<1>1. /\ Head(s) \in S /\ Head(s) = s[1] /\ Tail(s) \in Seq(S)
      /\ Len(s) \in Nat \ {0} /\ Len(Tail(s)) = Len(s) - 1
      /\ \A i \in 1..Len(Tail(s)) : Tail(s)[i] = s[i + 1]
  BY HeadTailProperties, LenProperties, EmptySeq
<1>2. DOMAIN s = 1..Len(s) /\ DOMAIN Tail(s) = 1..(Len(s) - 1)
  BY <1>1, LenProperties
<1>3. \A i \in DOMAIN s : i # 1 => i - 1 \in 1..(Len(s) - 1) /\ (i - 1) + 1 = i
  BY <1>1, <1>2
<1>4. \A i \in DOMAIN s : i # 1 => Tail(s)[i - 1] = s[i]
  BY <1>1, <1>2, <1>3
<1> QED
  BY <1>1, <1>2, <1>3, <1>4

-----------------------------------------------------------------------------
(* Types, and the count of the samples *)

LEMMA Bounds ==
    MaxJoins \in Nat /\ MaxLosses \in Nat /\ MaxDrops \in Nat /\ MaxPushes \in Nat
  BY NetworkAssumption

LEMMA SingletonFacts == ASSUME NEW S, NEW e \in S PROVE <<e>> \in Seq(S) /\ <<>> \in Seq(S)
  OBVIOUS

LEMMA ShortSeqs ==
    \A e \in {"start", "stop", "disconnected"} : e \in Event /\ <<e>> \in Seq(Event) /\ <<>> \in Seq(Event)
<1>1. \A e \in {"start", "stop", "disconnected"} : e \in Event
  BY DEF Event
<1> QED
  BY <1>1, SingletonFacts

LEMMA InitTypes == Init => Types
<1> SUFFICES ASSUME Init PROVE Types
  OBVIOUS
<1>1. events \in Seq(Event)
  <2>1. events = <<>> \/ events = <<"start">>
    BY DEF Init, Posted
  <2> QED
    BY <2>1, ShortSeqs
<1>2. 0 \in 0..MaxJoins /\ 0 \in 0..MaxLosses /\ 0 \in 0..MaxDrops /\ 0 \in 0..MaxPushes
      /\ 0 \in 0..(LongPress + 1) /\ 0 <= LongPress
  BY Bounds, ButtonAssumption
<1>3. driver \in {"null", "off", "on"} /\ config \in Networks \cup {NoNetwork}
  BY DEF Init, Driver
<1>4. LedTypeOK /\ ButtonTypeOK /\ Counted
  BY <1>2 DEF Init, LedInit, ButtonInit, LedTypeOK, ButtonTypeOK, led, Counted
<1>5. /\ join \in [pc : {"idle", "lock", "stop", "config", "start", "wait"},
                   ssid : Networks \cup {NoNetwork}]
      /\ JoinsNetwork
  BY DEF Init, Idle, JoinsNetwork
<1> QED
  BY <1>1, <1>2, <1>3, <1>4, <1>5 DEF Init, Types, TypeOK

\* The driver and the event loop: they neither join nor sample.
LEMMA LoopTypes ==
    ASSUME Types, LinkUp \/ LinkLost \/ EventLoop
    PROVE  Types'
<1>1. UNCHANGED <<config, driver, join, said, joins, button, pairing, pushes>>
  BY DEF LinkUp, LinkLost, EventLoop, TakeEvent, DropEvent, HandleStart, HandleStop,
         HandleGotIp, HandleDisconnected, Handled, console, timer, wifi
<1>2. events' \in Seq(Event) /\ handling' \in Event \cup {"none"}
  <2>1. events \in Seq(Event) /\ handling \in Event \cup {"none"}
    BY DEF Types, TypeOK
  <2>2. {"start", "stop", "gotip", "disconnected"} \subseteq Event
    BY DEF Event
  <2>3. \A e \in Event : Append(events, e) \in Seq(Event)
    BY <2>1, AppendFacts
  <2>4. events # <<>> => Head(events) \in Event /\ Tail(events) \in Seq(Event)
    BY <2>1, TailFacts
  <2> QED
    BY <2>1, <2>2, <2>3, <2>4
       DEF LinkUp, LinkLost, EventLoop, TakeEvent, DropEvent, HandleStart, HandleStop,
           HandleGotIp, HandleDisconnected, Handled, loop
<1>3. /\ link' \in {"down", "connecting", "up"}
      /\ mutex' \in {"free", "loop", "console"}
      /\ bit' \in BOOLEAN
      /\ news' \in BOOLEAN
  BY DEF Types, TypeOK, LinkUp, LinkLost, EventLoop, TakeEvent, DropEvent, HandleStart,
         HandleStop, HandleGotIp, HandleDisconnected, Handled, Lock, loop, wifi
<1>4. LedTypeOK'
  <2>1. blinking \in BOOLEAN /\ lit \in BOOLEAN
    BY DEF Types, TypeOK, LedTypeOK, led
  <2>2. blinking' \in {blinking, TRUE, FALSE} /\ lit' \in {lit, TRUE}
    BY DEF LinkUp, LinkLost, EventLoop, TakeEvent, DropEvent, HandleStart, HandleStop,
           HandleGotIp, HandleDisconnected, LedOn, LedBlink, TimerStart, TimerStop, led
  <2> QED
    BY <2>1, <2>2 DEF LedTypeOK, led
<1>5. losses' \in 0..MaxLosses /\ drops' \in 0..MaxDrops
  <2>1. losses \in 0..MaxLosses /\ drops \in 0..MaxDrops
    BY DEF Types, TypeOK
  <2>2. losses' = losses \/ (losses < MaxLosses /\ losses' = losses + 1)
    BY DEF LinkUp, LinkLost, EventLoop, TakeEvent, DropEvent, HandleStart, HandleStop,
           HandleGotIp, HandleDisconnected, Handled
  <2>3. drops' = drops \/ (drops < MaxDrops /\ drops' = drops + 1)
    BY DEF LinkUp, LinkLost, EventLoop, TakeEvent, DropEvent, HandleStart, HandleStop,
           HandleGotIp, HandleDisconnected, Handled
  <2> QED
    BY <2>1, <2>2, <2>3, Bounds
<1>6. ButtonTypeOK' /\ Counted'
  BY <1>1 DEF Types, TypeOK, ButtonTypeOK, Counted, button
<1> QED
  BY <1>1, <1>2, <1>3, <1>4, <1>5, <1>6 DEF Types, TypeOK, JoinsNetwork

LEMMA ConsoleTypes ==
    ASSUME Types, Console \/ \E s \in Networks : Join(s)
    PROVE  Types'
<1>1. UNCHANGED <<handling, bit, led, button, pairing, pushes, losses, drops>>
  BY DEF Console, Join, JoinLock, JoinStop, JoinConfig, JoinStart, JoinEnd, loop, timer
<1>2. events' \in Seq(Event)
  <2>1. events \in Seq(Event) /\ <<>> \in Seq(Event)
        /\ <<"disconnected">> \in Seq(Event) /\ <<"stop">> \in Seq(Event)
    BY ShortSeqs DEF Types, TypeOK
  <2>2. \A s, t \in Seq(Event) : s \o t \in Seq(Event)
    BY ConcatProperties
  <2>3. Append(events, "start") \in Seq(Event)
    BY <2>1, AppendFacts DEF Event
  <2>4. JoinStop => events' \in Seq(Event)
    BY <2>1, <2>2 DEF JoinStop
  <2> QED
    BY <2>1, <2>3, <2>4 DEF Console, Join, JoinLock, JoinConfig, JoinStart, JoinEnd
<1>3. /\ join' \in [pc : {"idle", "lock", "stop", "config", "start", "wait"},
                    ssid : Networks \cup {NoNetwork}]
      /\ JoinsNetwork'
  <2>1. CASE \E s \in Networks : Join(s)
    BY <2>1 DEF Join, JoinsNetwork
  <2>2. CASE Console
    <3>1. \/ join' = Idle
          \/ /\ join.pc # "idle"
             /\ \E q \in {"stop", "config", "start", "wait"} : join' = [join EXCEPT !.pc = q]
      BY <2>2 DEF Console, JoinLock, JoinStop, JoinConfig, JoinStart, JoinEnd
    <3>2. /\ join \in [pc : {"idle", "lock", "stop", "config", "start", "wait"},
                        ssid : Networks \cup {NoNetwork}]
          /\ join.pc # "idle" => join.ssid \in Networks
      BY DEF Types, TypeOK, JoinsNetwork
    <3>3. CASE join' = Idle
      BY <3>3 DEF Idle, JoinsNetwork
    <3>4. ASSUME NEW q \in {"stop", "config", "start", "wait"}, join.pc # "idle",
                 join' = [join EXCEPT !.pc = q]
          PROVE  /\ join' \in [pc : {"idle", "lock", "stop", "config", "start", "wait"},
                               ssid : Networks \cup {NoNetwork}]
                 /\ join'.ssid \in Networks
      BY <3>2, <3>4
    <3> QED
      BY <3>1, <3>3, <3>4 DEF JoinsNetwork
  <2> QED
    BY <2>1, <2>2
<1>4. config' \in Networks \cup {NoNetwork}
  BY DEF Types, TypeOK, JoinsNetwork, Console, Join, JoinLock, JoinStop, JoinConfig,
         JoinStart, JoinEnd, wifi
<1>5. /\ driver' \in {"null", "off", "on"}
      /\ link' \in {"down", "connecting", "up"}
      /\ mutex' \in {"free", "loop", "console"}
      /\ said' \in {"nothing", "Connected", "Connection timed out"}
      /\ news' \in BOOLEAN
  BY DEF Types, TypeOK, Console, Join, JoinLock, Lock, JoinStop, JoinConfig, JoinStart, JoinEnd,
         wifi
<1>6. joins' \in 0..MaxJoins
  <2>1. joins' = joins \/ (joins < MaxJoins /\ joins' = joins + 1)
    BY DEF Console, Join, JoinLock, JoinStop, JoinConfig, JoinStart, JoinEnd
  <2>2. joins \in 0..MaxJoins
    BY DEF Types, TypeOK
  <2> QED
    BY <2>1, <2>2, Bounds
<1>7. LedTypeOK' /\ ButtonTypeOK' /\ Counted'
  BY <1>1 DEF Types, TypeOK, LedTypeOK, ButtonTypeOK, Counted, led, button
<1> QED
  BY <1>1, <1>2, <1>3, <1>4, <1>5, <1>6, <1>7 DEF Types, TypeOK

LEMMA TimerTypes ==
    ASSUME Types, PushButton \/ Blink \/ Sample \/ Reboot
    PROVE  Types'
<1>1. /\ time \in 0..(LongPress + 1) /\ held = time /\ LongPress \in Nat
      /\ 0 \in 0..(LongPress + 1) /\ 0 <= LongPress
      /\ ~pairing => time <= LongPress
  <2>1. LongPress \in Nat /\ 0 \in 0..(LongPress + 1) /\ 0 <= LongPress
    BY ButtonAssumption
  <2>2. time \in 0..(LongPress + 1)
    BY DEF Types, TypeOK, ButtonTypeOK
  <2>3. held = time /\ (~pairing => time <= LongPress)
    BY DEF Types, Counted
  <2> QED
    BY <2>1, <2>2, <2>3
<1>2. /\ pressed \in BOOLEAN /\ last \in BOOLEAN /\ pairing \in BOOLEAN
      /\ blinking \in BOOLEAN /\ lit \in BOOLEAN
  BY DEF Types, TypeOK, ButtonTypeOK, LedTypeOK, led
\* The button.
<1>3. /\ time' \in 0..(LongPress + 1) /\ held' = time'
      /\ ~pairing' => time' <= LongPress
  <2>1. CASE UNCHANGED <<time, held, pairing>>
    BY <1>1, <2>1
  <2>2. CASE time' = 0 /\ held' = 0
    BY <1>1, <2>2
  <2>3. CASE ~pairing /\ time' = time + 1 /\ held' = held + 1 /\ (~pairing' => ~(time' > LongPress))
    BY <1>1, <2>3
  <2>4. \/ UNCHANGED <<time, held, pairing>>
        \/ time' = 0 /\ held' = 0
        \/ ~pairing /\ time' = time + 1 /\ held' = held + 1 /\ (~pairing' => ~(time' > LongPress))
    <3>1. PushButton \/ Blink => UNCHANGED <<time, held, pairing>>
      BY DEF PushButton, Push, Blink, timer, button
    <3>2. Sample => \/ time' = 0 /\ held' = 0
                    \/ /\ ~pairing /\ time' = time + 1 /\ held' = held + 1
                       /\ (~pairing' => ~(time' > LongPress))
      BY DEF Sample, SamplePressed, SampleReleased, IsLong
    <3>3. Reboot => time' = 0 /\ held' = 0
      BY DEF Reboot
    <3> QED
      BY <3>1, <3>2, <3>3
  <2> QED
    BY <2>1, <2>2, <2>3, <2>4
<1>4. pressed' \in BOOLEAN /\ last' \in BOOLEAN /\ pairing' \in BOOLEAN
  <2>1. CASE PushButton
    BY <1>2, <2>1 DEF PushButton, Push
  <2>2. CASE Blink
    BY <1>2, <2>2 DEF Blink, timer, button
  <2>3. CASE Sample
    <3>1. /\ UNCHANGED pressed /\ last' \in {TRUE, FALSE}
          /\ pairing' = IsLong
      BY <2>3 DEF Sample, SamplePressed, SampleReleased
    <3>2. IsLong \in BOOLEAN
      BY DEF IsLong
    <3> QED
      BY <1>2, <3>1, <3>2
  <2>4. CASE Reboot
    BY <1>2, <2>4 DEF Reboot
  <2> QED
    BY <2>1, <2>2, <2>3, <2>4
<1>5. blinking' \in BOOLEAN /\ lit' \in BOOLEAN
  BY <1>2, Zenon DEF PushButton, Blink, LedToggle, Sample, Reboot, led
<1>6. ButtonTypeOK' /\ Counted' /\ LedTypeOK'
  BY <1>3, <1>4, <1>5 DEF ButtonTypeOK, Counted, LedTypeOK, led
\* The rest.
<1>7. UNCHANGED <<joins, losses, drops>>
  BY DEF PushButton, Blink, Sample, Reboot, console
<1>8. pushes' \in 0..MaxPushes
  <2>1. pushes' = pushes \/ (pushes < MaxPushes /\ pushes' = pushes + 1)
    BY DEF PushButton, Blink, Sample, Reboot, timer
  <2>2. pushes \in 0..MaxPushes
    BY DEF Types, TypeOK
  <2> QED
    BY <2>1, <2>2, Bounds
<1>9. /\ config' \in Networks \cup {NoNetwork}
      /\ driver' \in {"null", "off", "on"}
      /\ link' \in {"down", "connecting", "up"}
      /\ handling' \in Event \cup {"none"}
      /\ mutex' \in {"free", "loop", "console"}
      /\ said' \in {"nothing", "Connected", "Connection timed out"}
  BY DEF Types, TypeOK, PushButton, Blink, Sample, Reboot, Driver, wifi, loop, console
<1>10. bit' \in BOOLEAN /\ news' \in BOOLEAN
  <2>1. bit \in BOOLEAN /\ news \in BOOLEAN
    BY DEF Types, TypeOK
  <2> QED
    BY <2>1, Zenon DEF PushButton, Blink, Sample, Reboot, loop
<1>11. events' \in Seq(Event)
  <2>1. UNCHANGED events \/ events' = <<>> \/ events' = <<"start">>
    BY DEF PushButton, Blink, Sample, Reboot, Posted
  <2> QED
    BY <2>1, ShortSeqs DEF Types, TypeOK
<1>12. /\ join' \in [pc : {"idle", "lock", "stop", "config", "start", "wait"},
                     ssid : Networks \cup {NoNetwork}]
       /\ JoinsNetwork'
  <2>1. UNCHANGED join \/ join' = Idle
    BY DEF PushButton, Blink, Sample, Reboot, console
  <2>2. /\ join \in [pc : {"idle", "lock", "stop", "config", "start", "wait"},
                      ssid : Networks \cup {NoNetwork}]
        /\ join.pc # "idle" => join.ssid \in Networks
    BY DEF Types, TypeOK, JoinsNetwork
  <2>3. /\ Idle \in [pc : {"idle", "lock", "stop", "config", "start", "wait"},
                      ssid : Networks \cup {NoNetwork}]
        /\ Idle.pc = "idle"
    BY DEF Idle
  <2>4. join' = join \/ join' = Idle
    BY <2>1
  <2> HIDE DEF Idle
  <2> QED
    BY <2>2, <2>3, <2>4 DEF JoinsNetwork
<1> QED
  BY <1>4, <1>6, <1>7, <1>8, <1>9, <1>10, <1>11, <1>12 DEF Types, TypeOK

LEMMA NextTypes == Types /\ [Next]_vars => Types'
<1>1. ASSUME Types, UNCHANGED vars PROVE Types'
  <2>1. /\ UNCHANGED <<config, driver, link, events, handling, mutex, bit, join, said, news,
                      pairing, joins, losses, drops, pushes>>
        /\ UNCHANGED <<blinking, lit, pressed, last, time, held>>
    BY <1>1 DEF vars, wifi, loop, led, console, timer, button
  <2>2. LedTypeOK' /\ ButtonTypeOK' /\ Counted' /\ JoinsNetwork'
    BY <1>1, <2>1 DEF Types, TypeOK, LedTypeOK, led, ButtonTypeOK, Counted, JoinsNetwork
  <2>3. bit' \in BOOLEAN /\ news' \in BOOLEAN /\ pairing' \in BOOLEAN
    BY <1>1, <2>1 DEF Types, TypeOK
  <2>4. /\ config' \in Networks \cup {NoNetwork}
        /\ driver' \in {"null", "off", "on"}
        /\ link' \in {"down", "connecting", "up"}
        /\ events' \in Seq(Event)
        /\ handling' \in Event \cup {"none"}
    BY <1>1, <2>1 DEF Types, TypeOK
  <2>5. /\ mutex' \in {"free", "loop", "console"}
        /\ join' \in [pc : {"idle", "lock", "stop", "config", "start", "wait"},
                      ssid : Networks \cup {NoNetwork}]
        /\ said' \in {"nothing", "Connected", "Connection timed out"}
    BY <1>1, <2>1 DEF Types, TypeOK
  <2>6. /\ joins' \in 0..MaxJoins /\ losses' \in 0..MaxLosses
        /\ drops' \in 0..MaxDrops /\ pushes' \in 0..MaxPushes
    BY <1>1, <2>1 DEF Types, TypeOK
  <2>7. TypeOK'
    BY <2>2, <2>3, <2>4, <2>5, <2>6, Zenon DEF TypeOK
  <2> QED
    BY <2>2, <2>7 DEF Types
<1> QED
  BY <1>1, LoopTypes, ConsoleTypes, TimerTypes DEF Next, Restart, JoinAborts

\* Every variable keeps to its type, whatever networks, joins and presses there
\* are (network_manager.cpp, button.cpp, status.cpp).
THEOREM TypeCorrect == Spec => []TypeOK
<1>1. Types => TypeOK
  BY DEF Types
<1> QED
  BY <1>1, InitTypes, NextTypes, PTL DEF Spec

\* A network is forgotten only after every sample of three seconds found the
\* button pressed (button.cpp:59-76, network_manager.cpp:182-189).
THEOREM ForgetsWhenHeld == Spec => ForgetsOnlyWhenHeld
<1>1. Types /\ [Next]_vars => [config # NoNetwork /\ config' = NoNetwork => held' > LongPress]_vars
  <2> SUFFICES ASSUME Types, Next, config # NoNetwork, config' = NoNetwork
               PROVE  held' > LongPress
    OBVIOUS
  <2>1. ~UNCHANGED config
    OBVIOUS
  <2>2. Sample \/ JoinConfig
    BY <2>1 DEF Next, LinkUp, LinkLost, EventLoop, TakeEvent, DropEvent, HandleStart,
           HandleStop, HandleGotIp, HandleDisconnected, Handled, Join, Console, JoinLock,
           JoinStop, JoinStart, JoinEnd, PushButton, Blink, Restart, JoinAborts, Reboot, wifi
  <2>3. ~JoinConfig
    BY NetworkAssumption DEF Types, JoinsNetwork, JoinConfig
  <2>4. Sample /\ IsLong
    BY <2>1, <2>2, <2>3 DEF Sample
  <2>5. held' = time'
    BY <2>4, TimerTypes DEF Types, Counted
  <2> QED
    BY <2>4, <2>5 DEF IsLong
<1> QED
  BY <1>1, InitTypes, NextTypes, PTL DEF Spec, ForgetsOnlyWhenHeld

-----------------------------------------------------------------------------
(* What the LED shows *)

LEMMA InitShown == Init => Shown
<1> SUFFICES ASSUME Init PROVE OffInJoin /\ StopThenStart /\ DownIsKnown /\ UpIsLast
  BY DEF Shown
<1>1. /\ link = "down" /\ handling = "none" /\ join.pc = "idle"
      /\ \/ driver = "null" /\ events = <<>>
         \/ driver = "on" /\ events = <<"start">>
  <2>1. link = "down" /\ handling = "none" /\ join = Idle
        /\ driver = Driver(config) /\ events = Posted(config)
    BY DEF Init
  <2>2. CASE config = NoNetwork
    BY <2>1, <2>2 DEF Driver, Posted, Idle
  <2>3. CASE config # NoNetwork
    BY <2>1, <2>3 DEF Driver, Posted, Idle
  <2> QED
    BY <2>2, <2>3
<1>3. blinking
  BY DEF Init, LedInit
<1>2. DOMAIN <<>> = {} /\ DOMAIN <<"start">> = {1} /\ <<"start">>[1] = "start"
  BY EmptySeq
<1> QED
  BY <1>1, <1>2, <1>3 DEF OffInJoin, StopThenStart, DownIsKnown, UpIsLast, Pending

All == OffInJoin /\ StopThenStart /\ DownIsKnown /\ UpIsLast

\* A step that adds or takes no event, and leaves link, driver and LED alone.
LEMMA SameShown ==
    ASSUME All, UNCHANGED <<driver, link, events, handling, blinking, lit>>,
           join'.pc \in {"config", "start"} <=> join.pc \in {"config", "start"}
    PROVE  All'
  BY DEF All, OffInJoin, StopThenStart, DownIsKnown, UpIsLast, Pending

LEMMA LinkUpShown == ASSUME Types, All, LinkUp PROVE All'
<1> DEFINE n == Len(events) + 1
<1>1. /\ link = "connecting" /\ link' = "up" /\ events' = Append(events, "gotip")
      /\ UNCHANGED <<driver, handling, blinking, lit, join>>
  BY DEF LinkUp, loop, led, console
<1>2. /\ \A i \in DOMAIN events : i \in DOMAIN events' /\ events'[i] = events[i] /\ i < n
      /\ n \in DOMAIN events' /\ events'[n] = "gotip" /\ n \in Nat
      /\ \A i \in DOMAIN events' : i \in DOMAIN events \/ i = n
  <2>1. events \in Seq(Event) /\ "gotip" \in Event
    BY DEF Types, TypeOK, Event
  <2>2. n \in Nat
    BY <2>1, LenProperties
  <2> QED
    BY <1>1, <2>1, <2>2, AppendFacts
<1>3. \A i \in DOMAIN events' : ~(n < i)
  <2>1. events \in Seq(Event) /\ "gotip" \in Event
    BY DEF Types, TypeOK, Event
  <2>2. DOMAIN events' = 1..n /\ n \in Nat
    BY <1>1, <1>2, <2>1, AppendFacts
  <2> QED
    BY <2>2
<1> HIDE DEF n
<1>4. OffInJoin'
  BY <1>1 DEF All, OffInJoin
<1>5. StopThenStart'
  BY <1>1, <1>2 DEF All, StopThenStart
<1>6. DownIsKnown' /\ UpIsLast'
  BY <1>1, <1>2, <1>3 DEF DownIsKnown, UpIsLast
<1> QED
  BY <1>4, <1>5, <1>6 DEF All

LEMMA TakeShown == ASSUME Types, All, TakeEvent PROVE All'
<1>1. /\ handling = "none" /\ events # <<>> /\ handling' = Head(events)
      /\ events' = Tail(events)
      /\ UNCHANGED <<driver, link, blinking, lit, join>>
  BY DEF TakeEvent, wifi, led, console
<1>2. /\ handling' = events[1] /\ 1 \in DOMAIN events /\ events[1] \in Event
      /\ \A i \in DOMAIN events' : i \in Nat /\ i + 1 \in DOMAIN events /\ events'[i] = events[i + 1]
      /\ \A i \in DOMAIN events : i \in Nat /\ (i # 1 => i - 1 \in DOMAIN events'
                                                        /\ events'[i - 1] = events[i])
  <2>1. events \in Seq(Event)
    BY DEF Types, TypeOK
  <2> QED
    BY <1>1, <2>1, TailFacts
<1>3. \A j \in DOMAIN events : j >= 1
  <2>1. events \in Seq(Event)
    BY DEF Types, TypeOK
  <2> QED
    BY <2>1, LenProperties
<1>4. \A j \in DOMAIN events : j # 1 => 1 < j
  BY <1>2, <1>3
<1>5. \A i, j \in DOMAIN events' : i < j => i + 1 < j + 1
  BY <1>2
<1>6. \A i \in DOMAIN events : \A j \in DOMAIN events : i < j => j # 1
  BY <1>2, <1>3
<1>7. OffInJoin'
  BY <1>1 DEF All, OffInJoin
<1>8. StopThenStart'
  <2>1. ASSUME handling' = "stop", driver # "off"
        PROVE  \E j \in DOMAIN events' : events'[j] = "start"
    <3>1. PICK j \in DOMAIN events : 1 < j /\ events[j] = "start"
      BY <1>2, <2>1 DEF All, StopThenStart
    <3> QED
      BY <1>2, <1>6, <3>1
  <2>2. ASSUME NEW i \in DOMAIN events', events'[i] = "stop", driver # "off"
        PROVE  \E j \in DOMAIN events' : i < j /\ events'[j] = "start"
    <3>1. PICK j \in DOMAIN events : i + 1 < j /\ events[j] = "start"
      BY <1>2, <2>2 DEF All, StopThenStart
    <3>2. j # 1
      BY <1>2, <1>6, <3>1
    <3>3. i < j - 1
      BY <1>2, <3>1
    <3> QED
      BY <1>2, <3>1, <3>2, <3>3
  <2> QED
    BY <1>1, <2>1, <2>2 DEF StopThenStart
<1>9. \A e \in Event : Pending(e) <=> Pending(e)'
  <2> TAKE e \in Event
  <2>1. handling # e
    BY <1>1 DEF Event
  <2>2. (\E i \in DOMAIN events : events[i] = e)
        <=> (handling' = e \/ \E i \in DOMAIN events' : events'[i] = e)
    BY <1>2
  <2> QED
    BY <2>1, <2>2 DEF Pending
<1>10. DownIsKnown'
  BY <1>1, <1>9 DEF All, DownIsKnown, Event
<1>11. UpIsLast'
  <2> SUFFICES ASSUME link' = "up" PROVE UpIsLast'
    BY DEF UpIsLast
  <2>1. CASE \A j \in DOMAIN events : events[j] = "disconnected"
    BY <1>1, <1>2, <2>1 DEF All, UpIsLast
  <2>2. ASSUME NEW i \in DOMAIN events, events[i] = "gotip",
               \A j \in DOMAIN events : i < j => events[j] = "disconnected"
        PROVE  UpIsLast'
    <3>1. CASE i = 1
      <4>1. \A j \in DOMAIN events' : 1 < j + 1
        <5>1. \A j \in DOMAIN events' : j >= 1
          <6>1. events' \in Seq(Event)
            BY <1>1, TailFacts DEF Types, TypeOK
          <6> QED
            BY <6>1, LenProperties
        <5> QED
          BY <1>2, <5>1
      <4>2. \A j \in DOMAIN events' : events'[j] = "disconnected"
        BY <1>2, <2>2, <3>1, <4>1
      <4> QED
        BY <1>2, <2>2, <3>1, <4>2 DEF UpIsLast
    <3>2. CASE i # 1
      <4>1. i - 1 \in DOMAIN events' /\ events'[i - 1] = "gotip"
        BY <1>2, <2>2, <3>2
      <4>2. \A j \in DOMAIN events' : i - 1 < j => i < j + 1
        BY <1>2
      <4>3. \A j \in DOMAIN events' : i - 1 < j => events'[j] = "disconnected"
        BY <1>2, <2>2, <4>2
      <4> QED
        BY <4>1, <4>3 DEF UpIsLast
    <3> QED
      BY <3>1, <3>2
  <2> QED
    BY <1>1, <2>1, <2>2 DEF All, UpIsLast
<1> QED
  BY <1>7, <1>8, <1>10, <1>11 DEF All

\* A start that is handled connects; one for a station that is off is late.
LEMMA StartShown == ASSUME Types, All, HandleStart PROVE All'
<1>1. /\ handling = "start" /\ handling' = "none" /\ blinking'
      /\ link' = IF driver = "on" /\ link = "down" THEN "connecting" ELSE link
      /\ UNCHANGED <<driver, events, join>>
  BY DEF HandleStart, Handled, LedBlink, TimerStart, console
<1>2. OffInJoin'
  BY <1>1 DEF All, OffInJoin
<1>3. StopThenStart'
  BY <1>1 DEF All, StopThenStart
<1>4. DownIsKnown'
  BY <1>1 DEF DownIsKnown
<1>5. UpIsLast'
  BY <1>1 DEF All, UpIsLast
<1> QED
  BY <1>2, <1>3, <1>4, <1>5 DEF All

LEMMA StopShown == ASSUME Types, All, HandleStop PROVE All'
<1>1. /\ handling = "stop" /\ handling' = "none" /\ blinking' /\ link' = "down"
      /\ UNCHANGED <<driver, join>>
      /\ events' = events \/ events' = Append(events, "disconnected")
  BY DEF HandleStop, Handled, LedBlink, TimerStart, console
<1>2. /\ \A i \in DOMAIN events : i \in DOMAIN events' /\ events'[i] = events[i]
      /\ \A i \in DOMAIN events' : i \in DOMAIN events \/ events'[i] = "disconnected"
  <2>1. events \in Seq(Event) /\ "disconnected" \in Event
    BY DEF Types, TypeOK, Event
  <2>2. CASE events' = Append(events, "disconnected")
    <3>1. /\ \A i \in DOMAIN events : i \in DOMAIN events' /\ events'[i] = events[i]
          /\ events'[Len(events) + 1] = "disconnected"
          /\ \A i \in DOMAIN events' : i \in DOMAIN events \/ i = Len(events) + 1
      BY <2>1, <2>2, AppendFacts
    <3> QED
      BY <3>1
  <2> QED
    BY <1>1, <2>2
<1>3. OffInJoin'
  BY <1>1 DEF All, OffInJoin
<1>4. StopThenStart'
  <2>1. ASSUME NEW i \in DOMAIN events', events'[i] = "stop", driver # "off"
        PROVE  \E j \in DOMAIN events' : i < j /\ events'[j] = "start"
    <3>1. i \in DOMAIN events /\ events[i] = "stop"
      BY <1>2, <2>1
    <3>2. PICK j \in DOMAIN events : i < j /\ events[j] = "start"
      BY <2>1, <3>1 DEF All, StopThenStart
    <3> QED
      BY <1>2, <3>2
  <2> QED
    BY <1>1, <2>1 DEF StopThenStart
<1>5. DownIsKnown'
  <2>1. ASSUME driver = "on" PROVE Pending("start")'
    <3>1. PICK j \in DOMAIN events : events[j] = "start"
      BY <1>1, <2>1 DEF All, StopThenStart
    <3> QED
      BY <1>2, <3>1 DEF Pending
  <2> QED
    BY <1>1, <2>1 DEF DownIsKnown
<1>6. UpIsLast'
  BY <1>1 DEF UpIsLast
<1> QED
  BY <1>3, <1>4, <1>5, <1>6 DEF All

LEMMA GotIpShown == ASSUME Types, All, HandleGotIp PROVE All'
<1>1. /\ handling = "gotip" /\ handling' = "none"
      /\ UNCHANGED <<driver, link, events, join>>
      /\ blinking' = FALSE /\ lit' = TRUE
  BY DEF HandleGotIp, Handled, LedOn, TimerStop, console
<1>2. OffInJoin'
  BY <1>1 DEF All, OffInJoin
<1>3. StopThenStart'
  BY <1>1 DEF All, StopThenStart
<1>4. DownIsKnown'
  BY <1>1 DEF All, DownIsKnown, Pending
<1>5. UpIsLast'
  BY <1>1 DEF All, UpIsLast
<1> QED
  BY <1>2, <1>3, <1>4, <1>5 DEF All

LEMMA DisconnectedShown == ASSUME Types, All, HandleDisconnected PROVE All'
<1>1. /\ handling = "disconnected" /\ handling' = "none"
      /\ UNCHANGED <<driver, link, events, join, blinking, lit>>
  BY DEF HandleDisconnected, Handled, led, console
<1>2. OffInJoin'
  BY <1>1 DEF All, OffInJoin
<1>3. StopThenStart'
  BY <1>1 DEF All, StopThenStart
<1>4. DownIsKnown'
  BY <1>1 DEF All, DownIsKnown, Pending
<1>5. UpIsLast'
  BY <1>1 DEF All, UpIsLast
<1> QED
  BY <1>2, <1>3, <1>4, <1>5 DEF All

\* While join has the station off nothing is known, and nothing need be.
LEMMA JoinStopShown == ASSUME Types, All, JoinStop PROVE All'
<1>1. driver' = "off" /\ link' = "down" /\ join'.pc = "config"
  BY DEF JoinStop, Types, TypeOK
<1> QED
  BY <1>1 DEF All, OffInJoin, StopThenStart, DownIsKnown, UpIsLast

LEMMA JoinStartShown == ASSUME Types, All, JoinStart PROVE All'
<1> DEFINE n == Len(events) + 1
<1>1. /\ join.pc = "start" /\ join'.pc = "wait" /\ driver' = "on"
      /\ events' = Append(events, "start") /\ UNCHANGED <<link, handling>>
      /\ driver = "off" /\ link = "down"
  BY DEF JoinStart, loop, Types, TypeOK, All, OffInJoin
<1>2. /\ \A i \in DOMAIN events : i \in DOMAIN events' /\ events'[i] = events[i] /\ i < n
      /\ n \in DOMAIN events' /\ events'[n] = "start"
      /\ \A i \in DOMAIN events' : i \in DOMAIN events \/ i = n
  <2>1. events \in Seq(Event) /\ "start" \in Event
    BY DEF Types, TypeOK, Event
  <2> QED
    BY <1>1, <2>1, AppendFacts
<1> HIDE DEF n
<1>3. OffInJoin' /\ UpIsLast'
  BY <1>1 DEF OffInJoin, UpIsLast
<1>4. StopThenStart'
  BY <1>1, <1>2 DEF StopThenStart
<1>5. DownIsKnown'
  BY <1>2 DEF DownIsKnown, Pending
<1> QED
  BY <1>3, <1>4, <1>5 DEF All

LEMMA RebootShown == ASSUME Types, Reboot PROVE All'
<1>1. /\ link' = "down" /\ handling' = "none" /\ join' = Idle /\ blinking'
      /\ driver' = Driver(config) /\ events' = Posted(config)
  BY DEF Reboot
<1>2. DOMAIN <<>> = {} /\ DOMAIN <<"start">> = {1} /\ <<"start">>[1] = "start"
  BY EmptySeq
<1>3. CASE config = NoNetwork
  BY <1>1, <1>2, <1>3 DEF Driver, Posted, Idle, All, OffInJoin, StopThenStart, DownIsKnown,
                          UpIsLast, Pending
<1>4. CASE config # NoNetwork
  BY <1>1, <1>2, <1>4 DEF Driver, Posted, Idle, All, OffInJoin, StopThenStart, DownIsKnown,
                          UpIsLast, Pending
<1> QED
  BY <1>3, <1>4

\* The timer task blinks: a LED that shows a link does not.
LEMMA BlinkShown == ASSUME Types, All, Blink PROVE All'
<1>1. /\ UNCHANGED <<driver, link, events, handling, join, blinking>> /\ blinking
  BY DEF Blink, LedToggle, wifi, loop, console
<1>2. OffInJoin' /\ StopThenStart' /\ DownIsKnown'
  BY <1>1 DEF All, OffInJoin, StopThenStart, DownIsKnown, Pending
<1>3. UpIsLast'
  BY <1>1 DEF All, UpIsLast
<1> QED
  BY <1>2, <1>3 DEF All

LEMMA NextShown == Types /\ Shown /\ [Next]_vars => Shown'
<1> SUFFICES ASSUME Types, Shown, [Next]_vars, Quiet' PROVE All'
  BY DEF Shown, All
<1>1. Quiet /\ ~LinkLost /\ ~DropEvent
  <2>1. losses \in Nat /\ drops \in Nat /\ losses' = 0 /\ drops' = 0
    <3>1. losses \in 0..MaxLosses /\ drops \in 0..MaxDrops
      BY DEF Types, TypeOK
    <3>2. losses' = 0 /\ drops' = 0
      BY DEF Quiet
    <3> QED
      BY <3>1, <3>2, Bounds
  <2>2. ~LinkLost
    BY <2>1 DEF LinkLost
  <2>3. ~DropEvent
    BY <2>1 DEF DropEvent
  <2>4. UNCHANGED <<losses, drops>>
    BY <2>2, <2>3 DEF vars, Next, LinkUp, EventLoop, TakeEvent, HandleStart, HandleStop,
           HandleGotIp, HandleDisconnected, Handled, Join, Console, JoinLock, JoinStop,
           JoinConfig, JoinStart, JoinEnd, PushButton, Blink, Sample, Restart, JoinAborts, Reboot
  <2> QED
    BY <2>1, <2>2, <2>3, <2>4 DEF Quiet
<1>2. All
  BY <1>1 DEF Shown, All
<1>3. ASSUME \/ UNCHANGED vars \/ PushButton \/ Sample
             \/ \E s \in Networks : Join(s)
             \/ JoinLock \/ JoinConfig \/ JoinEnd
      PROVE  All'
  <2>1. UNCHANGED <<driver, link, events, handling, blinking, lit>>
    BY <1>3 DEF vars, PushButton, Sample, Join, JoinLock, JoinConfig, JoinEnd, wifi, loop, led
  <2>2. join'.pc \in {"config", "start"} <=> join.pc \in {"config", "start"}
    <3>1. CASE UNCHANGED vars \/ PushButton \/ Sample
      BY <3>1 DEF vars, PushButton, Sample, console
    <3>2. CASE \E s \in Networks : Join(s)
      BY <3>2 DEF Join
    <3>3. CASE JoinLock \/ JoinConfig
      BY <3>3 DEF JoinLock, JoinConfig, Types, TypeOK
    <3>4. CASE JoinEnd
      BY <3>4 DEF JoinEnd, Idle
    <3> QED
      BY <1>3, <3>1, <3>2, <3>3, <3>4
  <2> QED
    BY <1>2, <2>1, <2>2, SameShown
<1> QED
  BY <1>1, <1>2, <1>3, LinkUpShown, TakeShown, StartShown, StopShown, GotIpShown,
     DisconnectedShown, JoinStopShown, JoinStartShown, RebootShown, BlinkShown
     DEF Next, EventLoop, Console, Restart, JoinAborts

\* When all events are handled the LED is steady exactly when the device is
\* connected, for any number of joins that overlap with the events of earlier
\* ones, as long as no access point was lost and no event given up
\* (eventHandler, network_manager.cpp:43-99).
THEOREM LedIsRight == Spec => []LedFollowsLink
<1>1. Types /\ Shown => LedFollowsLink
  <2> SUFFICES ASSUME Types, Shown, events = <<>>, handling = "none",
                      join.pc \in {"idle", "lock", "wait"},
                      losses = 0, drops = 0, link # "connecting"
               PROVE  (~blinking /\ lit) <=> link = "up"
    BY DEF LedFollowsLink
  <2>1. All /\ DOMAIN events = {}
    BY EmptySeq DEF Shown, Quiet, All
  <2>2. driver # "off"
    BY <2>1 DEF All, OffInJoin
  <2>3. CASE link = "up"
    BY <2>1, <2>3 DEF All, UpIsLast
  <2>4. CASE link = "down"
    <3>1. blinking
      BY <2>1, <2>2, <2>4 DEF All, OffInJoin, DownIsKnown, Pending, Types, TypeOK
    <3> QED
      BY <2>4, <3>1
  <2> QED
    BY <2>3, <2>4 DEF Types, TypeOK
<1> QED
  BY <1>1, InitTypes, InitShown, NextTypes, NextShown, PTL DEF Spec
=============================================================================
