-------------------------------- MODULE Boot --------------------------------
(***************************************************************************)
(* Starting the device, with a user at the USB console and clients on the  *)
(* network while it starts (main/main.cpp, debug_console/console.cpp,      *)
(* web_server/web_server.cpp and the constructors they call).              *)
(*                                                                         *)
(* app_main constructs one component after the other.  Each is a static of *)
(* its create(), so a thread that asks for one under construction waits    *)
(* for the guard of that static.  Commands, URI handlers and clients of the *)
(* broadcaster make themselves known from the constructor of their base    *)
(* class, before they can do what they are called for.  Four threads are   *)
(* followed through what is still `todo` for each: app_main's, the         *)
(* console's, the UART reader's and the web server's; the last two ask for *)
(* the broadcaster when bytes and web socket frames come.                  *)
(***************************************************************************)
EXTENDS Naturals, Sequences

CONSTANTS
    MaxKeys,    \* bound on what the user types, over all starts
    MaxTalks,   \* bound on messages from the UART, over all starts
    MaxVisits   \* bound on requests from the network

ASSUME BootAssumption == {MaxKeys, MaxTalks, MaxVisits} \subseteq Nat

Threads == {"main", "con", "rx", "httpd"}
Commands == {"help", "uart", "omap", "pyocd", "join", "info", "setting"}
Handlers == {"/binupload", "/", "/ws", "5555", "/log"}
Services == {"NetworkManager", "UartService"}
Proxies == {"DebugMsgRx", "DebugMsgTx"}
Clients == {"UartByPass", "WebLogSender", "LogFile"}

\* What the user can type: the whole line of a command, Enter, Ctrl+B.
Keys == Commands \cup {"enter", "ctrl+B"}

VARIABLES
    todo,       \* per thread, what its current function still does
    cmds,       \* mCmdList, in which a name stands only once
    seen,       \* per thread, the list as add found it
    mutex,      \* Console::mMutex: "free" or its owner
    uris,       \* handlers registered with the web server, and the probe's port
    whole,      \* commands and handlers whose constructors are through
    making,     \* services under construction (by app_main)
    made,       \* statics that exist
    wifi,       \* NetworkManager::init is through
    running,    \* proxies whose mRun is set
    mode,       \* of the console: "cable", "prompt", "run", "uart" or "pyocd"
    line,       \* what has been typed since the last line
    down,       \* the program has aborted
    half,       \* clients on DebugMsgRx's list without all of their members
    pending,    \* DebugMsgRx's mQueue holds a message
    keys, talks, visits

console == <<cmds, seen, mutex>>
statics == <<making, made, wifi, running>>
user == <<mode, line, keys>>
traffic == <<half, pending, talks, visits>>
vars == <<todo, console, uris, whole, statics, user, down, traffic>>

-----------------------------------------------------------------------------
(* What the functions do, in order *)

Do(op, of) == [op |-> op, of |-> of]

\* Cmd's constructor registers, then the derived one makes the object whole.
Command(c) == <<Do("lock", c), Do("push", c), Do("whole", c)>>

\* The same of UriHandler.
Handler(u) == <<Do("publish", u), Do("whole", u)>>

\* DebugMsgRx::create and DebugMsgTx::create: the static, then Task::start.
Proxy(p) == <<Do("create", p), Do("test", p), Do("assign", p)>>

\* Client's constructor enters the derived object into the list of DebugMsgRx.
Subscriber(c) == Proxy("DebugMsgRx") \o <<Do("subscribe", c)>>

\* NetworkManager::create().init()
Network ==
    <<Do("enter", "NetworkManager")>> \o Command("join") \o Command("info")
    \o <<Do("leave", "NetworkManager"), Do("init", "NetworkManager")>>

\* UartService::create(): the command is a member, the driver comes after it.
Uart ==
    <<Do("enter", "UartService")>> \o Command("setting")
    \o <<Do("thread", "rx")>> \o Proxy("DebugMsgTx")
    \o <<Do("leave", "UartService")>>

\* Ocd: ServerSocket's constructor starts the task that accepts, which calls
\* what PyOcdIoSocket and PyOcdServer have yet to construct.
Probe == Handler("5555")

\* Ota, IndexHandler, WsHandler, Ocd, FileServerHandler
Web == Handler("/binupload") \o Handler("/") \o Handler("/ws")
       \o Probe \o Handler("/log")

\* Mutant: app_main creates NetworkManager and does not initialise it.
AppMain_NoInit ==
    SelectSeq(Network \o Uart \o Web \o Subscriber("LogFile") \o <<Do("built", "LogFile")>>,
              LAMBDA d : d.op # "init")

\* app_main once the console is there; LogFile is the last.
AppMain == Network \o Uart \o Web \o Subscriber("LogFile") \o <<Do("built", "LogFile")>>

\* UartByPass: a client, a command, its queue, and LineEndMap in it.
ByPass == Subscriber("UartByPass") \o Command("uart") \o <<Do("built", "UartByPass")>>
          \o Command("omap")

\* UartRx::task and WsHandler::userHandler, which makes a WebLogSender.
Receiving == Proxy("DebugMsgRx") \o <<Do("write", "rx")>>
Frame == Subscriber("WebLogSender") \o <<Do("built", "WebLogSender")>>

\* Console::task between the first byte and the loop: Help, UartByPass,
\* PyOcdIoConsole, and the list of the commands.
ConsoleStart ==
    Command("help") \o ByPass \o Command("pyocd") \o <<Do("list", "help")>>

\* The part of excute that touches what is shared here.
Excute(c) ==
    CASE c = "join" ->
           <<Do("use", "NetworkManager"), Do("join", "NetworkManager")>>
      [] c = "setting" ->
           <<Do("use", "UartService"), Do("apply", "UartService")>>
      [] c = "help" -> <<Do("list", "help")>>
      [] OTHER -> <<>>

-----------------------------------------------------------------------------
Init ==
    /\ todo = [t \in Threads |-> IF t = "main" THEN AppMain ELSE <<>>]
    /\ cmds = {}
    /\ seen = [t \in Threads |-> {}]
    /\ mutex = "free"
    /\ uris = {}
    /\ whole = {}
    /\ making = {}
    /\ made = {}
    /\ wifi = FALSE
    /\ running = {}
    /\ mode = "cable"
    /\ line = "empty"
    /\ down = FALSE
    /\ half = {}
    /\ pending = FALSE
    /\ keys = 0
    /\ talks = 0
    /\ visits = 0

\* Thread t is about to do this, and has done it.
Now(t, op, of) == ~down /\ todo[t] # <<>> /\ Head(todo[t]) = Do(op, of)
Did(t) == todo' = [todo EXCEPT ![t] = Tail(@)]

\* A pure virtual call, a failed ESP_ERROR_CHECK or std::terminate.
Abort == down' = TRUE
-----------------------------------------------------------------------------
(* The console's list *)

\* Mutant: add reads and extends the list without the mutex.
Lock_None(t, c) ==
    /\ Now(t, "lock", c)
    /\ seen' = [seen EXCEPT ![t] = cmds]
    /\ Did(t)
    /\ UNCHANGED <<cmds, mutex, uris, whole, statics, user, down, traffic>>

\* Console::add takes the mutex and looks through the list.
Lock(t, c) ==
    /\ Now(t, "lock", c)
    /\ mutex = "free"
    /\ mutex' = t
    /\ seen' = [seen EXCEPT ![t] = cmds]
    /\ Did(t)
    /\ UNCHANGED <<cmds, uris, whole, statics, user, down, traffic>>

\* The list it found is extended, and the mutex is free.
Push(t, c) ==
    /\ Now(t, "push", c)
    /\ cmds' = seen[t] \cup {c}
    /\ seen' = [seen EXCEPT ![t] = {}]
    /\ mutex' = "free"
    /\ Did(t)
    /\ UNCHANGED <<uris, whole, statics, user, down, traffic>>

\* Console::help calls every listed command, under the recursive mutex.
List ==
    /\ Now("con", "list", "help")
    /\ mutex \in {"free", "con"}
    /\ \/ cmds \subseteq whole /\ UNCHANGED down
       \/ ~(cmds \subseteq whole) /\ Abort
    /\ Did("con")
    /\ UNCHANGED <<console, uris, whole, statics, user, traffic>>

-----------------------------------------------------------------------------
(* Statics and objects *)

\* A command's or a handler's own constructor runs.
Whole(t, o) ==
    /\ Now(t, "whole", o)
    /\ whole' = whole \cup {o}
    /\ Did(t)
    /\ UNCHANGED <<console, uris, statics, user, down, traffic>>

\* WebServer::add: the handler is called from now on.
Publish(u) ==
    /\ Now("main", "publish", u)
    /\ uris' = uris \cup {u}
    /\ Did("main")
    /\ UNCHANGED <<console, whole, statics, user, down, traffic>>

\* app_main takes the guard of a static, and gives it back.
Enter(s) ==
    /\ Now("main", "enter", s)
    /\ making' = making \cup {s}
    /\ Did("main")
    /\ UNCHANGED <<console, uris, whole, made, wifi, running, user, down, traffic>>

Leave(s) ==
    /\ Now("main", "leave", s)
    /\ making' = making \ {s}
    /\ made' = made \cup {s}
    /\ Did("main")
    /\ UNCHANGED <<console, uris, whole, wifi, running, user, down, traffic>>

InitNetwork ==
    /\ Now("main", "init", "NetworkManager")
    /\ wifi' = TRUE
    /\ Did("main")
    /\ UNCHANGED <<console, uris, whole, making, made, running, user, down, traffic>>

\* UartRx's thread begins; its first byte is Talk.
StartRx ==
    /\ Now("main", "thread", "rx")
    /\ made' = made \cup {"rx"}
    /\ Did("main")
    /\ UNCHANGED <<console, uris, whole, making, wifi, running, user, down, traffic>>

\* The static of a proxy, made by whoever asks first.
Create(t, p) ==
    /\ Now(t, "create", p)
    /\ made' = made \cup {p}
    /\ Did(t)
    /\ UNCHANGED <<console, uris, whole, making, wifi, running, user, down, traffic>>

\* Task::start reads mRun, which no lock protects.
Test(t, p) ==
    /\ Now(t, "test", p)
    /\ todo' = [todo EXCEPT ![t] = IF p \in running THEN Tail(Tail(@)) ELSE Tail(@)]
    /\ UNCHANGED <<console, uris, whole, statics, user, down, traffic>>

\* Assigning to a thread that is joinable ends the program.
Assign(t, p) ==
    /\ Now(t, "assign", p)
    /\ running' = running \cup {p}
    /\ \/ p \notin running /\ UNCHANGED down
       \/ p \in running /\ Abort
    /\ Did(t)
    /\ UNCHANGED <<console, uris, whole, making, made, wifi, user, traffic>>

-----------------------------------------------------------------------------
(* Clients of DebugMsgRx *)

Subscribe(t, c) ==
    /\ Now(t, "subscribe", c)
    /\ half' = half \cup {c}
    /\ Did(t)
    /\ UNCHANGED <<console, uris, whole, statics, user, down, pending, talks, visits>>

\* The members its writeStr uses are made.
Built(t, c) ==
    /\ Now(t, "built", c)
    /\ half' = half \ {c}
    /\ Did(t)
    /\ UNCHANGED <<console, uris, whole, statics, user, down, pending, talks, visits>>

\* UartRx has made a message of what it read.
Write ==
    /\ Now("rx", "write", "rx")
    /\ pending' = TRUE
    /\ Did("rx")
    /\ UNCHANGED <<console, uris, whole, statics, user, down, half, talks, visits>>

\* DebugMsgRx::task hands the message to all clients.  One whose constructor
\* is not over has Client's writeStr, which does nothing, or already its own,
\* which uses a queue or a socket it has not got.
Broadcast ==
    /\ ~down
    /\ pending
    /\ "DebugMsgRx" \in running
    /\ pending' = FALSE
    /\ \/ UNCHANGED down
       \/ half # {} /\ Abort
    /\ UNCHANGED <<todo, console, uris, whole, statics, user, half, talks, visits>>

-----------------------------------------------------------------------------
(* The console's loop *)

\* The console's thread is waiting and n keys are typed.
Read(n) ==
    /\ ~down
    /\ todo["con"] = <<>>
    /\ keys + n <= MaxKeys
    /\ keys' = keys + n

\* Whatever comes first over USB shows that a cable is there.
Attach ==
    /\ mode = "cable"
    /\ Read(1)
    /\ mode' = "prompt"
    /\ todo' = [todo EXCEPT !["con"] = ConsoleStart]
    /\ UNCHANGED <<console, uris, whole, statics, line, down, traffic>>

\* Text goes to the end of the line; two words make no command.
Type(k) ==
    /\ mode = "prompt"
    /\ k # "enter"
    /\ Read(1)
    /\ line' = IF line = "empty" THEN k ELSE "garbage"
    /\ UNCHANGED <<todo, console, uris, whole, statics, mode, down, traffic>>

\* Enter on an unknown command, or on nothing: the help.
EnterUnknown ==
    /\ mode = "prompt"
    /\ line \notin cmds
    /\ mutex = "free"
    /\ Read(1)
    /\ line' = "empty"
    /\ todo' = [todo EXCEPT !["con"] = <<Do("list", "help")>>]
    /\ UNCHANGED <<console, uris, whole, statics, mode, down, traffic>>

\* Enter on a command: it is called under the mutex.
EnterCommand ==
    /\ mode = "prompt"
    /\ line \in cmds
    /\ mutex = "free"
    /\ Read(1)
    /\ mutex' = "con"
    /\ mode' = IF line \in {"uart", "pyocd"} THEN line ELSE "run"
    /\ todo' = [todo EXCEPT !["con"] = Excute(line)]
    /\ \/ line \in whole /\ UNCHANGED down
       \/ line \notin whole /\ Abort
    /\ UNCHANGED <<cmds, seen, uris, whole, statics, line, traffic>>

\* create() of a service that app_main is constructing waits for the guard.
Use(s) ==
    /\ Now("con", "use", s)
    /\ s \in made
    /\ Did("con")
    /\ UNCHANGED <<console, uris, whole, statics, user, down, traffic>>

\* esp_wifi_stop fails as long as esp_wifi_init has not run; later the driver
\* may still refuse a call of join.
JoinNetwork ==
    /\ Now("con", "join", "NetworkManager")
    /\ \/ wifi /\ UNCHANGED down
       \/ Abort
    /\ Did("con")
    /\ UNCHANGED <<console, uris, whole, statics, user, traffic>>

\* UartService::init, which aborts if the driver refuses the baud rate.
Apply ==
    /\ Now("con", "apply", "UartService")
    /\ \/ UNCHANGED down
       \/ Abort
    /\ Did("con")
    /\ UNCHANGED <<console, uris, whole, statics, user, traffic>>

\* Mutant: the mutex stays with the console after a command.
Return_KeepsMutex ==
    /\ ~down
    /\ mode = "run"
    /\ todo["con"] = <<>>
    /\ mode' = "prompt"
    /\ line' = "empty"
    /\ UNCHANGED <<todo, console, uris, whole, statics, keys, down, traffic>>

\* The command is through.
Return ==
    /\ ~down
    /\ mode = "run"
    /\ todo["con"] = <<>>
    /\ mutex' = "free"
    /\ mode' = "prompt"
    /\ line' = "empty"
    /\ UNCHANGED <<todo, cmds, seen, uris, whole, statics, keys, down, traffic>>

\* UartByPass::excute and PyOcdIoConsole::excute hold the mutex until they are
\* left; what is typed goes to DebugMsgTx, or to the probe's parser.
Pass(k) ==
    /\ mode \in {"uart", "pyocd"}
    /\ mode = "uart" => k # "ctrl+B"
    /\ Read(1)
    /\ todo' = [todo EXCEPT !["con"] =
                   IF mode = "uart" THEN Proxy("DebugMsgTx") ELSE <<>>]
    /\ UNCHANGED <<console, uris, whole, statics, mode, line, down, traffic>>

\* excute returns at Ctrl+B, that of `pyocd` only if it comes in one read with
\* just one more byte.
Escape ==
    /\ \/ mode = "uart" /\ Read(1)
       \/ mode = "pyocd" /\ Read(2)
    /\ mode' = "run"
    /\ UNCHANGED <<todo, console, uris, whole, statics, line, down, traffic>>

-----------------------------------------------------------------------------
(* The UART, the network, and starting again *)

\* Bytes from the UART: UartRx::task calls DebugMsgRx::create.
Talk ==
    /\ ~down
    /\ "rx" \in made
    /\ talks < MaxTalks
    /\ todo["rx"] = <<>>
    /\ talks' = talks + 1
    /\ todo' = [todo EXCEPT !["rx"] = Receiving]
    /\ UNCHANGED <<console, uris, whole, statics, user, down, half, pending, visits>>

\* A request, or a connection to the probe, calls a virtual function; the first
\* frame of a web socket makes a client of the broadcaster.
Visit(u) ==
    /\ ~down
    /\ wifi
    /\ u \in uris
    /\ todo["httpd"] = <<>>
    /\ visits < MaxVisits
    /\ visits' = visits + 1
    /\ \/ u \notin whole /\ Abort /\ UNCHANGED todo
       \/ /\ u \in whole
          /\ u = "/ws"
          /\ todo' = [todo EXCEPT !["httpd"] = Frame]
          /\ UNCHANGED down
    /\ UNCHANGED <<console, uris, whole, statics, user, half, pending, talks>>

Restart ==
    /\ down
    /\ todo' = [t \in Threads |-> IF t = "main" THEN AppMain ELSE <<>>]
    /\ cmds' = {}
    /\ seen' = [t \in Threads |-> {}]
    /\ mutex' = "free"
    /\ uris' = {}
    /\ whole' = {}
    /\ making' = {}
    /\ made' = {}
    /\ wifi' = FALSE
    /\ running' = {}
    /\ mode' = "cable"
    /\ line' = "empty"
    /\ down' = FALSE
    /\ half' = {}
    /\ pending' = FALSE
    /\ UNCHANGED <<keys, talks, visits>>

-----------------------------------------------------------------------------
Step(t) ==
    \/ \E c \in Commands : Lock(t, c) \/ Push(t, c)
    \/ \E o \in Commands \cup Handlers : Whole(t, o)
    \/ \E p \in Proxies : Create(t, p) \/ Test(t, p) \/ Assign(t, p)
    \/ \E c \in Clients : Subscribe(t, c) \/ Built(t, c)

Main ==
    \/ Step("main")
    \/ \E u \in Handlers : Publish(u)
    \/ \E s \in Services : Enter(s) \/ Leave(s)
    \/ InitNetwork
    \/ StartRx

Con ==
    \/ Step("con")
    \/ List \/ JoinNetwork \/ Apply \/ Return
    \/ \E s \in Services : Use(s)

Rx == Step("rx") \/ Write

User == Attach \/ EnterUnknown \/ EnterCommand \/ Escape
        \/ \E k \in Keys : Type(k) \/ Pass(k)

Next ==
    \/ Main \/ Con \/ Rx \/ Step("httpd")
    \/ User \/ Talk \/ Broadcast
    \/ \E u \in Handlers : Visit(u)
    \/ Restart

(* The threads run and the device starts again after an abort.  The mutex goes
   to who waits for it.  Nobody has to type, to talk or to visit. *)
Fairness ==
    /\ SF_vars(Main)
    /\ SF_vars(Con)
    /\ WF_vars(Rx)
    /\ WF_vars(Step("httpd"))
    /\ WF_vars(Restart)

Spec == Init /\ [][Next]_vars
FairSpec == Spec /\ Fairness

-----------------------------------------------------------------------------
(* Properties *)

Booted == todo["main"] = <<>>

\* Every variable keeps to its type (console.hpp, web_server.hpp, task.hpp).
TypeOK ==
    /\ \A t \in Threads :
          \A i \in 1..Len(todo[t]) :
             todo[t][i].of \in Commands \cup Handlers \cup Services
                               \cup Proxies \cup Clients \cup {"rx"}
    /\ cmds \subseteq Commands
    /\ seen \in [Threads -> SUBSET Commands]
    /\ mutex \in {"free", "main", "con"}
    /\ uris \subseteq Handlers
    /\ whole \subseteq Commands \cup Handlers
    /\ making \cup made \subseteq Services \cup Proxies \cup {"rx"}
    /\ wifi \in BOOLEAN
    /\ running \subseteq Proxies
    /\ mode \in {"cable", "prompt", "run", "uart", "pyocd"}
    /\ line \in Commands \cup {"ctrl+B", "empty", "garbage"}
    /\ down \in BOOLEAN
    /\ half \subseteq Clients
    /\ pending \in BOOLEAN
    /\ keys \in 0..MaxKeys
    /\ talks \in 0..MaxTalks
    /\ visits \in 0..MaxVisits

\* Two threads register commands at the same time, and none gets lost: once
\* both are through, the console knows every command (Console::add,
\* console.cpp:121).
CommandsComplete ==
    (Booted /\ mode # "cable" /\ (todo["con"] = <<>> \/ mode # "prompt") /\ ~down)
    => cmds = Commands

\* A thread has found mRun unset and is about to assign the proxy's thread.
Racing == \E t \in Threads : todo[t] # <<>> /\ Head(todo[t]).op = "assign"

\* A client may be called for a message before its members are made.
CallsHalf == pending /\ half # {}

\* A driver may refuse what a command has it do.
Refusing ==
    \/ Now("con", "apply", "UartService")
    \/ wifi /\ Now("con", "join", "NetworkManager")

\* A command or a handler that is called before it is whole, a join before the
\* driver is initialised, a thread started twice: all of this can abort the
\* program while app_main runs (console.cpp:44, network_manager.cpp:162,
\* task.cpp:51).  Once it is through no race for a thread begins, and what can
\* still abort is a message that meets a new client, made by a browser or with
\* the console (msg_proxy.cpp:31), and a command that a driver refuses.
AbortsOnceBooted ==
    [][/\ down' /\ ~down => ~Booted \/ Racing \/ CallsHalf \/ Refusing
       /\ Booted /\ ~Racing => ~Racing' \/ ~Booted']_vars

\* The lock order nobody wrote down: `join` runs under the console's mutex and
\* waits for the guard that app_main holds while it registers `info`.
JoinDeadlock ==
    /\ mutex = "con"
    /\ Now("con", "use", "NetworkManager")
    /\ Now("main", "lock", "info")

\* The device comes up whatever is typed meanwhile, except that a user in the
\* by-pass keeps it waiting and that a `join` can lock up with app_main.
ComesUp == []<>(Booted \/ mode \in {"uart", "pyocd"} \/ JoinDeadlock)
=============================================================================
