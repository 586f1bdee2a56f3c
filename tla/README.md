# Verification of the wifi_debugger firmware

TLA+ models of the wifi_debugger firmware (an ESP32 that puts a UART and an SWD port
on WiFi), the TLC runs that check them on small instances, and TLAPS proofs of
what matters most. Paths below are relative to `src/components/` unless they
begin with `src/`.

Contents: [the system](#the-system), [the modules](#the-modules),
[the runs](#the-runs), [fairness](#fairness), [what is proved](#what-is-proved),
[disagreements found](#disagreements-found), [what is not
modelled](#what-is-not-modelled), [plan](#plan).

## The system

The firmware is C++ on FreeRTOS (ESP-IDF). `src/main/main.cpp` creates the
components in this order: Status LED, Console, NetworkManager, UartService, Ota
(which at once looks for an update), time, the web handlers, the debug probe,
the file server and the log file. From then on these threads run:

| thread | where | what it does |
|---|---|---|
| UartRx | `logger/uart.cpp` | reads the UART, cuts lines, writes to DebugMsgRx |
| DebugMsgRx | `logger/msg_proxy.cpp` | pops messages, hands each to every client |
| DebugMsgTx | `logger/msg_proxy.cpp` | the same towards the UART |
| web server | ESP-IDF httpd | web socket frames, uploads, files |
| LogFile | `logger/log_file.cpp` | writes messages to the SD card |
| Console | `debug_console/console.cpp` | reads commands from USB and runs them |
| UartByPass | `debug_console/uart_bypass.cpp` | copies messages to USB |
| event loop | ESP-IDF | calls NetworkManager's event handler |
| socket server | `ocd/libs/socket`, `ocd/pyocd_server` | pyOCD's remote probe |
| timer task | ESP-IDF | LED blinking, delayed restart, button |

### Components

Each with its state, its operations, those it works with, what is hard about it
and what makes it correct.

**BlockingQueue** (`blocking_queue/include/blocking_queue.hpp`). State: a deque,
its capacity, a mutex, two condition variables. Operations: `push` and `pop`
with a timeout (one wait, then one more test), `front` (waits without a timeout and
leaves the head in the deque; nobody calls it), and reads of size and emptiness. Every other component passes messages through it. Hard: what happens
between a notification and the waking, timeouts, several producers and
consumers. Correct if it is a bounded FIFO that refuses only when full or empty and
wakes whoever can go on.

**Broadcaster and clients** (`logger/msg_proxy.cpp`, `logger/logger_web.cpp`).
State: a queue of messages, a list of clients, per client a socket. Operations:
`write`, `task` (time stamp, then text, to all clients; deletion of those that
failed), `addClient`/`removeClient` from constructors and destructors, `isAdded`,
and a web socket's frames, which register a `WebLogSender`. Hard: the receiving
task walks the list without the mutex that registration takes, clients are on
the list before they are fully constructed, and socket numbers are reused.
Correct if no deleted client is reached, no browser is served twice or skipped,
and every message reaches the end of the list.

**UART** (`logger/uart.cpp`, `esp-idf-cpp/task.cpp`). State: the driver, the reader
thread and its flag, its buffer and `newLine`, the client that writes. Operations:
the read loop, `writeStr`, the `setting` command, which deletes and reinstalls the
driver and replaces reader and writer while both are in use. Hard: calls under
way in a deleted driver, `-1` taken for a length, the thread stopped by a base
class's destructor, a baud rate the driver refuses. Correct if a change of baud
rate ends with one reader, loses nothing after it, and cannot make the device
crash at every start.

**Log file** (`logger/log_file.cpp`). State: its own queue, the open file, twelve
hours' expiry. Operations: `writeStr` on the broadcaster's thread (never waits),
`task`: wait for the time, create, write, rotate, flush when the queue is empty.
Hard: a full queue, a card error in the middle of a rotation, or in a flush or a close
whose result nobody reads, power failing before a flush. Correct if what was accepted is
on the card in order, or was refused by it, and is durable once the queue has been
emptied and the flush has succeeded.

**Firmware update** (`ota/bin_upload.cpp`, `ota/ota.cpp`). State: the file on the
card, the two slots and the boot selection in flash, a restart timer.
Operations: an upload, received piece by piece; `Ota::update` at start: check,
flash, select, remove, restart. Hard: power cuts and errors at any step, uploads
while `update` runs, files that are left. Correct if the device can always boot
and what was uploaded with success is what runs in the end.

**Network manager** (`networ_manager/network_manager.cpp`). State: the driver's
configuration and mode, the connected bit of an event group, the LED.
Operations: event handler, `init`, `join`, the `join` and `info` commands, the
pairing button. Hard: events queued before a join and handled during or after
it, an event given up because the mutex was not free for two seconds, the bit
that is never cleared. Correct if a join's answer is true, and the device ends
connected with the LED saying so.

**Debug probe** (`ocd/`). State: the server's connection, the request being
parsed, the target's debug port, the direction of the data pin. Operations:
accept, receive, 32 kinds of request, those that reach the target each a sequence
of SWD transfers, an answer.
Hard: posted writes and pipelined reads, errors that stick, loss of the target
between two transfers, a missing acknowledgement, the end of a connection.
Correct if an answer of success is true, an error is reported as what it is, and
an answer comes.

**By-pass** (`debug_console/uart_bypass.cpp`). State: a queue, a task that prints it,
whatever stdout buffers; and the keys typed in the `uart` mode. Operations: `writeStr` on
the broadcaster's thread, which waits 10 ms for room, the task's print and flush, the
`uart` command, which sends each key to DebugMsgTx. Hard: a host that stops reading
while the same thread serves the log and the browsers; texts queued while the UART is
set up anew. Correct if the host gets what was taken, once and in order, and holds up nobody.

**Console and commands** (`debug_console/`). State: a list of commands under a
mutex. Operations: registration from constructors, the read loop, commands run
under the mutex. Hard: a command that runs for ever (`uart`) while components
register; a lock order with the guards of function statics.

**Web server, URI handlers** (`web_server/`): registration from constructors;
otherwise request by request.

**File server** (`logger/file_server.cpp`). State: for one request, an open file and how much
of it was sent. Hard: the file is the one the log writer is adding to, and a connection may
fail at each chunk. Correct if what is served stays and every file is closed.

**Storage** (`storage/`). State: whether the one attempt to mount succeeded, the files open
(five at most, of all users together), the settings in NVS. Correct if no file leaks.

**Status, Led, Button, SWTimer** (`io/`, `esp-idf-cpp/sw_timer.cpp`): a LED blinked
by a timer whose callback is replaced while it may run; a button with press
times. **Web commands** (`logger/cmd.cpp`): a frame that begins with byte 17 asks for
the UART settings, and the answer is made from `mConfig`, which a change of the baud rate
sets before the driver has accepted it.

### Interactions

UartRx → DebugMsgRx → {browsers, LogFile, UartByPass}; browsers, the console and
web commands → DebugMsgTx → UartTx. All arrows into a proxy, and those into LogFile and
UartByPass, are BlockingQueues. Clients register with a proxy from whatever
thread creates them. `setting` (console) restarts the UART's tasks.
The file server and LogFile share the card and its five files.
Web uploads leave a file for the next start's `Ota::update`. The pyOCD server
works with the SWD pins only.

## The modules

| module | models | extends / uses |
|---|---|---|
| `BoundedFifo` | what a user of BlockingQueue relies on (abstract) | |
| `BlockingQueue` | the queue, lock by lock | refines `BoundedFifo` |
| `MsgProxy` | DebugMsgRx, its list, web socket senders | its queue is a buffer as in `BoundedFifo` |
| `UartService` | UartRx, UartTx, `setting`, boot with the saved rate | its messages go to `MsgProxy`'s `Write` |
| `Transmit` | keys and browsers' frames, DebugMsgTx's queue and task, the settings told | composes with `UartService` (EXTENDS, refines it) |
| `Storage` | the card: mounting, files open, errors | |
| `Journal` | what a reader of the log may rely on (abstract) | |
| `LogFile` | a client's queue and the writer task | extends `Storage`, refines `Journal` |
| `FileServer` | downloads | extends `Storage` |
| `ByPass` | the by-pass's queue and task, with a host that may stop reading | |
| `Terminal` | DebugMsgRx and its clients on one thread | composes `LogFile`, `ByPass` and `FileServer` (EXTENDS, refines `LogFile`) |
| `Ota` | upload and update | |
| `StatusLed`, `PairButton` | the LED and its timer; the button, sampled | |
| `NetworkManager` | events, joins, pairing, restart | composes with both (EXTENDS) |
| `Swd` | the SWD host's transfers and an ADIv5 target | |
| `RemoteProbe` | socket server and requests | composes with `Swd` (EXTENDS) |
| `Boot` | `app_main`, registrations, the console and the first callers while it runs | |
| `BlockingQueueProofs`, `MsgProxyProofs`, `UartServiceProofs`, `TerminalProofs`, `OtaProofs`, `NetworkManagerProofs`, `BootProofs`, `RemoteProbeProofs` | theorems, of the module named and of those it extends (`UartServiceProofs` also of `Transmit`) | extend `TLAPS` |

`MC*` modules say which instance the `.cfg` of the same name describes.
Operators named `X_something`, each with a comment "Mutant", are plausible bugs
in `X` that no specification uses; replacing `X` by one must break a property.

### How state and actions correspond to the code

*BlockingQueue.* `mutex` and `pc[t]` follow each thread through the lock, the
wait and the test after it; `full_wait` and `empty_wait` are the wait sets. `Lock`
is any acquisition, `Timeout` and `SpuriousWake` the two other ways out of a
wait. `PopFront` and `PopRemove` are two steps, since `pop` takes the head (hpp:73)
before it removes it; `FrontTake` is hpp:87. Messages are numbers in the order of their
pushes. What a head that `front` has moved from still contains depends on the type of the
messages (`Msg` is copied, `std::vector` is moved), and is left out: nobody calls `front`.

*MsgProxy.* `at`, `pos`, `piece` are the walk: `SendToNext` is one client's
`writeTimeStamp` or `writeStr`, `EndOfList`, `DeleteFailed` and `PieceDone` follow
`sendTimeStamp`/`sendStr` and `task`. `web.pc` is the handler's place in the
construction of a `WebLogSender`: `ConstructClient` puts it on the list,
`ConstructVtable` and `ConstructFields` complete it. What a half-built object does
when reached is nondeterministic. `sock[f]` says which connection a number
belongs to; `fdOf` is the number an object believes in.

*UartService.* `reader[l]` is the thread of the l-th `UartRx`; `con` walks through
`UartService::init`, which the constructor runs at boot and the `setting` command
later. Bytes are numbered and know only whether they end a line. `DeleteDriver`
turns calls under way into `torn` ones. A torn read comes back or crashes the device; a torn
write does, or stays where it is, since without a buffer for sending `uart_write_bytes` waits
for the FIFO with no time limit (`uart.cpp:170`). `Crash` restarts the device with the saved baud
rate (`ReadRate`), or with `Default` if Setting cannot read it; `Save` may fail, which is
only logged (`storage/setting.cpp:50`). `unsaved` remembers such a failure.

*Transmit.* `FromKey` and `FromBrowser` are the two callers of DebugMsgTx's `write`
(`PushText`, which a full queue makes give up). A text is a number, or `Empty`: the key NUL and
an empty frame push texts without bytes, which take a place in the queue and are
skipped by `task`. `TakeText` is the pop and the walk over the list, which holds `UartTx` or
nothing; `TextSent` and `TextTorn` are the ends of `uart_write_bytes`. `typing` is the console's
thread in the `uart` mode, during which it runs no `setting`. `Answer` is the rate a browser
is told: `want`, for `getCfg` returns what `init` has set first of all. A crash empties the queue
(`FreshIfCrashed`).

*Storage, LogFile.* `handles` counts the files each user of the card has open. `WriteStr` is
the client's push with no wait; a stamp and its text are two pushes, so a stamp may stay
without its line. `Rotate` closes the old file and `NextFile` makes the new one; a file that
could not be created leaves `open` false and messages popped meanwhile are `skipped`. stdio buffers,
so that an error of the card shows at any of `fwrite`, `fflush`, `fsync` and `fclose`, and none of their results
is read: `WriteMessage`, `FlushFile` and `CloseFile` may each lose any part of what was not durable, which
goes to `failed`, and after such a refusal (`failing`) the card may go on refusing. Without a card the
task is never started (`pc = "off"`), and the queue fills. `card` is all files in a row,
`durable` how much of it a power cut leaves at least. `Elsewhere` is what the card's other
users may do.

*FileServer.* `OpenForRead` is a request up to the successful `fopen`, `SendChunk` one round of
the loop with its three ends: the last chunk, an error of the card, which `fread`'s result does
not tell from the end of the file, and a connection that fails. A reader finds what had been
flushed when it opened the file.

*ByPass.* `HearText` is `writeStr` with its 10 ms, `PopText` and `PrintText` the task's two
halves. stdout keeps what is printed (`buffered`) until its buffer is full or it is flushed,
which the task does only at an empty queue. Nothing but `HostReads`, an assumption of one
property, makes the task go on: a print waits for the host.

*Terminal.* `turn` is DebugMsgRx's iterator, `SendStamp` and `SendText` one client each; the host
may `Attach` before or after LogFile is made, so the by-pass is before or behind it in the list.
`LogStep`, `HostStep` and `Browse` are the other modules' actions with all else unchanged;
`Restart` is a power cut for all of them.

*Ota.* `pc` walks through `Ota::update`; `up` is the upload handler with the pieces
still to come. `file` is what the card holds, `opened` what `update` opened; `slot`
and `boot` are flash. `GoDown` is what both a restart and a power cut lose. An image
is `Full` pieces, a version and whether it is valid; `esp_ota_*` and the boot loader
are external: `esp_ota_end` and `esp_ota_set_boot_partition` validate, and may fail with
a valid image too. `fclose` at the end of an upload may lose the file's end, as its result is not read, and
`unlink` may fail, which leaves the file (`kept`).

*NetworkManager.* `events` is the queue of the event loop, `TakeEvent` its locking of
the mutex, `DropEvent` the two seconds passing, `Handle...` the branches of
`eventHandler`. `Join...` are the calls of `join` in order, under a mutex that its owner may
take again (`Lock`); each of them may be refused by the driver, and then ESP_ERROR_CHECK restarts the
device (`JoinAborts`). `LinkUp` and `LinkLost` are
the driver and the access point. The handlers call `StatusLed`'s operators where the code
calls `Status`; `Blink` is the LED's timer, `Sample` the button's. A long press runs
`removeProvision`, which takes no mutex, so a join under way can write its network back
between it and the `Restart` that ends it.

*Boot.* `todo[t]` lists what thread `t`'s current function still does, in the code's order:
`Command` and `Handler` are the constructors, which make an object known (`Lock` and
`Push`, `Publish`) before it is `Whole`; `Enter` and `Leave` are the guard of a function's
static; `Proxy` is a `create()` followed by `Task::start`, whose `Test` and `Assign` of
`mRun` are two steps. `mode` is where the console's loop is, and `mutex` its recursive
mutex, held for as long as a command runs. A client of the broadcaster is on its list
(`Subscribe`) before its members exist (`Built`); `half` holds those in between, and a message
that meets one (`Broadcast`) may abort. So may `setting` (`Apply`) and `join` when a driver refuses. Objects
called before they are whole, a join before `esp_wifi_init` and a thread assigned twice also set `down`,
after which `Restart` begins anew.

*Swd, RemoteProbe.* `todo` is the list of SWD transfers a request still needs (each
function of `Swd` is an operator that returns its transfers), and `Transfer` does one
of them against the target. The target's pipelined result, sticky error,
address increment and power are variables. The direction of the data pin is one
too, since `GpioSwd` leaves it wrong when nobody acknowledges. `Reply` and `Ignore`
are `endDocument`'s answer or its lack. `read_ap` and the two `*_multiple` requests go by the address
register, the bank and the increment as an earlier request has left them; `from` records how they found them, so
that the properties can say which words they are about. `swj_sequence` may put any bits on the wire: a line reset,
nonsense that the target loses its line over (`Garble`), or nothing it minds.

## The runs

All bounds are CONSTANTS; each counts events of the environment (uploads, cuts,
browsers, ...), none cuts a loop of the code short.

| run | instance | shows |
|---|---|---|
| `queue` | 2 producers, 1 consumer, 1 caller of `front`, capacity 2, 3 pushes | refinement of `BoundedFifo` (order, capacity, refusals), no lost wake-up, calls return |
| `proxy` | 2 sockets, 2 connections, 2 senders, 2 messages, queue of 1 | the walk reaches only live clients, one sender per socket, no gaps and no misses in what a client gets, the queue drains |
| `uart` | 2 good rates (one the default) and a refused one, Setting failing at will, reads of up to 2 bytes, 2 bytes, 2 settings, 2 texts, a queue of 1 | one reader, no byte lost or repeated between reads and lines, time stamps only at line starts, texts once and in turn, the settings told are those in force, crashes only during a setting, the change ends or a torn write holds it up |
| `log` | a log queue of 2, the broadcaster's and the by-pass's of 1, 2 texts with or without stamps, chunks of 2, 5 files, 1 rotation, 1 error, 1 power cut | refinement of `Journal`, every accepted message accounted for, and flushed when the writer is idle, the host in order and never in the way, downloads that stay, files given back |
| `ota` | 2 versions, images of 2 pieces, 2 uploads, 2 power cuts, 1 error | always bootable, only refused files (or ones that could not be unlinked) remain, no restart for ever once errors end, good uploads get installed |
| `wifi` | 1 network, 3 joins, 1 loss, 1 dropped event, 4 pushes or releases of the button, a long press of 2 samples | LED and link agree, a network is forgotten only after a long press, join returns, the device ends connected |
| `probe` | 3 words of memory, pages of 2, blocks of 1 and 2, 1 disturbance, 1 loss of power | every request the parser acts on; successes are true, leave no error, and an answer comes |
| `boot` | 6 keys, 1 start with UART traffic, 1 request | no command gets lost; what can abort after `app_main` is a half-built client and a refusing driver; it comes up |
| `ota_given`, `wifi_stale`, `wifi_again`, `probe_fault` | smaller instances of the same | see [disagreements found](#disagreements-found) |

Why the bounds are enough to be interesting: a queue of 2 with 3 pushes is full,
empty and between, and two producers can wait for it together while a consumer's
notification and a timeout race. Two connections on one socket number are what reuse
needs, two senders what the deletion of one beside another needs. Two uploads let the
second meet the leftovers of the first, two cuts let the recovery from one be cut
again. Three joins put stop and start events of two earlier ones before the
third. Reads of two bytes end in the middle of a line, at its end, and after
two lines at once, and reads of one cut between them. Two changes of the baud rate let the second
meet the leftovers of the first, and two texts for a queue of one leave one queued, or refused,
while the other is at the UART. Pages of two words in a memory of three let a block cross a page and
an access run off the end. Two texts with their stamps are four messages for a log queue of two,
which they overflow while the task holds one, and more than the by-pass's queue of one takes
while the host does not read. Of the five files one user never has more than one, so the limit
is not reached: `FilesGivenBack` is why. Four changes of the
button's pin are a short press followed by a long one and its end. Six keys attach the console, enter
and run a command, and leave a rest for the start after an abort.

Deadlock is checked in `queue`, `probe` and `probe_fault`. It is not where the
environment may stop for good (its bound reached and everything at rest) while
every thread properly waits for it: `proxy`, `uart`, `log`, `ota`, `wifi`, `boot`.
What must not get stuck is stated there as a liveness property. In `boot` a real
deadlock is among the outcomes, and `ComesUp` names it (`JoinDeadlock`).

Liveness under the bounds: `CallsReturn`, `Drains`, `InitReturns`,
`HostSeesAll`, `BroadcastGoesOn`, `Settles`, `GoodUploadInstalled`, `JoinReturns`, `EndsConnected`,
`Answered`, `ComesUp`. That what is written gets flushed in the end is not among them and not so: as long as messages
keep the queue from running dry, nothing is flushed before the file is closed (`logger/log_file.cpp:179`).

No run repeats what a theorem or another property says better. The type invariants are proved, and hold in
TLC on the runs' instances when they are added to the `.cfg`; so do the inductive invariants below. The queue's
`MutualExclusion`, `WithinCapacity` and
`FifoOrder` are proved: the first follows from the invariant's `HolderIsInside`, the others also
from the refinement. So are `CardInOrder`, which the refinement of `Journal` implies, and
`TxLostOnlyInInit`, which `TextsAccounted` says of each text.

## Fairness

- *BlockingQueue*: threads inside the queue go on (weak), timers fire (weak), and a
  FreeRTOS mutex goes to its waiter of highest priority that has waited longest,
  so nobody who keeps asking is passed over for ever (strong, all threads of the
  queue have one priority). No thread has to call, and nothing ends `front`'s wait.
- *MsgProxy, LogFile, Ota*: the tasks and the started handlers run; the power comes back;
  the timer fires. Browsers and uploads owe nothing.
- *Terminal*: the broadcaster's task and the log's run. The by-pass's task has no fairness, for it may
  wait for the host as long as the host likes; `BroadcastGoesOn` holds in spite of
  it, and `HostSeesAll` has its fairness as a premise. Downloads owe nothing.
- *UartService*: the reader runs, calls of a driver that is there return (reads after a tick, writes
  when the bytes are out), and `init`, which waits for the reader's exit and for the
  proxy's mutex, gets that mutex when it is free again and again (strong, as above). Nothing makes a
  write come back whose driver was deleted under it; then `removeClient` waits for DebugMsgTx's mutex for ever, and
  the console with it, which `InitReturns` excepts by name (`con = "untx"` and `proxy = "torn"`). In `Transmit` DebugMsgTx's task
  runs too.
- *NetworkManager*: both threads run and the mutex passes to who waits for it (strong);
  a connection attempt ends; a restart that has begun comes; a finger on the button is lifted in the
  end, without which the samples of one press would go on for ever. Otherwise the user and the access
  point owe nothing.
- *Boot*: `app_main` and the console run and get the console's mutex when it is free again
  and again (strong), the other threads run, the device starts again after an abort.
  Nobody has to type, to send over the UART or to visit.
- *RemoteProbe*: the server task runs and the target does not answer Wait for
  ever. `gpio_swd.cpp:148` repeats on Wait without a limit, so without this
  nothing could be promised.

## What is proved

With TLAPS, for every value of the constants. Every invariant and every action property that a run checks is
among them, and both refinements.

| theorem | says |
|---|---|
| `BlockingQueueProofs!TypeCorrect` | `Spec => []TypeOK` |
| `...!Exclusion` | `Spec => []MutualExclusion` |
| `...!CapacityKept` | `Spec => []WithinCapacity` |
| `...!OrderKept` | `Spec => []FifoOrder` |
| `...!WakeupsKept` | `Spec => []NoLostWakeup` |
| `...!Refinement` | `Spec => ImplementsFifo` |
| `MsgProxyProofs!TypeCorrect` | `Spec => []TypeOK` |
| `...!WalkIsSafe` | `Spec => []ListIsAlive` |
| `...!OneSender` | `Spec => []OneSenderPerSocket` |
| `...!Gapless` | `Spec => []NoGaps` |
| `...!NothingMissed` | `Spec => []Complete` |
| `OtaProofs!TypeCorrect` | `Spec => []TypeOK` |
| `...!BootableForever` | `Spec => []AlwaysBootable` |
| `...!LeftoversAreRefusals` | `Spec => []LeftoverWasRefused` |
| `TerminalProofs!TypeCorrect` | `Spec => []TypeOK`, the log writer's |
| `...!LogInOrder` | `Spec => []CardInOrder` |
| `...!IdleIsDurable` | `Spec => []DurableWhenIdle` |
| `...!EveryMessageAccounted` | `Spec => []Accounted` |
| `...!CardIsJournal` | `Spec => ImplementsJournal` |
| `...!TerminalIsLogFile` | `TerminalSpec => Spec`, the log writer's |
| `...!NoFileLost` | `TerminalSpec => []FilesGivenBack` |
| `...!DownloadsAreSafe` | `TerminalSpec => []DownloadSurvives` |
| `...!HostIsInOrder` | `TerminalSpec => []HostInOrder` |
| `UartServiceProofs!TypeCorrect` | `Spec => []TypeOK` |
| `...!ReaderIsAlone` | `Spec => []OneReader` |
| `...!NothingLostInCutting` | `Spec => []PiecesJoin` |
| `...!StampsAreRight` | `Spec => []StampsAtLineStarts` |
| `...!CrashesEnd` | `Spec => CrashOnlyInSetting` |
| `...!LossesEnd` | `Spec => TxLostOnlyInInit` |
| `...!TransmitIsUart` | `TransmitSpec => Spec`, the UART's |
| `...!SettingsInForce` | `TransmitSpec => []SettingsAgree` |
| `...!NoTextForgotten` | `TransmitSpec => []TextsAccounted` |
| `NetworkManagerProofs!TypeCorrect` | `Spec => []TypeOK` |
| `...!ForgetsWhenHeld` | `Spec => ForgetsOnlyWhenHeld` |
| `...!LedIsRight` | `Spec => []LedFollowsLink` |
| `RemoteProbeProofs!TypeCorrect` | `Spec => []TypeOK` |
| `...!ProbeInvariant` | `Spec => []Inv`, the inductive invariant |
| `...!ReadsReturnMemory` | `Spec => []ReadsAreTrue` |
| `...!WritesReachMemory` | `Spec => []WritesHappened` |
| `...!NoErrorBehind` | `Spec => []OkLeavesClean` |
| `BootProofs!TypeCorrect` | `Spec => []TypeOK` |
| `...!BootInvariant` | `Spec => []Inv`, the inductive invariant |
| `...!NoCommandForgotten` | `Spec => []CommandsComplete` |
| `...!SafeOnceBooted` | `Spec => AbortsOnceBooted` |

*The queue.* Assumed: `QueueAssumption` (the capacity and the bound on pushes are
natural numbers, producers, consumers and viewers are disjoint, `NoThread` is
none of them).
The properties are not inductive by themselves: that a push keeps within the
capacity rests on a test made some steps earlier. The inductive invariant `Inv`
adds `RoleOK` (a producer is never at a consumer's place), `HolderIsInside` (the mutex
belongs to exactly the thread in a critical section) and `TestStillHolds`
(what the holder has tested is still so: room before the append, a message
before the removal, and between the two steps of `pop` the head is the
message it took). One lemma per action shows that it keeps `Inv`. In the
refinement proof every action is shown to be a step of `BoundedFifo` (`PushPut`,
`PushRefuse`, `PopRemove`, `PopRefuse` and the calls) or to leave the abstract
variables alone, and `TestStillHolds` is what makes the abstract guards true.

*The broadcaster.* Assumed: `ProxyAssumption`. The walk takes no lock, and is safe for two reasons.
A client is deleted only by the thread that walks, at the end of its walk, and those it will delete
are on the list behind its iterator (`Walk`); others only append. And a client gets to be deleted only
when its own `writeStr` has run and failed, so never while the web server's thread is still in its base
class's constructor (`Unfinished`). `OneSenderPerSocket` also needs that the socket about to be registered
is on no client of the list, which `isAdded` has tested on the only thread that registers
(`SocketsApart`). `NoGaps` rests on `Flow`: each client on the list has passed on a run of the stream that
ends with the newest piece, or with the one before if the walk has not come to it, unless it is to be
deleted. `Complete` follows from `Flow` between two walks, when no client is to be deleted and the newest piece has
come to all.

*The update.* Assumed: `OtaAssumption`. `Inv` is the property, the types of the flash
variables, and `WritesElsewhere`: until the boot slot has been changed, the running
slot is the selected one, so what `update` overwrites is the other. The number
of uploads, cuts and errors does not matter.
`LeftoverWasRefused` needs that the decision to refuse was made about the file that stays. Uploads replace files while
`update` runs, but a file at rest that is not the one `update` opened has armed the timer, or its upload
failed; so at the check, the file that can stay is the one opened (`StillOpened`). A file whose `unlink` failed is the
exception, and the property's `kept`. That a file is at most an
image long needs `FileGrows`: what it lacks is still to be received.

*The log file.* Assumed: `LogAssumption`. That the card is in order is not inductive: the
next message written comes from the hand, and that one from the queue. `Order` says that
card, hand and queue are one ascending run that ends at the last message broadcast;
a refused push leaves a gap in it and no disorder, and a power cut a prefix of the
card's part. `Flushed` says that written messages are unflushed only while a file is open,
and never when the task waits at an empty queue and the card has not refused its last flush. Both rest on `TypeOK` and on `HandOK`
(there is a message in hand just between the pop and the write). The refinement maps every step to one of
`Journal` or to a stutter: a write adds an entry above all others by `Order`, a flush and a close that succeed make
all safe, and a call that fails loses an unsafe tail just as a power cut does. `Accounted` follows from `Order` and `Kept`: what is on the card
since the start, in hand and queued is, as a set, what was taken less what found no file or was refused by the
card, and of an ascending sequence the set says all.

*The terminal.* Assumed: the assumptions of its parts. Every step of the whole is one of the log writer or,
for it, `Elsewhere`, so `Terminal` implements `LogFile` and inherits its theorems. That needs the web
server's files to be counted right (`WebFiles`). `Download` says that the file served was opened at a length
that was durable, and that what was given is a prefix of the durable part, which the journal never takes back.
`HostInOrder` is inductive with the types of its four sequences.

*The UART.* Assumed: `UartAssumption`. The properties say what cannot happen while nobody is
in `init`, so `Inv` says where `init` is: the driver is away only between deletion and
installation (`DriverThere`), every reader but the last has ended and the last one too
before a new one starts (`OnlyLast`), the flag is down only while the thread is waited for
(`RunUp`), calls the driver was deleted under are back before their object is replaced, or it is not replaced
(`TornGone`), the writer is complete whenever `init` is through (`WriterThere`). `LifeCount`
ties the readers to the settings made, and `Boot` says that a start always uses a baud rate
the driver has accepted before, or the default, which is why a refused rate cannot make every start crash.
`Transmit` adds texts and takes nothing away, so it implements `UartService`; `SettingsAgree` follows from
`Inv` and `Agree`: whenever `init` is through, `mConfig` is what is saved, unless Setting failed last.

What is read is the subject of a second invariant, `CutInv`. The pieces joined and what is left in the buffer are the
bytes taken from the driver (`Joined`), for a reader still to be started as well, whose buffer is empty;
and `newLine` remembers how the last piece of its reader ended (`MarkNext`). Texts have a third, `TextInv`: those sent,
the one in hand and those queued are ascending in this order (`InTurn`), and as a set they are those queued ever but
the excused (`NoneMissing`). The types need two counts: a text lost is one sent that is not at the UART any more
(`LostCount`), and every crash takes a change of the baud rate of its own, because a start cannot crash (`CrashCount`).

*The network manager.* Assumed: `NetworkAssumption` and `ButtonAssumption`. `ForgetsOnlyWhenHeld` rests on
`Counted`: the time added up is that of one press. That the LED shows the link at rest is a matter of the
events still to be handled, because `join` posts stops and starts faster than the event loop takes them. As
long as nothing has been lost or dropped (`Quiet`), the station is off just inside `join` (`OffInJoin`), a stop
still to be handled has its start behind it (`StopThenStart`), while the link is up its report comes last
(`UpIsLast`), and while it is down a start is to come, or no report of a connection is (`DownIsKnown`).

*The probe.* Assumed: `SwdAssumption` (the last word, the page size and the bounds are numbers, a page is not empty,
there is data) and `ProbeAssumption` (no block is empty). `Inv` follows a memory access transfer by transfer;
`Done` is how many are done, and what is left is the rest of the list (`OnTheWay`). While the target has
power and no error sticks (`Good`), its registers are where the transfers have put them (`Selected`), a word read
waits in the target until the next read (`Fetched`, `Handed`), and a word written is in the memory (`Stored`). The host
does not know whether `Good` holds; only the last transfer, refused when an error sticks, makes it so for an
answer of success (`Clean`). A transfer that fails ends the list (`Stopped`). `read_ap` goes by the address
it finds (`ApRead`). The `*_multiple` requests are blocks without the four transfers that set the address up
(`Skipped`): where they start, and whether it is known (`Start`, `Known`), is what they found. That an address counts along just within a page is arithmetic modulo a number the solver does
not know, which `Remainder`, `Offset` and `NextWord` do by hand.

*The start.* Assumed: `BootAssumption` (the bounds are numbers). In all programs an operation that belongs behind
another stands right behind it (`Linked`), so who is about to extend the list of commands has just locked the
mutex and read the list (`ListOwner`), and runs no command in the console meanwhile (`ConsoleMode`). Whatever is
missing stands in a program that sees to it: a command (`Registered`), the end of a constructor (`GetsWhole`),
the network's driver and the proxies' threads (`GetsDone`). When `app_main` is through nothing of it is missing, so no command or handler is called before it is
whole, no `join` comes before `esp_wifi_init` and no thread is started twice; what has its guard still is a message
for a half-built client and a call that a driver refuses, and `AbortsOnceBooted` names them.

Induction over data is beyond the provers, and two proofs need some. `PiecesJoin` joins pieces with the library's
`FlattenSeq`, a recursive function; what an appended piece does to it follows from a smallest counterexample, a
set of numbers that has no least element being empty (`Smallest`, `Induct`). `Accounted` and
`TextsAccounted` say which elements a sequence has and in which order, where a filter of the library would be
opaque to the provers.

Only model-checked: liveness, which the provers do not reach (`CallsReturn`, `Drains`, `InitReturns`,
`HostSeesAll`, `BroadcastGoesOn`, `Settles`, `GoodUploadInstalled`, `JoinReturns`, `EndsConnected`, `Answered`,
`ComesUp`), and the four violations, of which the counterexample is the proof.

## Disagreements found

Each is a run in which TLC finds the property violated.

1. `wifi_stale`: `join` waits for a bit that nothing clears
   (`network_manager.cpp:171`), so after the first connection it reports "Connected"
   (line 225) for any network at once.
2. `wifi_again`: the branch that reconnects stands under a repeated
   condition (`network_manager.cpp:85`) and is never taken, against its own log
   line 90: nothing connects again once a connection has ended. TLC's trace is the shortest, a first
   connection that is refused, and the LED goes on blinking; after a loss it stays steady.
3. `probe_fault`: a missing acknowledgement is reported as "ACK FAULT received"
   (`pyocd_server.cpp:265`), and the data pin stays an input (`gpio_swd.cpp:142`).
4. `ota_given`: if writing the slot fails before its first sector is erased,
   `update` still selects it and boots the firmware that was in it, where
   `ota.hpp:35` promises the given file.
Further behaviour the properties are worded around, seen in the code and not
contradicted by any of its words: an upload that `update` refused stays on the card
and blocks every later upload (`LeftoverWasRefused`); `readMemory` leaves an error
behind at the last word (`OkLeavesClean`); a block across the target's 1 KB page is
transferred wrongly and with success (`ReadsAreTrue`); a change of baud rate may crash
the device (`CrashOnlyInSetting`); some requests get no answer (`Answered`); a browser whose
socket number belonged to a connection that has just failed is taken for registered
(`logger_web.cpp:125`) and gets no log until it sends another frame; a `join` typed while
`app_main` is about to register `info` locks both up, and `uart` typed while components are
still being made holds up the boot until Ctrl+B (`ComesUp`); objects can be called
before they are whole, which aborts, clients of the broadcaster also after the start (`AbortsOnceBooted`); a
write to the deleted driver can hold up the console for ever (`InitReturns`); a rate that NVS does not take is used and
forgotten at the next start (`SettingsAgree`); a card that refuses a flush or a close takes messages with it that nobody
misses (`Accounted`); a browser that asks while the baud rate
is being changed may be told one the driver then refuses (`SettingsAgree`); texts that DebugMsgTx comes upon
during a change are lost (`TextsAccounted`); an error of the card in the middle of a download ends it as if it
were complete (`file_server.cpp:121`).

Seen and not modelled: the console's VFS turns CR into LF, so that the modes `crlf` and `crcrlf` of `omap`, which
look for CR, never match Enter; the help text (`uart_bypass.cpp:42`) does not name `lfcrlf`; a text that
begins with byte 17 is taken for a question and never reaches the UART, and `WebCmd` does not look at
the sub-command's byte (`cmd.cpp:36`); `UartSetting`'s getters return a rate in 8 bits, and nothing calls them.

## What is not modelled

- *Line ends*: the four maps of `omap` change a key's bytes and nothing else.
- *Web commands*: the frame's text; the question and its answer are in `Transmit`.
- *Removal* of commands and URI handlers, `Led::toggle`, `Button::enable(false)`: nothing calls them.
- *Setting*: a wrapper of NVS; the saved baud rate is in `UartService`.
- *A full DebugMsgRx queue*: `UartRx` does not look at what `write` returns (`logger/uart.cpp:92`, 99), so a piece may be
  dropped there; `PiecesJoin` is about the cutting before it.
- *Drivers at the start*: an ESP_ERROR_CHECK that fails while `app_main` runs restarts the device and is not in `Boot`;
  what a change of baud rate does to the driver is in `UartService`.
- *File server*: the listing of directories, which opens and closes one on the same thread and changes no
  state, and the answers to paths that are too long or missing.
- *FAT*: its two users meet only in the number of files and in what has been flushed.
- *pyOCD over the console*: `pyocd` typed while the socket server drives the same pins. What two hosts at
  once do to a target is outside the target's specification.
- *Unused code*: `SpiSwd`, and the part of `swd.cpp` from core registers to target
  states, which nothing calls.
- *JSON_Decoder*: a submodule; `RemoteProbe`'s requests are what it delivers. Numbers that
  do not fit and lists of the wrong length are left out.
- *Text and timing*: formats, names and log lines; a timeout is a step that can
  come at any time its clock may have run out.
- *Memory exhaustion*: `std::bad_alloc` ends the program and nothing handles it.
- *The receive proxy's destruction*: the proxies are statics and never die.

## Plan

The order was that of the damage done when a part is wrong: `BlockingQueue`, `MsgProxy`, `UartService`,
`LogFile`, `Ota`, `NetworkManager`, `RemoteProbe`, `Boot`, then the compositions `Terminal` and `Transmit` and the
proofs about them. What is left, in the order of its worth:

1. `pyocd` typed at the console while the socket server serves a client: a mode of `RemoteProbe` in which two
   parsers share one `Swd`.
2. A composition of `UartService` and `MsgProxy` from a byte to a browser, with the time stamps.
3. An abstract specification of the probe, a memory read and written word by word at the moment of the answer, and the
   proof that `RemoteProbe` implements it; the safety behind the liveness properties (which threads can wait for whom).
4. The probe's numbers that `std::stoi` refuses, and malformed lists of arguments.
