----------------------------- MODULE UartService -----------------------------
(***************************************************************************)
(* The UART (components/logger/uart.cpp).  UartRx, a Task, reads bytes from *)
(* the driver, cuts them at the ends of lines and broadcasts the pieces;    *)
(* UartTx, a client of DebugMsgTx, writes what that proxy hands it.  The    *)
(* `setting` command changes the baud rate: UartService::init, on the       *)
(* console's thread, takes the driver away, installs it anew and replaces   *)
(* both objects, while the reader and the proxy are still using them.       *)
(*                                                                         *)
(* A driver deleted under a call of its own is undefined behaviour: the     *)
(* device crashes or the call comes back with nothing, and a write may never *)
(* come back.  A device that crashes starts again, with the baud rate it has *)
(* saved, or the default one if it cannot read that.                        *)
(***************************************************************************)
EXTENDS Naturals, Sequences, SequencesExt, FiniteSets

CONSTANTS
    Good,       \* baud rates the driver accepts
    Bad,        \* and those it refuses
    Default,    \* cDefaultBaud
    ReadSize,   \* RX_BUF_SIZE
    MaxBytes,   \* bound on bytes received
    MaxSettings,\* bound on `setting` commands
    MaxTx       \* bound on messages for the UART

ASSUME UartAssumption ==
    /\ Default \in Good /\ Good \cap Bad = {}
    /\ ReadSize \in Nat \ {0}
    /\ {MaxBytes, MaxSettings, MaxTx} \subseteq Nat

Bauds == Good \cup Bad
Lives == 1..(MaxSettings + 1)
Bytes == [id : 1..MaxBytes, nl : BOOLEAN]

VARIABLES
    driver,     \* the driver is installed
    rx,         \* what it has received
    con,        \* where the caller of init is, "idle" if there is none
    want,       \* the baud rate it was called with
    booting,    \* it is the constructor, not a `setting` command
    saved,      \* the baud rate in Setting
    unsaved,    \* history: Setting last failed to read or write the rate
    life,       \* the UartRx that pUartRx holds, 0 if none
    reader,     \* reader[l]: where the thread of the l-th UartRx is
    run,        \* run[l]: its mRun
    chunk,      \* chunk[l]: the part of its buffer not yet broadcast
    newLine,    \* newLine[l]
    tx,         \* UartTx: "none", "added" (to the proxy's list) or "whole"
    proxy,      \* DebugMsgTx: "idle", or under its mutex in "write" or "torn"
    taken,      \* history: the bytes readers took
    pieces,     \* history: the pieces broadcast
    lost,       \* history: messages for the UART dropped since the last start
    bytes, settings, sends, crashes

nvs == <<saved, unsaved>>
init == <<con, want, booting, nvs, life>>
readers == <<reader, run, chunk, newLine, taken, pieces>>
sender == <<tx, proxy, lost, sends>>
vars == <<driver, rx, init, readers, sender, bytes, settings, crashes>>

Init ==
    /\ driver = FALSE
    /\ rx = <<>>
    /\ con = "delete"
    /\ saved \in Good
    /\ \/ want = saved /\ unsaved = FALSE
       \/ want = Default /\ unsaved = TRUE
    /\ booting = TRUE
    /\ life = 0
    /\ reader = [l \in Lives |-> "none"]
    /\ run = [l \in Lives |-> FALSE]
    /\ chunk = [l \in Lives |-> <<>>]
    /\ newLine = [l \in Lives |-> FALSE]
    /\ tx = "none"
    /\ proxy = "idle"
    /\ taken = <<>>
    /\ pieces = <<>>
    /\ lost = 0
    /\ bytes = 0
    /\ settings = 0
    /\ sends = 0
    /\ crashes = 0

\* getDebugUartBaud: what was saved, or, if it cannot be read, the default,
\* which it tries to save.
ReadRate ==
    \/ want' = saved /\ saved' = saved /\ unsaved' = FALSE
    \/ want' = Default /\ saved' = Default /\ unsaved' = FALSE
    \/ want' = Default /\ saved' = saved /\ unsaved' = TRUE

\* The device starts again: all but what is in flash begins anew.
Crash ==
    /\ crashes' = crashes + 1
    /\ driver' = FALSE
    /\ rx' = <<>>
    /\ con' = "delete"
    /\ ReadRate
    /\ booting' = TRUE
    /\ life' = 0
    /\ reader' = [l \in Lives |-> "none"]
    /\ run' = [l \in Lives |-> FALSE]
    /\ chunk' = [l \in Lives |-> <<>>]
    /\ newLine' = [l \in Lives |-> FALSE]
    /\ tx' = "none"
    /\ proxy' = "idle"
    /\ taken' = <<>>
    /\ pieces' = <<>>
    /\ lost' = 0
    /\ UNCHANGED <<bytes, settings, sends>>

-----------------------------------------------------------------------------
(* UartRx *)

Receive ==
    /\ driver
    /\ bytes < MaxBytes
    /\ bytes' = bytes + 1
    /\ \E nl \in BOOLEAN : rx' = Append(rx, [id |-> bytes + 1, nl |-> nl])
    /\ UNCHANGED <<driver, init, readers, sender, settings, crashes>>

readerRest == <<driver, init, run, sender, bytes, settings, crashes>>

\* The new thread calls task(), through the virtual table of an object whose
\* destructor may have begun.
ReaderEnter(l) ==
    /\ reader[l] = "spawned"
    /\ \/ /\ run[l]
          /\ reader' = [reader EXCEPT ![l] = "test"]
          /\ UNCHANGED <<rx, chunk, newLine, taken, pieces, readerRest>>
       \/ ~run[l] /\ Crash

\* Without a driver uart_read_bytes returns -1, which is taken for a length.
ReaderTest(l) ==
    /\ reader[l] = "test"
    /\ \/ /\ driver \/ ~run[l]
          /\ reader' = [reader EXCEPT ![l] = IF run[l] THEN "read" ELSE "none"]
          /\ UNCHANGED <<rx, chunk, newLine, taken, pieces, readerRest>>
       \/ run[l] /\ ~driver /\ Crash

\* uart_read_bytes returns what has come within a tick, perhaps nothing.
ReaderRead(l) ==
    /\ reader[l] = "read"
    /\ \E n \in 0..Len(rx) :
          /\ n <= ReadSize
          /\ rx' = SubSeq(rx, n + 1, Len(rx))
          /\ chunk' = [chunk EXCEPT ![l] = SubSeq(rx, 1, n)]
          /\ taken' = taken \o SubSeq(rx, 1, n)
          /\ reader' = [reader EXCEPT ![l] = IF n = 0 THEN "test" ELSE "split"]
    /\ UNCHANGED <<newLine, pieces, readerRest>>

ReaderTorn(l) ==
    /\ reader[l] = "torn"
    /\ \/ /\ reader' = [reader EXCEPT ![l] = "test"]
          /\ UNCHANGED <<rx, chunk, newLine, taken, pieces, readerRest>>
       \/ Crash

EndsLine(s) == s # <<>> /\ Last(s).nl

\* The first line's end in a chunk, or its length.
Cut(s) == CHOOSE n \in DOMAIN s :
              /\ s[n].nl \/ n = Len(s)
              /\ \A m \in 1..(n - 1) : ~s[m].nl

\* Mutant: what follows the last line's end in a read is not broadcast.
WritePiece_DropsRemainder(l) ==
    /\ reader[l] = "split"
    /\ LET n == Cut(chunk[l])
           piece == SubSeq(chunk[l], 1, n)
           rest == SubSeq(chunk[l], n + 1, Len(chunk[l]))
       IN /\ pieces' = IF EndsLine(piece)
                       THEN Append(pieces, [str |-> piece, newLine |-> newLine[l], by |-> l])
                       ELSE pieces
          /\ newLine' = [newLine EXCEPT ![l] = EndsLine(piece)]
          /\ chunk' = [chunk EXCEPT ![l] = rest]
          /\ reader' = [reader EXCEPT ![l] = IF rest = <<>> THEN "test" ELSE "split"]
    /\ UNCHANGED <<rx, taken, readerRest>>

\* Mutant: a piece that ends in the middle of a line does not clear newLine.
WritePiece_AlwaysNew(l) ==
    /\ reader[l] = "split"
    /\ LET n == Cut(chunk[l])
           piece == SubSeq(chunk[l], 1, n)
           rest == SubSeq(chunk[l], n + 1, Len(chunk[l]))
       IN /\ pieces' = Append(pieces, [str |-> piece, newLine |-> newLine[l], by |-> l])
          /\ chunk' = [chunk EXCEPT ![l] = rest]
          /\ reader' = [reader EXCEPT ![l] = IF rest = <<>> THEN "test" ELSE "split"]
    /\ UNCHANGED <<rx, taken, newLine, readerRest>>

\* Broadcast the chunk's next piece, up to and with the end of the line.
WritePiece(l) ==
    /\ reader[l] = "split"
    /\ LET n == Cut(chunk[l])
           piece == SubSeq(chunk[l], 1, n)
           rest == SubSeq(chunk[l], n + 1, Len(chunk[l]))
       IN /\ pieces' = Append(pieces, [str |-> piece, newLine |-> newLine[l], by |-> l])
          /\ newLine' = [newLine EXCEPT ![l] = EndsLine(piece)]
          /\ chunk' = [chunk EXCEPT ![l] = rest]
          /\ reader' = [reader EXCEPT ![l] = IF rest = <<>> THEN "test" ELSE "split"]
    /\ UNCHANGED <<rx, taken, readerRest>>

Reader(l) == ReaderEnter(l) \/ ReaderTest(l) \/ ReaderRead(l) \/ ReaderTorn(l) \/ WritePiece(l)

-----------------------------------------------------------------------------
(* DebugMsgTx and UartTx *)

senderRest == <<driver, rx, init, readers, bytes, settings, crashes>>

\* The proxy pops a message and walks its list under its mutex.  An object
\* whose constructor is not over, or whose destructor has begun, has Client's
\* writeStr, which does nothing; without a driver uart_write_bytes refuses.
SendMessage ==
    /\ proxy = "idle"
    /\ sends < MaxTx
    /\ sends' = sends + 1
    /\ \/ /\ tx = "whole" /\ driver
          /\ proxy' = "write"
          /\ UNCHANGED lost
       \/ /\ tx # "whole" \/ ~driver \/ con = "untx"
          /\ lost' = lost + 1
          /\ UNCHANGED proxy
    /\ UNCHANGED <<tx, senderRest>>

MessageSent ==
    /\ proxy = "write"
    /\ proxy' = "idle"
    /\ UNCHANGED <<tx, lost, sends, senderRest>>

\* Without a buffer for sending, uart_write_bytes waits for the FIFO with no
\* time limit: it comes back only if somebody wakes it.
SendTorn ==
    /\ proxy = "torn"
    /\ \/ /\ proxy' = "idle"
          /\ lost' = lost + 1
          /\ UNCHANGED <<tx, sends, senderRest>>
       \/ Crash

-----------------------------------------------------------------------------
(* UartService::init *)

\* Mutant: the baud rate is saved before it is tried.
Setting_SavesFirst(b) ==
    /\ con = "idle"
    /\ settings < MaxSettings
    /\ settings' = settings + 1
    /\ con' = "delete"
    /\ want' = b
    /\ saved' = b
    /\ UNCHANGED <<driver, rx, booting, unsaved, life, readers, sender, bytes, crashes>>

Setting(b) ==
    /\ con = "idle"
    /\ settings < MaxSettings
    /\ settings' = settings + 1
    /\ con' = "delete"
    /\ want' = b
    /\ UNCHANGED <<driver, rx, booting, nvs, life, readers, sender, bytes, crashes>>

\* Calls under way lose the driver they are in.
DeleteDriver ==
    /\ con = "delete"
    /\ con' = "install"
    /\ driver' = FALSE
    /\ rx' = <<>>
    /\ reader' = [l \in Lives |-> IF reader[l] = "read" THEN "torn" ELSE reader[l]]
    /\ proxy' = IF proxy = "write" THEN "torn" ELSE proxy
    /\ UNCHANGED <<want, booting, nvs, life, run, chunk, newLine, taken, pieces,
                   tx, lost, sends, bytes, settings, crashes>>

\* Mutant: init returns when the driver refuses the baud rate.
InstallDriver_GivesUp ==
    /\ con = "install"
    /\ \/ /\ want \in Good
          /\ driver' = TRUE
          /\ con' = IF life = 0 THEN "start" ELSE "stop"
       \/ /\ want \notin Good
          /\ con' = "idle"
          /\ UNCHANGED driver
    /\ UNCHANGED <<rx, want, booting, nvs, life, readers, sender,
                   bytes, settings, crashes>>

\* ESP_ERROR_CHECK ends the program if the driver refuses the baud rate.
InstallDriver ==
    /\ con = "install"
    /\ \/ /\ want \in Good
          /\ driver' = TRUE
          /\ con' = IF life = 0 THEN "start" ELSE "stop"
          /\ UNCHANGED <<rx, want, booting, nvs, life, readers, sender,
                         bytes, settings, crashes>>
       \/ want \notin Good /\ Crash

initRest == <<driver, rx, want, booting, bytes, settings, crashes>>

\* Mutant: the thread is joined without being told to stop.
StopReader_KeepsRun ==
    /\ con = "stop"
    /\ con' = "join"
    /\ UNCHANGED <<run, reader, chunk, newLine, taken, pieces, nvs, life, sender, initRest>>

\* pUartRx.reset(): ~Task stops the thread and waits for it.
StopReader ==
    /\ con = "stop"
    /\ con' = "join"
    /\ run' = [run EXCEPT ![life] = FALSE]
    /\ UNCHANGED <<reader, chunk, newLine, taken, pieces, nvs, life, sender, initRest>>

\* Mutant: the thread is detached.
JoinReader_Detaches ==
    /\ con = "join"
    /\ con' = "untx"
    /\ UNCHANGED <<readers, nvs, life, sender, initRest>>

JoinReader ==
    /\ con = "join"
    /\ reader[life] = "none"
    /\ con' = "untx"
    /\ UNCHANGED <<readers, nvs, life, sender, initRest>>

\* pUartTx.reset(): ~Client waits for the proxy's mutex.
RemoveTx ==
    /\ con = "untx"
    /\ proxy = "idle"
    /\ tx' = "none"
    /\ con' = "start"
    /\ UNCHANGED <<proxy, lost, sends, readers, nvs, life, initRest>>

StartReader ==
    /\ con = "start"
    /\ con' = "tx"
    /\ life' = life + 1
    /\ reader' = [reader EXCEPT ![life + 1] = "spawned"]
    /\ run' = [run EXCEPT ![life + 1] = TRUE]
    /\ newLine' = [newLine EXCEPT ![life + 1] = TRUE]
    /\ UNCHANGED <<chunk, taken, pieces, nvs, sender, initRest>>

\* Client's constructor puts the UartTx on the list before it is whole.
AddTx ==
    /\ con = "tx"
    /\ \/ /\ tx = "none" /\ proxy = "idle"
          /\ tx' = "added"
          /\ UNCHANGED con
       \/ /\ tx = "added"
          /\ tx' = "whole"
          /\ con' = "save"
    /\ UNCHANGED <<proxy, lost, sends, readers, nvs, life, initRest>>

\* Only the command saves the baud rate, and goes on if that fails; the
\* constructor has it from there.
Save ==
    /\ con = "save"
    /\ con' = "idle"
    /\ \/ booting /\ UNCHANGED nvs
       \/ ~booting /\ saved' = want /\ unsaved' = FALSE
       \/ ~booting /\ unsaved' = TRUE /\ UNCHANGED saved
    /\ booting' = FALSE
    /\ UNCHANGED <<driver, rx, want, life, readers, sender, bytes, settings, crashes>>

InitSteps ==
    \/ DeleteDriver \/ InstallDriver \/ StopReader \/ JoinReader
    \/ RemoveTx \/ StartReader \/ AddTx \/ Save

-----------------------------------------------------------------------------
Next ==
    \/ Receive
    \/ \E l \in Lives : Reader(l)
    \/ SendMessage \/ MessageSent \/ SendTorn
    \/ \E b \in Bauds : Setting(b)
    \/ InitSteps

(* The threads run, reads come back (they wait for a tick at most), and so do
   writes to a driver that is there; nothing makes a torn write come back, nor
   bytes, messages or commands come. *)
Fairness ==
    /\ \A l \in Lives : WF_vars(Reader(l))
    /\ SF_vars(InitSteps)

Spec == Init /\ [][Next]_vars
FairSpec == Spec /\ Fairness /\ WF_vars(MessageSent)

-----------------------------------------------------------------------------
(* Properties *)

\* Every variable keeps to its type (uart.hpp, task.hpp).
TypeOK ==
    /\ driver \in BOOLEAN
    /\ rx \in Seq(Bytes)
    /\ con \in {"idle", "delete", "install", "stop", "join", "untx", "start", "tx", "save"}
    /\ want \in Bauds
    /\ booting \in BOOLEAN
    /\ saved \in Bauds
    /\ unsaved \in BOOLEAN
    /\ life \in {0} \cup Lives
    /\ reader \in [Lives -> {"none", "spawned", "test", "read", "torn", "split"}]
    /\ run \in [Lives -> BOOLEAN]
    /\ \A l \in Lives : chunk[l] \in Seq(Bytes) /\ Len(chunk[l]) <= ReadSize
    /\ newLine \in [Lives -> BOOLEAN]
    /\ tx \in {"none", "added", "whole"}
    /\ proxy \in {"idle", "write", "torn"}
    /\ taken \in Seq(Bytes)
    /\ \A i \in DOMAIN pieces : pieces[i].str \in Seq(Bytes)
    /\ lost \in 0..MaxTx
    /\ bytes \in 0..MaxBytes
    /\ settings \in 0..MaxSettings
    /\ sends \in 0..MaxTx
    /\ crashes \in 0..MaxSettings

\* Changing the baud rate never leaves two threads reading the port: the old
\* one is joined before the new one is started.
OneReader == Cardinality({l \in Lives : reader[l] # "none"}) <= 1

\* The pieces broadcast are, put together, the bytes read: cutting at line ends
\* and at the ends of reads loses, repeats and reorders nothing.
PiecesJoin ==
    \A l \in Lives :
        reader[l] # "none" =>
            FlattenSeq([i \in DOMAIN pieces |-> pieces[i].str]) \o chunk[l] = taken

\* Only the beginning of a line is marked to get a time stamp, wherever the
\* reads happened to end; after a change of the baud rate, or at the start,
\* the first piece counts as one.
StampsAtLineStarts ==
    \A i \in DOMAIN pieces :
        pieces[i].newLine <=>
            (i = 1 \/ EndsLine(pieces[i - 1].str) \/ pieces[i - 1].by # pieces[i].by)

\* Deleting the driver under its users can crash the device only during a
\* `setting` command, never later; and no baud rate that was saved makes the
\* device crash when it starts, for it is saved only after the driver took it.
CrashOnlyInSetting == [][crashes' # crashes => con # "idle" /\ ~booting]_vars

\* Messages for the UART are lost only while the UART is being set up.
TxLostOnlyInInit == [][lost' # lost => con # "idle"]_vars

\* A change of the baud rate comes to its end, with the old reader gone, unless
\* it took the driver away from under a write that then never comes back: the
\* console waits for the proxy's mutex for ever.
InitReturns == []<>(con = "idle" \/ (con = "untx" /\ proxy = "torn"))
=============================================================================
