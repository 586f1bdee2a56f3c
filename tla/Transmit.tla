------------------------------- MODULE Transmit -------------------------------
(***************************************************************************)
(* What goes out on the UART.  Keys typed in the console's `uart` mode      *)
(* (UartByPass::excute) and frames from browsers (WsHandler::userHandler)   *)
(* become texts in DebugMsgTx's queue, which its task hands to UartTx while *)
(* UartService may be setting the UART up anew.  A frame that begins with   *)
(* byte 17 is no text: it asks for the settings (WebCmd, UartSetting).      *)
(*                                                                         *)
(* The console's thread is busy while in `uart` mode, so that no `setting`  *)
(* command comes then; but what was typed before may still be queued when   *)
(* one does, and browsers go on all the time.                              *)
(***************************************************************************)
EXTENDS UartService

CONSTANT TxSize     \* cQueueSize

ASSUME TransmitAssumption == TxSize \in Nat \ {0}

Empty == 0          \* a text without bytes: the key NUL, an empty frame

VARIABLES
    typing,     \* the console's thread is in `uart` mode
    txQueue,    \* DebugMsgTx's mQueue
    txHand,     \* the text its task has handed to UartTx
    wire,       \* history: texts written to the UART since the last start
    queued,     \* history: texts with bytes queued since the last start
    excused,    \* history: those popped or cut short while init ran
    made        \* texts made so far

txVars == <<typing, txQueue, txHand, wire, queued, excused, made>>
transmitVars == <<vars, txVars>>

TransmitInit ==
    /\ Init
    /\ typing = FALSE
    /\ txQueue = <<>> /\ txHand = Empty
    /\ wire = <<>> /\ queued = <<>> /\ excused = {}
    /\ made = 0

\* The device starts again if this step has crashed it.
FreshIfCrashed ==
    \/ crashes' = crashes /\ UNCHANGED txVars
    \/ /\ crashes' # crashes
       /\ typing' = FALSE
       /\ txQueue' = <<>> /\ txHand' = Empty
       /\ wire' = <<>> /\ queued' = <<>> /\ excused' = {}
       /\ UNCHANGED made

-----------------------------------------------------------------------------
(* The console and the browsers *)

\* A `uart` command, unless the console's thread is in a `setting` command.
EnterUart ==
    /\ ~typing
    /\ con = "idle" \/ booting
    /\ typing' = TRUE
    /\ UNCHANGED <<vars, txQueue, txHand, wire, queued, excused, made>>

\* ctrl+B
LeaveUart ==
    /\ typing
    /\ typing' = FALSE
    /\ UNCHANGED <<vars, txQueue, txHand, wire, queued, excused, made>>

\* MsgProxy::write: a full queue loses the text after 100 ms.
PushText ==
    /\ made < MaxTx
    /\ made' = made + 1
    /\ \/ /\ Len(txQueue) < TxSize
          /\ txQueue' = Append(txQueue, made + 1)
          /\ queued' = Append(queued, made + 1)
       \/ /\ Len(txQueue) < TxSize
          /\ txQueue' = Append(txQueue, Empty)
          /\ UNCHANGED queued
       \/ /\ Len(txQueue) = TxSize
          /\ UNCHANGED <<txQueue, queued>>
    /\ UNCHANGED <<vars, typing, txHand, wire, excused>>

\* The web server runs when app_main is past UartService.
FromKey == typing /\ PushText
FromBrowser == ~booting /\ PushText

\* The settings a browser is told: mConfig, which init sets first of all.
Answer == want

-----------------------------------------------------------------------------
(* DebugMsgTx::task *)

Excuse(t) == IF con = "idle" THEN excused ELSE excused \cup {t}

SkipEmpty ==
    /\ proxy = "idle"
    /\ txQueue # <<>> /\ Head(txQueue) = Empty
    /\ txQueue' = Tail(txQueue)
    /\ UNCHANGED <<vars, typing, txHand, wire, queued, excused, made>>

\* Mutant: the text is copied from the queue's head and stays there.
TakeText_Fronts ==
    /\ txQueue # <<>> /\ Head(txQueue) # Empty
    /\ SendMessage
    /\ \/ proxy' = "write" /\ txHand' = Head(txQueue) /\ UNCHANGED excused
       \/ proxy' = "idle" /\ excused' = Excuse(Head(txQueue)) /\ UNCHANGED txHand
    /\ UNCHANGED <<txQueue, typing, wire, queued, made>>

\* Under its mutex the task walks a list that holds UartTx or nothing.
TakeText ==
    /\ txQueue # <<>> /\ Head(txQueue) # Empty
    /\ txQueue' = Tail(txQueue)
    /\ SendMessage
    /\ \/ proxy' = "write" /\ txHand' = Head(txQueue) /\ UNCHANGED excused
       \/ proxy' = "idle" /\ excused' = Excuse(Head(txQueue)) /\ UNCHANGED txHand
    /\ UNCHANGED <<typing, wire, queued, made>>

TextSent ==
    /\ MessageSent
    /\ wire' = Append(wire, txHand)
    /\ txHand' = Empty
    /\ UNCHANGED <<typing, txQueue, queued, excused, made>>

\* The driver went away under uart_write_bytes: some bytes may be out.
TextTorn ==
    /\ SendTorn
    /\ \/ crashes' # crashes /\ FreshIfCrashed
       \/ /\ crashes' = crashes
          /\ excused' = Excuse(txHand)
          /\ txHand' = Empty
          /\ UNCHANGED <<typing, txQueue, wire, queued, made>>

Sender == SkipEmpty \/ TakeText \/ TextSent \/ TextTorn

-----------------------------------------------------------------------------
(* UartService *)

Command == ~typing /\ (\E b \in Bauds : Setting(b)) /\ UNCHANGED txVars

UartStep ==
    /\ Receive \/ (\E l \in Lives : Reader(l)) \/ InitSteps
    /\ FreshIfCrashed

-----------------------------------------------------------------------------
TransmitNext ==
    \/ EnterUart \/ LeaveUart \/ FromKey \/ FromBrowser
    \/ Sender
    \/ Command \/ UartStep

(* DebugMsgTx's task runs too, unless a torn write holds it. *)
TransmitFairness == Fairness /\ WF_transmitVars(SkipEmpty \/ TakeText \/ TextSent)

TransmitSpec == TransmitInit /\ [][TransmitNext]_transmitVars
FairTransmit == TransmitSpec /\ TransmitFairness

-----------------------------------------------------------------------------
(* Properties *)

InTxHand == IF txHand = Empty THEN <<>> ELSE <<txHand>>

Texts(s) == ToSet(s) \ {Empty}

\* Texts are numbered as they are made.
InOrder(s) ==
    \A i, j \in DOMAIN s : i < j /\ s[i] # Empty /\ s[j] # Empty => s[i] < s[j]

\* Every text taken into the queue goes out once and in its turn, but for those
\* that DebugMsgTx came upon while the UART was being set up: a change of the
\* baud rate repeats none, swaps none, and loses none of those before or after.
TextsAccounted ==
    LET going == wire \o InTxHand \o txQueue
    IN  /\ InOrder(going)
        /\ Texts(going) = Texts(queued) \ excused
        /\ Empty \notin ToSet(wire)

\* The device can always start with what is saved, and unless a change is under
\* way the rate a browser is told is the one the driver has taken; it is also
\* the one the device will start with again, unless Setting failed to write or
\* read it: no command, refused rate or crash leaves them at odds otherwise.
SettingsAgree ==
    /\ saved \in Good
    /\ con = "idle" => driver /\ Answer \in Good /\ (Answer = saved \/ unsaved)
=============================================================================
