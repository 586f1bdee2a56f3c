------------------------------- MODULE Terminal -------------------------------
(***************************************************************************)
(* What arrives on the UART and who gets it: DebugMsgRx's task hands every  *)
(* text to its clients one after the other, on one thread: to the host on   *)
(* the USB port (ByPass) and to the log on the card (LogFile), from which   *)
(* a browser downloads (FileServer).  A text that begins a line goes with   *)
(* a time stamp, which only the log keeps.                                 *)
(*                                                                         *)
(* The walk over a list that other threads change is MsgProxy's; here the   *)
(* clients are complete.                                                   *)
(***************************************************************************)
EXTENDS LogFile, ByPass, FileServer

CONSTANTS
    RxSize,     \* cQueueSize
    MaxTexts    \* bound on texts broadcast

ASSUME TerminalAssumption ==
    /\ RxSize \in Nat \ {0}
    /\ MaxTexts \in Nat /\ 2 * MaxTexts <= MaxMsgs

VARIABLES
    rx,         \* how many texts wait in DebugMsgRx's mQueue
    where,      \* its task: "pop", "stamp" (sendTimeStamp) or "text" (sendStr)
    clients,    \* its mClientList
    turn,       \* its iterator over it
    texts       \* texts broadcast so far

proxy == <<rx, where, clients, turn, texts>>
allVars == <<vars, out, server, proxy>>

\* The by-pass is made when the first key comes from the host, which may be
\* before or after LogFile is made at the end of app_main.
Registered == {<<"log">>, <<"bypass", "log">>}

TerminalInit ==
    /\ Init
    /\ ByPassStart
    /\ ServerInit
    /\ rx = 0
    /\ where = "pop"
    /\ clients \in Registered
    /\ turn = 1
    /\ texts = 0

-----------------------------------------------------------------------------
(* DebugMsgRx *)

\* write, on UartRx's thread; a full queue loses the text after 100 ms.
Arrive ==
    /\ rx < RxSize
    /\ rx + texts < MaxTexts
    /\ rx' = rx + 1
    /\ UNCHANGED <<where, clients, turn, texts, vars, out, server>>

Attach ==
    /\ clients = <<"log">>
    /\ clients' = Append(clients, "bypass")
    /\ UNCHANGED <<rx, where, turn, texts, vars, out, server>>

TakeText ==
    /\ where = "pop"
    /\ rx > 0
    /\ rx' = rx - 1
    /\ texts' = texts + 1
    /\ turn' = 1
    /\ where' \in {"stamp", "text"}
    /\ UNCHANGED <<clients, vars, out, server>>

\* sendTimeStamp: the by-pass takes none.
SendStamp ==
    /\ where = "stamp"
    /\ where' = "text"
    /\ WriteStr
    /\ UNCHANGED <<rx, clients, turn, texts, out, server>>

\* sendStr, one client.
SendText ==
    /\ where = "text"
    /\ \/ /\ clients[turn] = "log"
          /\ WriteStr
          /\ UNCHANGED out
       \/ /\ clients[turn] = "bypass"
          /\ HearText(texts)
          /\ UNCHANGED vars
    /\ IF turn = Len(clients) THEN where' = "pop" /\ turn' = 1
       ELSE turn' = turn + 1 /\ UNCHANGED where
    /\ UNCHANGED <<rx, clients, texts, server>>

Broadcast == TakeText \/ SendStamp \/ SendText

-----------------------------------------------------------------------------
(* The others *)

LogStep == Task /\ UNCHANGED <<out, server, proxy>>

HostStep == ByPassTask /\ UNCHANGED <<vars, server, proxy>>

Browse ==
    /\ Serve
    /\ UNCHANGED <<queue, pc, hand, open, failing, msgs, history, counts, out, proxy>>

\* The whole device loses power.
Restart ==
    /\ PowerCut
    /\ outQueue' = <<>> /\ outHand' = NoText
    /\ buffered' = <<>> /\ shown' = <<>> /\ heard' = <<>>
    /\ srv' = "idle" /\ size' = 0 /\ at' = 0
    /\ rx' = 0 /\ where' = "pop" /\ turn' = 1
    /\ clients' \in Registered
    /\ UNCHANGED <<given, texts>>

TerminalNext ==
    \/ Arrive \/ Attach
    \/ Broadcast
    \/ LogStep \/ HostStep \/ Browse
    \/ Restart

(* Threads run, and each wait of theirs ends, but for the by-pass's task, which
   may wait for the host.  Nothing makes texts arrive or browsers ask. *)
TerminalFairness == Fairness /\ WF_allVars(Broadcast)

TerminalSpec == TerminalInit /\ [][TerminalNext]_allVars
FairTerminal == TerminalSpec /\ TerminalFairness

-----------------------------------------------------------------------------
(* Properties *)

\* What the host has been given, with what is still on its way, is what the
\* by-pass took, once each and in order, whatever waits, stalls and flushes.
HostInOrder == shown \o buffered \o InHand \o outQueue = heard

\* A host that reads is shown what was printed, though stdout is flushed only
\* when the by-pass finds its queue empty.
HostSeesAll == HostReads => (buffered # <<>> ~> buffered = <<>>)

\* A host that stops reading holds up neither the broadcast nor, so, the log:
\* every text is taken off the queue and handed to all clients.
BroadcastGoesOn == (rx > 0 \/ where # "pop") ~> (rx = 0 /\ where = "pop")

\* Every file opened is closed on every path, a failed connection and a rotation
\* among them, so that none of the max_files is lost.
FilesGivenBack ==
    /\ handles["log"] = IF open THEN 1 ELSE 0
    /\ handles["web"] = IF srv = "send" THEN 1 ELSE 0

\* What a browser has downloaded of the log is on the card and stays there, over
\* rotations and power cuts: nothing is served that could still be lost.
DownloadSurvives == IsPrefix(given, SubSeq(card, 1, durable))
=============================================================================
