-------------------------------- MODULE ByPass --------------------------------
(***************************************************************************)
(* The receiving half of UartByPass (components/debug_console): a client    *)
(* of DebugMsgRx that shows what arrives on the UART to the host on the USB *)
(* port.  Its writeStr, on the proxy's thread, waits 10 ms for room in a    *)
(* queue of its own and then drops the text; its task prints the queue, and *)
(* flushes stdout when the queue is empty.  Time stamps it ignores.        *)
(*                                                                         *)
(* The host is external: it may stop reading, and whatever prints may then  *)
(* wait as long as it does.                                                *)
(***************************************************************************)
EXTENDS Naturals, Sequences, SequencesExt

CONSTANT OutSize    \* capacity of mQueue

ASSUME ByPassAssumption == OutSize \in Nat \ {0}

NoText == 0

VARIABLES
    outQueue,   \* mQueue
    outHand,    \* the text its task has popped
    buffered,   \* texts that stdout still holds
    shown,      \* history: texts the host was given since the last start
    heard       \* history: texts taken into the queue since the last start

out == <<outQueue, outHand, buffered, shown, heard>>

InHand == IF outHand = NoText THEN <<>> ELSE <<outHand>>

ByPassStart ==
    /\ outQueue = <<>>
    /\ outHand = NoText
    /\ buffered = <<>>
    /\ shown = <<>>
    /\ heard = <<>>

\* Mutant: push waits as long as it takes.
HearText_Waits(t) ==
    /\ Len(outQueue) < OutSize
    /\ outQueue' = Append(outQueue, t)
    /\ heard' = Append(heard, t)
    /\ UNCHANGED <<outHand, buffered, shown>>

\* writeStr: when the 10 ms are over a full queue loses the text.
HearText(t) ==
    /\ \/ /\ Len(outQueue) < OutSize
          /\ outQueue' = Append(outQueue, t)
          /\ heard' = Append(heard, t)
       \/ /\ Len(outQueue) = OutSize
          /\ UNCHANGED <<outQueue, heard>>
    /\ UNCHANGED <<outHand, buffered, shown>>

\* Mutant: the text is copied from the queue's head and stays there.
PopText_Fronts ==
    /\ outHand = NoText
    /\ outQueue # <<>>
    /\ outHand' = Head(outQueue)
    /\ UNCHANGED <<outQueue, buffered, shown, heard>>

PopText ==
    /\ outHand = NoText
    /\ outQueue # <<>>
    /\ outHand' = Head(outQueue)
    /\ outQueue' = Tail(outQueue)
    /\ UNCHANGED <<buffered, shown, heard>>

\* Mutant: stdout is flushed before the text in hand is printed.
PrintText_AfterFlush ==
    /\ outHand # NoText
    /\ outHand' = NoText
    /\ buffered' = <<outHand>>
    /\ shown' = shown \o buffered
    /\ UNCHANGED <<outQueue, heard>>

\* fwrite, then fflush if the queue is empty.  Before that stdout keeps the
\* text or, when its buffer is full, passes on all it has.
PrintText ==
    /\ outHand # NoText
    /\ outHand' = NoText
    /\ \/ /\ outQueue # <<>>
          /\ buffered' = Append(buffered, outHand)
          /\ UNCHANGED shown
       \/ /\ buffered' = <<>>
          /\ shown' = shown \o Append(buffered, outHand)
    /\ UNCHANGED <<outQueue, heard>>

ByPassTask == PopText \/ PrintText

(* Holds if the host reads on: then what prints comes back. *)
HostReads == WF_out(ByPassTask)
=============================================================================
