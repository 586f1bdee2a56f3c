------------------------------- MODULE LogFile -------------------------------
(***************************************************************************)
(* The log on the SD card (components/logger/log_file.cpp): a client of    *)
(* DebugMsgRx whose writeStr, called on the proxy's thread, puts the       *)
(* message in a queue of its own without waiting, and whose task writes    *)
(* the queue to the card once the time is known: into a new file every     *)
(* twelve hours, flushed whenever the queue has been emptied.              *)
(*                                                                         *)
(* A card that was not mounted at the start has no task: the queue fills   *)
(* and the messages are lost.  A mounted one may refuse to make a file.    *)
(* The results of fwrite, fflush, fsync and fclose are not read: stdio     *)
(* holds what was written, and when the card refuses it, at whichever of   *)
(* these calls, some of what it held is gone.  When the power fails the    *)
(* card keeps what was flushed and some of the rest.                       *)
(*                                                                         *)
(* A message that reached the card in part counts as lost.                 *)
(***************************************************************************)
EXTENDS Storage, Sequences, SequencesExt

CONSTANTS
    QueueSize,      \* capacity of mMsgQueue
    MaxMsgs,        \* bound on messages broadcast
    MaxExpiries,    \* bound on the times twelve hours are found to have passed
    MaxPowerCuts    \* bound on power cuts

ASSUME LogAssumption ==
    /\ QueueSize \in Nat \ {0}
    /\ {MaxMsgs, MaxExpiries, MaxPowerCuts} \subseteq Nat

Messages == 1..MaxMsgs
NoMsg == 0

VARIABLES
    queue,      \* mMsgQueue
    pc,         \* where task is, "off" if it was never started
    hand,       \* the message it has popped
    open,       \* pFile # nullptr
    msgs,       \* messages broadcast so far
    accepted,   \* history: those taken into the queue since the last start
    skipped,    \* history: those popped while there was no file
    failed,     \* history: those the card refused, at whichever call
    failing,    \* the card refuses what is done with the open file
    base,       \* history: Len(card) at the last start
    expiries, cuts

counts == <<expiries, cuts>>
storage == <<mounted, handles, faults>>
history == <<accepted, skipped, failed, base>>
vars == <<queue, pc, hand, open, failing, storage, card, durable, msgs, history, counts>>

\* init: without a card the task is not started.
StartTask(m) == IF m THEN "sync" ELSE "off"

Init ==
    /\ MountAtStart
    /\ queue = <<>>
    /\ pc = StartTask(mounted)
    /\ hand = NoMsg
    /\ open = FALSE
    /\ card = <<>>
    /\ durable = 0
    /\ msgs = 0
    /\ accepted = <<>>
    /\ skipped = {}
    /\ failed = {}
    /\ failing = FALSE
    /\ base = 0
    /\ handles = [u \in Users |-> 0]
    /\ expiries = 0
    /\ faults = 0
    /\ cuts = 0

-----------------------------------------------------------------------------
(* writeStr, on the proxy's thread: a full queue loses the message, and the
   proxy is told true in any case, so the client is never removed. *)

WriteStr ==
    /\ msgs < MaxMsgs
    /\ msgs' = msgs + 1
    /\ \/ /\ Len(queue) < QueueSize
          /\ queue' = Append(queue, msgs + 1)
          /\ accepted' = Append(accepted, msgs + 1)
       \/ /\ Len(queue) = QueueSize
          /\ UNCHANGED <<queue, accepted>>
    /\ UNCHANGED <<pc, hand, open, failing, storage, card, durable,
                   skipped, failed, base, counts>>

-----------------------------------------------------------------------------
(* task *)

taskRest == <<mounted, msgs, accepted, base, cuts>>

\* What the task does with the card, when it does nothing.
onFile == <<card, durable, failed, failing, faults>>

\* createFile: its directories or the file itself may fail.
CreateFile == \E ok \in BOOLEAN : open' = ok /\ Fopen("log", handles, ok)

\* The clock is set: make the first file.
TimeKnown ==
    /\ pc = "sync"
    /\ pc' = "pop"
    /\ CreateFile
    /\ UNCHANGED <<queue, hand, card, durable, skipped, failed, failing, expiries, taskRest>>

PopMessage ==
    /\ pc = "pop"
    /\ queue # <<>>
    /\ hand' = Head(queue)
    /\ queue' = Tail(queue)
    /\ pc' = "rotate"
    /\ UNCHANGED <<open, handles, skipped, onFile, expiries, taskRest>>

\* A card that has refused once may go on doing so.
Refused == Fault \/ (failing /\ UNCHANGED faults)

\* What stdio held after the first n messages is gone.
LoseAfter(n) ==
    /\ card' = SubSeq(card, 1, n)
    /\ failed' = failed \cup {card[i] : i \in (n + 1)..Len(card)}

\* fclose puts what stdio held on the card, or loses some of it if the card
\* refuses; the file is given back in either case.
CloseFile ==
    /\ open' = FALSE
    /\ failing' = FALSE
    /\ handles' = Fclose("log", handles)
    /\ \/ durable' = Len(card) /\ UNCHANGED <<card, failed, faults>>
       \/ Refused /\ \E n \in durable..Len(card) : LoseAfter(n) /\ durable' = n

\* Mutant: the message in hand is left behind when a new file is made.
Rotate_DropsHand ==
    /\ pc = "rotate"
    /\ \/ /\ expiries < MaxExpiries
          /\ expiries' = expiries + 1
          /\ pc' = "create"
          /\ hand' = NoMsg
          /\ (open /\ CloseFile) \/ (~open /\ UNCHANGED <<open, handles, onFile>>)
       \/ /\ pc' = "write"
          /\ UNCHANGED <<hand, open, handles, expiries, onFile>>
    /\ UNCHANGED <<queue, skipped, taskRest>>

\* Twelve hours after the last file was made, if they have passed by now, it is
\* closed.
Rotate ==
    /\ pc = "rotate"
    /\ \/ /\ expiries < MaxExpiries
          /\ expiries' = expiries + 1
          /\ pc' = "create"
          /\ (open /\ CloseFile) \/ (~open /\ UNCHANGED <<open, handles, onFile>>)
       \/ /\ pc' = "write"
          /\ UNCHANGED <<open, handles, expiries, onFile>>
    /\ UNCHANGED <<queue, hand, skipped, taskRest>>

\* ... and another one made.
NextFile ==
    /\ pc = "create"
    /\ pc' = "write"
    /\ CreateFile
    /\ UNCHANGED <<queue, hand, card, durable, skipped, failed, failing, expiries, taskRest>>

\* Mutant: a write that failed puts the message back at the end of the queue.
WriteMessage_Requeues ==
    /\ pc = "write"
    /\ hand' = NoMsg
    /\ \/ /\ ~open
          /\ skipped' = skipped \cup {hand}
          /\ pc' = "pop"
          /\ UNCHANGED <<onFile, queue>>
       \/ /\ open
          /\ pc' = "flush"
          /\ UNCHANGED <<skipped, durable>>
          /\ \/ card' = Append(card, hand) /\ UNCHANGED <<failed, failing, faults, queue>>
             \/ /\ Refused /\ failing' = TRUE
                /\ queue' = Append(queue, hand)
                /\ UNCHANGED <<card, failed>>
    /\ UNCHANGED <<open, handles, expiries, taskRest>>

\* Without a file the message is dropped, and no file is made until the next
\* rotation.  fwrite passes on what stdio held when its buffer is full: the card
\* may refuse that too.
WriteMessage ==
    /\ pc = "write"
    /\ hand' = NoMsg
    /\ \/ /\ ~open
          /\ skipped' = skipped \cup {hand}
          /\ pc' = "pop"
          /\ UNCHANGED onFile
       \/ /\ open
          /\ pc' = "flush"
          /\ UNCHANGED <<skipped, durable>>
          /\ \/ card' = Append(card, hand) /\ UNCHANGED <<failed, failing, faults>>
             \/ /\ Refused /\ failing' = TRUE
                /\ \E n \in durable..Len(card) :
                      /\ card' = SubSeq(card, 1, n)
                      /\ failed' = failed \cup {hand} \cup {card[i] : i \in (n + 1)..Len(card)}
    /\ UNCHANGED <<queue, open, handles, expiries, taskRest>>

\* fflush and fsync make all that was written durable, or fail, and part of it is
\* lost and part left as it was.
FlushFile ==
    \/ /\ durable' = Len(card)
       /\ failing' = FALSE
       /\ UNCHANGED <<card, failed, faults>>
    \/ /\ Refused /\ failing' = TRUE
       /\ \E n \in durable..Len(card) : LoseAfter(n) /\ durable' \in durable..n

\* Mutant: flushes when the queue is full instead of empty.
FlushIfEmpty_WhenFull ==
    /\ pc = "flush"
    /\ pc' = "pop"
    /\ \/ Len(queue) = QueueSize /\ FlushFile
       \/ Len(queue) # QueueSize /\ UNCHANGED onFile
    /\ UNCHANGED <<queue, hand, open, handles, skipped, expiries, taskRest>>

FlushIfEmpty ==
    /\ pc = "flush"
    /\ pc' = "pop"
    /\ \/ queue = <<>> /\ FlushFile
       \/ queue # <<>> /\ UNCHANGED onFile
    /\ UNCHANGED <<queue, hand, open, handles, skipped, expiries, taskRest>>

Task == TimeKnown \/ PopMessage \/ Rotate \/ NextFile \/ WriteMessage \/ FlushIfEmpty

-----------------------------------------------------------------------------
(* Power *)

PowerCut ==
    /\ cuts < MaxPowerCuts
    /\ cuts' = cuts + 1
    /\ \E n \in durable..Len(card) :
          /\ card' = SubSeq(card, 1, n)
          /\ durable' = n
          /\ base' = n
    /\ mounted' \in BOOLEAN
    /\ handles' = [u \in Users |-> 0]
    /\ queue' = <<>>
    /\ pc' = StartTask(mounted')
    /\ hand' = NoMsg
    /\ open' = FALSE
    /\ accepted' = <<>>
    /\ skipped' = {}
    /\ failed' = {}
    /\ failing' = FALSE
    /\ UNCHANGED <<msgs, expiries, faults>>

\* The card's other user opens and closes files and meets errors of its own.
Elsewhere ==
    /\ handles' \in {[handles EXCEPT !["web"] = n] : n \in 0..MaxFiles}
    /\ faults' \in faults..MaxFaults
    /\ UNCHANGED <<queue, pc, hand, open, failing, mounted, card, durable,
                   msgs, history, counts>>

-----------------------------------------------------------------------------
Next == WriteStr \/ Task \/ PowerCut \/ Elsewhere

(* The task runs, and the network tells it the time. *)
Fairness == WF_vars(Task)

Spec == Init /\ [][Next]_vars
FairSpec == Spec /\ Fairness

-----------------------------------------------------------------------------
(* Properties *)

\* Every variable keeps to its type (log_file.hpp:39-47).
TypeOK ==
    /\ queue \in Seq(Messages) /\ Len(queue) <= QueueSize
    /\ pc \in {"off", "sync", "pop", "rotate", "create", "write", "flush"}
    /\ hand \in Messages \cup {NoMsg}
    /\ open \in BOOLEAN
    /\ mounted \in BOOLEAN
    /\ handles \in [Users -> 0..MaxFiles]
    /\ card \in Seq(Messages)
    /\ durable \in 0..Len(card)
    /\ msgs \in 0..MaxMsgs
    /\ accepted \in Seq(Messages)
    /\ skipped \subseteq Messages
    /\ failed \subseteq Messages
    /\ failing \in BOOLEAN
    /\ base \in 0..Len(card)
    /\ expiries \in 0..MaxExpiries
    /\ faults \in 0..MaxFaults
    /\ cuts \in 0..MaxPowerCuts

\* Since the last start every message taken into the queue is, in that order,
\* on the card, in the task's hand or still queued, but for those popped with
\* no file open or refused by the card, at fwrite, fflush, fsync or fclose;
\* rotation loses and repeats none.
Accounted ==
    LET kept == SubSeq(card, base + 1, Len(card))
                    \o (IF hand = NoMsg THEN <<>> ELSE <<hand>>) \o queue
    IN  /\ \A i, j \in DOMAIN kept : i < j => kept[i] < kept[j]
        /\ ToSet(kept) = ToSet(accepted) \ (skipped \cup failed)

\* Over all files and restarts the log is in the order of the messages.
CardInOrder == \A i, j \in DOMAIN card : i < j => card[i] < card[j]

\* What a user of the card may rely on (Journal): messages are only added at
\* the end, and what was once made durable is never lost, whether a call fails or
\* the power does.
J == INSTANCE Journal WITH Entries <- Messages, journal <- card, safe <- durable
ImplementsJournal == J!Spec

\* When the task has nothing to do, a power cut costs nothing: all it wrote has
\* been flushed, though the flush is skipped while messages wait, unless the card
\* refused the flush, which the task does not notice.
DurableWhenIdle == pc = "pop" /\ queue = <<>> /\ ~failing => durable = Len(card)
=============================================================================
