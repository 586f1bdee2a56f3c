---------------------------- MODULE TerminalProofs ----------------------------
(***************************************************************************)
(* Proofs about LogFile, and about Terminal, which puts it together with    *)
(* the by-pass and the file server, for any capacities, numbers of messages,*)
(* texts, errors and power cuts.                                            *)
(*                                                                         *)
(* LogFile has three invariants, each of its own.  Order: what is on the    *)
(* card, in hand and queued is one ascending run of messages that ends at   *)
(* the last one broadcast.  Flushed: written messages can only be unflushed *)
(* while a file is open, and never when the task waits at an empty queue,   *)
(* unless the card has refused the flush.                                  *)
(* OneFile: the task holds one file while it writes one.  From Order it     *)
(* follows that every step that touches the card is one the Journal allows, *)
(* and, with what became of each message taken (Kept), that none is lost or *)
(* overtaken on its way to the card.                                        *)
(*                                                                         *)
(* Every step of the whole is a step of the log writer or, for it, one of   *)
(* the card's other user, so Terminal implements LogFile and what is proved *)
(* there holds here (StepIsLogStep).  That needs the web server's files to  *)
(* be counted right (WebFiles), which in turn needs nothing of the log.     *)
(* A download is safe because the file was opened at its durable length,    *)
(* which the Journal never takes back (Download).  The by-pass's side is an *)
(* invariant of its own about four sequences put together (Shown).          *)
(***************************************************************************)
EXTENDS Terminal, SequenceTheorems, TLAPS

\* The message in hand: there is one just between pop and fwrite.
HandOK ==
    /\ hand \in Messages \cup {NoMsg}
    /\ pc \in {"rotate", "create", "write"} => hand \in Messages

Ascending(s) == \A i, j \in DOMAIN s : i < j => s[i] < s[j]
AllBelow(s, m) == \A i \in DOMAIN s : s[i] < m

Order ==
    /\ Ascending(card)
    /\ Ascending(queue)
    /\ hand # NoMsg => AllBelow(card, hand)
    /\ \A k \in DOMAIN queue :
          /\ AllBelow(card, queue[k])
          /\ hand < queue[k]
    /\ AllBelow(card, msgs + 1)
    /\ AllBelow(queue, msgs + 1)
    /\ hand <= msgs

Flushed ==
    /\ pc \in {"off", "sync", "create"} => ~open
    /\ ~open => durable = Len(card)
    /\ pc = "pop" /\ queue = <<>> /\ ~failing => durable = Len(card)
    /\ base <= durable

OneFile == handles["log"] = IF open THEN 1 ELSE 0

Inv == TypeOK /\ HandOK /\ Order /\ Flushed /\ OneFile
-----------------------------------------------------------------------------
(* Sequences *)

LEMMA AppendFacts ==
    ASSUME NEW S, NEW s \in Seq(S), NEW e \in S
    PROVE  /\ Append(s, e) \in Seq(S)
           /\ Append(s, e) # <<>>
           /\ Len(Append(s, e)) = Len(s) + 1
  BY AppendProperties

LEMMA HeadTailFacts ==
    ASSUME NEW S, NEW s \in Seq(S), s # <<>>
    PROVE  /\ Head(s) \in S
           /\ Tail(s) \in Seq(S)
           /\ Len(Tail(s)) = Len(s) - 1
  OBVIOUS

LEMMA LengthIsNat == TypeOK => Len(card) \in Nat /\ durable \in 0..Len(card)
  BY DEF TypeOK

\* A message later than all of a run may be added at its end.
LEMMA AppendAscends ==
    ASSUME NEW s \in Seq(Nat), NEW m \in Nat, Ascending(s), AllBelow(s, m)
    PROVE  Ascending(Append(s, m)) /\ AllBelow(Append(s, m), m + 1)
  BY DEF Ascending, AllBelow

\* What is above a bound stays so when the bound grows.
LEMMA BoundGrows ==
    ASSUME NEW s \in Seq(Nat), NEW m \in Nat, NEW n \in Nat, AllBelow(s, m), m <= n
    PROVE  AllBelow(s, n)
  BY DEF AllBelow

\* The head of a run comes before all the rest, which is a run again.
LEMMA TailAscends ==
    ASSUME NEW s \in Seq(Nat), s # <<>>, Ascending(s)
    PROVE  /\ Head(s) \in Nat
           /\ Head(s) = s[1] /\ 1 \in DOMAIN s
           /\ Tail(s) \in Seq(Nat)
           /\ Ascending(Tail(s))
           /\ \A k \in DOMAIN Tail(s) :
                 /\ k + 1 \in DOMAIN s
                 /\ Tail(s)[k] = s[k + 1]
                 /\ Head(s) < Tail(s)[k]
  BY DEF Ascending

\* A power cut leaves a prefix of a run, which is a run.
LEMMA PrefixAscends ==
    ASSUME NEW S, NEW s \in Seq(S), NEW n \in 0..Len(s)
    PROVE  /\ SubSeq(s, 1, n) \in Seq(S)
           /\ Len(SubSeq(s, 1, n)) = n
           /\ \A i \in 1..n : SubSeq(s, 1, n)[i] = s[i]
  OBVIOUS

\* The messages of the model are numbers.
LEMMA MessagesAreNat ==
    /\ Messages \subseteq Nat
    /\ \A s \in Seq(Messages) : s \in Seq(Nat)
  BY LogAssumption DEF Messages

-----------------------------------------------------------------------------
(* Each step keeps Inv *)

LEMMA WriteStrKeepsInv == ASSUME Inv, WriteStr PROVE Inv'
<1> USE LogAssumption DEF Messages, NoMsg
<1>1. /\ msgs + 1 \in Messages /\ msgs + 1 \in 0..MaxMsgs
      /\ msgs' = msgs + 1 /\ msgs \in Nat
  BY DEF WriteStr, Inv, TypeOK
<1>2. queue \in Seq(Nat) /\ card \in Seq(Nat)
  BY MessagesAreNat DEF Inv, TypeOK
<1>3. UNCHANGED <<pc, hand, open, failing, storage, card, durable, skipped, failed, base, counts>>
  BY DEF WriteStr
<1>4. AllBelow(card, msgs' + 1) /\ hand' <= msgs'
  <2>1. /\ AllBelow(card, msgs + 1)
        /\ hand \in Nat /\ hand <= msgs
    BY SMTT(30) DEF Inv, Order, TypeOK
  <2>2. msgs + 1 \in Nat /\ msgs' + 1 \in Nat /\ msgs + 1 <= msgs' + 1
    BY <1>1
  <2>3. AllBelow(card, msgs' + 1)
    BY <2>1, <2>2, <1>2, BoundGrows
  <2> QED
    BY <2>1, <2>3, <1>1, <1>3
<1>5. CASE /\ Len(queue) < QueueSize
           /\ queue' = Append(queue, msgs + 1)
           /\ accepted' = Append(accepted, msgs + 1)
  <2>a. queue \in Seq(Messages) /\ accepted \in Seq(Messages)
    BY DEF Inv, TypeOK
  <2>b. /\ queue' \in Seq(Messages) /\ Len(queue') = Len(queue) + 1
        /\ accepted' \in Seq(Messages) /\ queue' # <<>>
    BY <2>a, <1>1, <1>5, AppendFacts
  <2>1. TypeOK'
    <3> HIDE DEF Messages, NoMsg
    <3> QED
      BY SMTT(30), <2>b, <1>1, <1>3, <1>5 DEF Inv, TypeOK, counts, storage
  <2>2. Ascending(queue') /\ AllBelow(queue', msgs' + 1)
    BY <1>1, <1>2, <1>5, AppendAscends DEF Inv, Order
  <2>3. \A k \in DOMAIN queue' : AllBelow(card, queue'[k]) /\ hand < queue'[k]
    <3> SUFFICES ASSUME NEW k \in DOMAIN queue'
                 PROVE  AllBelow(card, queue'[k]) /\ hand < queue'[k]
      OBVIOUS
    <3>1. CASE k \in DOMAIN queue
      BY <3>1, <1>2, <1>5 DEF Inv, Order
    <3>2. CASE k = Len(queue) + 1
      <4>1. queue'[k] = msgs + 1
        BY <3>2, <1>1, <1>2, <1>5
      <4>2. hand \in Nat /\ hand <= msgs /\ AllBelow(card, msgs + 1)
        BY DEF Inv, Order, TypeOK
      <4> QED
        BY <4>1, <4>2, <1>1
    <3> QED
      BY <3>1, <3>2, <1>2, <1>5
  <2>4. Order'
    BY <2>2, <2>3, <1>3, <1>4 DEF Inv, Order, AllBelow, Ascending
  <2>5. HandOK' /\ Flushed' /\ OneFile'
    BY <2>b, <1>3 DEF Inv, HandOK, Flushed, OneFile, storage
  <2> QED
    BY <2>1, <2>4, <2>5 DEF Inv
<1>6. CASE UNCHANGED <<queue, accepted>>
  <2>1. TypeOK'
    BY <1>1, <1>3, <1>6 DEF Inv, TypeOK, counts, storage
  <2>2. AllBelow(queue, msgs' + 1)
    <3>1. AllBelow(queue, msgs + 1)
      BY DEF Inv, Order
    <3>2. msgs + 1 \in Nat /\ msgs' + 1 \in Nat /\ msgs + 1 <= msgs' + 1
      BY <1>1
    <3> QED
      BY <3>1, <3>2, <1>2, BoundGrows
  <2>3. Order'
    BY <2>2, <1>3, <1>4, <1>6 DEF Inv, Order, AllBelow, Ascending
  <2>4. HandOK' /\ Flushed' /\ OneFile'
    BY <1>3, <1>6 DEF Inv, HandOK, Flushed, OneFile, storage
  <2> QED
    BY <2>1, <2>3, <2>4 DEF Inv
<1> QED
  BY <1>5, <1>6 DEF WriteStr

\* A step that leaves the messages where they are keeps their order.
LEMMA OrderStays ==
    ASSUME Order, UNCHANGED <<queue, hand, card, msgs>>
    PROVE  Order'
  BY DEF Order, Ascending, AllBelow

\* What stdio held is lost: the rest is still in order, and kept what was durable.
LEMMA OrderLoses ==
    ASSUME Inv, NEW n \in durable..Len(card), card' = SubSeq(card, 1, n),
           UNCHANGED <<queue, msgs>>,
           hand' = hand \/ hand' = NoMsg
    PROVE  /\ Order'
           /\ card' \in Seq(Messages) /\ Len(card') = n
           /\ n \in 0..Len(card) /\ base <= n /\ base \in 0..n
           /\ \A i \in 1..n : card'[i] = card[i]
<1>1. /\ card \in Seq(Messages) /\ durable \in 0..Len(card) /\ base \in 0..Len(card)
      /\ Len(card) \in Nat /\ base <= durable
  BY LengthIsNat DEF Inv, TypeOK, Flushed
<1>2. n \in 0..Len(card) /\ base <= n /\ base \in 0..n
  BY <1>1
<1>3. /\ card' \in Seq(Messages) /\ Len(card') = n
      /\ \A i \in 1..n : card'[i] = card[i]
  BY <1>1, <1>2, PrefixAscends
<1>4. DOMAIN card' = 1..n /\ 1..n \subseteq DOMAIN card
  BY <1>1, <1>2, <1>3
<1>5. Ascending(card') /\ \A m : AllBelow(card, m) => AllBelow(card', m)
  BY <1>3, <1>4 DEF Inv, Order, Ascending, AllBelow
<1>6. (\A k \in DOMAIN queue : hand' < queue[k]) /\ hand' <= msgs
  <2>1. queue \in Seq(Messages) /\ msgs \in Nat
    BY DEF Inv, TypeOK
  <2>2. \A k \in DOMAIN queue : queue[k] \in Messages
    BY <2>1
  <2> QED
    BY <2>1, <2>2 DEF Inv, Order, Messages, NoMsg
<1>7. /\ Ascending(queue') /\ AllBelow(queue', msgs' + 1) /\ hand' <= msgs'
      /\ hand' # NoMsg => AllBelow(card', hand')
      /\ \A k \in DOMAIN queue' : AllBelow(card', queue'[k]) /\ hand' < queue'[k]
      /\ AllBelow(card', msgs' + 1)
  BY <1>5, <1>6 DEF Inv, Order, Ascending, AllBelow
<1>8. Order'
  BY <1>5, <1>7 DEF Order, Ascending, AllBelow
<1> QED
  BY <1>2, <1>3, <1>8

LEMMA FaultsType == ASSUME Inv, Refused \/ UNCHANGED faults PROVE faults' \in 0..MaxFaults
  BY StorageAssumption DEF Inv, TypeOK, Refused, Fault

\* What is lost is on record.
LEMMA LossType ==
    ASSUME Inv, NEW n \in durable..Len(card)
    PROVE  {card[i] : i \in (n + 1)..Len(card)} \subseteq Messages
<1>1. card \in Seq(Messages) /\ n \in Nat /\ Len(card) \in Nat
  BY LengthIsNat DEF Inv, TypeOK
<1>2. \A i \in (n + 1)..Len(card) : card[i] \in Messages
  BY <1>1
<1> QED
  BY <1>2

\* A file made by the log, which has none.
LEMMA CreateFileOK ==
    ASSUME Inv, ~open, CreateFile
    PROVE  /\ open' \in BOOLEAN /\ faults' \in 0..MaxFaults
           /\ handles' \in [Users -> 0..MaxFiles]
           /\ OneFile'
<1>1. /\ MaxFaults \in Nat /\ faults \in 0..MaxFaults
      /\ MaxFiles \in Nat \ {0}
      /\ handles \in [Users -> 0..MaxFiles] /\ handles["log"] = 0
  BY StorageAssumption DEF Inv, TypeOK, OneFile
<1>2. PICK ok \in BOOLEAN : open' = ok /\ Fopen("log", handles, ok)
  BY DEF CreateFile
<1>3. faults' = faults \/ (faults < MaxFaults /\ faults' = faults + 1)
  BY <1>2 DEF Fopen, Fault
<1>4. CASE ok = TRUE
  <2>1. handles' = [handles EXCEPT !["log"] = 1]
    BY <1>1, <1>2, <1>4 DEF Fopen
  <2>2. handles' \in [Users -> 0..MaxFiles] /\ handles'["log"] = 1
    BY <2>1, <1>1 DEF Users
  <2> QED
    BY <1>1, <1>2, <1>3, <1>4, <2>2 DEF OneFile
<1>5. CASE ok = FALSE
  <2>1. handles' = handles
    BY <1>2, <1>5 DEF Fopen
  <2> QED
    BY <1>1, <1>2, <1>3, <1>5, <2>1 DEF OneFile
<1> QED
  BY <1>2, <1>4, <1>5

LEMMA HandlesType ==
    ASSUME TypeOK
    PROVE  handles \in [Users -> 0..MaxFiles] /\ MaxFiles \in Nat \ {0}
  BY StorageAssumption DEF TypeOK

LEMMA CreationKeepsInv == ASSUME Inv, TimeKnown \/ NextFile PROVE Inv'
<1>a. /\ CreateFile /\ ~open
      /\ \/ pc = "sync" /\ pc' = "pop"
         \/ pc = "create" /\ pc' = "write"
      /\ UNCHANGED <<queue, hand, card, durable, skipped, failed, failing, expiries, taskRest>>
  BY DEF Inv, TimeKnown, NextFile, Flushed
<1>b. /\ open' \in BOOLEAN /\ faults' \in 0..MaxFaults
      /\ handles' \in [Users -> 0..MaxFiles] /\ OneFile'
  BY <1>a, CreateFileOK
<1>1. TypeOK'
  BY <1>a, <1>b DEF Inv, TypeOK, taskRest
<1>2. Order'
  BY <1>a, OrderStays DEF Inv, taskRest
<1>3. HandOK' /\ Flushed'
  BY <1>a DEF Inv, HandOK, Flushed, taskRest
<1> QED
  BY <1>b, <1>1, <1>2, <1>3 DEF Inv

LEMMA PopMessageKeepsInv == ASSUME Inv, PopMessage PROVE Inv'
<1> USE LogAssumption DEF Messages, NoMsg
<1>1. /\ queue \in Seq(Nat) /\ card \in Seq(Nat) /\ queue # <<>>
      /\ queue \in Seq(Messages)
  BY MessagesAreNat DEF Inv, TypeOK, PopMessage
<1>2. /\ queue' = Tail(queue) /\ hand' = Head(queue) /\ pc' = "rotate"
      /\ UNCHANGED <<open, handles, skipped, card, durable, failed, failing, faults,
                     expiries, taskRest>>
  BY DEF PopMessage, onFile
<1>3. /\ Head(queue) \in Messages /\ Tail(queue) \in Seq(Messages)
      /\ Len(Tail(queue)) <= QueueSize
  <2>1. /\ Head(queue) \in Messages /\ Tail(queue) \in Seq(Messages)
        /\ Len(Tail(queue)) = Len(queue) - 1
    BY <1>1, HeadTailFacts
  <2>2. Len(queue) \in Nat /\ Len(queue) <= QueueSize
    BY DEF Inv, TypeOK
  <2> QED
    BY <2>1, <2>2
<1>4. TypeOK'
  <2> HIDE DEF Messages, NoMsg
  <2> QED
    BY <1>2, <1>3 DEF Inv, TypeOK, taskRest
<1>5. Ascending(queue') /\ (\A k \in DOMAIN queue' : hand' < queue'[k])
  BY <1>1, <1>2, TailAscends DEF Inv, Order
<1>6. \A k \in DOMAIN queue' : k + 1 \in DOMAIN queue /\ queue'[k] = queue[k + 1]
  BY <1>1, <1>2, TailAscends DEF Inv, Order
<1>7. hand' = queue[1] /\ 1 \in DOMAIN queue
  BY <1>1, <1>2, TailAscends DEF Inv, Order
<1>8. /\ AllBelow(card, hand') /\ AllBelow(queue', msgs + 1)
      /\ \A k \in DOMAIN queue' : AllBelow(card, queue'[k])
  BY <1>6, <1>7 DEF Inv, Order, AllBelow
<1>9. hand' <= msgs
  <2>1. queue[1] \in Nat
    BY <1>1, <1>7
  <2>2. msgs \in Nat
    BY DEF Inv, TypeOK
  <2>3. queue[1] < msgs + 1
    BY <1>7 DEF Inv, Order, AllBelow
  <2> QED
    BY <2>1, <2>2, <2>3, <1>7
<1>10. Order'
  BY <1>2, <1>5, <1>8, <1>9 DEF Inv, Order, AllBelow, Ascending, taskRest
<1>11. HandOK' /\ Flushed' /\ OneFile'
  BY <1>2, <1>3 DEF Inv, HandOK, Flushed, OneFile, taskRest
<1> QED
  BY <1>4, <1>10, <1>11 DEF Inv

LEMMA CloseKeepsInv ==
    ASSUME Inv, Rotate, expiries < MaxExpiries, expiries' = expiries + 1,
           open, CloseFile, pc' = "create"
    PROVE  Inv'
<1>1. /\ UNCHANGED <<queue, hand, skipped, taskRest>> /\ pc = "rotate" /\ open' = FALSE
      /\ failing' = FALSE /\ handles' = Fclose("log", handles)
  BY DEF Rotate, CloseFile
<1>2. expiries' \in 0..MaxExpiries
  BY LogAssumption DEF Inv, TypeOK
<1>3. handles' \in [Users -> 0..MaxFiles] /\ OneFile'
  <2>1. handles' = [handles EXCEPT !["log"] = 0]
    BY <1>1, HandlesType DEF Inv, OneFile, Fclose, Users
  <2> QED
    BY <1>1, <2>1, HandlesType DEF Inv, OneFile, Users
<1>4. /\ faults' \in 0..MaxFaults /\ failed' \subseteq Messages
      /\ card' \in Seq(Messages) /\ durable' = Len(card') /\ durable' \in 0..Len(card')
      /\ base' \in 0..Len(card') /\ base' <= durable' /\ Order'
  <2>1. CASE durable' = Len(card) /\ UNCHANGED <<card, failed, faults>>
    <3>1. Len(card) \in Nat /\ base \in 0..Len(card) /\ base' = base
      BY <1>1, LengthIsNat DEF Inv, TypeOK, taskRest
    <3>2. Order'
      BY <1>1, <2>1, OrderStays DEF Inv, taskRest
    <3> QED
      BY <2>1, <3>1, <3>2 DEF Inv, TypeOK
  <2>2. CASE Refused /\ \E n \in durable..Len(card) : LoseAfter(n) /\ durable' = n
    <3>1. PICK n \in durable..Len(card) : LoseAfter(n) /\ durable' = n
      BY <2>2
    <3>2. UNCHANGED <<queue, msgs>> /\ hand' = hand /\ base' = base
      BY <1>1 DEF taskRest
    <3>3. /\ Order' /\ card' \in Seq(Messages) /\ Len(card') = n
          /\ n \in 0..Len(card) /\ base <= n /\ base \in 0..n
      BY <3>1, <3>2, OrderLoses DEF LoseAfter
    <3>4. failed' \subseteq Messages
      BY <3>1, LossType DEF LoseAfter, Inv, TypeOK
    <3> QED
      BY <2>2, <3>1, <3>2, <3>3, <3>4, FaultsType
  <2> QED
    BY <2>1, <2>2 DEF CloseFile
<1>5. TypeOK'
  BY <1>1, <1>2, <1>3, <1>4 DEF Inv, TypeOK, taskRest
<1>6. Flushed' /\ HandOK'
  BY <1>1, <1>4 DEF Inv, Flushed, HandOK
<1> QED
  BY <1>3, <1>4, <1>5, <1>6 DEF Inv

LEMMA RotateKeepsInv == ASSUME Inv, Rotate PROVE Inv'
<1>1. CASE /\ expiries' \in 0..MaxExpiries /\ pc' \in {"create", "write"}
           /\ pc' = "create" => ~open
           /\ UNCHANGED <<open, handles, card, durable, failed, failing, faults>>
  <2>1. UNCHANGED <<queue, hand, skipped, taskRest>> /\ pc = "rotate"
    BY DEF Rotate
  <2>2. TypeOK'
    BY <1>1, <2>1 DEF Inv, TypeOK, taskRest
  <2>3. Flushed' /\ OneFile' /\ HandOK'
    BY <1>1, <2>1 DEF Inv, Flushed, OneFile, HandOK, taskRest
  <2> QED
    BY <1>1, <2>1, <2>2, <2>3, OrderStays DEF Inv, taskRest
<1>2. CASE /\ expiries < MaxExpiries /\ expiries' = expiries + 1 /\ pc' = "create"
           /\ ~open /\ UNCHANGED <<open, handles, onFile>>
  <2>1. expiries' \in 0..MaxExpiries
    BY <1>2, LogAssumption DEF Inv, TypeOK
  <2> QED
    BY <1>1, <1>2, <2>1 DEF onFile
<1>3. CASE pc' = "write" /\ UNCHANGED <<open, handles, expiries, onFile>>
  BY <1>1, <1>3 DEF Inv, TypeOK, onFile
<1> QED
  BY <1>2, <1>3, CloseKeepsInv DEF Rotate

LEMMA WriteMessageKeepsInv == ASSUME Inv, WriteMessage PROVE Inv'
<1> USE LogAssumption DEF Messages, NoMsg
<1>1. /\ UNCHANGED <<queue, open, handles, durable, expiries, taskRest>>
      /\ pc = "write" /\ hand' = NoMsg
  BY DEF WriteMessage, onFile
<1>2. hand \in Messages /\ card \in Seq(Messages) /\ card \in Seq(Nat) /\ queue \in Seq(Nat)
  BY <1>1, MessagesAreNat DEF Inv, HandOK, TypeOK
<1>0. (\A k \in DOMAIN queue : hand' < queue[k]) /\ hand' <= msgs
  <2>1. queue \in Seq(Messages) /\ msgs \in Nat
    BY DEF Inv, TypeOK
  <2>2. \A k \in DOMAIN queue : queue[k] \in Messages
    BY <2>1
  <2> QED
    BY <1>1, <2>1, <2>2
<1>3. CASE /\ ~open /\ skipped' = skipped \cup {hand} /\ pc' = "pop"
           /\ UNCHANGED <<card, failed, failing, faults>>
  <2>1. TypeOK'
    BY <1>1, <1>2, <1>3 DEF Inv, TypeOK, taskRest
  <2>2. Flushed' /\ HandOK' /\ OneFile'
    BY <1>1, <1>3 DEF Inv, Flushed, HandOK, OneFile, taskRest
  <2>3. Order'
    BY <1>0, <1>1, <1>3 DEF Inv, Order, Ascending, AllBelow, taskRest
  <2> QED
    BY <2>1, <2>2, <2>3 DEF Inv
<1>4. CASE /\ open /\ pc' = "flush" /\ UNCHANGED skipped
           /\ card' = Append(card, hand) /\ UNCHANGED <<failed, failing, faults>>
  <2>1. card' \in Seq(Messages) /\ Len(card') = Len(card) + 1
    BY <1>2, <1>4, AppendFacts
  <2>2. TypeOK'
    <3> HIDE DEF Messages, NoMsg
    <3>1. durable' \in 0..Len(card') /\ base' \in 0..Len(card')
      <4>1. /\ Len(card) \in Nat /\ durable \in 0..Len(card) /\ base \in 0..Len(card)
            /\ durable' = durable /\ base' = base
        BY <1>1, LengthIsNat DEF Inv, TypeOK, taskRest
      <4> QED
        BY <2>1, <4>1
    <3>2. /\ hand' \in Messages \cup {NoMsg} /\ card' \in Seq(Messages)
          /\ pc' \in {"off", "sync", "pop", "rotate", "create", "write", "flush"}
      BY <1>1, <1>4, <2>1
    <3> QED
      BY <1>1, <1>4, <3>1, <3>2 DEF Inv, TypeOK, taskRest
  <2>3. Ascending(card') /\ AllBelow(card', hand + 1)
    BY SMTT(30), <1>2, <1>4, AppendAscends DEF Inv, Order
  <2>4. card' \in Seq(Nat)
    BY <2>1, MessagesAreNat
  <2>5. AllBelow(card', msgs + 1)
    BY SMTT(30), <1>2, <2>3, <2>4, BoundGrows DEF Inv, Order, TypeOK
  <2>6. \A k \in DOMAIN queue : AllBelow(card', queue[k])
    <3> SUFFICES ASSUME NEW k \in DOMAIN queue PROVE AllBelow(card', queue[k])
      OBVIOUS
    <3>1. queue[k] \in Nat /\ hand + 1 <= queue[k]
      BY <1>2 DEF Inv, Order
    <3> QED
      BY <1>2, <2>3, <2>4, <3>1, BoundGrows
  <2>7. Order'
    BY <1>0, <1>1, <2>3, <2>5, <2>6 DEF Inv, Order, Ascending, AllBelow, taskRest
  <2>8. Flushed' /\ HandOK' /\ OneFile'
    BY <1>1, <1>4 DEF Inv, Flushed, HandOK, OneFile, taskRest
  <2> QED
    BY <2>2, <2>7, <2>8 DEF Inv
<1>5. CASE /\ open /\ pc' = "flush" /\ UNCHANGED skipped /\ Refused /\ failing' = TRUE
           /\ \E n \in durable..Len(card) :
                 /\ card' = SubSeq(card, 1, n)
                 /\ failed' = failed \cup {hand} \cup {card[i] : i \in (n + 1)..Len(card)}
  <2> PICK n \in durable..Len(card) :
         /\ card' = SubSeq(card, 1, n)
         /\ failed' = failed \cup {hand} \cup {card[i] : i \in (n + 1)..Len(card)}
    BY <1>5
  <2> HIDE DEF Messages, NoMsg
  <2>1. UNCHANGED <<queue, msgs>> /\ hand' = NoMsg /\ base' = base
    BY <1>1 DEF taskRest
  <2>2. /\ Order' /\ card' \in Seq(Messages) /\ Len(card') = n
        /\ n \in 0..Len(card) /\ base <= n /\ base \in 0..n
    BY <2>1, OrderLoses
  <2>3. failed' \subseteq Messages
    BY <1>2, LossType DEF Inv, TypeOK
  <2>4. durable' \in 0..Len(card') /\ base' \in 0..Len(card')
    BY <1>1, <2>1, <2>2, LengthIsNat DEF Inv
  <2>5. faults' \in 0..MaxFaults
    BY <1>5, FaultsType
  <2>6. hand' \in Messages \cup {NoMsg}
    BY <1>1
  <2>7. TypeOK'
    BY <1>1, <1>5, <2>2, <2>3, <2>4, <2>5, <2>6 DEF Inv, TypeOK, taskRest
  <2>8. Flushed' /\ HandOK' /\ OneFile'
    BY <1>1, <1>5, <2>1, <2>6 DEF Inv, Flushed, HandOK, OneFile
  <2> QED
    BY <2>2, <2>7, <2>8 DEF Inv
<1> QED
  BY <1>3, <1>4, <1>5 DEF WriteMessage, onFile

LEMMA FlushKeepsInv == ASSUME Inv, FlushIfEmpty PROVE Inv'
<1>1. /\ UNCHANGED <<queue, hand, open, handles, skipped, expiries, taskRest>>
      /\ pc = "flush" /\ pc' = "pop"
  BY DEF FlushIfEmpty
<1>2. CASE queue # <<>> /\ UNCHANGED onFile
  <2>1. TypeOK'
    BY <1>1, <1>2 DEF Inv, TypeOK, taskRest, onFile
  <2>2. Flushed' /\ HandOK' /\ OneFile'
    BY <1>1, <1>2 DEF Inv, Flushed, HandOK, OneFile, onFile, taskRest
  <2> QED
    BY <1>1, <1>2, <2>1, <2>2, OrderStays DEF Inv, taskRest, onFile
<1>3. CASE durable' = Len(card) /\ failing' = FALSE /\ UNCHANGED <<card, failed, faults>>
  <2>1. durable' \in 0..Len(card') /\ base \in 0..Len(card) /\ base <= durable' /\ base' = base
    BY <1>1, <1>3, LengthIsNat DEF Inv, TypeOK, taskRest
  <2>2. TypeOK'
    BY <1>1, <1>3, <2>1 DEF Inv, TypeOK, taskRest
  <2>3. Flushed' /\ HandOK' /\ OneFile'
    BY <1>1, <1>3, <2>1 DEF Inv, Flushed, HandOK, OneFile
  <2> QED
    BY <1>1, <1>3, <2>2, <2>3, OrderStays DEF Inv, taskRest
<1>4. CASE /\ Refused /\ failing' = TRUE
           /\ \E n \in durable..Len(card) : LoseAfter(n) /\ durable' \in durable..n
  <2> PICK n \in durable..Len(card) : LoseAfter(n) /\ durable' \in durable..n
    BY <1>4
  <2>1. UNCHANGED <<queue, msgs>> /\ hand' = hand /\ base' = base
    BY <1>1 DEF taskRest
  <2>2. /\ Order' /\ card' \in Seq(Messages) /\ Len(card') = n
        /\ n \in 0..Len(card) /\ base <= n /\ base \in 0..n
    BY <2>1, OrderLoses DEF LoseAfter
  <2>3. failed' \subseteq Messages
    BY LossType DEF LoseAfter, Inv, TypeOK
  <2>4. /\ durable' \in 0..Len(card') /\ base' \in 0..Len(card') /\ base' <= durable'
        /\ durable = Len(card) => durable' = Len(card')
    BY <2>1, <2>2, LengthIsNat DEF Inv, TypeOK, Flushed
  <2>5. faults' \in 0..MaxFaults
    BY <1>4, FaultsType
  <2>6. TypeOK'
    BY <1>1, <1>4, <2>2, <2>3, <2>4, <2>5 DEF Inv, TypeOK, taskRest
  <2>7. Flushed' /\ HandOK' /\ OneFile'
    BY <1>1, <1>4, <2>1, <2>4 DEF Inv, Flushed, HandOK, OneFile
  <2> QED
    BY <2>2, <2>6, <2>7 DEF Inv
<1> QED
  BY <1>2, <1>3, <1>4 DEF FlushIfEmpty, FlushFile

LEMMA PowerCutKeepsInv == ASSUME Inv, PowerCut PROVE Inv'
<1> USE LogAssumption DEF Messages, NoMsg
<1>1. PICK n \in durable..Len(card) :
          card' = SubSeq(card, 1, n) /\ durable' = n /\ base' = n
  BY DEF PowerCut
<1>2. /\ queue' = <<>> /\ pc' \in {"off", "sync"} /\ hand' = NoMsg /\ open' = FALSE
      /\ mounted' \in BOOLEAN /\ handles' = [u \in Users |-> 0]
      /\ failing' = FALSE /\ accepted' = <<>> /\ skipped' = {} /\ failed' = {}
      /\ cuts < MaxPowerCuts /\ cuts' = cuts + 1
      /\ UNCHANGED <<msgs, expiries, faults>>
  BY DEF PowerCut, StartTask
<1>3. card \in Seq(Messages) /\ card \in Seq(Nat) /\ n \in 0..Len(card)
  BY MessagesAreNat, LengthIsNat DEF Inv, TypeOK
<1>4. card' \in Seq(Messages) /\ Len(card') = n /\ (\A i \in 1..n : card'[i] = card[i])
  BY <1>1, <1>3, PrefixAscends
<1>a. durable' \in 0..Len(card') /\ base' \in 0..Len(card') /\ base' <= durable'
  BY <1>1, <1>3, <1>4
<1>b. cuts' \in 0..MaxPowerCuts
  BY SMTT(30), <1>2 DEF Inv, TypeOK
<1>c. /\ queue' \in Seq(Messages) /\ Len(queue') <= QueueSize /\ accepted' \in Seq(Messages)
      /\ handles' \in [Users -> 0..MaxFiles] /\ handles'["log"] = 0
  BY <1>2, StorageAssumption DEF Users
<1>5. TypeOK'
  BY <1>2, <1>4, <1>a, <1>b, <1>c DEF Inv, TypeOK
<1>d. DOMAIN card' = 1..n /\ (\A i \in DOMAIN card' : i \in DOMAIN card /\ card'[i] = card[i])
  BY <1>3, <1>4
<1>6. Ascending(card') /\ AllBelow(card', msgs + 1)
  BY <1>d DEF Inv, Order, Ascending, AllBelow
<1>e. DOMAIN queue' = {} /\ hand' <= msgs
  BY <1>2 DEF Inv, TypeOK
<1>7. Order'
  BY <1>2, <1>6, <1>e DEF Order, Ascending, AllBelow
<1>8. Flushed' /\ HandOK' /\ OneFile'
  BY <1>1, <1>2, <1>4, <1>a, <1>c DEF Flushed, HandOK, OneFile
<1> QED
  BY <1>5, <1>7, <1>8 DEF Inv

LEMMA ElsewhereKeepsInv == ASSUME Inv, Elsewhere PROVE Inv'
<1>1. PICK n \in 0..MaxFiles : handles' = [handles EXCEPT !["web"] = n]
  BY DEF Elsewhere
<1>2. handles' \in [Users -> 0..MaxFiles] /\ handles'["log"] = handles["log"]
  BY <1>1, HandlesType DEF Inv, Users
<1>3. faults' \in 0..MaxFaults
  BY SMTT(30), StorageAssumption DEF Inv, TypeOK, Elsewhere
<1>4. UNCHANGED <<queue, pc, hand, open, failing, mounted, card, durable, msgs, history, counts>>
  BY DEF Elsewhere
<1>5. TypeOK'
  BY <1>2, <1>3, <1>4 DEF Inv, TypeOK, history, counts
<1>6. HandOK' /\ Flushed' /\ OneFile'
  BY <1>2, <1>4 DEF Inv, HandOK, Flushed, OneFile, history
<1> QED
  BY <1>4, <1>5, <1>6, OrderStays DEF Inv

-----------------------------------------------------------------------------
(* Each step is one of the Journal, or leaves it alone *)

journalVars == <<card, durable>>

LEMMA WriteIsAdd == ASSUME Inv, WriteMessage PROVE [J!Next]_journalVars
<1>0. durable \in Nat /\ durable' = durable /\ Len(card) \in Nat
  BY LengthIsNat DEF WriteMessage, onFile, Inv, TypeOK
<1>1. CASE UNCHANGED card
  BY <1>0, <1>1 DEF journalVars
<1>2. CASE card' = Append(card, hand)
  <2>1. hand \in Messages /\ AllBelow(card, hand)
    BY DEF WriteMessage, Inv, HandOK, Order, Messages, NoMsg
  <2>2. J!Add(hand)
    BY <1>0, <1>2, <2>1 DEF J!Add, AllBelow
  <2> QED
    BY <2>1, <2>2 DEF J!Next
<1>3. CASE \E n \in durable..Len(card) : card' = SubSeq(card, 1, n)
  BY <1>0, <1>3 DEF J!Next, J!Lose
<1> QED
  BY <1>1, <1>2, <1>3 DEF WriteMessage, onFile

LEMMA FileIsJournal == ASSUME Inv, Rotate \/ FlushIfEmpty PROVE [J!Next]_journalVars
<1>0. durable \in Nat /\ Len(card) \in Nat
  BY LengthIsNat DEF Inv, TypeOK
<1>1. \/ card' = card /\ (durable' = Len(card) \/ durable' = durable)
      \/ \E n \in durable..Len(card) : card' = SubSeq(card, 1, n) /\ durable' \in durable..n
  BY <1>0 DEF Rotate, CloseFile, FlushIfEmpty, FlushFile, LoseAfter, onFile
<1> QED
  BY <1>1 DEF J!Next, J!MakeSafe, J!Lose, journalVars

LEMMA StepIsJournal == Inv /\ [Next]_vars => [J!Next]_journalVars
<1> SUFFICES ASSUME Inv, [Next]_vars PROVE [J!Next]_journalVars
  OBVIOUS
<1>1. CASE UNCHANGED vars
  BY <1>1 DEF vars, journalVars
<1>2. CASE WriteStr \/ TimeKnown \/ NextFile \/ PopMessage \/ Elsewhere
  BY <1>2 DEF WriteStr, TimeKnown, NextFile, PopMessage, onFile, Elsewhere, journalVars
<1>3. CASE PowerCut
  <2>1. durable \in Nat /\ Len(card) \in Nat
    BY LengthIsNat DEF Inv, TypeOK
  <2> QED
    BY <1>3, <2>1 DEF PowerCut, J!Next, J!Lose
<1>4. CASE WriteMessage \/ Rotate \/ FlushIfEmpty
  BY <1>4, WriteIsAdd, FileIsJournal
<1> QED
  BY <1>1, <1>2, <1>3, <1>4 DEF Next, Task

-----------------------------------------------------------------------------
(* What holds of the log writer *)

LEMMA InitInv == Init => Inv
<1> SUFFICES ASSUME Init PROVE Inv
  OBVIOUS
<1>a. queue \in Seq(Messages) /\ Len(queue) <= QueueSize /\ card \in Seq(Messages)
  BY LogAssumption DEF Init
<1>b. /\ accepted \in Seq(Messages)
      /\ durable \in 0..Len(card) /\ base \in 0..Len(card)
  BY DEF Init
<1>c. /\ msgs \in 0..MaxMsgs /\ expiries \in 0..MaxExpiries
      /\ faults \in 0..MaxFaults /\ cuts \in 0..MaxPowerCuts
      /\ handles \in [Users -> 0..MaxFiles] /\ handles["log"] = 0
      /\ mounted \in BOOLEAN /\ pc \in {"off", "sync"}
  BY LogAssumption, StorageAssumption DEF Init, Users, StartTask, MountAtStart
<1>1. TypeOK
  BY <1>a, <1>b, <1>c DEF Init, TypeOK
<1>2. DOMAIN card = {} /\ DOMAIN queue = {} /\ hand = NoMsg /\ hand <= msgs
  BY DEF Init, NoMsg
<1>3. Order
  BY <1>2 DEF Order, Ascending, AllBelow
<1>4. HandOK /\ Flushed /\ OneFile
  BY <1>c DEF Init, HandOK, Flushed, NoMsg, OneFile
<1> QED
  BY <1>1, <1>3, <1>4 DEF Inv

LEMMA NextKeepsInv == Inv /\ [Next]_vars => Inv'
<1> SUFFICES ASSUME Inv, [Next]_vars PROVE Inv'
  OBVIOUS
<1>1. CASE UNCHANGED vars
  BY <1>1 DEF vars, history, counts, storage, Inv, TypeOK, HandOK, Order, Flushed, OneFile,
              Ascending, AllBelow
<1>2. CASE WriteStr
  BY <1>2, WriteStrKeepsInv
<1>3. CASE TimeKnown \/ NextFile
  BY <1>3, CreationKeepsInv
<1>4. CASE PopMessage
  BY <1>4, PopMessageKeepsInv
<1>5. CASE Rotate
  BY <1>5, RotateKeepsInv
<1>6. CASE WriteMessage
  BY <1>6, WriteMessageKeepsInv
<1>7. CASE FlushIfEmpty
  BY <1>7, FlushKeepsInv
<1>9. CASE PowerCut
  BY <1>9, PowerCutKeepsInv
<1>10. CASE Elsewhere
  BY <1>10, ElsewhereKeepsInv
<1> QED
  BY <1>1, <1>2, <1>3, <1>4, <1>5, <1>6, <1>7, <1>9, <1>10 DEF Next, Task

\* The inductive invariant holds in every reachable state.
THEOREM Invariance == Spec => []Inv
<1>1. Init => Inv
  BY InitInv
<1>2. Inv /\ [Next]_vars => Inv'
  BY NextKeepsInv
<1> QED
  BY <1>1, <1>2, PTL DEF Spec

\* Every variable of the log writer keeps to its type.
THEOREM TypeCorrect == Spec => []TypeOK
  BY Invariance, PTL DEF Inv

\* The log is in the order of the messages, over all files and restarts.
THEOREM LogInOrder == Spec => []CardInOrder
<1>1. Inv => CardInOrder
  BY DEF Inv, Order, Ascending, CardInOrder
<1> QED
  BY <1>1, Invariance, PTL

\* The card is a journal to whoever reads it: it grows at its end, in order, and
\* loses no more than an unflushed tail, whichever call or the power fails.
THEOREM CardIsJournal == Spec => ImplementsJournal
<1>1. Init => J!Init
  BY DEF Init, J!Init
<1>2. Inv /\ [Next]_vars => [J!Next]_journalVars
  BY StepIsJournal
<1> QED
  BY <1>1, <1>2, Invariance, PTL DEF Spec, ImplementsJournal, J!Spec, journalVars

\* When the task waits at an empty queue, a power cut costs nothing, unless the
\* card has refused the flush.
THEOREM IdleIsDurable == Spec => []DurableWhenIdle
<1>1. Inv => DurableWhenIdle
  BY DEF Inv, Flushed, DurableWhenIdle
<1> QED
  BY <1>1, Invariance, PTL
-----------------------------------------------------------------------------
(* What became of every message *)

\* What is on the card since the last start.
Written == {card[i] : i \in (base + 1)..Len(card)}
OnHand == IF hand = NoMsg THEN {} ELSE {hand}

EmptyHand == pc \notin {"rotate", "create", "write"} => hand = NoMsg

Kept ==
    /\ EmptyHand
    /\ Written \cup OnHand \cup ToSet(queue) = ToSet(accepted) \ (skipped \cup failed)
    /\ ToSet(accepted) \cup skipped \cup failed \subseteq 0..msgs

LEMMA Elem == ASSUME NEW s, NEW i \in DOMAIN s PROVE s[i] \in ToSet(s)
  BY DEF ToSet

LEMMA ElemAt == ASSUME NEW s, NEW x \in ToSet(s) PROVE \E i \in DOMAIN s : s[i] = x
  BY DEF ToSet

LEMMA SetOfNothing == ToSet(<<>>) = {}
  BY DEF ToSet

LEMMA SetOfAppend ==
    ASSUME NEW S, NEW s \in Seq(S), NEW e \in S
    PROVE  ToSet(Append(s, e)) = ToSet(s) \cup {e}
<1> DEFINE t == Append(s, e)
<1>1. /\ t \in Seq(S) /\ Len(t) = Len(s) + 1 /\ Len(s) \in Nat /\ DOMAIN s = 1..Len(s)
      /\ \A i \in 1..Len(s) : t[i] = s[i]
      /\ t[Len(s) + 1] = e
  BY AppendProperties, LenProperties
<1>2. DOMAIN t = 1..(Len(s) + 1)
  BY <1>1, LenProperties
<1> HIDE DEF t
<1>3. ASSUME NEW x \in ToSet(t) PROVE x \in ToSet(s) \cup {e}
  <2>1. PICK i \in DOMAIN t : t[i] = x
    BY ElemAt
  <2>2. i \in 1..Len(s) \/ i = Len(s) + 1
    BY <1>1, <1>2
  <2> QED
    BY <1>1, <2>1, <2>2, Elem
<1>4. ASSUME NEW x \in ToSet(s) PROVE x \in ToSet(t)
  <2>1. PICK i \in DOMAIN s : s[i] = x
    BY ElemAt
  <2>2. i \in 1..(Len(s) + 1)
    BY <1>1
  <2> QED
    BY <1>1, <1>2, <2>1, <2>2, Elem
<1>5. e \in ToSet(t)
  <2>1. Len(s) + 1 \in 1..(Len(s) + 1)
    BY <1>1
  <2> QED
    BY <1>1, <1>2, <2>1, Elem
<1>6. ToSet(t) = ToSet(s) \cup {e}
  BY <1>3, <1>4, <1>5
<1> QED
  BY <1>6 DEF t

LEMMA SetOfTail ==
    ASSUME NEW S, NEW s \in Seq(S), s # <<>>
    PROVE  ToSet(s) = {Head(s)} \cup ToSet(Tail(s))
<1> DEFINE t == Tail(s)
<1>1. /\ t \in Seq(S) /\ Len(s) \in Nat \ {0} /\ DOMAIN s = 1..Len(s) /\ Head(s) = s[1]
      /\ DOMAIN t = 1..(Len(s) - 1)
      /\ \A i \in 1..(Len(s) - 1) : t[i] = s[i + 1]
  BY HeadTailProperties, LenProperties
<1> HIDE DEF t
<1>2. ASSUME NEW x \in ToSet(s) PROVE x \in {Head(s)} \cup ToSet(t)
  <2>1. PICK i \in DOMAIN s : s[i] = x
    BY ElemAt
  <2>2. i = 1 \/ (i - 1 \in 1..(Len(s) - 1) /\ (i - 1) + 1 = i)
    BY <1>1
  <2>3. CASE i = 1
    BY <1>1, <2>1, <2>3
  <2>4. CASE i - 1 \in 1..(Len(s) - 1) /\ (i - 1) + 1 = i
    <3>1. t[i - 1] = x
      BY <1>1, <2>1, <2>4
    <3> QED
      BY <1>1, <2>4, <3>1, Elem
  <2> QED
    BY <2>2, <2>3, <2>4
<1>3. ASSUME NEW x \in ToSet(t) PROVE x \in ToSet(s)
  <2>1. PICK i \in DOMAIN t : t[i] = x
    BY ElemAt
  <2>2. i + 1 \in 1..Len(s)
    BY <1>1
  <2> QED
    BY <1>1, <2>1, <2>2, Elem
<1>4. Head(s) \in ToSet(s)
  <2>1. 1 \in 1..Len(s)
    BY <1>1
  <2> QED
    BY <1>1, <2>1, Elem
<1>5. ToSet(s) = {Head(s)} \cup ToSet(t)
  BY <1>2, <1>3, <1>4
<1> QED
  BY <1>5 DEF t

\* A run behind another whose messages all come before it makes one run.
LEMMA JoinAscends ==
    ASSUME NEW s \in Seq(Nat), NEW t \in Seq(Nat), Ascending(s), Ascending(t),
           \A k \in DOMAIN t : AllBelow(s, t[k])
    PROVE  /\ s \o t \in Seq(Nat) /\ Ascending(s \o t)
           /\ ToSet(s \o t) = ToSet(s) \cup ToSet(t)
<1> DEFINE u == s \o t
           m == Len(s)
           n == Len(t)
<1>1. m \in Nat /\ n \in Nat /\ DOMAIN s = 1..m /\ DOMAIN t = 1..n
  BY LenProperties
<1>2. /\ u \in Seq(Nat) /\ Len(u) = m + n
      /\ \A i \in 1..(m + n) : u[i] = IF i <= m THEN s[i] ELSE t[i - m]
  BY ConcatProperties
<1>3. DOMAIN u = 1..(m + n)
  BY <1>2, LenProperties
<1> HIDE DEF u, m, n
<1>4. ASSUME NEW i \in DOMAIN s PROVE i \in DOMAIN u /\ u[i] = s[i]
  <2>1. i \in 1..(m + n) /\ i <= m
    BY <1>1
  <2> QED
    BY <1>1, <1>2, <1>3, <2>1
<1>5. ASSUME NEW i \in DOMAIN t PROVE i + m \in DOMAIN u /\ u[i + m] = t[i]
  <2>1. i + m \in 1..(m + n) /\ ~(i + m <= m) /\ (i + m) - m = i
    BY <1>1
  <2> QED
    BY <1>2, <1>3, <2>1
<1>6. ASSUME NEW i \in DOMAIN u
      PROVE  \/ i \in DOMAIN s /\ u[i] = s[i] /\ i <= m
             \/ i - m \in DOMAIN t /\ u[i] = t[i - m] /\ i > m
  <2>1. i \in 1..(m + n)
    BY <1>3
  <2>2. u[i] = IF i <= m THEN s[i] ELSE t[i - m]
    BY <1>2, <2>1
  <2>3. i <= m => i \in 1..m
    BY <1>1, <2>1
  <2>4. ~(i <= m) => i - m \in 1..n /\ i > m
    BY <1>1, <2>1
  <2> QED
    BY <1>1, <2>2, <2>3, <2>4
<1>7. ToSet(u) = ToSet(s) \cup ToSet(t)
  <2>1. ASSUME NEW x \in ToSet(u) PROVE x \in ToSet(s) \cup ToSet(t)
    BY <1>6, Elem, ElemAt
  <2>2. ASSUME NEW x \in ToSet(s) \cup ToSet(t) PROVE x \in ToSet(u)
    BY <1>4, <1>5, Elem, ElemAt
  <2> QED
    BY <2>1, <2>2
<1>8. Ascending(u)
  <2> SUFFICES ASSUME NEW i \in DOMAIN u, NEW j \in DOMAIN u, i < j PROVE u[i] < u[j]
    BY DEF Ascending
  <2>1. i \in Int /\ j \in Int
    BY <1>3
  <2>2. CASE i \in DOMAIN s /\ u[i] = s[i] /\ j \in DOMAIN s /\ u[j] = s[j]
    BY <2>2 DEF Ascending
  <2>3. CASE i \in DOMAIN s /\ u[i] = s[i] /\ j - m \in DOMAIN t /\ u[j] = t[j - m]
    BY <2>3 DEF AllBelow
  <2>4. CASE i - m \in DOMAIN t /\ u[i] = t[i - m] /\ j - m \in DOMAIN t /\ u[j] = t[j - m]
    <3>1. i - m < j - m
      BY <1>1, <2>1
    <3> QED
      BY <2>4, <3>1 DEF Ascending
  <2>5. ~(i > m /\ j <= m)
    BY <1>1, <2>1
  <2> QED
    BY <1>6, <2>2, <2>3, <2>4, <2>5
<1> QED
  BY <1>2, <1>7, <1>8 DEF u

\* The message in hand is nowhere else.
LEMMA HandIsAlone ==
    ASSUME Inv, hand # NoMsg
    PROVE  hand \notin Written /\ hand \notin ToSet(queue)
<1>1. /\ card \in Seq(Messages) /\ base \in 0..Len(card) /\ hand \in Nat
      /\ AllBelow(card, hand) /\ \A k \in DOMAIN queue : hand < queue[k]
  BY MessagesAreNat DEF Inv, Order, TypeOK, NoMsg
<1>2. ASSUME NEW i \in (base + 1)..Len(card) PROVE card[i] # hand
  <2>1. i \in DOMAIN card
    BY <1>1
  <2> QED
    BY <1>1, <2>1 DEF AllBelow
<1>3. ASSUME NEW x \in ToSet(queue) PROVE x # hand
  BY <1>1, ElemAt
<1> QED
  BY <1>2, <1>3 DEF Written

\* What stdio held after the first n messages.
Lost(n) == {card[i] : i \in (n + 1)..Len(card)}

\* A loss takes messages off the card that are nowhere else.
LEMMA LossIsClean ==
    ASSUME Inv, NEW n \in durable..Len(card), card' = SubSeq(card, 1, n), base' = base
    PROVE  /\ Written = Written' \cup Lost(n)
           /\ Written' \cap Lost(n) = {}
           /\ hand \notin Lost(n)
           /\ Lost(n) \cap ToSet(queue) = {}
<1>1. /\ card \in Seq(Messages) /\ durable \in 0..Len(card) /\ base \in 0..Len(card)
      /\ Len(card) \in Nat /\ base <= durable
  BY LengthIsNat DEF Inv, TypeOK, Flushed
<1>2. n \in 0..Len(card) /\ base <= n
  BY <1>1
<1>3. Len(card') = n /\ \A i \in 1..n : card'[i] = card[i]
  BY <1>1, <1>2, PrefixAscends
<1>4. Written' = {card[i] : i \in (base + 1)..n}
  <2>1. \A i \in (base + 1)..n : i \in 1..n
    BY <1>1, <1>2
  <2> QED
    BY <1>3, <2>1 DEF Written
<1>5. (base + 1)..Len(card) = ((base + 1)..n) \cup ((n + 1)..Len(card))
  BY <1>1, <1>2
<1>6. Written = Written' \cup Lost(n)
  BY <1>4, <1>5 DEF Written, Lost
<1>7. \A i \in (n + 1)..Len(card) :
         i \in DOMAIN card /\ card[i] \in Messages /\ card[i] \in Nat /\ card[i] # NoMsg
  <2>1. \A i \in (n + 1)..Len(card) : i \in DOMAIN card /\ card[i] \in Messages
    BY <1>1, <1>2
  <2> QED
    BY <2>1, LogAssumption DEF Messages, NoMsg
<1>8. ASSUME NEW i \in (base + 1)..n, NEW j \in (n + 1)..Len(card) PROVE card[i] # card[j]
  <2>1. i \in DOMAIN card /\ i < j
    BY <1>1, <1>2
  <2> QED
    BY <1>7, <2>1 DEF Inv, Order, Ascending
<1>9. Written' \cap Lost(n) = {}
  BY <1>4, <1>8 DEF Lost
<1>10. hand \notin Lost(n)
  <2>1. hand \in Nat
    BY MessagesAreNat DEF Inv, TypeOK, NoMsg
  <2>2. \A i \in (n + 1)..Len(card) : card[i] # hand
    <3>1. CASE hand = NoMsg
      BY <1>7, <3>1
    <3>2. CASE hand # NoMsg
      BY <1>7, <2>1, <3>2 DEF Inv, Order, AllBelow
    <3> QED
      BY <3>1, <3>2
  <2> QED
    BY <2>2 DEF Lost
<1>11. ASSUME NEW x \in ToSet(queue) PROVE x \notin Lost(n)
  <2>1. PICK k \in DOMAIN queue : queue[k] = x
    BY ElemAt
  <2> QED
    BY <1>7, <2>1 DEF Inv, Order, AllBelow, Lost
<1> QED
  BY <1>6, <1>9, <1>10, <1>11

\* ... and puts them on record.
LEMMA LossKeepsKept ==
    ASSUME Inv, Kept, NEW n \in durable..Len(card), LoseAfter(n), EmptyHand',
           UNCHANGED <<queue, hand, msgs, accepted, base, skipped>>
    PROVE  Kept'
<1>1. /\ Written = Written' \cup Lost(n) /\ Written' \cap Lost(n) = {}
      /\ hand \notin Lost(n) /\ Lost(n) \cap ToSet(queue) = {}
  BY LossIsClean DEF LoseAfter
<1>2. failed' = failed \cup Lost(n)
  BY DEF LoseAfter, Lost
<1>3. OnHand' = OnHand /\ OnHand \cap Lost(n) = {}
  BY <1>1 DEF OnHand
<1> QED
  BY <1>1, <1>2, <1>3 DEF Kept

LEMMA InitKept == Init => Kept
<1> SUFFICES ASSUME Init PROVE Kept
  OBVIOUS
<1>1. Written = {} /\ OnHand = {} /\ ToSet(queue) = {} /\ ToSet(accepted) = {}
  BY SetOfNothing DEF Init, Written, OnHand
<1> QED
  BY <1>1 DEF Init, Kept, EmptyHand

LEMMA OthersLeaveKept ==
    ASSUME Kept, UNCHANGED <<queue, hand, card, msgs, history>>, EmptyHand'
    PROVE  Kept'
  BY DEF Kept, Written, OnHand, history

LEMMA WriteStrKeepsKept == ASSUME Inv, Kept, WriteStr PROVE Kept'
<1>1. /\ msgs' = msgs + 1
      /\ UNCHANGED <<pc, hand, card, base, skipped, failed>>
      /\ \/ queue' = Append(queue, msgs + 1) /\ accepted' = Append(accepted, msgs + 1)
         \/ UNCHANGED <<queue, accepted>>
  BY DEF WriteStr
<1>2. /\ msgs \in Nat /\ queue \in Seq(Nat) /\ accepted \in Seq(Nat) /\ msgs + 1 \in Nat
      /\ 0..msgs \subseteq 0..(msgs + 1)
  BY MessagesAreNat DEF Inv, TypeOK
<1>3. Written' = Written /\ OnHand' = OnHand /\ EmptyHand'
  BY <1>1 DEF Written, OnHand, Kept, EmptyHand
<1>4. CASE UNCHANGED <<queue, accepted>>
  BY <1>1, <1>2, <1>3, <1>4 DEF Kept
<1>5. CASE queue' = Append(queue, msgs + 1) /\ accepted' = Append(accepted, msgs + 1)
  <2>1. /\ ToSet(queue') = ToSet(queue) \cup {msgs + 1}
        /\ ToSet(accepted') = ToSet(accepted) \cup {msgs + 1}
    <3> DEFINE e == msgs + 1
    <3>1. e \in Nat
      BY <1>2
    <3> HIDE DEF e
    <3>2. \A s \in Seq(Nat) : ToSet(Append(s, e)) = ToSet(s) \cup {e}
      BY <3>1, SetOfAppend
    <3> QED
      BY <1>2, <1>5, <3>2 DEF e
  <2>2. msgs + 1 \notin skipped \cup failed /\ msgs + 1 \in 0..(msgs + 1)
    BY <1>2 DEF Kept
  <2> QED
    BY <1>1, <1>2, <1>3, <2>1, <2>2 DEF Kept
<1> QED
  BY <1>1, <1>4, <1>5

LEMMA PopKeepsKept == ASSUME Inv, Kept, PopMessage PROVE Kept'
<1>1. /\ queue # <<>> /\ hand' = Head(queue) /\ queue' = Tail(queue) /\ pc = "pop" /\ pc' = "rotate"
      /\ UNCHANGED <<card, skipped, failed, msgs, accepted, base>>
  BY DEF PopMessage, onFile, taskRest
<1>2. queue \in Seq(Messages)
  BY DEF Inv, TypeOK
<1>3. /\ ToSet(queue) = {hand'} \cup ToSet(queue') /\ hand' \in Messages
  BY <1>1, <1>2, SetOfTail, HeadTailFacts
<1>4. hand' # NoMsg
  BY <1>3 DEF Messages, NoMsg
<1>5. Written' = Written /\ OnHand' = {hand'} /\ OnHand = {}
  BY <1>1, <1>4 DEF Written, OnHand, Kept, EmptyHand
<1> QED
  BY <1>1, <1>3, <1>5 DEF Kept, EmptyHand

LEMMA WriteKeepsKept == ASSUME Inv, Kept, WriteMessage PROVE Kept'
<1>1. /\ hand' = NoMsg /\ UNCHANGED <<queue, msgs, accepted, base>> /\ pc = "write"
  BY DEF WriteMessage, taskRest
<1>2. hand \in Messages /\ hand # NoMsg
  BY <1>1 DEF Inv, HandOK, Messages, NoMsg
<1>3. /\ OnHand = {hand} /\ OnHand' = {}
      /\ hand \notin Written /\ hand \notin ToSet(queue) /\ hand \in ToSet(accepted)
      /\ hand \notin skipped \cup failed
  BY <1>1, <1>2, HandIsAlone DEF OnHand, Kept
<1>4. CASE card' = Append(card, hand) /\ UNCHANGED <<skipped, failed>>
  <2>1. /\ card \in Seq(Messages) /\ base \in 0..Len(card) /\ Len(card) \in Nat
    BY DEF Inv, TypeOK
  <2>2. /\ Len(card') = Len(card) + 1 /\ card'[Len(card) + 1] = hand
        /\ \A i \in 1..Len(card) : card'[i] = card[i]
    BY <1>2, <1>4, <2>1, AppendProperties
  <2>3. (base + 1)..(Len(card) + 1) = ((base + 1)..Len(card)) \cup {Len(card) + 1}
    BY <2>1
  <2>4. \A i \in (base + 1)..Len(card) : i \in 1..Len(card)
    BY <2>1
  <2>5. Written' = Written \cup {hand}
    BY <1>1, <2>2, <2>3, <2>4 DEF Written
  <2> QED
    BY <1>1, <1>3, <1>4, <2>5 DEF Kept, EmptyHand
<1>5. CASE UNCHANGED <<card, failed>> /\ skipped' = skipped \cup {hand}
  <2>1. Written' = Written
    BY <1>1, <1>5 DEF Written
  <2> QED
    BY <1>1, <1>3, <1>5, <2>1 DEF Kept, EmptyHand
<1>6. CASE /\ UNCHANGED skipped
           /\ \E n \in durable..Len(card) :
                 /\ card' = SubSeq(card, 1, n)
                 /\ failed' = failed \cup {hand} \cup {card[i] : i \in (n + 1)..Len(card)}
  <2> PICK n \in durable..Len(card) :
         /\ card' = SubSeq(card, 1, n)
         /\ failed' = failed \cup {hand} \cup {card[i] : i \in (n + 1)..Len(card)}
    BY <1>6
  <2>1. /\ Written = Written' \cup Lost(n) /\ Written' \cap Lost(n) = {}
        /\ Lost(n) \cap ToSet(queue) = {}
    BY <1>1, LossIsClean
  <2>2. failed' = failed \cup {hand} \cup Lost(n)
    BY DEF Lost
  <2> QED
    BY <1>1, <1>3, <1>6, <2>1, <2>2 DEF Kept, EmptyHand
<1> QED
  BY <1>4, <1>5, <1>6 DEF WriteMessage, onFile

\* After a power cut nothing has been taken yet.
LEMMA PowerCutKeepsKept == ASSUME Inv, Kept, PowerCut PROVE Kept'
<1>1. PICK n \in durable..Len(card) : card' = SubSeq(card, 1, n) /\ base' = n
  BY DEF PowerCut
<1>2. /\ queue' = <<>> /\ hand' = NoMsg /\ accepted' = <<>> /\ skipped' = {} /\ failed' = {}
  BY DEF PowerCut
<1>3. card \in Seq(Messages) /\ n \in 0..Len(card)
  BY LengthIsNat DEF Inv, TypeOK
<1>4. Len(card') = n
  BY <1>1, <1>3, PrefixAscends
<1>5. Written' = {} /\ OnHand' = {}
  BY <1>1, <1>2, <1>3, <1>4 DEF Written, OnHand
<1> QED
  BY <1>2, <1>5, SetOfNothing DEF Kept, EmptyHand

LEMMA NextKeepsKept == Inv /\ Kept /\ [Next]_vars => Kept'
<1> SUFFICES ASSUME Inv, Kept, [Next]_vars PROVE Kept'
  OBVIOUS
<1>1. CASE UNCHANGED vars \/ Elsewhere
  BY <1>1, OthersLeaveKept DEF vars, Elsewhere, Kept, EmptyHand
<1>2. CASE TimeKnown \/ NextFile
  BY <1>2, OthersLeaveKept DEF TimeKnown, NextFile, taskRest, history, Kept, EmptyHand
<1>4. CASE Rotate \/ FlushIfEmpty
  <2>1. /\ UNCHANGED <<queue, hand, msgs, accepted, base, skipped>> /\ EmptyHand'
        /\ \/ UNCHANGED <<card, failed>>
           \/ \E n \in durable..Len(card) : LoseAfter(n)
    BY <1>4 DEF Rotate, FlushIfEmpty, CloseFile, FlushFile, onFile, taskRest, Kept, EmptyHand
  <2>2. CASE UNCHANGED <<card, failed>>
    BY <2>1, <2>2, OthersLeaveKept DEF history
  <2> QED
    BY <2>1, <2>2, LossKeepsKept
<1>3. CASE WriteStr \/ PopMessage \/ WriteMessage \/ PowerCut
  BY <1>3, WriteStrKeepsKept, PopKeepsKept, WriteKeepsKept, PowerCutKeepsKept
<1> QED
  BY <1>1, <1>2, <1>3, <1>4 DEF Next, Task

\* Between two starts no message is lost, repeated or overtaken on its way
\* from the queue to the card, however files are rotated, but for those popped
\* without a file or refused by the card, at whichever call it shows.
THEOREM EveryMessageAccounted == Spec => []Accounted
<1>1. Inv /\ Kept => Accounted
  <2> SUFFICES ASSUME Inv, Kept PROVE Accounted
    OBVIOUS
  <2> DEFINE since == SubSeq(card, base + 1, Len(card))
             held == IF hand = NoMsg THEN <<>> ELSE <<hand>>
             n == Len(card) - base
  <2>1. /\ card \in Seq(Nat) /\ base \in 0..Len(card) /\ Len(card) \in Nat
        /\ queue \in Seq(Nat) /\ hand \in Nat
    BY MessagesAreNat DEF Inv, TypeOK, NoMsg
  <2>2. /\ since \in Seq(Nat) /\ n \in Nat /\ DOMAIN since = 1..n
        /\ \A i \in 1..n : i + base \in DOMAIN card /\ since[i] = card[i + base]
    BY <2>1
  <2> HIDE DEF since
  <2>3. ToSet(since) = Written
    <3>1. ASSUME NEW x \in ToSet(since) PROVE x \in Written
      <4>1. PICK i \in 1..n : since[i] = x
        BY <2>2, ElemAt
      <4>2. i + base \in (base + 1)..Len(card)
        BY <2>1, <2>2
      <4> QED
        BY <2>2, <4>1, <4>2 DEF Written
    <3>2. ASSUME NEW x \in Written PROVE x \in ToSet(since)
      <4>1. PICK i \in (base + 1)..Len(card) : card[i] = x
        BY DEF Written
      <4>2. i - base \in 1..n /\ (i - base) + base = i
        BY <2>1
      <4> QED
        BY <2>2, <4>1, <4>2, Elem
    <3> QED
      BY <3>1, <3>2
  <2>4. Ascending(since)
    <3> SUFFICES ASSUME NEW i \in 1..n, NEW j \in 1..n, i < j PROVE since[i] < since[j]
      BY <2>2 DEF Ascending
    <3>1. i + base < j + base
      BY <2>1
    <3> QED
      BY <2>2, <3>1 DEF Inv, Order, Ascending
  <2>5. \A m : AllBelow(card, m) => AllBelow(since, m)
    BY <2>2 DEF AllBelow
  <2>6. /\ held \in Seq(Nat) /\ Ascending(held) /\ ToSet(held) = OnHand
        /\ \A k \in DOMAIN held : held[k] = hand /\ hand # NoMsg
    <3>1. CASE hand = NoMsg
      BY <3>1, SetOfNothing DEF Ascending, OnHand
    <3>2. CASE hand # NoMsg
      <4>1. DOMAIN <<hand>> = {1} /\ <<hand>>[1] = hand /\ <<hand>> \in Seq(Nat)
        BY <2>1
      <4>2. ToSet(<<hand>>) = {hand} /\ Ascending(<<hand>>)
        BY <4>1 DEF ToSet, Ascending
      <4> QED
        BY <3>2, <4>1, <4>2 DEF OnHand
    <3> QED
      BY <3>1, <3>2
  <2> HIDE DEF held
  <2> DEFINE front == since \o held
  <2>7. front \in Seq(Nat) /\ Ascending(front) /\ ToSet(front) = Written \cup OnHand
    <3>1. \A k \in DOMAIN held : AllBelow(since, held[k])
      BY <2>5, <2>6 DEF Inv, Order
    <3> QED
      BY <2>2, <2>3, <2>4, <2>6, <3>1, JoinAscends
  <2> HIDE DEF front
  <2>8. \A k \in DOMAIN queue : AllBelow(front, queue[k])
    <3> SUFFICES ASSUME NEW k \in DOMAIN queue, NEW i \in DOMAIN front
                 PROVE  front[i] < queue[k]
      BY DEF AllBelow
    <3>1. front[i] \in Written \cup OnHand
      BY <2>7, Elem
    <3>2. CASE front[i] \in Written
      <4>1. PICK j \in (base + 1)..Len(card) : card[j] = front[i]
        BY <3>2 DEF Written
      <4>2. j \in DOMAIN card
        BY <2>1
      <4> QED
        BY <4>1, <4>2 DEF Inv, Order, AllBelow
    <3>3. CASE front[i] \in OnHand
      BY <3>3 DEF OnHand, Inv, Order
    <3> QED
      BY <3>1, <3>2, <3>3
  <2> DEFINE kept == front \o queue
  <2>9. Ascending(kept) /\ ToSet(kept) = Written \cup OnHand \cup ToSet(queue)
    BY <2>1, <2>7, <2>8, JoinAscends DEF Inv, Order
  <2>10. kept = SubSeq(card, base + 1, Len(card))
                    \o (IF hand = NoMsg THEN <<>> ELSE <<hand>>) \o queue
    BY DEF front, since, held
  <2> HIDE DEF kept
  <2> QED
    BY <2>9, <2>10 DEF Accounted, Ascending, Kept
<1> QED
  BY <1>1, InitKept, NextKeepsKept, Invariance, PTL DEF Spec

-----------------------------------------------------------------------------
(* Terminal *)

WebFiles == handles["web"] = IF srv = "send" THEN 1 ELSE 0

Download ==
    /\ size \in Nat /\ size <= durable
    /\ at \in 0..size
    /\ given \in Seq(Messages)
    /\ Len(given) <= durable
    /\ \A i \in 1..Len(given) : given[i] = card[i]

WholeInv == Inv /\ WebFiles /\ Download
-----------------------------------------------------------------------------
(* The whole implements the log writer *)

\* The server opens a file only while it has none.
LEMMA BrowseIsElsewhere ==
    ASSUME Inv, WebFiles, Browse
    PROVE  [Next]_vars /\ WebFiles'
<1>1. /\ handles \in [Users -> 0..MaxFiles] /\ MaxFiles \in Nat \ {0}
      /\ faults \in 0..MaxFaults /\ MaxFaults \in Nat
      /\ handles["web"] \in Nat
  BY HandlesType, StorageAssumption DEF Inv, TypeOK, WebFiles
<1>2. /\ UNCHANGED <<queue, pc, hand, open, failing, mounted, card, durable,
                     msgs, history, counts>>
  BY DEF Browse, Serve, OpenForRead, SendChunk, onCard
<1>3. /\ \E n \in 0..MaxFiles : handles' = [handles EXCEPT !["web"] = n]
      /\ faults' \in faults..MaxFaults
      /\ WebFiles'
  <2>1. CASE OpenForRead
    <3>1. PICK ok \in BOOLEAN :
             /\ Fopen("web", handles, ok)
             /\ (ok /\ srv' = "send" /\ size' = durable) \/ (~ok /\ UNCHANGED <<srv, size>>)
      BY <2>1 DEF OpenForRead
    <3>2. handles["web"] = 0 /\ srv = "idle"
      BY <2>1 DEF OpenForRead, WebFiles
    <3>3. CASE ok = TRUE
      <4>a. /\ handles' = [handles EXCEPT !["web"] = handles["web"] + 1]
            /\ faults' = faults
        BY <3>1, <3>3 DEF Fopen
      <4>b. handles["web"] + 1 = 1
        BY <3>2
      <4>c. srv' = "send"
        BY <3>1, <3>3
      <4>1. handles' = [handles EXCEPT !["web"] = 1] /\ faults' = faults /\ srv' = "send"
        BY <4>a, <4>b, <4>c
      <4>2. handles'["web"] = 1
        BY <4>1, <1>1 DEF Users
      <4>3. WebFiles'
        BY <4>1, <4>2 DEF WebFiles
      <4>4. 1 \in 0..MaxFiles /\ faults' \in faults..MaxFaults
        BY <1>1, <4>1
      <4> QED
        BY <4>1, <4>3, <4>4
    <3>4. CASE ok = FALSE
      <4>1. handles' = handles /\ srv' = "idle"
        BY <3>1, <3>2, <3>4 DEF Fopen
      <4>2. faults' \in faults..MaxFaults
        BY <1>1, <3>1, <3>4 DEF Fopen, Fault
      <4>3. handles = [handles EXCEPT !["web"] = 0]
        BY <3>2, <1>1 DEF Users
      <4> QED
        BY <1>1, <3>2, <4>1, <4>2, <4>3 DEF WebFiles
    <3> QED
      BY <3>3, <3>4
  <2>2. CASE SendChunk
    <3>1. handles["web"] = 1 /\ srv = "send"
      BY <2>2 DEF SendChunk, WebFiles
    <3>2. faults' \in faults..MaxFaults
      BY <1>1, <2>2 DEF SendChunk, Fault
    <3>3. CASE handles' = handles /\ srv' = srv
      <4>1. handles = [handles EXCEPT !["web"] = 1]
        BY <3>1, <1>1 DEF Users
      <4> QED
        BY <1>1, <3>1, <3>2, <3>3, <4>1 DEF WebFiles
    <3>4. CASE handles' = Fclose("web", handles) /\ srv' = "idle"
      <4>1. handles' = [handles EXCEPT !["web"] = 0]
        BY <3>1, <3>4, <1>1 DEF Fclose, Users
      <4>2. handles'["web"] = 0
        BY <4>1, <1>1 DEF Users
      <4> QED
        BY <1>1, <3>2, <3>4, <4>1, <4>2 DEF WebFiles
    <3> QED
      BY <2>2, <3>3, <3>4 DEF SendChunk, Finish
  <2> QED
    BY <2>1, <2>2 DEF Browse, Serve
<1>4. Elsewhere
  BY <1>2, <1>3 DEF Elsewhere
<1> QED
  BY <1>3, <1>4 DEF Next

\* Steps of the log and of the broadcaster leave the server's files alone.
LEMMA LogKeepsWebFiles ==
    ASSUME Inv, WebFiles, WriteStr \/ Task, UNCHANGED server
    PROVE  WebFiles'
<1>1. handles \in [Users -> 0..MaxFiles]
  BY HandlesType DEF Inv
<1>2. CreateFile => handles'["web"] = handles["web"]
  BY <1>1 DEF CreateFile, Fopen, Users
<1>3. CASE WriteStr \/ PopMessage \/ WriteMessage \/ FlushIfEmpty
  BY <1>3 DEF WebFiles, WriteStr, PopMessage, WriteMessage, FlushIfEmpty, storage, server
<1>4. CASE TimeKnown \/ NextFile
  BY <1>2, <1>4 DEF TimeKnown, NextFile, WebFiles, server
<1>5. CASE Rotate
  <2>1. CASE UNCHANGED handles
    BY <2>1 DEF WebFiles, server
  <2>2. CASE open /\ handles' = Fclose("log", handles)
    <3>1. handles' = [handles EXCEPT !["log"] = 0]
      BY <2>2, HandlesType DEF Inv, OneFile, Fclose, Users
    <3>2. handles'["web"] = handles["web"]
      BY <3>1, HandlesType DEF Inv, Users
    <3> QED
      BY <3>2 DEF WebFiles, server
  <2> QED
    BY <1>5, <2>1, <2>2 DEF Rotate, CloseFile
<1> QED
  BY <1>3, <1>4, <1>5 DEF Task

LEMMA StepIsLogStep ==
    Inv /\ WebFiles /\ [TerminalNext]_allVars => [Next]_vars /\ WebFiles'
<1> SUFFICES ASSUME Inv, WebFiles, [TerminalNext]_allVars
             PROVE  [Next]_vars /\ WebFiles'
  OBVIOUS
<1>1. CASE Browse
  BY <1>1, BrowseIsElsewhere
<1>2. CASE Restart
  <2>1. handles' = [u \in Users |-> 0] /\ srv' = "idle"
    BY <1>2 DEF Restart, PowerCut
  <2> QED
    BY <1>2, <2>1 DEF Restart, Next, WebFiles, Users
<1>3. CASE UNCHANGED <<vars, server>>
  BY <1>3 DEF vars, storage, server, WebFiles
<1>4. CASE (WriteStr \/ Task) /\ UNCHANGED server
  BY <1>4, LogKeepsWebFiles DEF Next
<1>5. CASE Broadcast
  BY <1>3, <1>4, <1>5 DEF Broadcast, TakeText, SendStamp, SendText
<1>6. CASE Arrive \/ Attach \/ HostStep \/ UNCHANGED allVars
  BY <1>3, <1>6 DEF Arrive, Attach, HostStep, allVars
<1>7. CASE LogStep
  BY <1>4, <1>7 DEF LogStep
<1> QED
  BY <1>1, <1>2, <1>5, <1>6, <1>7 DEF TerminalNext

-----------------------------------------------------------------------------
(* Downloads *)

\* What was given and what the open file holds stay on the card.
LEMMA JournalKeepsDownload ==
    ASSUME Inv, Download, [Next]_vars, UNCHANGED server
    PROVE  Download'
<1>1. /\ card \in Seq(Messages) /\ durable \in 0..Len(card) /\ Len(card) \in Nat
      /\ [J!Next]_journalVars
  BY StepIsJournal, LengthIsNat DEF Inv, TypeOK
<1>2. durable' >= durable /\ (\A i \in 1..durable : card'[i] = card[i])
  <2>1. CASE UNCHANGED journalVars
    BY <1>1, <2>1 DEF journalVars
  <2>2. CASE \E e \in Messages : J!Add(e)
    BY <1>1, <2>2 DEF J!Add
  <2>3. CASE J!MakeSafe
    BY <1>1, <2>3 DEF J!MakeSafe
  <2>4. CASE J!Lose
    <3>1. PICK n \in durable..Len(card) : card' = SubSeq(card, 1, n) /\ durable' \in durable..n
      BY <2>4 DEF J!Lose
    <3>2. n \in 0..Len(card) /\ durable <= n /\ durable' >= durable
      BY <1>1, <3>1
    <3> QED
      BY <1>1, <3>1, <3>2, PrefixAscends
  <2> QED
    BY <1>1, <2>1, <2>2, <2>3, <2>4 DEF J!Next
<1>3. durable' \in Nat /\ durable \in Nat
  <2>1. Inv'
    BY NextKeepsInv
  <2>2. card' \in Seq(Messages) /\ durable' \in 0..Len(card')
    BY <2>1 DEF Inv, TypeOK
  <2> QED
    BY <1>1, <2>2, LengthIsNat
<1>4. /\ size' = size /\ at' = at /\ given' = given
  BY DEF server
<1>5. size \in Nat /\ size <= durable'
  BY <1>2, <1>3 DEF Download
<1>6. Len(given) <= durable' /\ \A i \in 1..Len(given) : given[i] = card'[i]
  <2>1. Len(given) \in Nat /\ Len(given) <= durable /\ \A i \in 1..Len(given) : given[i] = card[i]
    BY LengthIsNat DEF Download
  <2>2. \A i \in 1..Len(given) : i \in 1..durable
    BY <2>1, <1>3
  <2> QED
    BY <1>2, <1>3, <2>1, <2>2
<1> QED
  BY <1>4, <1>5, <1>6 DEF Download

LEMMA BrowseKeepsDownload == ASSUME Inv, Download, Browse PROVE Download'
<1>1. /\ card \in Seq(Messages) /\ durable \in 0..Len(card) /\ Len(card) \in Nat
      /\ card' = card /\ durable' = durable
  BY LengthIsNat DEF Inv, TypeOK, Browse, Serve, OpenForRead, SendChunk, onCard
<1>2. CASE OpenForRead
  <2>1. at' = at /\ given' = given /\ (size' = size \/ size' = durable)
    BY <1>2 DEF OpenForRead
  <2>2. at \in 0..size'
    <3>1. size <= durable /\ at \in 0..size /\ size \in Nat
      BY DEF Download
    <3> QED
      BY <1>1, <2>1, <3>1
  <2> QED
    BY <1>1, <2>1, <2>2 DEF Download
<1>3. CASE SendChunk
  <2>1. CASE Finish /\ UNCHANGED given
    BY <1>1, <2>1 DEF Finish, Download
  <2>2. CASE /\ \E n \in 1..ChunkSize : at + n <= size /\ at' = at + n
             /\ given' = Longer(given, SubSeq(card, 1, at'))
             /\ size' = size
    <3>1. at' \in 0..size /\ at' \in 0..Len(card) /\ at' <= durable
      BY <1>1, <2>2, ServerAssumption DEF Download
    <3>2. /\ SubSeq(card, 1, at') \in Seq(Messages)
          /\ Len(SubSeq(card, 1, at')) = at'
          /\ \A i \in 1..at' : SubSeq(card, 1, at')[i] = card[i]
      BY <1>1, <3>1, PrefixAscends
    <3>3. /\ given' \in Seq(Messages) /\ Len(given') <= durable
          /\ \A i \in 1..Len(given') : given'[i] = card[i]
      BY <2>2, <3>1, <3>2 DEF Longer, Download
    <3> QED
      BY <1>1, <2>2, <3>1, <3>3 DEF Download
  <2> QED
    BY <1>3, <2>1, <2>2 DEF SendChunk
<1> QED
  BY <1>2, <1>3 DEF Browse, Serve

\* A power cut ends the request; what was given is still there.
LEMMA RestartKeepsDownload == ASSUME Inv, Download, Restart PROVE Download'
<1>1. /\ card \in Seq(Messages) /\ durable \in 0..Len(card) /\ Len(card) \in Nat
  BY LengthIsNat DEF Inv, TypeOK
<1>2. PICK n \in durable..Len(card) : card' = SubSeq(card, 1, n) /\ durable' = n
  BY DEF Restart, PowerCut
<1>3. n \in 0..Len(card) /\ durable <= n
  BY <1>1
<1>4. /\ \A i \in 1..n : card'[i] = card[i]
      /\ size' = 0 /\ at' = 0 /\ given' = given
  BY <1>1, <1>2, <1>3, PrefixAscends DEF Restart
<1> QED
  BY <1>1, <1>2, <1>3, <1>4 DEF Download

LEMMA WholeStep == WholeInv /\ [TerminalNext]_allVars => WholeInv'
<1> SUFFICES ASSUME WholeInv, [TerminalNext]_allVars PROVE WholeInv'
  OBVIOUS
<1>1. [Next]_vars /\ Inv' /\ WebFiles'
  BY StepIsLogStep, NextKeepsInv DEF WholeInv
<1>2. CASE Browse
  BY <1>1, <1>2, BrowseKeepsDownload DEF WholeInv
<1>3. CASE Restart
  BY <1>1, <1>3, RestartKeepsDownload DEF WholeInv
<1>4. CASE UNCHANGED server
  BY <1>1, <1>4, JournalKeepsDownload DEF WholeInv
<1> QED
  BY <1>2, <1>3, <1>4 DEF TerminalNext, Arrive, Attach, Broadcast, TakeText, SendStamp,
     SendText, LogStep, HostStep, allVars

LEMMA WholeInit == TerminalInit => WholeInv
<1> SUFFICES ASSUME TerminalInit PROVE WholeInv
  OBVIOUS
<1>1. Inv /\ handles = [u \in Users |-> 0] /\ durable = 0
  BY InitInv DEF TerminalInit, Init
<1>2. WebFiles
  BY <1>1 DEF TerminalInit, ServerInit, ServerStart, WebFiles, Users
<1>3. Download
  BY <1>1 DEF TerminalInit, ServerInit, ServerStart, Download
<1> QED
  BY <1>1, <1>2, <1>3 DEF WholeInv

THEOREM WholeInvariance == TerminalSpec => []WholeInv
  BY WholeInit, WholeStep, PTL DEF TerminalSpec

\* Whatever is proved of the log writer alone holds of it here, between the
\* broadcaster and the web server.
THEOREM TerminalIsLogFile == TerminalSpec => Spec
<1>1. TerminalInit => Init
  BY DEF TerminalInit
<1>2. WholeInv /\ [TerminalNext]_allVars => [Next]_vars
  BY StepIsLogStep DEF WholeInv
<1> QED
  BY <1>1, <1>2, WholeInvariance, PTL DEF TerminalSpec, Spec

\* Every file opened is given back, on every path of both its users.
THEOREM NoFileLost == TerminalSpec => []FilesGivenBack
<1>1. WholeInv => FilesGivenBack
  BY DEF WholeInv, Inv, OneFile, WebFiles, FilesGivenBack
<1> QED
  BY <1>1, WholeInvariance, PTL

\* What a browser has downloaded is on the card for good.
THEOREM DownloadsAreSafe == TerminalSpec => []DownloadSurvives
<1>1. WholeInv => DownloadSurvives
  <2> SUFFICES ASSUME WholeInv PROVE DownloadSurvives
    OBVIOUS
  <2>1. /\ card \in Seq(Messages) /\ durable \in 0..Len(card)
        /\ given \in Seq(Messages) /\ Len(given) <= durable
        /\ \A i \in 1..Len(given) : given[i] = card[i]
    BY DEF WholeInv, Inv, TypeOK, Download
  <2>2. /\ SubSeq(card, 1, durable) \in Seq(Messages)
        /\ Len(SubSeq(card, 1, durable)) = durable
        /\ \A i \in 1..durable : SubSeq(card, 1, durable)[i] = card[i]
    BY <2>1, PrefixAscends
  <2> DEFINE t == SubSeq(card, 1, durable)
             k == Len(given)
  <2> HIDE DEF t
  <2>3. /\ t \in Seq(Messages) /\ k \in 0..Len(t) /\ k \in 0..Len(given)
        /\ \A i \in 1..k : given[i] = t[i]
    BY <2>1, <2>2 DEF t
  <2>4. SubSeq(given, 1, k) = SubSeq(t, 1, k)
    BY <2>1, <2>3
  <2> QED
    BY <2>3, <2>4 DEF DownloadSurvives, IsPrefix, t
<1> QED
  BY <1>1, WholeInvariance, PTL

-----------------------------------------------------------------------------
(* The host *)

Texts == Nat \ {0}

Shown ==
    /\ outQueue \in Seq(Texts) /\ outHand \in Nat
    /\ shown \in Seq(Texts) /\ buffered \in Seq(Texts) /\ heard \in Seq(Texts)
    /\ texts \in Nat
    /\ where = "pop" \/ texts \in Texts
    /\ HostInOrder

\* Adding at the end of the last of two sequences adds to both together.
LEMMA AppendToLast ==
    ASSUME NEW S, NEW s \in Seq(S), NEW t \in Seq(S), NEW e \in S
    PROVE  s \o Append(t, e) = Append(s \o t, e)
<1>1. Append(t, e) = t \o <<e>> /\ <<e>> \in Seq(S) /\ s \o t \in Seq(S)
  BY AppendIsConcat, ConcatProperties
<1>2. Append(s \o t, e) = (s \o t) \o <<e>>
  BY <1>1, AppendIsConcat
<1>3. s \o (t \o <<e>>) = (s \o t) \o <<e>>
  BY <1>1, ConcatAssociative
<1> QED
  BY <1>1, <1>2, <1>3

LEMMA HeadThenTail ==
    ASSUME NEW S, NEW s \in Seq(S), s # <<>>
    PROVE  <<Head(s)>> \in Seq(S) /\ <<Head(s)>> \o Tail(s) = s
<1>1. /\ Head(s) \in S /\ Tail(s) \in Seq(S) /\ Len(Tail(s)) = Len(s) - 1
      /\ Len(s) \in Nat \ {0} /\ Head(s) = s[1]
      /\ \A i \in 1..Len(Tail(s)) : Tail(s)[i] = s[i + 1]
  BY HeadTailProperties
<1> DEFINE h == <<Head(s)>>
           t == Tail(s)
<1>2. h \in Seq(S) /\ Len(h) = 1 /\ h[1] = s[1]
  BY <1>1
<1> HIDE DEF h, t
<1>3. /\ h \o t \in Seq(S) /\ Len(h \o t) = Len(h) + Len(t)
      /\ \A i \in 1..(Len(h) + Len(t)) :
            (h \o t)[i] = IF i <= Len(h) THEN h[i] ELSE t[i - Len(h)]
  BY <1>1, <1>2, ConcatProperties DEF t
<1>4. Len(h \o t) = Len(s)
  BY <1>1, <1>2, <1>3 DEF t
<1>5. \A i \in 1..Len(s) : (h \o t)[i] = s[i]
  <2> TAKE i \in 1..Len(s)
  <2>1. CASE i = 1
    BY <1>1, <1>2, <1>3, <2>1
  <2>2. CASE i # 1
    <3>1. i - 1 \in 1..Len(t) /\ i - Len(h) = i - 1
      BY <1>1, <1>2, <2>2 DEF t
    <3>2. t[i - 1] = s[i]
      BY <1>1, <3>1 DEF t
    <3> QED
      BY <1>1, <1>2, <1>3, <1>4, <2>2, <3>1, <3>2
  <2> QED
    BY <2>1, <2>2
<1>6. h \o t = s
  <2> DEFINE ht == h \o t
  <2>1. ht \in Seq(S) /\ Len(ht) = Len(s) /\ \A i \in 1..Len(ht) : ht[i] = s[i]
    BY <1>3, <1>4, <1>5
  <2> HIDE DEF ht
  <2>2. ht = s
    BY <2>1, SeqEqual
  <2> QED
    BY <2>2 DEF ht
<1> QED
  BY <1>2, <1>6 DEF h, t

\* A text joins the queue, or is dropped: what is ahead of it does not change.
LEMMA HearKeepsOrder ==
    ASSUME Shown, NEW t \in Texts, HearText(t)
    PROVE  /\ outQueue' \in Seq(Texts) /\ outHand' \in Nat
           /\ shown' \in Seq(Texts) /\ buffered' \in Seq(Texts) /\ heard' \in Seq(Texts)
           /\ HostInOrder'
<1>1. /\ outHand' = outHand /\ buffered' = buffered /\ shown' = shown
      /\ \/ outQueue' = Append(outQueue, t) /\ heard' = Append(heard, t)
         \/ outQueue' = outQueue /\ heard' = heard
  BY DEF HearText
<1>2. InHand \in Seq(Texts) /\ InHand' = InHand
  <2>1. outHand # 0 => outHand \in Texts
    BY DEF Shown, Texts
  <2>2. InHand = <<>> \/ (outHand \in Texts /\ InHand = <<outHand>>)
    BY <2>1 DEF InHand, NoText
  <2>3. InHand \in Seq(Texts)
    <3>1. CASE InHand = <<>>
      BY <3>1, EmptySeq
    <3>2. CASE outHand \in Texts /\ InHand = <<outHand>>
      <4>1. <<outHand>> \in Seq(Texts)
        BY <3>2
      <4> QED
        BY <3>2, <4>1
    <3> QED
      BY <2>2, <3>1, <3>2
  <2> QED
    BY <1>1, <2>3 DEF InHand
<1>3. PICK ahead \in Seq(Texts) : ahead = shown \o buffered \o InHand
  BY <1>2, ConcatProperties DEF Shown
<1>4. ahead \o outQueue = heard
  BY <1>3 DEF Shown, HostInOrder
<1>5. outQueue \in Seq(Texts) /\ heard \in Seq(Texts)
  BY DEF Shown
<1>6. ahead \o Append(outQueue, t) = Append(heard, t)
  BY <1>4, <1>5, AppendToLast
<1>7. ahead \o outQueue' = heard'
  BY <1>1, <1>4, <1>6
<1>8. HostInOrder'
  BY <1>1, <1>2, <1>3, <1>7 DEF HostInOrder
<1>9. outQueue' \in Seq(Texts) /\ heard' \in Seq(Texts)
  <2>1. Append(outQueue, t) \in Seq(Texts) /\ Append(heard, t) \in Seq(Texts)
    BY <1>5, AppendProperties
  <2> QED
    BY <1>1, <1>5, <2>1
<1> QED
  BY <1>1, <1>8, <1>9 DEF Shown

\* The task moves texts along: from the queue to its hand, to stdout, to the host.
LEMMA TaskKeepsOrder ==
    ASSUME Shown, ByPassTask
    PROVE  /\ outQueue' \in Seq(Texts) /\ outHand' \in Nat
           /\ shown' \in Seq(Texts) /\ buffered' \in Seq(Texts) /\ heard' \in Seq(Texts)
           /\ HostInOrder'
<1>1. CASE PopText
  <2>1. /\ outHand = NoText /\ outQueue # <<>> /\ outHand' = Head(outQueue)
        /\ outQueue' = Tail(outQueue)
        /\ buffered' = buffered /\ shown' = shown /\ heard' = heard
    BY <1>1 DEF PopText
  <2>2. /\ Head(outQueue) \in Texts /\ Tail(outQueue) \in Seq(Texts)
        /\ <<Head(outQueue)>> \in Seq(Texts)
        /\ <<Head(outQueue)>> \o Tail(outQueue) = outQueue
    BY <2>1, HeadThenTail, HeadTailFacts DEF Shown
  <2>3. InHand = <<>> /\ InHand' = <<Head(outQueue)>>
    BY <2>1, <2>2 DEF InHand, Texts, NoText
  <2>4. PICK ahead \in Seq(Texts) : ahead = shown \o buffered
    BY ConcatProperties DEF Shown
  <2>10. ahead \o <<>> = ahead
    BY ConcatEmptySeq
  <2>5. (ahead \o <<Head(outQueue)>>) \o Tail(outQueue)
          = ahead \o (<<Head(outQueue)>> \o Tail(outQueue))
    BY <2>2, <2>4, ConcatAssociative
  <2>6. ahead \o outQueue = heard
    BY <2>3, <2>4, <2>10 DEF Shown, HostInOrder
  <2>7. (shown' \o buffered' \o InHand') \o outQueue' = heard'
    BY <2>1, <2>2, <2>3, <2>4, <2>5, <2>6
  <2>8. HostInOrder'
    BY <2>7 DEF HostInOrder
  <2>9. outHand' \in Nat /\ outQueue' \in Seq(Texts)
    BY <2>1, <2>2 DEF Texts
  <2> QED
    BY <2>1, <2>8, <2>9 DEF Shown
<1>2. CASE PrintText
  <2>1. /\ outHand \in Texts /\ outHand' = NoText /\ outQueue' = outQueue /\ heard' = heard
        /\ InHand = <<outHand>> /\ InHand' = <<>> /\ InHand \in Seq(Texts)
    BY <1>2 DEF PrintText, InHand, Shown, Texts, NoText
  <2>2. Append(buffered, outHand) = buffered \o InHand /\ Append(buffered, outHand) \in Seq(Texts)
    BY <2>1, AppendIsConcat DEF Shown
  <2>3. /\ shown \o (buffered \o InHand) = (shown \o buffered) \o InHand
        /\ shown \o (buffered \o InHand) \in Seq(Texts)
    BY <2>1, <2>2, ConcatAssociative, ConcatProperties DEF Shown
  <2>4. CASE buffered' = Append(buffered, outHand) /\ shown' = shown
    <3>1. shown' \o buffered' = (shown \o buffered) \o InHand
      BY <2>2, <2>3, <2>4
    <3>2. (shown' \o buffered') \o InHand' = (shown \o buffered) \o InHand
      BY <2>1, <2>3, <3>1, ConcatEmptySeq
    <3>3. HostInOrder'
      BY <2>1, <3>2 DEF Shown, HostInOrder
    <3> QED
      BY <2>1, <2>2, <2>4, <3>3 DEF Shown, NoText
  <2>5. CASE buffered' = <<>> /\ shown' = shown \o Append(buffered, outHand)
    <3>1. shown' = (shown \o buffered) \o InHand /\ shown' \in Seq(Texts)
      BY <2>2, <2>3, <2>5
    <3>2. shown' \o <<>> = shown'
      BY <3>1, ConcatEmptySeq
    <3>3. (shown' \o buffered') \o InHand' = shown'
      BY <2>1, <2>5, <3>2
    <3>4. HostInOrder'
      BY <2>1, <3>1, <3>3 DEF Shown, HostInOrder
    <3>5. <<>> \in Seq(Texts)
      OBVIOUS
    <3> QED
      BY <2>1, <2>5, <3>1, <3>4, <3>5 DEF Shown, NoText
  <2> QED
    BY <1>2, <2>4, <2>5 DEF PrintText
<1> QED
  BY <1>1, <1>2 DEF ByPassTask

LEMMA ShownStep == Shown /\ [TerminalNext]_allVars => Shown'
<1> SUFFICES ASSUME Shown, [TerminalNext]_allVars PROVE Shown'
  OBVIOUS
<1>1. CASE UNCHANGED <<out, texts, where>>
  BY <1>1 DEF Shown, HostInOrder, InHand, out
<1>2. CASE TakeText
  BY <1>2 DEF TakeText, Shown, HostInOrder, InHand, out, Texts
<1>3. CASE SendStamp
  BY <1>3 DEF SendStamp, Shown, HostInOrder, InHand, out
<1>4. CASE SendText
  <2>1. texts \in Texts /\ texts' = texts
    BY <1>4 DEF SendText, Shown
  <2>2. CASE UNCHANGED out
    BY <2>1, <2>2 DEF Shown, HostInOrder, InHand, out
  <2>3. CASE HearText(texts)
    <3>1. where' = "pop" \/ texts' \in Texts
      BY <2>1
    <3>2. texts' \in Nat
      BY <2>1 DEF Texts
    <3> QED
      BY <2>1, <2>3, <3>1, <3>2, HearKeepsOrder DEF Shown
  <2> QED
    BY <1>4, <2>2, <2>3 DEF SendText
<1>5. CASE HostStep
  <2>1. texts' = texts /\ where' = where
    BY <1>5 DEF HostStep, proxy
  <2> QED
    BY <1>5, <2>1, TaskKeepsOrder DEF HostStep, Shown
<1>6. CASE Restart
  <2>1. /\ outQueue' = <<>> /\ outHand' = 0 /\ buffered' = <<>> /\ shown' = <<>> /\ heard' = <<>>
        /\ where' = "pop" /\ texts' = texts
    BY <1>6 DEF Restart, NoText
  <2>2. <<>> \in Seq(Texts) /\ <<>> \o <<>> = <<>>
    BY ConcatEmptySeq
  <2>3. HostInOrder'
    BY <2>1, <2>2 DEF HostInOrder, InHand, NoText
  <2> QED
    BY <2>1, <2>2, <2>3 DEF Shown
<1> QED
  BY <1>1, <1>2, <1>3, <1>4, <1>5, <1>6 DEF TerminalNext, Arrive, Attach, Broadcast,
     LogStep, Browse, allVars, proxy

\* The host is shown what the by-pass took, each text once and in order, however
\* long it stops reading.
THEOREM HostIsInOrder == TerminalSpec => []HostInOrder
<1>1. TerminalInit => Shown
  <2>1. <<>> \in Seq(Texts) /\ <<>> \o <<>> = <<>>
    BY ConcatEmptySeq
  <2> QED
    BY <2>1 DEF TerminalInit, ByPassStart, Shown, HostInOrder, InHand, NoText
<1>2. Shown => HostInOrder
  BY DEF Shown
<1> QED
  BY <1>1, <1>2, ShownStep, PTL DEF TerminalSpec
=============================================================================
