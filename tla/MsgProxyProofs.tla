---------------------------- MODULE MsgProxyProofs ----------------------------
(***************************************************************************)
(* Proofs about MsgProxy for any number of sockets, messages, connections   *)
(* and senders.                                                            *)
(*                                                                         *)
(* The walk over the client list takes no lock, and is safe all the same.   *)
(* Two things make it so: a client is deleted only by the thread that       *)
(* walks, which remembers those to be deleted behind its iterator (Walk);   *)
(* and a client is doomed only when its own writeStr has run, so never      *)
(* while the web server's thread is still in its base class's constructor   *)
(* (Unfinished).                                                           *)
(*                                                                         *)
(* What a client has got goes by the walk (Flow): a run of the stream that *)
(* ends with the newest piece, or with the one before while the walk has   *)
(* not come to the client.                                                 *)
(***************************************************************************)
EXTENDS MsgProxy, SequenceTheorems, TLAPS

\* The task has a piece in hand while it sends, and the web server's thread a
\* sender while it makes one; the client made at the start is whole.
PieceOK ==
    /\ at # "pop" => piece \in Pieces
    /\ web.pc \in {"base", "raw"} => web.obj \in Senders
    /\ phase[LogFile] = "built"

\* Clients to be deleted are on the list, behind the iterator while it moves.
Walk ==
    /\ at = "pop" => erase = <<>>
    /\ at = "send" => \A i \in DOMAIN erase : \E j \in DOMAIN list :
                          j < pos /\ list[j] = erase[i]

\* Where the web server's thread is with a new sender.
Unfinished ==
    /\ \A i \in DOMAIN erase : phase[erase[i]] \in {"raw", "built"}
    /\ web.pc = "base" => phase[web.obj] = "base"

\* No two clients on the list have a socket in common, nor one with the sender
\* that is about to be made.
SocketsApart ==
    /\ \A i \in DOMAIN list : list[i] \in Senders => fdOf[list[i]] \in Fds
    /\ fdOf[LogFile] = 0
    /\ web.pc = "new" => web.fd \in Fds /\ ~isAdded(web.fd)
    /\ OneSenderPerSocket

Inv == TypeOK /\ PieceOK /\ Walk /\ Unfinished /\ ListIsAlive /\ SocketsApart
-----------------------------------------------------------------------------
(* Sequences *)

LEMMA AppendFacts ==
    ASSUME NEW S, NEW s \in Seq(S), NEW e \in S
    PROVE  /\ Append(s, e) \in Seq(S)
           /\ Len(Append(s, e)) = Len(s) + 1
           /\ DOMAIN Append(s, e) = 1..(Len(s) + 1)
           /\ \A i \in 1..Len(s) : Append(s, e)[i] = s[i]
           /\ Append(s, e)[Len(s) + 1] = e
  BY AppendProperties

LEMMA TailFacts ==
    ASSUME NEW S, NEW s \in Seq(S), s # <<>>
    PROVE  /\ Head(s) \in S /\ Head(s) = s[1]
           /\ Tail(s) \in Seq(S)
           /\ Len(s) \in Nat \ {0} /\ Len(Tail(s)) = Len(s) - 1
           /\ \A i \in 1..Len(Tail(s)) : Tail(s)[i] = s[i + 1]
  BY HeadTailProperties

\* What is left when the i-th element is taken out: the others, in order.
LEMMA RemoveAtFacts ==
    ASSUME NEW S, NEW s \in Seq(S), NEW i \in 1..Len(s)
    PROVE  /\ RemoveAt(s, i) \in Seq(S)
           /\ Len(RemoveAt(s, i)) = Len(s) - 1
           /\ \A k \in 1..(Len(s) - 1) :
                 RemoveAt(s, i)[k] = IF k < i THEN s[k] ELSE s[k + 1]
<1>0. Len(s) \in Nat /\ i \in Nat /\ i <= Len(s) /\ 1 <= i
  BY LenProperties
<1> DEFINE a == SubSeq(s, 1, i - 1)
           b == SubSeq(s, i + 1, Len(s))
<1>1. /\ a \in Seq(S) /\ Len(a) = i - 1
      /\ \A k \in 1..(i - 1) : a[k] = s[k]
  BY <1>0
<1>2. /\ b \in Seq(S) /\ Len(b) = Len(s) - i
      /\ \A k \in 1..(Len(s) - i) : b[k] = s[i + k]
  BY <1>0
<1> HIDE DEF a, b
<1>3. /\ a \o b \in Seq(S) /\ Len(a \o b) = Len(a) + Len(b)
      /\ \A k \in 1..(Len(a) + Len(b)) :
            (a \o b)[k] = IF k <= Len(a) THEN a[k] ELSE b[k - Len(a)]
  BY <1>1, <1>2, ConcatProperties
<1>4. Len(a) + Len(b) = Len(s) - 1
  BY <1>0, <1>1, <1>2
<1>5. ASSUME NEW k \in 1..(Len(s) - 1)
      PROVE  (a \o b)[k] = IF k < i THEN s[k] ELSE s[k + 1]
  <2>1. CASE k < i
    BY <1>0, <1>1, <1>3, <1>4, <2>1
  <2>2. CASE ~(k < i)
    <3>1. k - (i - 1) \in 1..(Len(s) - i) /\ i + (k - (i - 1)) = k + 1
      BY <1>0, <2>2
    <3>2. ~(k <= Len(a)) /\ k - Len(a) = k - (i - 1)
      BY <1>0, <1>1, <2>2
    <3> QED
      BY <1>2, <1>3, <1>4, <2>2, <3>1, <3>2
  <2> QED
    BY <2>1, <2>2
<1> QED
  BY <1>3, <1>4, <1>5 DEF RemoveAt, a, b

-----------------------------------------------------------------------------
(* Types *)

\* What is deleted is on the list, and is what is taken off it.
LEMMA FirstOfErase ==
    ASSUME TypeOK, ListIsAlive, DeleteFailed
    PROVE  /\ Head(erase) = erase[1] /\ 1 \in DOMAIN erase
           /\ \E i \in DOMAIN list : list[i] = Head(erase) /\ list' = RemoveAt(list, i)
<1>1. erase \in Seq(Senders) /\ erase # <<>>
  BY DEF TypeOK, DeleteFailed
<1>2. Head(erase) = erase[1] /\ 1 \in DOMAIN erase
  BY <1>1, TailFacts, LenProperties
<1>3. \E i \in DOMAIN list : list[i] = Head(erase)
  BY <1>2 DEF ListIsAlive
<1> DEFINE k == CHOOSE i \in DOMAIN list : list[i] = Head(erase)
<1>4. k \in DOMAIN list /\ list[k] = Head(erase)
  BY <1>3
<1>5. list' = RemoveAt(list, k)
  BY DEF DeleteFailed
<1> HIDE DEF k
<1> QED
  BY <1>2, <1>4, <1>5

LEMMA ProxyTypes ==
    ASSUME TypeOK, PieceOK, ListIsAlive, ProxyStep
    PROVE  TypeOK' /\ PieceOK'
<1> USE DEF TypeOK, proxyVars, webVars
<1>1. CASE PopMessage
  <2>1. /\ queue # <<>> /\ queue' = Tail(queue)
        /\ UNCHANGED <<writes, list, phase, fdOf, erase, sock, conns, web, sent, born>>
    BY <1>1 DEF PopMessage
  <2>2. Head(queue) \in Messages /\ Tail(queue) \in Seq(Messages) /\ Len(Tail(queue)) <= QueueSize
    <3>1. Len(Tail(queue)) = Len(queue) - 1 /\ Len(queue) \in Nat
      BY <2>1, TailFacts
    <3> QED
      BY <2>1, <3>1, TailFacts, ProxyAssumption
  <2>3. Head(queue).id \in 1..MaxMsgs
    BY <2>2 DEF Messages
  <2>4. CASE UNCHANGED <<at, piece, pos, stream>>
    BY <1>1, <2>1, <2>2, <2>4 DEF PieceOK
  <2>5. ASSUME NEW part \in {"header", "text"}, Broadcast([id |-> Head(queue).id, part |-> part])
        PROVE  TypeOK' /\ PieceOK'
    <3>1. [id |-> Head(queue).id, part |-> part] \in Pieces
      BY <2>3 DEF Pieces
    <3>2. /\ piece' \in Pieces /\ stream' = Append(stream, piece') /\ pos' = 1 /\ at' = "send"
      BY <2>5, <3>1 DEF Broadcast
    <3>3. stream' \in Seq(Pieces)
      BY <3>2, AppendFacts
    <3>4. piece' \in Pieces \cup {NoPiece} /\ pos' \in Nat \ {0} /\ PieceOK'
      BY <2>1, <3>2 DEF PieceOK
    <3>5. at' \in {"pop", "send", "erase"}
      BY <3>2
    <3> QED
      BY <2>1, <2>2, <3>3, <3>4, <3>5
  <2> QED
    BY <1>1, <2>4, <2>5 DEF PopMessage
<1>2. CASE SendToNext
  <2>1. /\ at = "send" /\ pos <= Len(list) /\ pos' = pos + 1
        /\ UNCHANGED <<queue, writes, list, phase, fdOf, at, piece, sock, conns, web, stream, born>>
    BY <1>2 DEF SendToNext
  <2>2. list[pos] \in Clients /\ pos + 1 \in Nat \ {0}
    <3>1. list \in Seq(Clients) /\ pos \in Nat \ {0}
      OBVIOUS
    <3> HIDE DEF TypeOK
    <3>2. pos \in 1..Len(list)
      BY <2>1, <3>1, LenProperties
    <3> QED
      BY <3>1, <3>2, ElementOfSeq
  <2>3. piece \in Pieces /\ phase[LogFile] = "built"
    BY <2>1 DEF PieceOK
  <2>4. sent' \in [Clients -> Seq(Pieces)] /\ erase' \in Seq(Senders)
    <3>1. CASE UNCHANGED <<sent, erase>>
      BY <3>1
    <3>2. CASE Forward(list[pos])
      <4>1. Append(sent[list[pos]], piece) \in Seq(Pieces)
        BY <2>2, <2>3, AppendFacts
      <4> QED
        BY <2>2, <3>2, <4>1 DEF Forward
    <3>3. CASE Doom(list[pos]) /\ list[pos] # LogFile
      <4>1. list[pos] \in Senders
        BY <2>2, <3>3 DEF Clients
      <4>2. Append(erase, list[pos]) \in Seq(Senders)
        BY <4>1, AppendFacts
      <4> QED
        BY <3>3, <4>2 DEF Doom
    <3>4. \/ UNCHANGED <<sent, erase>>
          \/ Forward(list[pos])
          \/ Doom(list[pos]) /\ list[pos] # LogFile
      BY <1>2, <2>3 DEF SendToNext
    <3> QED
      BY <3>1, <3>2, <3>3, <3>4
  <2>5. PieceOK'
    BY <2>1 DEF PieceOK
  <2>6. pos' \in Nat \ {0}
    BY <2>1, <2>2
  <2> QED
    BY <2>1, <2>4, <2>5, <2>6
<1>3. CASE EndOfList
  BY <1>3 DEF EndOfList, PieceOK
<1>4. CASE DeleteFailed
  <2>1. /\ at = "erase" /\ erase # <<>> /\ erase' = Tail(erase)
        /\ phase' = [phase EXCEPT ![Head(erase)] = "dead"]
        /\ UNCHANGED <<queue, writes, fdOf, at, piece, pos, sock, conns, web, stream, sent, born>>
    BY <1>4 DEF DeleteFailed
  <2>2. /\ Head(erase) \in Senders /\ Tail(erase) \in Seq(Senders)
        /\ 1 \in DOMAIN erase /\ Head(erase) = erase[1]
    BY <2>1, TailFacts
  <2>3. PICK i \in DOMAIN list : list' = RemoveAt(list, i)
    BY <1>4, FirstOfErase
  <2>4. list' \in Seq(Clients)
    <3>1. i \in 1..Len(list)
      BY <2>3, LenProperties
    <3>2. RemoveAt(list, i) \in Seq(Clients)
      BY <3>1, RemoveAtFacts
    <3> QED
      BY <2>3, <3>2
  <2>5. phase' \in [Clients -> {"none", "base", "raw", "built", "dead"}]
    BY <2>1, <2>2 DEF Clients
  <2>6. PieceOK'
    <3>1. Head(erase) # LogFile /\ LogFile \in Clients
      BY <2>2 DEF LogFile, Senders, Clients
    <3>2. phase'[LogFile] = phase[LogFile]
      BY <2>1, <3>1
    <3> HIDE DEF TypeOK
    <3> QED
      BY <2>1, <3>2 DEF PieceOK
  <2> QED
    BY <2>1, <2>2, <2>4, <2>5, <2>6
<1>5. CASE PieceDone
  <2>1. /\ at = "erase"
        /\ UNCHANGED <<queue, writes, list, phase, fdOf, erase, sock, conns, web, sent, born>>
    BY <1>5 DEF PieceDone
  <2>2. piece \in Pieces
    BY <2>1 DEF PieceOK
  <2>3. CASE Broadcast([piece EXCEPT !.part = "text"])
    <3>1. [piece EXCEPT !.part = "text"] \in Pieces
      BY <2>2 DEF Pieces
    <3>2. /\ piece' \in Pieces /\ stream' = Append(stream, piece') /\ pos' = 1 /\ at' = "send"
      BY <2>3, <3>1 DEF Broadcast
    <3>3. stream' \in Seq(Pieces)
      BY <3>2, AppendFacts
    <3> QED
      BY <2>1, <3>2, <3>3 DEF PieceOK
  <2>4. CASE at' = "pop" /\ UNCHANGED <<piece, pos, stream>>
    BY <2>1, <2>4 DEF PieceOK
  <2> QED
    BY <1>5, <2>3, <2>4 DEF PieceDone
<1> QED
  BY <1>1, <1>2, <1>3, <1>4, <1>5 DEF ProxyStep

LEMMA OtherTypes ==
    ASSUME TypeOK, PieceOK, Next, ~ProxyStep
    PROVE  TypeOK' /\ PieceOK'
<1> USE DEF TypeOK, proxyVars, webVars
<1>1. ASSUME NEW kind \in Kinds, Write(kind) PROVE TypeOK' /\ PieceOK'
  <2>1. /\ writes' = writes + 1 /\ writes < MaxMsgs
        /\ UNCHANGED <<list, phase, fdOf, at, piece, pos, erase, sock, conns, web,
                       stream, sent, born>>
    BY <1>1 DEF Write
  <2>2. writes' \in 0..MaxMsgs /\ writes + 1 \in 1..MaxMsgs
    BY <2>1, ProxyAssumption
  <2>3. queue' \in Seq(Messages) /\ Len(queue') <= QueueSize
    <3>1. [id |-> writes + 1, kind |-> kind] \in Messages
      BY <2>2 DEF Messages
    <3>2. CASE Len(queue) < QueueSize /\ queue' = Append(queue, [id |-> writes + 1, kind |-> kind])
      <4>1. queue' \in Seq(Messages) /\ Len(queue') = Len(queue) + 1 /\ Len(queue) \in Nat
        BY <3>1, <3>2, AppendFacts, LenProperties
      <4> QED
        BY <3>2, <4>1, ProxyAssumption
    <3> QED
      BY <1>1, <3>2 DEF Write
  <2> QED
    BY <2>1, <2>2, <2>3 DEF PieceOK
<1>2. ASSUME NEW f \in Fds, Connect(f) PROVE TypeOK' /\ PieceOK'
  <2>1. conns' \in 0..MaxConns /\ conns' = conns + 1
    BY <1>2, ProxyAssumption DEF Connect
  <2>2. sock' \in [Fds -> 0..MaxConns]
    BY <1>2, <2>1 DEF Connect
  <2> QED
    BY <1>2, <2>1, <2>2 DEF Connect, PieceOK
<1>3. ASSUME NEW f \in Fds, Disconnect(f) PROVE TypeOK' /\ PieceOK'
  <2>1. 0 \in 0..MaxConns
    BY ProxyAssumption
  <2>2. sock' \in [Fds -> 0..MaxConns]
    BY <1>3, <2>1 DEF Disconnect, Closed
  <2> QED
    BY <1>3, <2>2 DEF Disconnect, PieceOK
<1>4. ASSUME NEW f \in Fds, Frame(f) PROVE TypeOK' /\ PieceOK'
  <2>1. web' = web \/ web' = [pc |-> "new", fd |-> f, obj |-> 0]
    BY <1>4 DEF Frame
  <2>2. web' \in [pc : {"idle", "new", "base", "raw"}, fd : Fds \cup {0}, obj : Clients]
    BY <2>1 DEF Clients, LogFile
  <2>3. web'.pc \in {"base", "raw"} => web' = web
    BY <2>1
  <2>4. PieceOK'
    BY <1>4, <2>3 DEF Frame, PieceOK
  <2> QED
    BY <1>4, <2>2, <2>4 DEF Frame
<1>5. CASE ConstructClient
  <2>1. PICK c \in Senders :
           /\ phase' = [phase EXCEPT ![c] = "base"]
           /\ fdOf' = [fdOf EXCEPT ![c] = web.fd]
           /\ list' = Append(list, c)
           /\ web' = [web EXCEPT !.pc = "base", !.obj = c]
    BY <1>5 DEF ConstructClient
  <2>2. c \in Clients
    BY DEF Clients
  <2>3. list' \in Seq(Clients)
    BY <2>1, <2>2, AppendFacts
  <2>4. PieceOK'
    BY <1>5, <2>1 DEF ConstructClient, PieceOK, LogFile, Senders
  <2> QED
    BY <1>5, <2>1, <2>2, <2>3, <2>4 DEF ConstructClient
<1>6. CASE ConstructVtable
  <2>1. /\ web.pc = "base" /\ web' = [web EXCEPT !.pc = "raw"]
        /\ phase' = [phase EXCEPT ![web.obj] = "raw"]
        /\ UNCHANGED <<queue, writes, list, fdOf, at, piece, pos, erase, sock, conns,
                       stream, sent, born>>
    BY <1>6 DEF ConstructVtable
  <2>2. web.obj \in Senders /\ web'.obj = web.obj /\ LogFile # web.obj /\ LogFile \in Clients
    BY <2>1 DEF PieceOK, LogFile, Senders, Clients
  <2>3. /\ phase' \in [Clients -> {"none", "base", "raw", "built", "dead"}]
        /\ web' \in [pc : {"idle", "new", "base", "raw"}, fd : Fds \cup {0}, obj : Clients]
    BY <2>1
  <2>4. PieceOK'
    BY <2>1, <2>2 DEF PieceOK
  <2> QED
    BY <2>1, <2>3, <2>4
<1>7. CASE ConstructFields
  <2>1. /\ web.pc = "raw" /\ web' = [web EXCEPT !.pc = "idle"]
        /\ UNCHANGED <<queue, writes, list, fdOf, at, piece, pos, erase, sock, conns,
                       stream, sent>>
    BY <1>7 DEF ConstructFields
  <2>2. web.obj \in Clients /\ Len(stream) \in Nat
    BY LenProperties
  <2>3. /\ phase' \in [Clients -> {"none", "base", "raw", "built", "dead"}]
        /\ born' \in [Clients -> Nat]
        /\ phase[LogFile] = "built" => phase'[LogFile] = "built"
    <3>1. CASE UNCHANGED <<phase, born>>
      BY <3>1
    <3>2. CASE /\ phase' = [phase EXCEPT ![web.obj] = "built"]
               /\ born' = [born EXCEPT ![web.obj] = Len(stream)]
      BY <2>2, <3>2 DEF Clients
    <3> QED
      BY <1>7, <3>1, <3>2 DEF ConstructFields
  <2>4. /\ web' \in [pc : {"idle", "new", "base", "raw"}, fd : Fds \cup {0}, obj : Clients]
        /\ web'.pc = "idle"
    BY <2>1
  <2>5. PieceOK'
    BY <2>1, <2>3, <2>4 DEF PieceOK
  <2> QED
    BY <2>1, <2>3, <2>4, <2>5
<1> QED
  BY <1>1, <1>2, <1>3, <1>4, <1>5, <1>6, <1>7 DEF Next, Construct

-----------------------------------------------------------------------------
(* The list, the walk and the web server's thread *)

Safe == Walk /\ Unfinished /\ ListIsAlive /\ SocketsApart

LEMMA UntouchedKeepsSafe ==
    ASSUME Safe, UNCHANGED <<list, phase, fdOf, erase, at, pos, web>>
    PROVE  Safe'
  BY DEF Safe, Walk, Unfinished, ListIsAlive, SocketsApart, OneSenderPerSocket, isAdded

\* A walk begins with nothing to delete.
LEMMA NewWalkKeepsSafe ==
    ASSUME Safe, erase = <<>>, UNCHANGED <<list, phase, fdOf, erase, web>>
    PROVE  Safe'
<1>1. DOMAIN erase = {}
  BY EmptySeq
<1> QED
  BY <1>1 DEF Safe, Walk, Unfinished, ListIsAlive, SocketsApart, OneSenderPerSocket, isAdded

LEMMA SendKeepsSafe == ASSUME TypeOK, PieceOK, Safe, SendToNext PROVE Safe'
<1>1. /\ at = "send" /\ at' = "send" /\ pos \in DOMAIN list /\ pos' = pos + 1 /\ pos \in Nat
      /\ UNCHANGED <<list, phase, fdOf, web>>
  BY LenProperties DEF TypeOK, SendToNext, webVars
<1>2. CASE UNCHANGED erase
  <2>1. Walk'
    <3>1. \A j \in DOMAIN list : j < pos => j < pos + 1
      BY <1>1, LenProperties DEF TypeOK
    <3> QED
      BY <1>1, <1>2, <3>1 DEF Safe, Walk
  <2> QED
    BY <1>1, <1>2, <2>1 DEF Safe, Unfinished, ListIsAlive, SocketsApart, OneSenderPerSocket, isAdded
<1>3. CASE Doom(list[pos]) /\ phase[list[pos]] \in {"raw", "built"} /\ list[pos] # LogFile
  <2> DEFINE c == list[pos]
             n == Len(erase)
  <2>1. c \in Senders /\ erase \in Seq(Senders) /\ n \in Nat /\ DOMAIN erase = 1..n
    BY <1>1, <1>3, LenProperties, ElementOfSeq DEF TypeOK, Clients
  <2>2. /\ DOMAIN erase' = 1..(n + 1)
        /\ \A i \in 1..n : erase'[i] = erase[i]
        /\ erase'[n + 1] = c
    BY <1>3, <2>1, AppendFacts DEF Doom
  <2>3. \A i \in 1..n : /\ \E j \in DOMAIN list : j < pos /\ list[j] = erase[i]
                        /\ erase[i] # c
    BY <1>1, <2>1 DEF Safe, Walk, ListIsAlive
  <2> HIDE DEF c, n
  <2>4. \A i \in DOMAIN erase' : i \in 1..n \/ i = n + 1
    BY <2>1, <2>2
  <2>5. Walk'
    <3>1. \A j \in DOMAIN list : j < pos => j < pos + 1
      BY <1>1, LenProperties DEF TypeOK
    <3>2. pos < pos + 1 /\ list[pos] = c
      BY <1>1 DEF c
    <3> QED
      BY <1>1, <2>2, <2>3, <2>4, <3>1, <3>2 DEF Walk
  <2>6. Unfinished'
    BY <1>1, <1>3, <2>1, <2>2, <2>4 DEF Safe, Unfinished, c
  <2>7. ListIsAlive'
    <3>1. \A i \in DOMAIN erase' : \E j \in DOMAIN list : list[j] = erase'[i]
      BY <1>1, <2>2, <2>3, <2>4 DEF c
    <3>2. \A i, j \in DOMAIN erase' : erase'[i] = erase'[j] => i = j
      BY <2>1, <2>2, <2>3, <2>4 DEF Safe, ListIsAlive
    <3> QED
      BY <1>1, <3>1, <3>2 DEF Safe, ListIsAlive
  <2>8. SocketsApart'
    BY <1>1 DEF Safe, SocketsApart, OneSenderPerSocket, isAdded
  <2> QED
    BY <2>5, <2>6, <2>7, <2>8 DEF Safe
<1> QED
  BY <1>2, <1>3 DEF SendToNext, Forward, Doom, PieceOK

LEMMA DeleteKeepsSafe == ASSUME TypeOK, PieceOK, Safe, DeleteFailed PROVE Safe'
<1> DEFINE d == Head(erase)
           n == Len(list)
           m == Len(erase)
<1>1. /\ at = "erase" /\ at' = "erase" /\ erase' = Tail(erase) /\ erase # <<>>
      /\ phase' = [phase EXCEPT ![d] = "dead"]
      /\ UNCHANGED <<fdOf, pos, web>>
  BY DEF DeleteFailed, webVars
<1>2. PICK r \in DOMAIN list : list[r] = d /\ list' = RemoveAt(list, r)
  BY FirstOfErase DEF Safe
<1>3. /\ list \in Seq(Clients) /\ n \in Nat /\ DOMAIN list = 1..n /\ r \in 1..n
      /\ d \in Senders /\ d = erase[1] /\ 1 \in DOMAIN erase
      /\ erase \in Seq(Senders) /\ m \in Nat /\ DOMAIN erase = 1..m
  <2>1. list \in Seq(Clients) /\ n \in Nat /\ DOMAIN list = 1..n
    BY LenProperties DEF TypeOK
  <2>2. erase \in Seq(Senders) /\ m \in Nat /\ DOMAIN erase = 1..m
    BY LenProperties DEF TypeOK
  <2>3. d \in Senders
    BY <1>1, <2>2, TailFacts
  <2>4. d = erase[1] /\ 1 \in DOMAIN erase
    BY FirstOfErase DEF Safe
  <2> QED
    BY <1>2, <2>1, <2>2, <2>3, <2>4
<1>4. /\ DOMAIN list' = 1..(n - 1)
      /\ \A k \in 1..(n - 1) : list'[k] = IF k < r THEN list[k] ELSE list[k + 1]
  BY <1>2, <1>3, RemoveAtFacts, LenProperties
<1>5. /\ DOMAIN erase' = 1..(m - 1)
      /\ \A i \in 1..(m - 1) : erase'[i] = erase[i + 1]
  BY <1>1, <1>3, TailFacts, LenProperties
<1>6. /\ \A i, j \in 1..n : list[i] = list[j] => i = j
      /\ \A i, j \in 1..m : erase[i] = erase[j] => i = j
      /\ \A i \in 1..n : phase[list[i]] \in {"base", "raw", "built"}
      /\ \A i \in 1..m : \E j \in 1..n : list[j] = erase[i]
      /\ \A i \in 1..m : phase[erase[i]] \in {"raw", "built"}
  BY <1>3 DEF Safe, ListIsAlive, Unfinished
<1>7. /\ \A x \in Clients : x # d => phase'[x] = phase[x]
      /\ \A i \in 1..n : list[i] \in Clients
      /\ \A i \in 1..m : erase[i] \in Clients
  <2>1. \A x \in Clients : x # d => phase'[x] = phase[x]
    BY <1>1 DEF TypeOK
  <2>2. \A i \in 1..n : list[i] \in Clients
    BY <1>3, ElementOfSeq
  <2>3. \A i \in 1..m : erase[i] \in Clients
    BY <1>3, ElementOfSeq DEF Clients
  <2> QED
    BY <2>1, <2>2, <2>3
<1> HIDE DEF d, n, m
\* where the k-th of those left was
<1> DEFINE old(k) == IF k < r THEN k ELSE k + 1
<1>8. \A k \in 1..(n - 1) : /\ old(k) \in 1..n /\ old(k) # r
                            /\ list'[k] = list[old(k)] /\ list[old(k)] # d
  <2> TAKE k \in 1..(n - 1)
  <2>1. old(k) \in 1..n /\ old(k) # r
    BY <1>3
  <2>2. list'[k] = list[old(k)]
    BY <1>4
  <2> HIDE DEF old
  <2> QED
    BY <1>2, <1>3, <1>6, <2>1, <2>2
<1>9. \A j \in 1..n : j # r => \E k \in 1..(n - 1) : old(k) = j
  <2> TAKE j \in 1..n
  <2> HAVE j # r
  <2>1. CASE j < r
    <3>1. j \in 1..(n - 1) /\ old(j) = j
      BY <1>3, <2>1
    <3> QED
      BY <3>1
  <2>2. CASE j > r
    <3>1. j - 1 \in 1..(n - 1) /\ old(j - 1) = j
      BY <1>3, <2>2
    <3> QED
      BY <3>1
  <2> QED
    BY <1>3, <2>1, <2>2
<1>10. \A k, l \in 1..(n - 1) : old(k) = old(l) => k = l
  BY <1>3
<1> HIDE DEF old
<1>11. ListIsAlive'
  <2>1. \A k \in 1..(n - 1) : phase'[list'[k]] \in {"base", "raw", "built"}
    BY <1>1, <1>6, <1>7, <1>8
  <2>2. \A k, l \in 1..(n - 1) : list'[k] = list'[l] => k = l
    BY <1>6, <1>8, <1>10
  <2>3. \A i \in 1..(m - 1) : i + 1 \in 1..m /\ i + 1 # 1
    BY <1>3
  <2>4. \A i \in 1..(m - 1) : erase[i + 1] # d
    BY <1>3, <1>6, <2>3
  <2>5. \A i \in 1..(m - 1) : \E k \in 1..(n - 1) : list'[k] = erase'[i]
    <3> TAKE i \in 1..(m - 1)
    <3>1. PICK j \in 1..n : list[j] = erase[i + 1]
      BY <1>6, <2>3
    <3>2. j # r
      BY <1>2, <2>4, <3>1
    <3>3. PICK k \in 1..(n - 1) : old(k) = j
      BY <1>9, <3>2
    <3> QED
      BY <1>5, <1>8, <3>1, <3>3
  <2>6. \A i, j \in 1..(m - 1) : erase'[i] = erase'[j] => i = j
    <3> TAKE i \in 1..(m - 1), j \in 1..(m - 1)
    <3> HAVE erase'[i] = erase'[j]
    <3>1. i + 1 = j + 1
      BY <1>5, <1>6, <2>3
    <3> QED
      BY <1>3, <3>1
  <2> QED
    BY <1>4, <1>5, <2>1, <2>2, <2>5, <2>6 DEF ListIsAlive
<1>12. Walk'
  BY <1>1 DEF Walk
<1>13. Unfinished'
  <2>1. \A i \in 1..(m - 1) : i + 1 \in 1..m /\ erase[i + 1] # d
    <3> TAKE i \in 1..(m - 1)
    <3>1. i + 1 \in 1..m /\ i + 1 # 1 /\ 1 \in 1..m
      BY <1>3
    <3> QED
      BY <1>3, <1>6, <3>1
  <2>2. \A i \in 1..(m - 1) : phase'[erase'[i]] \in {"raw", "built"}
    <3> TAKE i \in 1..(m - 1)
    <3>1. /\ i + 1 \in 1..m /\ erase[i + 1] # d /\ erase'[i] = erase[i + 1]
          /\ erase[i + 1] \in Clients
      BY <1>5, <1>7, <2>1
    <3>2. phase'[erase[i + 1]] = phase[erase[i + 1]]
      BY <1>7, <3>1
    <3> QED
      BY <1>6, <3>1, <3>2
  <2>3. web.pc = "base" => web.obj # d /\ web.obj \in Clients
    BY <1>3, <1>6 DEF Safe, Unfinished, TypeOK
  <2> QED
    BY <1>1, <1>5, <1>7, <2>2, <2>3 DEF Safe, Unfinished
<1>14. SocketsApart'
  <2>1. \A k \in 1..(n - 1) : list'[k] \in Senders => fdOf[list'[k]] \in Fds
    BY <1>3, <1>8 DEF Safe, SocketsApart
  <2>2. \A k, l \in 1..(n - 1) : fdOf[list'[k]] = fdOf[list'[l]] => k = l
    BY <1>3, <1>8, <1>10 DEF Safe, SocketsApart, OneSenderPerSocket
  <2>3. \A f : ~isAdded(f) => ~isAdded(f)'
    BY <1>1, <1>3, <1>4, <1>8 DEF isAdded
  <2> QED
    BY <1>1, <1>4, <2>1, <2>2, <2>3 DEF Safe, SocketsApart, OneSenderPerSocket, isAdded
<1> QED
  BY <1>11, <1>12, <1>13, <1>14 DEF Safe

\* The socket of the new sender had no client when the frame came, and only
\* this thread adds any.
LEMMA ConstructClientKeepsSafe ==
    ASSUME TypeOK, PieceOK, Safe, ConstructClient
    PROVE  Safe'
<1> DEFINE n == Len(list)
<1>1. PICK c \in Senders :
        /\ web.pc = "new" /\ phase[c] = "none"
        /\ phase' = [phase EXCEPT ![c] = "base"]
        /\ fdOf' = [fdOf EXCEPT ![c] = web.fd]
        /\ list' = Append(list, c)
        /\ web' = [web EXCEPT !.pc = "base", !.obj = c]
        /\ UNCHANGED <<at, pos, erase>>
  BY DEF ConstructClient, proxyVars
<1>2. /\ list \in Seq(Clients) /\ n \in Nat /\ DOMAIN list = 1..n
      /\ c \in Clients /\ c # LogFile /\ LogFile \in Clients
  BY <1>1, LenProperties DEF TypeOK, Clients, Senders, LogFile
<1>3. /\ DOMAIN list' = 1..(n + 1)
      /\ \A i \in 1..n : list'[i] = list[i]
      /\ list'[n + 1] = c
  BY <1>1, <1>2, AppendFacts
<1>4. \A x \in Clients : x # c => phase'[x] = phase[x] /\ fdOf'[x] = fdOf[x]
  BY <1>1 DEF TypeOK
<1>5. phase'[c] = "base" /\ fdOf'[c] = web.fd /\ web'.pc = "base" /\ web'.obj = c
  BY <1>1, <1>2 DEF TypeOK
<1>6. \A i \in 1..n : /\ phase[list[i]] \in {"base", "raw", "built"}
                      /\ list[i] \in Clients /\ list[i] # c
  BY <1>1, <1>2, ElementOfSeq DEF Safe, ListIsAlive
<1>7. \A i \in DOMAIN erase : /\ phase[erase[i]] \in {"raw", "built"}
                              /\ erase[i] \in Clients /\ erase[i] # c
  <2>1. \A i \in DOMAIN erase : erase[i] \in Senders
    BY LenProperties, ElementOfSeq DEF TypeOK
  <2> QED
    BY <1>1, <2>1 DEF Safe, Unfinished, Clients
<1>8. web.fd \in Fds /\ \A i \in 1..n : fdOf[list[i]] # web.fd
  BY <1>1, <1>2 DEF Safe, SocketsApart, isAdded
<1> HIDE DEF n
<1>9. \A i \in DOMAIN list' : i \in 1..n \/ i = n + 1
  BY <1>2, <1>3
<1>10. \A i \in 1..n : /\ i \in DOMAIN list' /\ i # n + 1
                       /\ list'[i] = list[i] /\ phase'[list[i]] = phase[list[i]]
                       /\ fdOf'[list[i]] = fdOf[list[i]]
  BY <1>2, <1>3, <1>4, <1>6
<1>11. Walk'
  BY <1>1, <1>2, <1>10 DEF Safe, Walk
<1>12. Unfinished'
  BY <1>1, <1>4, <1>5, <1>7 DEF Unfinished
<1>13. ListIsAlive'
  <2>1. \A i \in DOMAIN list' : phase'[list'[i]] \in {"base", "raw", "built"}
    BY <1>3, <1>5, <1>6, <1>9, <1>10
  <2>2. \A i, j \in DOMAIN list' : list'[i] = list'[j] => i = j
    BY <1>2, <1>3, <1>6, <1>9, <1>10 DEF Safe, ListIsAlive
  <2>3. \A i \in DOMAIN erase' : \E j \in DOMAIN list' : list'[j] = erase'[i]
    BY <1>1, <1>2, <1>10 DEF Safe, ListIsAlive
  <2> QED
    BY <1>1, <2>1, <2>2, <2>3 DEF Safe, ListIsAlive
<1>14. SocketsApart'
  <2>1. \A i \in DOMAIN list' : list'[i] \in Senders => fdOf'[list'[i]] \in Fds
    BY <1>2, <1>3, <1>5, <1>8, <1>9, <1>10 DEF Safe, SocketsApart
  <2>2. fdOf'[LogFile] = 0
    BY <1>2, <1>4 DEF Safe, SocketsApart
  <2>3. OneSenderPerSocket'
    BY <1>2, <1>3, <1>5, <1>8, <1>9, <1>10 DEF Safe, SocketsApart, OneSenderPerSocket
  <2> QED
    BY <1>5, <2>1, <2>2, <2>3 DEF SocketsApart
<1> QED
  BY <1>11, <1>12, <1>13, <1>14 DEF Safe

\* The rest of the constructor only moves the new sender on.
LEMMA PhaseKeepsSafe ==
    ASSUME TypeOK, PieceOK, Safe,
           ConstructVtable \/ ConstructFields
    PROVE  Safe'
<1>1. /\ UNCHANGED <<list, fdOf, erase, at, pos>>
      /\ web.pc \in {"base", "raw"} /\ web'.pc \in {"raw", "idle"}
      /\ web.obj \in Senders
      /\ \/ UNCHANGED phase
         \/ /\ phase[web.obj] \in {"base", "raw"}
            /\ phase' = [phase EXCEPT ![web.obj] = "raw"]
         \/ /\ phase[web.obj] \in {"base", "raw"}
            /\ phase' = [phase EXCEPT ![web.obj] = "built"]
  BY DEF ConstructVtable, ConstructFields, TypeOK, PieceOK, Safe, Unfinished, proxyVars
<1>2. \A x \in Clients : \/ phase'[x] = phase[x]
                         \/ phase[x] \in {"base", "raw"} /\ phase'[x] \in {"raw", "built"}
  BY <1>1 DEF TypeOK, Clients
<1>3. /\ \A i \in DOMAIN list : list[i] \in Clients
      /\ \A i \in DOMAIN erase : erase[i] \in Clients
  BY LenProperties, ElementOfSeq DEF TypeOK, Clients
<1>4. Walk'
  BY <1>1 DEF Safe, Walk
<1>5. Unfinished'
  BY <1>1, <1>2, <1>3 DEF Safe, Unfinished
<1>6. ListIsAlive'
  BY <1>1, <1>2, <1>3 DEF Safe, ListIsAlive
<1>7. SocketsApart'
  BY <1>1 DEF Safe, SocketsApart, OneSenderPerSocket
<1> QED
  BY <1>4, <1>5, <1>6, <1>7 DEF Safe

LEMMA FrameKeepsSafe ==
    ASSUME TypeOK, Safe, NEW f \in Fds, Frame(f)
    PROVE  Safe'
<1>1. UNCHANGED <<list, phase, fdOf, erase, at, pos>>
  BY DEF Frame, proxyVars
<1>2. CASE UNCHANGED web
  BY <1>1, <1>2, UntouchedKeepsSafe
<1>3. CASE ~isAdded(f) /\ web' = [pc |-> "new", fd |-> f, obj |-> 0]
  BY <1>1, <1>3 DEF Safe, Walk, Unfinished, ListIsAlive, SocketsApart, OneSenderPerSocket, isAdded
<1> QED
  BY <1>2, <1>3 DEF Frame

-----------------------------------------------------------------------------
LEMMA InitInv == Init => Inv
<1> SUFFICES ASSUME Init PROVE Inv
  OBVIOUS
<1> USE DEF Init
<1>1. LogFile \in Clients /\ 0 \in 0..MaxConns /\ 0 \in 0..MaxMsgs /\ 0 \in Nat /\ 1 \in Nat \ {0}
  BY ProxyAssumption DEF Clients
<1>2. list \in Seq(Clients) /\ DOMAIN list = {1} /\ list[1] = LogFile
  BY <1>1
<1>3. /\ queue \in Seq(Messages) /\ Len(queue) = 0
      /\ erase \in Seq(Senders) /\ DOMAIN erase = {}
      /\ stream \in Seq(Pieces) /\ <<>> \in Seq(Pieces)
  BY EmptySeq
<1>4. TypeOK
  <2>1. QueueSize \in Nat /\ QueueSize >= 0
    BY ProxyAssumption
  <2>2. /\ phase \in [Clients -> {"none", "base", "raw", "built", "dead"}]
        /\ fdOf \in [Clients -> Fds \cup {0}]
        /\ sock \in [Fds -> 0..MaxConns]
        /\ sent \in [Clients -> Seq(Pieces)]
        /\ born \in [Clients -> Nat]
    BY <1>1, <1>3 DEF Closed
  <2>3. web \in [pc : {"idle", "new", "base", "raw"}, fd : Fds \cup {0}, obj : Clients]
    BY <1>1 DEF LogFile
  <2>4. /\ queue \in Seq(Messages) /\ Len(queue) <= QueueSize
        /\ writes \in 0..MaxMsgs /\ conns \in 0..MaxConns
        /\ piece = NoPiece /\ pos \in Nat \ {0}
    BY <1>1, <1>3, <2>1
  <2> HIDE DEF Init
  <2>5. at \in {"pop", "send", "erase"}
    BY DEF Init
  <2> QED
    BY <1>2, <1>3, <2>2, <2>3, <2>4, <2>5 DEF TypeOK
<1>5. PieceOK
  BY <1>1 DEF PieceOK
<1>6. Walk /\ Unfinished /\ ListIsAlive
  BY <1>1, <1>2, <1>3 DEF Walk, Unfinished, ListIsAlive
<1>7. SocketsApart
  BY <1>1, <1>2 DEF SocketsApart, OneSenderPerSocket, LogFile, Senders
<1> QED
  BY <1>4, <1>5, <1>6, <1>7 DEF Inv

LEMMA NextKeepsInv == Inv /\ [Next]_vars => Inv'
<1> SUFFICES ASSUME Inv, [Next]_vars PROVE Inv'
  OBVIOUS
<1>1. TypeOK /\ PieceOK /\ Safe
  BY DEF Inv, Safe
<1>2. CASE UNCHANGED vars
  <2>1. Safe'
    BY <1>1, <1>2, UntouchedKeepsSafe DEF vars, proxyVars, webVars
  <2>2. TypeOK' /\ PieceOK'
    BY <1>1, <1>2 DEF vars, proxyVars, webVars, TypeOK, PieceOK
  <2> QED
    BY <2>1, <2>2 DEF Inv, Safe
<1>3. CASE Next
  <2>1. TypeOK' /\ PieceOK'
    BY <1>1, <1>3, ProxyTypes, OtherTypes DEF Safe
  <2>2. ASSUME NEW k \in Kinds, Write(k) PROVE Safe'
    BY <1>1, <2>2, UntouchedKeepsSafe DEF Write, proxyVars, webVars
  <2>3. ASSUME PopMessage PROVE Safe'
    <3>1. erase = <<>> /\ UNCHANGED <<list, phase, fdOf, erase, web>>
      BY <1>1, <2>3 DEF PopMessage, Safe, Walk, webVars
    <3> QED
      BY <1>1, <3>1, NewWalkKeepsSafe
  <2>4. ASSUME SendToNext PROVE Safe'
    BY <1>1, <2>4, SendKeepsSafe
  <2>5. ASSUME EndOfList PROVE Safe'
    <3>1. /\ UNCHANGED <<list, phase, fdOf, erase, web>> /\ at' = "erase"
      BY <2>5 DEF EndOfList, webVars
    <3> QED
      BY <1>1, <3>1
         DEF Safe, Walk, Unfinished, ListIsAlive, SocketsApart, OneSenderPerSocket, isAdded
  <2>6. ASSUME DeleteFailed PROVE Safe'
    BY <1>1, <2>6, DeleteKeepsSafe
  <2>7. ASSUME PieceDone PROVE Safe'
    <3>1. erase = <<>> /\ UNCHANGED <<list, phase, fdOf, erase, web>>
      BY <2>7 DEF PieceDone, webVars
    <3> QED
      BY <1>1, <3>1, NewWalkKeepsSafe
  <2>8. ASSUME NEW f \in Fds, Connect(f) \/ Disconnect(f) PROVE Safe'
    BY <1>1, <2>8, UntouchedKeepsSafe DEF Connect, Disconnect, proxyVars
  <2>9. ASSUME NEW f \in Fds, Frame(f) PROVE Safe'
    BY <1>1, <2>9, FrameKeepsSafe
  <2>10. ASSUME ConstructClient PROVE Safe'
    BY <1>1, <2>10, ConstructClientKeepsSafe
  <2>11. ASSUME ConstructVtable \/ ConstructFields PROVE Safe'
    BY <1>1, <2>11, PhaseKeepsSafe
  <2>12. Safe'
    BY <1>3, <2>2, <2>3, <2>4, <2>5, <2>6, <2>7, <2>8, <2>9, <2>10, <2>11
       DEF Next, ProxyStep, Construct
  <2> QED
    BY <2>1, <2>12 DEF Inv, Safe
<1> QED
  BY <1>2, <1>3

LEMMA Invariance == Spec => []Inv
  BY InitInv, NextKeepsInv, PTL DEF Spec

\* Every variable of the broadcaster keeps to its type, whatever clients come
\* and go (msg_proxy.hpp).
THEOREM TypeCorrect == Spec => []TypeOK
<1>1. Inv => TypeOK
  BY DEF Inv
<1> QED
  BY <1>1, Invariance, PTL

\* The walk of sendTimeStamp and sendStr, which takes no lock, never reaches a
\* deleted client, and no client is deleted twice (msg_proxy.cpp).
THEOREM WalkIsSafe == Spec => []ListIsAlive
<1>1. Inv => ListIsAlive
  BY DEF Inv
<1> QED
  BY <1>1, Invariance, PTL

\* WsHandler never registers two senders for a socket, although it looks for
\* one before it makes one and holds no lock between (logger_web.cpp).
THEOREM OneSender == Spec => []OneSenderPerSocket
<1>1. Inv => OneSenderPerSocket
  BY DEF Inv, SocketsApart
<1> QED
  BY <1>1, Invariance, PTL

-----------------------------------------------------------------------------
(* What each client passes on *)

\* Sequence p is a run of the sequence s that ends with the n-th of s.
IsRun(p, s, n) == \E i \in 0..n : p = SubSeq(s, i + 1, n)

\* Sequence p is what a client complete at the b-th of s has passed on once it
\* has been offered the n-th: with or without the b-th, and all of the others.
RunFrom(p, s, b, n) ==
    \E k \in {b, b + 1} \ {0} : k <= n + 1 /\ p = SubSeq(s, k, n)

LEMMA EmptyRun == ASSUME NEW s, NEW n \in Nat PROVE IsRun(<<>>, s, n)
<1>1. SubSeq(s, n + 1, n) = <<>>
  BY SubSeqEmpty
<1> QED
  BY <1>1 DEF IsRun

\* Whoever is complete just before or just after the next piece has no arrears.
LEMMA EmptyRunFrom ==
    ASSUME NEW s, NEW b \in Nat, NEW n \in Nat, b \in {n, n + 1}
    PROVE  RunFrom(<<>>, s, b, n)
<1>1. SubSeq(s, n + 1, n) = <<>>
  BY SubSeqEmpty
<1>2. n + 1 \in {b, b + 1} \ {0}
  OBVIOUS
<1> QED
  BY <1>1, <1>2 DEF RunFrom

\* What a sequence holds does not change when it grows.
LEMMA SubSeqStays ==
    ASSUME NEW S, NEW s \in Seq(S), NEW e \in S, NEW n \in 0..Len(s), NEW k \in 1..(n + 1)
    PROVE  SubSeq(Append(s, e), k, n) = SubSeq(s, k, n)
<1>1. Len(s) \in Nat /\ n \in Nat /\ k \in Nat /\ k >= 1
  BY LenProperties
<1>2. \A j \in k..n : j \in 1..Len(s)
  BY <1>1
<1>3. \A j \in k..n : s[j] \in S /\ Append(s, e)[j] = s[j]
  BY <1>2, AppendFacts, ElementOfSeq
<1> DEFINE a == SubSeq(s, k, n)
           b == SubSeq(Append(s, e), k, n)
<1>4. /\ a \in Seq(S) /\ b \in Seq(S) /\ Len(a) = Len(b)
      /\ \A j \in 1..(n - k + 1) : a[j] = s[k + j - 1] /\ b[j] = Append(s, e)[k + j - 1]
      /\ Len(a) = IF k <= n THEN n - k + 1 ELSE 0
  BY <1>1, <1>3, SubSeqProperties
<1> HIDE DEF a, b
<1>5. \A j \in 1..Len(a) : a[j] = b[j]
  <2> TAKE j \in 1..Len(a)
  <2>1. j \in 1..(n - k + 1) /\ k + j - 1 \in k..n
    BY <1>1, <1>4
  <2> QED
    BY <1>3, <1>4, <2>1
<1>6. a = b
  BY <1>4, <1>5, SeqEqual
<1> QED
  BY <1>6 DEF a, b

LEMMA SubSeqGrows ==
    ASSUME NEW S, NEW s \in Seq(S), NEW n \in 1..Len(s), NEW k \in 1..n
    PROVE  SubSeq(s, k, n) = Append(SubSeq(s, k, n - 1), s[n])
<1>1. Len(s) \in Nat /\ n \in Nat /\ k \in 1..Len(s) /\ n \in k..Len(s) /\ n - 1 \in Int
  BY LenProperties
<1>2. SubSeq(s, k, n) = SubSeq(s, k, n - 1) \o <<s[n]>>
  BY <1>1, SubSeqRecursiveSecond
<1>3. \A j \in k..(n - 1) : s[j] \in S
  <2>1. \A j \in k..(n - 1) : j \in 1..Len(s)
    BY <1>1
  <2> QED
    BY <2>1, ElementOfSeq
<1>4. SubSeq(s, k, n - 1) \in Seq(S) /\ s[n] \in S
  BY <1>1, <1>3, SubSeqProperties, ElementOfSeq
<1> QED
  BY <1>2, <1>4, AppendIsConcat

LEMMA RunStays ==
    ASSUME NEW S, NEW s \in Seq(S), NEW e \in S, NEW n \in 0..Len(s), NEW p, IsRun(p, s, n)
    PROVE  IsRun(p, Append(s, e), n)
<1>1. PICK i \in 0..n : p = SubSeq(s, i + 1, n)
  BY DEF IsRun
<1>2. i + 1 \in 1..(n + 1)
  BY LenProperties
<1> QED
  BY <1>1, <1>2, SubSeqStays DEF IsRun

LEMMA RunFromStays ==
    ASSUME NEW S, NEW s \in Seq(S), NEW e \in S, NEW n \in 0..Len(s), NEW p,
           NEW b \in Nat, RunFrom(p, s, b, n)
    PROVE  RunFrom(p, Append(s, e), b, n)
<1>1. PICK k \in {b, b + 1} \ {0} : k <= n + 1 /\ p = SubSeq(s, k, n)
  BY DEF RunFrom
<1>2. k \in 1..(n + 1)
  BY <1>1, LenProperties
<1> QED
  BY <1>1, <1>2, SubSeqStays DEF RunFrom

LEMMA RunFromGrows ==
    ASSUME NEW S, NEW s \in Seq(S), NEW n \in 1..Len(s), NEW p, NEW b \in Nat,
           RunFrom(p, s, b, n - 1)
    PROVE  RunFrom(Append(p, s[n]), s, b, n)
<1>1. PICK k \in {b, b + 1} \ {0} : k <= (n - 1) + 1 /\ p = SubSeq(s, k, n - 1)
  BY DEF RunFrom
<1>2. k \in 1..n /\ k <= n + 1
  BY <1>1, LenProperties
<1> QED
  BY <1>1, <1>2, SubSeqGrows DEF RunFrom

LEMMA RunFromIsRun ==
    ASSUME NEW s, NEW n \in Nat, NEW p, NEW b \in Nat, RunFrom(p, s, b, n)
    PROVE  IsRun(p, s, n)
<1>1. PICK k \in {b, b + 1} \ {0} : k <= n + 1 /\ p = SubSeq(s, k, n)
  BY DEF RunFrom
<1>2. k - 1 \in 0..n /\ (k - 1) + 1 = k
  BY <1>1
<1> QED
  BY <1>1, <1>2 DEF IsRun

\* A client that is not complete has passed nothing on; a complete one on the
\* list has passed on all since then up to the newest piece, or up to the one
\* before it while the walk has not come to it yet, unless it is to be deleted.
Flow ==
    /\ at = "send" => stream # <<>> /\ piece = stream[Len(stream)]
    /\ \A c \in Clients : phase[c] \in {"none", "base", "raw"} => sent[c] = <<>>
    /\ \A c \in Clients : \E n \in 0..Len(stream) : IsRun(sent[c], stream, n)
    /\ \A k \in DOMAIN list : phase[list[k]] = "built" =>
          IF at = "send" /\ k >= pos
          THEN RunFrom(sent[list[k]], stream, born[list[k]], Len(stream) - 1)
          ELSE \/ \E i \in DOMAIN erase : erase[i] = list[k]
               \/ RunFrom(sent[list[k]], stream, born[list[k]], Len(stream))

LEMMA FlowIsGapless == ASSUME TypeOK, Flow PROVE NoGaps
<1>1. Len(stream) \in Nat
  BY LenProperties DEF TypeOK
<1>2. \A n \in 0..Len(stream) : n \in Nat /\ \A i \in 0..n : i \in 0..Len(stream)
  BY <1>1
<1> QED
  BY <1>2 DEF Flow, IsRun, NoGaps

LEMMA InitFlow == Init => Flow
<1> SUFFICES ASSUME Init PROVE Flow
  OBVIOUS
<1>1. stream = <<>> /\ Len(stream) = 0 /\ at = "pop" /\ \A c \in Clients : sent[c] = <<>>
  BY DEF Init
<1>2. IsRun(<<>>, stream, 0)
  BY EmptyRun
<1>3. list = <<LogFile>> /\ DOMAIN list = {1} /\ list[1] \in Clients /\ born[list[1]] = 0
  BY DEF Init, Clients
<1>4. RunFrom(<<>>, stream, 0, 0)
  BY EmptyRunFrom
<1> QED
  BY <1>1, <1>2, <1>3, <1>4 DEF Flow

LEMMA SameFlow ==
    ASSUME Flow, UNCHANGED <<at, piece, pos, erase, list, phase, stream, sent, born>>
    PROVE  Flow'
  BY DEF Flow

\* A new piece: nobody on the list has it, everybody has those before.
LEMMA BroadcastFlow ==
    ASSUME TypeOK, Flow, erase = <<>>, at # "send", NEW p \in Pieces, Broadcast(p),
           UNCHANGED <<erase, list, phase, sent, born>>
    PROVE  Flow'
<1> DEFINE L == Len(stream)
<1>1. /\ stream \in Seq(Pieces) /\ L \in Nat /\ stream' = Append(stream, p)
      /\ piece' = p /\ pos' = 1 /\ at' = "send"
  BY LenProperties DEF TypeOK, Broadcast
<1>2. Len(stream') = L + 1 /\ stream'[L + 1] = p /\ stream' # <<>>
  BY <1>1, AppendProperties
<1>3. \A q, n : n \in 0..L /\ IsRun(q, stream, n) => IsRun(q, stream', n)
  BY <1>1, RunStays
<1>4. DOMAIN erase = {}
  BY EmptySeq
<1>5. \A k \in DOMAIN list : /\ k >= 1 /\ born[list[k]] \in Nat
                             /\ phase[list[k]] = "built" =>
                                  RunFrom(sent[list[k]], stream, born[list[k]], L)
  <2> TAKE k \in DOMAIN list
  <2>1. k >= 1 /\ list[k] \in Clients
    BY LenProperties, ElementOfSeq DEF TypeOK
  <2>2. born[list[k]] \in Nat
    BY <2>1 DEF TypeOK
  <2>3. phase[list[k]] = "built" => RunFrom(sent[list[k]], stream, born[list[k]], L)
    BY <1>4 DEF Flow
  <2> QED
    BY <2>1, <2>2, <2>3
<1>6. (L + 1) - 1 = L /\ L \in 0..L /\ \A n \in 0..L : n \in 0..(L + 1)
  BY <1>1
<1> HIDE DEF L
<1>7. \A c \in Clients : \E n \in 0..(L + 1) : IsRun(sent[c], stream', n)
  BY <1>3, <1>6 DEF Flow, L
<1>8. ASSUME NEW k \in DOMAIN list, phase[list[k]] = "built"
      PROVE  RunFrom(sent[list[k]], stream', born[list[k]], L)
  <2>1. RunFrom(sent[list[k]], stream, born[list[k]], L) /\ L \in 0..Len(stream)
    BY <1>5, <1>6, <1>8 DEF L
  <2> QED
    BY <1>1, <1>5, <2>1, RunFromStays
<1>9. /\ at' = "send" => stream' # <<>> /\ piece' = stream'[Len(stream')]
      /\ \A c \in Clients : phase'[c] \in {"none", "base", "raw"} => sent'[c] = <<>>
      /\ \A c \in Clients : \E n \in 0..Len(stream') : IsRun(sent'[c], stream', n)
      /\ \A k \in DOMAIN list' : phase'[list'[k]] = "built" =>
            /\ k >= pos'
            /\ RunFrom(sent'[list'[k]], stream', born'[list'[k]], Len(stream') - 1)
  BY <1>1, <1>2, <1>5, <1>6, <1>7, <1>8 DEF Flow
<1> QED
  BY <1>1, <1>9 DEF Flow

LEMMA SendFlow == ASSUME TypeOK, PieceOK, Safe, Flow, SendToNext PROVE Flow'
<1> DEFINE L == Len(stream)
           c == list[pos]
<1>1. /\ at = "send" /\ at' = "send" /\ pos \in DOMAIN list /\ pos' = pos + 1 /\ pos \in Nat
      /\ UNCHANGED <<list, phase, piece, stream, born>>
      /\ c \in Clients /\ born[c] \in Nat /\ stream \in Seq(Pieces) /\ L \in Nat
  BY LenProperties, ElementOfSeq DEF TypeOK, SendToNext
<1>2. stream # <<>> /\ piece = stream[L] /\ L \in 1..L /\ L >= 1
  BY <1>1, EmptySeq, LenProperties DEF Flow
<1>3. phase[c] = "built" => RunFrom(sent[c], stream, born[c], L - 1)
  BY <1>1 DEF Flow
<1>4. \A k \in DOMAIN list : /\ k \in Nat /\ (k >= pos + 1 => k >= pos /\ k # pos)
                             /\ (~(k >= pos + 1) /\ k # pos => ~(k >= pos))
                             /\ (k # pos => list[k] # c)
  <2>1. \A k \in DOMAIN list : k # pos => list[k] # c
    BY <1>1 DEF Safe, ListIsAlive
  <2>2. \A k \in DOMAIN list : k \in Nat
    BY LenProperties DEF TypeOK
  <2> HIDE DEF c
  <2>3. ASSUME NEW k \in Nat
        PROVE  /\ k >= pos + 1 => k >= pos /\ k # pos
               /\ ~(k >= pos + 1) /\ k # pos => ~(k >= pos)
    BY <1>1
  <2> QED
    BY <2>1, <2>2, <2>3
<1>5. \/ /\ UNCHANGED erase
         /\ sent' = [sent EXCEPT ![c] = Append(@, piece)]
         /\ phase[c] = "built"
      \/ UNCHANGED sent /\ erase' = Append(erase, c)
      \/ UNCHANGED <<sent, erase>> /\ phase[c] \in {"base", "raw"}
  BY DEF SendToNext, Forward, Doom, PieceOK
<1> HIDE DEF L, c
<1>6. \A x \in Clients : x # c => sent'[x] = sent[x]
  BY <1>5 DEF TypeOK
<1>7. \A k \in DOMAIN list : list[k] \in Clients
  BY LenProperties, ElementOfSeq DEF TypeOK
<1>8. \A i \in DOMAIN erase : i \in DOMAIN erase' /\ erase'[i] = erase[i]
  <2>1. CASE UNCHANGED erase
    BY <2>1
  <2>2. CASE erase' = Append(erase, c) /\ c \in Senders
    BY <2>2, AppendFacts, LenProperties DEF TypeOK
  <2>3. erase' = Append(erase, c) => c \in Senders
    <3>1. ASSUME erase' = Append(erase, c) PROVE erase' # erase
      BY <3>1, LenProperties DEF TypeOK
    <3>2. erase' # erase => c # LogFile
      BY DEF SendToNext, Forward, PieceOK, c
    <3> QED
      BY <1>1, <3>1, <3>2 DEF Clients
  <2> QED
    BY <1>5, <2>1, <2>2, <2>3
<1>9. \/ phase[c] = "built" /\ RunFrom(sent'[c], stream, born[c], L)
      \/ phase[c] \in {"base", "raw"} /\ sent'[c] = sent[c]
      \/ /\ sent'[c] = sent[c]
         /\ \E i \in DOMAIN erase' : erase'[i] = c
  <2>1. CASE sent' = [sent EXCEPT ![c] = Append(@, piece)] /\ phase[c] = "built"
    <3>1. sent'[c] = Append(sent[c], stream[L])
      BY <1>1, <1>2, <2>1 DEF TypeOK
    <3>2. L \in 1..Len(stream)
      BY <1>2 DEF L
    <3> QED
      BY <1>1, <1>3, <2>1, <3>1, <3>2, RunFromGrows
  <2>2. CASE UNCHANGED <<sent, erase>> /\ phase[c] \in {"base", "raw"}
    BY <2>2
  <2>3. CASE UNCHANGED sent /\ erase' = Append(erase, c)
    <3>1. erase \in Seq(Clients)
      BY <1>7 DEF TypeOK, Clients
    <3>2. DOMAIN erase' = 1..(Len(erase) + 1) /\ erase'[Len(erase) + 1] = c /\ Len(erase) \in Nat
      BY <1>1, <2>3, <3>1, AppendFacts, LenProperties
    <3>3. Len(erase) + 1 \in DOMAIN erase'
      BY <3>2
    <3> QED
      BY <2>3, <3>2, <3>3
  <2> QED
    BY <1>5, <2>1, <2>2, <2>3
<1>10. \A x \in Clients : phase[x] \in {"none", "base", "raw"} => sent'[x] = <<>>
  BY <1>5, <1>6 DEF Flow
<1>11. \A x \in Clients : \E n \in 0..L : IsRun(sent'[x], stream, n)
  <2>1. L \in 0..L /\ L \in Nat
    BY <1>1, <1>2
  <2>2. RunFrom(sent'[c], stream, born[c], L) => IsRun(sent'[c], stream, L)
    BY <1>1, <2>1, RunFromIsRun
  <2> QED
    BY <1>6, <1>9, <2>1, <2>2 DEF Flow, L
<1>12. ASSUME NEW k \in DOMAIN list, phase[list[k]] = "built"
       PROVE  IF k >= pos + 1
              THEN RunFrom(sent'[list[k]], stream, born[list[k]], L - 1)
              ELSE \/ \E i \in DOMAIN erase' : erase'[i] = list[k]
                   \/ RunFrom(sent'[list[k]], stream, born[list[k]], L)
  <2>1. CASE k = pos
    BY <1>1, <1>4, <1>9, <1>12, <2>1 DEF c
  <2>2. CASE k # pos
    <3>1. sent'[list[k]] = sent[list[k]]
      BY <1>4, <1>6, <1>7, <2>2
    <3>2. CASE k >= pos + 1
      BY <1>1, <1>4, <1>12, <3>1, <3>2 DEF Flow, L
    <3>3. CASE ~(k >= pos + 1)
      <4>1. ~(k >= pos)
        BY <1>4, <2>2, <3>3
      <4>2. \/ \E i \in DOMAIN erase : erase[i] = list[k]
            \/ RunFrom(sent[list[k]], stream, born[list[k]], L)
        BY <1>12, <4>1 DEF Flow, L
      <4> QED
        BY <1>8, <3>1, <3>3, <4>2
    <3> QED
      BY <3>2, <3>3
  <2> QED
    BY <2>1, <2>2
<1> QED
  BY <1>1, <1>2, <1>10, <1>11, <1>12 DEF Flow, L

\* Who is deleted leaves the list; what the others have passed on stays.
LEMMA DeleteFlow == ASSUME TypeOK, PieceOK, Safe, Flow, DeleteFailed PROVE Flow'
<1> DEFINE d == Head(erase)
<1>1. /\ at = "erase" /\ at' = "erase" /\ erase' = Tail(erase) /\ erase # <<>>
      /\ phase' = [phase EXCEPT ![d] = "dead"]
      /\ UNCHANGED <<piece, stream, sent, born>>
  BY DEF DeleteFailed
<1>2. PICK r \in DOMAIN list : list[r] = d /\ list' = RemoveAt(list, r)
  BY FirstOfErase DEF Safe
<1>3. /\ list \in Seq(Clients) /\ Len(list) \in Nat /\ DOMAIN list = 1..Len(list)
      /\ r \in 1..Len(list)
  BY <1>2, LenProperties DEF TypeOK
<1>4. /\ DOMAIN list' = 1..(Len(list) - 1)
      /\ \A k \in 1..(Len(list) - 1) : list'[k] = IF k < r THEN list[k] ELSE list[k + 1]
  <2>1. /\ list' \in Seq(Clients) /\ Len(list') = Len(list) - 1
        /\ \A k \in 1..(Len(list) - 1) : list'[k] = IF k < r THEN list[k] ELSE list[k + 1]
    BY <1>2, <1>3, RemoveAtFacts
  <2> QED
    BY <2>1, LenProperties
<1>5. \A k \in DOMAIN list' : \E l \in DOMAIN list : list'[k] = list[l] /\ list[l] # d
  <2> TAKE k \in DOMAIN list'
  <2>1. CASE k < r
    <3>1. k \in DOMAIN list /\ k # r
      BY <1>3, <1>4, <2>1
    <3> QED
      BY <1>2, <1>4, <2>1, <3>1 DEF Safe, ListIsAlive
  <2>2. CASE ~(k < r)
    <3>1. k + 1 \in DOMAIN list /\ k + 1 # r
      BY <1>3, <1>4, <2>2
    <3> QED
      BY <1>2, <1>4, <2>2, <3>1 DEF Safe, ListIsAlive
  <2> QED
    BY <2>1, <2>2
<1>6. \A i \in DOMAIN erase : erase[i] # d => \E j \in DOMAIN erase' : erase'[j] = erase[i]
  <2>1. /\ erase \in Seq(Senders) /\ DOMAIN erase = 1..Len(erase) /\ d = erase[1]
        /\ Len(erase) \in Nat /\ DOMAIN erase' = 1..(Len(erase) - 1)
        /\ \A j \in 1..(Len(erase) - 1) : erase'[j] = erase[j + 1]
    BY <1>1, TailFacts, LenProperties DEF TypeOK
  <2> TAKE i \in DOMAIN erase
  <2> HAVE erase[i] # d
  <2>2. i - 1 \in 1..(Len(erase) - 1) /\ (i - 1) + 1 = i
    BY <2>1
  <2> QED
    BY <2>1, <2>2
<1>7. \A x \in Clients : phase'[x] # "dead" => phase'[x] = phase[x]
  BY <1>1 DEF TypeOK
<1> HIDE DEF d
<1>8. ASSUME NEW k \in DOMAIN list', phase'[list'[k]] = "built"
      PROVE  \/ \E i \in DOMAIN erase' : erase'[i] = list'[k]
             \/ RunFrom(sent[list'[k]], stream, born[list'[k]], Len(stream))
  <2>1. PICK l \in DOMAIN list : list'[k] = list[l] /\ list[l] # d
    BY <1>5
  <2>2. phase[list[l]] = "built"
    <3>1. list[l] \in Clients
      BY <1>3, ElementOfSeq
    <3> QED
      BY <1>7, <1>8, <2>1, <3>1
  <2>3. \/ \E i \in DOMAIN erase : erase[i] = list[l]
        \/ RunFrom(sent[list[l]], stream, born[list[l]], Len(stream))
    BY <1>1, <2>2 DEF Flow
  <2> QED
    BY <1>6, <2>1, <2>3
<1> QED
  BY <1>1, <1>7, <1>8 DEF Flow

\* A new sender has passed on nothing yet, and when it is complete it has no
\* arrears: the piece under way either reaches it or went by.
LEMMA ConstructFlow ==
    ASSUME TypeOK, PieceOK, Safe, Flow, Construct
    PROVE  Flow'
<1>1. Len(stream) \in Nat /\ (at = "send" => Len(stream) - 1 \in Nat)
  BY LenProperties, EmptySeq DEF TypeOK, Flow
<1>2. CASE ConstructClient
  <2>1. PICK c \in Senders :
          /\ phase[c] = "none" /\ phase' = [phase EXCEPT ![c] = "base"]
          /\ list' = Append(list, c)
          /\ UNCHANGED <<at, piece, pos, erase, stream, sent, born>>
    BY <1>2 DEF ConstructClient, proxyVars
  <2>2. c \in Clients /\ sent[c] = <<>>
    BY <2>1 DEF Flow, Clients
  <2>3. /\ DOMAIN list' = 1..(Len(list) + 1) /\ Len(list) \in Nat
        /\ DOMAIN list = 1..Len(list)
        /\ \A k \in 1..Len(list) : list'[k] = list[k]
        /\ list'[Len(list) + 1] = c
    BY <2>1, <2>2, AppendFacts, LenProperties DEF TypeOK
  <2>4. \A k \in DOMAIN list' : k \in DOMAIN list \/ k = Len(list) + 1
    BY <2>3
  <2>5. /\ \A x \in Clients : phase'[x] \in {"none", "base", "raw"} => sent[x] = <<>>
        /\ \A x \in Clients : phase'[x] = "built" => x # c /\ phase[x] = "built"
    BY <2>1, <2>2 DEF Flow, TypeOK
  <2>6. \A k \in DOMAIN list : list[k] \in Clients
    BY ElementOfSeq, LenProperties DEF TypeOK
  <2>7. ASSUME NEW k \in DOMAIN list', phase'[list'[k]] = "built"
        PROVE  k \in DOMAIN list /\ list'[k] = list[k] /\ phase[list[k]] = "built"
    BY <2>2, <2>3, <2>4, <2>5, <2>6, <2>7
  <2> QED
    BY <2>1, <2>5, <2>7 DEF Flow
<1>3. CASE ConstructVtable
  <2>1. /\ UNCHANGED <<at, piece, pos, erase, list, stream, sent, born>>
        /\ web.obj \in Clients /\ phase[web.obj] = "base"
        /\ phase' = [phase EXCEPT ![web.obj] = "raw"]
    BY <1>3 DEF ConstructVtable, TypeOK, Safe, Unfinished, proxyVars
  <2>2. /\ \A x \in Clients : phase'[x] \in {"none", "base", "raw"} => sent[x] = <<>>
        /\ \A x \in Clients : phase'[x] = "built" => phase[x] = "built"
    BY <2>1 DEF Flow, TypeOK
  <2>3. \A k \in DOMAIN list : list[k] \in Clients
    BY ElementOfSeq, LenProperties DEF TypeOK
  <2> QED
    BY <2>1, <2>2, <2>3 DEF Flow
<1>4. CASE ConstructFields
  <2>1. UNCHANGED <<at, piece, pos, erase, list, stream, sent>>
    BY <1>4 DEF ConstructFields, proxyVars
  <2>2. CASE UNCHANGED <<phase, born>>
    BY <2>1, <2>2, SameFlow
  <2>3. CASE /\ phase[web.obj] = "raw"
             /\ phase' = [phase EXCEPT ![web.obj] = "built"]
             /\ born' = [born EXCEPT ![web.obj] = Len(stream)]
    <3>1. web.obj \in Clients /\ sent[web.obj] = <<>>
      BY <2>3 DEF TypeOK, Flow
    <3>2. /\ born'[web.obj] = Len(stream)
          /\ \A x \in Clients : x # web.obj => phase'[x] = phase[x] /\ born'[x] = born[x]
      BY <2>3, <3>1 DEF TypeOK
    <3>3. /\ RunFrom(<<>>, stream, Len(stream), Len(stream))
          /\ at = "send" => RunFrom(<<>>, stream, Len(stream), Len(stream) - 1)
      <4>1. at = "send" => Len(stream) = (Len(stream) - 1) + 1
        BY <1>1
      <4> QED
        BY <1>1, <4>1, EmptyRunFrom
    <3>4. \A x \in Clients : phase'[x] \in {"none", "base", "raw"} => sent[x] = <<>>
      BY <3>1, <3>2 DEF Flow
    <3>5. ASSUME NEW k \in DOMAIN list, phase'[list[k]] = "built"
          PROVE  IF at = "send" /\ k >= pos
                 THEN RunFrom(sent[list[k]], stream, born'[list[k]], Len(stream) - 1)
                 ELSE \/ \E i \in DOMAIN erase : erase[i] = list[k]
                      \/ RunFrom(sent[list[k]], stream, born'[list[k]], Len(stream))
      <4>1. list[k] \in Clients
        BY ElementOfSeq, LenProperties DEF TypeOK
      <4>2. CASE list[k] = web.obj
        BY <3>1, <3>2, <3>3, <4>2
      <4>3. CASE list[k] # web.obj
        BY <3>2, <3>5, <4>1, <4>3 DEF Flow
      <4> QED
        BY <4>2, <4>3
    <3> QED
      BY <2>1, <3>4, <3>5 DEF Flow
  <2> QED
    BY <1>4, <2>2, <2>3 DEF ConstructFields
<1> QED
  BY <1>2, <1>3, <1>4 DEF Construct

LEMMA NextKeepsFlow == Inv /\ Flow /\ [Next]_vars => Flow'
<1> SUFFICES ASSUME Inv, Flow, [Next]_vars PROVE Flow'
  OBVIOUS
<1>1. TypeOK /\ PieceOK /\ Safe
  BY DEF Inv, Safe
<1>2. ASSUME UNCHANGED vars PROVE Flow'
  BY <1>2, SameFlow DEF vars, proxyVars
<1>3. ASSUME NEW k \in Kinds, Write(k) PROVE Flow'
  BY <1>3, SameFlow DEF Write, proxyVars
<1>4. ASSUME PopMessage PROVE Flow'
  <2>1. /\ erase = <<>> /\ at # "send" /\ queue # <<>>
        /\ UNCHANGED <<erase, list, phase, sent, born>>
    BY <1>1, <1>4 DEF PopMessage, Safe, Walk
  <2>2. Head(queue).id \in 1..MaxMsgs
    <3>1. queue \in Seq(Messages)
      BY <1>1 DEF TypeOK
    <3>2. Head(queue) \in Messages
      BY <2>1, <3>1, TailFacts
    <3> QED
      BY <3>2 DEF Messages
  <2>3. ASSUME NEW part \in {"header", "text"}, Broadcast([id |-> Head(queue).id, part |-> part])
        PROVE  Flow'
    <3>1. [id |-> Head(queue).id, part |-> part] \in Pieces
      BY <2>2 DEF Pieces
    <3> QED
      BY <1>1, <2>1, <2>3, <3>1, BroadcastFlow
  <2>4. UNCHANGED <<at, piece, pos, stream>> => Flow'
    BY <2>1, SameFlow
  <2> QED
    BY <1>4, <2>3, <2>4 DEF PopMessage
<1>5. ASSUME SendToNext PROVE Flow'
  BY <1>1, <1>5, SendFlow
<1>6. ASSUME EndOfList PROVE Flow'
  <2>1. /\ UNCHANGED <<piece, pos, erase, list, phase, stream, sent, born>>
        /\ at = "send" /\ at' = "erase" /\ pos > Len(list)
    BY <1>6 DEF EndOfList
  <2>2. \A k \in DOMAIN list : ~(k >= pos)
    BY <1>1, <2>1, LenProperties DEF TypeOK
  <2> QED
    BY <2>1, <2>2 DEF Flow
<1>7. ASSUME DeleteFailed PROVE Flow'
  BY <1>1, <1>7, DeleteFlow
<1>8. ASSUME PieceDone PROVE Flow'
  <2>1. /\ erase = <<>> /\ at = "erase" /\ piece \in Pieces
        /\ UNCHANGED <<erase, list, phase, sent, born>>
    BY <1>1, <1>8 DEF PieceDone, PieceOK
  <2>2. ASSUME Broadcast([piece EXCEPT !.part = "text"]) PROVE Flow'
    <3>1. [piece EXCEPT !.part = "text"] \in Pieces
      BY <2>1 DEF Pieces
    <3> QED
      BY <1>1, <2>1, <2>2, <3>1, BroadcastFlow
  <2>3. ASSUME at' = "pop", UNCHANGED <<piece, pos, stream>> PROVE Flow'
    BY <2>1, <2>3 DEF Flow
  <2> QED
    BY <1>8, <2>2, <2>3 DEF PieceDone
<1>9. ASSUME NEW f \in Fds, Connect(f) \/ Disconnect(f) \/ Frame(f) PROVE Flow'
  BY <1>9, SameFlow DEF Connect, Disconnect, Frame, proxyVars
<1>10. ASSUME Construct PROVE Flow'
  BY <1>1, <1>10, ConstructFlow
<1> QED
  BY <1>2, <1>3, <1>4, <1>5, <1>6, <1>7, <1>8, <1>9, <1>10 DEF Next, ProxyStep

\* Whatever happens to the others while the list is walked, a client passes on
\* a run of what was broadcast, without gap or repeat (msg_proxy.cpp).
THEOREM Gapless == Spec => []NoGaps
<1>1. Inv /\ Flow => NoGaps
  BY FlowIsGapless DEF Inv
<1> QED
  BY <1>1, Invariance, InitFlow, NextKeepsFlow, PTL DEF Spec

\* Between two pieces every complete client on the list has passed on all that
\* was broadcast since it was complete (msg_proxy.cpp:63-126).
THEOREM NothingMissed == Spec => []Complete
<1>1. Inv /\ Flow => Complete
  <2> SUFFICES ASSUME Inv, Flow, at = "erase",
                      NEW i \in DOMAIN list, phase[list[i]] = "built",
                      ~Contains(erase, list[i])
               PROVE  \E k \in {born[list[i]], born[list[i]] + 1} \ {0} :
                         sent[list[i]] = SubSeq(stream, k, Len(stream))
    BY DEF Complete
  <2>1. ~\E j \in DOMAIN erase : erase[j] = list[i]
    <3>1. erase \in Seq(Senders)
      BY DEF Inv, TypeOK
    <3> QED
      BY <3>1, LenProperties DEF Contains
  <2>2. RunFrom(sent[list[i]], stream, born[list[i]], Len(stream))
    BY <2>1 DEF Flow
  <2> QED
    BY <2>2 DEF RunFrom
<1> QED
  BY <1>1, Invariance, InitFlow, NextKeepsFlow, PTL DEF Spec
=============================================================================
