------------------------------ MODULE MsgProxy ------------------------------
(***************************************************************************)
(* The broadcaster of what arrives on the UART: DebugMsgRx, a MsgProxy     *)
(* whose task pops messages and hands each one to every registered Client  *)
(* (components/logger/msg_proxy.cpp), and the web terminal's side of it,   *)
(* WsHandler, which registers a WebLogSender for each web socket           *)
(* (components/logger/logger_web.cpp).                                     *)
(*                                                                         *)
(* Two threads meet in the client list.  The proxy's task walks it WITHOUT *)
(* mMutex (sendTimeStamp and sendStr take no lock and task() takes none),  *)
(* while the web server's thread adds to it under mMutex, from the         *)
(* constructor of Client, when the object is still missing its own virtual *)
(* table, its server handle and its socket.  A sender whose socket fails   *)
(* is deleted by the proxy after the walk.  The queue of messages is the   *)
(* buffer BoundedFifo, which BlockingQueue implements.                     *)
(***************************************************************************)
EXTENDS Naturals, Sequences, SequencesExt, FiniteSets

CONSTANTS
    Fds,            \* the web server's socket numbers, reused after a close
    QueueSize,      \* cQueueSize
    MaxMsgs,        \* bound on calls of write
    MaxConns,       \* bound on web sockets opened
    MaxSenders      \* bound on WebLogSenders allocated

ASSUME ProxyAssumption ==
    /\ QueueSize \in Nat \ {0}
    /\ {MaxMsgs, MaxConns, MaxSenders} \subseteq Nat
    /\ 0 \notin Fds

Closed == 0                 \* no connection on a socket
LogFile == 0                \* the client that is registered at start for good
Senders == 1..MaxSenders
Clients == Senders \cup {LogFile}
Kinds == {"line", "rest", "empty"}

Messages == [id : 1..MaxMsgs, kind : Kinds]
Pieces == [id : 1..MaxMsgs, part : {"header", "text"}]
NoPiece == [id |-> 0, part |-> "text"]

VARIABLES
    queue,      \* mQueue
    writes,     \* calls of write so far
    list,       \* mClientList
    phase,      \* phase[c]: how far client c is built, or "dead" (deleted)
    fdOf,       \* fdOf[c]: the socket number of sender c (cId and fd)
    at,         \* where the proxy's task is: "pop", "send" or "erase"
    piece,      \* what it is sending
    pos,        \* its iterator over mClientList
    erase,      \* the local list of clients whose write failed
    sock,       \* sock[f]: the connection that socket number f stands for
    conns,      \* connections opened so far
    web,        \* the web server's thread: its place in WsHandler, socket, object
    stream,     \* history: the pieces broadcast, in order
    sent,       \* sent[c]: history: the pieces client c passed on
    born        \* born[c]: Len(stream) when c was complete

proxyVars == <<at, piece, pos, erase>>
webVars == <<sock, conns, web>>
vars == <<queue, writes, list, phase, fdOf, proxyVars, webVars,
          stream, sent, born>>

Init ==
    /\ queue = <<>>
    /\ writes = 0
    /\ list = <<LogFile>>
    /\ phase = [c \in Clients |-> IF c = LogFile THEN "built" ELSE "none"]
    /\ fdOf = [c \in Clients |-> 0]
    /\ at = "pop"
    /\ piece = NoPiece
    /\ pos = 1
    /\ erase = <<>>
    /\ sock = [f \in Fds |-> Closed]
    /\ conns = 0
    /\ web = [pc |-> "idle", fd |-> 0, obj |-> 0]
    /\ stream = <<>>
    /\ sent = [c \in Clients |-> <<>>]
    /\ born = [c \in Clients |-> 0]

-----------------------------------------------------------------------------
(* write: any thread; a full queue loses the message after 100 ms. *)

Write(kind) ==
    /\ writes < MaxMsgs
    /\ writes' = writes + 1
    /\ \/ /\ Len(queue) < QueueSize
          /\ queue' = Append(queue, [id |-> writes + 1, kind |-> kind])
       \/ /\ Len(queue) = QueueSize
          /\ UNCHANGED queue
    /\ UNCHANGED <<list, phase, fdOf, proxyVars, webVars,
                   stream, sent, born>>

-----------------------------------------------------------------------------
(* DebugMsgRx::task *)

\* Start a walk over the list with piece p.
Broadcast(p) ==
    /\ piece' = p
    /\ stream' = Append(stream, p)
    /\ pos' = 1
    /\ at' = "send"

\* Mutant: an empty message is tested before it is popped, and never is.
PopMessage_LeavesEmpty ==
    /\ at = "pop"
    /\ queue # <<>>
    /\ Head(queue).kind # "empty"
    /\ queue' = Tail(queue)
    /\ LET m == Head(queue) IN
       \/ m.kind = "line" /\ Broadcast([id |-> m.id, part |-> "header"])
       \/ m.kind = "rest" /\ Broadcast([id |-> m.id, part |-> "text"])
    /\ UNCHANGED <<writes, list, phase, fdOf, erase, webVars,
                   sent, born>>

\* pop, then the header first if the message starts a line.
PopMessage ==
    /\ at = "pop"
    /\ queue # <<>>
    /\ queue' = Tail(queue)
    /\ LET m == Head(queue) IN
       \/ m.kind = "line" /\ Broadcast([id |-> m.id, part |-> "header"])
       \/ m.kind = "rest" /\ Broadcast([id |-> m.id, part |-> "text"])
       \/ m.kind = "empty" /\ UNCHANGED <<at, piece, pos, stream>>
    /\ UNCHANGED <<writes, list, phase, fdOf, erase, webVars,
                   sent, born>>

Forward(c) ==
    /\ sent' = [sent EXCEPT ![c] = Append(@, piece)]
    /\ UNCHANGED erase

\* Mutant: a failed write is ignored and the client stays.
Doom_Ignore(c) == c \in Clients /\ UNCHANGED <<erase, sent>>

Doom(c) ==
    /\ erase' = Append(erase, c)
    /\ UNCHANGED sent

\* One turn of the loop of sendTimeStamp or sendStr.
SendToNext ==
    /\ at = "send"
    /\ pos <= Len(list)
    /\ pos' = pos + 1
    /\ LET c == list[pos] IN
       \/ \* LogFile::writeStr always returns true
          /\ c = LogFile
          /\ Forward(c)
       \/ \* the frame goes out on the sender's socket
          /\ c # LogFile /\ phase[c] = "built" /\ sock[fdOf[c]] # Closed
          /\ Forward(c)
       \/ \* httpd_ws_send_frame_async fails
          /\ c # LogFile /\ phase[c] = "built"
          /\ Doom(c)
       \/ \* still a bare Client: the base writeStr sends nothing, returns true
          /\ phase[c] = "base"
          /\ UNCHANGED <<sent, erase>>
       \/ \* hd and fd hold whatever the heap held: it fails, or is sent astray
          /\ phase[c] = "raw"
          /\ Doom(c) \/ UNCHANGED <<sent, erase>>
    /\ UNCHANGED <<queue, writes, list, phase, fdOf, at, piece, webVars,
                   stream, born>>

\* Mutant: the walk stops before the last client.
EndOfList_Early ==
    /\ at = "send"
    /\ pos >= Len(list)
    /\ at' = "erase"
    /\ UNCHANGED <<queue, writes, list, phase, fdOf, piece, pos, erase, webVars,
                   stream, sent, born>>

EndOfList ==
    /\ at = "send"
    /\ pos > Len(list)
    /\ at' = "erase"
    /\ UNCHANGED <<queue, writes, list, phase, fdOf, piece, pos, erase, webVars,
                   stream, sent, born>>

\* Mutant: the destructor of Client does not call removeClient.
DeleteFailed_StillListed ==
    /\ at = "erase"
    /\ erase # <<>>
    /\ erase' = Tail(erase)
    /\ phase' = [phase EXCEPT ![Head(erase)] = "dead"]
    /\ UNCHANGED <<queue, writes, list, fdOf, at, piece, pos, webVars,
                   stream, sent, born>>

\* delete *it: the destructor of Client takes it off the list.
DeleteFailed ==
    /\ at = "erase"
    /\ erase # <<>>
    /\ erase' = Tail(erase)
    /\ list' = RemoveAt(list, CHOOSE i \in DOMAIN list : list[i] = Head(erase))
    /\ phase' = [phase EXCEPT ![Head(erase)] = "dead"]
    /\ UNCHANGED <<queue, writes, fdOf, at, piece, pos, webVars,
                   stream, sent, born>>

\* After the header comes the text; after the text the next message.
PieceDone ==
    /\ at = "erase"
    /\ erase = <<>>
    /\ \/ /\ piece.part = "header"
          /\ Broadcast([piece EXCEPT !.part = "text"])
       \/ /\ piece.part = "text"
          /\ at' = "pop"
          /\ UNCHANGED <<piece, pos, stream>>
    /\ UNCHANGED <<queue, writes, list, phase, fdOf, erase, webVars,
                   sent, born>>

-----------------------------------------------------------------------------
(* The web server's thread.  It runs one handler at a time and opens and
   closes sockets between handlers. *)

\* A browser opens a web socket; the GET handshake registers nothing.
Connect(f) ==
    /\ web.pc = "idle"
    /\ sock[f] = Closed
    /\ conns < MaxConns
    /\ conns' = conns + 1
    /\ sock' = [sock EXCEPT ![f] = conns + 1]
    /\ UNCHANGED <<queue, writes, list, phase, fdOf, proxyVars, web,
                   stream, sent, born>>

Disconnect(f) ==
    /\ web.pc = "idle"
    /\ sock[f] # Closed
    /\ sock' = [sock EXCEPT ![f] = Closed]
    /\ UNCHANGED <<queue, writes, list, phase, fdOf, proxyVars, conns, web,
                   stream, sent, born>>

isAdded(id) == \E i \in DOMAIN list : fdOf[list[i]] = id

\* Mutant: a sender is registered for every frame.
Frame_NoCheck(f) ==
    /\ web.pc = "idle"
    /\ sock[f] # Closed
    /\ web' = [pc |-> "new", fd |-> f, obj |-> 0]
    /\ UNCHANGED <<queue, writes, list, phase, fdOf, proxyVars, sock, conns,
                   stream, sent, born>>

\* A frame arrives on socket f: register a sender unless there is one.
Frame(f) ==
    /\ web.pc = "idle"
    /\ sock[f] # Closed
    /\ \/ isAdded(f) /\ UNCHANGED web
       \/ ~isAdded(f) /\ web' = [pc |-> "new", fd |-> f, obj |-> 0]
    /\ UNCHANGED <<queue, writes, list, phase, fdOf, proxyVars, sock, conns,
                   stream, sent, born>>

\* new WebLogSender: the constructor of Client calls addClient.
ConstructClient ==
    /\ web.pc = "new"
    /\ \E c \in Senders :
          /\ phase[c] = "none"
          /\ \A d \in Senders : d < c => phase[d] # "none"
          /\ phase' = [phase EXCEPT ![c] = "base"]
          /\ fdOf' = [fdOf EXCEPT ![c] = web.fd]
          /\ list' = Append(list, c)
          /\ web' = [web EXCEPT !.pc = "base", !.obj = c]
    /\ UNCHANGED <<queue, writes, proxyVars, sock, conns,
                   stream, sent, born>>

\* The constructor of WebLogSender: first the virtual table ...
ConstructVtable ==
    /\ web.pc = "base"
    /\ web' = [web EXCEPT !.pc = "raw"]
    /\ phase' = [phase EXCEPT ![web.obj] = "raw"]
    /\ UNCHANGED <<queue, writes, list, fdOf, proxyVars, sock, conns,
                   stream, sent, born>>

\* ... then hd and fd, in memory the proxy may have freed by now.
ConstructFields ==
    /\ web.pc = "raw"
    /\ web' = [web EXCEPT !.pc = "idle"]
    /\ \/ /\ phase[web.obj] = "raw"
          /\ phase' = [phase EXCEPT ![web.obj] = "built"]
          /\ born' = [born EXCEPT ![web.obj] = Len(stream)]
       \/ /\ phase[web.obj] = "dead"
          /\ UNCHANGED <<phase, born>>
    /\ UNCHANGED <<queue, writes, list, fdOf, proxyVars, sock, conns,
                   stream, sent>>

-----------------------------------------------------------------------------
ProxyStep == PopMessage \/ SendToNext \/ EndOfList \/ DeleteFailed \/ PieceDone
Construct == ConstructClient \/ ConstructVtable \/ ConstructFields

Next ==
    \/ \E k \in Kinds : Write(k)
    \/ ProxyStep
    \/ \E f \in Fds : Connect(f) \/ Disconnect(f) \/ Frame(f)
    \/ Construct

(* The proxy's task and the handler that has started keep running; no browser
   has to connect, write or leave. *)
Fairness == WF_vars(ProxyStep) /\ WF_vars(Construct)

Spec == Init /\ [][Next]_vars
FairSpec == Spec /\ Fairness

-----------------------------------------------------------------------------
(* Properties *)

\* Every variable keeps to its type (msg_proxy.hpp, the members of MsgProxy).
TypeOK ==
    /\ queue \in Seq(Messages) /\ Len(queue) <= QueueSize
    /\ writes \in 0..MaxMsgs
    /\ list \in Seq(Clients)
    /\ phase \in [Clients -> {"none", "base", "raw", "built", "dead"}]
    /\ fdOf \in [Clients -> Fds \cup {0}]
    /\ at \in {"pop", "send", "erase"}
    /\ piece \in Pieces \cup {NoPiece}
    /\ pos \in Nat \ {0}
    /\ erase \in Seq(Senders)
    /\ sock \in [Fds -> 0..MaxConns]
    /\ conns \in 0..MaxConns
    /\ web \in [pc : {"idle", "new", "base", "raw"}, fd : Fds \cup {0}, obj : Clients]
    /\ stream \in Seq(Pieces)
    /\ sent \in [Clients -> Seq(Pieces)]
    /\ born \in [Clients -> Nat]

\* The unlocked walk never reaches a deleted client: what is on the list, or
\* waits in `erase`, is alive, on the list once and deleted once.
ListIsAlive ==
    /\ \A i \in DOMAIN list : phase[list[i]] \in {"base", "raw", "built"}
    /\ \A i, j \in DOMAIN list : list[i] = list[j] => i = j
    /\ \A i \in DOMAIN erase : \E j \in DOMAIN list : list[j] = erase[i]
    /\ \A i, j \in DOMAIN erase : erase[i] = erase[j] => i = j

\* At most one sender per socket number, so no browser sees a line twice, even
\* when numbers are reused and senders die between isAdded and addClient.
OneSenderPerSocket ==
    \A i, j \in DOMAIN list : fdOf[list[i]] = fdOf[list[j]] => i = j

\* A client passes on a gapless run of the broadcast, in order and without
\* repeats, whatever happens to the other clients while the list is walked.
NoGaps ==
    \A c \in Clients :
        \E i, j \in 0..Len(stream) : sent[c] = SubSeq(stream, i + 1, j)

\* Between two pieces every complete client has passed on all it was there
\* for: everything since it was complete, and perhaps the piece of that moment.
Complete ==
    at = "erase" =>
        \A i \in DOMAIN list :
            LET c == list[i] IN
            phase[c] = "built" /\ ~Contains(erase, c) =>
                \E k \in {born[c], born[c] + 1} \ {0} :
                    sent[c] = SubSeq(stream, k, Len(stream))

\* A message that was accepted is popped and its pieces reach the end of the
\* list, however many clients fail on the way.
Drains == queue # <<>> ~> (queue = <<>> /\ at = "pop")
=============================================================================
