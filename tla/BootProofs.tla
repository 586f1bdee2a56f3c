------------------------------ MODULE BootProofs ------------------------------
(***************************************************************************)
(* That no command gets lost while two threads register theirs, and that    *)
(* once app_main is through nothing aborts the program but what a driver    *)
(* refuses and a message that meets a client under construction.           *)
(*                                                                         *)
(* Both follow from one invariant about what the threads still have to do.  *)
(* A program is made of blocks in which an operation that belongs behind    *)
(* another stands right behind it (Linked): an extension of the console's   *)
(* list behind the lock, an assignment behind the test of mRun.  So who is  *)
(* about to extend the list holds the mutex and knows the list (ListOwner). *)
(* And whatever is missing - a command, a constructor's end, the driver of  *)
(* the network, a proxy's thread - stands in a program that sees to it      *)
(* (Registered, GetsWhole, GetsDone): when app_main's program is empty,     *)
(* nothing that it saw to is missing.                                       *)
(***************************************************************************)
EXTENDS Boot, SequencesExt, SequenceTheorems, TLAPS

Operations == {"lock", "push", "whole", "publish", "enter", "leave", "init", "thread",
               "create", "test", "assign", "list", "use", "join", "apply", "subscribe",
               "built", "write"}
Subjects == Commands \cup Handlers \cup Services \cup Proxies \cup Clients \cup {"rx"}
Ops == [op : Operations, of : Subjects]
ConsoleCommands == {"help", "uart", "omap", "pyocd"}

\* An operation that belongs behind another stands there.
Linked(s) ==
    \A i \in DOMAIN s :
        /\ i > 1 /\ s[i].op = "push" => s[i - 1] = Do("lock", s[i].of)
        /\ i > 1 /\ s[i].op = "assign" => s[i - 1] = Do("test", s[i].of)
        /\ s[i].op = "test" => i < Len(s) /\ s[i + 1] = Do("assign", s[i].of)
        /\ s[i].op \in {"push", "publish"} => i < Len(s) /\ s[i + 1] = Do("whole", s[i].of)
        /\ s[i].op = "list" => i = Len(s)

\* What the UART's reader and the web server's thread do.
Tools == {"create", "test", "assign", "subscribe", "built", "write"}

\* What thread t still has to do.
Left(t) == ToSet(todo[t])

Programs ==
    /\ todo \in [Threads -> Seq(Ops)]
    /\ \A t \in Threads : Linked(todo[t])
    /\ \A d \in Left("rx") \cup Left("httpd") : d.op \in Tools

\* Who is about to extend the list holds the mutex and knows the list.
ListOwner ==
    /\ seen \in [Threads -> SUBSET Commands]
    /\ \A t \in Threads :
          todo[t] # <<>> /\ Head(todo[t]).op = "push" => mutex = t /\ seen[t] = cmds

ConsoleMode ==
    /\ mode \in {"cable", "prompt", "run", "uart", "pyocd"}
    /\ mode = "cable" => todo["con"] = <<>>
    /\ mode \in {"run", "uart", "pyocd"} =>
          mutex = "con" /\ \A d \in Left("con") : d.op \notin {"lock", "push", "whole"}

\* No command is forgotten.
Registered ==
    /\ cmds \subseteq Commands
    /\ \A c \in Commands :
          \/ c \in cmds
          \/ Do("push", c) \in Left("main") \cup Left("con")
          \/ mode = "cable" /\ c \in ConsoleCommands

\* What is known and not whole is about to be.
GetsWhole ==
    /\ \A c \in cmds : c \in whole \/ Do("whole", c) \in Left("main") \cup Left("con")
    /\ \A u \in uris : u \in whole \/ Do("whole", u) \in Left("main")

\* app_main sees to the driver of the network and to both proxies.
GetsDone ==
    /\ wifi = TRUE \/ Do("init", "NetworkManager") \in Left("main")
    /\ \A p \in Proxies :
          p \in running \/ Do("test", p) \in Left("main") \/ Do("assign", p) \in Left("main")

Inv == Programs /\ ListOwner /\ ConsoleMode /\ Registered /\ GetsWhole /\ GetsDone

-----------------------------------------------------------------------------
(* The pieces that programs are made of *)

\* A piece that can stand behind another.
Block(s) ==
    /\ s \in Seq(Ops)
    /\ s # <<>>
    /\ Linked(s)
    /\ s[1].op \notin {"push", "assign"}

NoList(s) == \A i \in DOMAIN s : s[i].op # "list"

\* What a sequence contains is what stands somewhere in it.
LEMMA Elem ==
    ASSUME NEW s, NEW d
    PROVE  d \in ToSet(s) <=> \E i \in DOMAIN s : s[i] = d
BY DEF ToSet

\* A block behind a block without a list is a block.
LEMMA Concat ==
    ASSUME NEW s, NEW t, Block(s), Block(t), NoList(s)
    PROVE  /\ Block(s \o t)
           /\ ToSet(s \o t) = ToSet(s) \cup ToSet(t)
           /\ NoList(t) => NoList(s \o t)
<1> DEFINE r == s \o t
<1>1. /\ s \in Seq(Ops) /\ t \in Seq(Ops) /\ r \in Seq(Ops)
      /\ Len(s) \in Nat \ {0} /\ Len(t) \in Nat \ {0} /\ Len(r) = Len(s) + Len(t)
    BY DEF Block
<1>2. /\ DOMAIN s = 1..Len(s) /\ DOMAIN t = 1..Len(t) /\ DOMAIN r = 1..(Len(s) + Len(t))
    BY <1>1
<1>3. /\ \A i \in 1..Len(s) : r[i] = s[i]
      /\ \A i \in 1..Len(t) : r[Len(s) + i] = t[i]
    BY <1>1
<1> HIDE DEF r
<1>4. \A i \in DOMAIN r : i \in DOMAIN s \/ (i - Len(s) \in DOMAIN t /\ i = Len(s) + (i - Len(s)))
    BY <1>1, <1>2
<1>5. Linked(r)
    <2> SUFFICES ASSUME NEW i \in DOMAIN r
                 PROVE  /\ i > 1 /\ r[i].op = "push" => r[i - 1] = Do("lock", r[i].of)
                        /\ i > 1 /\ r[i].op = "assign" => r[i - 1] = Do("test", r[i].of)
                        /\ r[i].op = "test" => i < Len(r) /\ r[i + 1] = Do("assign", r[i].of)
                        /\ r[i].op \in {"push", "publish"} =>
                              i < Len(r) /\ r[i + 1] = Do("whole", r[i].of)
                        /\ r[i].op = "list" => i = Len(r)
        BY DEF Linked
    <2>1. CASE i \in DOMAIN s
        <3>1. r[i] = s[i] /\ s[i].op # "list" /\ i \in Nat /\ i >= 1 /\ i <= Len(s)
            BY <1>2, <1>3, <2>1 DEF NoList
        <3>2. /\ i > 1 /\ s[i].op = "push" => s[i - 1] = Do("lock", s[i].of)
              /\ i > 1 /\ s[i].op = "assign" => s[i - 1] = Do("test", s[i].of)
              /\ s[i].op = "test" => i < Len(s) /\ s[i + 1] = Do("assign", s[i].of)
              /\ s[i].op \in {"push", "publish"} => i < Len(s) /\ s[i + 1] = Do("whole", s[i].of)
            BY <2>1 DEF Block, Linked
        <3>3. i > 1 => i - 1 \in 1..Len(s)
            BY <1>1, <3>1
        <3>4. i < Len(s) => i + 1 \in 1..Len(s) /\ i < Len(r)
            BY <1>1, <3>1
        <3>5. /\ i > 1 => r[i - 1] = s[i - 1]
              /\ i < Len(s) => r[i + 1] = s[i + 1]
            BY <3>3, <3>4, <1>3
        <3> QED BY <3>1, <3>2, <3>4, <3>5, Zenon
    <2>2. CASE i - Len(s) \in DOMAIN t
        <3> DEFINE k == i - Len(s)
        <3>1. k \in 1..Len(t) /\ i = Len(s) + k
            BY <1>1, <1>2, <2>2
        <3>2. r[i] = t[k]
            BY <3>1, <1>3
        <3>3. /\ k > 1 /\ t[k].op = "push" => t[k - 1] = Do("lock", t[k].of)
              /\ k > 1 /\ t[k].op = "assign" => t[k - 1] = Do("test", t[k].of)
              /\ t[k].op = "test" => k < Len(t) /\ t[k + 1] = Do("assign", t[k].of)
              /\ t[k].op \in {"push", "publish"} => k < Len(t) /\ t[k + 1] = Do("whole", t[k].of)
              /\ t[k].op = "list" => k = Len(t)
            BY <2>2 DEF Block, Linked
        <3>4. k = 1 => t[k].op \notin {"push", "assign"}
            BY DEF Block
        <3> HIDE DEF k
        <3>5. k > 1 => k - 1 \in 1..Len(t) /\ i - 1 = Len(s) + (k - 1)
            BY <1>1, <3>1
        <3>6. k < Len(t) => k + 1 \in 1..Len(t) /\ i + 1 = Len(s) + (k + 1) /\ i < Len(r)
            BY <1>1, <3>1
        <3>7. /\ k > 1 => r[i - 1] = t[k - 1]
              /\ k < Len(t) => r[i + 1] = t[k + 1]
            BY <3>5, <3>6, <1>3
        <3>8. (k = Len(t) => i = Len(r)) /\ (k > 1 \/ k = 1)
            BY <1>1, <3>1
        <3> QED BY <3>2, <3>3, <3>4, <3>6, <3>7, <3>8, Zenon
    <2> QED BY <1>4, <2>1, <2>2
<1>6. ToSet(r) = ToSet(s) \cup ToSet(t)
    <2>1. \A i \in DOMAIN t : Len(s) + i \in DOMAIN r
        BY <1>1, <1>2
    <2>2. DOMAIN s \subseteq DOMAIN r
        BY <1>1, <1>2
    <2>3. /\ \A i \in DOMAIN s : r[i] = s[i]
          /\ \A i \in DOMAIN t : r[Len(s) + i] = t[i]
        BY <1>2, <1>3
    <2>4. ASSUME NEW d \in ToSet(r) PROVE d \in ToSet(s) \cup ToSet(t)
        <3>1. PICK i \in DOMAIN r : r[i] = d
            BY <2>4, Elem
        <3> QED BY <3>1, <1>4, <2>3, Elem
    <2>5. ASSUME NEW d \in ToSet(s) \cup ToSet(t) PROVE d \in ToSet(r)
        <3>1. CASE d \in ToSet(s)
            BY <3>1, Elem, <2>2, <2>3
        <3>2. CASE d \in ToSet(t)
            BY <3>2, Elem, <2>1, <2>3
        <3> QED BY <2>5, <3>1, <3>2
    <2> QED BY <2>4, <2>5
<1>7. r # <<>> /\ r[1].op \notin {"push", "assign"}
    BY <1>1, <1>2, <1>3 DEF Block
<1>8. NoList(t) => NoList(r)
    <2> SUFFICES ASSUME NoList(t), NEW i \in DOMAIN r PROVE r[i].op # "list"
        BY DEF NoList
    <2>1. CASE i \in DOMAIN s
        BY <2>1, <1>2, <1>3 DEF NoList
    <2>2. CASE i - Len(s) \in DOMAIN t
        BY <2>2, <1>2, <1>3, <1>4 DEF NoList
    <2> QED BY <1>4, <2>1, <2>2
<1>9. Block(r)
    BY <1>1, <1>5, <1>7 DEF Block
<1> QED BY <1>6, <1>8, <1>9 DEF r

\* The blocks that app_main and the console are put together from.
LEMMA One ==
    ASSUME NEW op \in Operations \ {"push", "assign", "test", "publish"}, NEW of \in Subjects
    PROVE  /\ Block(<<Do(op, of)>>)
           /\ ToSet(<<Do(op, of)>>) = {Do(op, of)}
           /\ op # "list" => NoList(<<Do(op, of)>>)
<1> DEFINE s == <<Do(op, of)>>
<1>1. Do(op, of) \in Ops /\ Do(op, of).op = op
    BY DEF Do, Ops
<1>2. s \in Seq(Ops) /\ Len(s) = 1 /\ s # <<>> /\ s[1] = Do(op, of)
    BY <1>1
<1>3. DOMAIN s = {1}
    BY <1>2
<1> HIDE DEF s
<1>4. Linked(s)
    BY <1>1, <1>2, <1>3 DEF Linked
<1>5. Block(s)
    BY <1>1, <1>2, <1>4 DEF Block
<1>6. ToSet(s) = {Do(op, of)}
    BY <1>2, <1>3 DEF ToSet
<1>7. op # "list" => NoList(s)
    BY <1>1, <1>2, <1>3 DEF NoList
<1> QED BY <1>5, <1>6, <1>7 DEF s

LEMMA ACommand ==
    ASSUME NEW c \in Commands
    PROVE  /\ Block(Command(c)) /\ NoList(Command(c))
           /\ ToSet(Command(c)) = {Do("lock", c), Do("push", c), Do("whole", c)}
<1> DEFINE s == Command(c)
<1>1. /\ s \in Seq(Ops) /\ Len(s) = 3 /\ s # <<>>
      /\ s[1] = Do("lock", c) /\ s[2] = Do("push", c) /\ s[3] = Do("whole", c)
    BY DEF Command, Do, Ops, Operations, Subjects
<1>2. DOMAIN s = {1, 2, 3}
    BY <1>1
<1> HIDE DEF s
<1>3. /\ s[1].op = "lock" /\ s[2].op = "push" /\ s[3].op = "whole" /\ s[2].of = c
    BY <1>1 DEF Do
<1>4. Linked(s)
    BY <1>1, <1>2, <1>3 DEF Linked
<1>5. Block(s) /\ NoList(s)
    BY <1>1, <1>2, <1>3, <1>4 DEF Block, NoList
<1>6. ToSet(s) = {Do("lock", c), Do("push", c), Do("whole", c)}
    BY <1>1, <1>2 DEF ToSet
<1> QED BY <1>5, <1>6 DEF s

LEMMA AHandler ==
    ASSUME NEW u \in Handlers
    PROVE  /\ Block(Handler(u)) /\ NoList(Handler(u))
           /\ ToSet(Handler(u)) = {Do("publish", u), Do("whole", u)}
<1> DEFINE s == Handler(u)
<1>1. /\ s \in Seq(Ops) /\ Len(s) = 2 /\ s # <<>>
      /\ s[1] = Do("publish", u) /\ s[2] = Do("whole", u)
    BY DEF Handler, Do, Ops, Operations, Subjects
<1>2. DOMAIN s = {1, 2}
    BY <1>1
<1> HIDE DEF s
<1>3. s[1].op = "publish" /\ s[2].op = "whole" /\ s[1].of = u
    BY <1>1 DEF Do
<1>4. Linked(s)
    BY <1>1, <1>2, <1>3 DEF Linked
<1>5. Block(s) /\ NoList(s)
    BY <1>1, <1>2, <1>3, <1>4 DEF Block, NoList
<1>6. ToSet(s) = {Do("publish", u), Do("whole", u)}
    BY <1>1, <1>2 DEF ToSet
<1> QED BY <1>5, <1>6 DEF s

LEMMA AProxy ==
    ASSUME NEW p \in Proxies
    PROVE  /\ Block(Proxy(p)) /\ NoList(Proxy(p))
           /\ ToSet(Proxy(p)) = {Do("create", p), Do("test", p), Do("assign", p)}
<1> DEFINE s == Proxy(p)
<1>1. /\ s \in Seq(Ops) /\ Len(s) = 3 /\ s # <<>>
      /\ s[1] = Do("create", p) /\ s[2] = Do("test", p) /\ s[3] = Do("assign", p)
    BY DEF Proxy, Do, Ops, Operations, Subjects
<1>2. DOMAIN s = {1, 2, 3}
    BY <1>1
<1> HIDE DEF s
<1>3. /\ s[1].op = "create" /\ s[2].op = "test" /\ s[3].op = "assign"
      /\ s[2].of = p /\ s[3].of = p
    BY <1>1 DEF Do
<1>4. Linked(s)
    BY <1>1, <1>2, <1>3 DEF Linked
<1>5. Block(s) /\ NoList(s)
    BY <1>1, <1>2, <1>3, <1>4 DEF Block, NoList
<1>6. ToSet(s) = {Do("create", p), Do("test", p), Do("assign", p)}
    BY <1>1, <1>2 DEF ToSet
<1> QED BY <1>5, <1>6 DEF s

LEMMA ASubscriber ==
    ASSUME NEW c \in Clients
    PROVE  /\ Block(Subscriber(c)) /\ NoList(Subscriber(c))
           /\ ToSet(Subscriber(c)) = ToSet(Proxy("DebugMsgRx")) \cup {Do("subscribe", c)}
<1> DEFINE a == Proxy("DebugMsgRx")
           b == <<Do("subscribe", c)>>
<1>1. /\ Block(a) /\ NoList(a)
      /\ Block(b) /\ NoList(b) /\ ToSet(b) = {Do("subscribe", c)}
    BY AProxy, One DEF Proxies, Operations, Subjects
<1>2. Subscriber(c) = a \o b
    BY DEF Subscriber
<1> HIDE DEF a, b
<1>3. Block(a \o b) /\ NoList(a \o b) /\ ToSet(a \o b) = ToSet(a) \cup ToSet(b)
    BY <1>1, Concat
<1> QED BY <1>1, <1>2, <1>3 DEF a

LEMMA ReceivingBlock ==
    Block(Receiving) /\ \A d \in ToSet(Receiving) : d.op \in Tools
<1> DEFINE a == Proxy("DebugMsgRx")
           b == <<Do("write", "rx")>>
<1>1. /\ Block(a) /\ NoList(a) /\ \A d \in ToSet(a) : d.op \in Tools
      /\ Block(b) /\ \A d \in ToSet(b) : d.op \in Tools
    BY AProxy, One DEF Proxies, Operations, Subjects, Tools, Do
<1>2. Receiving = a \o b
    BY DEF Receiving
<1> HIDE DEF a, b
<1>3. Block(a \o b) /\ ToSet(a \o b) = ToSet(a) \cup ToSet(b)
    BY <1>1, Concat
<1> QED BY <1>1, <1>2, <1>3

LEMMA FrameBlock ==
    Block(Frame) /\ \A d \in ToSet(Frame) : d.op \in Tools
<1> DEFINE a == Subscriber("WebLogSender")
           b == <<Do("built", "WebLogSender")>>
<1>1. /\ Block(a) /\ NoList(a)
      /\ ToSet(a) = {Do("create", "DebugMsgRx"), Do("test", "DebugMsgRx"),
                     Do("assign", "DebugMsgRx"), Do("subscribe", "WebLogSender")}
    BY ASubscriber, AProxy DEF Clients, Proxies
<1>2. Block(b) /\ \A d \in ToSet(b) : d.op \in Tools
    BY One DEF Operations, Subjects, Clients, Tools, Do
<1>3. \A d \in ToSet(a) : d.op \in Tools
    BY <1>1 DEF Tools, Do
<1>4. Frame = a \o b
    BY DEF Frame
<1> HIDE DEF a, b
<1>5. Block(a \o b) /\ ToSet(a \o b) = ToSet(a) \cup ToSet(b)
    BY <1>1, <1>2, Concat
<1> QED BY <1>2, <1>3, <1>4, <1>5


-----------------------------------------------------------------------------
(* The programs themselves *)

\* What a program made of blocks does is what its blocks do.
LEMMA ByPassBlock ==
    /\ Block(ByPass) /\ NoList(ByPass)
    /\ ToSet(ByPass) = ToSet(Subscriber("UartByPass")) \cup ToSet(Command("uart"))
                       \cup {Do("built", "UartByPass")} \cup ToSet(Command("omap"))
<1> DEFINE a == Subscriber("UartByPass")
           b == Command("uart")
           c == <<Do("built", "UartByPass")>>
           d == Command("omap")
<1>1. Block(a) /\ NoList(a) /\ Block(b) /\ NoList(b) /\ Block(d) /\ NoList(d)
    BY ASubscriber, ACommand DEF Clients, Commands
<1>2. Block(c) /\ NoList(c) /\ ToSet(c) = {Do("built", "UartByPass")}
    BY One DEF Operations, Subjects, Clients
<1>3. ByPass = a \o b \o c \o d
    BY DEF ByPass
<1> HIDE DEF a, b, c, d
<1>4. /\ Block(a \o b) /\ NoList(a \o b) /\ ToSet(a \o b) = ToSet(a) \cup ToSet(b)
    BY <1>1, Concat
<1>5. /\ Block((a \o b) \o c) /\ NoList((a \o b) \o c)
      /\ ToSet((a \o b) \o c) = ToSet(a \o b) \cup ToSet(c)
    BY <1>2, <1>4, Concat
<1>6. /\ Block(((a \o b) \o c) \o d) /\ NoList(((a \o b) \o c) \o d)
      /\ ToSet(((a \o b) \o c) \o d) = ToSet((a \o b) \o c) \cup ToSet(d)
    BY <1>1, <1>5, Concat
<1> QED BY <1>2, <1>3, <1>4, <1>5, <1>6 DEF a, b, d

LEMMA ConsoleBlock ==
    /\ Block(ConsoleStart)
    /\ ToSet(ConsoleStart) = ToSet(Command("help")) \cup ToSet(ByPass)
                             \cup ToSet(Command("pyocd")) \cup {Do("list", "help")}
<1> DEFINE a == Command("help")
           b == ByPass
           c == Command("pyocd")
           d == <<Do("list", "help")>>
<1>1. Block(a) /\ NoList(a) /\ Block(c) /\ NoList(c)
    BY ACommand DEF Commands
<1>2. Block(b) /\ NoList(b)
    BY ByPassBlock
<1>3. Block(d) /\ ToSet(d) = {Do("list", "help")}
    BY One DEF Operations, Subjects, Commands
<1>4. ConsoleStart = a \o b \o c \o d
    BY DEF ConsoleStart
<1> HIDE DEF a, b, c, d
<1>5. Block(a \o b) /\ NoList(a \o b) /\ ToSet(a \o b) = ToSet(a) \cup ToSet(b)
    BY <1>1, <1>2, Concat
<1>6. /\ Block((a \o b) \o c) /\ NoList((a \o b) \o c)
      /\ ToSet((a \o b) \o c) = ToSet(a \o b) \cup ToSet(c)
    BY <1>1, <1>5, Concat
<1>7. /\ Block(((a \o b) \o c) \o d)
      /\ ToSet(((a \o b) \o c) \o d) = ToSet((a \o b) \o c) \cup ToSet(d)
    BY <1>3, <1>6, Concat
<1> QED BY <1>3, <1>4, <1>5, <1>6, <1>7 DEF a, b, c, d

LEMMA NetworkBlock ==
    /\ Block(Network) /\ NoList(Network)
    /\ ToSet(Network) =
          {Do("enter", "NetworkManager"), Do("leave", "NetworkManager"),
           Do("init", "NetworkManager")}
          \cup ToSet(Command("join")) \cup ToSet(Command("info"))
<1> DEFINE a == <<Do("enter", "NetworkManager")>>
           b == Command("join")
           c == Command("info")
           d == <<Do("leave", "NetworkManager")>>
           e == <<Do("init", "NetworkManager")>>
           de == <<Do("leave", "NetworkManager"), Do("init", "NetworkManager")>>
<1>1. Block(b) /\ NoList(b) /\ Block(c) /\ NoList(c)
    BY ACommand DEF Commands
<1>2. /\ Block(a) /\ NoList(a) /\ ToSet(a) = {Do("enter", "NetworkManager")}
      /\ Block(d) /\ NoList(d) /\ ToSet(d) = {Do("leave", "NetworkManager")}
      /\ Block(e) /\ NoList(e) /\ ToSet(e) = {Do("init", "NetworkManager")}
    BY One DEF Operations, Subjects, Services
<1>3. de = d \o e
    OBVIOUS
<1>4. Network = a \o b \o c \o de
    BY DEF Network
<1> HIDE DEF a, b, c, d, e, de
<1>5. Block(d \o e) /\ NoList(d \o e) /\ ToSet(d \o e) = ToSet(d) \cup ToSet(e)
    BY <1>2, Concat
<1>6. Block(a \o b) /\ NoList(a \o b) /\ ToSet(a \o b) = ToSet(a) \cup ToSet(b)
    BY <1>1, <1>2, Concat
<1>7. /\ Block((a \o b) \o c) /\ NoList((a \o b) \o c)
      /\ ToSet((a \o b) \o c) = ToSet(a \o b) \cup ToSet(c)
    BY <1>1, <1>6, Concat
<1>8. /\ Block(((a \o b) \o c) \o de) /\ NoList(((a \o b) \o c) \o de)
      /\ ToSet(((a \o b) \o c) \o de) = ToSet((a \o b) \o c) \cup ToSet(de)
    BY <1>3, <1>5, <1>7, Concat
<1>9. ToSet(Network) = {Do("enter", "NetworkManager")} \cup ToSet(b) \cup ToSet(c)
          \cup {Do("leave", "NetworkManager")} \cup {Do("init", "NetworkManager")}
    BY <1>2, <1>3, <1>4, <1>5, <1>6, <1>7, <1>8
<1> QED BY <1>4, <1>8, <1>9 DEF b, c

LEMMA UartBlock ==
    /\ Block(Uart) /\ NoList(Uart)
    /\ ToSet(Uart) = {Do("enter", "UartService"), Do("thread", "rx"), Do("leave", "UartService")}
                     \cup ToSet(Command("setting")) \cup ToSet(Proxy("DebugMsgTx"))
<1> DEFINE a == <<Do("enter", "UartService")>>
           b == Command("setting")
           c == <<Do("thread", "rx")>>
           d == Proxy("DebugMsgTx")
           e == <<Do("leave", "UartService")>>
<1>1. Block(b) /\ NoList(b) /\ Block(d) /\ NoList(d)
    BY ACommand, AProxy DEF Commands, Proxies
<1>2. /\ Block(a) /\ NoList(a) /\ ToSet(a) = {Do("enter", "UartService")}
      /\ Block(c) /\ NoList(c) /\ ToSet(c) = {Do("thread", "rx")}
      /\ Block(e) /\ NoList(e) /\ ToSet(e) = {Do("leave", "UartService")}
    BY One DEF Operations, Subjects, Services
<1>4. Uart = a \o b \o c \o d \o e
    BY DEF Uart
<1> HIDE DEF a, b, c, d, e
<1>5. Block(a \o b) /\ NoList(a \o b) /\ ToSet(a \o b) = ToSet(a) \cup ToSet(b)
    BY <1>1, <1>2, Concat
<1>6. /\ Block((a \o b) \o c) /\ NoList((a \o b) \o c)
      /\ ToSet((a \o b) \o c) = ToSet(a \o b) \cup ToSet(c)
    BY <1>2, <1>5, Concat
<1>7. /\ Block(((a \o b) \o c) \o d) /\ NoList(((a \o b) \o c) \o d)
      /\ ToSet(((a \o b) \o c) \o d) = ToSet((a \o b) \o c) \cup ToSet(d)
    BY <1>1, <1>6, Concat
<1>8. /\ Block((((a \o b) \o c) \o d) \o e) /\ NoList((((a \o b) \o c) \o d) \o e)
      /\ ToSet((((a \o b) \o c) \o d) \o e) = ToSet(((a \o b) \o c) \o d) \cup ToSet(e)
    BY <1>2, <1>7, Concat
<1>9. ToSet(Uart) = {Do("enter", "UartService")} \cup ToSet(b) \cup {Do("thread", "rx")}
                    \cup ToSet(d) \cup {Do("leave", "UartService")}
    BY <1>2, <1>4, <1>5, <1>6, <1>7, <1>8
<1> QED BY <1>4, <1>8, <1>9 DEF b, d

LEMMA WebBlock ==
    /\ Block(Web) /\ NoList(Web)
    /\ ToSet(Web) = ToSet(Handler("/binupload")) \cup ToSet(Handler("/")) \cup ToSet(Handler("/ws"))
                    \cup ToSet(Handler("5555")) \cup ToSet(Handler("/log"))
<1> DEFINE a == Handler("/binupload")
           b == Handler("/")
           c == Handler("/ws")
           d == Handler("5555")
           e == Handler("/log")
<1>1. /\ Block(a) /\ NoList(a) /\ Block(b) /\ NoList(b) /\ Block(c) /\ NoList(c)
      /\ Block(d) /\ NoList(d) /\ Block(e) /\ NoList(e)
    BY AHandler DEF Handlers
<1>4. Web = a \o b \o c \o d \o e
    BY DEF Web, Probe
<1> HIDE DEF a, b, c, d, e
<1>5. Block(a \o b) /\ NoList(a \o b) /\ ToSet(a \o b) = ToSet(a) \cup ToSet(b)
    BY <1>1, Concat
<1>6. /\ Block((a \o b) \o c) /\ NoList((a \o b) \o c)
      /\ ToSet((a \o b) \o c) = ToSet(a \o b) \cup ToSet(c)
    BY <1>1, <1>5, Concat
<1>7. /\ Block(((a \o b) \o c) \o d) /\ NoList(((a \o b) \o c) \o d)
      /\ ToSet(((a \o b) \o c) \o d) = ToSet((a \o b) \o c) \cup ToSet(d)
    BY <1>1, <1>6, Concat
<1>8. /\ Block((((a \o b) \o c) \o d) \o e) /\ NoList((((a \o b) \o c) \o d) \o e)
      /\ ToSet((((a \o b) \o c) \o d) \o e) = ToSet(((a \o b) \o c) \o d) \cup ToSet(e)
    BY <1>1, <1>7, Concat
<1>9. ToSet(Web) = ToSet(a) \cup ToSet(b) \cup ToSet(c) \cup ToSet(d) \cup ToSet(e)
    BY <1>4, <1>5, <1>6, <1>7, <1>8
<1> QED BY <1>4, <1>8, <1>9 DEF a, b, c, d, e

\* app_main registers what the console does not, initialises the network and
\* sees to both proxies.
LEMMA MainBlock ==
    /\ Block(AppMain)
    /\ \A c \in Commands \ ConsoleCommands : Do("push", c) \in ToSet(AppMain)
    /\ Do("init", "NetworkManager") \in ToSet(AppMain)
    /\ \A p \in Proxies : Do("test", p) \in ToSet(AppMain)
    /\ \A d \in ToSet(AppMain) : d.op \notin {"list", "use", "join", "apply"}
<1> DEFINE a == Network
           b == Uart
           c == Web
           d == Subscriber("LogFile")
           e == <<Do("built", "LogFile")>>
<1>1. /\ Block(a) /\ NoList(a) /\ Block(b) /\ NoList(b) /\ Block(c) /\ NoList(c)
      /\ Block(d) /\ NoList(d) /\ Block(e) /\ ToSet(e) = {Do("built", "LogFile")}
    BY NetworkBlock, UartBlock, WebBlock, ASubscriber, One DEF Clients, Operations, Subjects
<1>2. AppMain = a \o b \o c \o d \o e
    BY DEF AppMain
<1> HIDE DEF a, b, c, d, e
<1>3. Block(a \o b) /\ NoList(a \o b) /\ ToSet(a \o b) = ToSet(a) \cup ToSet(b)
    BY <1>1, Concat
<1>4. /\ Block((a \o b) \o c) /\ NoList((a \o b) \o c)
      /\ ToSet((a \o b) \o c) = ToSet(a \o b) \cup ToSet(c)
    BY <1>1, <1>3, Concat
<1>5. /\ Block(((a \o b) \o c) \o d) /\ NoList(((a \o b) \o c) \o d)
      /\ ToSet(((a \o b) \o c) \o d) = ToSet((a \o b) \o c) \cup ToSet(d)
    BY <1>1, <1>4, Concat
<1>6. /\ Block((((a \o b) \o c) \o d) \o e)
       /\ ToSet((((a \o b) \o c) \o d) \o e) = ToSet(((a \o b) \o c) \o d) \cup ToSet(e)
    BY <1>1, <1>5, Concat
<1>7. /\ Block(AppMain)
      /\ ToSet(AppMain) = ToSet(Network) \cup ToSet(Uart) \cup ToSet(Web)
                          \cup ToSet(Subscriber("LogFile")) \cup {Do("built", "LogFile")}
    BY <1>1, <1>2, <1>3, <1>4, <1>5, <1>6 DEF a, b, c, d
<1>8. /\ Do("init", "NetworkManager") \in ToSet(Network)
      /\ Do("push", "join") \in ToSet(Network)
      /\ Do("push", "info") \in ToSet(Network)
    BY NetworkBlock, ACommand DEF Commands
<1>9. /\ Do("push", "setting") \in ToSet(Uart)
      /\ Do("test", "DebugMsgTx") \in ToSet(Uart)
    BY UartBlock, ACommand, AProxy DEF Commands, Proxies
<1>10. Do("test", "DebugMsgRx") \in ToSet(Subscriber("LogFile"))
    BY ASubscriber, AProxy DEF Clients, Proxies
<1>11. \A x \in ToSet(AppMain) : x.op \notin {"list", "use", "join", "apply"}
    <2>1. \A x \in ToSet(Network) : x.op \notin {"list", "use", "join", "apply"}
        BY NetworkBlock, ACommand DEF Commands, Do
    <2>2. \A x \in ToSet(Uart) : x.op \notin {"list", "use", "join", "apply"}
        BY UartBlock, ACommand, AProxy DEF Commands, Proxies, Do
    <2>3. \A x \in ToSet(Web) : x.op \notin {"list", "use", "join", "apply"}
        BY WebBlock, AHandler DEF Handlers, Do
    <2>4. \A x \in ToSet(Subscriber("LogFile")) : x.op \notin {"list", "use", "join", "apply"}
        BY ASubscriber, AProxy DEF Clients, Proxies, Do
    <2> QED BY <1>7, <2>1, <2>2, <2>3, <2>4 DEF Do
<1>12. \A x \in Commands \ ConsoleCommands : x \in {"join", "info", "setting"}
    BY DEF Commands, ConsoleCommands
<1>13. \A x \in Commands \ ConsoleCommands : Do("push", x) \in ToSet(AppMain)
    BY <1>7, <1>8, <1>9, <1>12
<1>14. \A p \in Proxies : Do("test", p) \in ToSet(AppMain)
    BY <1>7, <1>9, <1>10 DEF Proxies
<1> QED BY <1>7, <1>8, <1>11, <1>13, <1>14

-----------------------------------------------------------------------------
(* Going through a program *)

\* What is known of the rest of a program, and of what is next in it.
LEMMA Advance ==
    ASSUME NEW s \in Seq(Ops), s # <<>>, Linked(s)
    PROVE  /\ Tail(s) \in Seq(Ops) /\ Linked(Tail(s))
           /\ Head(s) \in Ops
           /\ ToSet(s) = {Head(s)} \cup ToSet(Tail(s))
           /\ Tail(s) # <<>> =>
                 /\ Head(Tail(s)).op = "push" => Head(s).op = "lock"
                 /\ Head(Tail(s)).op = "assign" => Head(s).op = "test"
           /\ Head(s).op = "test" => Tail(s) # <<>> /\ Head(Tail(s)) = Do("assign", Head(s).of)
           /\ Head(s).op \in {"push", "publish"} => Do("whole", Head(s).of) \in ToSet(Tail(s))
           /\ Head(s).op = "list" => Tail(s) = <<>>
<1> DEFINE r == Tail(s)
<1>1. /\ Len(s) \in Nat \ {0} /\ r \in Seq(Ops) /\ Len(r) = Len(s) - 1
      /\ Head(s) = s[1] /\ s[1] \in Ops
    OBVIOUS
<1>2. DOMAIN s = 1..Len(s) /\ DOMAIN r = 1..(Len(s) - 1)
    BY <1>1
<1>3. \A i \in 1..(Len(s) - 1) : r[i] = s[i + 1]
    BY <1>1
<1>4. (r = <<>>) <=> (Len(s) = 1)
    BY <1>1
<1>5. r # <<>> => Head(r) = r[1] /\ 1 \in DOMAIN r
    BY <1>1, <1>2
<1> HIDE DEF r
<1>6. Linked(r)
    <2> SUFFICES ASSUME NEW i \in DOMAIN r
                 PROVE  /\ i > 1 /\ r[i].op = "push" => r[i - 1] = Do("lock", r[i].of)
                        /\ i > 1 /\ r[i].op = "assign" => r[i - 1] = Do("test", r[i].of)
                        /\ r[i].op = "test" => i < Len(r) /\ r[i + 1] = Do("assign", r[i].of)
                        /\ r[i].op \in {"push", "publish"} =>
                              i < Len(r) /\ r[i + 1] = Do("whole", r[i].of)
                        /\ r[i].op = "list" => i = Len(r)
        BY DEF Linked
    <2> DEFINE k == i + 1
    <2>1. /\ k \in DOMAIN s /\ i \in Nat /\ i >= 1 /\ i <= Len(s) - 1 /\ k > 1
          /\ (i > 1 => k - 1 = (i - 1) + 1 /\ i - 1 \in 1..(Len(s) - 1))
          /\ (k < Len(s) => i < Len(r) /\ i + 1 \in 1..(Len(s) - 1))
          /\ (k = Len(s) => i = Len(r))
        BY <1>1, <1>2
    <2>2. /\ k > 1 /\ s[k].op = "push" => s[k - 1] = Do("lock", s[k].of)
          /\ k > 1 /\ s[k].op = "assign" => s[k - 1] = Do("test", s[k].of)
          /\ s[k].op = "test" => k < Len(s) /\ s[k + 1] = Do("assign", s[k].of)
          /\ s[k].op \in {"push", "publish"} => k < Len(s) /\ s[k + 1] = Do("whole", s[k].of)
          /\ s[k].op = "list" => k = Len(s)
        BY <2>1 DEF Linked
    <2>3. r[i] = s[k]
        BY <1>2, <1>3
    <2>4. i > 1 => r[i - 1] = s[k - 1]
        BY <1>3, <2>1
    <2>5. k < Len(s) => r[i + 1] = s[k + 1]
        BY <1>3, <2>1
    <2> HIDE DEF k
    <2> QED BY <2>1, <2>2, <2>3, <2>4, <2>5, Zenon
<1>7. /\ s[1].op = "test" => 1 < Len(s) /\ s[2] = Do("assign", s[1].of)
      /\ s[1].op \in {"push", "publish"} => 1 < Len(s) /\ s[2] = Do("whole", s[1].of)
      /\ s[1].op = "list" => Len(s) = 1
    <2>1. 1 \in DOMAIN s /\ 1 + 1 = 2
        BY <1>1, <1>2
    <2> QED BY <2>1 DEF Linked
<1>8. 1 < Len(s) => /\ s[2].op = "push" => s[1] = Do("lock", s[2].of)
                    /\ s[2].op = "assign" => s[1] = Do("test", s[2].of)
    <2>1. 1 < Len(s) => 2 \in DOMAIN s /\ 2 > 1 /\ 2 - 1 = 1
        BY <1>1, <1>2
    <2> QED BY <2>1 DEF Linked
<1>9. r # <<>> => 1 < Len(s) /\ Head(r) = s[2]
    BY <1>1, <1>2, <1>3, <1>4, <1>5
<1>10. 1 < Len(s) => r # <<>> /\ s[2] \in ToSet(r)
    BY <1>1, <1>2, <1>3, <1>4, <1>5, Elem
<1>11. ToSet(s) = {Head(s)} \cup ToSet(r)
    <2>1. ASSUME NEW d \in ToSet(s) PROVE d = Head(s) \/ d \in ToSet(r)
        <3>1. PICK i \in DOMAIN s : s[i] = d
            BY Elem
        <3>2. CASE i = 1
            BY <3>1, <3>2, <1>1
        <3>3. CASE i # 1
            <4>1. i - 1 \in DOMAIN r /\ (i - 1) + 1 = i
                BY <1>1, <1>2, <3>3
            <4>2. r[i - 1] = s[i]
                BY <4>1, <1>2, <1>3
            <4> QED BY <3>1, <4>1, <4>2, Elem
        <3> QED BY <3>2, <3>3
    <2>2. Head(s) \in ToSet(s)
        <3>1. 1 \in DOMAIN s
            BY <1>1, <1>2
        <3> QED BY <3>1, <1>1, Elem
    <2>3. ASSUME NEW d \in ToSet(r) PROVE d \in ToSet(s)
        <3>1. PICK i \in DOMAIN r : r[i] = d
            BY Elem
        <3>2. i + 1 \in DOMAIN s /\ r[i] = s[i + 1]
            BY <1>1, <1>2, <1>3
        <3> QED BY <3>1, <3>2, Elem
    <2> QED BY <2>1, <2>2, <2>3
<1> QED BY <1>1, <1>4, <1>6, <1>7, <1>8, <1>9, <1>10, <1>11 DEF r, Do

\* The programs of the others stay what they are.
Others(t) == \A u \in Threads \ {t} : todo'[u] = todo[u] /\ ToSet(todo'[u]) = Left(u)

\* A thread does what is next.
LEMMA Proceed ==
    ASSUME Programs, NEW t \in Threads, todo[t] # <<>>, Did(t)
    PROVE  /\ Programs'
           /\ Others(t)
           /\ Head(todo[t]) \in Ops
           /\ Left(t) = {Head(todo[t])} \cup Left(t)'
           /\ todo'[t] # <<>> =>
                 /\ Head(todo'[t]).op = "push" => Head(todo[t]).op = "lock"
                 /\ Head(todo'[t]).op = "assign" => Head(todo[t]).op = "test"
           /\ Head(todo[t]).op = "test" =>
                 todo'[t] # <<>> /\ Head(todo'[t]) = Do("assign", Head(todo[t]).of)
           /\ Head(todo[t]).op \in {"push", "publish"} => Do("whole", Head(todo[t]).of) \in Left(t)'
           /\ Head(todo[t]).op = "list" => todo'[t] = <<>>
<1>1. todo \in [Threads -> Seq(Ops)] /\ \A u \in Threads : Linked(todo[u])
    BY DEF Programs
<1>2. todo' = [todo EXCEPT ![t] = Tail(todo[t])]
    BY DEF Did
<1>3. todo'[t] = Tail(todo[t]) /\ \A u \in Threads \ {t} : todo'[u] = todo[u]
    BY <1>1, <1>2
<1>4. Others(t)
    BY <1>3 DEF Others, Left
<1>5. todo[t] \in Seq(Ops) /\ Linked(todo[t])
    BY <1>1
<1>6. /\ todo'[t] \in Seq(Ops) /\ Linked(todo'[t])
      /\ ToSet(todo[t]) = {Head(todo[t])} \cup ToSet(todo'[t])
    BY <1>3, <1>5, Advance
<1>7. todo' \in [Threads -> Seq(Ops)]
    BY <1>1, <1>2, <1>3, <1>6
<1>8. \A u \in Threads : Linked(todo'[u])
    BY <1>1, <1>3, <1>6
<1>9. \A u \in Threads : ToSet(todo'[u]) \subseteq ToSet(todo[u])
    BY <1>3, <1>6
<1>10. \A d \in ToSet(todo'["rx"]) \cup ToSet(todo'["httpd"]) : d.op \in Tools
    BY <1>9 DEF Programs, Left, Threads, Tools
<1>11. Programs'
    BY <1>7, <1>8, <1>10 DEF Programs, Left, Tools
<1> QED BY <1>3, <1>4, <1>5, <1>6, <1>11, Advance DEF Left

\* A thread that has nothing to do begins a program.
LEMMA Begin ==
    ASSUME Programs, NEW t \in Threads, todo[t] = <<>>, NEW s,
           todo' = [todo EXCEPT ![t] = s],
           Block(s) \/ s = <<>>,
           t \in {"rx", "httpd"} => \A d \in ToSet(s) : d.op \in Tools
    PROVE  /\ Programs'
           /\ Others(t)
           /\ Left(t) = {}
           /\ todo'[t] = s
           /\ todo'[t] # <<>> => Head(todo'[t]).op \notin {"push", "assign"}
<1>1. todo \in [Threads -> Seq(Ops)] /\ \A u \in Threads : Linked(todo[u])
    BY DEF Programs
<1>2. todo'[t] = s /\ \A u \in Threads \ {t} : todo'[u] = todo[u]
    BY <1>1
<1>3. Others(t)
    BY <1>2 DEF Others, Left
<1>4. s \in Seq(Ops) /\ Linked(s)
    <2>1. CASE Block(s)
        BY <2>1 DEF Block
    <2>2. CASE s = <<>>
        <3>1. <<>> \in Seq(Ops) /\ DOMAIN <<>> = {}
            OBVIOUS
        <3> QED BY <2>2, <3>1 DEF Linked
    <2> QED BY <2>1, <2>2
<1>5. todo' \in [Threads -> Seq(Ops)]
    BY <1>1, <1>2, <1>4
<1>6. \A u \in Threads : Linked(todo'[u])
    BY <1>1, <1>2, <1>4
<1>7. \A d \in ToSet(todo'["rx"]) \cup ToSet(todo'["httpd"]) : d.op \in Tools
    BY <1>2 DEF Programs, Left, Threads, Tools
<1>8. Programs'
    BY <1>5, <1>6, <1>7 DEF Programs, Left, Tools
<1>9. Left(t) = {}
    BY DEF Left, ToSet
<1>10. s # <<>> => Head(s) = s[1] /\ s[1].op \notin {"push", "assign"}
    BY <1>4 DEF Block
<1> QED BY <1>2, <1>3, <1>8, <1>9, <1>10

-----------------------------------------------------------------------------
(* The invariant *)

\* Nothing but the thread's program, and what is whole, running or
\* initialised, changes.
LEMMA QuietStep ==
    ASSUME Inv, NEW t \in Threads, todo[t] # <<>>, Did(t),
           Head(todo[t]).op \notin {"lock", "push", "publish", "test"},
           UNCHANGED <<cmds, seen, mutex, mode, uris>>,
           whole \subseteq whole', running \subseteq running', wifi = TRUE => wifi' = TRUE,
           Head(todo[t]).op = "whole" => Head(todo[t]).of \in whole',
           Head(todo[t]).op = "assign" => Head(todo[t]).of \in running',
           Head(todo[t]) = Do("init", "NetworkManager") => wifi' = TRUE
    PROVE  Inv'
<1>1. Programs /\ ListOwner /\ ConsoleMode /\ Registered /\ GetsWhole /\ GetsDone
    BY DEF Inv
<1>2. /\ Programs' /\ Others(t)
      /\ Left(t) = {Head(todo[t])} \cup Left(t)'
      /\ todo'[t] # <<>> => Head(todo'[t]).op # "push"
    BY <1>1, Proceed
<1>3. \A u \in Threads : todo'[u] # <<>> /\ Head(todo'[u]).op = "push" =>
            todo[u] # <<>> /\ Head(todo[u]).op = "push"
    BY <1>2 DEF Others
<1>4. ListOwner'
    BY <1>1, <1>3 DEF ListOwner
<1>5. /\ \A u \in Threads : Left(u)' \subseteq Left(u)
      /\ \A u \in Threads : \A d \in Left(u) : d = Head(todo[t]) \/ d \in Left(u)'
    BY <1>2 DEF Others, Left
<1>6. Left("main")' \subseteq Left("main") /\ Left("con")' \subseteq Left("con")
    BY <1>5 DEF Threads
<1>7. \A d \in Left("main") \cup Left("con") : d = Head(todo[t]) \/ d \in Left("main")' \cup Left("con")'
    BY <1>5 DEF Threads
<1>8. \A d \in Left("main") : d = Head(todo[t]) \/ d \in Left("main")'
    BY <1>5 DEF Threads
<1>9. mode = "cable" => todo'["con"] = <<>>
    BY <1>1, <1>2 DEF ConsoleMode, Others, Threads
<1>10. ConsoleMode'
    BY <1>1, <1>6, <1>9 DEF ConsoleMode
<1>11. Registered'
    BY <1>1, <1>7 DEF Registered, Do
<1>12. GetsWhole'
    BY <1>1, <1>7, <1>8 DEF GetsWhole, Do
<1>13. GetsDone'
    BY <1>1, <1>8 DEF GetsDone, Do
<1> QED BY <1>2, <1>4, <1>10, <1>11, <1>12, <1>13 DEF Inv

LEMMA LockStep ==
    ASSUME Inv, NEW t \in Threads, NEW c \in Commands, Lock(t, c)
    PROVE  Inv'
<1>1. Programs /\ ListOwner /\ ConsoleMode /\ Registered /\ GetsWhole /\ GetsDone
    BY DEF Inv
<1>2. /\ todo[t] # <<>> /\ Head(todo[t]) = Do("lock", c) /\ Did(t)
      /\ mutex = "free" /\ mutex' = t /\ seen' = [seen EXCEPT ![t] = cmds]
      /\ UNCHANGED <<cmds, uris, whole, wifi, running, mode>>
    BY DEF Lock, Now, statics, user
<1>3. Programs' /\ Others(t) /\ Left(t) = {Head(todo[t])} \cup Left(t)'
    BY <1>1, <1>2, Proceed
<1>4. Head(todo[t]).op = "lock"
    BY <1>2 DEF Do
<1>5. \A u \in Threads : ~(todo[u] # <<>> /\ Head(todo[u]).op = "push")
    BY <1>1, <1>2 DEF ListOwner, Threads
<1>6. /\ seen' \in [Threads -> SUBSET Commands] /\ seen'[t] = cmds
      /\ \A u \in Threads \ {t} : todo'[u] = todo[u]
    BY <1>1, <1>2, <1>3 DEF ListOwner, Registered, Others
<1>7. ListOwner'
    BY <1>2, <1>5, <1>6 DEF ListOwner
<1>8. mode \in {"cable", "prompt"}
    BY <1>1, <1>2 DEF ConsoleMode
<1>9. mode = "cable" => todo'["con"] = <<>>
    BY <1>1, <1>2, <1>3 DEF ConsoleMode, Others, Threads
<1>10. ConsoleMode'
    BY <1>2, <1>8, <1>9 DEF ConsoleMode
<1>11. \A u \in Threads : \A d \in Left(u) : d.op = "lock" \/ d \in Left(u)'
    BY <1>3, <1>4 DEF Others, Left
<1>12. /\ \A d \in Left("main") : d.op = "lock" \/ d \in Left("main")'
       /\ \A d \in Left("con") : d.op = "lock" \/ d \in Left("con")'
    BY <1>11 DEF Threads
<1>13. Registered'
    BY <1>1, <1>2, <1>12 DEF Registered, Do
<1>14. GetsWhole'
    BY <1>1, <1>2, <1>12 DEF GetsWhole, Do
<1>15. GetsDone'
    BY <1>1, <1>2, <1>12 DEF GetsDone, Do
<1> QED BY <1>3, <1>7, <1>10, <1>13, <1>14, <1>15 DEF Inv

LEMMA PushStep ==
    ASSUME Inv, NEW t \in Threads, NEW c \in Commands, Push(t, c)
    PROVE  Inv'
<1>1. Programs /\ ListOwner /\ ConsoleMode /\ Registered /\ GetsWhole /\ GetsDone
    BY DEF Inv
<1>2. /\ todo[t] # <<>> /\ Head(todo[t]) = Do("push", c) /\ Did(t)
      /\ cmds' = seen[t] \cup {c} /\ seen' = [seen EXCEPT ![t] = {}] /\ mutex' = "free"
      /\ UNCHANGED <<uris, whole, wifi, running, mode>>
    BY DEF Push, Now, statics, user
<1>3. Head(todo[t]).op = "push" /\ Head(todo[t]).of = c
    BY <1>2 DEF Do
<1>4. /\ Programs' /\ Others(t) /\ Left(t) = {Head(todo[t])} \cup Left(t)'
      /\ todo'[t] # <<>> => Head(todo'[t]).op # "push"
      /\ Do("whole", c) \in Left(t)'
    BY <1>1, <1>2, <1>3, Proceed
<1>5. mutex = t /\ seen[t] = cmds
    BY <1>1, <1>2, <1>3 DEF ListOwner
<1>6. cmds' = cmds \cup {c}
    BY <1>2, <1>5
<1>7. t \in {"main", "con"}
    <2>1. Head(todo[t]) \in Left(t)
        BY <1>4
    <2> QED BY <1>1, <1>3, <2>1 DEF Programs, Threads, Tools
<1>8. \A u \in Threads : ~(todo'[u] # <<>> /\ Head(todo'[u]).op = "push")
    BY <1>1, <1>4, <1>5 DEF ListOwner, Others
<1>9. seen' \in [Threads -> SUBSET Commands]
    BY <1>1, <1>2 DEF ListOwner
<1>10. ListOwner'
    BY <1>8, <1>9 DEF ListOwner
<1>11. mode \in {"cable", "prompt"}
    <2> SUFFICES ASSUME mode \in {"run", "uart", "pyocd"} PROVE FALSE
        BY <1>1 DEF ConsoleMode
    <2>1. mutex = "con" /\ \A d \in Left("con") : d.op # "push"
        BY <1>1 DEF ConsoleMode
    <2> QED BY <2>1, <1>3, <1>4, <1>5
<1>12. mode = "cable" => todo'["con"] = <<>>
    BY <1>1, <1>2, <1>4 DEF ConsoleMode, Others, Threads
<1>13. ConsoleMode'
    BY <1>2, <1>11, <1>12 DEF ConsoleMode
<1>14. \A u \in Threads : \A d \in Left(u) : d = Do("push", c) \/ d \in Left(u)'
    BY <1>2, <1>4 DEF Others, Left
<1>15. /\ \A d \in Left("main") : d = Do("push", c) \/ d \in Left("main")'
       /\ \A d \in Left("con") : d = Do("push", c) \/ d \in Left("con")'
    BY <1>14 DEF Threads
<1>16. Registered'
    BY <1>1, <1>2, <1>6, <1>15 DEF Registered, Do
<1>17. GetsWhole'
    <2>1. Do("whole", c) \in Left("main")' \cup Left("con")'
        BY <1>4, <1>7
    <2>2. \A x \in cmds' : x \in whole \/ Do("whole", x) \in Left("main")' \cup Left("con")'
        BY <1>1, <1>6, <1>15, <2>1 DEF GetsWhole, Do
    <2>3. \A u \in uris : u \in whole \/ Do("whole", u) \in Left("main")'
        BY <1>1, <1>15 DEF GetsWhole, Do
    <2> QED BY <1>2, <2>2, <2>3 DEF GetsWhole
<1>18. GetsDone'
    BY <1>1, <1>2, <1>15 DEF GetsDone, Do
<1> QED BY <1>4, <1>10, <1>13, <1>16, <1>17, <1>18 DEF Inv

LEMMA PublishStep ==
    ASSUME Inv, NEW u \in Handlers, Publish(u)
    PROVE  Inv'
<1>1. Programs /\ ListOwner /\ ConsoleMode /\ Registered /\ GetsWhole /\ GetsDone
    BY DEF Inv
<1>2. /\ todo["main"] # <<>> /\ Head(todo["main"]) = Do("publish", u) /\ Did("main")
      /\ uris' = uris \cup {u}
      /\ UNCHANGED <<cmds, seen, mutex, whole, wifi, running, mode>>
    BY DEF Publish, Now, console, statics, user
<1>3. Head(todo["main"]).op = "publish" /\ Head(todo["main"]).of = u /\ "main" \in Threads
    BY <1>2 DEF Do, Threads
<1>4. /\ Programs' /\ Others("main") /\ Left("main") = {Head(todo["main"])} \cup Left("main")'
      /\ todo'["main"] # <<>> => Head(todo'["main"]).op # "push"
      /\ Do("whole", u) \in Left("main")'
    BY <1>1, <1>2, <1>3, Proceed
<1>5. todo'["con"] = todo["con"] /\ Left("con")' = Left("con")
    BY <1>4 DEF Others, Threads, Left
<1>6. \A v \in Threads : todo'[v] # <<>> /\ Head(todo'[v]).op = "push" =>
            todo[v] # <<>> /\ Head(todo[v]).op = "push"
    BY <1>4 DEF Others
<1>7. ListOwner'
    BY <1>1, <1>2, <1>6 DEF ListOwner
<1>8. ConsoleMode'
    BY <1>1, <1>2, <1>5 DEF ConsoleMode
<1>9. \A d \in Left("main") : d = Do("publish", u) \/ d \in Left("main")'
    BY <1>2, <1>4
<1>10. Registered'
    BY <1>1, <1>2, <1>5, <1>9 DEF Registered, Do
<1>11. GetsWhole'
    BY <1>1, <1>2, <1>4, <1>5, <1>9 DEF GetsWhole, Do
<1>12. GetsDone'
    BY <1>1, <1>2, <1>9 DEF GetsDone, Do
<1> QED BY <1>4, <1>7, <1>8, <1>10, <1>11, <1>12 DEF Inv

\* A thread that finds the proxy running goes past the assignment.
LEMMA SkipsAssignment ==
    ASSUME Programs, NEW t \in Threads, NEW p \in Proxies, Test(t, p), p \in running
    PROVE  /\ Programs'
           /\ Others(t)
           /\ Left(t) = {Do("test", p), Do("assign", p)} \cup Left(t)'
           /\ todo'[t] # <<>> => Head(todo'[t]).op \notin {"push", "assign"}
<1>1. todo \in [Threads -> Seq(Ops)] /\ \A u \in Threads : Linked(todo[u])
    BY DEF Programs
<1>2. todo[t] # <<>> /\ Head(todo[t]) = Do("test", p) /\ todo' = [todo EXCEPT ![t] = Tail(Tail(todo[t]))]
    BY DEF Test, Now
<1>3. todo'[t] = Tail(Tail(todo[t])) /\ \A u \in Threads \ {t} : todo'[u] = todo[u]
    BY <1>1, <1>2
<1> DEFINE s == todo[t]
           r == Tail(s)
<1>4. s \in Seq(Ops) /\ s # <<>> /\ Linked(s) /\ Head(s) = Do("test", p)
    BY <1>1, <1>2
<1>5. Head(s).op = "test" /\ Head(s).of = p
    BY <1>4 DEF Do
<1>6. todo'[t] = Tail(r)
    BY <1>3
<1> HIDE DEF s
<1>7. /\ r \in Seq(Ops) /\ Linked(r) /\ r # <<>> /\ Head(r) = Do("assign", p)
      /\ ToSet(s) = {Do("test", p)} \cup ToSet(r)
    BY <1>4, <1>5, Advance
<1>8. Head(r).op = "assign"
    BY <1>7 DEF Do
<1> HIDE DEF r
<1>9. /\ Tail(r) \in Seq(Ops) /\ Linked(Tail(r))
      /\ ToSet(r) = {Do("assign", p)} \cup ToSet(Tail(r))
      /\ Tail(r) # <<>> => Head(Tail(r)).op \notin {"push", "assign"}
    BY <1>7, <1>8, Advance
<1>10. Left(t) = {Do("test", p), Do("assign", p)} \cup ToSet(todo'[t])
    BY <1>6, <1>7, <1>9 DEF Left, s
<1>11. Others(t)
    BY <1>3 DEF Others, Left
<1>12. todo' \in [Threads -> Seq(Ops)]
    BY <1>1, <1>2, <1>3, <1>6, <1>9
<1>13. \A u \in Threads : Linked(todo'[u])
    BY <1>1, <1>3, <1>6, <1>9
<1>14. \A u \in Threads : ToSet(todo'[u]) \subseteq Left(u)
    BY <1>10, <1>11 DEF Others
<1>15. \A d \in ToSet(todo'["rx"]) \cup ToSet(todo'["httpd"]) : d.op \in Tools
    BY <1>14 DEF Programs, Threads
<1>16. Programs'
    BY <1>12, <1>13, <1>15 DEF Programs, Left
<1> QED BY <1>6, <1>9, <1>10, <1>11, <1>16 DEF Left

LEMMA TestStep ==
    ASSUME Inv, NEW t \in Threads, NEW p \in Proxies, Test(t, p)
    PROVE  Inv'
<1>1. Programs /\ ListOwner /\ ConsoleMode /\ Registered /\ GetsWhole /\ GetsDone
    BY DEF Inv
<1>2. /\ todo[t] # <<>> /\ Head(todo[t]) = Do("test", p)
      /\ UNCHANGED <<cmds, seen, mutex, uris, whole, wifi, running, mode>>
    BY DEF Test, Now, console, statics, user
<1>3. /\ Programs' /\ Others(t)
      /\ Left(t)' \subseteq Left(t)
      /\ \A d \in Left(t) : \/ d \in {Do("test", p), Do("assign", p)} /\ p \in running
                            \/ d = Do("test", p) /\ Do("assign", p) \in Left(t)'
                            \/ d \in Left(t)'
      /\ todo'[t] # <<>> => Head(todo'[t]).op # "push"
    <2>1. CASE p \in running
        BY <1>1, <2>1, SkipsAssignment
    <2>2. CASE p \notin running
        <3>1. Did(t)
            BY <2>2 DEF Test, Did
        <3>2. Head(todo[t]).op = "test" /\ Head(todo[t]).of = p
            BY <1>2 DEF Do
        <3>3. /\ Programs' /\ Others(t) /\ Left(t) = {Do("test", p)} \cup Left(t)'
              /\ todo'[t] # <<>> /\ Head(todo'[t]) = Do("assign", p)
            BY <1>1, <1>2, <3>1, <3>2, Proceed
        <3>4. Head(todo'[t]).op = "assign"
            BY <3>3 DEF Do
        <3>5. Do("assign", p) \in Left(t)'
            <4>1. todo'[t] \in Seq(Ops)
                BY <3>3 DEF Programs
            <4>2. 1 \in DOMAIN todo'[t] /\ todo'[t][1] = Head(todo'[t])
                BY <3>3, <4>1
            <4>3. Head(todo'[t]) \in ToSet(todo'[t])
                BY <4>2, Elem
            <4> QED BY <3>3, <4>3 DEF Left
        <3> QED BY <3>3, <3>4, <3>5
    <2> QED BY <2>1, <2>2
<1>4. \A u \in Threads : todo'[u] # <<>> /\ Head(todo'[u]).op = "push" =>
            todo[u] # <<>> /\ Head(todo[u]).op = "push"
    BY <1>3 DEF Others
<1>5. ListOwner'
    BY <1>1, <1>2, <1>4 DEF ListOwner
<1>6. /\ \A u \in Threads : Left(u)' \subseteq Left(u)
      /\ \A u \in Threads : \A d \in Left(u) :
            \/ d \in {Do("test", p), Do("assign", p)} /\ p \in running
            \/ d = Do("test", p) /\ Do("assign", p) \in Left(u)'
            \/ d \in Left(u)'
    BY <1>3 DEF Others, Left
<1>7. Left("con")' \subseteq Left("con")
    BY <1>6 DEF Threads
<1>8. /\ \A d \in Left("main") : d.op \in {"test", "assign"} \/ d \in Left("main")'
      /\ \A d \in Left("con") : d.op \in {"test", "assign"} \/ d \in Left("con")'
    BY <1>6 DEF Threads, Do
<1>9. mode = "cable" => todo'["con"] = <<>>
    BY <1>1, <1>2, <1>3 DEF ConsoleMode, Others, Threads
<1>10. ConsoleMode'
    BY <1>1, <1>2, <1>7, <1>9 DEF ConsoleMode
<1>11. Registered'
    BY <1>1, <1>2, <1>8 DEF Registered, Do
<1>12. GetsWhole'
    BY <1>1, <1>2, <1>8 DEF GetsWhole, Do
<1>13. GetsDone'
    <2>1. wifi = TRUE \/ Do("init", "NetworkManager") \in Left("main")'
        BY <1>1, <1>8 DEF GetsDone, Do
    <2>2. ASSUME NEW q \in Proxies
          PROVE q \in running \/ Do("test", q) \in Left("main")' \/ Do("assign", q) \in Left("main")'
        <3>1. q \in running \/ Do("test", q) \in Left("main") \/ Do("assign", q) \in Left("main")
            BY <1>1 DEF GetsDone
        <3>2. \A d \in Left("main") :
                 \/ d \in {Do("test", p), Do("assign", p)} /\ p \in running
                 \/ d = Do("test", p) /\ Do("assign", p) \in Left("main")'
                 \/ d \in Left("main")'
            BY <1>6 DEF Threads
        <3> QED BY <3>1, <3>2 DEF Do
    <2> QED BY <1>2, <2>1, <2>2 DEF GetsDone
<1> QED BY <1>3, <1>5, <1>10, <1>11, <1>12, <1>13 DEF Inv

\* The console's thread begins what none of its programs forbids: everything
\* that was there for app_main is there still.
LEMMA ConsoleBegins ==
    ASSUME Inv, todo["con"] = <<>>, NEW s,
           todo' = [todo EXCEPT !["con"] = s],
           Block(s) \/ s = <<>>,
           UNCHANGED <<cmds, seen, uris, whole, wifi, running>>,
           mutex' = mutex \/ mutex = "free",
           mode = "cable" => \A c \in ConsoleCommands : Do("push", c) \in ToSet(s),
           mode' \in {"prompt", "run", "uart", "pyocd"},
           mode' # "prompt" => mutex' = "con" /\ \A d \in ToSet(s) : d.op \notin {"lock", "push", "whole"}
    PROVE  Inv'
<1>1. Programs /\ ListOwner /\ ConsoleMode /\ Registered /\ GetsWhole /\ GetsDone
    BY DEF Inv
<1>2. /\ Programs' /\ Others("con") /\ Left("con") = {} /\ todo'["con"] = s
      /\ todo'["con"] # <<>> => Head(todo'["con"]).op \notin {"push", "assign"}
    BY <1>1, Begin DEF Threads
<1>3. Left("main")' = Left("main") /\ Left("con")' = ToSet(s)
    BY <1>2 DEF Others, Left, Threads
<1>4. \A u \in Threads : todo'[u] # <<>> /\ Head(todo'[u]).op = "push" =>
            todo[u] # <<>> /\ Head(todo[u]).op = "push"
    BY <1>2 DEF Others
<1>5. ListOwner'
    <2>1. \A u \in Threads : todo[u] # <<>> /\ Head(todo[u]).op = "push" =>
              mutex = u /\ seen[u] = cmds /\ u # "free"
        BY <1>1 DEF ListOwner, Threads
    <2> QED BY <1>1, <1>4, <2>1 DEF ListOwner
<1>6. ConsoleMode'
    BY <1>3 DEF ConsoleMode
<1>7. Registered'
    BY <1>1, <1>2, <1>3 DEF Registered
<1>8. GetsWhole'
    BY <1>1, <1>2, <1>3 DEF GetsWhole
<1>9. GetsDone'
    BY <1>1, <1>3 DEF GetsDone
<1> QED BY <1>2, <1>5, <1>6, <1>7, <1>8, <1>9 DEF Inv

\* What runs under the console's mutex does not register anything.
LEMMA ExcuteBlock ==
    ASSUME NEW c
    PROVE  /\ Block(Excute(c)) \/ Excute(c) = <<>>
           /\ \A d \in ToSet(Excute(c)) : d.op \notin {"lock", "push", "whole"}
<1>1. CASE c = "join"
    <2> DEFINE a == <<Do("use", "NetworkManager")>>
               b == <<Do("join", "NetworkManager")>>
    <2>1. /\ Block(a) /\ NoList(a) /\ ToSet(a) = {Do("use", "NetworkManager")}
          /\ Block(b) /\ NoList(b) /\ ToSet(b) = {Do("join", "NetworkManager")}
        BY One DEF Operations, Subjects, Services
    <2>2. Excute(c) = a \o b
        BY <1>1 DEF Excute
    <2> HIDE DEF a, b
    <2>3. Block(a \o b) /\ ToSet(a \o b) = ToSet(a) \cup ToSet(b)
        BY <2>1, Concat
    <2> QED BY <2>1, <2>2, <2>3 DEF Do
<1>2. CASE c = "setting"
    <2> DEFINE a == <<Do("use", "UartService")>>
               b == <<Do("apply", "UartService")>>
    <2>1. /\ Block(a) /\ NoList(a) /\ ToSet(a) = {Do("use", "UartService")}
          /\ Block(b) /\ NoList(b) /\ ToSet(b) = {Do("apply", "UartService")}
        BY One DEF Operations, Subjects, Services
    <2>2. Excute(c) = a \o b
        BY <1>2 DEF Excute
    <2> HIDE DEF a, b
    <2>3. Block(a \o b) /\ ToSet(a \o b) = ToSet(a) \cup ToSet(b)
        BY <2>1, Concat
    <2> QED BY <2>1, <2>2, <2>3 DEF Do
<1>3. CASE c = "help"
    <2>1. Excute(c) = <<Do("list", "help")>>
        BY <1>3 DEF Excute
    <2>2. /\ Block(<<Do("list", "help")>>)
          /\ ToSet(<<Do("list", "help")>>) = {Do("list", "help")}
        BY One DEF Operations, Subjects, Commands
    <2> QED BY <2>1, <2>2 DEF Do
<1>4. CASE c \notin {"join", "setting", "help"}
    <2>1. Excute(c) = <<>>
        BY <1>4 DEF Excute
    <2> QED BY <2>1 DEF ToSet
<1> QED BY <1>1, <1>2, <1>3, <1>4

LEMMA AttachStep ==
    ASSUME Inv, Attach
    PROVE  Inv'
<1>1. /\ mode = "cable" /\ todo["con"] = <<>> /\ mode' = "prompt"
      /\ todo' = [todo EXCEPT !["con"] = ConsoleStart]
      /\ UNCHANGED <<cmds, seen, mutex, uris, whole, wifi, running>>
    BY DEF Attach, Read, console, statics
<1>2. Block(ConsoleStart)
    BY ConsoleBlock
<1>3. \A c \in ConsoleCommands : Do("push", c) \in ToSet(ConsoleStart)
    <2>1. \A c \in ConsoleCommands : Do("push", c) \in ToSet(Command(c))
        BY ACommand DEF ConsoleCommands, Commands
    <2>2. \A c \in ConsoleCommands : ToSet(Command(c)) \subseteq ToSet(ConsoleStart)
        BY ConsoleBlock, ByPassBlock DEF ConsoleCommands
    <2> QED BY <2>1, <2>2
<1> QED BY <1>1, <1>2, <1>3, ConsoleBegins

LEMMA EnterUnknownStep ==
    ASSUME Inv, EnterUnknown
    PROVE  Inv'
<1>1. /\ mode = "prompt" /\ todo["con"] = <<>> /\ mode' = "prompt"
      /\ todo' = [todo EXCEPT !["con"] = <<Do("list", "help")>>]
      /\ UNCHANGED <<cmds, seen, mutex, uris, whole, wifi, running>>
    BY DEF EnterUnknown, Read, console, statics
<1>2. Block(<<Do("list", "help")>>)
    BY One DEF Operations, Subjects, Commands
<1> QED BY <1>1, <1>2, ConsoleBegins

LEMMA EnterCommandStep ==
    ASSUME Inv, EnterCommand
    PROVE  Inv'
<1>1. /\ mode = "prompt" /\ todo["con"] = <<>> /\ mode' \in {"run", "uart", "pyocd"}
      /\ todo' = [todo EXCEPT !["con"] = Excute(line)]
      /\ mutex = "free" /\ mutex' = "con"
      /\ UNCHANGED <<cmds, seen, uris, whole, wifi, running>>
    BY DEF EnterCommand, Read, console, statics
<1>2. /\ Block(Excute(line)) \/ Excute(line) = <<>>
      /\ \A d \in ToSet(Excute(line)) : d.op \notin {"lock", "push", "whole"}
    BY ExcuteBlock
<1> HIDE DEF Excute
<1> QED BY <1>1, <1>2, ConsoleBegins

LEMMA PassStep ==
    ASSUME Inv, NEW k \in Keys, Pass(k)
    PROVE  Inv'
<1> DEFINE s == IF mode = "uart" THEN Proxy("DebugMsgTx") ELSE <<>>
<1>1. /\ mode \in {"uart", "pyocd"} /\ todo["con"] = <<>> /\ mode' = mode
      /\ todo' = [todo EXCEPT !["con"] = s]
      /\ UNCHANGED <<cmds, seen, mutex, uris, whole, wifi, running>>
    BY DEF Pass, Read, console, statics
<1>2. mutex = "con"
    BY <1>1 DEF Inv, ConsoleMode
<1>3. Block(s) \/ s = <<>>
    BY AProxy DEF Proxies
<1>4. \A d \in ToSet(s) : d.op \notin {"lock", "push", "whole"}
    <2>1. CASE mode = "uart"
        BY <2>1, AProxy DEF Proxies, Do
    <2>2. CASE mode # "uart"
        <3>1. s = <<>>
            BY <2>2
        <3> QED BY <3>1 DEF ToSet
    <2> QED BY <2>1, <2>2
<1> HIDE DEF s
<1> QED BY <1>1, <1>2, <1>3, <1>4, ConsoleBegins

\* The UART's reader or the web server's thread begins a program of its own.
LEMMA ServantBegins ==
    ASSUME Inv, NEW t \in {"rx", "httpd"}, NEW s, todo[t] = <<>>,
           todo' = [todo EXCEPT ![t] = s],
           Block(s), \A d \in ToSet(s) : d.op \in Tools,
           UNCHANGED <<cmds, seen, mutex, uris, whole, wifi, running, mode>>
    PROVE  Inv'
<1>1. Programs /\ ListOwner /\ ConsoleMode /\ Registered /\ GetsWhole /\ GetsDone
    BY DEF Inv
<1>3. t \in Threads
    BY DEF Threads
<1>4. /\ Programs' /\ Others(t)
      /\ todo'[t] # <<>> => Head(todo'[t]).op \notin {"push", "assign"}
    BY <1>1, <1>3, Begin
<1>5. todo'["con"] = todo["con"] /\ Left("con")' = Left("con") /\ Left("main")' = Left("main")
    BY <1>4 DEF Others, Left, Threads
<1>6. \A u \in Threads : todo'[u] # <<>> /\ Head(todo'[u]).op = "push" =>
            todo[u] # <<>> /\ Head(todo[u]).op = "push"
    BY <1>4 DEF Others
<1>7. ListOwner'
    BY <1>1, <1>6 DEF ListOwner
<1>8. ConsoleMode' /\ Registered' /\ GetsWhole' /\ GetsDone'
    BY <1>1, <1>5 DEF ConsoleMode, Registered, GetsWhole, GetsDone
<1> QED BY <1>4, <1>7, <1>8 DEF Inv

\* No program begins and no list changes: the user types, a command returns,
\* the program aborts or everything stutters.
LEMMA IdleStep ==
    ASSUME Inv, UNCHANGED <<todo, cmds, seen, uris, whole, wifi, running>>,
           \/ mode' = mode /\ mutex' = mutex
           \/ mode \in {"uart", "pyocd"} /\ mode' = "run" /\ mutex' = mutex
           \/ mode = "run" /\ mode' = "prompt" /\ mutex' = "free"
    PROVE  Inv'
<1>1. Programs /\ ListOwner /\ ConsoleMode /\ Registered /\ GetsWhole /\ GetsDone
    BY DEF Inv
<1>2. \A u \in Threads : Left(u)' = Left(u)
    BY DEF Left
<1>3. Left("main")' = Left("main") /\ Left("con")' = Left("con")
    BY <1>2 DEF Threads
<1>4. Programs' /\ GetsDone'
    BY <1>1, <1>3 DEF Programs, GetsDone, Left
<1>5. GetsWhole' /\ Registered'
    BY <1>1, <1>3 DEF GetsWhole, Registered
<1>6. ConsoleMode'
    BY <1>1, <1>3 DEF ConsoleMode
<1>7. ListOwner'
    <2>1. CASE mutex' = mutex
        BY <1>1, <2>1 DEF ListOwner
    <2>2. CASE mode = "run"
        <3>1. mutex = "con" /\ \A d \in Left("con") : d.op # "push"
            BY <1>1, <2>2 DEF ConsoleMode
        <3>2. todo["con"] # <<>> => Head(todo["con"]) \in Left("con")
            <4>1. todo["con"] \in Seq(Ops)
                BY <1>1 DEF Programs, Threads
            <4>2. todo["con"] # <<>> => 1 \in DOMAIN todo["con"] /\ todo["con"][1] = Head(todo["con"])
                BY <4>1
            <4> QED BY <4>2, Elem DEF Left
        <3>3. \A u \in Threads : ~(todo[u] # <<>> /\ Head(todo[u]).op = "push")
            BY <1>1, <3>1, <3>2 DEF ListOwner
        <3> QED BY <1>1, <3>3 DEF ListOwner
    <2> QED BY <2>1, <2>2
<1> QED BY <1>4, <1>5, <1>6, <1>7 DEF Inv

\* How the device starts, the first time and after an abort.
Started ==
    /\ todo = [t \in Threads |-> IF t = "main" THEN AppMain ELSE <<>>]
    /\ cmds = {} /\ seen = [t \in Threads |-> {}] /\ uris = {}
    /\ mode = "cable"

LEMMA StartedInv == Started => Inv
<1> SUFFICES ASSUME Started PROVE Inv
    OBVIOUS
<1>1. /\ todo["main"] = AppMain /\ todo["con"] = <<>> /\ todo["rx"] = <<>> /\ todo["httpd"] = <<>>
    BY DEF Started, Threads
<1>2. Left("main") = ToSet(AppMain) /\ Left("con") = {} /\ Left("rx") = {} /\ Left("httpd") = {}
    BY <1>1 DEF Left, ToSet
<1>3. /\ Block(AppMain)
      /\ \A c \in Commands \ ConsoleCommands : Do("push", c) \in ToSet(AppMain)
      /\ Do("init", "NetworkManager") \in ToSet(AppMain)
      /\ \A p \in Proxies : Do("test", p) \in ToSet(AppMain)
    BY MainBlock
<1>4. AppMain \in Seq(Ops) /\ Linked(AppMain) /\ AppMain # <<>>
      /\ AppMain[1].op \notin {"push", "assign"} /\ Head(AppMain) = AppMain[1]
    BY <1>3 DEF Block
<1> HIDE DEF AppMain
<1>5. <<>> \in Seq(Ops) /\ Linked(<<>>)
    <2>1. <<>> \in Seq(Ops) /\ DOMAIN <<>> = {}
        OBVIOUS
    <2> QED BY <2>1 DEF Linked
<1>6. Programs
    BY <1>1, <1>2, <1>4, <1>5 DEF Programs, Started, Threads
<1>7. ListOwner
    BY <1>1, <1>4 DEF ListOwner, Started, Threads
<1>8. ConsoleMode
    BY <1>1 DEF ConsoleMode, Started
<1>9. Registered
    BY <1>2, <1>3 DEF Registered, Started
<1>10. GetsWhole /\ GetsDone
    BY <1>2, <1>3 DEF GetsWhole, GetsDone, Started
<1> QED BY <1>6, <1>7, <1>8, <1>9, <1>10 DEF Inv

LEMMA StepKeeps ==
    ASSUME Inv, NEW t \in Threads, Step(t)
    PROVE  Inv'
<1>1. ASSUME NEW c \in Commands, Lock(t, c) PROVE Inv'
    BY <1>1, LockStep
<1>2. ASSUME NEW c \in Commands, Push(t, c) PROVE Inv'
    BY <1>2, PushStep
<1>3. ASSUME NEW o \in Commands \cup Handlers, Whole(t, o) PROVE Inv'
    <2>1. /\ todo[t] # <<>> /\ Head(todo[t]) = Do("whole", o) /\ Did(t)
          /\ UNCHANGED <<cmds, seen, mutex, mode, uris>>
          /\ whole' = whole \cup {o} /\ running' = running /\ wifi' = wifi
        BY <1>3 DEF Whole, Now, console, statics, user
    <2>2. Head(todo[t]).op = "whole" /\ Head(todo[t]).of = o
        BY <2>1 DEF Do
    <2>3. Do("whole", o) = Do("init", "NetworkManager") => "whole" = "init"
        BY DEF Do
    <2> QED BY <2>1, <2>2, <2>3, QuietStep
<1>4. ASSUME NEW p \in Proxies, Create(t, p) PROVE Inv'
    <2>1. /\ todo[t] # <<>> /\ Head(todo[t]) = Do("create", p) /\ Did(t)
          /\ UNCHANGED <<cmds, seen, mutex, mode, uris>>
          /\ whole' = whole /\ running' = running /\ wifi' = wifi
        BY <1>4 DEF Create, Now, console, user
    <2>2. Head(todo[t]).op = "create" /\ Head(todo[t]).of = p
        BY <2>1 DEF Do
    <2>3. Do("create", p) = Do("init", "NetworkManager") => "create" = "init"
        BY DEF Do
    <2> QED BY <2>1, <2>2, <2>3, QuietStep
<1>5. ASSUME NEW p \in Proxies, Test(t, p) PROVE Inv'
    BY <1>5, TestStep
<1>6. ASSUME NEW p \in Proxies, Assign(t, p) PROVE Inv'
    <2>1. /\ todo[t] # <<>> /\ Head(todo[t]) = Do("assign", p) /\ Did(t)
          /\ UNCHANGED <<cmds, seen, mutex, mode, uris>>
          /\ whole' = whole /\ running' = running \cup {p} /\ wifi' = wifi
        BY <1>6 DEF Assign, Now, console, user
    <2>2. Head(todo[t]).op = "assign" /\ Head(todo[t]).of = p
        BY <2>1 DEF Do
    <2>3. Do("assign", p) = Do("init", "NetworkManager") => "assign" = "init"
        BY DEF Do
    <2> QED BY <2>1, <2>2, <2>3, QuietStep
<1>7. ASSUME NEW c \in Clients, Subscribe(t, c) PROVE Inv'
    <2>1. /\ todo[t] # <<>> /\ Head(todo[t]) = Do("subscribe", c) /\ Did(t)
          /\ UNCHANGED <<cmds, seen, mutex, mode, uris>>
          /\ whole' = whole /\ running' = running /\ wifi' = wifi
        BY <1>7 DEF Subscribe, Now, console, statics, user
    <2>2. Head(todo[t]).op = "subscribe" /\ Head(todo[t]).of = c
        BY <2>1 DEF Do
    <2>3. Do("subscribe", c) = Do("init", "NetworkManager") => "subscribe" = "init"
        BY DEF Do
    <2> QED BY <2>1, <2>2, <2>3, QuietStep
<1>8. ASSUME NEW c \in Clients, Built(t, c) PROVE Inv'
    <2>1. /\ todo[t] # <<>> /\ Head(todo[t]) = Do("built", c) /\ Did(t)
          /\ UNCHANGED <<cmds, seen, mutex, mode, uris>>
          /\ whole' = whole /\ running' = running /\ wifi' = wifi
        BY <1>8 DEF Built, Now, console, statics, user
    <2>2. Head(todo[t]).op = "built" /\ Head(todo[t]).of = c
        BY <2>1 DEF Do
    <2>3. Do("built", c) = Do("init", "NetworkManager") => "built" = "init"
        BY DEF Do
    <2> QED BY <2>1, <2>2, <2>3, QuietStep
<1> QED BY <1>1, <1>2, <1>3, <1>4, <1>5, <1>6, <1>7, <1>8 DEF Step

LEMMA WriteStep ==
    ASSUME Inv, Write
    PROVE  Inv'
<1>0. "rx" \in Threads
    BY DEF Threads
<1>1. /\ todo["rx"] # <<>> /\ Head(todo["rx"]) = Do("write", "rx") /\ Did("rx")
      /\ UNCHANGED <<cmds, seen, mutex, mode, uris>>
      /\ whole' = whole /\ running' = running /\ wifi' = wifi
    BY DEF Write, Now, console, statics, user
<1>2. Head(todo["rx"]).op = "write" /\ Head(todo["rx"]).of = "rx"
    BY <1>1 DEF Do
<1>3. Do("write", "rx") = Do("init", "NetworkManager") => "write" = "init"
    BY DEF Do
<1> QED BY <1>0, <1>1, <1>2, <1>3, QuietStep

LEMMA MainKeeps ==
    ASSUME Inv, Main
    PROVE  Inv'
<1>0. "main" \in Threads
    BY DEF Threads
<1>1. CASE Step("main")
    BY <1>0, <1>1, StepKeeps
<1>2. ASSUME NEW u \in Handlers, Publish(u) PROVE Inv'
    BY <1>2, PublishStep
<1>3. ASSUME NEW s \in Services, Enter(s) PROVE Inv'
    <2>1. /\ todo["main"] # <<>> /\ Head(todo["main"]) = Do("enter", s) /\ Did("main")
          /\ UNCHANGED <<cmds, seen, mutex, mode, uris>>
          /\ whole' = whole /\ running' = running /\ wifi' = wifi
        BY <1>3 DEF Enter, Now, console, user
    <2>2. Head(todo["main"]).op = "enter" /\ Head(todo["main"]).of = s
        BY <2>1 DEF Do
    <2>3. Do("enter", s) = Do("init", "NetworkManager") => "enter" = "init"
        BY DEF Do
    <2> QED BY <1>0, <2>1, <2>2, <2>3, QuietStep
<1>4. ASSUME NEW s \in Services, Leave(s) PROVE Inv'
    <2>1. /\ todo["main"] # <<>> /\ Head(todo["main"]) = Do("leave", s) /\ Did("main")
          /\ UNCHANGED <<cmds, seen, mutex, mode, uris>>
          /\ whole' = whole /\ running' = running /\ wifi' = wifi
        BY <1>4 DEF Leave, Now, console, user
    <2>2. Head(todo["main"]).op = "leave" /\ Head(todo["main"]).of = s
        BY <2>1 DEF Do
    <2>3. Do("leave", s) = Do("init", "NetworkManager") => "leave" = "init"
        BY DEF Do
    <2> QED BY <1>0, <2>1, <2>2, <2>3, QuietStep
<1>5. CASE InitNetwork
    BY <1>0, <1>5, QuietStep DEF InitNetwork, Now, Do, console, user
<1>6. CASE StartRx
    <2>1. /\ todo["main"] # <<>> /\ Head(todo["main"]) = Do("thread", "rx") /\ Did("main")
          /\ UNCHANGED <<cmds, seen, mutex, mode, uris>>
          /\ whole' = whole /\ running' = running /\ wifi' = wifi
        BY <1>6 DEF StartRx, Now, console, user
    <2>2. Head(todo["main"]).op = "thread" /\ Head(todo["main"]).of = "rx"
        BY <2>1 DEF Do
    <2>3. Do("thread", "rx") = Do("init", "NetworkManager") => "thread" = "init"
        BY DEF Do
    <2> QED BY <1>0, <2>1, <2>2, <2>3, QuietStep
<1> QED BY <1>1, <1>2, <1>3, <1>4, <1>5, <1>6 DEF Main

LEMMA ConKeeps ==
    ASSUME Inv, Con
    PROVE  Inv'
<1>0. "con" \in Threads
    BY DEF Threads
<1>1. CASE Step("con")
    BY <1>0, <1>1, StepKeeps
<1>2. CASE List
    <2>1. /\ todo["con"] # <<>> /\ Head(todo["con"]) = Do("list", "help") /\ Did("con")
          /\ UNCHANGED <<cmds, seen, mutex, mode, uris>>
          /\ whole' = whole /\ running' = running /\ wifi' = wifi
        BY <1>2 DEF List, Now, console, statics, user
    <2>2. Head(todo["con"]).op = "list" /\ Head(todo["con"]).of = "help"
        BY <2>1 DEF Do
    <2>3. Do("list", "help") = Do("init", "NetworkManager") => "list" = "init"
        BY DEF Do
    <2> QED BY <1>0, <2>1, <2>2, <2>3, QuietStep
<1>3. CASE JoinNetwork
    <2>1. /\ todo["con"] # <<>> /\ Head(todo["con"]) = Do("join", "NetworkManager") /\ Did("con")
          /\ UNCHANGED <<cmds, seen, mutex, mode, uris>>
          /\ whole' = whole /\ running' = running /\ wifi' = wifi
        BY <1>3 DEF JoinNetwork, Now, console, statics, user
    <2>2. Head(todo["con"]).op = "join" /\ Head(todo["con"]).of = "NetworkManager"
        BY <2>1 DEF Do
    <2>3. Do("join", "NetworkManager") = Do("init", "NetworkManager") => "join" = "init"
        BY DEF Do
    <2> QED BY <1>0, <2>1, <2>2, <2>3, QuietStep
<1>4. CASE Return
    BY <1>4, IdleStep DEF Return, statics
<1>5. ASSUME NEW s \in Services, Use(s) PROVE Inv'
    <2>1. /\ todo["con"] # <<>> /\ Head(todo["con"]) = Do("use", s) /\ Did("con")
          /\ UNCHANGED <<cmds, seen, mutex, mode, uris>>
          /\ whole' = whole /\ running' = running /\ wifi' = wifi
        BY <1>5 DEF Use, Now, console, statics, user
    <2>2. Head(todo["con"]).op = "use" /\ Head(todo["con"]).of = s
        BY <2>1 DEF Do
    <2>3. Do("use", s) = Do("init", "NetworkManager") => "use" = "init"
        BY DEF Do
    <2> QED BY <1>0, <2>1, <2>2, <2>3, QuietStep
<1>6. CASE Apply
    <2>1. /\ todo["con"] # <<>> /\ Head(todo["con"]) = Do("apply", "UartService") /\ Did("con")
          /\ UNCHANGED <<cmds, seen, mutex, mode, uris>>
          /\ whole' = whole /\ running' = running /\ wifi' = wifi
        BY <1>6 DEF Apply, Now, console, statics, user
    <2>2. Head(todo["con"]).op = "apply" /\ Head(todo["con"]).of = "UartService"
        BY <2>1 DEF Do
    <2>3. Do("apply", "UartService") = Do("init", "NetworkManager") => "apply" = "init"
        BY DEF Do
    <2> QED BY <1>0, <2>1, <2>2, <2>3, QuietStep
<1> QED BY <1>1, <1>2, <1>3, <1>4, <1>5, <1>6 DEF Con

LEMMA UserKeeps ==
    ASSUME Inv, User
    PROVE  Inv'
<1>1. CASE Attach
    BY <1>1, AttachStep
<1>2. CASE EnterUnknown
    BY <1>2, EnterUnknownStep
<1>3. CASE EnterCommand
    BY <1>3, EnterCommandStep
<1>4. CASE Escape
    BY <1>4, IdleStep DEF Escape, console, statics
<1>5. ASSUME NEW k \in Keys, Type(k) PROVE Inv'
    BY <1>5, IdleStep DEF Type, console, statics
<1>6. ASSUME NEW k \in Keys, Pass(k) PROVE Inv'
    BY <1>6, PassStep
<1> QED BY <1>1, <1>2, <1>3, <1>4, <1>5, <1>6 DEF User

LEMMA TalkStep ==
    ASSUME Inv, Talk
    PROVE  Inv'
<1>1. /\ todo["rx"] = <<>> /\ todo' = [todo EXCEPT !["rx"] = Receiving]
      /\ UNCHANGED <<cmds, seen, mutex, uris, whole, wifi, running, mode>>
    BY DEF Talk, console, statics, user
<1> QED BY <1>1, ServantBegins, ReceivingBlock

LEMMA VisitStep ==
    ASSUME Inv, NEW u \in Handlers, Visit(u)
    PROVE  Inv'
<1>1. /\ todo["httpd"] = <<>>
      /\ UNCHANGED <<cmds, seen, mutex, uris, whole, wifi, running, mode>>
    BY DEF Visit, console, statics, user
<1>2. CASE UNCHANGED todo
    BY <1>1, <1>2, IdleStep
<1>3. CASE todo' = [todo EXCEPT !["httpd"] = Frame]
    BY <1>1, <1>3, ServantBegins, FrameBlock
<1> QED BY <1>2, <1>3 DEF Visit

LEMMA StutterStep ==
    ASSUME Inv, UNCHANGED vars \/ Broadcast
    PROVE  Inv'
BY IdleStep DEF vars, Broadcast, console, statics, user

\* Inv holds in every state, whatever is typed and whoever visits.
THEOREM BootInvariant == Spec => []Inv
<1>1. Init => Started
    BY DEF Init, Started
<1>2. Restart => Started'
    BY DEF Restart, Started
<1>3. Init => Inv
    BY <1>1, StartedInv
<1>4. Started' => Inv'
    BY StartedInv, PTL
<1>5. Inv /\ [Next]_vars => Inv'
    <2> SUFFICES ASSUME Inv, [Next]_vars PROVE Inv'
        OBVIOUS
    <2>0. {"rx", "httpd"} \subseteq Threads
        BY DEF Threads
    <2>1. CASE Main
        BY <2>1, MainKeeps
    <2>2. CASE Con
        BY <2>2, ConKeeps
    <2>3. CASE Rx
        BY <2>0, <2>3, StepKeeps, WriteStep DEF Rx
    <2>4. CASE Step("httpd")
        BY <2>0, <2>4, StepKeeps
    <2>5. CASE User
        BY <2>5, UserKeeps
    <2>6. CASE Talk
        BY <2>6, TalkStep
    <2>7. ASSUME NEW u \in Handlers, Visit(u) PROVE Inv'
        BY <2>7, VisitStep
    <2>8. CASE Restart
        BY <2>8, <1>2, <1>4
    <2>9. CASE UNCHANGED vars \/ Broadcast
        BY <2>9, StutterStep
    <2> QED BY <2>1, <2>2, <2>3, <2>4, <2>5, <2>6, <2>7, <2>8, <2>9 DEF Next
<1> QED BY <1>3, <1>5, PTL DEF Spec

\* Two threads register commands at the same time, and none gets lost
\* (Console::add, console.cpp:121).
THEOREM NoCommandForgotten == Spec => []CommandsComplete
<1>1. Inv => CommandsComplete
    <2> SUFFICES ASSUME Inv, Booted, mode # "cable", todo["con"] = <<>> \/ mode # "prompt"
                 PROVE  cmds = Commands
        BY DEF CommandsComplete
    <2>1. Left("main") = {}
        BY DEF Booted, Left, ToSet
    <2>2. \A c \in Commands : Do("push", c) \notin Left("con")
        <3>1. CASE todo["con"] = <<>>
            BY <3>1 DEF Left, ToSet
        <3>2. CASE mode # "prompt"
            <4>1. \A d \in Left("con") : d.op # "push"
                BY <3>2 DEF Inv, ConsoleMode
            <4> QED BY <4>1 DEF Do
        <3> QED BY <3>1, <3>2
    <2> QED BY <2>1, <2>2 DEF Inv, Registered
<1> QED BY <1>1, BootInvariant, PTL

-----------------------------------------------------------------------------
(* Aborts *)

\* What is known is whole, and what app_main sees to is done, when no program
\* is left to see to it.
LEMMA WhenBooted ==
    ASSUME Inv, Booted
    PROVE  /\ uris \subseteq whole
           /\ wifi = TRUE
           /\ Proxies \subseteq running
           /\ Left("con") \cap {Do("whole", c) : c \in Commands} = {} => cmds \subseteq whole
<1>1. Left("main") = {}
    BY DEF Booted, Left, ToSet
<1> QED BY <1>1 DEF Inv, GetsWhole, GetsDone, Registered

\* An abort of a booted device is a thread started twice, a message for a new
\* client or a command that a driver refuses.
LEMMA AbortsByRace ==
    ASSUME Inv, Booted, Next, ~down, down' = TRUE
    PROVE  Racing \/ CallsHalf \/ Refusing
<1>0. \A t \in Threads : todo[t] # <<>> => Head(todo[t]) \in Left(t)
    <2> SUFFICES ASSUME NEW t \in Threads, todo[t] # <<>> PROVE Head(todo[t]) \in Left(t)
        OBVIOUS
    <2>1. todo[t] \in Seq(Ops)
        BY DEF Inv, Programs
    <2>2. 1 \in DOMAIN todo[t] /\ todo[t][1] = Head(todo[t])
        BY <2>1
    <2> QED BY <2>2, Elem DEF Left
<1>1. ASSUME NEW t \in Threads, Step(t) PROVE Racing
    <2>1. PICK p \in Proxies : Assign(t, p)
        BY <1>1 DEF Step, Lock, Push, Whole, Create, Test, Subscribe, Built
    <2>2. todo[t] # <<>> /\ Head(todo[t]).op = "assign"
        BY <2>1 DEF Assign, Now, Do
    <2> QED BY <2>2 DEF Racing
<1>2. List => FALSE
    <2> SUFFICES ASSUME List PROVE FALSE
        OBVIOUS
    <2>1. /\ todo["con"] # <<>> /\ Head(todo["con"]) = Do("list", "help") /\ Did("con")
          /\ ~(cmds \subseteq whole)
        BY DEF List, Now
    <2>2. Head(todo["con"]).op = "list"
        BY <2>1 DEF Do
    <2>3. Left("con") = {Do("list", "help")} \cup Left("con")' /\ todo'["con"] = <<>>
        BY <2>1, <2>2, Proceed DEF Inv, Threads
    <2>4. Left("con")' = {}
        BY <2>3 DEF Left, ToSet
    <2> QED BY <2>1, <2>3, <2>4, WhenBooted DEF Do
<1>3. JoinNetwork => Refusing
    BY WhenBooted DEF JoinNetwork, Refusing
<1>4. EnterCommand => FALSE
    <2> SUFFICES ASSUME EnterCommand PROVE FALSE
        OBVIOUS
    <2>1. todo["con"] = <<>> /\ line \in cmds /\ line \notin whole
        BY DEF EnterCommand, Read
    <2>2. Left("con") = {}
        BY <2>1 DEF Left, ToSet
    <2> QED BY <2>1, <2>2, WhenBooted
<1>5. ASSUME NEW u \in Handlers, Visit(u) PROVE FALSE
    BY <1>5, WhenBooted DEF Visit
<1>6. "main" \in Threads /\ {"con", "rx", "httpd"} \subseteq Threads
    BY DEF Threads
<1>7. CASE Main
    BY <1>7, <1>1, <1>6 DEF Main, Publish, Enter, Leave, InitNetwork, StartRx
<1>8. CASE Con
    BY <1>8, <1>1, <1>2, <1>3, <1>6 DEF Con, Return, Use, Apply, Refusing
<1>9. CASE User
    BY <1>9, <1>4 DEF User, Attach, EnterUnknown, Escape, Type, Pass
<1>10. CASE Talk \/ Restart
    BY <1>10 DEF Talk, Restart
<1>11. CASE Broadcast
    BY <1>11 DEF Broadcast, CallsHalf
<1>12. CASE Rx
    BY <1>12, <1>1, <1>6 DEF Rx, Write
<1> QED BY <1>1, <1>5, <1>6, <1>7, <1>8, <1>9, <1>10, <1>11, <1>12 DEF Next

\* Thread t is about to assign a proxy's thread.
AtAssign(t) == todo[t] # <<>> /\ Head(todo[t]).op = "assign"

\* Who is not about to assign gets there only by finding a proxy at rest.
LEMMA NoNewRacer ==
    ASSUME Inv, Booted, ~Racing, NEW t \in Threads, Step(t)
    PROVE  ~Racing'
<1> USE DEF Inv
<1>1. \A u \in Threads : ~AtAssign(u)
    BY DEF Racing, AtAssign
<1>2. SUFFICES Others(t) /\ ~AtAssign(t)'
    BY <1>1 DEF Racing, AtAssign, Others
<1>3. CASE \E p \in Proxies : Test(t, p)
    <2>1. PICK p \in Proxies : Test(t, p)
        BY <1>3
    <2>2. p \in running
        BY WhenBooted
    <2> QED BY <2>1, <2>2, SkipsAssignment DEF AtAssign
<1>4. CASE ~\E p \in Proxies : Test(t, p)
    <2>1. PICK op \in {"lock", "push", "whole", "create", "assign", "subscribe", "built"},
               o \in Subjects :
             todo[t] # <<>> /\ Did(t) /\ Head(todo[t]) = Do(op, o)
        BY <1>4 DEF Step, Lock, Push, Whole, Create, Assign, Subscribe, Built, Now, Subjects
    <2>2. Head(todo[t]).op # "test"
        BY <2>1 DEF Do
    <2> QED BY <2>1, <2>2, Proceed DEF AtAssign
<1> QED BY <1>3, <1>4

LEMMA NoRaceBegins ==
    ASSUME Inv, Booted, ~Racing, [Next]_vars
    PROVE  ~Racing' \/ ~Booted'
<1> USE DEF Inv
<1>1. \A u \in Threads : ~AtAssign(u)
    BY DEF Racing, AtAssign
<1>2. "main" \in Threads /\ {"con", "rx", "httpd"} \subseteq Threads
    BY DEF Threads
<1>3. ASSUME NEW t \in Threads, todo[t] # <<>>, Did(t), Head(todo[t]).op # "test"
      PROVE  ~Racing'
    <2>1. Others(t) /\ ~AtAssign(t)'
        BY <1>3, Proceed DEF AtAssign
    <2> QED BY <1>1, <2>1 DEF Racing, AtAssign, Others
<1>4. ASSUME NEW t \in Threads, todo[t] = <<>>, NEW s, todo' = [todo EXCEPT ![t] = s],
             Block(s) \/ s = <<>>,
             t \in {"rx", "httpd"} => \A d \in ToSet(s) : d.op \in Tools
      PROVE  ~Racing'
    <2>1. Others(t) /\ ~AtAssign(t)'
        BY <1>4, Begin DEF AtAssign
    <2> QED BY <1>1, <2>1 DEF Racing, AtAssign, Others
<1>5. ASSUME UNCHANGED todo PROVE ~Racing'
    BY <1>1, <1>5 DEF Racing, AtAssign
<1>6. CASE Main
    <2>1. todo["main"] = <<>>
        BY DEF Booted
    <2> QED BY <2>1, <1>6 DEF Main, Step, Publish, Enter, Leave, InitNetwork, StartRx,
                              Lock, Push, Whole, Create, Test, Assign, Subscribe,
                              Built, Now
<1>7. CASE Con
    <2>1. CASE Step("con")
        BY <1>2, <2>1, NoNewRacer
    <2>2. CASE List \/ JoinNetwork \/ Apply \/ \E s \in Services : Use(s)
        <3> DEFINE At(op, o) == todo["con"] # <<>> /\ Did("con") /\ Head(todo["con"]) = Do(op, o)
        <3>1. List => At("list", "help")
            BY DEF List, Now
        <3>2. JoinNetwork => At("join", "NetworkManager")
            BY DEF JoinNetwork, Now
        <3>3. \A s \in Services : Use(s) => At("use", s)
            BY DEF Use, Now
        <3>4. Apply => At("apply", "UartService")
            BY DEF Apply, Now
        <3>5. {"help", "NetworkManager", "UartService"} \cup Services \subseteq Subjects
            BY DEF Subjects, Commands, Services
        <3> HIDE DEF At
        <3>6. PICK op \in {"list", "join", "use", "apply"}, o \in Subjects : At(op, o)
            BY <2>2, <3>1, <3>2, <3>3, <3>4, <3>5
        <3>7. Head(todo["con"]).op # "test"
            BY <3>6 DEF At, Do
        <3> QED BY <1>2, <1>3, <3>6, <3>7 DEF At
    <2>3. CASE Return
        BY <1>5, <2>3 DEF Return
    <2> QED BY <1>7, <2>1, <2>2, <2>3 DEF Con
<1>8. CASE Rx \/ Step("httpd")
    <2>1. CASE Write
        BY <1>2, <1>3, <2>1 DEF Write, Now, Do
    <2> QED BY <1>2, <1>8, <2>1, NoNewRacer DEF Rx
<1>9. CASE User
    <2>1. CASE Attach
        BY <1>2, <1>4, <2>1, ConsoleBlock DEF Attach, Read
    <2>2. CASE EnterUnknown
        <3>1. Block(<<Do("list", "help")>>)
            BY One DEF Operations, Subjects, Commands
        <3> QED BY <1>2, <1>4, <2>2, <3>1 DEF EnterUnknown, Read
    <2>3. CASE EnterCommand
        <3>1. Block(Excute(line)) \/ Excute(line) = <<>>
            BY ExcuteBlock
        <3>2. todo["con"] = <<>> /\ todo' = [todo EXCEPT !["con"] = Excute(line)]
            BY <2>3 DEF EnterCommand, Read
        <3> HIDE DEF Excute
        <3> QED BY <1>2, <1>4, <3>1, <3>2
    <2>4. ASSUME NEW k \in Keys, Pass(k) PROVE ~Racing'
        <3> DEFINE s == IF mode = "uart" THEN Proxy("DebugMsgTx") ELSE <<>>
        <3>1. Block(s) \/ s = <<>>
            BY AProxy DEF Proxies
        <3>2. todo["con"] = <<>> /\ todo' = [todo EXCEPT !["con"] = s]
            BY <2>4 DEF Pass, Read
        <3> HIDE DEF s
        <3> QED BY <1>2, <1>4, <3>1, <3>2
    <2>5. CASE Escape \/ \E k \in Keys : Type(k)
        BY <1>5, <2>5 DEF Escape, Type
    <2> QED BY <1>9, <2>1, <2>2, <2>3, <2>4, <2>5 DEF User
<1>10. CASE Talk
    <2>1. todo["rx"] = <<>> /\ todo' = [todo EXCEPT !["rx"] = Receiving]
        BY <1>10 DEF Talk
    <2> QED BY <1>2, <1>4, <2>1, ReceivingBlock
<1>11. ASSUME NEW u \in Handlers, Visit(u) PROVE ~Racing'
    <2>1. todo["httpd"] = <<>>
          /\ (UNCHANGED todo \/ todo' = [todo EXCEPT !["httpd"] = Frame])
        BY <1>11 DEF Visit
    <2> QED BY <1>2, <1>4, <1>5, <2>1, FrameBlock
<1>12. CASE Restart
    <2>1. AppMain # <<>>
        BY MainBlock DEF Block
    <2>2. todo'["main"] = AppMain
        BY <1>12 DEF Restart, Threads
    <2> QED BY <2>1, <2>2 DEF Booted
<1>13. CASE UNCHANGED vars \/ Broadcast
    BY <1>5, <1>13 DEF vars, Broadcast
<1> QED BY <1>6, <1>7, <1>8, <1>9, <1>10, <1>11, <1>12, <1>13 DEF Next

\* Once app_main is through, and whoever was caught in Task::start meanwhile,
\* nothing aborts the program that started it before: no command or handler is
\* called before it is whole, no join comes too early, no thread is started
\* twice (console.cpp:44, network_manager.cpp:162, task.cpp:51).  A message may
\* still meet a client under construction, and a driver refuse a command.
THEOREM SafeOnceBooted == Spec => AbortsOnceBooted
<1>1. ASSUME Inv, [Next]_vars
      PROVE  [/\ down' /\ ~down => ~Booted \/ Racing \/ CallsHalf \/ Refusing
              /\ Booted /\ ~Racing => ~Racing' \/ ~Booted']_vars
    <2>1. Booted /\ ~Racing => ~Racing' \/ ~Booted'
        BY <1>1, NoRaceBegins
    <2>2. ASSUME down', ~down, Booted PROVE Racing \/ CallsHalf \/ Refusing
        <3>1. CASE Next
            <4>1. down' = TRUE
                BY <2>2, <3>1 DEF Next, Main, Con, Rx, User, Step, List, Return, JoinNetwork, Apply,
                   Broadcast, Abort
            <4> QED BY <1>1, <2>2, <3>1, <4>1, AbortsByRace
        <3>2. CASE UNCHANGED vars
            BY <2>2, <3>2 DEF vars
        <3> QED BY <1>1, <3>1, <3>2
    <2> QED BY <2>1, <2>2
<1> QED BY <1>1, BootInvariant, PTL DEF Spec, AbortsOnceBooted

-----------------------------------------------------------------------------
(* Types *)

ObjectTypes ==
    /\ uris \subseteq Handlers
    /\ whole \subseteq Commands \cup Handlers
    /\ making \cup made \subseteq Services \cup Proxies \cup {"rx"}
    /\ running \subseteq Proxies
    /\ half \subseteq Clients

SwitchTypes ==
    /\ mutex \in {"free", "main", "con"}
    /\ wifi \in BOOLEAN
    /\ line \in Commands \cup {"ctrl+B", "empty", "garbage"}
    /\ down \in BOOLEAN
    /\ pending \in BOOLEAN

CountTypes ==
    /\ keys \in 0..MaxKeys
    /\ talks \in 0..MaxTalks
    /\ visits \in 0..MaxVisits

LEMMA StartedTypes ==
    ASSUME uris = {}, whole = {}, making = {}, made = {}, running = {}, half = {},
           mutex = "free", wifi = FALSE, line = "empty", down = FALSE,
           pending = FALSE
    PROVE  ObjectTypes /\ SwitchTypes
<1>1. ObjectTypes
    BY DEF ObjectTypes
<1>2. SwitchTypes
    BY Zenon DEF SwitchTypes
<1> QED BY <1>1, <1>2

LEMMA ObjectsKept ==
    ASSUME ObjectTypes, [Next]_vars
    PROVE  ObjectTypes'
<1> USE DEF ObjectTypes
<1>1. CASE UNCHANGED <<uris, whole, statics, half>>
    BY <1>1 DEF statics
<1>2. ASSUME NEW t \in Threads, Step(t) PROVE ObjectTypes'
    <2>1. ASSUME NEW c \in Commands, Lock(t, c) \/ Push(t, c) PROVE ObjectTypes'
        BY <1>1, <2>1 DEF Lock, Push, traffic
    <2>2. ASSUME NEW o \in Commands \cup Handlers, Whole(t, o) PROVE ObjectTypes'
        BY <2>2 DEF Whole, statics, traffic
    <2>3. ASSUME NEW p \in Proxies, Create(t, p) \/ Test(t, p) \/ Assign(t, p)
          PROVE  ObjectTypes'
        BY <2>3 DEF Create, Test, Assign, Subscribe, Built, statics, traffic
    <2>4. ASSUME NEW c \in Clients, Subscribe(t, c) \/ Built(t, c) PROVE ObjectTypes'
        BY <2>4 DEF Subscribe, Built, statics
    <2> QED BY <1>2, <2>1, <2>2, <2>3, <2>4 DEF Step
<1>3. CASE Main
    <2>1. ASSUME NEW u \in Handlers, Publish(u) PROVE ObjectTypes'
        BY <2>1 DEF Publish, statics, traffic
    <2>2. ASSUME NEW s \in Services, Enter(s) \/ Leave(s) PROVE ObjectTypes'
        BY <2>2 DEF Enter, Leave, traffic
    <2>3. CASE InitNetwork \/ StartRx
        BY <2>3 DEF InitNetwork, StartRx, traffic
    <2> QED BY <1>2, <1>3, <2>1, <2>2, <2>3 DEF Main, Threads
<1>4. CASE Con
    BY <1>1, <1>2, <1>4 DEF Con, List, JoinNetwork, Apply, Return, Use, Threads, traffic
<1>5. CASE User
    BY <1>1, <1>5 DEF User, Attach, EnterUnknown, EnterCommand, Escape, Type, Pass, traffic
<1>6. CASE Rx \/ Talk \/ Broadcast \/ \E u \in Handlers : Visit(u)
    BY <1>1, <1>2, <1>6 DEF Rx, Write, Talk, Broadcast, Visit, Threads
<1>7. CASE Restart
    BY <1>7 DEF Restart
<1>8. CASE UNCHANGED vars
    BY <1>1, <1>8 DEF vars, traffic
<1> QED BY <1>2, <1>3, <1>4, <1>5, <1>6, <1>7, <1>8 DEF Next, Threads

\* Only app_main and the console register commands.
LEMMA WhoLocks ==
    ASSUME Inv, NEW t \in Threads, NEW c, Now(t, "lock", c)
    PROVE  t \in {"main", "con"}
<1>1. Do("lock", c) \in Left(t)
    <2>1. todo[t] \in Seq(Ops) /\ todo[t] # <<>> /\ Head(todo[t]) = Do("lock", c)
        BY DEF Inv, Programs, Now
    <2>2. 1 \in DOMAIN todo[t] /\ todo[t][1] = Do("lock", c)
        BY <2>1
    <2> QED BY <2>2, Elem DEF Left
<1>2. CASE t \in {"rx", "httpd"}
    <2>1. Do("lock", c) \in Left("rx") \cup Left("httpd")
        BY <1>1, <1>2
    <2>2. Do("lock", c).op \in Tools
        BY <2>1 DEF Inv, Programs
    <2> QED BY <2>2 DEF Tools, Do
<1> QED BY <1>2 DEF Threads

LEMMA SwitchesKept ==
    ASSUME Inv, SwitchTypes, [Next]_vars
    PROVE  SwitchTypes'
<1>1. mutex' \in {"free", "main", "con"}
    <2>1. CASE UNCHANGED mutex
        BY <2>1 DEF SwitchTypes
    <2>2. ASSUME NEW t \in Threads, Step(t) PROVE mutex' \in {"free", "main", "con"}
        <3>1. ASSUME NEW c \in Commands, Lock(t, c) PROVE mutex' \in {"free", "main", "con"}
            BY <3>1, WhoLocks DEF Lock
        <3> QED
            BY <2>1, <2>2, <3>1 DEF Step, Push, Whole, Create, Test, Assign, Subscribe, Built, console
    <2> QED
        BY <2>1, <2>2 DEF Next, Main, Con, Rx, User, Publish, Enter, Leave, InitNetwork, StartRx,
           List, JoinNetwork, Apply, Return, Use, Attach, EnterUnknown, EnterCommand, Escape, Type,
           Pass, Talk, Write, Broadcast, Visit, Restart, console, vars, Threads
<1>2. wifi' \in BOOLEAN
    <2>1. wifi' = wifi \/ wifi' = TRUE \/ wifi' = FALSE
        BY DEF Next, Step, Main, Con, Rx, User, Lock, Push, Whole, Create, Test, Assign, Subscribe, Built, Publish,
           Enter, Leave, InitNetwork, StartRx, List, JoinNetwork, Apply, Return, Use, Attach,
           EnterUnknown, EnterCommand, Escape, Type, Pass, Talk, Write, Broadcast, Visit, Restart, statics, vars
    <2> QED BY <2>1, Zenon DEF SwitchTypes
<1>3. line' \in Commands \cup {"ctrl+B", "empty", "garbage"}
    <2>1. CASE UNCHANGED line \/ line' = "empty"
        BY <2>1 DEF SwitchTypes
    <2>2. ASSUME NEW k \in Keys, Type(k) PROVE line' \in Commands \cup {"ctrl+B", "empty", "garbage"}
        BY <2>2 DEF Type, Keys
    <2> QED
        BY <2>1, <2>2 DEF Next, Step, Main, Con, Rx, User, Lock, Push, Whole, Create, Test, Assign,
           Subscribe, Built, Publish, Enter, Leave, InitNetwork, StartRx, List, JoinNetwork, Apply, Return, Use, Attach,
           EnterUnknown, EnterCommand, Escape, Pass, Talk, Write, Broadcast, Visit, Restart, user, vars
<1>4. down' \in BOOLEAN
    <2>1. down' = down \/ down' = TRUE \/ down' = FALSE
        BY DEF Next, Step, Main, Con, Rx, User, Lock, Push, Whole, Create, Test, Assign, Subscribe, Built, Publish,
           Enter, Leave, InitNetwork, StartRx, List, JoinNetwork, Apply, Return, Use, Attach,
           EnterUnknown, EnterCommand, Escape, Type, Pass, Talk, Write, Broadcast, Visit, Restart, Abort, vars
    <2> QED BY <2>1, Zenon DEF SwitchTypes
<1>5. pending' \in BOOLEAN
    <2>1. pending' = pending \/ pending' = TRUE \/ pending' = FALSE
        BY DEF Next, Step, Main, Con, Rx, User, Lock, Push, Whole, Create, Test, Assign,
           Subscribe, Built, Publish, Enter, Leave, InitNetwork, StartRx, List, JoinNetwork,
           Apply, Return, Use, Attach, EnterUnknown, EnterCommand, Escape, Type, Pass, Talk,
           Write, Broadcast, Visit, Restart, traffic, vars
    <2> QED BY <2>1, Zenon DEF SwitchTypes
<1> QED BY <1>1, <1>2, <1>3, <1>4, <1>5 DEF SwitchTypes

LEMMA CountsKept ==
    ASSUME CountTypes, [Next]_vars
    PROVE  CountTypes'
<1>1. \/ keys' = keys
      \/ \E n \in {1, 2} : keys + n <= MaxKeys /\ keys' = keys + n
    BY DEF Next, Step, Main, Con, Rx, User, Lock, Push, Whole, Create, Test, Assign, Subscribe, Built, Publish,
       Enter, Leave, InitNetwork, StartRx, List, JoinNetwork, Apply, Return, Use, Attach, EnterUnknown,
       EnterCommand, Escape, Type, Pass, Talk, Write, Broadcast, Visit, Restart, Read, user, vars
<1>2. \/ UNCHANGED <<talks, visits>>
      \/ talks < MaxTalks /\ talks' = talks + 1 /\ visits' = visits
      \/ visits < MaxVisits /\ visits' = visits + 1 /\ talks' = talks
    BY DEF Next, Step, Main, Con, Rx, User, Lock, Push, Whole, Create, Test, Assign, Subscribe, Built, Publish,
       Enter, Leave, InitNetwork, StartRx, List, JoinNetwork, Apply, Return, Use, Attach, EnterUnknown,
       EnterCommand, Escape, Type, Pass, Talk, Write, Broadcast, Visit, Restart, traffic, vars
<1> QED BY <1>1, <1>2, BootAssumption DEF CountTypes, traffic

\* No variable leaves its type: only app_main and the console ever hold the
\* mutex, and nothing is registered that is not a command or a handler.
THEOREM TypeCorrect == Spec => []TypeOK
<1> DEFINE Typed == ObjectTypes /\ SwitchTypes /\ CountTypes
<1>1. Init => Typed
    <2> SUFFICES ASSUME Init PROVE Typed
        OBVIOUS
    <2>1. CountTypes
        BY BootAssumption DEF Init, CountTypes
    <2> QED BY <2>1, StartedTypes DEF Init
<1>2. Inv /\ Typed /\ [Next]_vars => Typed'
    BY ObjectsKept, SwitchesKept, CountsKept
<1>3. Inv /\ Typed => TypeOK
    <2> SUFFICES ASSUME Inv, Typed PROVE TypeOK
        OBVIOUS
    <2>1. ASSUME NEW t \in Threads, NEW i \in 1..Len(todo[t])
          PROVE  todo[t][i].of \in Commands \cup Handlers \cup Services \cup Proxies \cup Clients \cup {"rx"}
        <3>1. todo[t][i] \in Ops
            BY DEF Inv, Programs
        <3> QED BY <3>1 DEF Ops, Subjects
    <2> QED BY <2>1 DEF Inv, ListOwner, ConsoleMode, Registered, ObjectTypes, SwitchTypes,
               CountTypes, TypeOK
<1> HIDE DEF Typed
<1> QED BY <1>1, <1>2, <1>3, BootInvariant, PTL DEF Spec
=============================================================================
