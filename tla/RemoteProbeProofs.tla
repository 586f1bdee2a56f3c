--------------------------- MODULE RemoteProbeProofs ---------------------------
(***************************************************************************)
(* That an answer of success to the remote probe is true, for any memory,  *)
(* page size, block lengths, disturbances and losses of power.             *)
(*                                                                         *)
(* A memory access is a sequence of transfers: four that select the bank,  *)
(* set the address to count along and give it, one for each word, and a    *)
(* read that shows whether all went well.  Done says how many of them have *)
(* been done.  The target's registers follow it as long as the target has  *)
(* power and no error sticks (Selected, under Good), which the host does   *)
(* not know until the last transfer is acknowledged.  Reads are pipelined: *)
(* a word waits in the target (Fetched) until the next read returns it     *)
(* (Handed).  A word written is in the memory (Stored), unless the write   *)
(* was lost; then an error sticks, and the last transfer is refused        *)
(* (Clean).  A request of AP data skips the first four, and is told by     *)
(* Known if they would have changed nothing.  read_ap is short and goes by *)
(* the address it finds (ApRead).                                          *)
(*                                                                         *)
(* That the address counts along within a page only is arithmetic modulo   *)
(* the page size, which the solver does not do for a divisor it does not   *)
(* know: Remainder, Offset and NextWord do it.                             *)
(***************************************************************************)
EXTENDS RemoteProbe, SequenceTheorems, TLAPS

-----------------------------------------------------------------------------
(* What a memory access consists of *)

Multiple == {"read_ap_multiple", "write_ap_multiple"}
MemoryReads == {"read_mem", "read_block32", "read_ap_multiple"}
MemoryWrites == {"write_mem", "write_block32", "write_ap_multiple"}
Memory == MemoryReads \cup MemoryWrites

\* The words it is about, and the access to each.
Count(r) ==
    CASE r.cmd \in {"read_block32", "read_ap_multiple"} -> r.n
      [] r.cmd \in {"write_block32", "write_ap_multiple"} -> Len(r.data)
      [] OTHER -> 1

Access(r, i) == IF r.cmd \in MemoryReads THEN Read("DRW") ELSE Write("DRW", r.data[i])

\* The read behind the last of them.
Final(r) == IF r.cmd = "read_mem" THEN Read("DRW") ELSE Read("RDBUFF")

\* The four transfers of the setup are skipped by a request of AP data.
Skipped(r) == IF r.cmd \in Multiple THEN 4 ELSE 0

\* The reads whose results are of no use: the first access's, the setup's.
Useless(r) == IF r.cmd \in Multiple THEN 1 ELSE 2

\* The first word's address; whether it is known that the AP is at it; and
\* whether the words lie one behind the other.
Start == IF req.cmd \in Multiple THEN from.addr ELSE req.addr
Known == req.cmd \in Multiple => from.aimed
InLine == Known /\ InOnePage(Start, Count(req))

Registers == {"ABORT", "SELECT", "CSW", "CTRL_STAT", "RDBUFF", "TAR", "DRW"}
Steps ==
    {t \in [rnw : BOOLEAN, reg : Registers, val : Nat] :
        /\ t.reg = "DRW" => t.val \in Data
        /\ t.reg = "SELECT" => t.val \in 0..1
        /\ t.reg = "TAR" => t.val \in Words}

-----------------------------------------------------------------------------
(* The invariant *)

Types ==
    /\ mem \in [Words -> Data]
    /\ buf \in Data
    /\ bank \in 0..1
    /\ tar \in 0..(LastWord + 1)
    /\ todo \in Seq(Steps)
    /\ got \in Seq(Data)
    /\ req \in Requests \cup {NoRequest}
    /\ from.addr \in 0..(LastWord + 1)
    /\ server = "exec" => answer = NoAnswerYet

\* A memory access of whose transfers none has failed.
Going == server = "exec" /\ req.cmd \in Memory /\ ack = "Ok"

\* Its transfers that are done, or skipped; four of them set the address.
Done == Count(req) + 5 - Len(todo)

\* The target has done all of them: it has had power, and lost no data.
Good == linked /\ ~sticky

\* What is left is the rest of the transfers.
OnTheWay ==
    Going => /\ Len(todo) <= Count(req) + 5 - Skipped(req)
             /\ \A i \in 1..Len(todo) : todo[i] = Transfers(req)[(Done - Skipped(req)) + i]

\* A transfer that fails ends it.
Stopped == server = "exec" /\ req.cmd \in Memory /\ ack # "Ok" => todo = <<>>

\* The target's registers follow the transfers.
Selected ==
    Going /\ Good =>
        /\ Known /\ Done >= 1 => bank = 0
        /\ Known /\ Done >= 2 => inc
        /\ InLine /\ Done >= 4 /\ Done < Count(req) + 4 => tar = Start + (Done - 4)
        /\ req.cmd = "read_mem" /\ Done = 5 /\ req.addr # LastWord => tar \in Words

\* The result of the last read waits in the target.
Fetched ==
    Going /\ Good /\ req.cmd \in MemoryReads /\ InLine
        /\ Done >= 5 /\ Done <= Count(req) + 4
    => buf = mem[Start + (Done - 5)]

\* The words before it have been handed over, behind what the useless reads
\* returned.
Handed ==
    Going /\ req.cmd \in MemoryReads =>
        /\ Len(got) = IF Done < 3 THEN 0 ELSE IF Done = 3 THEN 1 ELSE Done - 5 + Useless(req)
        /\ InLine => \A j \in 1..(Done - 5) : got[j + Useless(req)] = mem[Start + (j - 1)]

\* The words that have been written are in the memory; the last read shows that
\* none was lost.
Stored ==
    (/\ Going /\ req.cmd \in MemoryWrites /\ InLine
     /\ Good \/ todo = <<>>)
    => \A j \in 1..Count(req) : j <= Done - 4 => mem[Start + (j - 1)] = req.data[j]

\* The last read is refused if an error sticks.
Clean ==
    Going /\ todo = <<>> /\ ~(req.cmd = "read_mem" /\ req.addr = LastWord) => ~sticky

\* read_ap goes by the address and the bank that it finds; its first read
\* returns what the access before it fetched.
ApRead ==
    server = "exec" /\ req.cmd = "read_ap" =>
        /\ todo \in {<<Read("DRW"), Read("DRW")>>, <<Read("DRW")>>, <<>>}
        /\ linked /\ Len(todo) = 2 /\ from.aimed => tar = from.addr /\ bank = 0
        /\ driven /\ Good /\ Len(todo) = 1 /\ from.aimed => buf = mem[from.addr]
        /\ todo = <<>> /\ ack = "Ok" /\ from.aimed =>
              got # <<>> /\ got[Len(got)] = mem[from.addr]

Inv ==
    /\ Types
    /\ OnTheWay /\ Stopped /\ Selected /\ Fetched /\ Handed /\ Stored /\ Clean
    /\ ApRead
    /\ ReadsAreTrue /\ WritesHappened /\ OkLeavesClean

-----------------------------------------------------------------------------
(* Pages *)

\* A remainder is determined by the number.
LEMMA Remainder ==
    ASSUME NEW p \in Nat \ {0}, NEW q \in Int, NEW k \in Int,
           NEW r \in 0..(p - 1), NEW s \in 0..(p - 1), p * q + r = p * k + s
    PROVE  r = s
<1>1. CASE q = k
    BY <1>1
<1>2. ASSUME NEW x \in Int, NEW y \in Int, x < y PROVE p * y >= p * x + p
    <2>1. y - x >= 1
        BY <1>2
    <2>2. p * (y - x) = p * y - p * x
        BY SMT
    <2>3. p * (y - x) >= p
        BY <2>1
    <2>4. p * x \in Int /\ p * y \in Int
        BY SMT
    <2> QED BY <2>2, <2>3, <2>4
<1>3. p * q \in Int /\ p * k \in Int
    BY SMT
<1>4. CASE q < k
    BY <1>2, <1>3, <1>4
<1>5. CASE k < q
    BY <1>2, <1>3, <1>5
<1> QED BY <1>1, <1>4, <1>5

\* Within a page the offset counts along.
LEMMA Offset ==
    ASSUME NEW a \in Nat, NEW i \in Nat, (a % PageSize) + i < PageSize
    PROVE  (a + i) % PageSize = (a % PageSize) + i
<1> DEFINE p == PageSize
           q == a \div p
           k == (a + i) \div p
           r == a % p
           s == (a + i) % p
<1>0. p \in Nat \ {0}
    BY SwdAssumption
<1>1. /\ r \in 0..(p - 1) /\ s \in 0..(p - 1)
      /\ q \in Int /\ k \in Int /\ p * q + r = a /\ p * k + s = a + i
    <2>1. \A P \in Nat \ {0}, n \in Nat :
              /\ n % P \in 0..(P - 1) /\ n \div P \in Int
              /\ P * (n \div P) + (n % P) = n
        BY SMT
    <2>2. a + i \in Nat
        OBVIOUS
    <2> QED BY <1>0, <2>1, <2>2
<1>2. r + i < p
    OBVIOUS
<1>3. p * q \in Int /\ p * k \in Int
    BY <1>0, <1>1
<1> HIDE DEF p, q, k, r, s
<1>4. p * q + (r + i) = p * k + s /\ r + i \in 0..(p - 1)
    BY <1>0, <1>1, <1>2, <1>3
<1>5. r + i = s
    BY <1>0, <1>1, <1>4, Remainder
<1> QED BY <1>5 DEF r, s, p

\* One word is always in one page, and what follows a word that is not the
\* last, in its page or at the page's beginning, is a word.
LEMMA OneWord ==
    ASSUME NEW a \in Nat
    PROVE  InOnePage(a, 1)
<1>1. a \in Nat /\ PageSize \in Nat \ {0}
    BY SwdAssumption DEF Words
<1>2. a % PageSize \in 0..(PageSize - 1)
    BY <1>1
<1> QED BY <1>1, <1>2 DEF InOnePage

LEMMA NextWord ==
    ASSUME tar \in Words, tar # LastWord
    PROVE  NextAddress \in Words
<1>1. tar \in Nat /\ LastWord \in Nat /\ PageSize \in Nat \ {0} /\ tar + 1 <= LastWord
    BY SwdAssumption DEF Words
<1>2. \A p \in Nat \ {0}, n \in Nat \ {0} : n % p = 0 => n >= p
    BY SMT
<1>3. (tar + 1) % PageSize = 0 => tar + 1 >= PageSize
    BY <1>1, <1>2
<1> QED BY <1>1, <1>3 DEF NextAddress, Words

-----------------------------------------------------------------------------
(* The transfers of a request *)

LEMMA Behind ==
    ASSUME NEW S, NEW s \in Seq(S), NEW t \in Seq(S)
    PROVE  /\ s \o t \in Seq(S)
           /\ Len(s \o t) = Len(s) + Len(t)
           /\ \A i \in 1..Len(s) : (s \o t)[i] = s[i]
           /\ \A i \in 1..Len(t) : (s \o t)[Len(s) + i] = t[i]
OBVIOUS

LEMMA StepsOf ==
    /\ \A g \in Registers : Read(g) \in Steps
    /\ \A g \in Registers \ {"DRW", "SELECT", "TAR"}, v \in Nat : Write(g, v) \in Steps
    /\ \A v \in Data : Write("DRW", v) \in Steps
    /\ \A v \in 0..1 : Write("SELECT", v) \in Steps
    /\ \A v \in Words : Write("TAR", v) \in Steps
BY SwdAssumption DEF Read, Write, Steps, Registers, Words

LEMMA SetupIs ==
    ASSUME NEW a \in Words
    PROVE  /\ Setup(a) \in Seq(Steps) /\ Len(Setup(a)) = 4
           /\ Setup(a)[1] = Write("SELECT", 0) /\ Setup(a)[2] = Write("CSW", 1)
           /\ Setup(a)[3] = Read("RDBUFF") /\ Setup(a)[4] = Write("TAR", a)
<1> DEFINE b == Write("SELECT", 0)
           c == Write("CSW", 1)
           d == Read("RDBUFF")
           e == Write("TAR", a)
<1>1. {b, c, d, e} \subseteq Steps
    BY StepsOf, SwdAssumption DEF Registers, Words
<1>2. Setup(a) = (<<b>> \o <<c, d>>) \o <<e>>
    BY DEF Setup, WriteDp, WriteAp
<1> HIDE DEF b, c, d, e
<1> DEFINE s == <<b>> \o <<c, d>>
<1>3. s \in Seq(Steps) /\ Len(s) = 3 /\ s[1] = b /\ s[2] = c /\ s[3] = d
    BY <1>1
<1>4. <<e>> \in Seq(Steps) /\ Len(<<e>>) = 1 /\ <<e>>[1] = e
    BY <1>1
<1> HIDE DEF s
<1> DEFINE t == <<e>>
           u == s \o t
<1>5. \A x, y \in Seq(Steps) :
          /\ x \o y \in Seq(Steps) /\ Len(x \o y) = Len(x) + Len(y)
          /\ \A i \in 1..Len(x) : (x \o y)[i] = x[i]
          /\ \A i \in 1..Len(y) : (x \o y)[Len(x) + i] = y[i]
    BY Behind
<1> HIDE DEF t, u
<1>6. /\ u \in Seq(Steps) /\ Len(u) = Len(s) + Len(t)
      /\ \A i \in 1..Len(s) : u[i] = s[i]
      /\ \A i \in 1..Len(t) : u[Len(s) + i] = t[i]
    BY <1>3, <1>4, <1>5, Zenon DEF t, u
<1>7. /\ u \in Seq(Steps) /\ Len(u) = 4
      /\ u[1] = b /\ u[2] = c /\ u[3] = d /\ u[4] = e
    BY <1>3, <1>4, <1>6 DEF t
<1> QED BY <1>2, <1>7 DEF s, t, u, b, c, d, e

\* Two sequences of one element make a pair.
LEMMA Pair ==
    ASSUME NEW S, NEW x \in S, NEW y \in S
    PROVE  <<x>> \o <<y>> = <<x, y>>
<1> DEFINE s == <<x>> \o <<y>>
           t == <<x, y>>
<1>1. s \in Seq(S) /\ Len(s) = 2 /\ s[1] = x /\ s[2] = y
    OBVIOUS
<1>2. t \in Seq(S) /\ Len(t) = 2 /\ t[1] = x /\ t[2] = y
    OBVIOUS
<1> HIDE DEF s, t
<1>3. \A i \in 1..Len(s) : s[i] = t[i]
    BY <1>1, <1>2
<1>4. s = t
    BY <1>1, <1>2, <1>3, SeqEqual
<1> QED BY <1>4 DEF s, t

\* Setup, the accesses, and the final read.
Whole(a, f, t) == Setup(a) \o (f \o <<t>>)

Composes(s, a, n, f, t) ==
    /\ s \in Seq(Steps) /\ Len(s) = n + 5
    /\ s[1] = Write("SELECT", 0) /\ s[2] = Write("CSW", 1)
    /\ s[3] = Read("RDBUFF") /\ s[4] = Write("TAR", a)
    /\ \A i \in 1..n : s[i + 4] = f[i]
    /\ s[n + 5] = t

LEMMA Composed ==
    ASSUME NEW a \in Words, NEW n \in Nat, NEW f \in [1..n -> Steps], NEW t \in Steps
    PROVE  Composes(Whole(a, f, t), a, n, f, t)
<1> DEFINE u == Setup(a)
           v == f \o <<t>>
           s == u \o v
<1>1. /\ u \in Seq(Steps) /\ Len(u) = 4
      /\ u[1] = Write("SELECT", 0) /\ u[2] = Write("CSW", 1)
      /\ u[3] = Read("RDBUFF") /\ u[4] = Write("TAR", a)
    BY SetupIs
<1>2. f \in Seq(Steps) /\ Len(f) = n
    BY SeqDef
<1>3. v \in Seq(Steps) /\ Len(v) = n + 1 /\ v[n + 1] = t /\ \A i \in 1..n : v[i] = f[i]
    BY <1>2
<1> HIDE DEF u, v, s
<1>10. \A x, y \in Seq(Steps) :
           /\ x \o y \in Seq(Steps) /\ Len(x \o y) = Len(x) + Len(y)
           /\ \A i \in 1..Len(x) : (x \o y)[i] = x[i]
           /\ \A i \in 1..Len(y) : (x \o y)[Len(x) + i] = y[i]
    BY Behind
<1>11. /\ s \in Seq(Steps) /\ Len(s) = Len(u) + Len(v)
       /\ \A i \in 1..Len(u) : s[i] = u[i]
       /\ \A i \in 1..Len(v) : s[Len(u) + i] = v[i]
    BY <1>1, <1>3, <1>10, Zenon DEF s
<1>4. /\ s \in Seq(Steps) /\ Len(s) = 4 + (n + 1)
      /\ \A i \in 1..4 : s[i] = u[i]
      /\ \A i \in 1..(n + 1) : s[4 + i] = v[i]
    BY <1>1, <1>3, <1>11
<1>5. /\ \A i \in 1..(n + 1) : s[i + 4] = v[i]
      /\ Len(s) = n + 5
    <2>1. 4 + (n + 1) = n + 5 /\ \A i \in 1..(n + 1) : 4 + i = i + 4
        OBVIOUS
    <2> QED BY <1>4, <2>1
<1>6. n + 1 \in 1..(n + 1) /\ (n + 1) + 4 = n + 5 /\ \A i \in 1..n : i \in 1..(n + 1)
    OBVIOUS
<1>7. s[n + 5] = t /\ \A i \in 1..n : s[i + 4] = f[i]
    BY <1>3, <1>5, <1>6
<1>8. /\ s[1] = Write("SELECT", 0) /\ s[2] = Write("CSW", 1)
      /\ s[3] = Read("RDBUFF") /\ s[4] = Write("TAR", a)
    BY <1>1, <1>4
<1>9. Whole(a, f, t) = s
    BY DEF s, u, v, Whole
<1>12. Composes(s, a, n, f, t)
    BY <1>4, <1>5, <1>7, <1>8 DEF Composes
<1> QED BY <1>9, <1>12, Zenon

\* What a request asks for.
LEMMA RequestIs ==
    ASSUME NEW r \in Requests
    PROVE  /\ r.cmd = "read_mem" => r.addr \in Words
           /\ r.cmd = "write_mem" => r.addr \in Words /\ \E d \in Data : r.data = <<d>>
           /\ r.cmd = "read_block32" => r.addr \in Words /\ r.n \in Blocks
           /\ r.cmd = "write_block32" => r.addr \in Words /\ \E n \in Blocks : r.data \in [1..n -> Data]
           /\ r.cmd = "read_ap_multiple" => r.n \in Blocks
           /\ r.cmd = "write_ap_multiple" => \E n \in Blocks : r.data \in [1..n -> Data]
           /\ r.cmd \in {"read_dp", "write_dp"} => r.addr \in 0..1
           /\ r.cmd = "write_ap" => r.addr \in Words
BY DEF Requests, Request, BlocksOf

LEMMA Shape ==
    ASSUME NEW r \in Requests, r.cmd \in Memory
    PROVE  LET s == Transfers(r)
               n == Count(r) IN
           /\ n \in Nat \ {0}
           /\ s \in Seq(Steps) /\ Len(s) = n + 5 - Skipped(r)
           /\ r.cmd \notin Multiple =>
                 /\ r.addr \in Words
                 /\ s[1] = Write("SELECT", 0) /\ s[2] = Write("CSW", 1)
                 /\ s[3] = Read("RDBUFF") /\ s[4] = Write("TAR", r.addr)
           /\ \A i \in 1..n : s[i + (4 - Skipped(r))] = Access(r, i) /\ Access(r, i) \in Steps
           /\ s[n + (5 - Skipped(r))] = Final(r)
           /\ r.cmd \in MemoryWrites => r.data \in [1..n -> Data]
           /\ r.cmd \in {"read_mem", "write_mem"} => n = 1
<1> DEFINE a == r.addr
           n == Count(r)
           f == [i \in 1..n |-> Access(r, i)]
<1>1. /\ n \in Nat \ {0}
      /\ r.cmd \notin Multiple => a \in Words
      /\ r.cmd \in MemoryWrites => r.data \in [1..n -> Data]
      /\ r.cmd \in {"read_mem", "write_mem"} => n = 1
    <2>1. CASE r.cmd = "read_mem"
        BY <2>1, RequestIs DEF Count, MemoryWrites
    <2>2. CASE r.cmd = "write_mem"
        <3>1. n = 1 /\ a \in Words /\ \E d \in Data : r.data = <<d>>
            BY <2>2, RequestIs DEF Count
        <3> HIDE DEF n
        <3>2. r.data \in [1..n -> Data]
            BY <3>1
        <3> QED BY <3>1, <3>2
    <2>3. CASE r.cmd \in {"read_block32", "read_ap_multiple"}
        BY <2>3, RequestIs, ProbeAssumption DEF Count, Multiple, MemoryWrites
    <2>4. CASE r.cmd \in {"write_block32", "write_ap_multiple"}
        <3>1. PICK k \in Blocks : r.data \in [1..k -> Data]
            BY <2>4, RequestIs
        <3>2. k \in Nat \ {0}
            BY ProbeAssumption
        <3>3. Len(r.data) = k
            BY <3>1, <3>2, SeqDef
        <3> QED BY <2>4, <3>1, <3>2, <3>3, RequestIs DEF Count, Multiple
    <2> QED BY <2>1, <2>2, <2>3, <2>4 DEF Memory, MemoryReads, MemoryWrites
<1>2. \A i \in 1..n : Access(r, i) \in Steps
    <2> SUFFICES ASSUME NEW i \in 1..n PROVE Access(r, i) \in Steps
        OBVIOUS
    <2>1. CASE r.cmd \in MemoryReads
        BY <2>1, StepsOf DEF Access, Registers
    <2>2. CASE r.cmd \notin MemoryReads
        <3>1. r.data[i] \in Data
            BY <1>1, <2>2 DEF Memory, MemoryReads, MemoryWrites
        <3> QED BY <2>2, <3>1, StepsOf DEF Access
    <2> QED BY <2>1, <2>2
<1>3. f \in [1..n -> Steps]
    BY <1>2
<1>4. Final(r) \in Steps
    BY StepsOf DEF Final, Registers
<1>5. Transfers(r) = IF r.cmd \in Multiple THEN f \o <<Final(r)>>
                     ELSE Setup(a) \o (f \o <<Final(r)>>)
    <2>1. CASE r.cmd = "read_mem"
        <3>1. n = 1 /\ Access(r, 1) = Read("DRW") /\ Final(r) = Read("DRW")
            BY <2>1 DEF Count, Access, Final, MemoryReads
        <3>2. f = <<Read("DRW")>>
            BY <3>1
        <3>3. Read("DRW") \in Steps
            BY StepsOf DEF Registers
        <3>4. f \o <<Final(r)>> = <<Read("DRW"), Read("DRW")>>
            BY <3>1, <3>2, <3>3, Pair
        <3> QED BY <2>1, <3>4 DEF Transfers, ReadMemory, Multiple
    <2>2. CASE r.cmd = "write_mem"
        <3>1. n = 1 /\ Access(r, 1) = Write("DRW", r.data[1]) /\ Final(r) = Read("RDBUFF")
            BY <2>2 DEF Count, Access, Final, MemoryReads
        <3>2. f = <<Write("DRW", r.data[1])>>
            BY <3>1
        <3>3. Transfers(r) = Setup(a) \o <<Write("DRW", r.data[1])>> \o <<Read("RDBUFF")>>
            BY <2>2 DEF Transfers, WriteMemory, ReadDp
        <3>4. Setup(a) \in Seq(Steps) /\ f \in Seq(Steps) /\ <<Final(r)>> \in Seq(Steps)
            BY <1>1, <1>3, <1>4, <2>2, SetupIs, SeqDef DEF Multiple
        <3>5. \A x, y, z \in Seq(Steps) : (x \o y) \o z = x \o (y \o z)
            BY ConcatAssociative
        <3>6. (Setup(a) \o f) \o <<Final(r)>> = Setup(a) \o (f \o <<Final(r)>>)
            BY <3>4, <3>5, Zenon
        <3> QED BY <2>2, <3>1, <3>2, <3>3, <3>6 DEF Multiple
    <2>3. CASE r.cmd \in {"read_block32", "read_ap_multiple"}
        <3>1. n = r.n /\ Final(r) = Read("RDBUFF") /\ \A i \in 1..n : Access(r, i) = Read("DRW")
            BY <2>3 DEF Count, Access, Final, MemoryReads
        <3>2. f = [i \in 1..n |-> Read("DRW")]
            BY <3>1
        <3>3. f \o <<Final(r)>> = ReadApMultiple(r.n)
            BY <3>1, <3>2 DEF ReadApMultiple, ReadDp
        <3> QED BY <2>3, <3>3 DEF Transfers, ReadMemoryBlock32, Multiple
    <2>4. CASE r.cmd \in {"write_block32", "write_ap_multiple"}
        <3>1. Final(r) = Read("RDBUFF") /\ \A i \in 1..n : Access(r, i) = Write("DRW", r.data[i])
            BY <2>4 DEF Access, Final, MemoryReads
        <3>2. f = [i \in DOMAIN r.data |-> Write("DRW", r.data[i])]
            BY <1>1, <2>4, <3>1 DEF MemoryWrites
        <3>3. f \o <<Final(r)>> = WriteApMultiple(r.data)
            BY <3>1, <3>2 DEF WriteApMultiple, ReadDp
        <3> QED BY <2>4, <3>3 DEF Transfers, WriteMemoryBlock32, Multiple
    <2> QED BY <2>1, <2>2, <2>3, <2>4 DEF Memory, MemoryReads, MemoryWrites
<1>6. \A i \in 1..n : f[i] = Access(r, i)
    OBVIOUS
<1>8. n \in Nat
    BY <1>1
<1> HIDE DEF a, f, n
<1> DEFINE s == Transfers(r)
<1>7. CASE r.cmd \notin Multiple
    <2>1. a \in Words /\ n \in Nat /\ f \in [1..n -> Steps] /\ Final(r) \in Steps
        BY <1>1, <1>3, <1>4, <1>7, <1>8
    <2>2. Composes(Whole(a, f, Final(r)), a, n, f, Final(r))
        BY <2>1, Composed, Zenon
    <2>3. s = Whole(a, f, Final(r))
        BY <1>5, <1>7 DEF Whole
    <2>4. Composes(s, a, n, f, Final(r))
        BY <2>2, <2>3, Zenon
    <2>5. /\ s \in Seq(Steps) /\ Len(s) = n + 5
          /\ s[1] = Write("SELECT", 0) /\ s[2] = Write("CSW", 1)
          /\ s[3] = Read("RDBUFF") /\ s[4] = Write("TAR", a)
          /\ \A i \in 1..n : s[i + 4] = f[i]
          /\ s[n + 5] = Final(r)
        BY <2>4, Zenon DEF Composes
    <2>6. Skipped(r) = 0 /\ n + 5 - 0 = n + 5 /\ 4 - 0 = 4 /\ 5 - 0 = 5
        BY <1>7, <1>8 DEF Skipped
    <2> HIDE DEF s
    <2>7. Len(s) = n + 5 - Skipped(r) /\ s[n + (5 - Skipped(r))] = Final(r)
        BY <2>5, <2>6
    <2>8. \A i \in 1..n : s[i + (4 - Skipped(r))] = Access(r, i)
        BY <1>6, <2>5, <2>6
    <2> QED BY <1>1, <1>2, <1>7, <2>5, <2>7, <2>8 DEF a, n, s
<1>9. CASE r.cmd \in Multiple
    <2>1. s = f \o <<Final(r)>>
        BY <1>5, <1>9
    <2>2. f \in Seq(Steps) /\ Len(f) = n /\ <<Final(r)>> \in Seq(Steps)
        BY <1>3, <1>4, <1>8, SeqDef
    <2> HIDE DEF s
    <2>3. /\ s \in Seq(Steps) /\ Len(s) = n + 1
          /\ s[n + 1] = Final(r) /\ \A i \in 1..n : s[i] = f[i]
        BY <1>4, <1>8, <2>1, <2>2
    <2>4. Skipped(r) = 4 /\ n + 5 - 4 = n + 1 /\ 5 - 4 = 1 /\ \A i \in 1..n : i + (4 - 4) = i
        BY <1>8, <1>9 DEF Skipped
    <2>5. Len(s) = n + 5 - Skipped(r) /\ s[n + (5 - Skipped(r))] = Final(r)
        BY <2>3, <2>4
    <2>6. \A i \in 1..n : s[i + (4 - Skipped(r))] = Access(r, i)
        BY <1>6, <2>3, <2>4
    <2>7. r.cmd \notin {"read_mem", "write_mem"}
        BY <1>9 DEF Multiple
    <2> QED BY <1>1, <1>2, <1>9, <2>3, <2>5, <2>6, <2>7 DEF a, n, s
<1> QED BY <1>7, <1>9

LEMMA TransfersType ==
    ASSUME NEW r \in Requests
    PROVE  Transfers(r) \in Seq(Steps)
<1> DEFINE c == r.cmd
<1>1. CASE c \in Memory
    BY <1>1, Shape
<1>2. CASE c = "connect"
    BY <1>2, StepsOf DEF Transfers, CleareErrors, Registers
<1>3. CASE c \in {"read_dp", "write_dp"}
    BY <1>3, StepsOf, RequestIs DEF Transfers, ReadDp, WriteDp, Registers
<1>4. CASE c = "write_ap"
    <2>1. r.addr \in Words
        BY <1>4, RequestIs
    <2>2. Write("TAR", r.addr) \in Steps /\ Read("RDBUFF") \in Steps
        BY <2>1, StepsOf DEF Registers
    <2> QED BY <1>4, <2>2 DEF Transfers, WriteAp
<1>5. CASE c = "read_ap"
    <2>1. Read("DRW") \in Steps
        BY StepsOf DEF Registers
    <2> QED BY <1>5, <2>1 DEF Transfers, ReadAp
<1>6. CASE c \notin Memory \cup {"connect", "read_dp", "write_dp", "write_ap", "read_ap"}
    <2>1. Transfers(r) = <<>>
        BY <1>6 DEF Transfers, Memory, MemoryReads, MemoryWrites
    <2> QED BY <2>1
<1> QED BY <1>1, <1>2, <1>3, <1>4, <1>5, <1>6

-----------------------------------------------------------------------------
(* The next transfer of a memory access *)

\* Which transfer it is, by how many are done.
LEMMA Upcoming ==
    ASSUME Types, OnTheWay, Going, todo # <<>>
    PROVE  /\ req \in Requests
           /\ Count(req) \in Nat \ {0} /\ Start \in Nat
           /\ Done \in 0..(Count(req) + 4)
           /\ Done < 4 => req.cmd \notin Multiple /\ Known
           /\ req.cmd \notin Multiple => Start = req.addr /\ req.addr \in Words
           /\ Head(todo) \in Steps
           /\ Done = 0 => Head(todo) = Write("SELECT", 0)
           /\ Done = 1 => Head(todo) = Write("CSW", 1)
           /\ Done = 2 => Head(todo) = Read("RDBUFF")
           /\ Done = 3 => Head(todo) = Write("TAR", req.addr)
           /\ Done >= 4 /\ Done < Count(req) + 4 => Head(todo) = Access(req, Done - 3)
           /\ Done = Count(req) + 4 => Head(todo) = Final(req)
<1> DEFINE n == Count(req)
           k == Done
           T == Transfers(req)
           q == Skipped(req)
<1>1. req \in Requests
    BY DEF Types, Going, Memory, MemoryReads, MemoryWrites, NoRequest, Request
<1>2. /\ n \in Nat \ {0}
      /\ req.cmd \notin Multiple =>
            /\ req.addr \in Words
            /\ T[1] = Write("SELECT", 0) /\ T[2] = Write("CSW", 1)
            /\ T[3] = Read("RDBUFF") /\ T[4] = Write("TAR", req.addr)
      /\ \A i \in 1..n : T[i + (4 - q)] = Access(req, i)
      /\ T[n + (5 - q)] = Final(req)
    BY <1>1, Shape DEF Going
<1>3. q \in {0, 4} /\ (q = 0 <=> req.cmd \notin Multiple)
    BY DEF Skipped
<1>4. /\ Len(todo) \in Nat \ {0} /\ Head(todo) = todo[1] /\ Head(todo) \in Steps
      /\ Len(todo) <= n + 5 - q /\ k = n + 5 - Len(todo)
    BY DEF Types, OnTheWay, Done
<1>5. Head(todo) = T[(k - q) + 1]
    <2>1. 1 \in 1..Len(todo)
        BY <1>4
    <2>2. todo[1] = T[(Done - Skipped(req)) + 1]
        BY <2>1 DEF OnTheWay
    <2> QED BY <1>4, <2>2
<1>6. Start \in Nat /\ (req.cmd \notin Multiple => Start = req.addr)
    <2>1. LastWord \in Nat
        BY SwdAssumption
    <2> QED BY <1>2, <2>1 DEF Start, Types, Words
<1> HIDE DEF n, k, T, q
<1>7. k \in q..(n + 4) /\ k \in 0..(n + 4) /\ (k < 4 => q = 0)
    BY <1>2, <1>3, <1>4
<1>8. k >= 4 /\ k < n + 4 => T[(k - q) + 1] = Access(req, k - 3)
    <2> SUFFICES ASSUME k >= 4, k < n + 4 PROVE T[(k - q) + 1] = Access(req, k - 3)
        OBVIOUS
    <2>1. k - 3 \in 1..n /\ (k - 3) + (4 - q) = (k - q) + 1
        BY <1>2, <1>3, <1>7
    <2> QED BY <1>2, <2>1
<1>9. k < 4 => /\ (k - q) + 1 = k + 1
               /\ k = 0 => T[k + 1] = Write("SELECT", 0)
               /\ k = 1 => T[k + 1] = Write("CSW", 1)
               /\ k = 2 => T[k + 1] = Read("RDBUFF")
               /\ k = 3 => T[k + 1] = Write("TAR", req.addr)
    <2>1. 0 + 1 = 1 /\ 1 + 1 = 2 /\ 2 + 1 = 3 /\ 3 + 1 = 4
        OBVIOUS
    <2>2. k < 4 => (k - q) + 1 = k + 1
        BY <1>7
    <2> QED BY <1>2, <1>3, <1>7, <2>1, <2>2
<1>10. k = n + 4 => T[(k - q) + 1] = Final(req)
    <2>1. ((n + 4) - q) + 1 = n + (5 - q)
        BY <1>2, <1>3
    <2> QED BY <1>2, <2>1
<1>11. k < 4 => req.cmd \notin Multiple /\ Known
    BY <1>3, <1>7 DEF Known
<1>12. /\ k = 0 => Head(todo) = Write("SELECT", 0)
       /\ k = 1 => Head(todo) = Write("CSW", 1)
       /\ k = 2 => Head(todo) = Read("RDBUFF")
       /\ k = 3 => Head(todo) = Write("TAR", req.addr)
    BY <1>5, <1>9
<1> QED BY <1>1, <1>2, <1>4, <1>5, <1>6, <1>7, <1>8, <1>10, <1>11, <1>12 DEF n, k

\* It is done.
LEMMA Advanced ==
    ASSUME Types, OnTheWay, Going, todo # <<>>,
           todo' = Tail(todo), server' = server, req' = req
    PROVE  /\ OnTheWay'
           /\ Done' = Done + 1
           /\ Done' \in Nat
           /\ todo' \in Seq(Steps)
           /\ todo' = <<>> <=> Done = Count(req) + 4
<1> DEFINE n == Count(req)
           k == Done
           T == Transfers(req)
           q == Skipped(req)
<1>1. n \in Nat \ {0} /\ k \in 0..(n + 4)
    BY Upcoming
<1>2. /\ Len(todo) \in Nat \ {0} /\ todo' \in Seq(Steps) /\ Len(todo') = Len(todo) - 1
      /\ \A i \in 1..Len(todo') : todo'[i] = todo[i + 1]
    BY DEF Types
<1>3. /\ Len(todo) <= n + 5 - q /\ k = n + 5 - Len(todo) /\ q \in Nat
      /\ \A i \in 1..Len(todo) : todo[i] = T[(k - q) + i]
    BY DEF OnTheWay, Done, Skipped
<1>4. Done' = n + 5 - Len(todo')
    BY DEF Done
<1>5. (todo' = <<>>) <=> (Len(todo') = 0)
    <2>1. \A s \in Seq(Steps) : (s = <<>>) <=> (Len(s) = 0)
        OBVIOUS
    <2> QED BY <1>2, <2>1, Zenon
<1> HIDE DEF n, k, T, q
<1>6. Done' = k + 1 /\ Done' \in Nat /\ Len(todo') <= n + 5 - q
    BY <1>1, <1>2, <1>3, <1>4
<1>7. \A i \in 1..Len(todo') : todo'[i] = T[(Done' - q) + i]
    <2> SUFFICES ASSUME NEW i \in 1..Len(todo') PROVE todo'[i] = T[(Done' - q) + i]
        OBVIOUS
    <2>1. i + 1 \in 1..Len(todo) /\ (k - q) + (i + 1) = (Done' - q) + i
        BY <1>1, <1>2, <1>3, <1>6
    <2>2. todo[i + 1] = T[(k - q) + (i + 1)]
        BY <1>3, <2>1
    <2> QED BY <1>2, <2>1, <2>2
<1>8. OnTheWay'
    <2>1. Count(req') = n /\ Transfers(req') = T /\ Skipped(req') = q
        BY DEF n, T, q
    <2> QED BY <1>6, <1>7, <2>1 DEF OnTheWay
<1>9. (Len(todo') = 0) <=> (k = n + 4)
    BY <1>1, <1>2, <1>3
<1> QED BY <1>2, <1>5, <1>6, <1>8, <1>9 DEF n, k

LEMMA Sizes ==
    /\ LastWord \in Nat /\ MaxNoise \in Nat /\ MaxPowerLosses \in Nat
    /\ 0 \in 0..1 /\ 0 \in 0..(LastWord + 1) /\ 0 \in 0..MaxNoise /\ 0 \in 0..MaxPowerLosses
    /\ Words \subseteq 0..(LastWord + 1)
BY SwdAssumption DEF Words

\* The address that a word's access leaves stays in the memory or just behind it.
LEMMA AddressKept ==
    ASSUME tar \in 0..(LastWord + 1), bank \in 0..1, NEW t \in Steps, Perform(t)
    PROVE  tar' \in 0..(LastWord + 1) /\ bank' \in 0..1
<1>1. CASE t.reg = "DRW" /\ bank = 0
    <2>1. bank' = bank /\ tar' = IF inc /\ tar \in Words THEN NextAddress ELSE tar
        BY <1>1 DEF Perform, AccessMemory
    <2>2. ASSUME tar \in Words PROVE NextAddress \in 0..(LastWord + 1)
        <3>1. CASE tar # LastWord
            BY <2>2, <3>1, NextWord, Sizes
        <3>2. CASE tar = LastWord
            <4>1. /\ tar + 1 = LastWord + 1 /\ tar + 1 \in Nat \ {0}
                  /\ PageSize \in Nat \ {0}
                BY <3>2, SwdAssumption
            <4>2. \A p \in Nat \ {0}, n \in Nat \ {0} : n % p = 0 => n >= p
                BY SMT
            <4>3. (tar + 1) % PageSize = 0 => tar + 1 >= PageSize
                BY <4>1, <4>2
            <4> QED BY <3>2, <4>1, <4>3, Sizes DEF NextAddress
        <3> QED BY <3>1, <3>2
    <2> QED BY <2>1, <2>2
<1>2. CASE ~(t.reg = "DRW" /\ bank = 0)
    <2>1. /\ bank' = IF t.reg = "SELECT" THEN t.val ELSE bank
          /\ tar' = IF t.reg = "TAR" /\ bank = 0 THEN t.val ELSE tar
        BY <1>2 DEF Perform, AccessRegister
    <2>2. /\ t.reg = "SELECT" => t.val \in 0..1
          /\ t.reg = "TAR" => t.val \in Words
        BY DEF Steps
    <2> QED BY <2>1, <2>2, Sizes
<1> QED BY <1>1, <1>2

\* What an accepted transfer leaves of the types.
LEMMA PerformType ==
    ASSUME mem \in [Words -> Data], buf \in Data, NEW t \in Steps, Perform(t)
    PROVE  mem' \in [Words -> Data] /\ buf' \in Data
<1>1. CASE t.reg = "DRW" /\ bank = 0
    <2>1. t.val \in Data
        BY <1>1 DEF Steps
    <2>2. /\ mem' = IF tar \in Words /\ ~t.rnw THEN [mem EXCEPT ![tar] = t.val] ELSE mem
          /\ buf' = IF tar \in Words /\ t.rnw THEN mem[tar] ELSE buf
        BY <1>1 DEF Perform, AccessMemory
    <2> QED BY <2>1, <2>2
<1>2. CASE ~(t.reg = "DRW" /\ bank = 0)
    BY <1>2 DEF Perform, AccessRegister
<1> QED BY <1>1, <1>2

\* A transfer that is accepted, other than one of ABORT, finds the link up and
\* no error.
LEMMA Accepted ==
    ASSUME NEW t, t.reg \in {"SELECT", "CSW", "RDBUFF", "TAR", "DRW"}, TransferOk(t)
    PROVE  Good /\ linked' = linked /\ Perform(t)
BY DEF TransferOk, Heard, Refused, Good, Perform, AccessMemory, AccessRegister

\* A transfer is acknowledged.
Acknowledged ==
    /\ todo # <<>>
    /\ TransferOk(Head(todo))
    /\ Outcome("Ok")

LEMMA OutcomeIs ==
    ASSUME Types, Outcome("Ok")
    PROVE  /\ todo' = Tail(todo) /\ server' = server /\ req' = req /\ ack' = "Ok"
           /\ got' = IF Head(todo).rnw THEN Append(got, buf) ELSE got
           /\ answer' = answer /\ from' = from
BY DEF Outcome, serverVars

\* The first four transfers.
LEMMA SetupStep ==
    ASSUME Inv, Going, Acknowledged, Done < 4
    PROVE  Selected' /\ Fetched' /\ Handed' /\ Stored' /\ Clean'
<1> DEFINE n == Count(req)
           k == Done
           t == Head(todo)
<1>1. /\ n \in Nat \ {0} /\ req.addr \in Words /\ k \in 0..3
      /\ Known /\ Start = req.addr /\ req.cmd \notin Multiple
      /\ k = 0 => t = Write("SELECT", 0)
      /\ k = 1 => t = Write("CSW", 1)
      /\ k = 2 => t = Read("RDBUFF")
      /\ k = 3 => t = Write("TAR", req.addr)
    BY Upcoming DEF Inv, Acknowledged
<1>2. /\ todo' = Tail(todo) /\ server' = server /\ req' = req /\ ack' = "Ok"
      /\ got' = IF t.rnw THEN Append(got, buf) ELSE got
    BY OutcomeIs DEF Inv, Acknowledged
<1>3. Done' = k + 1 /\ (todo' = <<>> <=> k = n + 4)
    BY <1>2, Advanced DEF Inv, Acknowledged
<1>4. TransferOk(t)
    BY DEF Acknowledged
<1>5. /\ Going' /\ Count(req') = n /\ got \in Seq(Data) /\ buf \in Data
      /\ Start' = req.addr /\ Useless(req) = 2
    BY <1>1, <1>2 DEF Going, Inv, Types, Start, Useless
<1>6. /\ k = 0 => t.reg = "SELECT" /\ t.val = 0 /\ ~t.rnw
      /\ k = 1 => t.reg = "CSW" /\ t.val = 1 /\ ~t.rnw
      /\ k = 2 => t.reg = "RDBUFF" /\ t.rnw
      /\ k = 3 => t.reg = "TAR" /\ t.val = req.addr /\ ~t.rnw
    BY <1>1 DEF Read, Write
<1>7. t.reg \in {"SELECT", "CSW", "RDBUFF", "TAR"}
    BY <1>1, <1>6
<1> HIDE DEF n, k, t
<1>8. Good /\ AccessRegister(t)
    BY <1>4, <1>7, Accepted DEF Perform
<1>9. /\ k >= 1 => bank = 0
      /\ k >= 2 => inc
    BY <1>1, <1>8 DEF Inv, Selected, k
<1>10. /\ bank' = 0
       /\ k + 1 >= 2 => inc'
       /\ k + 1 = 4 => tar' = req.addr
    <2>1. /\ bank' = IF t.reg = "SELECT" THEN t.val ELSE bank
          /\ inc' = IF t.reg = "CSW" /\ bank = 0 THEN t.val = 1 ELSE inc
          /\ tar' = IF t.reg = "TAR" /\ bank = 0 THEN t.val ELSE tar
        BY <1>8 DEF AccessRegister
    <2>2. CASE k = 0
        BY <2>1, <2>2, <1>6
    <2>3. CASE k = 1
        <3>1. t.reg = "CSW" /\ t.val = 1 /\ bank = 0
            BY <2>3, <1>6, <1>9
        <3>2. inc' = TRUE
            BY <1>8, <3>1 DEF AccessRegister
        <3> QED BY <2>1, <2>3, <3>1, <3>2
    <2>4. CASE k = 2
        BY <2>1, <2>4, <1>6, <1>9
    <2>5. CASE k = 3
        BY <2>1, <2>5, <1>6, <1>9
    <2> QED BY <1>1, <2>2, <2>3, <2>4, <2>5
<1>11. Selected'
    <2>1. /\ Done' >= 1 => bank' = 0
          /\ Done' >= 2 => inc'
          /\ Done' # 5
          /\ Done' >= 4 => tar' = Start' + (Done' - 4)
        <3>1. req.addr \in Nat /\ req.addr + (4 - 4) = req.addr
            BY <1>1, SwdAssumption DEF Words
        <3>2. k + 1 >= 4 => k + 1 = 4
            BY <1>1
        <3> QED BY <1>1, <1>3, <1>5, <1>10, <3>1, <3>2
    <2> QED BY <1>2, <2>1 DEF Selected
<1>12. Fetched' /\ Stored'
    <2>1. ~(Done' >= 5) /\ \A j \in 1..n : ~(j <= Done' - 4)
        BY <1>1, <1>3
    <2> QED BY <1>5, <2>1 DEF Fetched, Stored
<1>13. Clean'
    BY <1>1, <1>3 DEF Clean
<1>14. Handed'
    <2>1. req.cmd \in MemoryReads => Len(got) = IF k < 3 THEN 0 ELSE IF k = 3 THEN 1 ELSE k - 5 + 2
        BY <1>5 DEF Inv, Handed, k
    <2>2. Len(got') = Len(got) + (IF k = 2 THEN 1 ELSE 0)
        BY <1>1, <1>2, <1>5, <1>6
    <2>3. req.cmd \in MemoryReads =>
             Len(got') = IF Done' < 3 THEN 0 ELSE IF Done' = 3 THEN 1 ELSE Done' - 5 + 2
        <3> DEFINE l == Len(got)
                   m == Len(got')
                   d == Done'
        <3>1. k \in {0, 1, 2, 3} /\ d = k + 1 /\ m = l + (IF k = 2 THEN 1 ELSE 0)
            BY <1>1, <1>3, <2>2
        <3>2. req.cmd \in MemoryReads => l = IF k < 3 THEN 0 ELSE IF k = 3 THEN 1 ELSE k - 5 + 2
            BY <2>1
        <3> HIDE DEF l, m, d
        <3>3. req.cmd \in MemoryReads => m = IF d < 3 THEN 0 ELSE IF d = 3 THEN 1 ELSE d - 5 + 2
            BY <3>1, <3>2
        <3> QED BY <3>3 DEF l, m, d
    <2>4. 1..(Done' - 5) = {}
        BY <1>1, <1>3
    <2> QED BY <1>2, <1>5, <2>3, <2>4 DEF Handed
<1> QED BY <1>11, <1>12, <1>13, <1>14

\* What an access to a word does, if the target has come with it.
LEMMA WordAccessed ==
    ASSUME NEW t, t.reg = "DRW", bank = 0, inc, TransferOk(t), mem \in [Words -> Data]
    PROVE  /\ Good /\ linked' = linked /\ bank' = 0 /\ inc'
           /\ Good' <=> linked /\ tar \in Words
           /\ tar \in Words =>
                 /\ tar' = NextAddress
                 /\ ~t.rnw => \A x \in Words : mem'[x] = IF x = tar THEN t.val ELSE mem[x]
                 /\ t.rnw => buf' = mem[tar]
           /\ t.rnw => mem' = mem
<1>1. Good /\ linked' = linked /\ AccessMemory(t)
    BY Accepted DEF Perform
<1>2. /\ bank' = bank /\ inc' = inc
      /\ tar' = IF inc /\ tar \in Words THEN NextAddress ELSE tar
      /\ sticky' = (tar \notin Words)
      /\ mem' = IF tar \in Words /\ ~t.rnw THEN [mem EXCEPT ![tar] = t.val] ELSE mem
      /\ buf' = IF tar \in Words /\ t.rnw THEN mem[tar] ELSE buf
    BY <1>1 DEF AccessMemory
<1>3. Good' <=> linked /\ tar \in Words
    BY <1>1, <1>2 DEF Good
<1>4. tar \in Words /\ ~t.rnw => \A x \in Words : mem'[x] = IF x = tar THEN t.val ELSE mem[x]
    BY <1>2
<1>5. tar \in Words => tar' = NextAddress
    BY <1>2
<1>6. inc'
    BY <1>2
<1> QED BY <1>1, <1>2, <1>3, <1>4, <1>5, <1>6

\* The accesses to the words, in turn.
LEMMA AccessStep ==
    ASSUME Inv, Going, Acknowledged, Done >= 4, Done < Count(req) + 4
    PROVE  Selected' /\ Fetched' /\ Handed' /\ Stored' /\ Clean'
<1> DEFINE n == Count(req)
           k == Done
           t == Head(todo)
           a == Start
           u == Useless(req)
<1>1. /\ n \in Nat \ {0} /\ a \in Nat /\ k \in 4..(n + 3) /\ req \in Requests
      /\ t = Access(req, k - 3)
      /\ req.cmd = "read_mem" => a = req.addr
    BY Upcoming DEF Inv, Acknowledged, Multiple
<1>2. /\ todo' = Tail(todo) /\ server' = server /\ req' = req /\ ack' = "Ok"
      /\ got' = IF t.rnw THEN Append(got, buf) ELSE got
    BY OutcomeIs DEF Inv, Acknowledged
<1>3. Done' = k + 1 /\ (todo' = <<>> <=> k = n + 4)
    BY <1>2, Advanced DEF Inv, Acknowledged
<1>4. TransferOk(t)
    BY DEF Acknowledged
<1>5. /\ Going' /\ Count(req') = n /\ got \in Seq(Data) /\ buf \in Data /\ mem \in [Words -> Data]
      /\ Start' = a /\ Known' = Known /\ InLine' = InLine /\ u \in {1, 2}
    BY <1>2, OutcomeIs DEF Going, Inv, Types, Acknowledged, Start, Known, InLine, Useless
<1>6. /\ t.reg = "DRW"
      /\ req.cmd \in MemoryReads => t.rnw
      /\ req.cmd \in MemoryWrites => ~t.rnw /\ t.val = req.data[k - 3]
    BY <1>1 DEF Read, Write, Access, MemoryReads, MemoryWrites
<1>7. a \in Nat /\ PageSize \in Nat \ {0} /\ a % PageSize \in 0..(PageSize - 1)
    <2>1. a \in Nat /\ PageSize \in Nat \ {0}
        BY <1>1, SwdAssumption
    <2> QED BY <2>1
<1>8. req.cmd = "read_mem" => n = 1 /\ InLine
    BY <1>1, Shape, OneWord DEF Going, InLine, Known, Multiple
<1>9. InLine => Known /\ (a % PageSize) + n <= PageSize
    BY DEF InLine, InOnePage
<1> HIDE DEF n, k, t, a, u
<1>10. Good
    BY <1>4, <1>6, Accepted
<1>11. /\ Known => bank = 0 /\ inc
       /\ InLine => tar = a + (k - 4)
    BY <1>1, <1>10 DEF Inv, Selected, n, k, a
<1>12. Known =>
       /\ bank' = 0 /\ inc'
       /\ Good' => tar \in Words
       /\ tar \in Words =>
             /\ tar' = NextAddress
             /\ ~t.rnw => \A x \in Words : mem'[x] = IF x = tar THEN t.val ELSE mem[x]
             /\ t.rnw => buf' = mem[tar]
       /\ t.rnw => mem' = mem
    BY <1>4, <1>5, <1>6, <1>11, WordAccessed
<1>13. Done' >= 5 /\ Done' <= n + 4 /\ Done' - 4 = k - 3 /\ Done' - 5 = k - 4
    BY <1>1, <1>3
<1>14. Selected'
    <2> SUFFICES ASSUME Good', Known
                 PROVE  /\ InLine /\ Done' < n + 4 => tar' = a + (Done' - 4)
                        /\ req.cmd = "read_mem" /\ Done' = 5 /\ a # LastWord => tar' \in Words
        BY <1>1, <1>2, <1>5, <1>8, <1>9, <1>12, <1>13 DEF Selected
    <2>1. tar \in Words /\ tar' = NextAddress
        BY <1>12
    <2>2. ASSUME InLine, Done' < n + 4 PROVE tar' = a + (Done' - 4)
        <3> DEFINE i == k - 3
        <3>1. i \in Nat \ {0} /\ i < n /\ tar + 1 = a + i /\ i = Done' - 4
            BY <1>1, <1>3, <1>7, <1>11, <1>13, <2>2
        <3>2. (a % PageSize) + i < PageSize
            BY <1>1, <1>7, <1>9, <2>2, <3>1
        <3> HIDE DEF i
        <3>3. (a + i) % PageSize = (a % PageSize) + i
            BY <1>7, <3>1, <3>2, Offset
        <3>4. (tar + 1) % PageSize # 0
            <4>1. (tar + 1) % PageSize = (a % PageSize) + i
                BY <3>1, <3>3
            <4>2. \A x \in Nat, y \in Nat \ {0} : x + y # 0
                OBVIOUS
            <4>3. a % PageSize \in Nat
                BY <1>7
            <4> QED BY <3>1, <4>1, <4>2, <4>3, Zenon
        <3> QED BY <2>1, <3>1, <3>4 DEF NextAddress
    <2>3. ASSUME req.cmd = "read_mem", a # LastWord PROVE tar' \in Words
        <3>1. n = 1 /\ k = 4 /\ tar = a
            BY <1>1, <1>8, <1>11, <2>3
        <3> QED BY <2>1, <2>3, <3>1, NextWord
    <2> QED BY <2>2, <2>3
<1>15. Fetched'
    <2> SUFFICES ASSUME Good', req.cmd \in MemoryReads, InLine
                 PROVE  buf' = mem'[a + (Done' - 5)]
        BY <1>2, <1>5 DEF Fetched
    <2> QED BY <1>6, <1>9, <1>11, <1>12, <1>13
<1>16. Handed'
    <2> SUFFICES ASSUME req.cmd \in MemoryReads
                 PROVE  /\ Len(got') = Done' - 5 + u
                        /\ InLine => \A j \in 1..(Done' - 5) : got'[j + u] = mem'[a + (j - 1)]
        <3>1. ~(Done' < 3) /\ Done' # 3
            BY <1>1, <1>3
        <3> QED BY <1>2, <1>5, <3>1 DEF Handed, u
    <2>1. /\ Len(got) = k - 5 + u
          /\ InLine => \A j \in 1..(k - 5) : got[j + u] = mem[a + (j - 1)]
        <3>1. ~(k < 3) /\ k # 3
            BY <1>1
        <3> QED BY <3>1 DEF Inv, Handed, k, a, u
    <2>2. got' = Append(got, buf) /\ (InLine => mem' = mem)
        BY <1>2, <1>6, <1>9, <1>12
    <2>3. /\ Len(got') = k - 4 + u
          /\ \A i \in 1..(k - 5 + u) : got'[i] = got[i]
          /\ got'[k - 4 + u] = buf
        BY <1>1, <1>5, <2>1, <2>2
    <2>4. InLine /\ k >= 5 => buf = mem[a + (k - 5)]
        <3>1. k <= n + 4
            BY <1>1
        <3> QED BY <3>1, <1>10 DEF Inv, Fetched, n, k, a
    <2>5. ASSUME InLine, NEW j \in 1..(Done' - 5) PROVE got'[j + u] = mem'[a + (j - 1)]
        <3>1. j \in 1..(k - 4) /\ (j # k - 4 => j \in 1..(k - 5) /\ j + u \in 1..(k - 5 + u))
              /\ (j = k - 4 => j + u = k - 4 + u /\ j - 1 = k - 5 /\ k >= 5)
            BY <1>1, <1>3, <1>5
        <3>2. CASE j = k - 4
            BY <2>2, <2>3, <2>4, <2>5, <3>1, <3>2
        <3>3. CASE j # k - 4
            BY <2>1, <2>2, <2>3, <2>5, <3>1, <3>3
        <3> QED BY <3>2, <3>3
    <2> QED BY <1>1, <1>3, <2>3, <2>5
<1>17. Stored'
    <2> SUFFICES ASSUME req.cmd \in MemoryWrites, InLine, Good', NEW j \in 1..n, j <= k - 3
                 PROVE  mem'[a + (j - 1)] = req.data[j]
        <3>1. todo' # <<>> /\ Done' - 4 = k - 3
            BY <1>1, <1>3, <1>13
        <3> QED BY <1>2, <1>5, <3>1 DEF Stored
    <2>1. tar \in Words /\ tar = a + (k - 4) /\ t.val = req.data[k - 3]
        BY <1>6, <1>9, <1>11, <1>12
    <2>2. \A x \in Words : mem'[x] = IF x = tar THEN t.val ELSE mem[x]
        BY <1>6, <1>9, <1>12, <2>1
    <2>3. a + (j - 1) \in Words
        BY <1>1, <1>7, <2>1, SwdAssumption DEF Words
    <2>4. CASE j = k - 3
        <3>1. a + (j - 1) = tar
            BY <1>1, <1>7, <2>1, <2>4
        <3> QED BY <2>1, <2>2, <2>4, <3>1
    <2>5. CASE j # k - 3
        <3>1. a + (j - 1) # tar /\ j <= k - 4
            BY <1>1, <1>7, <2>1, <2>5
        <3>2. mem[a + (j - 1)] = req.data[j]
            BY <1>10, <3>1 DEF Inv, Stored, n, k, a
        <3> QED BY <2>2, <2>3, <3>1, <3>2
    <2> QED BY <2>4, <2>5
<1>18. Clean'
    BY <1>1, <1>3 DEF Clean
<1> QED BY <1>14, <1>15, <1>16, <1>17, <1>18

\* The read behind them, which is refused if something went wrong before.
LEMMA FinalStep ==
    ASSUME Inv, Going, Acknowledged, Done = Count(req) + 4
    PROVE  Selected' /\ Fetched' /\ Handed' /\ Stored' /\ Clean'
<1> DEFINE n == Count(req)
           k == Done
           t == Head(todo)
           a == Start
           u == Useless(req)
<1>1. /\ n \in Nat \ {0} /\ a \in Nat /\ k = n + 4 /\ req \in Requests
      /\ t = Final(req)
      /\ req.cmd = "read_mem" => a = req.addr
    BY Upcoming DEF Inv, Acknowledged, Multiple
<1>2. /\ todo' = Tail(todo) /\ server' = server /\ req' = req /\ ack' = "Ok"
      /\ got' = IF t.rnw THEN Append(got, buf) ELSE got
    BY OutcomeIs DEF Inv, Acknowledged
<1>3. Done' = k + 1 /\ todo' = <<>>
    BY <1>1, <1>2, Advanced DEF Inv, Acknowledged
<1>4. TransferOk(t)
    BY DEF Acknowledged
<1>5. /\ Going' /\ Count(req') = n /\ got \in Seq(Data) /\ buf \in Data /\ mem \in [Words -> Data]
      /\ Start' = a /\ Known' = Known /\ InLine' = InLine /\ u \in {1, 2}
    BY <1>2, OutcomeIs DEF Going, Inv, Types, Acknowledged, Start, Known, InLine, Useless
<1>6. /\ t.rnw
      /\ t.reg = IF req.cmd = "read_mem" THEN "DRW" ELSE "RDBUFF"
    BY <1>1 DEF Read, Final
<1>7. req.cmd = "read_mem" => n = 1 /\ Known
    BY <1>1, Shape DEF Going, Known, Multiple
<1> HIDE DEF n, k, t, a, u
<1>8. Good
    BY <1>4, <1>6, Accepted
<1>9. Known => bank = 0 /\ inc
    BY <1>1, <1>8 DEF Inv, Selected, n, k, a
<1>10. /\ Known => bank' = 0 /\ inc'
       /\ mem' = mem
       /\ req.cmd # "read_mem" => ~sticky'
       /\ req.cmd = "read_mem" /\ tar \in Words => ~sticky'
    <2>1. CASE req.cmd = "read_mem"
        <3>1. /\ bank' = 0 /\ inc' /\ mem' = mem /\ linked' = linked
              /\ Good' <=> linked /\ tar \in Words
            BY <1>4, <1>5, <1>6, <1>7, <1>9, <2>1, WordAccessed
        <3> QED BY <1>8, <2>1, <3>1 DEF Good
    <2>2. CASE req.cmd # "read_mem"
        <3>1. AccessRegister(t)
            BY <1>4, <1>6, <2>2, Accepted DEF Perform
        <3> QED BY <1>6, <1>8, <1>9, <2>2, <3>1 DEF AccessRegister, Good
    <2> QED BY <2>1, <2>2
<1>11. Done' = n + 5
    BY <1>1, <1>3
<1>12. Clean'
    <2>1. req.cmd = "read_mem" /\ req.addr # LastWord => tar \in Words
        <3>1. req.cmd = "read_mem" => k = 5
            BY <1>1, <1>7
        <3> QED BY <3>1, <1>8 DEF Inv, Selected, k
    <2> QED BY <1>2, <1>10, <2>1 DEF Clean
<1>13. Selected'
    <2>1. ~(Done' < n + 4) /\ ~(req.cmd = "read_mem" /\ Done' = 5)
        BY <1>1, <1>7, <1>11
    <2> QED BY <1>2, <1>5, <1>10, <2>1 DEF Selected
<1>14. Fetched'
    BY <1>1, <1>5, <1>11 DEF Fetched
<1>15. Handed'
    <2> SUFFICES ASSUME req.cmd \in MemoryReads
                 PROVE  /\ Len(got') = n + u
                        /\ InLine => \A j \in 1..n : got'[j + u] = mem[a + (j - 1)]
        <3>1. ~(Done' < 3) /\ Done' # 3 /\ Done' - 5 = n
            BY <1>1, <1>11
        <3> QED BY <1>2, <1>5, <1>10, <3>1 DEF Handed, u
    <2>1. /\ Len(got) = n - 1 + u
          /\ InLine => \A j \in 1..(n - 1) : got[j + u] = mem[a + (j - 1)]
        <3>1. ~(k < 3) /\ k # 3 /\ k - 5 = n - 1
            BY <1>1
        <3> QED BY <3>1 DEF Inv, Handed, k, a, u
    <2>2. /\ Len(got') = n + u
          /\ \A i \in 1..(n - 1 + u) : got'[i] = got[i]
          /\ got'[n + u] = buf
        BY <1>1, <1>2, <1>5, <1>6, <2>1
    <2>3. InLine => buf = mem[a + (n - 1)]
        <3>1. k >= 5 /\ k <= n + 4 /\ k - 5 = n - 1
            BY <1>1
        <3> QED BY <3>1, <1>8 DEF Inv, Fetched, n, k, a
    <2>4. ASSUME InLine, NEW j \in 1..n PROVE got'[j + u] = mem[a + (j - 1)]
        <3>1. j # n => j \in 1..(n - 1) /\ j + u \in 1..(n - 1 + u)
            BY <1>1, <1>5
        <3>2. CASE j = n
            BY <2>2, <2>3, <2>4, <3>2
        <3>3. CASE j # n
            BY <2>1, <2>2, <2>4, <3>1, <3>3
        <3> QED BY <3>2, <3>3
    <2> QED BY <2>2, <2>4
<1>16. Stored'
    <2> SUFFICES ASSUME req.cmd \in MemoryWrites, InLine, NEW j \in 1..n
                 PROVE  mem[a + (j - 1)] = req.data[j]
        BY <1>2, <1>5, <1>10 DEF Stored
    <2>1. j <= k - 4
        BY <1>1
    <2> QED BY <1>8, <2>1 DEF Inv, Stored, n, k, a
<1> QED BY <1>12, <1>13, <1>14, <1>15, <1>16

\* A lost write leaves an error, at which the next transfer fails.
LEMMA LostStep ==
    ASSUME Inv, Going, todo # <<>>, WriteLost(Head(todo)), Outcome("Ok")
    PROVE  Selected' /\ Fetched' /\ Handed' /\ Stored' /\ Clean'
<1> DEFINE n == Count(req)
           k == Done
           t == Head(todo)
<1>1. /\ n \in Nat \ {0} /\ k \in 0..(n + 4)
      /\ k = 2 => t = Read("RDBUFF")
      /\ k >= 4 /\ k < n + 4 => t = Access(req, k - 3)
      /\ k = n + 4 => t = Final(req)
    BY Upcoming DEF Inv
<1>2. /\ todo' = Tail(todo) /\ server' = server /\ req' = req
      /\ got' = IF t.rnw THEN Append(got, buf) ELSE got
    BY OutcomeIs DEF Inv
<1>3. Done' = k + 1 /\ (todo' = <<>> <=> k = n + 4)
    BY <1>2, Advanced DEF Inv
<1>4. ~t.rnw /\ sticky' = TRUE /\ mem' = mem
    BY DEF WriteLost
<1>5. got' = got
    BY <1>2, <1>4
<1>6. k # 2 /\ k # n + 4 /\ (req.cmd \in MemoryReads => k < 4)
    <2>1. Read("RDBUFF").rnw /\ Read("DRW").rnw
        BY DEF Read
    <2> QED BY <1>1, <1>4, <2>1 DEF Final, Access
<1> HIDE DEF n, k, t
<1>7. todo' # <<>> /\ ~Good'
    BY <1>3, <1>4, <1>6 DEF Good
<1>8. Selected' /\ Fetched' /\ Stored' /\ Clean'
    BY <1>7 DEF Selected, Fetched, Stored, Clean
<1>9. Handed'
    <2> SUFFICES ASSUME req.cmd \in MemoryReads
                 PROVE  /\ Len(got) = IF Done' < 3 THEN 0
                                       ELSE IF Done' = 3 THEN 1 ELSE Done' - 5 + Useless(req)
                        /\ 1..(Done' - 5) = {}
        BY <1>2, <1>5 DEF Handed
    <2>1. k \in {0, 1, 3}
        BY <1>1, <1>6
    <2>2. Len(got) = (IF k < 3 THEN 0 ELSE IF k = 3 THEN 1 ELSE k - 5 + Useless(req))
          /\ Useless(req) = 2
        <3>1. req.cmd \notin Multiple
            BY <1>1, <1>6, Upcoming DEF Inv, k
        <3> QED BY <3>1 DEF Inv, Handed, k, Useless
    <2>3. CASE k = 0
        BY <1>3, <2>2, <2>3
    <2>4. CASE k = 1
        BY <1>3, <2>2, <2>4
    <2>5. CASE k = 3
        BY <1>3, <2>2, <2>5
    <2> QED BY <2>1, <2>3, <2>4, <2>5
<1> QED BY <1>8, <1>9

\* A read of the AP.
LEMMA ApReadStep ==
    ASSUME Inv, Transfer, req.cmd = "read_ap"
    PROVE  ApRead'
<1> DEFINE R == Read("DRW")
           t == Head(todo)
<1>1. /\ server = "exec" /\ todo # <<>>
      /\ todo \in {<<R, R>>, <<R>>}
    BY DEF Transfer, Executing, Inv, ApRead
<1>2. R.rnw /\ R.reg = "DRW" /\ t = R
    BY <1>1 DEF Read
<1>3. mem \in [Words -> Data] /\ got \in Seq(Data) /\ buf \in Data
    BY DEF Inv, Types
<1>4. PICK a \in {"Ok", "Fault", "ParityError", "None"} :
         /\ Outcome(a)
         /\ a = "Ok" => TransferOk(R)
         /\ a = "Fault" => TransferFault(R)
         /\ a = "ParityError" => ReadParityError(R)
         /\ a = "None" => NoAnswer
    BY <1>2 DEF Transfer, WriteLost
<1>5. /\ server' = server /\ req' = req /\ from' = from /\ ack' = a
      /\ todo' = IF a = "Ok" \/ PassedOver THEN Tail(todo) ELSE <<>>
      /\ got' = IF a = "Ok" THEN Append(got, buf) ELSE got
    BY <1>2, <1>4 DEF Outcome, serverVars
<1>6. a \in {"Ok", "ParityError"} => Heard /\ ~sticky /\ Perform(R)
    BY <1>2, <1>4 DEF TransferOk, ReadParityError, Refused
<1>7. CASE todo = <<R, R>>
    <2>1. Len(todo) = 2 /\ Tail(todo) = <<R>> /\ PassedOver
        BY <1>7 DEF PassedOver
    <2>2. todo' = <<R>>
        BY <1>5, <2>1
    <2>3. ASSUME driven', Good', from.aimed PROVE buf' = mem'[from.addr]
        <3>1. a # "Fault"
            <4>1. TransferFault(R) => sticky /\ sticky' = sticky
                BY DEF TransferFault, Refused, swdVars, target
            <4> QED BY <1>4, <2>3, <4>1 DEF Good
        <3>2. a # "None"
            BY <1>4, <2>3 DEF NoAnswer
        <3>3. Heard /\ Perform(R)
            BY <1>6, <3>1, <3>2
        <3>4. tar = from.addr /\ bank = 0
            BY <1>1, <2>1, <2>3, <3>3 DEF Inv, ApRead, Heard
        <3>5. AccessMemory(R)
            BY <1>2, <3>3, <3>4 DEF Perform
        <3>6. tar \in Words /\ buf' = mem[tar] /\ mem' = mem
            BY <1>2, <2>3, <3>5 DEF AccessMemory, Good
        <3> QED BY <3>4, <3>6
    <2>4. Len(todo') = 1 /\ todo' # <<>>
        BY <2>2
    <2>5. todo' \in {<<R, R>>, <<R>>, <<>>} /\ Len(todo') # 2
        BY <2>2, <2>4
    <2> QED BY <1>5, <2>3, <2>4, <2>5, Zenon DEF ApRead
<1>8. CASE todo = <<R>>
    <2>1. Len(todo) = 1 /\ Tail(todo) = <<>> /\ ~PassedOver
        BY <1>8 DEF PassedOver
    <2>2. todo' = <<>>
        BY <1>5, <2>1
    <2>3. ASSUME a = "Ok", from.aimed PROVE got' # <<>> /\ got'[Len(got')] = mem'[from.addr]
        <3>1. Heard /\ ~sticky /\ Perform(R)
            BY <1>6, <2>3
        <3>2. buf = mem[from.addr]
            BY <1>1, <2>1, <2>3, <3>1 DEF Inv, ApRead, Heard, Good
        <3>3. mem' = mem
            BY <1>2, <3>1 DEF Perform, AccessMemory, AccessRegister
        <3>4. got' = Append(got, buf)
            BY <1>5, <2>3
        <3>5. got' # <<>> /\ got'[Len(got')] = buf
            BY <1>3, <3>4
        <3> QED BY <3>2, <3>3, <3>5
    <2>4. Len(todo') # 1 /\ Len(todo') # 2
        BY <2>2
    <2>5. todo' \in {<<R, R>>, <<R>>, <<>>}
        BY <2>2
    <2>6. ack' = "Ok" => a = "Ok"
        BY <1>5
    <2> QED BY <1>5, <2>3, <2>4, <2>5, <2>6, Zenon DEF ApRead
<1> QED BY <1>1, <1>7, <1>8

LEMMA TransferTypes ==
    ASSUME Inv, Transfer
    PROVE  /\ Types'
           /\ server' = "exec" /\ req' = req /\ answer' = NoAnswerYet
<1> DEFINE t == Head(todo)
<1>1. /\ mem \in [Words -> Data] /\ buf \in Data /\ todo \in Seq(Steps) /\ got \in Seq(Data)
      /\ req \in Requests \cup {NoRequest} /\ server = "exec" /\ todo # <<>>
      /\ bank \in 0..1 /\ tar \in 0..(LastWord + 1) /\ from.addr \in 0..(LastWord + 1)
      /\ answer = NoAnswerYet
    BY DEF Inv, Types, Transfer, Executing
<1>2. t \in Steps /\ Tail(todo) \in Seq(Steps) /\ <<>> \in Seq(Steps)
    BY <1>1
<1>3. PICK a : /\ Outcome(a)
               /\ \/ TransferOk(t) \/ TransferFault(t) \/ ReadParityError(t) \/ WriteLost(t)
                  \/ NoAnswer
    BY DEF Transfer
<1> HIDE DEF t
<1>4. /\ server' = server /\ req' = req /\ answer' = answer /\ from' = from
      /\ todo' \in {Tail(todo), <<>>}
      /\ got' \in {Append(got, buf), got}
    BY <1>3 DEF Outcome, serverVars, t
<1>5. got' \in Seq(Data)
    <2>1. Append(got, buf) \in Seq(Data)
        BY <1>1
    <2> QED BY <1>1, <1>4, <2>1, Zenon
<1>6. /\ mem' \in [Words -> Data] /\ buf' \in Data
      /\ bank' \in 0..1 /\ tar' \in 0..(LastWord + 1)
    <2>1. CASE TransferOk(t) \/ ReadParityError(t)
        <3>1. Perform(t)
            BY <2>1 DEF TransferOk, ReadParityError
        <3> QED BY <1>1, <1>2, <3>1, PerformType, AddressKept
    <2>2. CASE TransferFault(t) \/ WriteLost(t) \/ NoAnswer
        BY <1>1, <2>2 DEF TransferFault, WriteLost, NoAnswer, swdVars, target
    <2> QED BY <1>3, <2>1, <2>2
<1> QED BY <1>1, <1>2, <1>4, <1>5, <1>6 DEF Types

LEMMA TransferKeeps ==
    ASSUME Inv, Transfer
    PROVE  Inv'
<1>1. /\ Types' /\ server' = "exec" /\ req' = req /\ answer' = NoAnswerYet
      /\ server = "exec" /\ todo # <<>>
    BY TransferTypes DEF Transfer, Executing
<1>2. ReadsAreTrue' /\ WritesHappened' /\ OkLeavesClean'
    BY <1>1 DEF NoAnswerYet, ReadsAreTrue, WritesHappened, OkLeavesClean
<1>3. ApRead'
    BY <1>1, ApReadStep DEF ApRead
<1>4. OnTheWay' /\ Stopped' /\ Selected' /\ Fetched' /\ Handed' /\ Stored' /\ Clean'
    <2>1. CASE req.cmd \notin Memory
        BY <1>1, <2>1 DEF Going, OnTheWay, Stopped, Selected, Fetched, Handed, Stored, Clean
    <2>2. CASE req.cmd \in Memory
        <3>1. Going
            BY <1>1, <2>2 DEF Inv, Stopped, Going
        <3>2. ~PassedOver
            BY <2>2 DEF PassedOver, Memory, MemoryReads, MemoryWrites
        <3>3. CASE TransferOk(Head(todo)) /\ Outcome("Ok")
            <4>1. OnTheWay' /\ Stopped'
                BY <1>1, <3>1, <3>3, OutcomeIs, Advanced DEF Inv, Stopped
            <4>2. \/ Done < 4 \/ (Done >= 4 /\ Done < Count(req) + 4) \/ Done = Count(req) + 4
                BY <1>1, <3>1, Upcoming DEF Inv
            <4>3. Acknowledged
                BY <1>1, <3>3 DEF Acknowledged
            <4> QED BY <3>1, <4>1, <4>2, <4>3, SetupStep, AccessStep, FinalStep
        <3>4. CASE WriteLost(Head(todo)) /\ Outcome("Ok")
            <4>1. OnTheWay' /\ Stopped'
                BY <1>1, <3>1, <3>4, OutcomeIs, Advanced DEF Inv, Stopped
            <4> QED BY <1>1, <3>1, <3>4, <4>1, LostStep
        <3>5. ASSUME NEW a \in {"Fault", "ParityError", "None"}, Outcome(a)
              PROVE  ack' # "Ok" /\ todo' = <<>>
            BY <3>2, <3>5 DEF Outcome
        <3>6. CASE ack' # "Ok" /\ todo' = <<>>
            BY <3>6 DEF Going, OnTheWay, Stopped, Selected, Fetched, Handed, Stored, Clean
        <3> QED BY <3>3, <3>4, <3>5, <3>6 DEF Transfer
    <2> QED BY <2>1, <2>2
<1> QED BY <1>1, <1>2, <1>3, <1>4 DEF Inv

-----------------------------------------------------------------------------
(* The other steps *)

\* Nothing is known of a request that no one executes.
LEMMA NotExecuting ==
    ASSUME server # "exec"
    PROVE  OnTheWay /\ Stopped /\ Selected /\ Fetched /\ Handed /\ Stored /\ Clean /\ ApRead
BY DEF Going, OnTheWay, Stopped, Selected, Fetched, Handed, Stored, Clean, ApRead

LEMMA StartedInv == Init => Inv
<1> SUFFICES ASSUME Init PROVE Inv
    OBVIOUS
<1>1. Types
    BY SwdAssumption, Sizes DEF Init, SwdInit, Types, Nowhere
<1>2. ReadsAreTrue /\ WritesHappened /\ OkLeavesClean
    BY DEF Init, NoAnswerYet, ReadsAreTrue, WritesHappened, OkLeavesClean
<1>3. server # "exec"
    BY DEF Init
<1> QED BY <1>1, <1>2, <1>3, NotExecuting DEF Inv

LEMMA RestartStep ==
    ASSUME Inv, Restart
    PROVE  Inv'
<1>1. Types'
    BY Sizes DEF Inv, Types, Restart, target, Nowhere
<1>2. ReadsAreTrue' /\ WritesHappened' /\ OkLeavesClean'
    BY DEF Restart, NoAnswerYet, ReadsAreTrue, WritesHappened, OkLeavesClean
<1>3. server' # "exec"
    BY DEF Restart
<1>4. OnTheWay' /\ Stopped' /\ Selected' /\ Fetched' /\ Handed' /\ Stored' /\ Clean' /\ ApRead'
    BY <1>3 DEF Going, OnTheWay, Stopped, Selected, Fetched, Handed, Stored, Clean, ApRead
<1> QED BY <1>1, <1>2, <1>4 DEF Inv

\* The request is where it was; the target has stood still or lost its power.
LEMMA StillStep ==
    ASSUME Inv, UNCHANGED <<server, requestVars, mem>>,
           \/ UNCHANGED <<linked, sticky, bank, inc, tar, buf, driven>>
           \/ linked' = FALSE /\ sticky' = FALSE /\ buf' = 0 /\ bank' = 0 /\ tar' = 0
    PROVE  Inv'
<1>1. UNCHANGED <<req, todo, got, answer, ack, from>>
    BY DEF requestVars
<1>2. Types'
    BY <1>1, Sizes, SwdAssumption DEF Inv, Types
<1>3. ReadsAreTrue' /\ WritesHappened'
    BY <1>1 DEF Inv, ReadsAreTrue, WritesHappened, Slice, Aimed
<1>4. ~sticky => ~sticky'
    OBVIOUS
<1>5. OkLeavesClean'
    BY <1>1, <1>4 DEF Inv, OkLeavesClean
<1>6. /\ Going' = Going /\ Done' = Done
      /\ Start' = Start /\ Known' = Known /\ InLine' = InLine
    BY <1>1 DEF Going, Done, Start, Known, InLine
<1>7. OnTheWay' /\ Stopped' /\ Handed' /\ Clean'
    BY <1>1, <1>4, <1>6 DEF Inv, OnTheWay, Stopped, Handed, Clean, Going
<1>8. CASE UNCHANGED <<linked, sticky, bank, inc, tar, buf, driven>>
    <2>1. Good' = Good
        BY <1>8 DEF Good
    <2>2. Selected' /\ Fetched' /\ Stored'
        BY <1>1, <1>6, <1>8, <2>1 DEF Inv, Selected, Fetched, Stored
    <2>3. ApRead'
        BY <1>1, <1>8, <2>1 DEF Inv, ApRead
    <2> QED BY <1>2, <1>3, <1>5, <1>7, <2>2, <2>3 DEF Inv
<1>9. CASE linked' = FALSE
    <2>1. ~Good'
        BY <1>9 DEF Good
    <2>2. Selected' /\ Fetched' /\ Stored'
        BY <1>1, <1>6, <2>1 DEF Inv, Selected, Fetched, Stored
    <2>3. ApRead'
        BY <1>1, <1>9, <2>1 DEF Inv, ApRead
    <2> QED BY <1>2, <1>3, <1>5, <1>7, <2>2, <2>3 DEF Inv
<1> QED BY <1>8, <1>9

LEMMA AcceptStep ==
    ASSUME Inv, Accept
    PROVE  Inv'
<1>1. /\ UNCHANGED <<mem, buf, bank, tar, sticky, req, todo, got, answer, ack, from>>
      /\ server' # "exec"
    BY DEF Accept, swdVars, target, requestVars
<1>2. Types'
    BY <1>1 DEF Inv, Types
<1>3. ReadsAreTrue' /\ WritesHappened' /\ OkLeavesClean'
    BY <1>1 DEF Inv, ReadsAreTrue, WritesHappened, OkLeavesClean, Slice, Aimed
<1>4. OnTheWay' /\ Stopped' /\ Selected' /\ Fetched' /\ Handed' /\ Stored' /\ Clean' /\ ApRead'
    BY <1>1 DEF Going, OnTheWay, Stopped, Selected, Fetched, Handed, Stored, Clean, ApRead
<1> QED BY <1>2, <1>3, <1>4 DEF Inv

LEMMA RecvStep ==
    ASSUME Inv, NEW r \in Requests, Recv(r)
    PROVE  Inv'
<1>1. /\ server' = "exec" /\ req' = r /\ todo' = Transfers(r) /\ got' = <<>>
      /\ answer' = NoAnswerYet /\ ack' = "Ok"
      /\ from' = IF r.cmd \in ApData THEN Found(r.cmd) ELSE Nowhere
      /\ UNCHANGED <<mem, linked, sticky, bank, inc, tar, buf>>
    BY DEF Recv, swdVars, target
<1>2. Types'
    <2>1. from'.addr \in 0..(LastWord + 1)
        BY <1>1, Sizes DEF Inv, Types, Found, Nowhere
    <2> QED BY <1>1, <2>1, TransfersType DEF Inv, Types
<1>3. ReadsAreTrue' /\ WritesHappened' /\ OkLeavesClean' /\ Stopped'
    BY <1>1 DEF NoAnswerYet, ReadsAreTrue, WritesHappened, OkLeavesClean, Stopped
<1>4. OnTheWay' /\ Selected' /\ Fetched' /\ Handed' /\ Stored' /\ Clean'
    <2>1. CASE r.cmd \notin Memory
        BY <1>1, <2>1 DEF Going, OnTheWay, Selected, Fetched, Handed, Stored, Clean
    <2>2. CASE r.cmd \in Memory
        <3> DEFINE T == Transfers(r)
                   n == Count(r)
                   q == Skipped(r)
        <3>1. T \in Seq(Steps) /\ Len(T) = n + 5 - q /\ n \in Nat \ {0} /\ q \in {0, 4}
            BY <2>2, Shape DEF Skipped
        <3> HIDE DEF T, n, q
        <3>2. todo' = T /\ Count(req') = n /\ Transfers(req') = T /\ Skipped(req') = q
            BY <1>1 DEF T, n, q
        <3>3. Done' = q
            BY <3>1, <3>2 DEF Done
        <3>4. Len(T) <= n + 5 - q /\ \A i \in 1..Len(T) : T[i] = T[(q - q) + i]
            BY <3>1
        <3>5. OnTheWay'
            BY <3>2, <3>3, <3>4 DEF OnTheWay
        <3>6. T # <<>>
            BY <3>1
        <3>7. Clean'
            BY <3>2, <3>6 DEF Clean
        <3>8. /\ q # 5 /\ ~(q >= 5)
              /\ 1..(q - 5) = {} /\ \A j \in 1..n : ~(j <= q - 4)
            BY <3>1
        <3>9. Fetched' /\ Stored'
            BY <3>2, <3>3, <3>8 DEF Fetched, Stored
        <3>10. Len(got') = 0
            BY <1>1
        <3>11. CASE q = 0
            <4>1. ~(0 >= 1) /\ ~(0 >= 2) /\ ~(0 >= 4) /\ 0 < 3
                OBVIOUS
            <4>2. Selected' /\ Handed'
                BY <3>3, <3>8, <3>10, <3>11, <4>1 DEF Selected, Handed
            <4> QED BY <3>5, <3>7, <3>9, <4>2
        <3>12. CASE q = 4
            <4>1. r.cmd \in Multiple /\ r.cmd # "read_mem" /\ Useless(r) = 1
                BY <3>12 DEF Skipped, Multiple, Useless, q
            <4>2. from' = Found(r.cmd) /\ r.cmd # "read_ap"
                BY <1>1, <4>1 DEF Multiple, ApData
            <4>3. Start' = tar' /\ (Known' => bank' = 0 /\ inc')
                <5>1. Start' = from'.addr /\ (Known' => from'.aimed)
                    BY <1>1, <4>1 DEF Start, Known
                <5>2. from'.addr = tar /\ from'.aimed = (bank = 0 /\ (inc \/ r.cmd = "read_ap"))
                    BY <4>2, Zenon DEF Found
                <5>3. inc' = inc /\ bank' = bank /\ tar' = tar
                    BY <1>1
                <5> QED BY <4>2, <5>1, <5>2, <5>3, Zenon
            <4>4. tar' \in Int
                BY <1>1, Sizes DEF Inv, Types
            <4>5. tar' = Start' + (4 - 4)
                <5>1. \A x \in Int : x = x + (4 - 4)
                    OBVIOUS
                <5> QED BY <4>3, <4>4, <5>1, Zenon
            <4>6. Selected'
                BY <1>1, <3>3, <3>12, <4>1, <4>3, <4>5 DEF Selected, InLine
            <4>7. ~(4 < 3) /\ 4 # 3 /\ 4 - 5 + 1 = 0
                OBVIOUS
            <4>8. Handed'
                BY <1>1, <3>3, <3>8, <3>10, <3>12, <4>1, <4>7 DEF Handed
            <4> QED BY <3>5, <3>7, <3>9, <4>6, <4>8
        <3> QED BY <3>1, <3>11, <3>12
    <2> QED BY <2>1, <2>2
<1>5. ApRead'
    <2> SUFFICES ASSUME r.cmd = "read_ap" PROVE ApRead'
        BY <1>1 DEF ApRead
    <2>1. todo' = <<Read("DRW"), Read("DRW")>>
        BY <1>1 DEF Transfers, ReadAp
    <2>2. todo' # <<>> /\ Len(todo') # 1
        BY <2>1
    <2>3. from'.addr = tar' /\ (from'.aimed => bank' = 0)
        BY <1>1 DEF ApData, Found
    <2> QED BY <2>1, <2>2, <2>3 DEF ApRead
<1> QED BY <1>2, <1>3, <1>4, <1>5 DEF Inv

\* The answer to a memory access whose transfers have all gone well.
LEMMA AnswerIsTrue ==
    ASSUME Inv, Going, todo = <<>>
    PROVE  /\ req \in Requests
           /\ Count(req) \in Nat \ {0} /\ Start \in Nat
           /\ req.cmd \notin Multiple => Start = req.addr /\ req.addr \in Words
           /\ req.cmd \in MemoryReads /\ InLine => Okay.data = Slice(Start, Count(req))
           /\ req.cmd \in MemoryWrites /\ InLine => Slice(Start, Count(req)) = req.data
<1> DEFINE n == Count(req)
           a == Start
           u == Useless(req)
<1>1. req \in Requests
    BY DEF Inv, Types, Going, Memory, MemoryReads, MemoryWrites, NoRequest, Request
<1>2. /\ n \in Nat \ {0} /\ a \in Nat /\ u \in {1, 2}
      /\ req.cmd \notin Multiple => Start = req.addr /\ req.addr \in Words
      /\ req.cmd \in MemoryWrites => req.data \in [1..n -> Data]
    BY <1>1, Shape, Sizes DEF Going, Start, Useless, Inv, Types, Words
<1>3. Done = n + 5
    <2>1. Len(todo) = 0
        OBVIOUS
    <2> QED BY <1>2, <2>1 DEF Done
<1>4. a \in Nat /\ \A i \in 1..n : a + i - 1 = a + (i - 1)
    BY <1>2
<1>5. ASSUME req.cmd \in MemoryReads, InLine
      PROVE  Okay.data = Slice(a, n)
    <2>1. ResultLength = n /\ req.cmd \in Reads
        BY <1>5 DEF ResultLength, Count, MemoryReads, Reads
    <2>2. Okay.data = SubSeq(got, Len(got) - n + 1, Len(got))
        BY <2>1 DEF Okay
    <2> HIDE DEF n, a, u
    <2>3. /\ Len(got) = n + u
          /\ \A j \in 1..n : got[j + u] = mem[a + (j - 1)]
        <3>1. ~(Done < 3) /\ Done # 3 /\ Done - 5 = n
            BY <1>2, <1>3
        <3> QED BY <1>5, <3>1 DEF Inv, Handed, a, u
    <2>4. got \in Seq(Data) /\ Len(got) - n + 1 = u + 1
        BY <1>2, <2>3 DEF Inv, Types
    <2> DEFINE s == SubSeq(got, u + 1, n + u)
    <2>5. s \in Seq(Data) /\ Len(s) = n /\ \A i \in 1..n : s[i] = got[i + u]
        <3>1. u + 1 \in 1..Len(got) /\ n + u \in 1..Len(got) /\ (n + u) - (u + 1) + 1 = n
            BY <1>2, <2>3
        <3>2. \A i \in 1..n : (u + 1) + i - 1 = i + u
            BY <1>2
        <3>3. s \in Seq(Data) /\ Len(s) = n /\ \A i \in 1..n : s[i] = got[(u + 1) + i - 1]
            BY <1>2, <2>4, <3>1
        <3> QED BY <3>2, <3>3
    <2>6. Okay.data = s
        BY <2>2, <2>3, <2>4
    <2> HIDE DEF s
    <2>7. s = [i \in 1..n |-> s[i]]
        BY <1>2, <2>5
    <2>8. \A i \in 1..n : s[i] = mem[a + i - 1]
        BY <1>4, <2>3, <2>5
    <2> QED BY <2>6, <2>7, <2>8 DEF Slice
<1>6. ASSUME req.cmd \in MemoryWrites, InLine
      PROVE  Slice(a, n) = req.data
    <2> HIDE DEF n, a
    <2>1. \A j \in 1..n : mem[a + (j - 1)] = req.data[j]
        <3>1. \A j \in 1..n : j <= Done - 4
            BY <1>2, <1>3
        <3> QED BY <1>6, <3>1 DEF Inv, Stored, n, a
    <2>2. \A i \in 1..n : mem[a + i - 1] = req.data[i]
        BY <1>4, <2>1
    <2> QED BY <1>2, <1>6, <2>2 DEF Slice
<1> QED BY <1>1, <1>2, <1>5, <1>6

LEMMA ReplyStep ==
    ASSUME Inv, Reply
    PROVE  Inv'
<1>1. /\ server = "exec" /\ todo = <<>> /\ server' # "exec"
      /\ answer' = IF Failed THEN Error ELSE Okay
      /\ got' = <<>>
      /\ req' = IF Failed THEN NoRequest ELSE req
      /\ from' = IF Failed THEN Nowhere ELSE from
      /\ UNCHANGED <<todo, ack, mem, buf, bank, tar, sticky>>
    BY DEF Reply, Sequences, LineReset, Garble, swdVars, target
<1>2. Types'
    BY <1>1, Sizes DEF Inv, Types, Nowhere
<1>3. OnTheWay' /\ Stopped' /\ Selected' /\ Fetched' /\ Handed' /\ Stored' /\ Clean' /\ ApRead'
    BY <1>1 DEF Going, OnTheWay, Stopped, Selected, Fetched, Handed, Stored, Clean, ApRead
<1>4. ReadsAreTrue' /\ WritesHappened' /\ OkLeavesClean'
    <2>1. answer'.kind = "okay" => ~Failed /\ answer' = Okay
        BY <1>1 DEF Error
    <2> SUFFICES ASSUME ~Failed, answer' = Okay, req' = req, from' = from
                 PROVE  ReadsAreTrue' /\ WritesHappened' /\ OkLeavesClean'
        BY <1>1, <2>1 DEF ReadsAreTrue, WritesHappened, OkLeavesClean
    <2>2. CASE req.cmd \in Memory
        <3> DEFINE n == Count(req)
        <3>1. Going
            BY <1>1, <2>2 DEF Failed, Going, Memory, MemoryReads, MemoryWrites
        <3>2. /\ n \in Nat \ {0} /\ Start \in Nat
              /\ req.cmd \notin Multiple => Start = req.addr /\ req.addr \in Words
              /\ req.cmd \in MemoryReads /\ InLine => Okay.data = Slice(Start, n)
              /\ req.cmd \in MemoryWrites /\ InLine => Slice(Start, n) = req.data
            BY <1>1, <3>1, AnswerIsTrue
        <3>3. /\ \A a, k : Slice(a, k)' = Slice(a, k)
              /\ \A k : Aimed(k)' = Aimed(k)
            BY <1>1 DEF Slice, Aimed
        <3>4. \A a \in Nat : InOnePage(a, 1) /\ Slice(a, 1) = <<mem[a]>>
            <4> SUFFICES ASSUME NEW a \in Nat PROVE InOnePage(a, 1) /\ Slice(a, 1) = <<mem[a]>>
                OBVIOUS
            <4>1. \A i \in 1..1 : i = 1 /\ a + i - 1 = a
                OBVIOUS
            <4>2. Slice(a, 1) = [i \in 1..1 |-> mem[a]]
                BY <4>1 DEF Slice
            <4>3. \A x : [i \in 1..1 |-> x] = <<x>>
                OBVIOUS
            <4> QED BY <4>2, <4>3, OneWord
        <3>5. req.cmd \in {"read_mem", "write_mem"} =>
                  n = 1 /\ Start = req.addr /\ InLine /\ Slice(Start, n) = <<mem[req.addr]>>
            <4>1. req.cmd \in {"read_mem", "write_mem"} => n = 1 /\ Start = req.addr /\ Known
                BY <3>2 DEF Count, Multiple, Known
            <4> QED BY <3>2, <3>4, <4>1 DEF InLine
        <3>6. /\ req.cmd \in {"read_block32", "write_block32"} =>
                     Start = req.addr /\ (InOnePage(req.addr, n) => InLine)
              /\ req.cmd \in Multiple => Start = from.addr /\ (Aimed(n) => InLine)
            BY DEF Start, InLine, Known, Multiple, Aimed
        <3>7. /\ req.cmd = "read_mem" => Okay.data = <<mem[req.addr]>>
              /\ req.cmd = "write_mem" => mem[req.addr] = req.data[1]
            <4>1. <<mem[req.addr]>>[1] = mem[req.addr]
                OBVIOUS
            <4> QED BY <3>2, <3>5, <4>1 DEF MemoryReads, MemoryWrites
        <3>8. /\ req.cmd = "read_block32" /\ InOnePage(req.addr, req.n) =>
                     Okay.data = Slice(req.addr, req.n)
              /\ req.cmd = "read_ap_multiple" /\ Aimed(req.n) =>
                     Okay.data = Slice(from.addr, req.n)
            <4>1. req.cmd \in {"read_block32", "read_ap_multiple"} =>
                      n = req.n /\ req.cmd \in MemoryReads
                BY DEF Count, MemoryReads
            <4> HIDE DEF n
            <4> QED BY <3>2, <3>6, <4>1 DEF Multiple
        <3>9. /\ req.cmd = "write_block32" /\ InOnePage(req.addr, Len(req.data)) =>
                     Slice(req.addr, Len(req.data)) = req.data
              /\ req.cmd = "write_ap_multiple" /\ Aimed(Len(req.data)) =>
                     Slice(from.addr, Len(req.data)) = req.data
            <4>1. req.cmd \in {"write_block32", "write_ap_multiple"} =>
                      n = Len(req.data) /\ req.cmd \in MemoryWrites
                BY DEF Count, MemoryWrites
            <4> HIDE DEF n
            <4> QED BY <3>2, <3>6, <4>1 DEF Multiple
        <3>10. ~(req.cmd = "read_mem" /\ req.addr = LastWord) => ~sticky
            BY <1>1, <3>1 DEF Inv, Clean
        <3>11. ReadsAreTrue'
            BY <1>1, <2>2, <3>3, <3>7, <3>8 DEF ReadsAreTrue, Memory, MemoryReads, MemoryWrites
        <3>12. WritesHappened'
            BY <1>1, <3>3, <3>7, <3>9 DEF WritesHappened
        <3>13. OkLeavesClean'
            BY <1>1, <3>10 DEF OkLeavesClean
        <3> QED BY <3>11, <3>12, <3>13
    <2>3. CASE req.cmd = "read_ap"
        <3>1. ack = "Ok"
            BY <2>3 DEF Failed
        <3>2. from.aimed => got # <<>> /\ got[Len(got)] = mem[from.addr]
            BY <1>1, <2>3, <3>1 DEF Inv, ApRead
        <3>3. Okay.data = SubSeq(got, Len(got) - 1 + 1, Len(got))
            BY <2>3 DEF Okay, Reads, ResultLength
        <3>4. ASSUME from.aimed PROVE Okay.data = <<mem[from.addr]>>
            <4>1. got \in Seq(Data) /\ got # <<>>
                BY <3>2, <3>4 DEF Inv, Types
            <4>2. Len(got) \in Nat \ {0} /\ Len(got) - 1 + 1 = Len(got)
                BY <4>1
            <4>3. \A s \in Seq(Data) : s # <<>> => SubSeq(s, Len(s), Len(s)) = <<s[Len(s)]>>
                <5> SUFFICES ASSUME NEW s \in Seq(Data), s # <<>>
                             PROVE  SubSeq(s, Len(s), Len(s)) = <<s[Len(s)]>>
                    OBVIOUS
                <5> DEFINE l == Len(s)
                           u == SubSeq(s, l, l)
                           v == <<s[l]>>
                <5>1. l \in Nat \ {0} /\ s[l] \in Data
                    OBVIOUS
                <5>2. u \in Seq(Data) /\ Len(u) = 1 /\ u[1] = s[l]
                    BY <5>1
                <5>3. v \in Seq(Data) /\ Len(v) = 1 /\ v[1] = s[l]
                    BY <5>1
                <5> HIDE DEF u, v
                <5>4. \A i \in 1..Len(u) : u[i] = v[i]
                    BY <5>2, <5>3
                <5>5. u = v
                    BY <5>2, <5>3, <5>4, SeqEqual
                <5> QED BY <5>5 DEF u, v
            <4> QED BY <3>2, <3>3, <3>4, <4>1, <4>2, <4>3
        <3> QED BY <1>1, <2>3, <3>4 DEF ReadsAreTrue, WritesHappened, OkLeavesClean
    <2>4. CASE req.cmd \notin Memory \cup {"read_ap"}
        BY <1>1, <2>4
        DEF ReadsAreTrue, WritesHappened, OkLeavesClean, Memory, MemoryReads, MemoryWrites
    <2> QED BY <2>2, <2>3, <2>4
<1> QED BY <1>2, <1>3, <1>4 DEF Inv

LEMMA IgnoreStep ==
    ASSUME Inv, Ignore
    PROVE  Inv'
<1>1. CASE Restart
    BY <1>1, RestartStep
<1>2. CASE server' = "recv" /\ UNCHANGED <<swdVars, conn, requestVars>>
    <2>1. /\ UNCHANGED <<mem, buf, bank, tar, sticky, req, todo, got, answer, ack, from>>
          /\ server' # "exec"
        BY <1>2 DEF swdVars, target, requestVars
    <2>2. Types'
        BY <2>1 DEF Inv, Types
    <2>3. ReadsAreTrue' /\ WritesHappened' /\ OkLeavesClean'
        BY <2>1 DEF Inv, ReadsAreTrue, WritesHappened, OkLeavesClean, Slice, Aimed
    <2>4. OnTheWay' /\ Stopped' /\ Selected' /\ Fetched' /\ Handed' /\ Stored' /\ Clean' /\ ApRead'
        BY <2>1 DEF Going, OnTheWay, Stopped, Selected, Fetched, Handed, Stored, Clean, ApRead
    <2> QED BY <2>2, <2>3, <2>4 DEF Inv
<1> QED BY <1>1, <1>2 DEF Ignore

\* Inv holds in every state, whatever the noise, and whenever power is lost.
THEOREM ProbeInvariant == Spec => []Inv
<1>1. Init => Inv
    BY StartedInv
<1>2. Inv /\ [Next]_vars => Inv'
    <2> SUFFICES ASSUME Inv, [Next]_vars PROVE Inv'
        OBVIOUS
    <2>1. CASE ClientLeaves
        BY <2>1, StillStep DEF ClientLeaves, swdVars, target
    <2>2. ASSUME NEW r \in Requests, Recv(r) PROVE Inv'
        BY <2>2, RecvStep
    <2>3. CASE Accept
        BY <2>3, AcceptStep
    <2>4. CASE RecvClosed
        BY <2>4, StillStep DEF RecvClosed, swdVars, target
    <2>5. CASE RecvFails
        BY <2>5, RestartStep DEF RecvFails
    <2>6. CASE Transfer
        BY <2>6, TransferKeeps
    <2>7. CASE Reply
        BY <2>7, ReplyStep
    <2>8. CASE Ignore
        BY <2>8, IgnoreStep
    <2>9. CASE (LosePower \/ GetPower) /\ UNCHANGED <<serverVars, requestVars>>
        BY <2>9, StillStep DEF LosePower, GetPower, serverVars
    <2>10. CASE UNCHANGED vars
        BY <2>10, StillStep DEF vars, swdVars, target, serverVars
    <2> QED BY <2>1, <2>2, <2>3, <2>4, <2>5, <2>6, <2>7, <2>8, <2>9, <2>10 DEF Next, Server
<1> QED BY <1>1, <1>2, PTL DEF Spec

\* A read that is answered with success returns what the memory holds, in
\* memories, pages and blocks of every size (readMemory and readMemoryBlcok32).
THEOREM ReadsReturnMemory == Spec => []ReadsAreTrue
<1>1. Inv => ReadsAreTrue
    BY DEF Inv
<1> QED BY <1>1, ProbeInvariant, PTL

\* A write that is answered with success is in the memory: the read behind it
\* shows a word that was lost (writeMemory and writeMemoryBlcok32).
THEOREM WritesReachMemory == Spec => []WritesHappened
<1>1. Inv => WritesHappened
    BY DEF Inv
<1> QED BY <1>1, ProbeInvariant, PTL

\* A memory access answered with success leaves no error to the next request,
\* but for a read_mem of the last word.
THEOREM NoErrorBehind == Spec => []OkLeavesClean
<1>1. Inv => OkLeavesClean
    BY DEF Inv
<1> QED BY <1>1, ProbeInvariant, PTL

-----------------------------------------------------------------------------
(* Types *)

Bounds ==
    /\ noise \in 0..MaxNoise
    /\ losses \in 0..MaxPowerLosses

SwitchTypes == {powered, linked, sticky, inc, driven} \subseteq BOOLEAN

LineTypes ==
    /\ conn \in {"none", "open", "finished", "reset"}
    /\ server \in {"accept", "recv", "exec"}
    /\ ack \in {"Ok", "Fault", "ParityError", "None"}
    /\ from \in [addr : 0..(LastWord + 1), aimed : BOOLEAN]

\* What is left of a request is the end of its transfers.
Remaining(r, s) == \E n \in 0..Len(Transfers(r)) :
                       s = SubSeq(Transfers(r), n + 1, Len(Transfers(r)))
AnEnd == todo = <<>> \/ Remaining(req, todo)

\* The second read of read_ap brings the result.
ApGot == server = "exec" /\ req.cmd = "read_ap" /\ todo = <<>> /\ ack = "Ok" => got # <<>>

AnswerTypes ==
    /\ answer.kind \in {"none", "okay", "error"}
    /\ answer.data \in {<<>>} \cup [1..1 -> Data] \cup UNION {BlocksOf(n) : n \in Blocks}

Typed == Bounds /\ SwitchTypes /\ LineTypes /\ AnEnd /\ ApGot /\ AnswerTypes

LEMMA FreshTypes ==
    ASSUME conn = "none", server = "accept", req = NoRequest, todo = <<>>, got = <<>>,
           answer = NoAnswerYet, ack = "Ok", from = Nowhere
    PROVE  LineTypes /\ AnEnd /\ ApGot /\ AnswerTypes
<1>1. LineTypes
    BY Sizes DEF LineTypes, Nowhere
<1>2. AnEnd /\ ApGot
    BY DEF AnEnd, ApGot
<1>3. AnswerTypes
    BY DEF AnswerTypes, NoAnswerYet
<1> QED BY <1>1, <1>2, <1>3

LEMMA InitTyped == Init => Typed
<1> SUFFICES ASSUME Init PROVE Typed
    OBVIOUS
<1>1. Bounds
    BY Sizes DEF Init, SwdInit, Bounds
<1>2. SwitchTypes
    BY Zenon DEF Init, SwdInit, SwitchTypes
<1>3. LineTypes /\ AnEnd /\ ApGot /\ AnswerTypes
    BY FreshTypes DEF Init
<1> QED BY <1>1, <1>2, <1>3 DEF Typed

\* What is bounded, whatever happens.
LEMMA BoundsKept ==
    ASSUME Inv, Typed, [Next]_vars
    PROVE  Bounds'
<1> USE DEF Bounds
<1>1. CASE UNCHANGED swdVars
    BY <1>1 DEF Typed, swdVars, target
<1>2. CASE (LosePower \/ GetPower) /\ UNCHANGED <<serverVars, requestVars>>
    BY <1>2, Sizes DEF Typed, LosePower, GetPower
<1>3. CASE Restart \/ Reply
    BY <1>1, <1>3 DEF Typed, Restart, Reply, Sequences, LineReset, Garble, target
<1>4. CASE Transfer
    <2> DEFINE t == Head(todo)
    <2>2. \/ TransferOk(t) \/ TransferFault(t) \/ ReadParityError(t) \/ WriteLost(t)
          \/ NoAnswer
        BY <1>4 DEF Transfer
    <2> HIDE DEF t
    <2>3. CASE TransferOk(t) \/ ReadParityError(t)
        BY <2>3, Sizes DEF TransferOk, ReadParityError, Disturbed, Typed
    <2>4. CASE TransferFault(t) \/ WriteLost(t) \/ NoAnswer
        BY <1>1, <2>4, Sizes DEF TransferFault, WriteLost, NoAnswer, Disturbed, Typed, target
    <2> QED BY <2>2, <2>3, <2>4
<1> QED
    BY <1>1, <1>2, <1>3, <1>4 DEF Next, Server, ClientLeaves, Recv, Accept, RecvClosed,
       RecvFails, Ignore, vars

LEMMA SwitchesKept ==
    ASSUME Typed, [Next]_vars
    PROVE  SwitchTypes'
<1> DEFINE B(x, y) == y = x \/ y = TRUE \/ y = FALSE
<1>0. \A x \in BOOLEAN : \A y : B(x, y) => y \in BOOLEAN
    BY Zenon
<1>1. powered' \in BOOLEAN
    <2>1. B(powered, powered')
        BY DEF Next, Server, ClientLeaves, Recv, Accept, RecvClosed, RecvFails, Restart, Transfer,
           TransferOk, TransferFault, ReadParityError, WriteLost, NoAnswer, Perform, AccessMemory,
           AccessRegister, Reply, Sequences, LineReset, Garble, Ignore, LosePower, GetPower, target, swdVars, vars
    <2> QED BY <1>0, <2>1, Zenon DEF Typed, SwitchTypes
<1>2. linked' \in BOOLEAN
    <2>1. \/ B(linked, linked')
          \/ linked' = (linked \/ (driven /\ powered))
          \/ linked' = (linked /\ ~driven)
        BY DEF Next, Server, ClientLeaves, Recv, Accept, RecvClosed, RecvFails, Restart, Transfer,
           TransferOk, TransferFault, ReadParityError, WriteLost, NoAnswer, Perform, AccessMemory,
           AccessRegister, Reply, Sequences, LineReset, Garble, Ignore, LosePower, GetPower, target, swdVars, vars
    <2> QED BY <1>0, <2>1, Zenon DEF Typed, SwitchTypes
<1>3. sticky' \in BOOLEAN
    <2>1. \/ B(sticky, sticky')
          \/ sticky' = (tar \notin Words)
          \/ sticky' = (sticky /\ Head(todo).reg # "ABORT")
        BY DEF Next, Server, ClientLeaves, Recv, Accept, RecvClosed, RecvFails, Restart, Transfer,
           TransferOk, TransferFault, ReadParityError, WriteLost, NoAnswer, Perform, AccessMemory,
           AccessRegister, Reply, Sequences, LineReset, Garble, Ignore, LosePower, GetPower, target, swdVars, vars
    <2> QED BY <1>0, <2>1, Zenon DEF Typed, SwitchTypes
<1>4. inc' \in BOOLEAN
    <2>1. B(inc, inc') \/ inc' = (Head(todo).val = 1)
        BY DEF Next, Server, ClientLeaves, Recv, Accept, RecvClosed, RecvFails, Restart, Transfer,
           TransferOk, TransferFault, ReadParityError, WriteLost, NoAnswer, Perform, AccessMemory,
           AccessRegister, Reply, Sequences, LineReset, Garble, Ignore, LosePower, GetPower, target, swdVars, vars
    <2> QED BY <1>0, <2>1, Zenon DEF Typed, SwitchTypes
<1>5. driven' \in BOOLEAN
    <2>1. B(driven, driven')
        BY DEF Next, Server, ClientLeaves, Recv, Accept, RecvClosed, RecvFails, Restart, Transfer,
           TransferOk, TransferFault, ReadParityError, WriteLost, NoAnswer, Perform, AccessMemory,
           AccessRegister, Reply, Sequences, LineReset, Garble, Ignore, LosePower, GetPower, target, swdVars, vars
    <2> QED BY <1>0, <2>1, Zenon DEF Typed, SwitchTypes
<1> QED BY <1>1, <1>2, <1>3, <1>4, <1>5 DEF SwitchTypes

\* One transfer less is left, or none.
LEMMA EndKept ==
    ASSUME Inv, AnEnd, Transfer
    PROVE  AnEnd'
<1> DEFINE T == Transfers(req)
           L == Len(T)
<1>1. req' = req /\ todo' \in {Tail(todo), <<>>} /\ todo # <<>>
    BY DEF Transfer, Executing, Outcome
<1>2. T \in Seq(Steps)
    <2>1. CASE req \in Requests
        BY <2>1, TransfersType
    <2>2. CASE req = NoRequest
        <3>1. T = <<>>
            BY <2>2 DEF Transfers, NoRequest, Request
        <3> QED BY <3>1
    <2> QED BY <2>1, <2>2 DEF Inv, Types
<1> SUFFICES ASSUME todo' = Tail(todo) PROVE Remaining(req, Tail(todo))
    BY <1>1 DEF AnEnd
<1>3. PICK n \in 0..L : todo = SubSeq(T, n + 1, L)
    BY <1>1 DEF AnEnd, Remaining
<1> HIDE DEF T
<1>4. L \in Nat /\ Len(todo) = L - n /\ n + 1 \in 0..L
    BY <1>1, <1>2, <1>3
<1> DEFINE u == Tail(todo)
           v == SubSeq(T, (n + 1) + 1, L)
<1>5. todo \in Seq(Steps) /\ \A i \in 1..(L - n) : todo[i] = T[n + i]
    BY <1>2, <1>3, <1>4
<1>6. u \in Seq(Steps) /\ Len(u) = (L - n) - 1 /\ \A i \in 1..((L - n) - 1) : u[i] = todo[i + 1]
    BY <1>1, <1>4, <1>5
<1>7. /\ v \in Seq(Steps) /\ Len(v) = L - (n + 1)
      /\ \A i \in 1..(L - (n + 1)) : v[i] = T[(n + 1) + i]
    BY <1>2, <1>4
<1> HIDE DEF u, v
<1>8. Len(u) = Len(v) /\ \A i \in 1..Len(u) : u[i] = v[i]
    <2>1. Len(u) = Len(v)
        BY <1>4, <1>6, <1>7
    <2>2. ASSUME NEW i \in 1..Len(u) PROVE u[i] = v[i]
        <3>1. i + 1 \in 1..(L - n) /\ n + (i + 1) = (n + 1) + i
            BY <1>4, <1>6, <2>2
        <3>2. i \in 1..(L - (n + 1)) /\ i \in 1..((L - n) - 1)
            BY <1>4, <1>6, <2>2
        <3> QED BY <1>5, <1>6, <1>7, <3>1, <3>2
    <2> QED BY <2>1, <2>2
<1>9. u = v
    BY <1>6, <1>7, <1>8, SeqEqual
<1> QED BY <1>4, <1>9 DEF T, u, v, Remaining

LEMMA TransferTyped ==
    ASSUME Inv, Typed, Transfer
    PROVE  LineTypes' /\ AnEnd' /\ ApGot' /\ AnswerTypes'
<1>1. PICK a \in {"Ok", "Fault", "ParityError", "None"} :
          /\ Outcome(a)
          /\ a = "Ok" => TransferOk(Head(todo)) \/ WriteLost(Head(todo))
    BY DEF Transfer
<1>2. /\ UNCHANGED <<conn, server, req, answer, from>> /\ ack' = a
      /\ todo # <<>> /\ server = "exec"
      /\ got' = IF a = "Ok" /\ Head(todo).rnw THEN Append(got, buf) ELSE got
    BY <1>1 DEF Outcome, serverVars, Transfer, Executing
<1>3. LineTypes' /\ AnswerTypes'
    BY <1>2 DEF Typed, LineTypes, AnswerTypes
<1>4. ApGot'
    <2> SUFFICES ASSUME req.cmd = "read_ap", a = "Ok" PROVE got' # <<>>
        BY <1>2 DEF ApGot
    <2>1. Head(todo).rnw
        BY <1>2 DEF Inv, ApRead, Read
    <2>2. got \in Seq(Data) /\ buf \in Data
        BY DEF Inv, Types
    <2>3. Append(got, buf) # <<>>
        BY <2>2, AppendProperties
    <2> QED BY <1>2, <2>1, <2>3
<1> QED BY <1>3, <1>4, EndKept DEF Typed

\* The last results, as many as a request asks for.
LEMMA LastOnes ==
    ASSUME NEW s \in Seq(Data), NEW n \in Nat \ {0}, n <= Len(s)
    PROVE  SubSeq(s, Len(s) - n + 1, Len(s)) \in [1..n -> Data]
<1> DEFINE u == SubSeq(s, Len(s) - n + 1, Len(s))
<1>1. Len(s) - n + 1 \in 1..Len(s) /\ Len(s) - (Len(s) - n + 1) + 1 = n
    OBVIOUS
<1>2. u \in Seq(Data) /\ Len(u) = n
    BY <1>1
<1> HIDE DEF u
<1>3. u \in [1..n -> Data]
    BY <1>2
<1> QED BY <1>3 DEF u

LEMMA ReplyTyped ==
    ASSUME Inv, Typed, Reply
    PROVE  AnswerTypes'
<1>1. /\ server = "exec" /\ todo = <<>>
      /\ answer' = IF Failed THEN Error ELSE Okay
    BY DEF Reply
<1>2. CASE Failed \/ req.cmd \notin Reads
    BY <1>1, <1>2 DEF Error, Okay, AnswerTypes
<1>3. CASE ~Failed /\ req.cmd \in Reads
    <2>1. ack = "Ok" /\ got \in Seq(Data)
        BY <1>3 DEF Failed, Reads, Inv, Types
    <2>2. /\ answer'.kind = "okay"
          /\ answer'.data = SubSeq(got, Len(got) - ResultLength + 1, Len(got))
        BY <1>1, <1>3 DEF Okay
    <2>3. CASE req.cmd = "read_ap"
        <3>1. got # <<>> /\ ResultLength = 1
            BY <1>1, <2>1, <2>3 DEF Typed, ApGot, ResultLength
        <3>2. 1 <= Len(got)
            BY <2>1, <3>1
        <3>3. answer'.data \in [1..1 -> Data]
            BY <2>1, <2>2, <3>1, <3>2, LastOnes
        <3> QED BY <2>2, <3>3 DEF AnswerTypes
    <2>4. CASE req.cmd \in MemoryReads
        <3>1. Going /\ req.cmd \in Memory
            BY <1>1, <2>1, <2>4 DEF Going, Memory, MemoryReads
        <3>2. req \in Requests /\ Count(req) \in Nat \ {0} /\ Useless(req) \in {1, 2}
            BY <1>1, <3>1, AnswerIsTrue DEF Useless
        <3>3. Len(got) = Count(req) + Useless(req)
            <4>1. Done = Count(req) + 5
                <5>1. Len(todo) = 0
                    BY <1>1
                <5> QED BY <3>2, <5>1 DEF Done
            <4>2. ~(Done < 3) /\ Done # 3 /\ Done - 5 = Count(req)
                BY <3>2, <4>1
            <4> QED BY <2>4, <3>1, <4>2 DEF Inv, Handed
        <3>4. ResultLength = Count(req)
            BY <2>4 DEF ResultLength, Count, MemoryReads
        <3>5. answer'.data \in [1..Count(req) -> Data]
            <4>1. Count(req) <= Len(got)
                BY <3>2, <3>3
            <4> QED BY <2>1, <2>2, <3>2, <3>4, <4>1, LastOnes
        <3>6. CASE req.cmd = "read_mem"
            <4>1. Count(req) = 1
                BY <3>6 DEF Count
            <4> QED BY <2>2, <3>5, <4>1 DEF AnswerTypes
        <3>7. CASE req.cmd \in {"read_block32", "read_ap_multiple"}
            <4>1. Count(req) = req.n /\ req.n \in Blocks
                BY <3>2, <3>7, RequestIs DEF Count
            <4>2. answer'.data \in UNION {BlocksOf(n) : n \in Blocks}
                BY <3>5, <4>1 DEF BlocksOf
            <4> QED BY <2>2, <4>2 DEF AnswerTypes
        <3> QED BY <2>4, <3>6, <3>7 DEF MemoryReads
    <2> QED BY <1>3, <2>3, <2>4 DEF Reads, MemoryReads
<1> QED BY <1>2, <1>3

LEMMA RecvTyped ==
    ASSUME Inv, Typed, NEW r \in Requests, Recv(r)
    PROVE  LineTypes' /\ AnEnd' /\ ApGot' /\ AnswerTypes'
<1>1. /\ server' = "exec" /\ req' = r /\ todo' = Transfers(r) /\ answer' = NoAnswerYet
      /\ ack' = "Ok" /\ conn' = conn
      /\ from' = IF r.cmd \in ApData THEN Found(r.cmd) ELSE Nowhere
    BY DEF Recv
<1>2. from' \in [addr : 0..(LastWord + 1), aimed : BOOLEAN]
    <2>1. tar \in 0..(LastWord + 1)
        BY DEF Inv, Types
    <2>2. (bank = 0 /\ (inc \/ r.cmd = "read_ap")) \in BOOLEAN
        BY Zenon
    <2>3. Found(r.cmd) \in [addr : 0..(LastWord + 1), aimed : BOOLEAN]
        BY <2>1, <2>2, Zenon DEF Found
    <2>4. Nowhere \in [addr : 0..(LastWord + 1), aimed : BOOLEAN]
        BY Sizes DEF Nowhere
    <2> QED BY <1>1, <2>3, <2>4, Zenon
<1>3. LineTypes'
    BY <1>1, <1>2 DEF Typed, LineTypes
<1>4. AnswerTypes'
    BY <1>1 DEF AnswerTypes, NoAnswerYet
<1>5. AnEnd'
    <2> DEFINE T == Transfers(r)
    <2>1. T \in Seq(Steps)
        BY TransfersType
    <2> HIDE DEF T
    <2>2. Len(T) \in Nat /\ 0 \in 0..Len(T)
        BY <2>1
    <2>3. SubSeq(T, 0 + 1, Len(T)) = T
        <3> DEFINE u == SubSeq(T, 0 + 1, Len(T))
        <3>1. u \in Seq(Steps) /\ Len(u) = Len(T) /\ \A i \in 1..Len(T) : u[i] = T[i]
            BY <2>1, <2>2
        <3> HIDE DEF u
        <3>2. u = T
            BY <2>1, <3>1, SeqEqual
        <3> QED BY <3>2 DEF u
    <2> QED BY <1>1, <2>2, <2>3 DEF AnEnd, Remaining, T
<1>6. ApGot'
    <2>1. r.cmd = "read_ap" => todo' # <<>>
        BY <1>1 DEF Transfers, ReadAp
    <2> QED BY <1>1, <2>1 DEF ApGot
<1> QED BY <1>3, <1>4, <1>5, <1>6

\* No variable leaves its type: TAR runs at most one word past the memory, and
\* what is left of a request is always the end of its transfers.
THEOREM TypeCorrect == Spec => []TypeOK
<1>1. Inv /\ Typed /\ [Next]_vars => Typed'
    <2> SUFFICES ASSUME Inv, Typed, [Next]_vars PROVE Typed'
        OBVIOUS
    <2>1. Bounds' /\ SwitchTypes'
        BY BoundsKept, SwitchesKept
    <2>2. CASE Restart
        <3>1. /\ conn' = "none" /\ server' = "accept" /\ req' = NoRequest /\ todo' = <<>>
              /\ got' = <<>> /\ answer' = NoAnswerYet /\ ack' = "Ok" /\ from' = Nowhere
            BY <2>2 DEF Restart
        <3>2. LineTypes'
            BY <3>1, Sizes DEF LineTypes, Nowhere
        <3>3. AnEnd' /\ ApGot' /\ AnswerTypes'
            BY <3>1 DEF AnEnd, ApGot, AnswerTypes, NoAnswerYet
        <3> QED BY <2>1, <3>2, <3>3 DEF Typed
    <2>3. ASSUME NEW r \in Requests, Recv(r) PROVE Typed'
        BY <2>1, <2>3, RecvTyped DEF Typed
    <2>4. CASE Transfer
        BY <2>1, <2>4, TransferTyped DEF Typed
    <2>5. CASE Reply
        <3>1. /\ server' = "recv" /\ todo = <<>> /\ UNCHANGED <<conn, todo, ack>>
              /\ from' \in {from, Nowhere}
            BY <2>5 DEF Reply
        <3>2. Nowhere \in [addr : 0..(LastWord + 1), aimed : BOOLEAN]
            BY Sizes DEF Nowhere
        <3>3. LineTypes' /\ AnEnd' /\ ApGot'
            BY <3>1, <3>2 DEF Typed, LineTypes, AnEnd, ApGot
        <3> QED BY <2>1, <2>5, <3>3, ReplyTyped DEF Typed
    <2>6. ASSUME UNCHANGED requestVars,
                 conn' \in {conn, "open", "finished", "reset"},
                 server' \in {server, "recv"}
          PROVE  Typed'
        <3>1. LineTypes' /\ AnEnd' /\ ApGot' /\ AnswerTypes'
            BY <2>6 DEF Typed, LineTypes, AnEnd, ApGot, AnswerTypes, requestVars
        <3> QED BY <2>1, <3>1 DEF Typed
    <2>7. CASE ClientLeaves \/ Accept \/ RecvClosed \/ (Ignore /\ ~Restart)
        BY <2>6, <2>7 DEF ClientLeaves, Accept, RecvClosed, Ignore
    <2>8. CASE (LosePower \/ GetPower) /\ UNCHANGED <<serverVars, requestVars>>
        BY <2>6, <2>8 DEF serverVars
    <2>9. CASE UNCHANGED vars
        BY <2>6, <2>9 DEF vars, serverVars
    <2> QED
        BY <2>2, <2>3, <2>4, <2>5, <2>7, <2>8, <2>9 DEF Next, Server, RecvFails
<1>2. Inv /\ Typed => TypeOK
    BY DEF Inv, Types, Typed, Bounds, SwitchTypes, LineTypes, AnEnd, Remaining,
       AnswerTypes, TypeOK, SwdTypeOK
<1> QED BY <1>1, <1>2, InitTyped, ProbeInvariant, PTL DEF Spec
=============================================================================
