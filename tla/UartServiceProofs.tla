-------------------------- MODULE UartServiceProofs --------------------------
(***************************************************************************)
(* Proofs about UartService for any number of settings, bytes, messages    *)
(* and baud rates, and about Transmit, every step of which is one of it.    *)
(*                                                                         *)
(* The properties say what cannot happen while nobody is in init.  They    *)
(* follow from where init is: the driver is away only between its deletion *)
(* and its installation (DriverThere), the thread of a reader that is not   *)
(* the last one has ended (OnlyLast), its flag is down only while it is     *)
(* waited for (RunUp), and calls the driver was deleted under have come     *)
(* back before their object is replaced (TornGone).                        *)
(*                                                                         *)
(* That no byte is lost between reads and lines, nor a time stamp put into *)
(* a line, is about the buffers: the pieces cut, joined, and what is left  *)
(* in the buffer are what has been taken from the driver (Joined), and     *)
(* newLine remembers how the last piece ended (MarkNext).  FlattenSeq,     *)
(* which joins them, is a recursive function; what it does to a longer     *)
(* sequence follows from the smallest counterexample (Induct).             *)
(*                                                                         *)
(* The texts that have gone out, the one in hand and those queued are, in  *)
(* this order, ascending (InTurn), and together they are those queued ever,*)
(* except the ones that the property excuses (NoneMissing).                *)
(***************************************************************************)
EXTENDS Transmit, FiniteSetTheorems, SequenceTheorems, WellFoundedInduction, TLAPS

Places == {"idle", "delete", "install", "stop", "join", "untx", "start", "tx", "save"}

\* What the proof needs of the types of the variables.
Types ==
    /\ con \in Places
    /\ reader \in [Lives -> {"none", "spawned", "test", "read", "torn", "split"}]
    /\ run \in [Lives -> BOOLEAN]
    /\ proxy \in {"idle", "write", "torn"}
    /\ tx \in {"none", "added", "whole"}
    /\ settings \in 0..MaxSettings
    /\ life \in Nat

\* There is room for one more reader just when one is due.
LifeCount ==
    /\ life <= settings + 1
    /\ con \notin {"idle", "tx", "save"} => life <= settings

OnlyLast ==
    /\ \A l \in Lives : reader[l] # "none" => l = life
    /\ con \in {"untx", "start"} => \A l \in Lives : reader[l] = "none"

DriverThere == con \notin {"delete", "install"} => driver = TRUE

RunUp == \A l \in Lives : reader[l] # "none" /\ con # "join" => run[l] = TRUE

TornGone ==
    /\ \A l \in Lives : reader[l] = "torn" => con \in {"install", "stop", "join"}
    /\ proxy = "torn" => con \in {"install", "stop", "join", "untx"}

\* The first init after a start of the device has no reader and no writer to
\* replace, and a baud rate the driver has accepted before.
Boot ==
    /\ saved \in Good
    /\ con \notin {"delete", "install"} => want \in Good
    /\ life = 0 => /\ proxy = "idle" /\ tx = "none"
                   /\ con \in {"delete", "install", "start"}
    /\ booting = TRUE => /\ con \in {"delete", "install", "start", "tx", "save"}
                         /\ want \in Good
                         /\ con \in {"delete", "install", "start"} => life = 0

WriterThere == con \in {"save", "idle"} => tx = "whole"

Inv ==
    /\ Types /\ LifeCount
    /\ OnlyLast /\ DriverThere /\ RunUp /\ TornGone
    /\ Boot /\ WriterThere
relevant == <<driver, con, want, booting, saved, life, reader, run, tx, proxy, settings>>
-----------------------------------------------------------------------------
(* Crashes, and steps that do not concern Inv *)

LEMMA RelevantOnly == ASSUME Inv, UNCHANGED relevant PROVE Inv'
  BY DEF relevant, Inv, Types, LifeCount, OnlyLast, DriverThere, RunUp, TornGone,
         Boot, WriterThere

\* The device starts again with a baud rate the driver accepts.
LEMMA CrashKeepsInv == ASSUME Inv, Crash PROVE Inv'
<1>1. /\ con' = "delete" /\ life' = 0 /\ proxy' = "idle" /\ tx' = "none"
      /\ saved' \in {saved, Default} /\ want' \in {saved, Default}
      /\ settings' = settings
      /\ reader' = [l \in Lives |-> "none"]
      /\ run' = [l \in Lives |-> FALSE]
  BY DEF Crash, ReadRate
<1>2. settings \in Nat
  BY UartAssumption DEF Inv, Types
<1>3. Types' /\ LifeCount'
  BY <1>1, <1>2 DEF Inv, Types, LifeCount, Places
<1>4. OnlyLast' /\ DriverThere' /\ RunUp' /\ TornGone'
  BY <1>1 DEF OnlyLast, DriverThere, RunUp, TornGone
<1>5. Boot' /\ WriterThere'
  BY <1>1, UartAssumption DEF Inv, Boot, WriterThere
<1> QED
  BY <1>3, <1>4, <1>5 DEF Inv

LEMMA InitInv == Init => Inv
<1> SUFFICES ASSUME Init PROVE Inv
  OBVIOUS
<1>1. MaxSettings \in Nat
  BY UartAssumption
<1>2. Types /\ LifeCount
  BY <1>1 DEF Init, Types, LifeCount, Places
<1>3. OnlyLast /\ DriverThere /\ RunUp /\ TornGone
  BY DEF Init, OnlyLast, DriverThere, RunUp, TornGone
<1>4. Boot /\ WriterThere
  BY UartAssumption DEF Init, Boot, WriterThere
<1> QED
  BY <1>2, <1>3, <1>4 DEF Inv

-----------------------------------------------------------------------------
(* Readers and the proxy *)

\* A thread that runs may go on or end; that is all the readers do.
LEMMA ReaderMoves ==
    ASSUME Inv, NEW l \in Lives, NEW p \in {"none", "test", "read", "split"},
           reader[l] # "none", reader' = [reader EXCEPT ![l] = p], readerRest' = readerRest
    PROVE  Inv'
<1>1. UNCHANGED <<driver, con, want, booting, saved, life, run, tx, proxy, settings>>
  BY DEF readerRest, init, nvs, sender
<1>2. /\ reader' \in [Lives -> {"none", "spawned", "test", "read", "torn", "split"}]
      /\ \A k \in Lives : reader'[k] # "none" => reader[k] # "none"
      /\ \A k \in Lives : reader'[k] = "torn" => reader[k] = "torn"
  BY DEF Inv, Types
<1> QED
  BY <1>1, <1>2 DEF Inv, Types, LifeCount, OnlyLast, DriverThere, RunUp, TornGone,
                    Boot, WriterThere

LEMMA ReaderKeepsInv == ASSUME Inv, NEW l \in Lives, Reader(l) PROVE Inv'
<1>1. CASE ReaderEnter(l)
  BY <1>1, ReaderMoves, CrashKeepsInv DEF ReaderEnter
<1>2. CASE ReaderTest(l)
  BY <1>2, ReaderMoves, CrashKeepsInv DEF ReaderTest
<1>3. CASE ReaderRead(l)
  BY <1>3, ReaderMoves DEF ReaderRead
<1>4. CASE ReaderTorn(l)
  BY <1>4, ReaderMoves, CrashKeepsInv DEF ReaderTorn
<1>5. CASE WritePiece(l)
  <2>1. \E p \in {"none", "test", "read", "split"} : reader' = [reader EXCEPT ![l] = p]
    BY <1>5 DEF WritePiece
  <2> QED
    BY <1>5, <2>1, ReaderMoves DEF WritePiece
<1> QED
  BY <1>1, <1>2, <1>3, <1>4, <1>5 DEF Reader

LEMMA ProxyKeepsInv == ASSUME Inv, SendMessage \/ MessageSent \/ SendTorn PROVE Inv'
<1>1. CASE Crash
  BY <1>1, CrashKeepsInv
<1>2. CASE ~Crash
  <2>1. UNCHANGED <<driver, con, want, booting, saved, life, reader, run, tx, settings>>
    BY <1>2 DEF SendMessage, MessageSent, SendTorn, senderRest, init, nvs, readers
  <2>2. proxy' = proxy \/ proxy' = "idle" \/ (proxy' = "write" /\ tx = "whole")
    BY <1>2 DEF SendMessage, MessageSent, SendTorn
  <2> QED
    BY <2>1, <2>2 DEF Inv, Types, LifeCount, OnlyLast, DriverThere, RunUp, TornGone,
                      Boot, WriterThere
<1> QED
  BY <1>1, <1>2
-----------------------------------------------------------------------------
(* The steps of init *)

LEMMA SettingKeepsInv == ASSUME Inv, NEW b \in Bauds, Setting(b) PROVE Inv'
<1>1. /\ con = "idle" /\ con' = "delete" /\ want' = b /\ settings' = settings + 1
      /\ settings < MaxSettings
      /\ UNCHANGED <<driver, booting, saved, life, reader, run, tx, proxy>>
  BY DEF Setting, readers, sender, nvs
<1>2. settings' \in 0..MaxSettings /\ settings \in Nat /\ life \in Nat
  BY <1>1, UartAssumption DEF Inv, Types
<1>3. Types' /\ LifeCount'
  BY <1>1, <1>2 DEF Inv, Types, LifeCount, Places
<1>4. OnlyLast' /\ DriverThere' /\ RunUp' /\ TornGone'
  BY <1>1 DEF Inv, OnlyLast, DriverThere, RunUp, TornGone
<1>5. Boot' /\ WriterThere'
  BY <1>1 DEF Inv, Boot, WriterThere
<1> QED
  BY <1>3, <1>4, <1>5 DEF Inv

LEMMA DeleteDriverKeepsInv == ASSUME Inv, DeleteDriver PROVE Inv'
<1>1. /\ con = "delete" /\ con' = "install"
      /\ reader' = [l \in Lives |-> IF reader[l] = "read" THEN "torn" ELSE reader[l]]
      /\ proxy' = IF proxy = "write" THEN "torn" ELSE proxy
      /\ UNCHANGED <<want, booting, saved, life, run, tx, settings>>
  BY DEF DeleteDriver, nvs
<1>2. Types' /\ LifeCount'
  BY <1>1 DEF Inv, Types, LifeCount, Places
<1>3. OnlyLast' /\ DriverThere' /\ RunUp' /\ TornGone'
  BY <1>1 DEF Inv, OnlyLast, DriverThere, RunUp, TornGone
<1>4. Boot' /\ WriterThere'
  BY <1>1 DEF Inv, Boot, WriterThere
<1> QED
  BY <1>2, <1>3, <1>4 DEF Inv

LEMMA InstallDriverKeepsInv == ASSUME Inv, InstallDriver PROVE Inv'
<1>1. CASE Crash
  BY <1>1, CrashKeepsInv
<1>2. CASE ~Crash
  <2>1. /\ con = "install" /\ want \in Good /\ driver' = TRUE
        /\ con' = IF life = 0 THEN "start" ELSE "stop"
        /\ UNCHANGED <<want, booting, saved, life, reader, run, tx, proxy, settings>>
    BY <1>2 DEF InstallDriver, readers, sender, nvs
  <2>2. Types' /\ LifeCount'
    BY <2>1 DEF Inv, Types, LifeCount, Places
  <2>3. life = 0 => \A l \in Lives : reader[l] = "none"
    BY UartAssumption DEF Inv, OnlyLast, Lives
  <2>4. OnlyLast' /\ DriverThere' /\ RunUp'
    BY <2>1, <2>3 DEF Inv, OnlyLast, DriverThere, RunUp
  <2>5. TornGone'
    BY <2>1, <2>3 DEF Inv, TornGone, Boot
  <2>6. Boot' /\ WriterThere'
    BY <2>1 DEF Inv, Boot, WriterThere
  <2> QED
    BY <2>2, <2>4, <2>5, <2>6 DEF Inv
<1> QED
  BY <1>1, <1>2

LEMMA StopReaderKeepsInv == ASSUME Inv, StopReader PROVE Inv'
<1>1. /\ con = "stop" /\ con' = "join" /\ run' = [run EXCEPT ![life] = FALSE]
      /\ UNCHANGED <<driver, want, booting, saved, life, reader, tx, proxy, settings>>
  BY DEF StopReader, sender, initRest, nvs
<1>2. Types' /\ LifeCount'
  BY <1>1 DEF Inv, Types, LifeCount, Places
<1>3. OnlyLast' /\ DriverThere' /\ RunUp' /\ TornGone'
  BY <1>1 DEF Inv, OnlyLast, DriverThere, RunUp, TornGone
<1>4. Boot' /\ WriterThere'
  BY <1>1 DEF Inv, Boot, WriterThere
<1> QED
  BY <1>2, <1>3, <1>4 DEF Inv

LEMMA JoinReaderKeepsInv == ASSUME Inv, JoinReader PROVE Inv'
<1>1. /\ con = "join" /\ con' = "untx" /\ reader[life] = "none"
      /\ UNCHANGED <<driver, want, booting, saved, life, reader, run, tx, proxy, settings>>
  BY DEF JoinReader, readers, sender, initRest, nvs
<1>2. Types' /\ LifeCount'
  BY <1>1 DEF Inv, Types, LifeCount, Places
<1>3. \A l \in Lives : reader[l] = "none"
  BY <1>1 DEF Inv, OnlyLast
<1>4. OnlyLast' /\ DriverThere' /\ RunUp' /\ TornGone'
  BY <1>1, <1>3 DEF Inv, OnlyLast, DriverThere, RunUp, TornGone
<1>5. Boot' /\ WriterThere'
  BY <1>1 DEF Inv, Boot, WriterThere
<1> QED
  BY <1>2, <1>4, <1>5 DEF Inv

LEMMA RemoveTxKeepsInv == ASSUME Inv, RemoveTx PROVE Inv'
<1>1. /\ con = "untx" /\ con' = "start" /\ proxy = "idle" /\ tx' = "none"
      /\ UNCHANGED <<driver, want, booting, saved, life, reader, run, proxy, settings>>
  BY DEF RemoveTx, readers, initRest, nvs
<1>2. Types' /\ LifeCount'
  BY <1>1 DEF Inv, Types, LifeCount, Places
<1>3. OnlyLast' /\ DriverThere' /\ RunUp' /\ TornGone'
  BY <1>1 DEF Inv, OnlyLast, DriverThere, RunUp, TornGone
<1>4. Boot' /\ WriterThere'
  BY <1>1 DEF Inv, Boot, WriterThere
<1> QED
  BY <1>2, <1>3, <1>4 DEF Inv

LEMMA StartReaderKeepsInv == ASSUME Inv, StartReader PROVE Inv'
<1>1. /\ con = "start" /\ con' = "tx" /\ life' = life + 1
      /\ reader' = [reader EXCEPT ![life + 1] = "spawned"]
      /\ run' = [run EXCEPT ![life + 1] = TRUE]
      /\ UNCHANGED <<driver, want, booting, saved, tx, proxy, settings>>
  BY DEF StartReader, sender, initRest, nvs
<1>2. /\ life \in Nat /\ life <= settings /\ settings \in 0..MaxSettings
      /\ \A l \in Lives : reader[l] = "none"
  BY <1>1 DEF Inv, Types, LifeCount, OnlyLast
<1>3. life + 1 \in Lives /\ life + 1 # 0
  BY <1>2, UartAssumption DEF Lives
<1>4. Types' /\ LifeCount'
  BY <1>1, <1>2, <1>3 DEF Inv, Types, LifeCount, Places
<1>5. OnlyLast' /\ DriverThere' /\ RunUp' /\ TornGone'
  BY <1>1, <1>2, <1>3 DEF Inv, Types, OnlyLast, DriverThere, RunUp, TornGone
<1>6. Boot' /\ WriterThere'
  BY <1>1, <1>3 DEF Inv, Boot, WriterThere
<1> QED
  BY <1>4, <1>5, <1>6 DEF Inv

LEMMA AddTxKeepsInv == ASSUME Inv, AddTx PROVE Inv'
<1>1. /\ con = "tx"
      /\ \/ tx' = "added" /\ con' = con
         \/ tx' = "whole" /\ con' = "save"
      /\ UNCHANGED <<driver, want, booting, saved, life, reader, run, proxy, settings>>
  BY DEF AddTx, readers, initRest, nvs
<1>2. Types' /\ LifeCount'
  BY <1>1 DEF Inv, Types, LifeCount, Places
<1>3. OnlyLast' /\ DriverThere' /\ RunUp' /\ TornGone'
  BY <1>1 DEF Inv, OnlyLast, DriverThere, RunUp, TornGone
<1>4. Boot' /\ WriterThere'
  BY <1>1 DEF Inv, Boot, WriterThere
<1> QED
  BY <1>2, <1>3, <1>4 DEF Inv

LEMMA SaveKeepsInv == ASSUME Inv, Save PROVE Inv'
<1>1. /\ con = "save" /\ con' = "idle" /\ saved' \in {saved, want} /\ booting' = FALSE
      /\ UNCHANGED <<driver, want, life, reader, run, tx, proxy, settings>>
  BY DEF Save, nvs, readers, sender
<1>2. Types' /\ LifeCount'
  BY <1>1 DEF Inv, Types, LifeCount, Places
<1>3. OnlyLast' /\ DriverThere' /\ RunUp' /\ TornGone'
  BY <1>1 DEF Inv, OnlyLast, DriverThere, RunUp, TornGone
<1>4. Boot' /\ WriterThere'
  BY <1>1 DEF Inv, Boot, WriterThere
<1> QED
  BY <1>2, <1>3, <1>4 DEF Inv

-----------------------------------------------------------------------------
(* The theorems *)

LEMMA NextKeepsInv == Inv /\ [Next]_vars => Inv'
<1> SUFFICES ASSUME Inv, [Next]_vars PROVE Inv'
  OBVIOUS
<1>1. CASE UNCHANGED vars
  BY <1>1, RelevantOnly DEF vars, relevant, init, nvs, readers, sender
<1>2. CASE Receive
  BY <1>2, RelevantOnly DEF Receive, relevant, init, nvs, readers, sender
<1>3. ASSUME NEW l \in Lives, Reader(l) PROVE Inv'
  BY <1>3, ReaderKeepsInv
<1>4. CASE SendMessage \/ MessageSent \/ SendTorn
  BY <1>4, ProxyKeepsInv
<1>5. ASSUME NEW b \in Bauds, Setting(b) PROVE Inv'
  BY <1>5, SettingKeepsInv
<1>6. CASE InitSteps
  BY <1>6, DeleteDriverKeepsInv, InstallDriverKeepsInv, StopReaderKeepsInv,
     JoinReaderKeepsInv, RemoveTxKeepsInv, StartReaderKeepsInv, AddTxKeepsInv,
     SaveKeepsInv DEF InitSteps
<1> QED
  BY <1>1, <1>2, <1>3, <1>4, <1>5, <1>6 DEF Next

\* The inductive invariant holds in every reachable state.
THEOREM Invariance == Spec => []Inv
<1>1. Init => Inv
  BY InitInv
<1>2. Inv /\ [Next]_vars => Inv'
  BY NextKeepsInv
<1> QED
  BY <1>1, <1>2, PTL DEF Spec

\* However often the baud rate is changed, one thread at most reads the port.
THEOREM ReaderIsAlone == Spec => []OneReader
<1>1. Inv => OneReader
  <2> SUFFICES ASSUME Inv PROVE OneReader
    OBVIOUS
  <2> DEFINE alive == {l \in Lives : reader[l] # "none"}
  <2>1. alive \subseteq {life}
    BY DEF Inv, OnlyLast
  <2>2. IsFiniteSet({life}) /\ Cardinality({life}) = 1
    BY FS_Singleton
  <2>3. Cardinality(alive) <= 1
    BY <2>1, <2>2, FS_Subset
  <2> QED
    BY <2>3 DEF OneReader
<1> QED
  BY <1>1, Invariance, PTL

LEMMA CrashInSetting ==
    ASSUME Inv, [Next]_vars, crashes' # crashes PROVE con # "idle" /\ ~booting
<1>1. ASSUME NEW l \in Lives, Reader(l) PROVE con # "idle" /\ ~booting
  <2>1. \/ reader[l] = "spawned" /\ ~run[l]
        \/ reader[l] = "test" /\ ~driver
        \/ reader[l] = "torn"
    BY <1>1 DEF Reader, ReaderEnter, ReaderTest, ReaderRead, ReaderTorn, WritePiece,
                readerRest
  <2>2. reader[l] # "none" /\ l = life
    BY <2>1 DEF Inv, OnlyLast
  <2>3. life # 0
    BY <2>2, UartAssumption DEF Lives
  <2>4. CASE reader[l] = "spawned" /\ ~run[l]
    BY <2>2, <2>4 DEF Inv, RunUp, Boot
  <2>5. CASE reader[l] = "test" /\ ~driver
    BY <2>3, <2>5 DEF Inv, DriverThere, Boot
  <2>6. CASE reader[l] = "torn"
    BY <2>3, <2>6 DEF Inv, TornGone, Boot
  <2> QED
    BY <2>1, <2>4, <2>5, <2>6
<1>2. CASE SendMessage \/ MessageSent \/ SendTorn
  <2>1. proxy = "torn"
    BY <1>2 DEF SendMessage, MessageSent, SendTorn, senderRest
  <2> QED
    BY <2>1 DEF Inv, TornGone, Boot
<1>3. CASE InitSteps
  <2>1. con = "install" /\ want \notin Good
    BY <1>3 DEF InitSteps, DeleteDriver, InstallDriver, StopReader, JoinReader,
                RemoveTx, StartReader, AddTx, Save, initRest
  <2> QED
    BY <2>1 DEF Inv, Boot
<1>4. ASSUME NEW b \in Bauds PROVE ~Setting(b)
  BY DEF Setting
<1>5. ~Receive /\ ~UNCHANGED vars
  BY DEF Receive, vars
<1> QED
  BY <1>1, <1>2, <1>3, <1>4, <1>5 DEF Next

\* A device that crashes was changing its baud rate, and starting it with the
\* saved one does not crash it, so it does not crash at every start.
THEOREM CrashesEnd == Spec => CrashOnlyInSetting
<1>1. Inv /\ [Next]_vars => [crashes' # crashes => con # "idle" /\ ~booting]_vars
  BY CrashInSetting
<1> QED
  BY <1>1, Invariance, PTL DEF Spec, CrashOnlyInSetting

-----------------------------------------------------------------------------
(* Sequences of sequences *)

\* What `FlattenSeq' computes up to its n-th sequence.
Joins(f, s, n) == f = [i \in 1..n |-> IF i = 1 THEN s[i] ELSE f[i - 1] \o s[i]]

LEMMA Smallest ==
    ASSUME NEW T, T \subseteq Nat, T # {}
    PROVE  \E n \in T : \A m \in T : n <= m
<1>1. IsWellFoundedOn(OpToRel(<, Nat), Nat)
  BY NatLessThanWellFounded
<1>2. PICK n \in T : \A m \in T : ~(<<m, n>> \in OpToRel(<, Nat))
  BY <1>1, WFMin
<1>3. n \in Nat /\ \A m \in T : m \in Nat
  OBVIOUS
<1>4. \A m \in T : ~(m < n)
  BY <1>2, <1>3 DEF OpToRel
<1> QED
  BY <1>3, <1>4

\* Induction, for the set of the numbers that have the property.
LEMMA Induct ==
    ASSUME NEW P, 0 \in P, \A n \in Nat : n \in P => n + 1 \in P
    PROVE  Nat \subseteq P
<1> SUFFICES ASSUME Nat \ P # {} PROVE FALSE
  OBVIOUS
<1>1. PICK n \in Nat \ P : \A m \in Nat \ P : n <= m
  BY Smallest
<1>2. n # 0 /\ n - 1 \in Nat /\ n - 1 \in P /\ n = (n - 1) + 1
  BY <1>1
<1> QED
  BY <1>1, <1>2

LEMMA JoinsExists ==
    ASSUME NEW S, NEW s \in Seq(Seq(S)), NEW n \in 1..Len(s)
    PROVE  \E f : Joins(f, s, n) /\ \A i \in 1..n : f[i] \in Seq(S)
<1> DEFINE Made(m) == \E f : Joins(f, s, m) /\ \A i \in 1..m : f[i] \in Seq(S)
           P == {m \in Nat : m <= Len(s) => Made(m)}
<1>1. 0 \in P
  <2> DEFINE f == [i \in 1..0 |-> <<>>]
  <2>1. Joins(f, s, 0)
    BY DEF Joins
  <2> QED
    BY <2>1
<1>2. ASSUME NEW m \in Nat, m \in P PROVE m + 1 \in P
  <2> SUFFICES ASSUME m + 1 <= Len(s) PROVE Made(m + 1)
    OBVIOUS
  <2>1. PICK f : Joins(f, s, m) /\ \A i \in 1..m : f[i] \in Seq(S)
    BY <1>2
  <2> DEFINE g == [i \in 1..(m + 1) |->
                      IF i <= m THEN f[i] ELSE IF m = 0 THEN s[1] ELSE f[m] \o s[m + 1]]
  <2>2. \A i \in 1..(m + 1) : s[i] \in Seq(S)
    OBVIOUS
  <2>3. \A i \in 1..m : f[i] = IF i = 1 THEN s[i] ELSE f[i - 1] \o s[i]
    BY <2>1 DEF Joins
  <2>4. \A i \in 1..(m + 1) : g[i] = IF i = 1 THEN s[i] ELSE g[i - 1] \o s[i]
    <3> TAKE i \in 1..(m + 1)
    <3>1. CASE i <= m
      BY <2>3, <3>1
    <3>2. CASE i = m + 1 /\ m = 0
      BY <3>2
    <3>3. CASE i = m + 1 /\ m # 0
      BY <3>3
    <3> QED
      BY <3>1, <3>2, <3>3
  <2>5. Joins(g, s, m + 1)
    BY <2>4 DEF Joins
  <2>6. ASSUME NEW i \in 1..(m + 1) PROVE g[i] \in Seq(S)
    BY <2>1, <2>2
  <2> QED
    BY <2>5, <2>6
<1>3. n \in P /\ n <= Len(s)
  <2>1. Nat \subseteq P
    BY <1>1, <1>2, Induct
  <2> QED
    BY <2>1
<1> QED
  BY <1>3

LEMMA JoinsUnique ==
    ASSUME NEW s, NEW n \in Nat, NEW f, NEW g, NEW m \in Nat, n <= m,
           Joins(f, s, n), Joins(g, s, m)
    PROVE  \A i \in 1..n : f[i] = g[i]
<1> DEFINE P == {i \in Nat : i \in 1..n => f[i] = g[i]}
<1>1. /\ \A i \in 1..n : f[i] = IF i = 1 THEN s[i] ELSE f[i - 1] \o s[i]
      /\ \A i \in 1..m : g[i] = IF i = 1 THEN s[i] ELSE g[i - 1] \o s[i]
  BY DEF Joins
<1>2. 0 \in P
  OBVIOUS
<1>3. ASSUME NEW i \in Nat, i \in P PROVE i + 1 \in P
  <2> SUFFICES ASSUME i + 1 \in 1..n PROVE f[i + 1] = g[i + 1]
    OBVIOUS
  <2>1. i + 1 \in 1..m
    OBVIOUS
  <2>2. CASE i = 0
    BY <1>1, <2>1, <2>2
  <2>3. CASE i # 0
    <3>1. f[i] = g[i] /\ i + 1 # 1 /\ (i + 1) - 1 = i
      BY <1>3, <2>3
    <3> QED
      BY <1>1, <2>1, <3>1
  <2> QED
    BY <2>2, <2>3
<1>4. Nat \subseteq P
  BY <1>2, <1>3, Induct
<1> QED
  BY <1>4

LEMMA FlattenIs ==
    ASSUME NEW S, NEW s \in Seq(Seq(S)), s # <<>>, NEW f, Joins(f, s, Len(s))
    PROVE  FlattenSeq(s) = f[Len(s)]
<1> DEFINE g == CHOOSE h : Joins(h, s, Len(s))
<1>1. Len(s) \in Nat /\ Len(s) # 0
  OBVIOUS
<1>2. FlattenSeq(s) = g[Len(s)]
  BY <1>1 DEF FlattenSeq, Joins
<1>3. Joins(g, s, Len(s))
  OBVIOUS
<1> HIDE DEF g
<1>4. \A i \in 1..Len(s) : f[i] = g[i]
  BY <1>1, <1>3, JoinsUnique
<1> QED
  BY <1>1, <1>2, <1>4

LEMMA FlattenType ==
    ASSUME NEW S, NEW s \in Seq(Seq(S))
    PROVE  FlattenSeq(s) \in Seq(S)
<1>1. CASE s = <<>>
  BY <1>1 DEF FlattenSeq
<1>2. CASE s # <<>>
  <2>1. Len(s) \in 1..Len(s)
    BY <1>2
  <2>2. PICK f : Joins(f, s, Len(s)) /\ \A i \in 1..Len(s) : f[i] \in Seq(S)
    BY <2>1, JoinsExists
  <2> QED
    BY <1>2, <2>1, <2>2, FlattenIs
<1> QED
  BY <1>1, <1>2

\* A sequence more is put behind the others.
LEMMA FlattenAppend ==
    ASSUME NEW S, NEW s \in Seq(Seq(S)), NEW e \in Seq(S)
    PROVE  FlattenSeq(Append(s, e)) = FlattenSeq(s) \o e
<1> DEFINE t == Append(s, e)
           n == Len(s)
<1>1. /\ n \in Nat /\ t \in Seq(Seq(S)) /\ Len(t) = n + 1 /\ t # <<>> /\ t[n + 1] = e
      /\ \A i \in 1..n : t[i] = s[i]
  <2>1. n \in Nat
    OBVIOUS
  <2>2. t \in Seq(Seq(S)) /\ Len(t) = n + 1 /\ t # <<>> /\ t[n + 1] = e
    BY AppendProperties
  <2>3. \A i \in 1..n : t[i] = s[i]
    BY AppendProperties
  <2> QED
    BY <2>1, <2>2, <2>3
<1> HIDE DEF t
<1>2. PICK f : Joins(f, t, n + 1) /\ \A i \in 1..(n + 1) : f[i] \in Seq(S)
  <2>1. n + 1 \in 1..Len(t)
    BY <1>1
  <2> QED
    BY <1>1, <2>1, JoinsExists
<1>3. FlattenSeq(t) = f[n + 1]
  BY <1>1, <1>2, FlattenIs
<1>4. \A i \in 1..(n + 1) : f[i] = IF i = 1 THEN t[i] ELSE f[i - 1] \o t[i]
  BY <1>2 DEF Joins
<1>5. CASE n = 0
  <2>1. s = <<>> /\ FlattenSeq(s) = <<>>
    BY <1>5 DEF FlattenSeq
  <2>2. f[1] = e
    BY <1>1, <1>4, <1>5
  <2> QED
    BY <1>3, <1>5, <2>1, <2>2 DEF t
<1>6. CASE n # 0
  <2>0. n + 1 # 1 /\ (n + 1) - 1 = n /\ n + 1 \in 1..(n + 1)
    BY <1>1, <1>6
  <2>1. f[n + 1] = f[n] \o e
    BY <1>1, <1>4, <2>0
  <2> DEFINE h == [i \in 1..n |-> f[i]]
  <2>2. \A i \in 1..n : h[i] = IF i = 1 THEN s[i] ELSE h[i - 1] \o s[i]
    BY <1>1, <1>4
  <2>3. Joins(h, s, n)
    BY <2>2 DEF Joins
  <2>4. FlattenSeq(s) = h[n] /\ h[n] = f[n]
    BY <1>1, <1>6, <2>3, FlattenIs
  <2>5. FlattenSeq(t) = FlattenSeq(s) \o e
    BY <1>3, <2>1, <2>4
  <2> QED
    BY <2>5 DEF t
<1> QED
  BY <1>1, <1>5, <1>6
-----------------------------------------------------------------------------
(* Pieces: what a reader has cut and has yet to cut *)

Strs == [i \in DOMAIN pieces |-> pieces[i].str]
PieceRecs == [str : Seq(Bytes), newLine : BOOLEAN, by : Lives]
NobodyReads == \A l \in Lives : reader[l] = "none"

PieceTypes ==
    /\ bytes \in 0..MaxBytes
    /\ rx \in Seq(Bytes) /\ taken \in Seq(Bytes)
    /\ chunk \in [Lives -> Seq(Bytes)]
    /\ newLine \in [Lives -> BOOLEAN]
    /\ pieces \in Seq(PieceRecs)

\* A reader ends, or waits in the driver, only with its buffer used up.
ChunkInSplit == \A l \in Lives : chunk[l] # <<>> <=> reader[l] = "split"

PastLives == \A i \in DOMAIN pieces : pieces[i].by <= life

\* A reader has noted in newLine how its last piece ended.
MarkNext ==
    \A l \in Lives : reader[l] # "none" =>
        (newLine[l] <=> (pieces = <<>> \/ EndsLine(Last(pieces).str) \/ Last(pieces).by # l))

\* PiecesJoin, for a reader still to be started as well.
Joined ==
    \A l \in Lives : reader[l] # "none" \/ NobodyReads => FlattenSeq(Strs) \o chunk[l] = taken

CutInv == PieceTypes /\ ChunkInSplit /\ PastLives /\ MarkNext /\ StampsAtLineStarts /\ Joined

cutVars == <<rx, bytes, life, reader, chunk, newLine, taken, pieces>>

LEMMA CutVarsOnly == ASSUME CutInv, UNCHANGED cutVars PROVE CutInv'
<1>1. UNCHANGED <<rx, bytes, life, reader, chunk, newLine, taken, pieces>>
  BY DEF cutVars
<1>2. PieceTypes' /\ ChunkInSplit' /\ PastLives'
  BY <1>1 DEF CutInv, PieceTypes, ChunkInSplit, PastLives
<1>3. MarkNext' /\ StampsAtLineStarts'
  BY <1>1 DEF CutInv, MarkNext, StampsAtLineStarts
<1>4. Joined'
  BY <1>1 DEF CutInv, Joined, Strs, NobodyReads
<1> QED
  BY <1>2, <1>3, <1>4 DEF CutInv

LEMMA PieceIsTyped ==
    ASSUME PieceTypes
    PROVE  /\ Len(pieces) \in Nat /\ DOMAIN pieces = 1..Len(pieces)
           /\ \A i \in 1..Len(pieces) :
                  pieces[i].str \in Seq(Bytes) /\ pieces[i].by \in Nat
<1>1. pieces \in Seq(PieceRecs)
  BY DEF PieceTypes
<1>2. Len(pieces) \in Nat /\ DOMAIN pieces = 1..Len(pieces)
  BY <1>1
<1>3. ASSUME NEW i \in 1..Len(pieces) PROVE pieces[i] \in PieceRecs
  BY <1>1
<1>4. Lives \subseteq Nat
  BY UartAssumption DEF Lives
<1> QED
  BY <1>2, <1>3, <1>4 DEF PieceRecs

LEMMA StrsType == ASSUME PieceTypes PROVE Strs \in Seq(Seq(Bytes)) /\ Len(Strs) = Len(pieces)
<1>1. Strs = [i \in 1..Len(pieces) |-> pieces[i].str]
  BY PieceIsTyped DEF Strs
<1>2. Strs \in Seq(Seq(Bytes))
  BY <1>1, PieceIsTyped, IsASeq
<1> QED
  BY <1>1, <1>2, PieceIsTyped, LenProperties

\* As after a start of the device: nothing read, nothing cut.
LEMMA NothingCut ==
    ASSUME bytes \in 0..MaxBytes, rx = <<>>, taken = <<>>, pieces = <<>>,
           reader = [l \in Lives |-> "none"], chunk = [l \in Lives |-> <<>>],
           newLine = [l \in Lives |-> FALSE]
    PROVE  CutInv
<1>1. PieceTypes /\ ChunkInSplit /\ PastLives /\ MarkNext
  BY DEF PieceTypes, ChunkInSplit, PastLives, MarkNext
<1>2. StampsAtLineStarts
  BY DEF StampsAtLineStarts
<1>3. Joined
  <2>1. Len(Strs) = 0 /\ Strs = <<>>
    BY DEF Strs
  <2>2. FlattenSeq(Strs) = <<>>
    BY <2>1 DEF FlattenSeq
  <2> QED
    BY <2>2 DEF Joined
<1> QED
  BY <1>1, <1>2, <1>3 DEF CutInv

LEMMA InitCut == Init => CutInv
<1>1. ASSUME Init PROVE bytes \in 0..MaxBytes
  BY <1>1, UartAssumption DEF Init
<1> QED
  BY <1>1, NothingCut DEF Init

LEMMA CrashKeepsCut == ASSUME CutInv, Crash PROVE CutInv'
<1>1. /\ bytes \in 0..MaxBytes /\ bytes' = bytes
      /\ rx' = <<>> /\ taken' = <<>> /\ pieces' = <<>>
      /\ reader' = [l \in Lives |-> "none"] /\ chunk' = [l \in Lives |-> <<>>]
      /\ newLine' = [l \in Lives |-> FALSE]
  BY DEF Crash, CutInv, PieceTypes
<1>2. PieceTypes' /\ ChunkInSplit' /\ PastLives' /\ MarkNext'
  BY <1>1 DEF PieceTypes, ChunkInSplit, PastLives, MarkNext
<1>3. StampsAtLineStarts'
  BY <1>1 DEF StampsAtLineStarts
<1>4. Joined'
  <2>1. Len(Strs') = 0 /\ Strs' = <<>>
    BY <1>1 DEF Strs
  <2>2. FlattenSeq(Strs') = <<>>
    BY <2>1 DEF FlattenSeq
  <2> QED
    BY <1>1, <2>2 DEF Joined
<1> QED
  BY <1>2, <1>3, <1>4 DEF CutInv

LEMMA ReceiveKeepsCut == ASSUME CutInv, Receive PROVE CutInv'
<1>1. /\ bytes < MaxBytes /\ bytes' = bytes + 1
      /\ UNCHANGED <<life, reader, chunk, newLine, taken, pieces>>
  BY DEF Receive, init, readers
<1>2. PICK nl \in BOOLEAN : rx' = Append(rx, [id |-> bytes + 1, nl |-> nl])
  BY DEF Receive
<1>3. bytes + 1 \in 1..MaxBytes
  BY <1>1, UartAssumption DEF CutInv, PieceTypes
<1>4. [id |-> bytes + 1, nl |-> nl] \in Bytes
  BY <1>3 DEF Bytes
<1>5. rx' \in Seq(Bytes)
  BY <1>2, <1>4, AppendProperties DEF CutInv, PieceTypes
<1>6. PieceTypes' /\ ChunkInSplit' /\ PastLives'
  BY <1>1, <1>3, <1>5 DEF CutInv, PieceTypes, ChunkInSplit, PastLives
<1>7. MarkNext' /\ StampsAtLineStarts'
  BY <1>1 DEF CutInv, MarkNext, StampsAtLineStarts
<1>8. Joined'
  BY <1>1 DEF CutInv, Joined, Strs, NobodyReads
<1> QED
  BY <1>6, <1>7, <1>8 DEF CutInv

\* While no chunk is left, the pieces make up all that was taken.
LEMMA AllCut ==
    ASSUME CutInv, NEW l \in Lives, reader[l] # "none", reader[l] # "split"
    PROVE  FlattenSeq(Strs) = taken
<1>1. chunk[l] = <<>>
  BY DEF CutInv, ChunkInSplit
<1>2. FlattenSeq(Strs) \in Seq(Bytes)
  BY StrsType, FlattenType DEF CutInv
<1>3. FlattenSeq(Strs) \o <<>> = taken
  BY <1>1 DEF CutInv, Joined
<1> QED
  BY <1>2, <1>3, ConcatEmptySeq

\* A thread that has nothing left to cut may go on, wait or end.
LEMMA MoveKeepsCut ==
    ASSUME Inv, CutInv, NEW l \in Lives, NEW p \in {"none", "test", "read"},
           reader[l] # "none", reader[l] # "split", reader' = [reader EXCEPT ![l] = p],
           UNCHANGED <<rx, bytes, life, chunk, newLine, taken, pieces>>
    PROVE  CutInv'
<1>1. /\ reader'[l] = p /\ chunk[l] = <<>>
      /\ \A k \in Lives : k # l => reader[k] = "none" /\ reader'[k] = "none" /\ chunk[k] = <<>>
  BY DEF Inv, Types, OnlyLast, CutInv, ChunkInSplit
<1>2. PieceTypes' /\ ChunkInSplit' /\ PastLives'
  BY <1>1 DEF CutInv, PieceTypes, ChunkInSplit, PastLives
<1>3. MarkNext'
  BY <1>1 DEF CutInv, MarkNext
<1>4. StampsAtLineStarts'
  BY DEF CutInv, StampsAtLineStarts
<1>5. Joined'
  <2>1. Strs' = Strs
    BY DEF Strs
  <2>2. FlattenSeq(Strs) \o <<>> = taken
    BY AllCut, StrsType, FlattenType, ConcatEmptySeq DEF CutInv
  <2>3. \A k \in Lives : chunk'[k] = <<>>
    BY <1>1
  <2> QED
    BY <2>1, <2>2, <2>3 DEF Joined
<1> QED
  BY <1>2, <1>3, <1>4, <1>5 DEF CutInv

LEMMA ReadKeepsCut == ASSUME Inv, CutInv, NEW l \in Lives, ReaderRead(l) PROVE CutInv'
<1>1. PICK n \in 0..Len(rx) :
          /\ rx' = SubSeq(rx, n + 1, Len(rx))
          /\ chunk' = [chunk EXCEPT ![l] = SubSeq(rx, 1, n)]
          /\ taken' = taken \o SubSeq(rx, 1, n)
          /\ reader' = [reader EXCEPT ![l] = IF n = 0 THEN "test" ELSE "split"]
  BY DEF ReaderRead
<1>2. reader[l] = "read" /\ UNCHANGED <<bytes, life, newLine, pieces>>
  BY DEF ReaderRead, readerRest, init
<1> DEFINE new == SubSeq(rx, 1, n)
<1>3. /\ rx \in Seq(Bytes) /\ taken \in Seq(Bytes) /\ chunk \in [Lives -> Seq(Bytes)]
      /\ reader \in [Lives -> {"none", "spawned", "test", "read", "torn", "split"}]
  BY DEF Inv, Types, CutInv, PieceTypes
<1>4. rx' \in Seq(Bytes) /\ new \in Seq(Bytes) /\ Len(new) = n
  BY <1>1, <1>3
<1>5. taken' \in Seq(Bytes)
  BY <1>1, <1>3, <1>4, ConcatProperties
<1> HIDE DEF new
<1>6. /\ chunk'[l] = new /\ reader'[l] = IF n = 0 THEN "test" ELSE "split"
      /\ taken' = taken \o new
      /\ new # <<>> <=> n # 0
      /\ \A k \in Lives : k # l => reader[k] = "none" /\ reader'[k] = "none" /\ chunk'[k] = <<>>
  <2>1. chunk'[l] = new /\ taken' = taken \o new
    BY <1>1, <1>3 DEF new
  <2>2. reader'[l] = IF n = 0 THEN "test" ELSE "split"
    BY <1>1, <1>3
  <2>3. new # <<>> <=> n # 0
    BY <1>4
  <2>4. ASSUME NEW k \in Lives, k # l
        PROVE  reader[k] = "none" /\ reader'[k] = "none" /\ chunk'[k] = <<>>
    BY <1>1, <1>2, <1>3, <2>4 DEF Inv, OnlyLast, CutInv, ChunkInSplit
  <2> QED
    BY <2>1, <2>2, <2>3, <2>4
<1>7. PieceTypes' /\ ChunkInSplit' /\ PastLives'
  <2>1. chunk' \in [Lives -> Seq(Bytes)]
    BY <1>1, <1>3, <1>4 DEF new
  <2>2. PieceTypes'
    BY <1>2, <1>4, <1>5, <2>1 DEF CutInv, PieceTypes
  <2> QED
    BY <1>2, <1>6, <2>2 DEF CutInv, ChunkInSplit, PastLives
<1>8. MarkNext' /\ StampsAtLineStarts'
  BY <1>2, <1>6 DEF CutInv, MarkNext, StampsAtLineStarts
<1>9. Joined'
  <2>1. Strs' = Strs
    BY <1>2 DEF Strs
  <2>2. FlattenSeq(Strs) = taken
    BY <1>2, AllCut
  <2>3. ASSUME NEW k \in Lives, reader'[k] # "none" \/ NobodyReads' PROVE k = l
    BY <1>6, <2>3 DEF NobodyReads
  <2> QED
    BY <1>6, <2>1, <2>2, <2>3 DEF Joined
<1> QED
  BY <1>7, <1>8, <1>9 DEF CutInv

\* A chunk has a first end of line, or ends without one.
LEMMA CutInside == ASSUME NEW s \in Seq(Bytes), s # <<>> PROVE Cut(s) \in 1..Len(s)
<1> DEFINE T == {n \in DOMAIN s : s[n].nl \/ n = Len(s)}
<1>1. T \subseteq Nat /\ T # {} /\ DOMAIN s = 1..Len(s)
  <2>1. Len(s) \in DOMAIN s
    OBVIOUS
  <2> QED
    BY <2>1
<1>2. PICK n \in T : \A m \in T : n <= m
  BY <1>1, Smallest
<1>3. n \in DOMAIN s /\ (s[n].nl \/ n = Len(s))
  OBVIOUS
<1>4. ASSUME NEW m \in 1..(n - 1) PROVE ~s[m].nl
  <2>1. m \in DOMAIN s /\ m < n
    BY <1>1, <1>3
  <2> QED
    BY <1>1, <1>2, <2>1
<1>5. \E k \in DOMAIN s : (s[k].nl \/ k = Len(s)) /\ \A m \in 1..(k - 1) : ~s[m].nl
  BY <1>3, <1>4
<1>6. Cut(s) \in DOMAIN s
  BY <1>5 DEF Cut
<1> QED
  BY <1>1, <1>6

LEMMA BytesAssociative ==
    \A s, t, u \in Seq(Bytes) : (s \o t) \o u = s \o (t \o u)
  BY ConcatAssociative

LEMMA WritePieceKeepsCut == ASSUME Inv, CutInv, NEW l \in Lives, WritePiece(l) PROVE CutInv'
<1> DEFINE n == Cut(chunk[l])
           piece == SubSeq(chunk[l], 1, n)
           rest == SubSeq(chunk[l], n + 1, Len(chunk[l]))
           rec == [str |-> piece, newLine |-> newLine[l], by |-> l]
<1>1. /\ reader[l] = "split"
      /\ pieces' = Append(pieces, rec)
      /\ newLine' = [newLine EXCEPT ![l] = EndsLine(piece)]
      /\ chunk' = [chunk EXCEPT ![l] = rest]
      /\ reader' = [reader EXCEPT ![l] = IF rest = <<>> THEN "test" ELSE "split"]
  BY DEF WritePiece
<1>2. UNCHANGED <<rx, bytes, life, taken>>
  BY DEF WritePiece, readerRest, init
<1>3. /\ chunk \in [Lives -> Seq(Bytes)] /\ newLine \in [Lives -> BOOLEAN]
      /\ pieces \in Seq(PieceRecs)
      /\ reader \in [Lives -> {"none", "spawned", "test", "read", "torn", "split"}]
  BY DEF Inv, Types, CutInv, PieceTypes
<1>4. chunk[l] \in Seq(Bytes) /\ chunk[l] # <<>> /\ n \in 1..Len(chunk[l])
  BY <1>1, <1>3, CutInside DEF CutInv, ChunkInSplit
<1>5. piece \in Seq(Bytes) /\ rest \in Seq(Bytes) /\ piece \o rest = chunk[l]
  <2>1. piece \in Seq(Bytes) /\ rest \in Seq(Bytes)
    BY <1>4
  <2>2. Len(chunk[l]) \in Nat /\ n \in 1..Len(chunk[l]) /\ n \in Int
    BY <1>4
  <2> HIDE DEF n
  <2>3. \A s \in Seq(Bytes) : \A k \in 1..Len(s) :
            SubSeq(s, 1, k) \o SubSeq(s, k + 1, Len(s)) = s
    OBVIOUS
  <2> QED
    BY <1>4, <2>1, <2>3
<1>6. EndsLine(piece) \in BOOLEAN
  BY DEF EndsLine
<1> HIDE DEF n, piece, rest
<1>7. rec \in PieceRecs
  BY <1>3, <1>5 DEF PieceRecs
<1>8. /\ pieces' \in Seq(PieceRecs)
      /\ Len(pieces') = Len(pieces) + 1 /\ pieces' # <<>>
      /\ \A i \in 1..Len(pieces) : pieces'[i] = pieces[i]
      /\ pieces'[Len(pieces) + 1] = rec
  <2> HIDE DEF rec
  <2> QED
    BY <1>1, <1>3, <1>7, AppendProperties
<1>9. \A k \in Lives : k # l => reader[k] = "none" /\ reader'[k] = "none" /\ chunk'[k] = <<>>
  BY <1>1, <1>3 DEF Inv, OnlyLast, CutInv, ChunkInSplit
<1>10. reader'[l] = (IF rest = <<>> THEN "test" ELSE "split") /\ chunk'[l] = rest
       /\ newLine'[l] = EndsLine(piece)
  BY <1>1, <1>3
<1>11. l <= life /\ life \in Nat
  BY <1>1 DEF Inv, OnlyLast, Types
<1>12. PieceTypes' /\ ChunkInSplit' /\ PastLives'
  <2>1. chunk' \in [Lives -> Seq(Bytes)] /\ newLine' \in [Lives -> BOOLEAN]
    BY <1>1, <1>3, <1>5, <1>6
  <2>2. PieceTypes'
    BY <1>2, <1>8, <2>1 DEF CutInv, PieceTypes
  <2>3. ChunkInSplit'
    BY <1>9, <1>10 DEF ChunkInSplit
  <2>4. PastLives'
    <3> SUFFICES ASSUME NEW i \in DOMAIN pieces' PROVE pieces'[i].by <= life'
      BY DEF PastLives
    <3>1. i \in 1..Len(pieces) \/ i = Len(pieces) + 1
      BY <1>3, <1>8
    <3>2. CASE i \in 1..Len(pieces)
      BY <1>2, <1>8, <3>2, PieceIsTyped DEF CutInv, PastLives
    <3>3. CASE i = Len(pieces) + 1
      BY <1>2, <1>8, <1>11, <3>3
    <3> QED
      BY <3>1, <3>2, <3>3
  <2> QED
    BY <2>2, <2>3, <2>4
<1>13. MarkNext'
  <2> SUFFICES ASSUME NEW k \in Lives, reader'[k] # "none"
               PROVE  newLine'[k] <=> (\/ pieces' = <<>> \/ EndsLine(Last(pieces').str)
                                       \/ Last(pieces').by # k)
    BY DEF MarkNext
  <2>1. k = l /\ Last(pieces') = rec
    BY <1>8, <1>9 DEF Last
  <2> QED
    BY <1>8, <1>10, <2>1
<1>14. StampsAtLineStarts'
  <2> SUFFICES ASSUME NEW i \in DOMAIN pieces'
               PROVE  pieces'[i].newLine <=>
                        (\/ i = 1 \/ EndsLine(pieces'[i - 1].str)
                         \/ pieces'[i - 1].by # pieces'[i].by)
    BY DEF StampsAtLineStarts
  <2>1. i \in 1..Len(pieces) \/ i = Len(pieces) + 1
    BY <1>3, <1>8
  <2>2. CASE i \in 1..Len(pieces)
    <3>1. pieces'[i] = pieces[i] /\ (i # 1 => pieces'[i - 1] = pieces[i - 1])
      BY <1>8, <2>2, PieceIsTyped DEF CutInv
    <3>2. i \in DOMAIN pieces
      BY <2>2, PieceIsTyped DEF CutInv
    <3>3. pieces[i].newLine <=> (\/ i = 1 \/ EndsLine(pieces[i - 1].str)
                                 \/ pieces[i - 1].by # pieces[i].by)
      BY <3>2 DEF CutInv, StampsAtLineStarts
    <3> QED
      BY <3>1, <3>3
  <2>3. CASE i = Len(pieces) + 1
    <3>1. pieces'[i].newLine = newLine[l] /\ pieces'[i].by = l
      BY <1>8, <2>3
    <3>2. newLine[l] <=> (pieces = <<>> \/ EndsLine(Last(pieces).str) \/ Last(pieces).by # l)
      BY <1>1 DEF CutInv, MarkNext
    <3>3. CASE pieces = <<>>
      BY <2>3, <3>1, <3>2, <3>3
    <3>4. CASE pieces # <<>>
      <4>1. i # 1 /\ i - 1 = Len(pieces) /\ i - 1 \in 1..Len(pieces)
        BY <1>3, <2>3, <3>4
      <4>2. pieces'[i - 1] = Last(pieces)
        BY <1>8, <4>1 DEF Last
      <4> QED
        BY <3>1, <3>2, <3>4, <4>1, <4>2
    <3> QED
      BY <3>3, <3>4
  <2> QED
    BY <2>1, <2>2, <2>3
<1>15. Joined'
  <2>1. Strs' = Append(Strs, piece)
    <3>1. Len(pieces) \in Nat /\ DOMAIN pieces = 1..Len(pieces)
          /\ DOMAIN pieces' = 1..(Len(pieces) + 1)
      BY <1>3, <1>8
    <3>2. \A i \in 1..(Len(pieces) + 1) :
              pieces'[i].str = IF i <= Len(pieces) THEN pieces[i].str ELSE piece
      BY <1>8, <3>1
    <3>3. Strs \in Seq(Seq(Bytes)) /\ Len(Strs) = Len(pieces)
      BY StrsType DEF CutInv
    <3>4. Strs' = [i \in 1..(Len(pieces) + 1) |->
                       IF i <= Len(pieces) THEN Strs[i] ELSE piece]
      BY <3>1, <3>2 DEF Strs
    <3>5. Append(Strs, piece) \in Seq(Seq(Bytes)) /\ Strs' \in Seq(Seq(Bytes))
      <4>1. \A i \in 1..(Len(pieces) + 1) :
                (IF i <= Len(pieces) THEN Strs[i] ELSE piece) \in Seq(Bytes)
        BY <1>5, <3>1, <3>3
      <4> QED
        BY <1>5, <3>1, <3>3, <3>4, <4>1, AppendProperties, SeqDef
    <3>6. /\ Len(Append(Strs, piece)) = Len(pieces) + 1 /\ Len(Strs') = Len(pieces) + 1
          /\ \A i \in 1..(Len(pieces) + 1) : Append(Strs, piece)[i] = Strs'[i]
      <4>1. Len(Strs') = Len(pieces) + 1
        BY <3>1, <3>4, <3>5, LenProperties
      <4>2. /\ Len(Append(Strs, piece)) = Len(pieces) + 1
            /\ \A i \in 1..Len(pieces) : Append(Strs, piece)[i] = Strs[i]
            /\ Append(Strs, piece)[Len(pieces) + 1] = piece
        BY <1>5, <3>3, AppendProperties
      <4>3. \A i \in 1..(Len(pieces) + 1) :
                Strs'[i] = IF i <= Len(pieces) THEN Strs[i] ELSE piece
        BY <3>4
      <4> QED
        BY <3>1, <4>1, <4>2, <4>3
    <3> QED
      BY <3>5, <3>6, SeqEqual
  <2>2. Strs \in Seq(Seq(Bytes)) /\ FlattenSeq(Strs) \in Seq(Bytes)
    BY StrsType, FlattenType DEF CutInv
  <2>3. FlattenSeq(Strs') = FlattenSeq(Strs) \o piece
    BY <1>5, <2>1, <2>2, FlattenAppend
  <2>4. FlattenSeq(Strs) \o chunk[l] = taken
    BY <1>1 DEF CutInv, Joined
  <2> DEFINE F == FlattenSeq(Strs)
  <2>7. F \in Seq(Bytes)
    BY <2>2
  <2>5. FlattenSeq(Strs') \o rest = taken
    <3>1. (F \o piece) \o rest = F \o (piece \o rest)
      <4> HIDE DEF F
      <4> QED
        BY <1>5, <2>7, BytesAssociative, Zenon
    <3>2. FlattenSeq(Strs') \o rest = (F \o piece) \o rest
      BY <2>3
    <3>3. F \o (piece \o rest) = taken
      BY <1>5, <2>4
    <3> QED
      BY <3>1, <3>2, <3>3
  <2>6. ASSUME NEW k \in Lives, reader'[k] # "none" \/ NobodyReads' PROVE k = l
    BY <1>9, <1>10, <2>6 DEF NobodyReads
  <2> QED
    BY <1>2, <1>10, <2>5, <2>6 DEF Joined
<1> QED
  BY <1>12, <1>13, <1>14, <1>15 DEF CutInv

LEMMA ReaderKeepsCut == ASSUME Inv, CutInv, NEW l \in Lives, Reader(l) PROVE CutInv'
<1>1. CASE Crash
  BY <1>1, CrashKeepsCut
<1>2. CASE ~Crash /\ (ReaderEnter(l) \/ ReaderTest(l) \/ ReaderTorn(l))
  <2>1. /\ reader[l] # "none" /\ reader[l] # "split"
        /\ \E p \in {"none", "test", "read"} : reader' = [reader EXCEPT ![l] = p]
        /\ UNCHANGED <<rx, bytes, life, chunk, newLine, taken, pieces>>
    BY <1>2 DEF ReaderEnter, ReaderTest, ReaderTorn, readerRest, init
  <2> QED
    BY <2>1, MoveKeepsCut
<1> QED
  BY <1>1, <1>2, ReadKeepsCut, WritePieceKeepsCut DEF Reader

LEMMA DeleteKeepsCut == ASSUME CutInv, Inv, DeleteDriver PROVE CutInv'
<1>1. /\ reader' = [l \in Lives |-> IF reader[l] = "read" THEN "torn" ELSE reader[l]]
      /\ rx' = <<>>
      /\ UNCHANGED <<bytes, life, chunk, newLine, taken, pieces>>
  BY DEF DeleteDriver
<1>2. \A l \in Lives : /\ reader'[l] = "none" <=> reader[l] = "none"
                       /\ reader'[l] = "split" <=> reader[l] = "split"
  BY <1>1
<1>3. PieceTypes' /\ ChunkInSplit' /\ PastLives'
  BY <1>1, <1>2 DEF CutInv, PieceTypes, ChunkInSplit, PastLives
<1>4. MarkNext' /\ StampsAtLineStarts'
  BY <1>1, <1>2 DEF CutInv, MarkNext, StampsAtLineStarts
<1>5. Joined'
  <2>1. Strs' = Strs /\ (NobodyReads' <=> NobodyReads)
    BY <1>1, <1>2 DEF Strs, NobodyReads
  <2> QED
    BY <1>1, <1>2, <2>1 DEF CutInv, Joined
<1> QED
  BY <1>3, <1>4, <1>5 DEF CutInv

\* The new reader has nothing in its buffer and is at the start of a line.
LEMMA StartKeepsCut == ASSUME Inv, CutInv, StartReader PROVE CutInv'
<1>1. /\ con = "start" /\ life' = life + 1
      /\ reader' = [reader EXCEPT ![life + 1] = "spawned"]
      /\ newLine' = [newLine EXCEPT ![life + 1] = TRUE]
      /\ UNCHANGED <<rx, bytes, chunk, taken, pieces>>
  BY DEF StartReader, initRest
<1>2. /\ life \in Nat /\ \A l \in Lives : reader[l] = "none"
      /\ life <= settings /\ settings \in 0..MaxSettings
  BY <1>1 DEF Inv, Types, LifeCount, OnlyLast
<1>3. life + 1 \in Lives
  BY <1>2, UartAssumption DEF Lives
<1>4. /\ reader \in [Lives -> {"none", "spawned", "test", "read", "torn", "split"}]
      /\ newLine \in [Lives -> BOOLEAN]
  BY DEF Inv, Types, CutInv, PieceTypes
<1>5. /\ \A l \in Lives : reader'[l] # "none" => l = life + 1
      /\ reader'[life + 1] = "spawned" /\ newLine'[life + 1] = TRUE
      /\ \A l \in Lives : reader'[l] # "split" /\ chunk[l] = <<>>
  BY <1>1, <1>2, <1>3, <1>4 DEF CutInv, ChunkInSplit
<1>6. PieceTypes' /\ ChunkInSplit'
  BY <1>1, <1>4, <1>5 DEF CutInv, PieceTypes, ChunkInSplit
<1>7. \A i \in DOMAIN pieces : pieces[i].by \in Nat /\ pieces[i].by <= life
  BY PieceIsTyped DEF CutInv, PastLives
<1>8. PastLives'
  BY <1>1, <1>2, <1>7 DEF PastLives
<1>9. MarkNext'
  <2>1. pieces # <<>> => Len(pieces) \in DOMAIN pieces
    BY DEF CutInv, PieceTypes
  <2>2. pieces # <<>> => Last(pieces).by # life + 1
    BY <1>2, <1>7, <2>1 DEF Last
  <2> QED
    BY <1>1, <1>5, <2>2 DEF MarkNext
<1>10. StampsAtLineStarts'
  BY <1>1 DEF CutInv, StampsAtLineStarts
<1>11. Joined'
  <2>1. NobodyReads /\ Strs' = Strs
    BY <1>1, <1>2 DEF NobodyReads, Strs
  <2> QED
    BY <1>1, <2>1 DEF CutInv, Joined
<1> QED
  BY <1>6, <1>8, <1>9, <1>10, <1>11 DEF CutInv

LEMMA NextKeepsCut == Inv /\ CutInv /\ [Next]_vars => CutInv'
<1> SUFFICES ASSUME Inv, CutInv, [Next]_vars PROVE CutInv'
  OBVIOUS
<1>1. CASE Crash
  BY <1>1, CrashKeepsCut
<1>2. CASE UNCHANGED vars
  BY <1>2, CutVarsOnly DEF vars, cutVars, init, readers
<1>3. CASE Receive
  BY <1>3, ReceiveKeepsCut
<1>4. ASSUME NEW l \in Lives, Reader(l) PROVE CutInv'
  BY <1>4, ReaderKeepsCut
<1>5. CASE ~Crash /\ (SendMessage \/ MessageSent \/ SendTorn)
  BY <1>5, CutVarsOnly DEF SendMessage, MessageSent, SendTorn, senderRest, cutVars, init, readers
<1>6. ASSUME NEW b \in Bauds, Setting(b) PROVE CutInv'
  BY <1>6, CutVarsOnly DEF Setting, cutVars, readers
<1>7. CASE ~Crash /\ (InstallDriver \/ JoinReader \/ RemoveTx \/ AddTx \/ Save \/ StopReader)
  BY <1>7, CutVarsOnly DEF InstallDriver, JoinReader, RemoveTx, AddTx, Save, StopReader,
     initRest, cutVars, readers
<1>8. CASE DeleteDriver \/ StartReader
  BY <1>8, DeleteKeepsCut, StartKeepsCut
<1> QED
  BY <1>1, <1>2, <1>3, <1>4, <1>5, <1>6, <1>7, <1>8 DEF Next, InitSteps

LEMMA CutInvariance == Spec => []CutInv
<1>1. Init => CutInv
  BY InitCut
<1> QED
  BY <1>1, Invariance, NextKeepsCut, PTL DEF Spec

\* What is broadcast is, put together, what was read, for reads and lines of
\* any length and any number of changes of the baud rate.
THEOREM NothingLostInCutting == Spec => []PiecesJoin
<1>1. CutInv => PiecesJoin
  BY DEF CutInv, Joined, Strs, PiecesJoin
<1> QED
  BY <1>1, CutInvariance, PTL

\* A time stamp goes to the beginnings of lines, and to no other piece.
THEOREM StampsAreRight == Spec => []StampsAtLineStarts
<1>1. CutInv => StampsAtLineStarts
  BY DEF CutInv
<1> QED
  BY <1>1, CutInvariance, PTL

-----------------------------------------------------------------------------
(* Types, and how often the device may crash *)

\* A message that is under way has not been lost yet.
LostCount ==
    /\ {lost, sends} \subseteq Nat /\ sends <= MaxTx
    /\ lost + (IF proxy = "idle" THEN 0 ELSE 1) <= sends

\* Every crash takes a setting of its own, since none happens at a start.
CrashCount ==
    /\ crashes \in Nat
    /\ crashes + (IF booting = TRUE \/ con = "idle" THEN 0 ELSE 1) <= settings

OtherTypes ==
    /\ driver \in BOOLEAN /\ booting \in BOOLEAN /\ unsaved \in BOOLEAN
    /\ want \in Bauds
    /\ \A l \in Lives : Len(chunk[l]) <= ReadSize

TypeInv == OtherTypes /\ LostCount /\ CrashCount

LEMMA InitTypes == Init => TypeInv
<1> SUFFICES ASSUME Init PROVE TypeInv
  OBVIOUS
<1>1. ReadSize \in Nat /\ MaxTx \in Nat
  BY UartAssumption
<1>2. Len(<<>>) = 0 /\ \A l \in Lives : chunk[l] = <<>>
  BY DEF Init
<1>3. OtherTypes
  <2>1. driver \in BOOLEAN /\ booting \in BOOLEAN /\ unsaved \in BOOLEAN
    BY Zenon DEF Init
  <2>2. want \in Bauds
    BY UartAssumption DEF Init, Bauds
  <2>3. \A l \in Lives : Len(chunk[l]) <= ReadSize
    BY <1>1, <1>2
  <2> QED
    BY <2>1, <2>2, <2>3 DEF OtherTypes
<1>4. LostCount /\ CrashCount
  BY <1>1 DEF Init, LostCount, CrashCount
<1> QED
  BY <1>3, <1>4 DEF TypeInv

LEMMA CrashKeepsTypes ==
    ASSUME Inv, TypeInv, Crash, ~(booting = TRUE), con # "idle"
    PROVE  TypeInv'
<1>1. /\ driver' = FALSE /\ booting' = TRUE /\ want' \in {saved, Default}
      /\ unsaved' \in BOOLEAN /\ proxy' = "idle"
      /\ chunk' = [l \in Lives |-> <<>>] /\ crashes' = crashes + 1
      /\ lost' = 0 /\ UNCHANGED <<sends, settings>>
  BY DEF Crash, ReadRate
<1>2. OtherTypes'
  <2>1. {saved, Default} \subseteq Bauds
    BY UartAssumption DEF Inv, Boot, Bauds
  <2>2. ReadSize \in Nat /\ \A l \in Lives : Len(chunk'[l]) = 0
    BY <1>1, UartAssumption
  <2>3. driver' \in BOOLEAN /\ booting' \in BOOLEAN
    BY <1>1, Zenon
  <2>4. \A l \in Lives : Len(chunk'[l]) <= ReadSize
    BY <2>2
  <2> QED
    BY <1>1, <2>1, <2>3, <2>4 DEF OtherTypes
<1>3. LostCount'
  BY <1>1 DEF TypeInv, LostCount
<1>4. CrashCount'
  <2>1. settings \in Nat
    BY UartAssumption DEF Inv, Types
  <2> QED
    BY <1>1, <2>1 DEF TypeInv, CrashCount
<1> QED
  BY <1>2, <1>3, <1>4 DEF TypeInv

countVars == <<lost, sends, proxy, crashes, booting, unsaved, con, settings>>

LEMMA CountsOnly ==
    ASSUME TypeInv, OtherTypes', UNCHANGED countVars
    PROVE  TypeInv'
  BY DEF TypeInv, LostCount, CrashCount, countVars

LEMMA ReaderKeepsTypes ==
    ASSUME Inv, CutInv, TypeInv, NEW l \in Lives, Reader(l)
    PROVE  TypeInv'
<1>1. ASSUME reader[l] # "none" PROVE life # 0
  BY <1>1, UartAssumption DEF Inv, OnlyLast, Lives
<1>2. CASE Crash
  <2>1. /\ reader[l] # "none"
        /\ \/ reader[l] = "spawned" /\ ~run[l]
           \/ driver # TRUE
           \/ reader[l] = "torn"
    BY <1>2 DEF Reader, ReaderEnter, ReaderTest, ReaderRead, ReaderTorn, WritePiece,
       readerRest, init, Crash
  <2>2. con \in {"join", "delete", "install", "stop"}
    BY <2>1 DEF Inv, RunUp, DriverThere, TornGone
  <2>3. ~(booting = TRUE)
    BY <1>1, <2>1, <2>2 DEF Inv, Boot
  <2> QED
    BY <1>2, <2>2, <2>3, CrashKeepsTypes
<1>3. CASE ~Crash
  <2>1. UNCHANGED <<driver, want, countVars>>
    BY <1>3 DEF Reader, ReaderEnter, ReaderTest, ReaderRead, ReaderTorn, WritePiece,
       readerRest, init, nvs, sender, countVars
  <2>2. CASE UNCHANGED chunk
    BY <2>1, <2>2, CountsOnly DEF TypeInv, OtherTypes, countVars
  <2>3. ASSUME NEW c, chunk' = [chunk EXCEPT ![l] = c], Len(c) <= ReadSize
        PROVE  TypeInv'
    <3>1. \A k \in Lives : Len(chunk'[k]) <= ReadSize
      BY <2>3 DEF TypeInv, OtherTypes, CutInv, PieceTypes
    <3> QED
      BY <2>1, <3>1, CountsOnly DEF TypeInv, OtherTypes, countVars
  <2>4. CASE ReaderRead(l)
    <3>1. PICK n \in 0..Len(rx) : n <= ReadSize /\ chunk' = [chunk EXCEPT ![l] = SubSeq(rx, 1, n)]
      BY <2>4 DEF ReaderRead
    <3>2. Len(SubSeq(rx, 1, n)) = n
      BY DEF CutInv, PieceTypes
    <3> QED
      BY <2>3, <3>1, <3>2
  <2>5. CASE WritePiece(l)
    <3> DEFINE c == chunk[l]
               n == Cut(c)
               rest == SubSeq(c, n + 1, Len(c))
    <3>1. c \in Seq(Bytes) /\ c # <<>> /\ Len(c) <= ReadSize
      BY <2>5 DEF WritePiece, CutInv, PieceTypes, ChunkInSplit, TypeInv, OtherTypes
    <3>2. n \in 1..Len(c)
      BY <3>1, CutInside
    <3>3. Len(rest) = Len(c) - n
      <4> HIDE DEF c, n
      <4> QED
        BY <3>1, <3>2
    <3>4. Len(rest) <= ReadSize
      <4>1. Len(c) \in Nat
        BY <3>1, LenProperties
      <4> HIDE DEF c, n, rest
      <4> QED
        BY <3>1, <3>2, <3>3, <4>1, UartAssumption
    <3>5. chunk' = [chunk EXCEPT ![l] = rest]
      BY <2>5 DEF WritePiece
    <3> QED
      BY <2>3, <3>4, <3>5
  <2> QED
    BY <1>3, <2>2, <2>4, <2>5 DEF Reader, ReaderEnter, ReaderTest, ReaderTorn
<1> QED
  BY <1>2, <1>3

LEMMA ProxyKeepsTypes ==
    ASSUME Inv, TypeInv, SendMessage \/ MessageSent \/ SendTorn
    PROVE  TypeInv'
<1>1. CASE Crash
  <2>1. proxy = "torn"
    BY <1>1 DEF SendMessage, MessageSent, SendTorn, senderRest, Crash
  <2>2. con \in {"install", "stop", "join", "untx"} /\ life # 0
    BY <2>1 DEF Inv, TornGone, Boot
  <2>3. ~(booting = TRUE)
    BY <2>2 DEF Inv, Boot
  <2> QED
    BY <1>1, <2>2, <2>3, CrashKeepsTypes
<1>2. CASE ~Crash
  <2>1. UNCHANGED <<driver, booting, unsaved, want, chunk, con, settings, crashes>>
    BY <1>2 DEF SendMessage, MessageSent, SendTorn, senderRest, init, nvs, readers
  <2>2. OtherTypes' /\ CrashCount'
    BY <2>1 DEF TypeInv, OtherTypes, CrashCount
  <2>3. LostCount'
    <3>1. MaxTx \in Nat /\ {lost, sends} \subseteq Nat /\ sends <= MaxTx
          /\ lost + (IF proxy = "idle" THEN 0 ELSE 1) <= sends
      BY UartAssumption DEF TypeInv, LostCount
    <3>2. CASE SendMessage
      BY <3>1, <3>2 DEF SendMessage, LostCount
    <3>3. CASE MessageSent
      BY <3>1, <3>3 DEF MessageSent, LostCount
    <3>4. CASE SendTorn
      BY <1>2, <3>1, <3>4 DEF SendTorn, LostCount
    <3> QED
      BY <3>2, <3>3, <3>4
  <2> QED
    BY <2>2, <2>3 DEF TypeInv
<1> QED
  BY <1>1, <1>2

\* The steps of init begin with a setting, or at a start, and end with the save.
LEMMA InitStepsKeepTypes ==
    ASSUME Inv, TypeInv, InitSteps \/ \E b \in Bauds : Setting(b)
    PROVE  TypeInv'
<1>1. settings \in Nat
  BY UartAssumption DEF Inv, Types
<1>2. CASE Crash
  <2>0. crashes' # crashes
    BY <1>2 DEF Crash, TypeInv, CrashCount
  <2>1. con = "install" /\ want \notin Good
    BY <2>0 DEF InitSteps, DeleteDriver, InstallDriver, StopReader, JoinReader, RemoveTx,
       StartReader, AddTx, Save, Setting, initRest
  <2>2. ~(booting = TRUE)
    BY <2>1 DEF Inv, Boot
  <2> QED
    BY <1>2, <2>1, <2>2, CrashKeepsTypes
<1>3. ASSUME NEW b \in Bauds, Setting(b) PROVE TypeInv'
  <2>1. con = "idle" /\ want' = b /\ settings' = settings + 1
        /\ UNCHANGED <<driver, booting, unsaved, chunk, lost, sends, proxy, crashes>>
    BY <1>3 DEF Setting, nvs, readers, sender
  <2>2. OtherTypes' /\ LostCount'
    BY <2>1 DEF TypeInv, OtherTypes, LostCount
  <2>3. CrashCount'
    BY <1>1, <2>1 DEF TypeInv, CrashCount
  <2> QED
    BY <2>2, <2>3 DEF TypeInv
<1>4. CASE ~Crash /\ InitSteps
  <2>1. /\ con # "idle" /\ driver' \in {driver, TRUE, FALSE} /\ booting' \in {booting, FALSE}
        /\ booting' = booting \/ con' = "idle"
        /\ unsaved' \in {unsaved, TRUE, FALSE}
        /\ proxy' = "idle" <=> proxy = "idle"
        /\ UNCHANGED <<want, chunk, lost, sends, crashes, settings>>
    BY <1>4 DEF InitSteps, DeleteDriver, InstallDriver, StopReader, JoinReader, RemoveTx,
       StartReader, AddTx, Save, initRest, nvs, readers, sender
  <2>2. OtherTypes'
    BY <2>1 DEF TypeInv, OtherTypes
  <2>3. LostCount'
    BY <2>1 DEF TypeInv, LostCount
  <2>4. CrashCount'
    BY <1>1, <2>1 DEF TypeInv, CrashCount
  <2> QED
    BY <2>2, <2>3, <2>4 DEF TypeInv
<1> QED
  BY <1>2, <1>3, <1>4

LEMMA NextKeepsTypes == Inv /\ CutInv /\ TypeInv /\ [Next]_vars => TypeInv'
<1> SUFFICES ASSUME Inv, CutInv, TypeInv, [Next]_vars PROVE TypeInv'
  OBVIOUS
<1>1. CASE UNCHANGED vars \/ Receive
  <2>1. UNCHANGED <<driver, booting, want, chunk, countVars>>
    BY <1>1 DEF vars, Receive, init, nvs, readers, sender, countVars
  <2> QED
    BY <2>1, CountsOnly DEF TypeInv, OtherTypes, countVars
<1>2. ASSUME NEW l \in Lives, Reader(l) PROVE TypeInv'
  BY <1>2, ReaderKeepsTypes
<1> QED
  BY <1>1, <1>2, ProxyKeepsTypes, InitStepsKeepTypes DEF Next

\* No variable leaves its type: a read never overfills its buffer, and the
\* device crashes at most once for each change of the baud rate.
THEOREM TypeCorrect == Spec => []TypeOK
<1>1. Inv /\ CutInv /\ TypeInv => TypeOK
  <2> SUFFICES ASSUME Inv, CutInv, TypeInv PROVE TypeOK
    OBVIOUS
  <2>1. MaxSettings \in Nat /\ MaxTx \in Nat /\ settings \in 0..MaxSettings /\ life \in Nat
    BY UartAssumption DEF Inv, Types
  <2>2. life \in {0} \cup Lives
    BY <2>1 DEF Inv, LifeCount, Lives
  <2>3. lost \in 0..MaxTx /\ sends \in 0..MaxTx
    BY <2>1 DEF TypeInv, LostCount
  <2>4. crashes \in 0..MaxSettings
    BY <2>1 DEF TypeInv, CrashCount
  <2>5. saved \in Bauds
    BY DEF Inv, Boot, Bauds
  <2>6. \A i \in DOMAIN pieces : pieces[i].str \in Seq(Bytes)
    BY PieceIsTyped DEF CutInv
  <2> QED
    BY <2>2, <2>3, <2>4, <2>5, <2>6 DEF Inv, Types, Places, CutInv, PieceTypes, TypeInv,
       OtherTypes, TypeOK
<1> QED
  BY <1>1, InitTypes, NextKeepsTypes, Invariance, CutInvariance, PTL DEF Spec

\* While nobody changes the baud rate every message reaches the port.
THEOREM LossesEnd == Spec => TxLostOnlyInInit
<1>1. Inv /\ TypeOK /\ [Next]_vars => [lost' # lost => con # "idle"]_vars
  <2> SUFFICES ASSUME Inv, TypeOK, [Next]_vars, lost' # lost PROVE con # "idle"
    OBVIOUS
  <2>1. CASE crashes' # crashes
    BY <2>1, CrashInSetting
  <2>2. CASE crashes' = crashes
    <3>1. ~Crash
      BY <2>2 DEF Crash, TypeOK
    <3>2. ASSUME NEW l \in Lives PROVE ~Reader(l)
      BY <3>1 DEF Reader, ReaderEnter, ReaderTest, ReaderRead, ReaderTorn, WritePiece,
                  readerRest, sender
    <3>3. CASE SendMessage \/ MessageSent \/ SendTorn
      <4>1. proxy = "torn" \/ tx # "whole" \/ ~driver \/ con = "untx"
        BY <3>1, <3>3 DEF SendMessage, MessageSent, SendTorn
      <4> QED
        BY <4>1 DEF Inv, TornGone, WriterThere, DriverThere
    <3>4. ~InitSteps
      BY <3>1 DEF InitSteps, DeleteDriver, InstallDriver, StopReader, JoinReader,
                  RemoveTx, StartReader, AddTx, Save, sender
    <3>5. ASSUME NEW b \in Bauds PROVE ~Setting(b)
      BY DEF Setting, sender
    <3>6. ~Receive /\ ~UNCHANGED vars
      BY DEF Receive, vars, sender
    <3> QED
      BY <3>2, <3>3, <3>4, <3>5, <3>6 DEF Next
  <2> QED
    BY <2>1, <2>2
<1> QED
  BY <1>1, Invariance, TypeCorrect, PTL DEF Spec, TxLostOnlyInInit

-----------------------------------------------------------------------------
(* Transmit *)

\* The saved rate is the one in force, or one that Setting could not replace.
Agree == con = "idle" \/ booting = TRUE => want = saved \/ unsaved = TRUE

LEMMA AgreeKept == Inv /\ Agree /\ [Next]_vars => Agree'
<1> SUFFICES ASSUME Inv, Agree, [Next]_vars PROVE Agree'
  OBVIOUS
<1>1. CASE UNCHANGED <<con, want, booting, nvs>>
  BY <1>1 DEF Agree, nvs
<1>2. CASE Crash
  BY <1>2 DEF Crash, ReadRate, Agree
<1>3. CASE Receive \/ (\E l \in Lives : Reader(l)) \/ SendMessage \/ MessageSent \/ SendTorn
  BY <1>1, <1>2, <1>3 DEF Receive, Reader, ReaderEnter, ReaderTest, ReaderRead, ReaderTorn,
     WritePiece, readerRest, SendMessage, MessageSent, SendTorn, senderRest, init
<1>4. CASE \E b \in Bauds : Setting(b)
  BY <1>4 DEF Setting, Inv, Boot, Agree
<1>5. CASE InitSteps
  <2>1. CASE Save
    BY <2>1 DEF Save, nvs, Agree
  <2>2. CASE ~Save
    BY <1>2, <1>5, <2>2 DEF InitSteps, DeleteDriver, InstallDriver, StopReader, JoinReader,
       RemoveTx, StartReader, AddTx, initRest, nvs, Agree
  <2> QED
    BY <2>1, <2>2
<1> QED
  BY <1>1, <1>3, <1>4, <1>5 DEF Next, vars, init

\* With texts from the console and the browsers the UART does nothing it does
\* not do for messages that come from nowhere.
THEOREM TransmitIsUart == TransmitSpec => Spec
<1>1. TransmitInit => Init
  BY DEF TransmitInit
<1>2. [TransmitNext]_transmitVars => [Next]_vars
  BY DEF TransmitNext, EnterUart, LeaveUart, FromKey, FromBrowser, PushText, Sender, SkipEmpty,
     TakeText, TextSent, TextTorn, Command, UartStep, Next, transmitVars
<1> QED
  BY <1>1, <1>2, PTL DEF TransmitSpec, Spec

\* What a browser is told is what the driver runs with, and what it will start
\* with unless Setting could not save it: then the device starts with another
\* rate, but one the driver takes.
THEOREM SettingsInForce == TransmitSpec => []SettingsAgree
<1>1. Init => Agree
  BY DEF Init, Agree
<1>2. Inv /\ Agree => SettingsAgree
  BY Zenon DEF Inv, DriverThere, Boot, Agree, SettingsAgree, Answer
<1> QED
  BY <1>1, <1>2, AgreeKept, Invariance, TransmitIsUart, PTL DEF Spec
-----------------------------------------------------------------------------
(* Texts and their order *)

Below(S, T) == \A a \in S, b \in T : a < b
Hand == IF txHand = Empty THEN {} ELSE {txHand}

LEMMA Elem == ASSUME NEW s, NEW i \in DOMAIN s PROVE s[i] \in ToSet(s)
  BY DEF ToSet

LEMMA ElemAt == ASSUME NEW s, NEW x \in ToSet(s) PROVE \E i \in DOMAIN s : s[i] = x
  BY DEF ToSet

LEMMA InOrderAt ==
    ASSUME NEW s, InOrder(s), NEW i \in DOMAIN s, NEW j \in DOMAIN s, i < j,
           s[i] # Empty, s[j] # Empty
    PROVE  s[i] < s[j]
  BY DEF InOrder

LEMMA OfConcat ==
    ASSUME NEW s \in Seq(Nat), NEW t \in Seq(Nat)
    PROVE  /\ s \o t \in Seq(Nat)
           /\ ToSet(s \o t) = ToSet(s) \cup ToSet(t)
           /\ InOrder(s) /\ InOrder(t) /\ Below(Texts(s), Texts(t)) => InOrder(s \o t)
<1> DEFINE u == s \o t
           m == Len(s)
           n == Len(t)
<1>1. m \in Nat /\ n \in Nat /\ DOMAIN s = 1..m /\ DOMAIN t = 1..n
  BY LenProperties
<1>2. /\ u \in Seq(Nat) /\ Len(u) = m + n
      /\ \A i \in 1..(m + n) : u[i] = IF i <= m THEN s[i] ELSE t[i - m]
  BY ConcatProperties
<1>3. DOMAIN u = 1..(m + n)
  BY <1>2, LenProperties
<1> HIDE DEF u, m, n
<1>4. ASSUME NEW i \in DOMAIN s PROVE i \in DOMAIN u /\ u[i] = s[i] /\ i \in 1..m
  <2>1. i \in 1..(m + n) /\ i <= m
    BY <1>1
  <2> QED
    BY <1>1, <1>2, <1>3, <2>1
<1>5. ASSUME NEW i \in DOMAIN t PROVE i + m \in DOMAIN u /\ u[i + m] = t[i]
  <2>1. i + m \in 1..(m + n) /\ ~(i + m <= m) /\ (i + m) - m = i
    BY <1>1
  <2> QED
    BY <1>2, <1>3, <2>1
<1>6. ASSUME NEW i \in DOMAIN u
      PROVE  \/ i \in DOMAIN s /\ u[i] = s[i] /\ i <= m
             \/ i - m \in DOMAIN t /\ u[i] = t[i - m] /\ i > m
  <2>1. i \in 1..(m + n)
    BY <1>3
  <2>2. u[i] = IF i <= m THEN s[i] ELSE t[i - m]
    BY <1>2, <2>1
  <2>3. i <= m => i \in 1..m
    BY <1>1, <2>1
  <2>4. ~(i <= m) => i - m \in 1..n /\ i > m
    BY <1>1, <2>1
  <2> QED
    BY <1>1, <2>2, <2>3, <2>4
<1>7. ToSet(u) = ToSet(s) \cup ToSet(t)
  <2>1. ASSUME NEW x \in ToSet(u) PROVE x \in ToSet(s) \cup ToSet(t)
    BY <1>6, Elem, ElemAt
  <2>2. ASSUME NEW x \in ToSet(s) \cup ToSet(t) PROVE x \in ToSet(u)
    BY <1>4, <1>5, Elem, ElemAt
  <2> QED
    BY <2>1, <2>2
<1>8. ASSUME InOrder(s), InOrder(t), Below(Texts(s), Texts(t)) PROVE InOrder(u)
  <2> SUFFICES ASSUME NEW i \in DOMAIN u, NEW j \in DOMAIN u, i < j,
                      u[i] # Empty, u[j] # Empty
               PROVE  u[i] < u[j]
    BY DEF InOrder
  <2>1. i \in Int /\ j \in Int
    BY <1>3
  <2>2. CASE i \in DOMAIN s /\ u[i] = s[i] /\ j \in DOMAIN s /\ u[j] = s[j]
    BY <1>8, <2>2, InOrderAt
  <2>3. CASE i \in DOMAIN s /\ u[i] = s[i] /\ j - m \in DOMAIN t /\ u[j] = t[j - m]
    <3>1. u[i] \in Texts(s) /\ u[j] \in Texts(t)
      BY <2>3, Elem DEF Texts
    <3> QED
      BY <1>8, <3>1 DEF Below
  <2>4. CASE i - m \in DOMAIN t /\ u[i] = t[i - m] /\ j - m \in DOMAIN t /\ u[j] = t[j - m]
    <3>1. i - m < j - m
      BY <1>1, <2>1
    <3> QED
      BY <1>8, <2>4, <3>1, InOrderAt
  <2>5. ~(i > m /\ j <= m)
    BY <1>1, <2>1
  <2> QED
    BY <1>6, <2>2, <2>3, <2>4, <2>5
<1> QED
  BY <1>2, <1>7, <1>8 DEF u

LEMMA OfOne == ASSUME NEW x PROVE ToSet(<<x>>) = {x} /\ InOrder(<<x>>)
<1>1. DOMAIN <<x>> = {1} /\ <<x>>[1] = x
  OBVIOUS
<1> QED
  BY <1>1 DEF ToSet, InOrder

LEMMA OfAppend ==
    ASSUME NEW s \in Seq(Nat), NEW e \in Nat
    PROVE  /\ Append(s, e) \in Seq(Nat)
           /\ ToSet(Append(s, e)) = ToSet(s) \cup {e}
           /\ InOrder(s) /\ Below(Texts(s), {e} \ {Empty}) => InOrder(Append(s, e))
<1> DEFINE t == <<e>>
<1>1. Append(s, e) = s \o t /\ t \in Seq(Nat)
  BY AppendIsConcat
<1>2. ToSet(t) = {e} /\ InOrder(t)
  BY OfOne
<1> HIDE DEF t
<1>3. Texts(t) = {e} \ {Empty}
  BY <1>2 DEF Texts
<1>4. /\ s \o t \in Seq(Nat) /\ ToSet(s \o t) = ToSet(s) \cup ToSet(t)
      /\ InOrder(s) /\ InOrder(t) /\ Below(Texts(s), Texts(t)) => InOrder(s \o t)
  BY <1>1, OfConcat
<1>5. \A u : u = s \o t =>
          /\ u \in Seq(Nat) /\ ToSet(u) = ToSet(s) \cup {e}
          /\ InOrder(s) /\ Below(Texts(s), {e} \ {Empty}) => InOrder(u)
  BY <1>2, <1>3, <1>4
<1> QED
  BY <1>1, <1>5, Zenon

LEMMA OfTail ==
    ASSUME NEW s \in Seq(Nat), s # <<>>
    PROVE  /\ Head(s) \in Nat /\ Tail(s) \in Seq(Nat)
           /\ ToSet(s) = {Head(s)} \cup ToSet(Tail(s))
           /\ InOrder(s) => InOrder(Tail(s))
           /\ InOrder(s) => Below({Head(s)} \ {Empty}, Texts(Tail(s)))
<1> DEFINE h == Head(s)
           t == Tail(s)
           n == Len(s)
<1>1. /\ h \in Nat /\ t \in Seq(Nat) /\ h = s[1] /\ Len(t) = n - 1
      /\ n \in Nat /\ n >= 1 /\ DOMAIN s = 1..n
      /\ \A i \in 1..(n - 1) : t[i] = s[i + 1]
  BY HeadTailProperties, LenProperties
<1>2. DOMAIN t = 1..(n - 1)
  BY <1>1, LenProperties
<1> HIDE DEF h, t, n
<1>3. 1 \in DOMAIN s
  BY <1>1
<1>4. ASSUME NEW i \in DOMAIN t
      PROVE  i + 1 \in DOMAIN s /\ t[i] = s[i + 1] /\ 1 < i + 1 /\ i \in Int
  <2>1. i + 1 \in 1..n /\ 1 < i + 1 /\ i \in Int
    BY <1>1, <1>2
  <2> QED
    BY <1>1, <1>2, <2>1
<1>5. ASSUME NEW i \in DOMAIN s, i # 1 PROVE i - 1 \in DOMAIN t /\ t[i - 1] = s[i]
  <2>1. i - 1 \in 1..(n - 1) /\ (i - 1) + 1 = i
    BY <1>1, <1>5
  <2> QED
    BY <1>1, <1>2, <2>1
<1>6. ToSet(s) = {h} \cup ToSet(t)
  <2>1. ASSUME NEW x \in ToSet(s) PROVE x \in {h} \cup ToSet(t)
    <3>1. PICK i \in DOMAIN s : s[i] = x
      BY ElemAt
    <3>2. CASE i = 1
      BY <1>1, <3>1, <3>2
    <3>3. CASE i # 1
      BY <1>5, <3>1, <3>3, Elem
    <3> QED
      BY <3>2, <3>3
  <2>2. ASSUME NEW x \in ToSet(t) PROVE x \in ToSet(s)
    BY <1>4, Elem, ElemAt
  <2>3. h \in ToSet(s)
    BY <1>1, <1>3, Elem
  <2> QED
    BY <2>1, <2>2, <2>3
<1>7. ASSUME InOrder(s) PROVE InOrder(t) /\ Below({h} \ {Empty}, Texts(t))
  <2>1. InOrder(t)
    <3> SUFFICES ASSUME NEW i \in DOMAIN t, NEW j \in DOMAIN t, i < j,
                        t[i] # Empty, t[j] # Empty
                 PROVE  t[i] < t[j]
      BY DEF InOrder
    <3>1. i + 1 < j + 1
      BY <1>4
    <3> QED
      BY <1>4, <1>7, <3>1, InOrderAt
  <2>2. ASSUME h # Empty, NEW b \in Texts(t) PROVE h < b
    <3>1. b # Empty /\ \E j \in DOMAIN t : t[j] = b
      BY ElemAt DEF Texts
    <3>2. PICK j \in DOMAIN t : t[j] = b
      BY <3>1
    <3>3. j + 1 \in DOMAIN s /\ s[j + 1] = b /\ 1 < j + 1
      BY <1>4, <3>2
    <3>4. s[1] < s[j + 1]
      BY <1>1, <1>3, <1>7, <2>2, <3>1, <3>3, InOrderAt
    <3> QED
      BY <1>1, <3>3, <3>4
  <2> QED
    BY <2>1, <2>2 DEF Below
<1> QED
  BY <1>1, <1>6, <1>7 DEF h, t

-----------------------------------------------------------------------------
(* What has gone out, is going out and has yet to *)

TextTypes ==
    /\ wire \in Seq(Nat) /\ txQueue \in Seq(Nat) /\ queued \in Seq(Nat)
    /\ txHand \in Nat /\ made \in Nat /\ crashes \in Nat
    /\ ToSet(queued) \cup excused \subseteq 0..made

\* DebugMsgTx's task holds a text just while it is in UartTx.
HandInProxy == proxy # "idle" <=> txHand # Empty

InTurn ==
    /\ InOrder(wire) /\ InOrder(txQueue)
    /\ Below(ToSet(wire), Hand)
    /\ Below(ToSet(wire) \cup Hand, Texts(txQueue))

NoneMissing ==
    /\ Empty \notin ToSet(wire)
    /\ ToSet(wire) \cup Hand \cup Texts(txQueue) = Texts(queued) \ excused

TextInv == TextTypes /\ HandInProxy /\ InTurn /\ NoneMissing

textVars == <<txVars, proxy, crashes>>

LEMMA NoTexts == ToSet(<<>>) = {} /\ InOrder(<<>>) /\ <<>> \in Seq(Nat)
  BY DEF ToSet, InOrder

LEMMA FreshTexts ==
    ASSUME txQueue = <<>>, txHand = Empty, wire = <<>>, queued = <<>>, excused = {},
           proxy = "idle", made \in Nat, crashes \in Nat
    PROVE  TextInv
<1>1. Hand = {} /\ Texts(txQueue) = {} /\ Texts(queued) = {}
  BY NoTexts DEF Hand, Texts
<1>2. TextTypes /\ HandInProxy
  BY NoTexts DEF TextTypes, HandInProxy, Empty
<1>3. InTurn /\ NoneMissing
  BY <1>1, NoTexts DEF InTurn, NoneMissing, Below
<1> QED
  BY <1>2, <1>3 DEF TextInv

LEMMA InitTexts == TransmitInit => TextInv
  BY FreshTexts DEF TransmitInit, Init

\* The crash leaves nothing of what was queued, and nobody to write it.
LEMMA CrashKeepsTexts == ASSUME TextInv, Crash, FreshIfCrashed PROVE TextInv'
<1>1. crashes' # crashes /\ crashes' \in Nat /\ made \in Nat /\ proxy' = "idle"
  BY DEF Crash, TextInv, TextTypes
<1>2. /\ txQueue' = <<>> /\ txHand' = Empty /\ wire' = <<>> /\ queued' = <<>>
      /\ excused' = {} /\ made' = made
  BY <1>1 DEF FreshIfCrashed
<1>3. Hand' = {} /\ Texts(txQueue') = {} /\ Texts(queued') = {}
  BY <1>2, NoTexts DEF Hand, Texts
<1>4. TextTypes' /\ HandInProxy'
  BY <1>1, <1>2, NoTexts DEF TextTypes, HandInProxy, Empty
<1>5. InTurn' /\ NoneMissing'
  BY <1>2, <1>3, NoTexts DEF InTurn, NoneMissing, Below
<1> QED
  BY <1>4, <1>5 DEF TextInv

LEMMA OtherStepsKeepTexts ==
    ASSUME TextInv, UNCHANGED <<txQueue, txHand, wire, queued, excused, made, crashes>>,
           proxy' = "idle" <=> proxy = "idle"
    PROVE  TextInv'
<1>1. Hand' = Hand
  BY DEF Hand
<1>2. TextTypes' /\ HandInProxy'
  BY DEF TextInv, TextTypes, HandInProxy
<1>3. InTurn' /\ NoneMissing'
  BY <1>1 DEF TextInv, InTurn, NoneMissing
<1> QED
  BY <1>2, <1>3 DEF TextInv

LEMMA PushKeepsTexts == ASSUME TextInv, PushText PROVE TextInv'
<1>1. /\ made' = made + 1 /\ UNCHANGED <<txHand, wire, excused, proxy, crashes>>
      /\ \/ UNCHANGED <<txQueue, queued>>
         \/ txQueue' = Append(txQueue, Empty) /\ queued' = queued
         \/ txQueue' = Append(txQueue, made + 1) /\ queued' = Append(queued, made + 1)
  BY DEF PushText, vars, sender
<1>2. Hand' = Hand /\ HandInProxy'
  BY <1>1 DEF Hand, TextInv, HandInProxy
<1>3. /\ wire \in Seq(Nat) /\ txQueue \in Seq(Nat) /\ queued \in Seq(Nat)
      /\ txHand \in Nat /\ made \in Nat /\ crashes \in Nat
      /\ ToSet(queued) \cup excused \subseteq 0..made
  BY DEF TextInv, TextTypes
<1>4. 0..made \subseteq 0..(made + 1)
  BY <1>3
<1>5. CASE UNCHANGED <<txQueue, queued>>
  <2>1. TextTypes'
    <3>1. ToSet(queued) \cup excused \subseteq 0..(made + 1)
      BY <1>3, <1>4
    <3> QED
      BY <1>1, <1>3, <1>5, <3>1 DEF TextTypes
  <2>2. InTurn' /\ NoneMissing'
    BY <1>1, <1>2, <1>5 DEF TextInv, InTurn, NoneMissing
  <2> QED
    BY <1>2, <2>1, <2>2 DEF TextInv
<1>6. CASE txQueue' = Append(txQueue, Empty) /\ queued' = queued
  <2>1. Empty \in Nat /\ {Empty} \ {Empty} = {} /\ Below(Texts(txQueue), {})
    BY DEF Empty, Below
  <2>2. /\ txQueue' \in Seq(Nat) /\ ToSet(txQueue') = ToSet(txQueue) \cup {Empty}
        /\ InOrder(txQueue) => InOrder(txQueue')
    BY <1>3, <1>6, <2>1, OfAppend
  <2>3. Texts(txQueue') = Texts(txQueue)
    BY <2>2 DEF Texts
  <2>4. TextTypes'
    <3>1. ToSet(queued) \cup excused \subseteq 0..(made + 1)
      BY <1>3, <1>4
    <3> QED
      BY <1>1, <1>3, <1>6, <2>2, <3>1 DEF TextTypes
  <2>5. InTurn' /\ NoneMissing'
    BY <1>1, <1>2, <1>6, <2>2, <2>3 DEF TextInv, InTurn, NoneMissing
  <2> QED
    BY <1>2, <2>4, <2>5 DEF TextInv
<1>7. CASE txQueue' = Append(txQueue, made + 1) /\ queued' = Append(queued, made + 1)
  <2> DEFINE t == made + 1
  <2>1. t \in Nat /\ t \in 0..(made + 1) /\ t # Empty
    BY <1>3 DEF Empty
  <2>2. /\ txQueue' \in Seq(Nat) /\ queued' \in Seq(Nat)
        /\ ToSet(txQueue') = ToSet(txQueue) \cup {t}
        /\ ToSet(queued') = ToSet(queued) \cup {t}
        /\ InOrder(txQueue) /\ Below(Texts(txQueue), {t} \ {Empty}) => InOrder(txQueue')
    BY <1>3, <1>7, <2>1, OfAppend
  <2>3. ToSet(wire) \cup Hand \cup Texts(txQueue) = Texts(queued) \ excused
    BY DEF TextInv, NoneMissing
  <2>4. /\ \A a \in ToSet(wire) \cup Hand \cup Texts(txQueue) : a \in Nat /\ a <= made
        /\ t \notin excused
    <3>1. t \notin excused
      BY <1>3
    <3>2. ToSet(wire) \cup Hand \cup Texts(txQueue) \subseteq 0..made
      BY <1>3, <2>3 DEF Texts
    <3> QED
      BY <1>3, <3>1, <3>2
  <2>5. Below(ToSet(wire) \cup Hand \cup Texts(txQueue), {t} \ {Empty})
    BY <1>3, <2>4 DEF Below
  <2> HIDE DEF t
  <2>6. /\ Texts(txQueue') = Texts(txQueue) \cup ({t} \ {Empty})
        /\ Texts(queued') = Texts(queued) \cup ({t} \ {Empty})
    BY <2>2 DEF Texts
  <2>7. TextTypes'
    <3>1. ToSet(queued) \cup {t} \cup excused \subseteq 0..(made + 1)
      BY <1>3, <1>4, <2>1
    <3>2. made' = made + 1 /\ UNCHANGED <<txHand, wire, excused, crashes>>
      BY <1>1
    <3>3. ToSet(queued') \cup excused' = ToSet(queued) \cup {t} \cup excused
      BY <2>2, <3>2
    <3>4. ToSet(queued') \cup excused' \subseteq 0..made'
      BY <3>1, <3>2, <3>3, Zenon
    <3>5. made' \in Nat /\ txHand' \in Nat /\ crashes' \in Nat /\ wire' \in Seq(Nat)
      BY <1>3, <3>2
    <3> QED
      BY <2>2, <3>4, <3>5 DEF TextTypes
  <2>8. InTurn'
    <3>1. InOrder(txQueue')
      BY <2>2, <2>5 DEF TextInv, InTurn, Below
    <3>2. Below(ToSet(wire) \cup Hand, Texts(txQueue'))
      BY <2>5, <2>6 DEF TextInv, InTurn, Below
    <3> QED
      BY <1>1, <1>2, <3>1, <3>2 DEF TextInv, InTurn
  <2>9. NoneMissing'
    BY <1>1, <1>2, <2>3, <2>4, <2>6 DEF TextInv, NoneMissing
  <2> QED
    BY <1>2, <2>7, <2>8, <2>9 DEF TextInv
<1> QED
  BY <1>1, <1>5, <1>6, <1>7

LEMMA SkipKeepsTexts == ASSUME TextInv, SkipEmpty PROVE TextInv'
<1>1. /\ txQueue # <<>> /\ Head(txQueue) = Empty /\ txQueue' = Tail(txQueue)
      /\ UNCHANGED <<txHand, wire, queued, excused, made, proxy, crashes>>
  BY DEF SkipEmpty, vars, sender
<1>2. /\ Tail(txQueue) \in Seq(Nat) /\ Texts(txQueue') = Texts(txQueue)
      /\ InOrder(txQueue) => InOrder(txQueue')
  BY <1>1, OfTail DEF TextInv, TextTypes, Texts
<1>3. Hand' = Hand
  BY <1>1 DEF Hand
<1>4. TextTypes' /\ HandInProxy'
  BY <1>1, <1>2 DEF TextInv, TextTypes, HandInProxy
<1>5. InTurn' /\ NoneMissing'
  BY <1>1, <1>2, <1>3 DEF TextInv, InTurn, NoneMissing
<1> QED
  BY <1>4, <1>5 DEF TextInv

\* A text the task takes goes to UartTx, or is one that init excuses.
LEMMA TakeKeepsTexts == ASSUME Inv, TextInv, TakeText PROVE TextInv'
<1> DEFINE h == Head(txQueue)
<1>1. /\ txQueue # <<>> /\ h # Empty /\ txQueue' = Tail(txQueue)
      /\ proxy = "idle"
      /\ UNCHANGED <<wire, queued, made, crashes>>
  BY DEF TakeText, SendMessage, senderRest
<1>2. \/ proxy' = "write" /\ txHand' = h /\ excused' = excused
      \/ /\ proxy' = "idle" /\ txHand' = txHand
         /\ excused' = excused \cup {h}
  <2>1. \/ proxy' = "write" /\ txHand' = h /\ excused' = excused
        \/ proxy' = "idle" /\ excused' = Excuse(h) /\ txHand' = txHand
    BY DEF TakeText
  <2>2. proxy' = "idle" => con # "idle"
    BY <1>1 DEF TakeText, SendMessage, Inv, WriterThere, DriverThere
  <2> QED
    BY <2>1, <2>2 DEF Excuse
<1>3. /\ h \in Nat /\ txQueue' \in Seq(Nat) /\ ToSet(txQueue) = {h} \cup ToSet(txQueue')
      /\ InOrder(txQueue') /\ Below({h}, Texts(txQueue'))
  <2>1. txQueue \in Seq(Nat) /\ InOrder(txQueue)
    BY DEF TextInv, TextTypes, InTurn
  <2>2. {h} \ {Empty} = {h}
    BY <1>1
  <2> QED
    BY <1>1, <2>1, <2>2, OfTail
<1>4. Texts(txQueue) = {h} \cup Texts(txQueue') /\ txHand = Empty /\ Hand = {}
  BY <1>1, <1>3 DEF Texts, TextInv, HandInProxy, Hand
<1>5. h \in Texts(queued) /\ h \in ToSet(queued) /\ h \notin excused
  BY <1>4 DEF TextInv, NoneMissing, Texts
<1> HIDE DEF h
<1>6. h \notin Texts(txQueue') /\ h \notin ToSet(wire)
  BY <1>3, <1>4 DEF Below, TextInv, InTurn
<1>7. TextTypes' /\ HandInProxy'
  <2>1. ToSet(queued) \cup excused' \subseteq 0..made
    BY <1>2, <1>5 DEF TextInv, TextTypes
  <2>2. TextTypes'
    BY <1>1, <1>2, <1>3, <2>1 DEF TextInv, TextTypes
  <2>3. HandInProxy'
    BY <1>1, <1>2, <1>4 DEF HandInProxy
  <2> QED
    BY <2>2, <2>3
<1>8. Hand' = IF proxy' = "write" THEN {h} ELSE {}
  BY <1>1, <1>2, <1>4 DEF Hand
<1>9. InTurn'
  <2>1. Below(ToSet(wire), {h}) /\ Below(ToSet(wire), Texts(txQueue'))
    BY <1>4 DEF TextInv, InTurn, Below
  <2>2. Below(ToSet(wire), Hand') /\ Below(ToSet(wire) \cup Hand', Texts(txQueue'))
    BY <1>3, <1>8, <2>1 DEF Below
  <2> QED
    BY <1>1, <1>3, <2>2 DEF TextInv, InTurn
<1>10. NoneMissing'
  <2>1. ToSet(wire) \cup {h} \cup Texts(txQueue') = Texts(queued) \ excused
    BY <1>4 DEF TextInv, NoneMissing
  <2>2. ToSet(wire) \cup Hand' \cup Texts(txQueue') = Texts(queued) \ excused'
    BY <1>2, <1>5, <1>6, <1>8, <2>1
  <2> QED
    BY <1>1, <2>2 DEF TextInv, NoneMissing
<1> QED
  BY <1>7, <1>9, <1>10 DEF TextInv

LEMMA SentKeepsTexts == ASSUME TextInv, TextSent PROVE TextInv'
<1>1. /\ proxy = "write" /\ proxy' = "idle" /\ wire' = Append(wire, txHand) /\ txHand' = Empty
      /\ UNCHANGED <<txQueue, queued, excused, made, crashes>>
  BY DEF TextSent, MessageSent, senderRest
<1>2. txHand # Empty /\ txHand \in Nat /\ wire \in Seq(Nat)
  BY <1>1 DEF TextInv, TextTypes, HandInProxy
<1>3. Hand = {txHand} /\ Hand' = {}
  BY <1>1, <1>2 DEF Hand
<1>4. /\ wire' \in Seq(Nat) /\ ToSet(wire') = ToSet(wire) \cup Hand
      /\ InOrder(wire) /\ Below(Texts(wire), Hand) => InOrder(wire')
  <2>1. {txHand} \ {Empty} = Hand
    BY <1>2, <1>3
  <2> QED
    BY <1>1, <1>2, <1>3, <2>1, OfAppend
<1>5. TextTypes' /\ HandInProxy'
  BY <1>1, <1>4 DEF TextInv, TextTypes, HandInProxy, Empty
<1>6. InTurn'
  BY <1>1, <1>3, <1>4 DEF TextInv, InTurn, Below, Texts
<1>7. NoneMissing'
  BY <1>1, <1>2, <1>3, <1>4 DEF TextInv, NoneMissing
<1> QED
  BY <1>5, <1>6, <1>7 DEF TextInv

LEMMA TornKeepsTexts == ASSUME Inv, TextInv, TextTorn PROVE TextInv'
<1>1. CASE Crash
  <2>1. crashes' # crashes
    BY <1>1 DEF Crash, TextInv, TextTypes
  <2> QED
    BY <1>1, <2>1, CrashKeepsTexts DEF TextTorn
<1>2. CASE ~Crash
  <2>1. proxy = "torn" /\ proxy' = "idle" /\ crashes' = crashes
    BY <1>2 DEF TextTorn, SendTorn, senderRest
  <2>2. /\ excused' = Excuse(txHand) /\ txHand' = Empty
        /\ UNCHANGED <<txQueue, wire, queued, made>>
    BY <2>1 DEF TextTorn
  <2>3. con # "idle" /\ txHand # Empty /\ Hand = {txHand} /\ Hand' = {} /\ txHand \in Nat
    BY <2>1, <2>2 DEF Inv, TornGone, TextInv, TextTypes, HandInProxy, Hand
  <2>4. excused' = excused \cup {txHand}
    BY <2>2, <2>3 DEF Excuse
  <2>5. txHand \notin Texts(txQueue) /\ txHand \notin ToSet(wire) /\ txHand \in ToSet(queued)
    <3>1. txHand \in Texts(queued)
      BY <2>3 DEF TextInv, NoneMissing
    <3>2. \A a \in ToSet(wire) : a < txHand
      BY <2>3 DEF TextInv, InTurn, Below
    <3>3. \A b \in Texts(txQueue) : txHand < b
      BY <2>3 DEF TextInv, InTurn, Below
    <3> QED
      BY <2>3, <3>1, <3>2, <3>3 DEF Texts
  <2>6. TextTypes' /\ HandInProxy'
    BY <2>1, <2>2, <2>4, <2>5 DEF TextInv, TextTypes, HandInProxy, Empty
  <2>7. InTurn'
    BY <2>2, <2>3 DEF TextInv, InTurn, Below
  <2>8. NoneMissing'
    BY <2>2, <2>3, <2>4, <2>5 DEF TextInv, NoneMissing
  <2> QED
    BY <2>6, <2>7, <2>8 DEF TextInv
<1> QED
  BY <1>1, <1>2

LEMMA UartStepKeepsTexts == ASSUME TextInv, UartStep PROVE TextInv'
<1>1. CASE Crash
  BY <1>1, CrashKeepsTexts DEF UartStep
<1>2. CASE ~Crash
  <2>1. crashes' = crashes /\ (proxy' = "idle" <=> proxy = "idle")
    <3>1. CASE Receive \/ (\E l \in Lives : Reader(l))
      BY <1>2, <3>1 DEF Receive, Reader, ReaderEnter, ReaderTest, ReaderRead, ReaderTorn,
         WritePiece, readerRest, sender
    <3>2. CASE InitSteps
      BY <1>2, <3>2 DEF InitSteps, DeleteDriver, InstallDriver, StopReader, JoinReader,
         RemoveTx, StartReader, AddTx, Save, initRest, sender
    <3> QED
      BY <3>1, <3>2 DEF UartStep
  <2>2. UNCHANGED txVars
    BY <2>1 DEF UartStep, FreshIfCrashed
  <2> QED
    BY <2>1, <2>2, OtherStepsKeepTexts DEF txVars
<1> QED
  BY <1>1, <1>2

LEMMA NextKeepsTexts == Inv /\ TextInv /\ [TransmitNext]_transmitVars => TextInv'
<1> SUFFICES ASSUME Inv, TextInv, [TransmitNext]_transmitVars PROVE TextInv'
  OBVIOUS
<1>1. CASE UNCHANGED transmitVars \/ EnterUart \/ LeaveUart
  BY <1>1, OtherStepsKeepTexts DEF transmitVars, txVars, EnterUart, LeaveUart, vars, sender
<1>2. CASE FromKey \/ FromBrowser
  BY <1>2, PushKeepsTexts DEF FromKey, FromBrowser
<1>3. CASE Sender
  BY <1>3, SkipKeepsTexts, TakeKeepsTexts, SentKeepsTexts, TornKeepsTexts DEF Sender
<1>4. CASE Command
  BY <1>4, OtherStepsKeepTexts DEF Command, Setting, txVars, sender
<1>5. CASE UartStep
  BY <1>5, UartStepKeepsTexts
<1> QED
  BY <1>1, <1>2, <1>3, <1>4, <1>5 DEF TransmitNext

\* Whatever is typed and sent while the baud rate changes, texts go out once
\* and in their turn, and none but those init excuses is missing.
THEOREM NoTextForgotten == TransmitSpec => []TextsAccounted
<1>1. TextInv => TextsAccounted
  <2> SUFFICES ASSUME TextInv PROVE TextsAccounted
    OBVIOUS
  <2> DEFINE out == wire \o InTxHand
             going == out \o txQueue
  <2>1. /\ InTxHand \in Seq(Nat) /\ ToSet(InTxHand) = Hand /\ InOrder(InTxHand)
        /\ wire \in Seq(Nat) /\ txQueue \in Seq(Nat)
    <3>1. CASE txHand = Empty
      BY <3>1, NoTexts DEF TextInv, TextTypes, InTxHand, Hand
    <3>2. CASE txHand # Empty
      BY <3>2, OfOne DEF TextInv, TextTypes, InTxHand, Hand
    <3> QED
      BY <3>1, <3>2
  <2>2. Empty \notin ToSet(wire) \cup Hand
    BY DEF TextInv, NoneMissing, Hand
  <2>3. /\ out \in Seq(Nat) /\ ToSet(out) = ToSet(wire) \cup Hand
        /\ InOrder(wire) /\ InOrder(InTxHand) /\ Below(Texts(wire), Texts(InTxHand))
               => InOrder(out)
    BY <2>1, OfConcat
  <2>4. InOrder(out)
    BY <2>1, <2>3 DEF TextInv, InTurn, Below, Texts
  <2> HIDE DEF out
  <2>5. /\ ToSet(going) = ToSet(out) \cup ToSet(txQueue)
        /\ InOrder(out) /\ InOrder(txQueue) /\ Below(Texts(out), Texts(txQueue))
               => InOrder(going)
    BY <2>1, <2>3, OfConcat
  <2>6. InOrder(going)
    BY <2>3, <2>4, <2>5 DEF TextInv, InTurn, Below, Texts
  <2>7. Texts(going) = ToSet(wire) \cup Hand \cup Texts(txQueue)
    BY <2>2, <2>3, <2>5 DEF Texts
  <2>8. going = wire \o InTxHand \o txQueue
    BY DEF out
  <2> HIDE DEF going
  <2> QED
    BY <2>2, <2>6, <2>7, <2>8 DEF TextInv, NoneMissing, TextsAccounted
<1> QED
  BY <1>1, InitTexts, NextKeepsTexts, Invariance, TransmitIsUart, PTL DEF TransmitSpec
=============================================================================
