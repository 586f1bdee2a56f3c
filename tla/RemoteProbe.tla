----------------------------- MODULE RemoteProbe -----------------------------
(***************************************************************************)
(* pyOCD's remote probe (components/ocd): the socket server, which serves   *)
(* one client for as long as it can, the parser that acts on each request   *)
(* when its JSON document is complete, and the transfers of Swd it makes    *)
(* before it answers.                                                       *)
(*                                                                         *)
(* A client waits for the answer to a request before it sends the next, as  *)
(* pyOCD does; it may close the connection, or lose it, at any moment.      *)
(***************************************************************************)
EXTENDS Swd

CONSTANT Blocks     \* lengths of the blocks read and written, none of them 0

ASSUME ProbeAssumption == Blocks \subseteq Nat \ {0}

VARIABLES
    conn,       \* the accepted connection: "none", "open", "finished" or "reset"
    server,     \* the server task: "accept", "recv", "exec"
    req,        \* the last request, unless it failed
    todo,       \* the transfers it still needs
    got,        \* what its reads returned
    answer,     \* the answer to it, while the client waits for one or looks at it
    ack,        \* history: the last transfer's outcome
    from        \* history: the address at which a request for AP data found the AP

serverVars == <<conn, server>>
requestVars == <<req, todo, got, answer, ack, from>>
vars == <<swdVars, serverVars, requestVars>>

-----------------------------------------------------------------------------
Nowhere == [addr |-> 0, aimed |-> FALSE]

\* Where cmd finds the AP; aimed if DRW is selected, and counts along for several.
Found(cmd) == [addr |-> tar, aimed |-> bank = 0 /\ (inc \/ cmd = "read_ap")]

(* Requests.  `plain` are those answered at once (hello, set_clock, lock,
   unlock, close, disconnect, flush, get_memory_interface_for_ap and readprop
   of a known property); `silent` those never answered (swd_sequence,
   jtag_sequence, reset, assert_reset, is_reset_asserted, swo_*, *_block8 and
   readprop of another property). *)

Request(cmd, addr, data, n) == [cmd |-> cmd, addr |-> addr, data |-> data, n |-> n]
NoRequest == Request("none", 0, <<>>, 0)

BlocksOf(n) == [1..n -> Data]

Requests ==
    {Request(c, 0, <<>>, 0) : c \in {"plain", "silent", "unknown", "open", "swj_sequence",
                                    "connect", "read_ap"}}
    \cup {Request(c, b, <<>>, 0) : c \in {"read_dp", "write_dp"}, b \in 0..1}
    \cup {Request("read_ap_multiple", 0, <<>>, n) : n \in Blocks}
    \cup {Request("write_ap_multiple", 0, ds, 0) : ds \in UNION {BlocksOf(n) : n \in Blocks}}
    \cup {Request(c, a, <<>>, 0) : c \in {"write_ap", "read_mem"}, a \in Words}
    \cup {Request("write_mem", a, <<d>>, 0) : a \in Words, d \in Data}
    \cup {Request("read_block32", a, <<>>, n) : a \in Words, n \in Blocks}
    \cup {Request("write_block32", a, ds, 0) : a \in Words, ds \in UNION {BlocksOf(n) : n \in Blocks}}

\* Those that go by the address, the bank and the increment they find.
ApData == {"read_ap", "read_ap_multiple", "write_ap_multiple"}

\* The transfers of a request (read_dp stands for a read of the status or of
\* RDBUFF, write_dp for a write of SELECT, write_ap for one of TAR, and read_ap
\* for a read of DRW; the *_multiple always access DRW).
Transfers(r) ==
    CASE r.cmd = "connect" -> CleareErrors
      [] r.cmd = "read_dp" -> ReadDp(IF r.addr = 0 THEN "CTRL_STAT" ELSE "RDBUFF")
      [] r.cmd = "write_dp" -> WriteDp("SELECT", r.addr)
      [] r.cmd = "write_ap" -> WriteAp("TAR", r.addr)
      [] r.cmd = "read_ap" -> ReadAp("DRW")
      [] r.cmd = "read_ap_multiple" -> ReadApMultiple(r.n)
      [] r.cmd = "write_ap_multiple" -> WriteApMultiple(r.data)
      [] r.cmd = "read_mem" -> ReadMemory(r.addr)
      [] r.cmd = "write_mem" -> WriteMemory(r.addr, r.data[1])
      [] r.cmd = "read_block32" -> ReadMemoryBlock32(r.addr, r.n)
      [] r.cmd = "write_block32" -> WriteMemoryBlock32(r.addr, r.data)
      [] OTHER -> <<>>

\* Requests whose failed transfers are passed over: connect drops the result of
\* cleareErrors, and readAp that of its first read.
PassedOver == req.cmd = "connect" \/ (req.cmd = "read_ap" /\ Len(todo) = 2)

\* The reads whose results the answer holds: the last ones.  (That of read_dp
\* is no word of the memory, and left out.)
ResultLength == IF req.cmd \in {"read_block32", "read_ap_multiple"} THEN req.n ELSE 1

Reads == {"read_ap", "read_ap_multiple", "read_mem", "read_block32"}

NoAnswerYet == [kind |-> "none", data |-> <<>>]
Okay == [kind |-> "okay", data |->
            IF req.cmd \in Reads
            THEN SubSeq(got, Len(got) - ResultLength + 1, Len(got)) ELSE <<>>]
Error == [kind |-> "error", data |-> <<>>]

-----------------------------------------------------------------------------
Init ==
    /\ SwdInit
    /\ conn = "none"
    /\ server = "accept"
    /\ req = NoRequest
    /\ todo = <<>>
    /\ got = <<>>
    /\ answer = NoAnswerYet
    /\ ack = "Ok"
    /\ from = Nowhere

(* The client *)

ClientLeaves ==
    /\ conn = "open"
    /\ conn' \in {"finished", "reset"}
    /\ UNCHANGED <<swdVars, server, requestVars>>

-----------------------------------------------------------------------------
(* The server *)

\* A client connects (one that does so earlier waits in the backlog).
Accept ==
    /\ server = "accept"
    /\ conn' = "open"
    /\ server' = "recv"
    /\ UNCHANGED <<swdVars, requestVars>>

\* A whole document has arrived: endDocument.
Recv(r) ==
    /\ server = "recv"
    /\ conn = "open"
    /\ req = NoRequest \/ answer # NoAnswerYet
    /\ server' = "exec"
    /\ req' = r
    /\ todo' = Transfers(r)
    /\ got' = <<>>
    /\ answer' = NoAnswerYet
    /\ ack' = "Ok"
    /\ from' = IF r.cmd \in ApData THEN Found(r.cmd) ELSE Nowhere
    /\ UNCHANGED <<swdVars, conn>>

\* recv returns 0 for a connection that was finished.  The loop goes on with
\* it; in the end the stack may answer with an error instead.
RecvClosed ==
    /\ server = "recv"
    /\ conn = "finished"
    /\ conn' = "reset"
    /\ UNCHANGED <<swdVars, server, requestVars>>

\* The device starts again: the pins are set up and the server listens anew.
Restart ==
    /\ driven' = TRUE
    /\ conn' = "none"
    /\ server' = "accept"
    /\ req' = NoRequest
    /\ todo' = <<>>
    /\ got' = <<>>
    /\ answer' = NoAnswerYet
    /\ ack' = "Ok"
    /\ from' = Nowhere
    /\ UNCHANGED <<target, noise, losses>>

\* recv fails: serverMain and acceptThread return, and FreeRTOS aborts a task
\* whose function returns.
RecvFails ==
    /\ server = "recv"
    /\ conn = "reset"
    /\ Restart

-----------------------------------------------------------------------------
(* A request *)

\* The next transfer is done; a failed one ends the request, unless passed over.
Outcome(a) ==
    /\ ack' = a
    /\ todo' = IF a = "Ok" \/ PassedOver THEN Tail(todo) ELSE <<>>
    /\ got' = IF a = "Ok" /\ Head(todo).rnw THEN Append(got, buf) ELSE got
    /\ UNCHANGED <<serverVars, req, answer, from>>

Executing == server = "exec" /\ todo # <<>>

Transfer ==
    /\ Executing
    /\ \/ TransferOk(Head(todo)) /\ Outcome("Ok")
       \/ TransferFault(Head(todo)) /\ Outcome("Fault")
       \/ ReadParityError(Head(todo)) /\ Outcome("ParityError")
       \/ WriteLost(Head(todo)) /\ Outcome("Ok")
       \/ NoAnswer /\ Outcome("None")

Failed == ack # "Ok" /\ req.cmd # "connect"

\* open makes a line reset, swj_sequence what the client asks for.
Sequences ==
    \/ req.cmd \in {"open", "swj_sequence"} /\ LineReset
    \/ req.cmd = "swj_sequence" /\ Garble
    \/ req.cmd # "open" /\ UNCHANGED swdVars

\* Mutant: a failed request is not answered.
Reply_OnlyOkay ==
    /\ server = "exec"
    /\ todo = <<>>
    /\ req.cmd \notin {"silent", "unknown"}
    /\ server' = "recv"
    /\ answer' = IF Failed THEN NoAnswerYet ELSE Okay
    /\ Sequences
    /\ got' = <<>>
    /\ UNCHANGED <<conn, req, todo, ack, from>>

\* The answer of a request whose transfers are over.  (One that failed is then
\* forgotten, which makes no difference to the program and fewer states.)
Reply ==
    /\ server = "exec"
    /\ todo = <<>>
    /\ req.cmd \notin {"silent", "unknown"}
    /\ server' = "recv"
    /\ answer' = IF Failed THEN Error ELSE Okay
    /\ Sequences
    /\ got' = <<>>
    /\ req' = IF Failed THEN NoRequest ELSE req
    /\ from' = IF Failed THEN Nowhere ELSE from
    /\ UNCHANGED <<conn, todo, ack>>

\* No answer.  For a word that is no command the log reads past the end of
\* cCmdStr, after which the device may crash.
Ignore ==
    /\ server = "exec"
    /\ \/ /\ req.cmd \in {"silent", "unknown"}
          /\ server' = "recv"
          /\ UNCHANGED <<swdVars, conn, requestVars>>
       \/ req.cmd = "unknown" /\ Restart

-----------------------------------------------------------------------------
Server == Accept \/ RecvClosed \/ RecvFails \/ Transfer \/ Reply \/ Ignore

Next ==
    \/ ClientLeaves
    \/ \E r \in Requests : Recv(r)
    \/ Server
    \/ (LosePower \/ GetPower) /\ UNCHANGED <<serverVars, requestVars>>

(* The task runs and the target does not say Wait for ever. *)
Fairness == WF_vars(Transfer \/ Reply \/ Ignore)

Spec == Init /\ [][Next]_vars
FairSpec == Spec /\ Fairness

-----------------------------------------------------------------------------
(* Properties *)

\* Every variable keeps to its type.
TypeOK ==
    /\ SwdTypeOK
    /\ conn \in {"none", "open", "finished", "reset"}
    /\ server \in {"accept", "recv", "exec"}
    /\ req \in Requests \cup {NoRequest}
    /\ todo = <<>> \/ \E n \in 0..Len(Transfers(req)) :
                          todo = SubSeq(Transfers(req), n + 1, Len(Transfers(req)))
    /\ got \in Seq(Data)
    /\ answer.kind \in {"none", "okay", "error"}
    /\ answer.data \in {<<>>} \cup [1..1 -> Data] \cup UNION {BlocksOf(n) : n \in Blocks}
    /\ ack \in {"Ok", "Fault", "ParityError", "None"}
    /\ from \in [addr : 0..(LastWord + 1), aimed : BOOLEAN]

InOnePage(a, n) == (a % PageSize) + n <= PageSize
Slice(a, n) == [i \in 1..n |-> mem[a + i - 1]]

\* n accesses of DRW from where the request found TAR count along the memory.
Aimed(n) == from.aimed /\ InOnePage(from.addr, n)

\* A read that is answered with success returns what the memory holds, whatever
\* errors stuck before, whatever bank and address the client had selected, and
\* even if the target lost its power on the way; a block has to lie in one page
\* of the address increment, for readMemoryBlcok32 sets the address only once,
\* and readApMultiple takes it as it is.
ReadsAreTrue ==
    answer.kind = "okay" =>
        /\ req.cmd = "read_mem" => answer.data = <<mem[req.addr]>>
        /\ (req.cmd = "read_block32" /\ InOnePage(req.addr, req.n)) =>
               answer.data = Slice(req.addr, req.n)
        /\ (req.cmd = "read_ap" /\ from.aimed) => answer.data = <<mem[from.addr]>>
        /\ (req.cmd = "read_ap_multiple" /\ Aimed(req.n)) =>
               answer.data = Slice(from.addr, req.n)

\* A write that is answered with success is in the memory, although the probe
\* sees every single write acknowledged before it can fail.
WritesHappened ==
    answer.kind = "okay" =>
        /\ req.cmd = "write_mem" => mem[req.addr] = req.data[1]
        /\ (req.cmd = "write_block32" /\ InOnePage(req.addr, Len(req.data))) =>
               Slice(req.addr, Len(req.data)) = req.data
        /\ (req.cmd = "write_ap_multiple" /\ Aimed(Len(req.data))) =>
               Slice(from.addr, Len(req.data)) = req.data

\* A memory access answered with success leaves no error behind for the next
\* request, except that read_mem, which reads a word too many, does so at the end
\* of the memory.
OkLeavesClean ==
    (/\ answer.kind = "okay"
     /\ req.cmd \in {"read_mem", "write_mem", "read_block32", "write_block32",
                    "read_ap_multiple", "write_ap_multiple"}
     /\ ~(req.cmd = "read_mem" /\ req.addr = LastWord))
    => ~sticky

\* A request of the kinds that are answered at all is answered, with an error
\* if need be, while its connection lasts.
Answered ==
    (server = "exec" /\ req.cmd \notin {"silent", "unknown"})
        ~> (answer # NoAnswerYet \/ conn # "open")

\* "ACK FAULT received" (pyocd_server.cpp:265) is answered when the target
\* has answered FAULT.
ErrorIsFault == answer.kind = "error" => ack = "Fault"
=============================================================================
