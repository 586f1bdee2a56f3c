------------------------------ MODULE FileServer ------------------------------
(***************************************************************************)
(* FileServerHandler (components/logger/file_server.cpp), on the web        *)
(* server's thread, one request at a time: a path that ends in '/' lists a  *)
(* directory, any other is a file, sent in chunks of SCRATCH_BUFSIZE while  *)
(* the log writer goes on adding to the card.                              *)
(*                                                                         *)
(* The log's files are taken for one: the newest is the one that changes    *)
(* under its reader.  What a reader finds is what had been flushed when it  *)
(* opened the file (FAT, external).                                        *)
(***************************************************************************)
EXTENDS Storage, Sequences, SequencesExt

CONSTANT ChunkSize      \* SCRATCH_BUFSIZE, in messages

ASSUME ServerAssumption == ChunkSize \in Nat \ {0}

VARIABLES
    srv,        \* where userHandler is: "idle" or "send"
    size,       \* the length of the file it has opened
    at,         \* how much of it was sent
    given       \* history: the most any browser was ever sent

server == <<srv, size, at, given>>
onCard == <<mounted, card, durable>>

ServerStart == srv = "idle" /\ size = 0 /\ at = 0
ServerInit == ServerStart /\ given = <<>>

Longer(s, t) == IF Len(s) < Len(t) THEN t ELSE s

Finish == srv' = "idle" /\ size' = 0 /\ at' = 0

\* Mutant: the file is read through the writer's own stream.
OpenForRead_Shares ==
    /\ srv = "idle"
    /\ mounted
    /\ \E ok \in BOOLEAN :
          /\ Fopen("web", handles, ok)
          /\ (ok /\ srv' = "send" /\ size' = Len(card)) \/ (~ok /\ UNCHANGED <<srv, size>>)
    /\ UNCHANGED <<at, given, onCard>>

\* A request for a file that is there (stat).  The others change nothing here: a
\* path too long, a directory (listed if it can be opened), a missing file.
OpenForRead ==
    /\ srv = "idle"
    /\ mounted
    /\ \E ok \in BOOLEAN :
          /\ Fopen("web", handles, ok)
          /\ (ok /\ srv' = "send" /\ size' = durable) \/ (~ok /\ UNCHANGED <<srv, size>>)
    /\ UNCHANGED <<at, given, onCard>>

\* Mutant: a connection that fails leaves the file open.
SendChunk_Leaks ==
    /\ srv = "send"
    /\ \/ /\ at < size
          /\ \E n \in 1..ChunkSize :
                /\ at + n <= size
                /\ n = ChunkSize \/ at + n = size
                /\ at' = at + n
          /\ given' = Longer(given, SubSeq(card, 1, at'))
          /\ UNCHANGED <<srv, size, handles, faults>>
       \/ /\ (at = size /\ UNCHANGED faults) \/ Fault
          /\ Finish
          /\ handles' = Fclose("web", handles)
          /\ UNCHANGED given
       \/ /\ at < size
          /\ Finish
          /\ UNCHANGED <<given, handles, faults>>
    /\ UNCHANGED onCard

\* A chunk is sent; or there is none, at the end of the file or for an error of
\* the card, which is taken for the end; or the connection fails.
SendChunk ==
    /\ srv = "send"
    /\ \/ /\ at < size
          /\ \E n \in 1..ChunkSize :
                /\ at + n <= size
                /\ n = ChunkSize \/ at + n = size
                /\ at' = at + n
          /\ given' = Longer(given, SubSeq(card, 1, at'))
          /\ UNCHANGED <<srv, size, handles, faults>>
       \/ /\ (at = size /\ UNCHANGED faults) \/ Fault
          /\ Finish
          /\ handles' = Fclose("web", handles)
          /\ UNCHANGED given
       \/ /\ at < size
          /\ Finish
          /\ handles' = Fclose("web", handles)
          /\ UNCHANGED <<given, faults>>
    /\ UNCHANGED onCard

Serve == OpenForRead \/ SendChunk
=============================================================================
