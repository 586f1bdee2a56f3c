------------------------------- MODULE Storage -------------------------------
(***************************************************************************)
(* The SD card (components/storage): FsManager makes one SdCard object at   *)
(* the start, whose constructor mounts the card or fails, and never tries  *)
(* again; the mounted FAT file system lets max_files files be open.        *)
(*                                                                         *)
(* Two users open files while messages flow: the log writer and the web    *)
(* server's thread.  FAT itself is external: what a file holds is on the   *)
(* card, and seen by whoever opens it, as far as it has been flushed.      *)
(***************************************************************************)
EXTENDS Naturals

CONSTANTS
    MaxFiles,   \* max_files
    MaxFaults   \* bound on errors of the card

ASSUME StorageAssumption == MaxFiles \in Nat \ {0} /\ MaxFaults \in Nat

Users == {"log", "web"}

VARIABLES
    mounted,    \* mpSdcard->isInit(): the one attempt has succeeded
    card,       \* the messages in the log's files, oldest first
    durable,    \* how many of them have been flushed
    handles,    \* handles[u]: the files user u has open
    faults

\* FsManager's constructor; every later mount() finds the object there.
MountAtStart == mounted \in BOOLEAN

Fault == faults < MaxFaults /\ faults' = faults + 1

InUse(h) == h["log"] + h["web"]

\* fopen by u, with the files in h open: it fails when too many are, or when
\* the card does.
Fopen(u, h, ok) ==
    \/ /\ ok
       /\ InUse(h) < MaxFiles
       /\ handles' = [h EXCEPT ![u] = @ + 1]
       /\ UNCHANGED faults
    \/ /\ ~ok
       /\ handles' = h
       /\ (InUse(h) >= MaxFiles /\ UNCHANGED faults) \/ Fault

Fclose(u, h) == [h EXCEPT ![u] = @ - 1]
=============================================================================
