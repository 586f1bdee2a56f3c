-------------------------------- MODULE Ota --------------------------------
(***************************************************************************)
(* Updating the firmware: BinUploadHandler::userHandler stores an uploaded *)
(* image on the SD card (components/ota/bin_upload.cpp) and restarts the   *)
(* device, whose next start runs Ota::update on that file (ota.cpp,        *)
(* main.cpp:44): check it, write it to the slot that is not running, make  *)
(* that slot the boot slot, remove the file, restart.                      *)
(*                                                                         *)
(* The power may fail at any step, the card, the flash and the connection  *)
(* may each report an error, and the web server answers uploads while      *)
(* update still runs.  An image is cut into Full pieces of which the first *)
(* holds the header; the handler's loop and update's loop each move one at *)
(* a time.  esp_ota_* and the boot loader are external.                    *)
(***************************************************************************)
EXTENDS Naturals

CONSTANTS
    Versions,       \* firmware versions an uploaded image may carry
    Full,           \* pieces of a complete image
    MaxUploads,     \* bound on uploads
    MaxPowerCuts,   \* bound on power cuts
    MaxFaults       \* bound on errors reported by card, flash and network

ASSUME OtaAssumption ==
    /\ Versions \subseteq Nat
    /\ Full \in Nat \ {0}
    /\ {MaxUploads, MaxPowerCuts, MaxFaults} \subseteq Nat

VARIABLES
    slot,       \* slot[s]: image in flash: version, valid or not, its upload
    boot,       \* the slot selected in otadata
    running,    \* the slot the device started from
    pc,         \* "off", the step of Ota::update, or "run" (after it)
    mounted,    \* FsManager has the card
    file,       \* the file at getBinFilePath() on the card
    opened,     \* the file update has open, as it was when opened
    flashed,    \* pieces esp_ota_write took
    intact,     \* the pieces written were all of the opened file, none failed
    up,         \* the upload handler: idle or receiving, and how much is left
    armed,      \* the one-shot reboot timer runs
    uploads,    \* uploads started so far
    claimed,    \* history: uploads answered "File uploaded successfully"
    calm,       \* history: uploads that began after update was over
    kept,       \* history: unfinished files that unlink could not remove
    cuts,       \* power cuts so far
    faults      \* errors so far

flash == <<slot, boot>>
updater == <<opened, flashed, intact>>
uploader == <<up, armed, uploads, claimed, calm, kept>>
vars == <<flash, running, pc, mounted, file, updater, uploader, cuts, faults>>

Slots == {0, 1}
Other(s) == 1 - s
NoFile == [id |-> 0, ver |-> 0, good |-> FALSE, len |-> 0]
Nobody == [pc |-> "idle", left |-> 0]
Exists == file # NoFile

Init ==
    /\ slot \in [Slots -> [ver : Versions, ok : BOOLEAN, from : {0}]]
    /\ slot[0].ok
    /\ boot = 0
    /\ running = 0
    /\ pc = "off"
    /\ mounted = FALSE
    /\ file = NoFile
    /\ opened = NoFile
    /\ flashed = 0
    /\ intact = FALSE
    /\ up = Nobody
    /\ armed = FALSE
    /\ uploads = 0
    /\ claimed = {}
    /\ calm = {}
    /\ kept = {}
    /\ cuts = 0
    /\ faults = 0

Fault == faults < MaxFaults /\ faults' = faults + 1

\* The device loses all but flash and card.  Of a file still being written the
\* card keeps some prefix; one that was closed it keeps whole.
GoDown ==
    /\ pc' = "off"
    /\ mounted' = FALSE
    /\ opened' = NoFile
    /\ flashed' = 0
    /\ intact' = FALSE
    /\ up' = Nobody
    /\ armed' = FALSE
    /\ \/ up.pc = "recv" /\ Exists /\ \E n \in 0..file.len : file' = [file EXCEPT !.len = n]
       \/ ~(up.pc = "recv" /\ Exists) /\ UNCHANGED file
    /\ UNCHANGED <<running, uploads, claimed, calm, kept>>

PowerCut ==
    /\ pc # "off"
    /\ cuts < MaxPowerCuts
    /\ cuts' = cuts + 1
    /\ GoDown
    /\ UNCHANGED <<flash, faults>>

-----------------------------------------------------------------------------
(* The start: the boot loader takes the selected slot if its image is valid,
   else the other one. *)

Start ==
    /\ pc = "off"
    /\ \/ slot[boot].ok /\ running' = boot
       \/ ~slot[boot].ok /\ slot[Other(boot)].ok /\ running' = Other(boot)
    /\ pc' = "mount"
    /\ UNCHANGED <<flash, mounted, file, updater, uploader, cuts, faults>>

-----------------------------------------------------------------------------
(* Ota::update.  The upload handler is registered before it runs. *)

updateRest == <<running, file, uploader, cuts>>

\* A card that cannot be mounted now is not tried again until a restart.
UpdateMount ==
    /\ pc = "mount"
    /\ pc' = "open"
    /\ \/ mounted' = TRUE /\ UNCHANGED faults
       \/ mounted' = FALSE /\ Fault
    /\ UNCHANGED <<flash, updater, updateRest>>

UpdateOpen ==
    /\ pc = "open"
    /\ \/ mounted /\ Exists /\ pc' = "check" /\ opened' = file
       \/ ~(mounted /\ Exists) /\ pc' = "run" /\ UNCHANGED opened
    /\ UNCHANGED <<flash, mounted, flashed, intact, updateRest, faults>>

\* What a read of the open file finds: its own pieces, or whatever took their
\* place on the card.
Readable(n) == file.id = opened.id /\ file.len >= n

\* Too short for the header, or the version that is running: leave the file.
UpdateCheck ==
    /\ pc = "check"
    /\ \/ /\ Readable(1)
          /\ file.ver # slot[running].ver
          /\ pc' = "begin"
       \/ /\ ~(Readable(1) /\ file.ver # slot[running].ver)
          /\ pc' = "run"
    /\ UNCHANGED <<flash, mounted, updater, updateRest, faults>>

\* Mutant: the update goes to the partition that is running.
updateSlot_Running == running

updateSlot == Other(running)    \* esp_ota_get_next_update_partition

UpdateBegin ==
    /\ pc = "begin"
    /\ pc' = "write"
    /\ flashed' = 0
    /\ intact' = TRUE
    /\ UNCHANGED <<flash, mounted, opened, updateRest, faults>>

\* esp_ota_begin fails: abort and restart, with the file still there.
UpdateBeginFails ==
    /\ pc = "begin"
    /\ Fault
    /\ GoDown
    /\ UNCHANGED <<flash, cuts>>

\* The first write erases the slot's image.
Overwrite == slot' = [slot EXCEPT ![updateSlot] =
                         [ver |-> opened.ver, ok |-> FALSE, from |-> opened.id]]

UpdateWrite ==
    /\ pc = "write"
    /\ flashed < Full
    /\ Readable(flashed + 1)
    /\ flashed' = flashed + 1
    /\ Overwrite
    /\ UNCHANGED <<boot, pc, mounted, opened, intact, updateRest, faults>>

\* The file has no more to give (it is complete, was cut, or is gone).
UpdateEof ==
    /\ pc = "write"
    /\ flashed = Full \/ ~Readable(flashed + 1)
    /\ pc' = "end"
    /\ UNCHANGED <<flash, mounted, updater, updateRest, faults>>

\* esp_ota_write fails, before or after it erased: abort, then go on.
UpdateWriteFails ==
    /\ pc = "write"
    /\ flashed < Full
    /\ Readable(flashed + 1)
    /\ Fault
    /\ pc' = "end"
    /\ intact' = FALSE
    /\ \/ Overwrite
       \/ flashed = 0 /\ UNCHANGED slot
    /\ UNCHANGED <<boot, mounted, opened, flashed, updateRest>>

\* All of a good file has reached the slot.
Complete == intact /\ flashed = Full /\ opened.good

\* esp_ota_end validates what was written, and may fail even so; its error is
\* only logged.
UpdateEnd ==
    /\ pc = "end"
    /\ pc' = "setboot"
    /\ \/ Complete /\ slot' = [slot EXCEPT ![updateSlot].ok = TRUE] /\ UNCHANGED faults
       \/ ~Complete /\ UNCHANGED <<slot, faults>>
       \/ Complete /\ Fault /\ UNCHANGED slot
    /\ UNCHANGED <<boot, mounted, updater, updateRest>>

\* esp_ota_set_boot_partition: selects the slot if the image in it is valid,
\* whether or not it is the one just written; otadata may not take it.
UpdateSetBoot ==
    /\ pc = "setboot"
    /\ pc' = "remove"
    /\ \/ slot[updateSlot].ok /\ boot' = updateSlot /\ UNCHANGED faults
       \/ ~slot[updateSlot].ok /\ UNCHANGED <<boot, faults>>
       \/ slot[updateSlot].ok /\ Fault /\ UNCHANGED boot
    /\ UNCHANGED <<slot, mounted, updater, updateRest>>

\* Mutant: the file is not removed after the update.
UpdateRemove_Kept ==
    /\ pc = "remove"
    /\ pc' = "restart"
    /\ UNCHANGED <<flash, running, mounted, file, updater, uploader, cuts, faults>>

\* remove(filePath), whose result is not read.
UpdateRemove ==
    /\ pc = "remove"
    /\ pc' = "restart"
    /\ \/ file' = NoFile /\ UNCHANGED faults
       \/ Fault /\ UNCHANGED file
    /\ UNCHANGED <<flash, running, mounted, updater, uploader, cuts>>

UpdateRestart ==
    /\ pc = "restart"
    /\ GoDown
    /\ UNCHANGED <<flash, cuts, faults>>

-----------------------------------------------------------------------------
(* BinUploadHandler::userHandler, on the web server's thread *)

uploadRest == <<flash, running, pc, mounted, updater, cuts>>

\* The file is created at its final path; one that exists is refused with 400.
UploadStart(ver, good) ==
    /\ pc \notin {"off", "mount"}
    /\ up = Nobody
    /\ mounted
    /\ ~Exists
    /\ uploads < MaxUploads
    /\ uploads' = uploads + 1
    /\ file' = [id |-> uploads + 1, ver |-> ver, good |-> good, len |-> 0]
    /\ up' = [pc |-> "recv", left |-> Full]
    /\ calm' = IF pc = "run" THEN calm \cup {uploads + 1} ELSE calm
    /\ UNCHANGED <<armed, claimed, kept, uploadRest, faults>>

\* Receive and write a piece (into nowhere if update has removed the file).
UploadReceive ==
    /\ up.pc = "recv"
    /\ up.left > 0
    /\ up' = [up EXCEPT !.left = @ - 1]
    /\ file' = IF Exists THEN [file EXCEPT !.len = @ + 1] ELSE file
    /\ UNCHANGED <<armed, uploads, claimed, calm, kept, uploadRest, faults>>

\* Mutant: the unfinished file is closed but not deleted.
UploadFails_NoUnlink ==
    /\ up.pc = "recv"
    /\ up.left > 0
    /\ Fault
    /\ up' = Nobody
    /\ UNCHANGED <<file, armed, uploads, claimed, calm, kept, uploadRest>>

\* The connection or the card fails: close and unlink, whose result is not
\* read; a card that has failed may refuse that too.
UploadFails ==
    /\ up.pc = "recv"
    /\ up.left > 0
    /\ Fault
    /\ up' = Nobody
    /\ \/ file' = NoFile /\ UNCHANGED kept
       \/ Exists /\ kept' = kept \cup {file.id} /\ UNCHANGED file
    /\ UNCHANGED <<armed, uploads, claimed, calm, uploadRest>>

\* Mutant: success is answered without starting the reboot timer.
UploadDone_NoTimer ==
    /\ up.pc = "recv"
    /\ up.left = 0
    /\ up' = Nobody
    /\ claimed' = claimed \cup {uploads}
    /\ UNCHANGED <<file, armed, uploads, calm, kept, uploadRest, faults>>

\* Success is answered whether or not fclose brought the rest to the card.
UploadDone ==
    /\ up.pc = "recv"
    /\ up.left = 0
    /\ up' = Nobody
    /\ armed' = TRUE
    /\ claimed' = claimed \cup {uploads}
    /\ \/ UNCHANGED <<file, faults>>
       \/ Exists /\ Fault /\ \E n \in 0..file.len : file' = [file EXCEPT !.len = n]
    /\ UNCHANGED <<uploads, calm, kept, uploadRest>>

RebootTimer ==
    /\ armed
    /\ GoDown
    /\ UNCHANGED <<flash, cuts, faults>>

-----------------------------------------------------------------------------
Update ==
    \/ UpdateMount \/ UpdateOpen \/ UpdateCheck \/ UpdateBegin \/ UpdateBeginFails
    \/ UpdateWrite \/ UpdateEof \/ UpdateWriteFails \/ UpdateEnd
    \/ UpdateSetBoot \/ UpdateRemove \/ UpdateRestart

Upload == UploadReceive \/ UploadFails \/ UploadDone

Next ==
    \/ Start \/ Update \/ PowerCut
    \/ \E v \in Versions, g \in BOOLEAN : UploadStart(v, g)
    \/ Upload \/ RebootTimer

(* The power comes back, update and a started upload go on, the timer fires. *)
Fairness ==
    /\ WF_vars(Start)
    /\ WF_vars(Update)
    /\ WF_vars(Upload)
    /\ WF_vars(RebootTimer)

Spec == Init /\ [][Next]_vars
FairSpec == Spec /\ Fairness

-----------------------------------------------------------------------------
(* Properties *)

Ids == 0..MaxUploads
FileType == [id : Ids, ver : Versions \cup {0}, good : BOOLEAN, len : 0..Full]

\* Every variable keeps to its type (ota.cpp:201-296, bin_upload.cpp:56-159).
TypeOK ==
    /\ slot \in [Slots -> [ver : Versions \cup {0}, ok : BOOLEAN, from : Ids]]
    /\ boot \in Slots
    /\ running \in Slots
    /\ pc \in {"off", "mount", "open", "check", "begin", "write", "end",
               "setboot", "remove", "restart", "run"}
    /\ mounted \in BOOLEAN
    /\ file \in FileType
    /\ opened \in FileType
    /\ flashed \in 0..Full
    /\ intact \in BOOLEAN
    /\ up \in [pc : {"idle", "recv"}, left : 0..Full]
    /\ armed \in BOOLEAN
    /\ uploads \in Ids
    /\ claimed \subseteq Ids
    /\ calm \subseteq Ids
    /\ kept \subseteq Ids
    /\ cuts \in 0..MaxPowerCuts
    /\ faults \in 0..MaxFaults

\* Wherever the power fails and whatever fails to write, the selected slot
\* holds a valid image and the running one is never written over.
AlwaysBootable ==
    /\ slot[boot].ok
    /\ pc # "off" => slot[running].ok
    /\ pc \notin {"off", "remove", "restart"} => running = boot

\* A file that is left when update is over and no upload is under way is one
\* update refused, too short for a header or the running version, or one the
\* card did not let the handler remove.  (Such a file may stay for good, and
\* every further upload is answered with 400.)
LeftoverWasRefused ==
    pc = "run" /\ mounted /\ Exists /\ up = Nobody /\ ~armed =>
        file.len = 0 \/ file.ver = slot[running].ver \/ file.id \in kept

\* Whatever remains of cut or refused uploads, the device ends up running: no
\* image on the card makes it restart for ever.
Settles == []<>(pc = "run")

\* An upload that was answered with success, begun when update was over, is the
\* firmware that runs in the end, or that of a later upload is, if it is a
\* valid image of another version and no device reports an error; power cuts
\* only delay it.
GoodUploadInstalled ==
    \A u \in 1..MaxUploads :
        (/\ u \in claimed \cap calm /\ file.id = u /\ file.good
         /\ file.ver # slot[running].ver)
        ~> (\/ pc = "run" /\ slot[running].from >= u
            \/ faults > 0)

\* The boot slot is only ever switched to the image of the file that update
\* was given (ota.hpp:35, "Firmware update with given file").
BootsGivenFile ==
    [][boot' # boot => slot[boot'].from = opened.id]_vars
=============================================================================
