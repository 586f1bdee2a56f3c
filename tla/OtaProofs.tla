------------------------------ MODULE OtaProofs ------------------------------
(***************************************************************************)
(* The device always has a valid image to start from: a proof for any      *)
(* number of uploads, power cuts and errors.                               *)
(*                                                                         *)
(* Bootable alone is not inductive: it also takes that update only writes  *)
(* while the selected slot is the running one (WritesElsewhere), which is  *)
(* so because a restart follows every change of the selection.             *)
(*                                                                         *)
(* What stays on the card has been refused.  Until update has checked it,  *)
(* a file at rest is the one it opened (StillOpened), since any other is   *)
(* still being received, has armed the timer or could not be removed; so   *)
(* what the check goes by is what the property speaks of.                  *)
(***************************************************************************)
EXTENDS Ota, TLAPS

Places == {"off", "mount", "open", "check", "begin", "write", "end",
           "setboot", "remove", "restart", "run"}

SlotType == slot \in [Slots -> [ver : Nat, ok : BOOLEAN, from : Nat]]

\* What the proof needs of the types of the variables.
FlashOK ==
    /\ SlotType
    /\ boot \in Slots
    /\ running \in Slots
    /\ pc \in Places
    /\ opened.ver \in Nat
    /\ opened.id \in Nat
    /\ file.ver \in Nat
    /\ file.id \in Nat
    /\ uploads \in Nat

Bootable ==
    /\ slot[boot].ok
    /\ pc # "off" => slot[running].ok

WritesElsewhere == pc \notin {"off", "remove", "restart"} => running = boot

Inv == FlashOK /\ Bootable /\ WritesElsewhere

LEMMA InitInv == Init => Inv
<1> SUFFICES ASSUME Init PROVE Inv
  OBVIOUS
<1>1. SlotType
  <2> SUFFICES ASSUME NEW s \in Slots
               PROVE  slot[s] \in [ver : Nat, ok : BOOLEAN, from : Nat]
    BY DEF Init, SlotType
  <2>1. slot[s] \in [ver : Versions, ok : BOOLEAN, from : {0}]
    BY DEF Init
  <2>2. Versions \subseteq Nat /\ {0} \subseteq Nat
    BY OtaAssumption
  <2> QED
    BY <2>1, <2>2
<1>2. FlashOK
  BY <1>1 DEF Init, FlashOK, Slots, Places, NoFile
<1>3. Bootable /\ WritesElsewhere
  BY DEF Init, Bootable, WritesElsewhere
<1> QED
  BY <1>2, <1>3 DEF Inv

\* Going down keeps the flash, and the card keeps what its file is.
LEMMA DownKeepsInv ==
    ASSUME Inv, GoDown, UNCHANGED flash
    PROVE  Inv'
<1>1. file'.ver = file.ver /\ file'.id = file.id
  <2>1. CASE UNCHANGED file
    BY <2>1
  <2>2. CASE Exists /\ \E n \in 0..file.len : file' = [file EXCEPT !.len = n]
    BY <2>2
  <2> QED
    BY <2>1, <2>2 DEF GoDown
<1>2. opened'.ver \in Nat /\ opened'.id \in Nat
  BY DEF GoDown, NoFile
<1>3. FlashOK'
  BY <1>1, <1>2 DEF Inv, FlashOK, SlotType, GoDown, flash, Places
<1>4. Bootable' /\ WritesElsewhere'
  BY DEF Inv, Bootable, WritesElsewhere, GoDown, flash
<1> QED
  BY <1>3, <1>4 DEF Inv

-----------------------------------------------------------------------------
(* The start and the steps of update *)

LEMMA StartKeepsInv == ASSUME Inv, Start PROVE Inv'
  BY DEF Inv, Start, FlashOK, SlotType, Bootable, WritesElsewhere, flash,
         updater, uploader, Places, Slots, Other

LEMMA OpenKeepsInv ==
    ASSUME Inv, UpdateMount \/ UpdateOpen \/ UpdateCheck \/ UpdateBegin \/ UpdateEof
    PROVE  Inv'
<1>1. UNCHANGED <<slot, boot, running, file, uploads>>
  BY DEF UpdateMount, UpdateOpen, UpdateCheck, UpdateBegin, UpdateEof,
         updateRest, flash, uploader
<1>2. opened' = opened \/ opened' = file
  BY DEF UpdateMount, UpdateOpen, UpdateCheck, UpdateBegin, UpdateEof, updater
<1>3. /\ pc \notin {"off", "remove", "restart"}
      /\ pc' \in Places \ {"off"}
  BY DEF UpdateMount, UpdateOpen, UpdateCheck, UpdateBegin, UpdateEof, Places
<1> QED
  BY <1>1, <1>2, <1>3 DEF Inv, FlashOK, SlotType, Bootable, WritesElsewhere

\* Overwriting changes the slot that is neither running nor selected.
LEMMA OverwriteElsewhere ==
    ASSUME FlashOK, Overwrite
    PROVE  /\ SlotType'
           /\ slot'[running] = slot[running]
<1>1. updateSlot \in Slots /\ updateSlot # running
  BY DEF FlashOK, updateSlot, Other, Slots
<1>2. [ver |-> opened.ver, ok |-> FALSE, from |-> opened.id]
         \in [ver : Nat, ok : BOOLEAN, from : Nat]
  BY DEF FlashOK
<1> QED
  BY <1>1, <1>2 DEF FlashOK, SlotType, Overwrite

LEMMA WriteKeepsInv ==
    ASSUME Inv, UpdateWrite \/ UpdateWriteFails
    PROVE  Inv'
<1>1. UNCHANGED <<boot, running, file, opened, uploads>>
  BY DEF UpdateWrite, UpdateWriteFails, updateRest, uploader
<1>2. pc = "write" /\ pc' \in {"write", "end"} /\ running = boot
  BY DEF UpdateWrite, UpdateWriteFails, Inv, WritesElsewhere
<1>3. SlotType' /\ slot'[running] = slot[running]
  BY OverwriteElsewhere DEF UpdateWrite, UpdateWriteFails, Inv, FlashOK, SlotType
<1>4. FlashOK'
  BY <1>1, <1>2, <1>3 DEF Inv, FlashOK, Places
<1>5. Bootable'
  BY <1>1, <1>2, <1>3 DEF Inv, Bootable
<1>6. WritesElsewhere'
  BY <1>1, <1>2 DEF WritesElsewhere
<1> QED
  BY <1>4, <1>5, <1>6 DEF Inv

LEMMA EndKeepsInv == ASSUME Inv, UpdateEnd PROVE Inv'
<1>1. UNCHANGED <<boot, running, file, opened, uploads>>
  BY DEF UpdateEnd, updateRest, updater, uploader
<1>2. pc = "end" /\ pc' = "setboot" /\ running = boot
  BY DEF UpdateEnd, Inv, WritesElsewhere
<1>3. updateSlot \in Slots /\ updateSlot # running
  BY DEF Inv, FlashOK, updateSlot, Other, Slots
<1>4. SlotType' /\ slot'[running] = slot[running]
  BY <1>3 DEF UpdateEnd, Inv, FlashOK, SlotType
<1>5. FlashOK'
  BY <1>1, <1>2, <1>4 DEF Inv, FlashOK, Places
<1>6. Bootable' /\ WritesElsewhere'
  BY <1>1, <1>2, <1>4 DEF Inv, Bootable, WritesElsewhere
<1> QED
  BY <1>5, <1>6 DEF Inv

LEMMA SetBootKeepsInv == ASSUME Inv, UpdateSetBoot PROVE Inv'
<1>1. UNCHANGED <<slot, running, file, opened, uploads>>
  BY DEF UpdateSetBoot, updateRest, updater, uploader
<1>2. pc = "setboot" /\ pc' = "remove"
  BY DEF UpdateSetBoot
<1>3. boot' \in Slots /\ slot[boot'].ok
  BY DEF UpdateSetBoot, Inv, FlashOK, Bootable, updateSlot, Other, Slots
<1> QED
  BY <1>1, <1>2, <1>3 DEF Inv, FlashOK, SlotType, Bootable, WritesElsewhere, Places

LEMMA RemoveKeepsInv == ASSUME Inv, UpdateRemove PROVE Inv'
  BY DEF Inv, UpdateRemove, FlashOK, SlotType, Bootable, WritesElsewhere, flash,
         updater, uploader, Places, NoFile

-----------------------------------------------------------------------------
(* The steps of the upload handler leave the flash alone *)

LEMMA UploadKeepsInv ==
    ASSUME Inv,
           \/ \E v \in Versions, g \in BOOLEAN : UploadStart(v, g)
           \/ Upload
    PROVE  Inv'
<1>1. UNCHANGED <<slot, boot, running, pc, opened>>
  BY DEF UploadStart, Upload, UploadReceive, UploadFails, UploadDone,
         uploadRest, flash, updater
<1>2. uploads' \in Nat
  BY DEF Inv, FlashOK, UploadStart, Upload, UploadReceive, UploadFails, UploadDone
<1>3. file'.ver \in Nat /\ file'.id \in Nat
  <2>1. ASSUME NEW v \in Versions, NEW g \in BOOLEAN, UploadStart(v, g)
        PROVE  file'.ver \in Nat /\ file'.id \in Nat
    BY <2>1, OtaAssumption DEF UploadStart, Inv, FlashOK
  <2>2. CASE UploadReceive
    BY <2>2 DEF UploadReceive, Inv, FlashOK
  <2>3. CASE UploadFails
    BY <2>3 DEF UploadFails, NoFile, Inv, FlashOK
  <2>4. CASE UploadDone
    <3>1. CASE UNCHANGED file
      BY <3>1 DEF Inv, FlashOK
    <3>2. ASSUME NEW n \in 0..file.len, file' = [file EXCEPT !.len = n]
          PROVE  file'.ver \in Nat /\ file'.id \in Nat
      BY <3>2 DEF Inv, FlashOK
    <3> QED
      BY <2>4, <3>1, <3>2 DEF UploadDone
  <2> QED
    BY <2>1, <2>2, <2>3, <2>4 DEF Upload
<1> QED
  BY <1>1, <1>2, <1>3 DEF Inv, FlashOK, SlotType, Bootable, WritesElsewhere

-----------------------------------------------------------------------------
(* The theorem *)

LEMMA NextKeepsInv == Inv /\ [Next]_vars => Inv'
<1> SUFFICES ASSUME Inv, [Next]_vars PROVE Inv'
  OBVIOUS
<1>1. CASE Start
  BY <1>1, StartKeepsInv
<1>2. CASE Update
  <2>1. CASE UpdateMount \/ UpdateOpen \/ UpdateCheck \/ UpdateBegin \/ UpdateEof
    BY <2>1, OpenKeepsInv
  <2>2. CASE UpdateWrite \/ UpdateWriteFails
    BY <2>2, WriteKeepsInv
  <2>3. CASE UpdateEnd
    BY <2>3, EndKeepsInv
  <2>4. CASE UpdateSetBoot
    BY <2>4, SetBootKeepsInv
  <2>5. CASE UpdateRemove
    BY <2>5, RemoveKeepsInv
  <2>6. CASE UpdateBeginFails
    BY <2>6, DownKeepsInv DEF UpdateBeginFails
  <2>7. CASE UpdateRestart
    BY <2>7, DownKeepsInv DEF UpdateRestart
  <2> QED
    BY <1>2, <2>1, <2>2, <2>3, <2>4, <2>5, <2>6, <2>7 DEF Update
<1>3. CASE PowerCut
  BY <1>3, DownKeepsInv DEF PowerCut
<1>4. CASE \/ \E v \in Versions, g \in BOOLEAN : UploadStart(v, g)
           \/ Upload
  BY <1>4, UploadKeepsInv
<1>5. CASE RebootTimer
  BY <1>5, DownKeepsInv DEF RebootTimer
<1>6. CASE UNCHANGED vars
  BY <1>6 DEF vars, flash, updater, uploader, Inv, FlashOK, SlotType, Bootable,
              WritesElsewhere
<1> QED
  BY <1>1, <1>2, <1>3, <1>4, <1>5, <1>6 DEF Next

\* At every moment of every upload and update, power cuts and errors included,
\* the selected slot holds a valid image and the running one is intact.
THEOREM BootableForever == Spec => []AlwaysBootable
<1>1. Inv => AlwaysBootable
  BY DEF Inv, Bootable, WritesElsewhere, AlwaysBootable
<1>2. Init => Inv
  BY InitInv
<1>3. Inv /\ [Next]_vars => Inv'
  BY NextKeepsInv
<1> QED
  BY <1>1, <1>2, <1>3, PTL DEF Spec
-----------------------------------------------------------------------------
(* What is left on the card *)

\* A file that is neither being uploaded nor waiting for the reboot timer.
Settled == up = Nobody /\ ~armed /\ Exists /\ mounted

\* The strengthening of LeftoverWasRefused: until update has checked it, a
\* settled file is the one update opened, for every file that takes its place
\* is still being received, has armed the timer or could not be removed.
StillOpened == pc = "check" /\ Settled => file.id = opened.id \/ file.id \in kept

LeftoverInv ==
    /\ file.len \in Nat
    /\ up = Nobody \/ up.pc = "recv"
    /\ StillOpened
    /\ LeftoverWasRefused

LEMMA LeftoverInit == Init => LeftoverInv
  BY DEF Init, LeftoverInv, StillOpened, LeftoverWasRefused, NoFile

\* No file is left to answer for while the device is down.
LEMMA LeftoverDown ==
    ASSUME LeftoverInv, GoDown
    PROVE  LeftoverInv'
<1>1. pc' = "off" /\ up' = Nobody
  BY DEF GoDown
<1>2. file'.len \in Nat
  <2>1. CASE UNCHANGED file
    BY <2>1 DEF LeftoverInv
  <2>2. CASE Exists /\ \E n \in 0..file.len : file' = [file EXCEPT !.len = n]
    BY <2>2 DEF LeftoverInv, Exists
  <2> QED
    BY <2>1, <2>2 DEF GoDown
<1> QED
  BY <1>1, <1>2 DEF LeftoverInv, StillOpened, LeftoverWasRefused

\* Update opens the file, or finds none, or has no card.
LEMMA LeftoverOpen ==
    ASSUME LeftoverInv, UpdateOpen
    PROVE  LeftoverInv'
<1>1. UNCHANGED <<file, up, armed, mounted, kept>>
  BY DEF UpdateOpen, updateRest, uploader
<1>2. CASE mounted /\ Exists /\ pc' = "check" /\ opened' = file
  BY <1>1, <1>2 DEF LeftoverInv, StillOpened, LeftoverWasRefused
<1>3. CASE ~(mounted /\ Exists) /\ pc' = "run"
  BY <1>1, <1>3 DEF LeftoverInv, StillOpened, LeftoverWasRefused, Exists
<1> QED
  BY <1>2, <1>3 DEF UpdateOpen

\* What it refuses it refuses for a reason the property names: the file is the
\* one it opened, so a read that fails means that it is too short.
LEMMA LeftoverCheck ==
    ASSUME LeftoverInv, UpdateCheck
    PROVE  LeftoverInv'
<1>1. pc = "check" /\ UNCHANGED <<file, up, armed, mounted, opened, slot, running, kept>>
  BY DEF UpdateCheck, updateRest, uploader, updater, flash
<1>2. CASE pc' = "begin"
  BY <1>1, <1>2 DEF LeftoverInv, StillOpened, LeftoverWasRefused
<1>3. CASE pc' = "run" /\ ~(Readable(1) /\ file.ver # slot[running].ver)
  <2>1. ASSUME Settled, file.ver # slot[running].ver, file.id \notin kept
        PROVE  file.len = 0
    <3>1. file.id = opened.id
      BY <1>1, <2>1 DEF LeftoverInv, StillOpened
    <3>2. ~(file.len >= 1)
      BY <1>3, <2>1, <3>1 DEF Readable
    <3> QED
      BY <3>2 DEF LeftoverInv
  <2>2. LeftoverWasRefused'
    BY <1>1, <2>1 DEF LeftoverWasRefused, Settled, Exists
  <2> QED
    BY <1>1, <1>3, <2>2 DEF LeftoverInv, StillOpened
<1> QED
  BY <1>2, <1>3 DEF UpdateCheck

\* The steps of update outside of what the invariant speaks of.
LEMMA LeftoverElsewhere ==
    ASSUME LeftoverInv, pc' \notin {"check", "run"}, file' = file \/ file' = NoFile,
           UNCHANGED up
    PROVE  LeftoverInv'
  BY DEF LeftoverInv, StillOpened, LeftoverWasRefused, NoFile

LEMMA LeftoverUpdate ==
    ASSUME LeftoverInv, Start \/ Update
    PROVE  LeftoverInv'
<1>1. CASE UpdateOpen
  BY <1>1, LeftoverOpen
<1>2. CASE UpdateCheck
  BY <1>2, LeftoverCheck
<1>3. CASE UpdateBeginFails \/ UpdateRestart
  BY <1>3, LeftoverDown DEF UpdateBeginFails, UpdateRestart
<1>4. CASE Start
  BY <1>4, LeftoverElsewhere DEF Start, uploader
<1>5. CASE UpdateMount \/ UpdateBegin
  BY <1>5, LeftoverElsewhere DEF UpdateMount, UpdateBegin, updateRest, uploader
<1>6. CASE UpdateWrite \/ UpdateEof \/ UpdateWriteFails
  BY <1>6, LeftoverElsewhere
     DEF UpdateWrite, UpdateEof, UpdateWriteFails, updateRest, uploader
<1>7. CASE UpdateEnd \/ UpdateSetBoot \/ UpdateRemove
  BY <1>7, LeftoverElsewhere
     DEF UpdateEnd, UpdateSetBoot, UpdateRemove, updateRest, uploader
<1> QED
  BY <1>1, <1>2, <1>3, <1>4, <1>5, <1>6, <1>7 DEF Update

\* An upload makes a file that is not settled before the next restart: being
\* received, then removed or kept (it failed) or with the timer armed (it
\* succeeded).
LEMMA LeftoverUpload ==
    ASSUME LeftoverInv,
           \/ \E v \in Versions, g \in BOOLEAN : UploadStart(v, g)
           \/ Upload
    PROVE  LeftoverInv'
<1>1. ASSUME NEW v \in Versions, NEW g \in BOOLEAN, UploadStart(v, g)
      PROVE  file'.len \in Nat /\ up'.pc = "recv"
  BY <1>1 DEF UploadStart
<1>2. CASE UploadReceive
  <2>1. up'.pc = "recv"
    BY <1>2 DEF UploadReceive, LeftoverInv, Nobody
  <2>2. file'.len \in Nat
    BY <1>2 DEF UploadReceive, LeftoverInv
  <2> QED
    BY <2>1, <2>2 DEF LeftoverInv, StillOpened, Settled, LeftoverWasRefused, Nobody
<1>3. CASE UploadFails
  BY <1>3 DEF UploadFails, LeftoverInv, StillOpened, Settled, Exists,
              LeftoverWasRefused, NoFile
<1>4. CASE UploadDone
  <2>1. armed' /\ up' = Nobody
    BY <1>4 DEF UploadDone
  <2>2. file'.len \in Nat
    <3>1. ASSUME NEW n \in 0..file.len, Exists, file' = [file EXCEPT !.len = n]
          PROVE  file'.len \in Nat
      BY <3>1 DEF LeftoverInv, Exists
    <3> QED
      BY <1>4, <3>1 DEF UploadDone, LeftoverInv
  <2> QED
    BY <2>1, <2>2 DEF LeftoverInv, StillOpened, Settled, LeftoverWasRefused
<1>5. CASE \E v \in Versions, g \in BOOLEAN : UploadStart(v, g)
  BY <1>1, <1>5 DEF LeftoverInv, StillOpened, Settled, LeftoverWasRefused, Nobody
<1> QED
  BY <1>2, <1>3, <1>4, <1>5 DEF Upload

LEMMA LeftoverNext == LeftoverInv /\ [Next]_vars => LeftoverInv'
<1> SUFFICES ASSUME LeftoverInv, [Next]_vars PROVE LeftoverInv'
  OBVIOUS
<1>1. CASE Start \/ Update
  BY <1>1, LeftoverUpdate
<1>2. CASE PowerCut \/ RebootTimer
  BY <1>2, LeftoverDown DEF PowerCut, RebootTimer
<1>3. CASE \/ \E v \in Versions, g \in BOOLEAN : UploadStart(v, g)
           \/ Upload
  BY <1>3, LeftoverUpload
<1>4. CASE UNCHANGED vars
  BY <1>4 DEF vars, flash, updater, uploader, LeftoverInv, StillOpened, Settled,
              Exists, LeftoverWasRefused
<1> QED
  BY <1>1, <1>2, <1>3, <1>4 DEF Next

\* A file that lies on the card when update is over, no upload under way and no
\* restart due, is one that update looked at and refused, without a header or
\* of the running version (ota.cpp:215-226), or an unfinished one that unlink
\* could not remove (bin_upload.cpp:111, 124).
THEOREM LeftoversAreRefusals == Spec => []LeftoverWasRefused
<1>1. LeftoverInv => LeftoverWasRefused
  BY DEF LeftoverInv
<1>2. Init => LeftoverInv
  BY LeftoverInit
<1>3. LeftoverInv /\ [Next]_vars => LeftoverInv'
  BY LeftoverNext
<1> QED
  BY <1>1, <1>2, <1>3, PTL DEF Spec

-----------------------------------------------------------------------------
(* Types *)

\* What a file lacks of the whole image its upload has still to receive.
FileGrows == up.pc = "recv" /\ Exists => file.len + up.left <= Full

TypeInv == TypeOK /\ FileGrows

LEMMA NoFileType == NoFile \in FileType /\ NoFile.len = 0
<1>1. 0 \in Ids /\ 0 \in 0..Full
  BY OtaAssumption DEF Ids
<1> QED
  BY <1>1 DEF NoFile, FileType

LEMMA NobodyType == Nobody \in [pc : {"idle", "recv"}, left : 0..Full] /\ Nobody.pc = "idle"
  BY OtaAssumption DEF Nobody

LEMMA InitTypes == Init => TypeInv
<1> SUFFICES ASSUME Init PROVE TypeInv
  OBVIOUS
<1>1. slot \in [Slots -> [ver : Versions \cup {0}, ok : BOOLEAN, from : Ids]]
  <2>1. 0 \in Ids
    BY OtaAssumption DEF Ids
  <2>2. [ver : Versions, ok : BOOLEAN, from : {0}]
          \subseteq [ver : Versions \cup {0}, ok : BOOLEAN, from : Ids]
    BY <2>1
  <2> QED
    BY <2>2 DEF Init
<1>2. 0 \in Ids /\ 0 \in 0..Full /\ 0 \in 0..MaxPowerCuts /\ 0 \in 0..MaxFaults
  BY OtaAssumption DEF Ids
<1>3. boot \in Slots /\ running \in Slots
  BY DEF Init, Slots
<1>4. FileGrows
  BY DEF Init, FileGrows, Nobody
<1> QED
  BY <1>1, <1>2, <1>3, <1>4, NoFileType, NobodyType DEF TypeInv, TypeOK, Init

LEMMA DownTypes ==
    ASSUME TypeInv, GoDown, UNCHANGED flash, cuts' \in 0..MaxPowerCuts, faults' \in 0..MaxFaults
    PROVE  TypeInv'
<1>1. file' \in FileType
  <2>1. ASSUME NEW n \in 0..file.len PROVE [file EXCEPT !.len = n] \in FileType
    BY OtaAssumption DEF TypeInv, TypeOK, FileType
  <2> QED
    BY <2>1 DEF GoDown, TypeInv, TypeOK
<1>2. up' = Nobody /\ opened' = NoFile /\ flashed' = 0 /\ 0 \in 0..Full
  BY OtaAssumption DEF GoDown
<1>3. FileGrows'
  BY <1>2 DEF FileGrows, Nobody
<1> QED
  BY <1>1, <1>2, <1>3, NoFileType, NobodyType DEF TypeInv, TypeOK, GoDown, flash

LEMMA FaultType == ASSUME TypeInv, Fault PROVE faults' \in 0..MaxFaults
  BY OtaAssumption DEF TypeInv, TypeOK, Fault

\* Update leaves the upload and its file alone, up to the removal.
LEMMA UpdateTypes ==
    ASSUME TypeInv, Start \/ Update
    PROVE  TypeInv'
<1> USE DEF TypeInv, TypeOK
<1>1. updateSlot \in Slots
  BY DEF updateSlot, Slots, Other
<1>2. Full \in Nat /\ Full # 0 /\ Other(boot) \in Slots
  BY OtaAssumption DEF Slots, Other
<1>3. ASSUME UNCHANGED updateRest PROVE FileGrows'
  BY <1>3 DEF updateRest, uploader, FileGrows, Exists
<1>4. CASE Start
  <2>1. running' \in Slots
    BY <1>2, <1>4 DEF Start
  <2>2. FileGrows'
    BY <1>4 DEF Start, uploader, FileGrows, Exists
  <2> QED
    BY <1>4, <2>1, <2>2 DEF Start, flash, updater, uploader
<1>5. CASE UpdateMount
  BY <1>3, <1>5, FaultType DEF UpdateMount, flash, updater, updateRest, uploader
<1>6. CASE UpdateOpen
  BY <1>3, <1>6 DEF UpdateOpen, flash, updateRest, uploader
<1>7. CASE UpdateCheck \/ UpdateEof
  BY <1>3, <1>7 DEF UpdateCheck, UpdateEof, flash, updater, updateRest, uploader
<1>8. CASE UpdateBegin
  BY <1>2, <1>3, <1>8 DEF UpdateBegin, flash, updateRest, uploader
<1>9. CASE UpdateBeginFails
  BY <1>9, FaultType, DownTypes DEF UpdateBeginFails
<1>10. ASSUME Overwrite
       PROVE  slot' \in [Slots -> [ver : Versions \cup {0}, ok : BOOLEAN, from : Ids]]
  BY <1>1, <1>10 DEF Overwrite, FileType
<1>11. CASE UpdateWrite
  BY <1>2, <1>3, <1>10, <1>11 DEF UpdateWrite, updateRest, uploader
<1>12. CASE UpdateWriteFails
  BY <1>3, <1>10, <1>12, FaultType DEF UpdateWriteFails, updateRest, uploader
<1>13. CASE UpdateEnd
  <2>1. slot' \in [Slots -> [ver : Versions \cup {0}, ok : BOOLEAN, from : Ids]]
    <3> DEFINE image == [ver : Versions \cup {0}, ok : BOOLEAN, from : Ids]
               done == [slot[updateSlot] EXCEPT !.ok = TRUE]
    <3>1. slot[updateSlot] \in image
      BY <1>1
    <3>2. done \in image
      BY <3>1
    <3>3. slot' = slot \/ slot' = [slot EXCEPT ![updateSlot] = done]
      BY <1>13 DEF UpdateEnd
    <3> QED
      BY <1>1, <3>2, <3>3
  <2> QED
    BY <1>3, <1>13, <2>1, FaultType DEF UpdateEnd, updater, updateRest, uploader
<1>14. CASE UpdateSetBoot
  BY <1>1, <1>3, <1>14, FaultType DEF UpdateSetBoot, updater, updateRest, uploader
<1>15. CASE UpdateRemove
  <2>1. file' \in FileType /\ faults' \in 0..MaxFaults
    BY <1>15, FaultType, NoFileType DEF UpdateRemove
  <2>2. FileGrows'
    BY <1>15 DEF UpdateRemove, uploader, FileGrows, Exists
  <2> QED
    BY <1>15, <2>1, <2>2 DEF UpdateRemove, flash, updater, uploader
<1>16. CASE UpdateRestart
  BY <1>16, DownTypes DEF UpdateRestart
<1> QED
  BY <1>4, <1>5, <1>6, <1>7, <1>8, <1>9, <1>11, <1>12, <1>13, <1>14, <1>15, <1>16 DEF Update

LEMMA UploadTypes ==
    ASSUME TypeInv,
           \/ \E v \in Versions, g \in BOOLEAN : UploadStart(v, g)
           \/ Upload
    PROVE  TypeInv'
<1> USE DEF TypeInv, TypeOK
<1>1. Full \in Nat /\ MaxUploads \in Nat
  BY OtaAssumption
<1>2. ASSUME NEW v \in Versions, NEW g \in BOOLEAN, UploadStart(v, g) PROVE TypeInv'
  <2>1. uploads + 1 \in Ids /\ calm' \subseteq Ids
    BY <1>1, <1>2 DEF UploadStart, Ids
  <2>2. file' \in FileType /\ file'.len = 0
    BY <1>1, <1>2, <2>1 DEF UploadStart, FileType
  <2>3. up' \in [pc : {"idle", "recv"}, left : 0..Full] /\ up'.left = Full
    BY <1>1, <1>2 DEF UploadStart
  <2>4. FileGrows'
    BY <1>1, <2>2, <2>3 DEF FileGrows
  <2> QED
    BY <1>2, <2>1, <2>2, <2>3, <2>4 DEF UploadStart, uploadRest, flash, updater
<1>3. CASE UploadReceive
  <2>1. /\ up' \in [pc : {"idle", "recv"}, left : 0..Full]
        /\ up'.left = up.left - 1 /\ up.left \in 0..Full
    BY <1>1, <1>3 DEF UploadReceive
  <2>2. CASE Exists
    <3>1. file.len \in 0..Full /\ file.len + up.left <= Full /\ up.left > 0
      BY <1>3, <2>2 DEF UploadReceive, FileGrows, FileType
    <3>2. file.len + 1 \in 0..Full
      BY <1>1, <2>1, <3>1
    <3>3. file' \in FileType /\ file'.len = file.len + 1
      BY <1>3, <2>2, <3>2 DEF UploadReceive, FileType
    <3>4. FileGrows'
      BY <1>1, <2>1, <3>1, <3>3 DEF FileGrows
    <3> QED
      BY <1>3, <2>1, <3>3, <3>4 DEF UploadReceive, uploadRest, flash, updater
  <2>3. CASE ~Exists
    <3>1. file' = file /\ ~Exists'
      BY <1>3, <2>3 DEF UploadReceive, Exists
    <3> QED
      BY <1>3, <2>1, <3>1 DEF UploadReceive, uploadRest, flash, updater, FileGrows
  <2> QED
    BY <2>2, <2>3
<1>4. CASE UploadFails
  <2>1. file' \in FileType /\ kept' \subseteq Ids
    BY <1>4, NoFileType DEF UploadFails, FileType
  <2> QED
    BY <1>4, <2>1, FaultType, NobodyType
       DEF UploadFails, uploadRest, flash, updater, FileGrows
<1>5. CASE UploadDone
  <2>1. file' \in FileType
    <3>1. ASSUME NEW n \in 0..file.len PROVE [file EXCEPT !.len = n] \in FileType
      BY <1>1 DEF FileType
    <3> QED
      BY <1>5, <3>1 DEF UploadDone
  <2>2. uploads \in Ids /\ faults' \in 0..MaxFaults
    BY <1>5, FaultType DEF UploadDone
  <2> QED
    BY <1>5, <2>1, <2>2, NobodyType DEF UploadDone, uploadRest, flash, updater, FileGrows
<1> QED
  BY <1>2, <1>3, <1>4, <1>5 DEF Upload

\* No variable leaves its type; in particular a file never grows longer than an
\* image (bin_upload.cpp:56-159).
THEOREM TypeCorrect == Spec => []TypeOK
<1>1. TypeInv => TypeOK
  BY DEF TypeInv
<1>2. Init => TypeInv
  BY InitTypes
<1>3. TypeInv /\ [Next]_vars => TypeInv'
  <2> SUFFICES ASSUME TypeInv, [Next]_vars PROVE TypeInv'
    OBVIOUS
  <2>1. CASE Start \/ Update
    BY <2>1, UpdateTypes
  <2>2. CASE PowerCut
    BY <2>2, DownTypes, OtaAssumption DEF PowerCut, TypeInv, TypeOK
  <2>3. CASE RebootTimer
    BY <2>3, DownTypes DEF RebootTimer, TypeInv, TypeOK
  <2>4. CASE \/ \E v \in Versions, g \in BOOLEAN : UploadStart(v, g)
             \/ Upload
    BY <2>4, UploadTypes
  <2>5. CASE UNCHANGED vars
    BY <2>5 DEF vars, flash, updater, uploader, TypeInv, TypeOK, FileGrows, Exists
  <2> QED
    BY <2>1, <2>2, <2>3, <2>4, <2>5 DEF Next
<1> QED
  BY <1>1, <1>2, <1>3, PTL DEF Spec
=============================================================================
