------------------------------- MODULE FaceDb -------------------------------
(***************************************************************************)
(* The face database of the smart lock (hal/vision/hal_sln_facedb.c): the  *)
(* metadata and face entries it keeps in RAM, the files it keeps in flash  *)
(* (one "Metadata" file and one file per face), and the calls the vision   *)
(* algorithm task makes.  Every step is at most one flash operation        *)
(* together with the RAM updates around it, so Crash (reset, power cut,    *)
(* SNVS sleep) may fall between any two flash operations of a call.        *)
(*                                                                         *)
(* All the calls are made by one task (hal_vision_algo_oasis_lite2D.c);    *)
(* the mutex s_FaceDBLock is not recursive, so a call that finds it taken  *)
(* by an earlier call of that task never returns.                          *)
(***************************************************************************)
EXTENDS Integers, FiniteSets

CONSTANTS
  MAX_FACE_DB_SIZE,  \* number of slots (100 in the firmware)
  Names,             \* names the application gives to users
  Features,          \* feature vectors computed by the current algorithm
  AUTOSAVE,          \* compile-time switch: save every change at once
  Calls,             \* the API calls the application makes
  Failing,           \* the flash operations that may report an error
  Legacies,          \* what another firmware may have left in the flash
  NoFile,            \* content of a path that does not exist
  EmptyFile          \* content of a file that was created and never written

AllCalls == {"AddFace", "DelFaceWithID", "DelFaceWithName", "DelAll",
             "UpdateName", "UpdateFace", "SaveFace", "Read"}

\* "close" stands for an error that only shows when the file is closed, whose
\* result SLN_FLASH_LITTLEFS_Save ignores.
FlashOps == {"mkdir", "read", "save", "close", "rm"}

UINT16_MAX == 65535

\* The largest uint16_t is INVALID_ID.
ASSUME FaceDbAssumption ==
  /\ MAX_FACE_DB_SIZE \in 1..(UINT16_MAX - 1)
  /\ AUTOSAVE \in BOOLEAN
  /\ Calls \subseteq AllCalls
  /\ Failing \subseteq FlashOps
  /\ Legacies \subseteq {"old", "larger", "smaller"}

Ids == 0..(MAX_FACE_DB_SIZE - 1)

\* FACE_SAVED, FACE_UPDATED, FACE_IN_USE; FACEDB_SLOT_EMPTY is the empty set.
Bits == {"Saved", "Updated", "Used"}

\* uint16_t numberFaces wraps around at both ends.
UInt16 == 0..UINT16_MAX
Sub16(n, k) == IF k <= n THEN n - k ELSE (n - k) + UINT16_MAX + 1
Dec16(n) == Sub16(n, 1)
Inc16(n) == IF n = UINT16_MAX THEN 0 ELSE n + 1

\* faceEntrySize: the current entry size, a smaller and a larger one, and none.
FaceEntrySize == 2
Sizes == 0..3

\* A RAM slot that holds no face: zeroed, or heap memory not yet written.
Blank == [name |-> "blank", face |-> "blank"]
\* An entry written by a firmware with another feature format, and one whose
\* feature vector is smaller; a slot that holds a part of one has face "part".
Legacy == [name |-> "legacy", face |-> "legacy"]
Small  == [name |-> "legacy", face |-> "small"]
Entries == [name : Names, face : Features]

Metadata == [version : {"current", "old", "none"}, numberFaces : UInt16,
             faceEntrySize : Sizes, faceMapping : [Ids -> SUBSET Bits]]

EmptyMapping == [id \in Ids |-> {}]

ASSUME FileSentinels ==
  /\ NoFile # EmptyFile
  /\ NoFile \notin Entries \cup {Blank, Legacy, Small} \cup Metadata
  /\ EmptyFile \notin Entries \cup {Blank, Legacy, Small} \cup Metadata
  /\ {Blank, Legacy, Small} \cap Entries = {}

VARIABLES
  meta,            \* s_OasisMetadata
  entry,           \* s_FaceDB: the RAM entry of each slot
  lock,            \* s_FaceDBLock is taken
  dbDir,           \* flash: OASIS_FACE_DB_DIR exists
  metaFile,        \* flash: content of the Metadata file
  file,            \* flash: content of each face file
  pc,              \* where the task is
  call,            \* the call being executed
  cur,             \* the slot it works on (loop index of the loops)
  status,          \* local variable status of the loops
  updateMetadata,  \* local variable updateMetadata of the loops
  ret              \* what the last call returned

ram   == <<meta, entry, lock>>
flash == <<dbDir, metaFile, file>>
ctl   == <<pc, call, cur, status, updateMetadata, ret>>
vars  == <<meta, entry, lock, dbDir, metaFile, file,
           pc, call, cur, status, updateMetadata, ret>>

-----------------------------------------------------------------------------
(* Reading the slot mapping.                                               *)

InUse(m, id)    == "Used" \in m.faceMapping[id]
IsSaved(m, id)  == "Saved" \in m.faceMapping[id]
InFlash(m, id)  == m.faceMapping[id] \cap {"Saved", "Updated"} # {}
UsedIds(m)      == {id \in Ids : InUse(m, id)}
Occupied(m)     == {id \in Ids : m.faceMapping[id] # {}}

\* What a read of the Metadata file puts into s_OasisMetadata: an empty file
\* reads as zeroes.
MetaContent == IF metaFile = EmptyFile
               THEN [version |-> "none", numberFaces |-> 0, faceEntrySize |-> 0,
                     faceMapping |-> EmptyMapping]
               ELSE metaFile

\* _Facedb_SetMetaDataDefault
MetaDefault == [version |-> "current", numberFaces |-> 0, faceEntrySize |-> 0,
                faceMapping |-> EmptyMapping]

\* Mutant: the faces that live in RAM only are counted.
MetadataImageCountsAll(m) == [m EXCEPT !.faceMapping = [id \in Ids |-> @[id] \ {"Used"}]]

\* The image _Facedb_UpdateMetadata writes: no Used bits, and the faces that
\* live in RAM only are not counted.
MetadataImage(m) ==
  [m EXCEPT !.numberFaces = Sub16(@, Cardinality({id \in Ids : m.faceMapping[id] = {"Used"}})),
            !.faceMapping = [id \in Ids |-> @[id] \ {"Used"}]]

\* HAL_Facedb_GetSaveStatus(id)
GetSaveStatus(id) == InUse(meta, id) => IsSaved(meta, id)

-----------------------------------------------------------------------------
(* Flash operations (littlefs): a file is committed when it is closed;     *)
(* opening it for the first time creates it empty.                         *)

Torn(old) == IF old = NoFile THEN {NoFile, EmptyFile} ELSE {old}

\* Outcomes of FWK_Flash_Save of content new over content old.
SaveOutcomes(old, new) ==
  {[ok |-> TRUE, content |-> new]}
  \cup {o \in [ok : {FALSE}, content : Torn(old)] : "save" \in Failing}
  \cup {o \in [ok : {TRUE}, content : {IF old = NoFile THEN EmptyFile ELSE old}] :
           "close" \in Failing}

\* Outcomes of FWK_Flash_Rm.
RmOutcomes(old) ==
  {[st |-> IF old = NoFile THEN "NotExist" ELSE "Success", content |-> NoFile]}
  \cup {o \in [st : {"Fail"}, content : {old}] : "rm" \in Failing}

\* Outcomes of FWK_Flash_Read.
ReadOutcomes(content) ==
  {IF content = NoFile THEN "NotExist" ELSE "Success"}
  \cup {s \in {"Fail"} : "read" \in Failing}

\* The length FWK_Flash_Read reports of a face file when asked for n, and what
\* has then been copied.
FileSize(c) == CASE c = EmptyFile -> 0 [] c = Small -> 1 [] OTHER -> FaceEntrySize
ReadLen(c, n) == IF FileSize(c) < n THEN FileSize(c) ELSE n
Part(c) == IF c = NoFile THEN NoFile ELSE [c EXCEPT !.face = "part"]
ReadPart(c, len) == IF len < FaceEntrySize THEN Part(c) ELSE c

-----------------------------------------------------------------------------
(* Control.                                                                *)

Goto(p) == pc' = p /\ UNCHANGED <<call, cur, status, updateMetadata, ret>>

\* Mutant: the lock is not given back.
ReturnKeepsLock(r) ==
  /\ pc' = "idle"
  /\ ret' = r
  /\ UNCHANGED <<lock, call, cur, status, updateMetadata>>

\* A call ends: the lock is given back and the status returned.
Return(r) ==
  /\ pc' = "idle"
  /\ ret' = r
  /\ lock' = FALSE
  /\ UNCHANGED <<call, cur, status, updateMetadata>>

\* HAL_Facedb_SaveFace takes the lock and has no call of _Facedb_Unlock.
ReturnLocked(r) ==
  /\ pc' = "idle"
  /\ ret' = r
  /\ UNCHANGED <<lock, call, cur, status, updateMetadata>>

\* A call passes its parameter checks and takes the lock.
Enter(c, p, id) ==
  /\ pc = "idle"
  /\ c \in Calls
  /\ ~lock
  /\ lock' = TRUE
  /\ pc' = p
  /\ call' = c
  /\ cur' = id
  /\ status' = "Success"
  /\ updateMetadata' = FALSE
  /\ ret' = "None"

-----------------------------------------------------------------------------
(* HAL_Facedb_Init / _Facedb_Init / _Facedb_Load.                          *)

\* Flash as another firmware left it, with the faces S: another feature version,
\* or the same version with larger or smaller entries.
LegacyMeta(l, S) ==
  [version |-> IF l = "old" THEN "old" ELSE "current",
   numberFaces |-> Cardinality(S),
   faceEntrySize |-> CASE l = "smaller" -> 1 [] l = "larger" -> 3
                       [] OTHER -> FaceEntrySize,
   faceMapping |-> [id \in Ids |-> IF id \in S THEN {"Saved"} ELSE {}]]

Init ==
  /\ \/ /\ dbDir = FALSE
        /\ metaFile = NoFile
        /\ file = [id \in Ids |-> NoFile]
     \/ \E S \in SUBSET Ids, l \in Legacies :
        /\ dbDir = TRUE
        /\ metaFile = LegacyMeta(l, S)
        /\ file = [id \in Ids |-> IF id \notin S THEN NoFile
                                  ELSE IF l = "smaller" THEN Small ELSE Legacy]
  /\ meta = [version |-> "none", numberFaces |-> 0, faceEntrySize |-> 0,
             faceMapping |-> EmptyMapping]
  /\ entry = [id \in Ids |-> Blank]
  /\ lock = FALSE
  /\ pc = "off"
  /\ call = "Init"
  /\ cur = 0
  /\ status = "Success"
  /\ updateMetadata = FALSE
  /\ ret = "None"

\* Mutant: the entry size is not set when the initialisation ends.
InitEndKeepsSize(m, p, r) ==
  /\ meta' = m
  /\ pc' = p
  /\ ret' = r
  /\ UNCHANGED <<call, cur, status, updateMetadata>>

\* _Facedb_Init is left: faceEntrySize is set whatever happened before.  When
\* the initialisation fails the algorithm device fails too, and its task stops.
InitEnd(m, p, r) ==
  /\ meta' = [m EXCEPT !.faceEntrySize = FaceEntrySize]
  /\ pc' = p
  /\ ret' = r
  /\ UNCHANGED <<call, cur, status, updateMetadata>>
InitDone(m) == InitEnd(m, "idle", "Success")
InitFail(m) == InitEnd(m, "init_failed", "Failed")

\* First boot: the directory is created and the default metadata prepared.
InitMkdir ==
  /\ pc = "off"
  /\ ~dbDir
  /\ \/ /\ dbDir' = TRUE
        /\ meta' = MetaDefault
        /\ Goto("init_save")
     \/ /\ "mkdir" \in Failing
        /\ InitFail(meta)
        /\ UNCHANGED dbDir
  /\ UNCHANGED <<entry, lock, metaFile, file>>

\* The directory exists but the Metadata file cannot be read.
InitReadError ==
  /\ pc = "off"
  /\ dbDir
  /\ \E st \in ReadOutcomes(metaFile) : st # "Success"
  /\ InitFail(meta)
  /\ UNCHANGED <<entry, lock, flash>>

\* The Metadata file is read: faces of another version are deleted, faces
\* that do not fit are refused, all others are loaded.
InitRead ==
  /\ pc = "off"
  /\ dbDir
  /\ metaFile # NoFile
  /\ \/ /\ MetaContent.version # "current"
        /\ meta' = MetaContent
        /\ Goto("delall")
     \/ /\ MetaContent.version = "current"
        /\ MetaContent.faceEntrySize > FaceEntrySize
        /\ InitFail(MetaContent)
     \/ /\ MetaContent.version = "current"
        /\ MetaContent.faceEntrySize <= FaceEntrySize
        /\ meta' = MetaContent
        /\ pc' = "load"
        /\ call' = "Load"
        /\ UNCHANGED <<cur, status, updateMetadata, ret>>
  /\ UNCHANGED <<entry, lock, flash>>

\* The default metadata is written once; the result is ignored.
InitSave ==
  /\ pc = "init_save"
  /\ \E o \in SaveOutcomes(metaFile, meta) : metaFile' = o.content
  /\ InitDone(meta)
  /\ UNCHANGED <<entry, lock, dbDir, file>>

\* The loop of _Facedb_Load reads the file of a slot that is marked as saved,
\* or whose update was not saved (then its older version is read).  The size
\* that was read is the one asked for in the next slot: with size 0 nothing is
\* copied, with a smaller one a part of the face.
LoadSlot ==
  /\ pc = "load"
  /\ cur \in Ids
  /\ InFlash(meta, cur)
  /\ file[cur] # NoFile
  /\ LET len == ReadLen(file[cur], meta.faceEntrySize) IN
     /\ meta' = [meta EXCEPT !.faceMapping[cur] = {"Saved", "Used"},
                             !.faceEntrySize = len]
     /\ entry' = IF len = 0 THEN entry
                 ELSE [entry EXCEPT ![cur] = ReadPart(file[cur], len)]
  /\ updateMetadata' = (updateMetadata \/ ~IsSaved(meta, cur))
  /\ status' = "Success"
  /\ cur' = cur + 1
  /\ UNCHANGED <<lock, flash, pc, call, ret>>

\* The file of a saved slot does not exist: the slot is emptied.  The status
\* keeps the error until another slot is read.
LoadMissing ==
  /\ pc = "load"
  /\ cur \in Ids
  /\ InFlash(meta, cur)
  /\ file[cur] = NoFile
  /\ meta' = [meta EXCEPT !.faceMapping[cur] = {}, !.numberFaces = Dec16(@)]
  /\ updateMetadata' = TRUE
  /\ status' = "NotExist"
  /\ cur' = cur + 1
  /\ UNCHANGED <<entry, lock, flash, pc, call, ret>>

\* Any other read error, or a mapping that cannot have been stored, ends the
\* loop.
LoadError ==
  /\ pc = "load"
  /\ cur \in Ids
  /\ (InFlash(meta, cur) /\ "read" \in Failing) \/ meta.faceMapping[cur] = {"Used"}
  /\ InitFail(meta)
  /\ UNCHANGED <<entry, lock, flash>>

\* Mutant: the loop runs to MAX_FACE_DB_SIZE inclusive.
LoadSkipTooFar ==
  /\ pc = "load"
  /\ cur <= MAX_FACE_DB_SIZE
  /\ cur \in Ids => meta.faceMapping[cur] = {}
  /\ cur' = cur + 1
  /\ UNCHANGED <<ram, flash, pc, call, status, updateMetadata, ret>>

\* Empty slots are skipped.
LoadSkip ==
  /\ pc = "load"
  /\ cur \in Ids
  /\ meta.faceMapping[cur] = {}
  /\ cur' = cur + 1
  /\ UNCHANGED <<ram, flash, pc, call, status, updateMetadata, ret>>

\* After the loop the status of the last read decides about the update of the
\* metadata and about the result of the initialisation.
LoadEnd ==
  /\ pc = "load"
  /\ cur \notin Ids
  /\ \/ status # "Success" /\ InitFail(meta)
     \/ status = "Success" /\ updateMetadata /\ Goto("upd_meta") /\ UNCHANGED meta
     \/ status = "Success" /\ ~updateMetadata /\ InitDone(meta)
  /\ UNCHANGED <<entry, lock, flash>>

-----------------------------------------------------------------------------
(* Adding, updating and saving faces.                                      *)

\* HAL_Facedb_GenId followed by HAL_Facedb_AddFace, as _oasis_lite_AddFace
\* calls them: the lowest free slot is filled in RAM, then saved.
AddFace(e) ==
  \E id \in Ids :
    /\ meta.numberFaces # MAX_FACE_DB_SIZE
    /\ ~InUse(meta, id)
    /\ \A j \in Ids : j < id => InUse(meta, j)
    /\ Enter("AddFace", IF AUTOSAVE THEN "save_face" ELSE "unlock", id)
    /\ entry' = [entry EXCEPT ![id] = e]
    /\ meta' = [meta EXCEPT !.faceMapping[id] = {"Used"}, !.numberFaces = Inc16(@)]
    /\ UNCHANGED flash

\* What HAL_Facedb_UpdateName and HAL_Facedb_UpdateFace do to a slot in use.
UpdateSlot(c, id, e) ==
  /\ InUse(meta, id)
  /\ Enter(c, IF AUTOSAVE THEN "save_face" ELSE "unlock", id)
  /\ entry' = [entry EXCEPT ![id] = e]
  /\ meta' = IF ~AUTOSAVE /\ IsSaved(meta, id)
             THEN [meta EXCEPT !.faceMapping[id] = (@ \ {"Saved"}) \cup {"Updated"}]
             ELSE meta
  /\ UNCHANGED flash

\* An update of a slot that is not in use logs an error, changes nothing and
\* returns success.
UpdateUnused(c, id) ==
  /\ ~InUse(meta, id)
  /\ Enter(c, "unlock", id)
  /\ UNCHANGED <<meta, entry, flash>>

UpdateName(id, n) == UpdateSlot("UpdateName", id, [entry[id] EXCEPT !.name = n])

\* _oasis_lite_UpdateFace keeps the name of the slot.
UpdateFace(id, f) == UpdateSlot("UpdateFace", id, [entry[id] EXCEPT !.face = f])

\* Mutant: AddFace does not update the metadata.
SaveSlotOnly ==
  /\ pc = "save_face"
  /\ \E o \in SaveOutcomes(file[cur], entry[cur]) :
        /\ file' = [file EXCEPT ![cur] = o.content]
        /\ meta' = IF o.ok THEN [meta EXCEPT !.faceMapping[cur] = {"Saved", "Used"}] ELSE meta
        /\ Return(IF call = "AddFace" /\ ~o.ok THEN "Failed" ELSE "Success")
  /\ UNCHANGED <<entry, dbDir, metaFile>>

\* _Facedb_SaveFace(cur) for AddFace, UpdateName and UpdateFace.  Only AddFace
\* goes on to the metadata and reports a failed save.
SaveSlot ==
  /\ pc = "save_face"
  /\ \E o \in SaveOutcomes(file[cur], entry[cur]) :
        /\ file' = [file EXCEPT ![cur] = o.content]
        /\ meta' = IF o.ok THEN [meta EXCEPT !.faceMapping[cur] = {"Saved", "Used"}] ELSE meta
        /\ IF call = "AddFace" /\ o.ok
           THEN Goto("upd_meta") /\ UNCHANGED lock
           ELSE Return(IF call = "AddFace" THEN "Failed" ELSE "Success")
  /\ UNCHANGED <<entry, dbDir, metaFile>>

\* A call ends that does not touch the flash.
Unlock ==
  /\ pc = "unlock"
  /\ Return("Success")
  /\ UNCHANGED <<meta, entry, flash>>

\* HAL_Facedb_SaveFace: the loop saves every used slot that is not saved.
SaveFace ==
  /\ Enter("SaveFace", "save_all", 0)
  /\ UNCHANGED <<meta, entry, flash>>

SaveAllSlot ==
  /\ pc = "save_all"
  /\ cur \in Ids
  /\ IF InUse(meta, cur) /\ ~IsSaved(meta, cur)
     THEN \E o \in SaveOutcomes(file[cur], entry[cur]) :
            /\ file' = [file EXCEPT ![cur] = o.content]
            /\ meta' = IF o.ok THEN [meta EXCEPT !.faceMapping[cur] = {"Saved", "Used"}]
                               ELSE meta
            /\ status' = IF o.ok THEN "Success" ELSE "Fail"
            /\ updateMetadata' = (updateMetadata \/ o.ok)
     ELSE UNCHANGED <<file, meta, status, updateMetadata>>
  /\ cur' = cur + 1
  /\ UNCHANGED <<entry, lock, dbDir, metaFile, pc, call, ret>>

\* After the loop the status of the last save decides.
SaveAllEnd ==
  /\ pc = "save_all"
  /\ cur \notin Ids
  /\ \/ status = "Success" /\ updateMetadata /\ Goto("upd_meta") /\ UNCHANGED lock
     \/ status = "Success" /\ ~updateMetadata /\ ReturnLocked("Success")
     \/ status # "Success" /\ ReturnLocked("Failed")
  /\ UNCHANGED <<meta, entry, flash>>

-----------------------------------------------------------------------------
(* Deleting faces.                                                         *)

\* The slot is cleared in RAM: its entry, its Used bit and the face count.
ClearSlot(m, id) == [m EXCEPT !.faceMapping[id] = @ \ {"Used"}, !.numberFaces = Dec16(@)]

\* Mutant: the file of a deleted face is not removed.
DeleteFaceRamOnly(c, id) ==
  /\ InUse(meta, id)
  /\ Enter(c, "unlock", id)
  /\ entry' = [entry EXCEPT ![id] = Blank]
  /\ meta' = ClearSlot(meta, id)
  /\ UNCHANGED flash

\* _Facedb_DeleteFace up to the removal of the file.
DeleteFace(c, id) ==
  /\ InUse(meta, id)
  /\ Enter(c, IF InFlash(meta, id) THEN "rm" ELSE "unlock", id)
  /\ entry' = [entry EXCEPT ![id] = Blank]
  /\ meta' = ClearSlot(meta, id)
  /\ UNCHANGED flash

DelFaceWithID(id) == DeleteFace("DelFaceWithID", id)

\* The first slot that carries the name is deleted, whether or not others do.
DelFaceWithName(n) ==
  \E id \in Ids :
    /\ entry[id].name = n
    /\ \A j \in Ids : j < id => entry[j].name # n
    /\ DeleteFace("DelFaceWithName", id)

\* _Facedb_DeleteFaceFromFlash(cur) for a single deletion.  When the removal
\* fails the metadata in flash stays as it is.
RmSlot ==
  /\ pc = "rm"
  /\ \E o \in RmOutcomes(file[cur]) :
        /\ file' = [file EXCEPT ![cur] = o.content]
        /\ IF o.st = "Fail"
           THEN Return("Failed") /\ UNCHANGED meta
           ELSE /\ meta' = [meta EXCEPT !.faceMapping[cur] = @ \ {"Saved", "Updated"}]
                /\ Goto("upd_meta")
                /\ UNCHANGED lock
  /\ UNCHANGED <<entry, dbDir, metaFile>>

\* HAL_Facedb_DelFaceWithID(INVALID_ID)
DelAll ==
  /\ Enter("DelAll", "delall", 0)
  /\ UNCHANGED <<meta, entry, flash>>

\* The loop of _Facedb_DeleteAllFaces: a used slot is cleared, and its file
\* removed when it has one.
DelAllSlot ==
  /\ pc = "delall"
  /\ cur \in Ids
  /\ InUse(meta, cur)
  /\ entry' = [entry EXCEPT ![cur] = Blank]
  /\ \/ /\ ~InFlash(meta, cur)
        /\ meta' = ClearSlot(meta, cur)
        /\ UNCHANGED <<file, status, updateMetadata>>
     \/ /\ InFlash(meta, cur)
        /\ \E o \in RmOutcomes(file[cur]) :
              /\ file' = [file EXCEPT ![cur] = o.content]
              /\ meta' = IF o.st = "Fail"
                         THEN ClearSlot(meta, cur)
                         ELSE [ClearSlot(meta, cur) EXCEPT !.faceMapping[cur] = {}]
              /\ status' = o.st
              /\ updateMetadata' = (updateMetadata \/ o.st # "Fail")
  /\ cur' = cur + 1
  /\ UNCHANGED <<lock, dbDir, metaFile, pc, call, ret>>

DelAllSkip ==
  /\ pc = "delall"
  /\ cur \in Ids
  /\ ~InUse(meta, cur)
  /\ cur' = cur + 1
  /\ UNCHANGED <<ram, flash, pc, call, status, updateMetadata, ret>>

\* _Facedb_DeleteAllFaces is left without (another) update of the metadata.
DelAllReturn(m) ==
  IF call = "Init"
  THEN /\ meta' = MetaDefault
       /\ Goto("init_save")
       /\ UNCHANGED lock
  ELSE /\ meta' = m
       /\ Return(IF status = "Success" THEN "Success" ELSE "Failed")

\* After the loop: if faces are left or the last removal did not succeed, RAM
\* and metadata are reset; the flash is updated only when it succeeded.
DelAllEnd ==
  /\ pc = "delall"
  /\ cur \notin Ids
  /\ LET wrong  == meta.numberFaces # 0 \/ status # "Success"
         update == status = "Success" /\ (updateMetadata \/ wrong)
         m      == IF wrong THEN MetaDefault ELSE meta
     IN /\ entry' = IF wrong THEN [id \in Ids |-> Blank] ELSE entry
        /\ \/ update /\ meta' = m /\ Goto("upd_meta") /\ UNCHANGED lock
           \/ ~update /\ DelAllReturn(m)
  /\ UNCHANGED flash

\* _Facedb_UpdateMetadata: the image is written until a save succeeds.
UpdMeta ==
  /\ pc = "upd_meta"
  /\ \E o \in SaveOutcomes(metaFile, MetadataImage(meta)) :
        /\ metaFile' = o.content
        /\ \/ ~o.ok /\ UNCHANGED <<meta, lock, ctl>>
           \/ /\ o.ok
              /\ \/ call = "Load" /\ InitDone(meta) /\ UNCHANGED lock
                 \/ call = "Init" /\ DelAllReturn(meta)
                 \/ call = "SaveFace" /\ ReturnLocked("Success") /\ UNCHANGED meta
                 \/ call \notin {"Load", "Init", "SaveFace"} /\ Return("Success")
                    /\ UNCHANGED meta
  /\ UNCHANGED <<entry, dbDir, file>>

-----------------------------------------------------------------------------
(* The calls as a whole.                                                   *)

\* Any locking call ("Read": GetName, GetIds, GetFace, GetIdsAndFaces, GenId)
\* made while the task itself still holds the lock waits for ever.
Block ==
  /\ pc = "idle"
  /\ lock
  /\ \E c \in Calls : call' = c
  /\ pc' = "blocked"
  /\ ret' = "None"
  /\ UNCHANGED <<ram, flash, cur, status, updateMetadata>>

\* The file that a save in progress may leave created but not written.
TornFiles ==
  IF \/ pc = "save_face"
     \/ pc = "save_all" /\ cur \in Ids /\ InUse(meta, cur) /\ ~IsSaved(meta, cur)
  THEN {[file EXCEPT ![cur] = c] : c \in Torn(file[cur])}
  ELSE {file}

\* Reset or power loss: RAM is lost, flash keeps what was committed.
Crash ==
  /\ pc # "off"
  /\ metaFile' \in IF pc \in {"init_save", "upd_meta"} THEN Torn(metaFile) ELSE {metaFile}
  /\ file' \in TornFiles
  /\ meta' = [version |-> "none", numberFaces |-> 0, faceEntrySize |-> 0,
              faceMapping |-> EmptyMapping]
  /\ entry' = [id \in Ids |-> Blank]
  /\ lock' = FALSE
  /\ pc' = "off"
  /\ call' = "Init"
  /\ cur' = 0
  /\ status' = "Success"
  /\ updateMetadata' = FALSE
  /\ ret' = "None"
  /\ UNCHANGED dbDir

Invoke ==
  \/ \E e \in Entries : AddFace(e)
  \/ \E id \in Ids, n \in Names : UpdateName(id, n)
  \/ \E id \in Ids, f \in Features : UpdateFace(id, f)
  \/ \E id \in Ids, c \in {"UpdateName", "UpdateFace"} : UpdateUnused(c, id)
  \/ SaveFace
  \/ \E id \in Ids : DelFaceWithID(id)
  \/ \E n \in Names : DelFaceWithName(n)
  \/ DelAll
  \/ Block

Step ==
  \/ InitMkdir \/ InitReadError \/ InitRead \/ InitSave
  \/ LoadSlot \/ LoadMissing \/ LoadError \/ LoadSkip \/ LoadEnd
  \/ SaveSlot \/ Unlock \/ SaveAllSlot \/ SaveAllEnd
  \/ RmSlot \/ DelAllSlot \/ DelAllSkip \/ DelAllEnd \/ UpdMeta

Next == Invoke \/ Step \/ Crash

Spec == Init /\ [][Next]_vars
FairSpec == Spec /\ WF_vars(Step)

-----------------------------------------------------------------------------
(* Properties.                                                             *)

\* Slots of an earlier format, or without valid data, may be renamed.
RamEntries == [name : Names \cup {"blank", "legacy"},
               face : Features \cup {"blank", "legacy", "small", "part"}]
Contents == RamEntries \cup {EmptyFile, NoFile}

\* Types of the RAM copy, of the flash content and of the control state.
TypeOK ==
  /\ meta \in Metadata
  /\ entry \in [Ids -> RamEntries]
  /\ lock \in BOOLEAN
  /\ dbDir \in BOOLEAN
  /\ metaFile \in Metadata \cup {NoFile, EmptyFile}
  /\ file \in [Ids -> Contents]
  /\ pc \in {"off", "init_save", "init_failed", "load", "idle", "blocked", "unlock",
             "save_face", "save_all", "upd_meta", "rm", "delall"}
  /\ call \in AllCalls \cup {"Init", "Load"}
  /\ cur \in 0..MAX_FACE_DB_SIZE
  /\ status \in {"Success", "NotExist", "Fail"}
  /\ updateMetadata \in BOOLEAN
  /\ ret \in {"None", "Success", "Failed"}

\* The database is initialised and its RAM copy is what callers see.
Running == pc \in {"idle", "blocked", "unlock", "save_face", "save_all", "upd_meta", "rm"}

\* The face count that HAL_Facedb_GetCount returns at any moment, without the
\* lock, is the number of ids that HAL_Facedb_GetIds fills in; the user list
\* of the vision algorithm reads exactly that many ids.
CountMatchesUsed == Running => meta.numberFaces = Cardinality(UsedIds(meta))

\* What the next boot would load into a slot from the files in flash, if no
\* file before it is shorter than an entry.
Durable ==
  [id \in Ids |->
     IF /\ metaFile \notin {NoFile, EmptyFile}
        /\ metaFile.version = "current"
        /\ metaFile.faceEntrySize \in 1..FaceEntrySize
        /\ InFlash(metaFile, id)
        /\ file[id] # EmptyFile
     THEN ReadPart(file[id], metaFile.faceEntrySize) ELSE NoFile]

\* Between calls, a face that HAL_Facedb_GetSaveStatus reports as saved is the
\* face the next boot would load, whatever crash comes next.
SavedIsDurable ==
  pc = "idle" => \A id \in UsedIds(meta) : GetSaveStatus(id) => Durable[id] = entry[id]

\* Between calls, a slot that is not in use has nothing in flash that the next
\* boot would load: a deleted face can never open the door again.
DeletedStaysDeleted == pc = "idle" => \A id \in Ids : ~InUse(meta, id) => Durable[id] = NoFile

\* A slot in use holds a whole face of the current feature format, also after
\* crashes and reloads, and when another firmware left its faces in the flash.
\* The initialisation refuses entries that are larger and drops those of another
\* version; entries of the same version that are smaller break it.
UsedSlotsHoldFaces ==
  Running => \A id \in UsedIds(meta) : entry[id] \in Entries

\* Every call that was started returns (or the device restarts).
CallsReturn == pc \notin {"idle", "off", "init_failed"} ~> pc \in {"idle", "off", "init_failed"}

\* Once the database has been created, an initialisation fails only when the
\* stored faces are too large: a crash alone never makes it unusable.
LaterBootsRecover ==
  pc = "init_failed" /\ metaFile \notin {NoFile, EmptyFile}
    => metaFile.faceEntrySize > FaceEntrySize

\* The call in progress as the abstract store sees it.
AbstractOp ==
  IF pc \in {"off", "init_save", "init_failed", "load", "idle"} \/ call \in {"Init", "Load"}
  THEN [name |-> "none"]
  ELSE IF call \in {"UpdateName", "UpdateFace"} /\ pc = "unlock"
  THEN [name |-> "UpdateUnused", slot |-> cur]
  ELSE IF call \in {"AddFace", "UpdateName", "UpdateFace"} /\ pc # "blocked"
  THEN [name |-> call, slot |-> cur, want |-> entry[cur]]
  ELSE IF call \in {"DelFaceWithID", "DelFaceWithName"} /\ pc # "blocked"
  THEN [name |-> call, slot |-> cur]
  ELSE [name |-> IF pc = "blocked" THEN "Read" ELSE call]

Store == INSTANCE FaceStore WITH
  Slots <- Ids, Faces <- Entries, NoFace <- NoFile,
  store <- Durable, op <- AbstractOp, reply <- ret

\* With AUTOSAVE the database implements the durable store of FaceStore: every
\* call that reports success is durable (or was to update a slot without a
\* face), and no crash tears a call apart.
StoreRefinement == Store!Spec
=============================================================================
