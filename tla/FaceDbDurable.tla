--------------------------- MODULE FaceDbDurable ---------------------------
(***************************************************************************)
(* What the face database keeps in flash, for every number of slots and    *)
(* every sequence of calls, crashes and flash errors the theorems name:    *)
(* the slots in use hold whole faces, a deleted face never comes back, a   *)
(* face reported as saved survives, and, where flash operations do not     *)
(* fail, the database implements the durable store of FaceStore.           *)
(***************************************************************************)
EXTENDS FaceDbProofs

-----------------------------------------------------------------------------
(* The inductive invariant.                                                *)

\* The next boot would load the file of this slot.
Listed(id) ==
  /\ metaFile \notin {NoFile, EmptyFile}
  /\ metaFile.version = "current"
  /\ metaFile.faceEntrySize \in 1..FaceEntrySize
  /\ InFlash(metaFile, id)

\* The files alone: what the next boot would load is a whole face or missing,
\* and metadata of the current version lists no files with smaller entries.
FilesSound ==
  /\ ~dbDir => metaFile = NoFile
  /\ \A id \in Ids : Listed(id) => file[id] \in Entries \cup {NoFile}
  /\ metaFile \notin {NoFile, EmptyFile} /\ metaFile.version = "current"
       => \A id \in Ids : InFlash(metaFile, id) => metaFile.faceEntrySize >= FaceEntrySize

\* Before the first metadata is written, and while the faces of another
\* firmware are dropped, the next boot would load nothing.
FreshSound ==
  /\ dbDir \/ pc \in {"off", "init_failed"}
  /\ pc = "off" => ~updateMetadata /\ status = "Success"
  /\ pc = "init_save" \/ (call = "Init" /\ pc \in {"delall", "upd_meta"})
       => \A id \in Ids : ~Listed(id)
  /\ call = "Init" /\ pc = "delall" => ~updateMetadata
  /\ call = "Init" /\ pc = "upd_meta" => meta = MetaDefault

\* The loading loop: slots below cur are loaded, the others still to be read.
LoadSound ==
  pc = "load" =>
    /\ meta.version = "current"
    /\ \A id \in Ids :
         /\ InFlash(meta, id) => Listed(id) /\ meta.faceEntrySize = FaceEntrySize
         /\ Listed(id) /\ ~InFlash(meta, id) => updateMetadata
         /\ id < cur /\ InFlash(meta, id) => file[id] \in Entries
         /\ id < cur /\ InUse(meta, id) => entry[id] \in Entries

\* The database is loaded and serves calls.
Steady ==
  \/ pc \in {"idle", "blocked", "unlock", "save_face", "save_all", "rm"}
  \/ pc \in {"delall", "upd_meta"} /\ call # "Init"

\* While calls run: used slots hold faces, slots marked as stored have a face
\* file, and what the next boot would load beyond them is about to be unlisted.
RamSound ==
  /\ Steady =>
       /\ meta.version = "current"
       /\ ~(pc = "upd_meta" /\ call = "Load") => meta.faceEntrySize = FaceEntrySize
       /\ \A id \in Ids :
            /\ InUse(meta, id) => entry[id] \in Entries
            /\ InFlash(meta, id) => file[id] \in Entries /\ meta.faceEntrySize = FaceEntrySize
            /\ Listed(id) /\ ~InFlash(meta, id)
                 => pc = "upd_meta" \/ (pc = "delall" /\ updateMetadata)
  /\ pc = "delall" =>
       /\ call \in {"Init", "DelAll"}
       /\ status = "Success"
       /\ \A id \in Ids : id < cur => ~InUse(meta, id)
  /\ pc \in {"save_all", "rm"} => call \notin {"Init", "Load"}

(* The inductive invariant of what the flash holds.                        *)
DurInv == FilesSound /\ FreshSound /\ LoadSound /\ RamSound

-----------------------------------------------------------------------------
(* Lemmas about the operators.                                             *)

(* The image of the metadata lists the same files as the metadata in RAM.  *)
LEMMA ImageLists ==
  ASSUME NEW m \in Metadata
  PROVE  LET i == MetadataImage(m)
         IN  /\ i \in Metadata
             /\ i.version = m.version
             /\ i.faceEntrySize = m.faceEntrySize
             /\ \A id \in Ids : InFlash(i, id) <=> InFlash(m, id)
<1> DEFINE i == MetadataImage(m)
<1>1. i \in Metadata
  BY ImageType
<1>2. i.version = m.version /\ i.faceEntrySize = m.faceEntrySize
  BY DEF MetadataImage, Metadata
<1>3. \A id \in Ids : i.faceMapping[id] = m.faceMapping[id] \ {"Used"}
  BY DEF MetadataImage, Metadata
<1> HIDE DEF i
<1>4. \A id \in Ids : InFlash(i, id) <=> InFlash(m, id)
  BY <1>3 DEF InFlash
<1>5. QED
  BY <1>1, <1>2, <1>4 DEF i

(* The default metadata lists no file.                                     *)
LEMMA DefaultLists ==
  /\ MetaDefault \in Metadata
  /\ MetaDefault.version = "current"
  /\ \A id \in Ids : ~InFlash(MetaDefault, id) /\ ~InUse(MetaDefault, id)
<1>1. \A id \in Ids : MetaDefault.faceMapping[id] = {}
  BY DEF MetaDefault, EmptyMapping
<1>2. MetaDefault.version = "current"
  BY DEF MetaDefault
<1>3. QED
  BY <1>1, <1>2, ConstantMetadata DEF InFlash, InUse

(* A save whose errors are not lost when the file is closed.               *)
LEMMA SaveHonest ==
  ASSUME "close" \notin Failing, NEW old, NEW new, NEW o \in SaveOutcomes(old, new)
  PROVE  /\ o.ok \in BOOLEAN
         /\ o.ok => o.content = new
         /\ ~o.ok => "save" \in Failing /\ o.content \in Torn(old)
<1>1. CASE o = [ok |-> TRUE, content |-> new]
  BY <1>1
<1>2. CASE o \in [ok : {FALSE}, content : Torn(old)] /\ "save" \in Failing
  <2>1. o.ok \in {FALSE} /\ o.content \in Torn(old)
    BY <1>2
  <2>2. QED
    BY <2>1, <1>2
<1>3. QED
  BY <1>1, <1>2 DEF SaveOutcomes

(* A save that reports an error leaves the file, or creates it empty.      *)
LEMMA SaveFails ==
  ASSUME NEW old, NEW new, NEW o \in SaveOutcomes(old, new), ~o.ok
  PROVE  o.content \in Torn(old)
<1>1. CASE o = [ok |-> TRUE, content |-> new]
  BY <1>1
<1>2. CASE o \in [ok : {FALSE}, content : Torn(old)]
  BY <1>2
<1>3. CASE o \in [ok : {TRUE}, content : {IF old = NoFile THEN EmptyFile ELSE old}]
  BY <1>3
<1> QED
  BY <1>1, <1>2, <1>3 DEF SaveOutcomes

(* A removal that reports no error leaves no file.                         *)
LEMMA RmHonest ==
  ASSUME "rm" \notin Failing, NEW old, NEW o \in RmOutcomes(old)
  PROVE  o.content = NoFile /\ o.st = IF old = NoFile THEN "NotExist" ELSE "Success"
  BY DEF RmOutcomes

(* A face is not one of the marks for a file without a face.               *)
LEMMA FaceFiles ==
  ASSUME NEW c \in Entries
  PROVE  c # NoFile /\ c # EmptyFile /\ Torn(c) = {c}
  BY FileSentinels DEF Torn

(* A face is read as a whole when the size of an entry is asked for.       *)
LEMMA FaceRead ==
  ASSUME NEW c \in Entries
  PROVE  ReadLen(c, FaceEntrySize) = FaceEntrySize
<1>1. c # EmptyFile /\ c # Small
  BY FileSentinels
<1>2. QED
  BY <1>1 DEF ReadLen, FileSize

\* The next boot would load whole files.
DurableWhole ==
  Durable = [id \in Ids |-> IF Listed(id) /\ file[id] # EmptyFile THEN file[id] ELSE NoFile]

(* So it does when no metadata with smaller entries lists them.            *)
LEMMA DurableFiles ==
  metaFile \in Metadata \cup {NoFile, EmptyFile} /\ FilesSound => DurableWhole
<1> SUFFICES ASSUME metaFile \in Metadata \cup {NoFile, EmptyFile}, FilesSound
             PROVE  DurableWhole
  OBVIOUS
<1>1. ASSUME NEW id \in Ids, Listed(id)
      PROVE  ReadPart(file[id], metaFile.faceEntrySize) = file[id]
  <2>1. metaFile.faceEntrySize \in 1..2 /\ metaFile.faceEntrySize >= 2
    BY <1>1 DEF Listed, FilesSound, FaceEntrySize
  <2>2. QED
    BY <2>1 DEF ReadPart, FaceEntrySize
<1>2. QED
  BY <1>1 DEF DurableWhole, Durable, Listed

(* An unused slot is empty, outside the slot whose file is being removed.  *)
LEMMA UnusedEmpty ==
  ASSUME NEW m, NEW x, Counted(m, x), NEW id \in Ids \ x, ~InUse(m, id)
  PROVE  ~InFlash(m, id)
  BY DEF Counted, InFlash

-----------------------------------------------------------------------------
(* The steps.                                                              *)

(* The states the program starts from satisfy it, unless the flash holds   *)
(* faces of the current version with smaller entries.                      *)
LEMMA DurInit ==
  ASSUME "smaller" \notin Legacies
  PROVE  Init => DurInv
<1> SUFFICES ASSUME Init PROVE DurInv
  OBVIOUS
<1>1. pc = "off" /\ ~updateMetadata /\ status = "Success"
  BY DEF Init
<1>2. ~dbDir => metaFile = NoFile
  BY DEF Init
<1>3. ASSUME metaFile \notin {NoFile, EmptyFile}
      PROVE  metaFile.version # "current" \/ metaFile.faceEntrySize = 3
  BY <1>3, FaceDbAssumption DEF Init, LegacyMeta
<1>4. FilesSound
  BY <1>2, <1>3 DEF FilesSound, Listed, FaceEntrySize
<1>5. QED
  BY <1>1, <1>4 DEF DurInv, FreshSound, LoadSound, RamSound, Steady

(* Every step keeps it, as long as no removal reports an error and no save *)
(* error is lost when a file is closed.                                    *)
LEMMA DurStep ==
  ASSUME "rm" \notin Failing, "close" \notin Failing
  PROVE  TypeInv /\ CountInv /\ DurInv /\ [Next]_vars => DurInv'
<1> SUFFICES ASSUME TypeInv, CountInv, DurInv, [Next]_vars PROVE DurInv'
  OBVIOUS
<1> USE DEF ram, flash, ctl
<1>a. /\ meta \in Metadata
      /\ metaFile \in Metadata \cup {NoFile, EmptyFile}
      /\ file \in [Ids -> Contents]
      /\ entry \in [Ids -> RamEntries]
      /\ pc \in {"save_face", "rm"} => cur \in Ids
      /\ cur \in 0..MAX_FACE_DB_SIZE
      /\ updateMetadata \in BOOLEAN
  BY DEF TypeInv, TypeOK
<1>b. FilesSound /\ FreshSound /\ LoadSound /\ RamSound
  BY DEF DurInv
<1>c. UNCHANGED metaFile => \A id \in Ids : Listed(id)' <=> Listed(id)
  BY DEF Listed
<1>d. UNCHANGED <<metaFile, file, dbDir>> => FilesSound'
  BY <1>b, <1>c DEF FilesSound
<1>e. ASSUME NEW m \in Metadata
      PROVE  /\ [m EXCEPT !.faceEntrySize = FaceEntrySize].version = m.version
             /\ [m EXCEPT !.faceEntrySize = FaceEntrySize].faceEntrySize = FaceEntrySize
             /\ [m EXCEPT !.faceEntrySize = FaceEntrySize].faceMapping = m.faceMapping
  BY DEF Metadata
<1>f. \A id \in Ids : /\ cur + 1 \in Int
                      /\ id < cur + 1 <=> id < cur \/ id = cur
                      /\ ~(id < 0)
  BY <1>a, Constants DEF Ids
<1>1. CASE InitMkdir
  <2>1. \A id \in Ids : ~Listed(id)
    BY <1>1, <1>b DEF InitMkdir, FilesSound, Listed
  <2>2. pc' \in {"init_save", "init_failed"} /\ UNCHANGED <<metaFile, file>> /\ metaFile = NoFile
    BY <1>1, <1>b DEF InitMkdir, Goto, InitFail, InitEnd, FilesSound
  <2>3. FilesSound' /\ (dbDir' \/ pc' = "init_failed")
    BY <1>1, <2>1, <2>2, <1>c, <1>b DEF FilesSound, InitMkdir, InitFail, InitEnd
  <2>4. QED
    BY <2>1, <2>2, <2>3, <1>c DEF DurInv, FreshSound, LoadSound, RamSound, Steady
<1>2. CASE InitReadError
  BY <1>2, <1>d DEF InitReadError, InitFail, InitEnd, DurInv, FreshSound, LoadSound, RamSound,
     Steady
<1>3. CASE InitRead
  <2>1. /\ UNCHANGED <<metaFile, file, dbDir, entry>>
        /\ cur = 0 /\ call = "Init" /\ ~updateMetadata
        /\ metaFile # NoFile /\ dbDir
    BY <1>3, <1>b DEF CountInv, InitRead, FreshSound
  <2>2. CASE InitFail(MetaContent)
    BY <2>1, <2>2, <1>d DEF InitFail, InitEnd, DurInv, FreshSound, LoadSound, RamSound, Steady
  <2>3. CASE MetaContent.version # "current" /\ meta' = MetaContent /\ Goto("delall")
    <3>1. \A id \in Ids : ~Listed(id)
      BY <2>3 DEF MetaContent, Listed
    <3>2. status = "Success"
      BY <1>3, <1>b DEF InitRead, FreshSound
    <3>3. QED
      BY <2>1, <2>3, <3>1, <3>2, <1>c, <1>d, <1>f
         DEF Goto, DurInv, FreshSound, LoadSound, RamSound, Steady
  <2>4. CASE /\ MetaContent.version = "current"
             /\ MetaContent.faceEntrySize <= FaceEntrySize
             /\ meta' = MetaContent
             /\ pc' = "load"
             /\ UNCHANGED <<cur, status, updateMetadata, ret>>
    <3>1. metaFile # EmptyFile /\ meta' = metaFile /\ metaFile \in Metadata
      BY <2>1, <2>4, <1>a DEF MetaContent
    <3>2. \A id \in Ids : InFlash(metaFile, id) => metaFile.faceEntrySize = FaceEntrySize
      BY <2>4, <3>1, <1>a, <1>b, <2>1 DEF MetaContent, FilesSound, Metadata, Sizes, FaceEntrySize
    <3>3. \A id \in Ids : Listed(id) <=> InFlash(metaFile, id)
      BY <3>1, <3>2, <2>1, <2>4 DEF Listed, MetaContent, FaceEntrySize
    <3>4. QED
      BY <2>1, <2>4, <3>1, <3>2, <3>3, <1>c, <1>d, <1>f
         DEF DurInv, FreshSound, LoadSound, RamSound, Steady, MetaContent
  <2>5. QED
    BY <1>3, <2>2, <2>3, <2>4 DEF InitRead
<1>4. CASE InitSave
  <2>1. PICK o \in SaveOutcomes(metaFile, meta) : metaFile' = o.content
    BY <1>4 DEF InitSave
  <2>2. meta = MetaDefault /\ \A id \in Ids : ~Listed(id)
    BY <1>4, <1>b DEF InitSave, CountInv, FreshSound
  <2>3. metaFile' \in {meta, metaFile, EmptyFile}
    BY <2>1, SaveCases
  <2>4. FilesSound' /\ \A id \in Ids : ~Listed(id)'
    <3>1. dbDir
      BY <1>4, <1>b DEF InitSave, FreshSound
    <3>2. CASE metaFile' = MetaDefault
      BY <1>4, <3>1, <3>2, DefaultLists DEF FilesSound, Listed, InitSave
    <3>3. CASE metaFile' = metaFile
      BY <1>4, <3>1, <3>3, <2>2, <1>b, <1>c DEF FilesSound, InitSave
    <3>4. CASE metaFile' = EmptyFile
      BY <1>4, <3>1, <3>4 DEF FilesSound, Listed, InitSave
    <3>5. QED
      BY <2>2, <2>3, <3>2, <3>3, <3>4
  <2>5. pc' = "idle" /\ meta' = [MetaDefault EXCEPT !.faceEntrySize = FaceEntrySize]
    BY <1>4, <2>2 DEF InitSave, InitDone, InitEnd
  <2>6. \A id \in Ids : ~InUse(meta', id) /\ ~InFlash(meta', id)
    BY <2>5, DefaultLists, <1>e DEF InUse, InFlash
  <2>7. dbDir'
    BY <1>4, <1>b DEF InitSave, FreshSound
  <2>8. QED
    BY <2>7, <2>4, <2>5, <2>6, DefaultLists, <1>e DEF DurInv, FreshSound, LoadSound, RamSound,
       Steady
<1>5. CASE LoadSlot
  <2>1. /\ Listed(cur) /\ meta.faceEntrySize = FaceEntrySize
        /\ file[cur] \in Entries
    BY <1>5, <1>b DEF LoadSlot, LoadSound, FilesSound
  <2>0. ReadLen(file[cur], meta.faceEntrySize) = FaceEntrySize
    BY <2>1, FaceRead
  <2>2. /\ meta'.version = meta.version
        /\ meta'.faceEntrySize = FaceEntrySize
        /\ \A j \in Ids : meta'.faceMapping[j] = IF j = cur THEN {"Saved", "Used"}
                                                         ELSE meta.faceMapping[j]
    BY <1>5, <1>a, <2>1, <2>0 DEF LoadSlot, Metadata
  <2>3. entry' = [entry EXCEPT ![cur] = file[cur]]
    <3>1. ReadPart(file[cur], FaceEntrySize) = file[cur] /\ FaceEntrySize # 0
      BY DEF ReadPart, FaceEntrySize
    <3>2. QED
      BY <1>5, <2>0, <3>1 DEF LoadSlot
  <2>4. LoadSound'
    BY <1>5, <2>1, <2>2, <2>3, <1>a, <1>b, <1>c, <1>f DEF LoadSlot, LoadSound, InFlash, InUse
  <2>5. QED
    BY <1>5, <2>4, <1>b, <1>d DEF LoadSlot, DurInv, FreshSound, RamSound, Steady
<1>6. CASE LoadMissing
  <2>1. /\ meta'.version = meta.version
        /\ meta'.faceEntrySize = meta.faceEntrySize
        /\ \A j \in Ids : meta'.faceMapping[j] = IF j = cur THEN {} ELSE meta.faceMapping[j]
    BY <1>6, <1>a DEF LoadMissing, Metadata
  <2>2. LoadSound'
    BY <1>6, <2>1, <1>b, <1>c, <1>f DEF LoadMissing, LoadSound, InFlash, InUse
  <2>3. QED
    BY <1>6, <2>2, <1>b, <1>d DEF LoadMissing, DurInv, FreshSound, RamSound, Steady
<1>7. CASE LoadError
  BY <1>7, <1>d DEF LoadError, InitFail, InitEnd, DurInv, FreshSound, LoadSound, RamSound, Steady
<1>8. CASE LoadSkip
  <2>1. LoadSound'
    BY <1>8, <1>b, <1>c, <1>f DEF LoadSkip, LoadSound, InFlash, InUse
  <2>2. QED
    BY <1>8, <2>1, <1>b, <1>d DEF LoadSkip, DurInv, FreshSound, RamSound, Steady
<1>9. CASE LoadEnd
  <2>1. \A id \in Ids : id < cur
    BY <1>9, <1>a, Constants DEF LoadEnd, Ids
  <2>2. call = "Load" /\ UNCHANGED <<entry, metaFile, file, dbDir>> /\ pc = "load"
    BY <1>9 DEF LoadEnd, CountInv
  <2>3. CASE InitFail(meta)
    BY <2>2, <2>3, <1>d DEF InitFail, InitEnd, DurInv, FreshSound, LoadSound, RamSound, Steady
  <2>4. CASE Goto("upd_meta") /\ UNCHANGED meta
    BY <2>1, <2>2, <2>4, <1>b, <1>c, <1>d
       DEF Goto, DurInv, FreshSound, LoadSound, RamSound, Steady
  <2>5. CASE ~updateMetadata /\ InitDone(meta)
    BY <2>1, <2>2, <2>5, <1>a, <1>b, <1>c, <1>d, <1>e
       DEF InitDone, InitEnd, DurInv, FreshSound, LoadSound, RamSound, Steady, InUse, InFlash
  <2>6. QED
    BY <1>9, <2>3, <2>4, <2>5 DEF LoadEnd
<1>10. ASSUME pc = "idle", UNCHANGED <<dbDir, metaFile, file>>, meta'.version = meta.version,
              meta'.faceEntrySize = meta.faceEntrySize,
              \A id \in Ids : /\ InUse(meta', id) => entry'[id] \in Entries
                              /\ InFlash(meta', id) <=> InFlash(meta, id),
              pc' \in {"idle", "unlock", "save_face", "save_all", "rm", "delall", "blocked"},
              pc' = "delall" => call' = "DelAll" /\ status' = "Success" /\ cur' = 0,
              pc' \in {"save_all", "rm"} => call' \notin {"Init", "Load"}
       PROVE  DurInv'
  BY <1>10, <1>b, <1>c, <1>d, <1>f DEF DurInv, FreshSound, LoadSound, RamSound, Steady
<1>11. ASSUME NEW e \in Entries, AddFace(e) PROVE DurInv'
  <2>1. PICK id \in Ids :
          /\ ~InUse(meta, id)
          /\ Enter("AddFace", IF AUTOSAVE THEN "save_face" ELSE "unlock", id)
          /\ entry' = [entry EXCEPT ![id] = e]
          /\ meta' = [meta EXCEPT !.faceMapping[id] = {"Used"}, !.numberFaces = Inc16(@)]
          /\ UNCHANGED flash
    BY <1>11 DEF AddFace
  <2>2. /\ meta'.version = meta.version
        /\ meta'.faceEntrySize = meta.faceEntrySize
        /\ \A j \in Ids : meta'.faceMapping[j] = IF j = id THEN {"Used"} ELSE meta.faceMapping[j]
    BY <2>1, <1>a DEF Metadata
  <2>3. pc = "idle" /\ pc' \in {"save_face", "unlock"}
    BY <2>1 DEF Enter
  <2>4. ~InFlash(meta, id)
    BY <2>1, <2>3, UnusedEmpty DEF CountInv
  <2>5. \A j \in Ids : /\ InUse(meta', j) => entry'[j] \in Entries
                       /\ InFlash(meta', j) <=> InFlash(meta, j)
    BY <2>1, <2>2, <2>3, <2>4, <1>a, <1>b DEF RamSound, Steady, InUse, InFlash
  <2>6. QED
    BY <2>1, <2>2, <2>3, <2>5, <1>10
<1>12. ASSUME NEW c, NEW id \in Ids, NEW e, UpdateSlot(c, id, e),
              InUse(meta, id) /\ entry[id] \in Entries => e \in Entries
       PROVE  DurInv'
  <2>1. /\ meta'.version = meta.version
        /\ meta'.faceEntrySize = meta.faceEntrySize
        /\ \A j \in Ids : meta'.faceMapping[j] \in
              {meta.faceMapping[j],
               IF IsSaved(meta, j) THEN (meta.faceMapping[j] \ {"Saved"}) \cup {"Updated"}
                                   ELSE meta.faceMapping[j]}
    BY <1>12, <1>a DEF UpdateSlot, Metadata
  <2>2. /\ pc = "idle" /\ pc' \in {"save_face", "unlock"}
        /\ UNCHANGED <<dbDir, metaFile, file>>
        /\ entry' = [entry EXCEPT ![id] = e]
        /\ InUse(meta, id)
    BY <1>12 DEF UpdateSlot, Enter
  <2>3. \A j \in Ids : /\ InUse(meta', j) <=> InUse(meta, j)
                       /\ InFlash(meta', j) <=> InFlash(meta, j)
    BY <2>1 DEF InUse, InFlash, IsSaved
  <2>4. \A j \in Ids : InUse(meta', j) => entry'[j] \in Entries
    BY <1>12, <2>2, <2>3, <1>a, <1>b DEF RamSound, Steady
  <2>5. QED
    BY <2>1, <2>2, <2>3, <2>4, <1>10
<1>13. ASSUME cur \in Ids, InUse(meta, cur), Steady, meta.faceEntrySize = FaceEntrySize,
              pc \in {"save_face", "save_all"},
              NEW o \in SaveOutcomes(file[cur], entry[cur]),
              file' = [file EXCEPT ![cur] = o.content],
              meta' = IF o.ok THEN [meta EXCEPT !.faceMapping[cur] = {"Saved", "Used"}] ELSE meta,
              UNCHANGED <<entry, dbDir, metaFile>>,
              pc' \in {"idle", "upd_meta", "save_all"}, call' = call,
              pc' \in {"upd_meta", "save_all"} => call \notin {"Init", "Load"}
       PROVE  DurInv'
  <2>1. entry[cur] \in Entries /\ o.ok \in BOOLEAN
    BY <1>13, <1>b, SaveCases DEF RamSound
  <2>2. /\ meta'.version = meta.version
        /\ meta'.faceEntrySize = meta.faceEntrySize
        /\ \A j \in Ids : j # cur => meta'.faceMapping[j] = meta.faceMapping[j]
        /\ meta'.faceMapping[cur] = IF o.ok THEN {"Saved", "Used"} ELSE meta.faceMapping[cur]
    BY <1>13, <2>1, <1>a DEF Metadata
  <2>3. \A j \in Ids : file'[j] = IF j = cur THEN o.content ELSE file[j]
    BY <1>13, <1>a
  <2>4. o.ok => o.content = entry[cur]
    BY <1>13, SaveHonest
  <2>5. ~o.ok => o.content \in Torn(file[cur])
    BY <1>13, SaveHonest
  <2>6. InFlash(meta', cur) => o.content \in Entries
    <3>1. CASE o.ok
      BY <3>1, <2>1, <2>4
    <3>2. CASE ~o.ok
      <4> SUFFICES ASSUME InFlash(meta', cur) PROVE o.content \in Entries
        OBVIOUS
      <4>1. file[cur] \in Entries
        BY <3>2, <2>2, <1>13, <1>b DEF RamSound, InFlash
      <4>2. QED
        BY <3>2, <4>1, <2>5, FaceFiles
    <3>3. QED
      BY <3>1, <3>2, <2>1
  <2>7. \A j \in Ids : InFlash(meta, j) => InFlash(meta', j)
    BY <2>2 DEF InFlash
  <2>8. \A j \in Ids : /\ Listed(j) => InFlash(meta', j)
                       /\ InUse(meta', j) => entry[j] \in Entries
                       /\ InFlash(meta', j) => file'[j] \in Entries
    <3>1. \A j \in Ids : Listed(j) => InFlash(meta, j)
      BY <1>13, <1>b DEF RamSound
    <3>2. \A j \in Ids : InUse(meta', j) => InUse(meta, j)
      BY <2>2, <1>13 DEF InUse
    <3>3. \A j \in Ids : InUse(meta, j) => entry[j] \in Entries
      BY <1>13, <1>b DEF RamSound
    <3>4. \A j \in Ids : j # cur /\ InFlash(meta', j) => file[j] \in Entries
      BY <2>2, <1>13, <1>b DEF RamSound, InFlash
    <3>5. QED
      BY <3>1, <3>2, <3>3, <3>4, <2>3, <2>6, <2>7
  <2>9. FilesSound'
    BY <2>8, <1>13, <1>b, <1>c DEF FilesSound
  <2>10. QED
    BY <1>13, <2>2, <2>8, <2>9, <1>b, <1>c DEF DurInv, FreshSound, LoadSound, RamSound, Steady
<1>14. CASE SaveSlot
  <2>1. PICK o \in SaveOutcomes(file[cur], entry[cur]) :
          /\ file' = [file EXCEPT ![cur] = o.content]
          /\ meta' = IF o.ok THEN [meta EXCEPT !.faceMapping[cur] = {"Saved", "Used"}] ELSE meta
          /\ \/ call = "AddFace" /\ Goto("upd_meta")
             \/ \E r \in {"Failed", "Success"} : Return(r)
    BY <1>14 DEF SaveSlot
  <2>2. /\ pc = "save_face" /\ InUse(meta, cur) /\ cur \in Ids
        /\ Steady /\ meta.faceEntrySize = FaceEntrySize
        /\ UNCHANGED <<entry, dbDir, metaFile>>
    BY <1>14, <1>a, <1>b DEF SaveSlot, CountInv, RamSound, Steady
  <2>3. /\ pc' \in {"idle", "upd_meta"} /\ call' = call
        /\ pc' = "upd_meta" => call = "AddFace"
    BY <2>1 DEF Goto, Return
  <2>4. QED
    BY <2>1, <2>2, <2>3, <1>13
<1>15. CASE Unlock
  BY <1>15, <1>b, <1>c, <1>d DEF Unlock, Return, DurInv, FreshSound, LoadSound, RamSound, Steady
<1>16. CASE SaveFace
  BY <1>16, <1>b, <1>10 DEF SaveFace, Enter, RamSound, Steady
<1>17. CASE SaveAllSlot
  <2>1. /\ pc = "save_all" /\ cur \in Ids /\ Steady /\ meta.faceEntrySize = FaceEntrySize
        /\ pc' = "save_all" /\ call' = call /\ UNCHANGED <<entry, dbDir, metaFile>>
        /\ call \notin {"Init", "Load"}
    BY <1>17, <1>b DEF SaveAllSlot, RamSound, Steady
  <2>2. CASE InUse(meta, cur) /\ ~IsSaved(meta, cur)
    <3>1. PICK o \in SaveOutcomes(file[cur], entry[cur]) :
            /\ file' = [file EXCEPT ![cur] = o.content]
            /\ meta' = IF o.ok THEN [meta EXCEPT !.faceMapping[cur] = {"Saved", "Used"}]
                               ELSE meta
      BY <1>17, <2>2 DEF SaveAllSlot
    <3>2. QED
      BY <2>1, <2>2, <3>1, <1>13
  <2>3. CASE ~(InUse(meta, cur) /\ ~IsSaved(meta, cur))
    <3>1. UNCHANGED <<file, meta>>
      BY <1>17, <2>3 DEF SaveAllSlot
    <3>2. QED
      BY <2>1, <3>1, <1>b, <1>c, <1>d DEF DurInv, FreshSound, LoadSound, RamSound, Steady
  <2>4. QED
    BY <2>2, <2>3
<1>18. CASE SaveAllEnd
  <2>1. /\ pc = "save_all" /\ UNCHANGED <<meta, entry, file, dbDir, metaFile, call>>
        /\ pc' \in {"upd_meta", "idle"}
    BY <1>18 DEF SaveAllEnd, Goto, ReturnLocked
  <2>2. QED
    BY <2>1, <1>b, <1>c, <1>d DEF DurInv, FreshSound, LoadSound, RamSound, Steady
<1>19. ASSUME NEW id \in Ids, meta' = ClearSlot(meta, id)
       PROVE  /\ meta'.version = meta.version
              /\ meta'.faceEntrySize = meta.faceEntrySize
              /\ \A j \in Ids : meta'.faceMapping[j] = IF j = id THEN meta.faceMapping[id] \ {"Used"}
                                                               ELSE meta.faceMapping[j]
  BY <1>19, <1>a DEF ClearSlot, Metadata
<1>20. ASSUME NEW c \in {"DelFaceWithID", "DelFaceWithName"}, NEW id \in Ids, DeleteFace(c, id)
       PROVE  DurInv'
  <2>1. /\ pc = "idle" /\ pc' \in {"rm", "unlock"} /\ UNCHANGED <<dbDir, metaFile, file>>
        /\ entry' = [entry EXCEPT ![id] = Blank]
        /\ meta' = ClearSlot(meta, id)
        /\ call' = c
    BY <1>20 DEF DeleteFace, Enter
  <2>2. \A j \in Ids : /\ InUse(meta', j) => InUse(meta, j) /\ j # id
                       /\ InFlash(meta', j) <=> InFlash(meta, j)
    BY <2>1, <1>19 DEF InUse, InFlash
  <2>3. \A j \in Ids : InUse(meta', j) => entry'[j] \in Entries
    BY <2>1, <2>2, <1>a, <1>b DEF RamSound, Steady
  <2>4. QED
    BY <2>1, <2>2, <2>3, <1>10, <1>19
<1>21. CASE RmSlot
  <2>1. PICK o \in RmOutcomes(file[cur]) :
          /\ file' = [file EXCEPT ![cur] = o.content]
          /\ o.st # "Fail" => meta' = [meta EXCEPT !.faceMapping[cur] = @ \ {"Saved", "Updated"}]
                              /\ Goto("upd_meta")
    BY <1>21 DEF RmSlot
  <2>2. o.content = NoFile /\ o.st # "Fail"
    BY <2>1, RmHonest
  <2>3. /\ pc = "rm" /\ cur \in Ids /\ ~InUse(meta, cur) /\ call \notin {"Init", "Load"}
        /\ UNCHANGED <<entry, dbDir, metaFile>>
    BY <1>21, <1>a, <1>b DEF RmSlot, CountInv, RamSound
  <2>4. /\ meta'.version = meta.version
        /\ meta'.faceEntrySize = meta.faceEntrySize
        /\ \A j \in Ids : meta'.faceMapping[j] =
             IF j = cur THEN meta.faceMapping[cur] \ {"Saved", "Updated"}
                        ELSE meta.faceMapping[j]
    <3>1. meta' = [meta EXCEPT !.faceMapping[cur] = @ \ {"Saved", "Updated"}]
      BY <2>1, <2>2
    <3>2. QED
      BY <3>1, <2>3, <1>a DEF Metadata
  <2>5. \A j \in Ids : file'[j] = IF j = cur THEN NoFile ELSE file[j]
    BY <2>1, <2>2, <1>a
  <2>6. \A j \in Ids : /\ InUse(meta', j) => InUse(meta, j)
                       /\ InFlash(meta', j) => InFlash(meta, j) /\ j # cur
    BY <2>4 DEF InUse, InFlash
  <2>7. FilesSound'
    BY <2>3, <2>5, <1>b, <1>c DEF FilesSound
  <2>8. pc' = "upd_meta" /\ call' = call
    BY <2>1, <2>2 DEF Goto
  <2>9. QED
    BY <2>3, <2>4, <2>5, <2>6, <2>7, <2>8, <1>b
       DEF DurInv, FreshSound, LoadSound, RamSound, Steady
<1>22. CASE DelAll
  BY <1>22, <1>b, <1>10 DEF DelAll, Enter, RamSound, Steady
<1>23. CASE DelAllSlot
  <2>1. /\ pc = "delall" /\ cur \in Ids /\ InUse(meta, cur) /\ call # "Init"
        /\ pc' = pc /\ call' = call /\ UNCHANGED <<dbDir, metaFile>> /\ cur' = cur + 1
        /\ entry' = [entry EXCEPT ![cur] = Blank]
    BY <1>23 DEF DelAllSlot, CountInv, Stored
  <2>2. CASE ~InFlash(meta, cur) /\ meta' = ClearSlot(meta, cur)
             /\ UNCHANGED <<file, status, updateMetadata>>
    <3>1. \A j \in Ids : /\ InUse(meta', j) => InUse(meta, j) /\ j # cur
                         /\ InFlash(meta', j) <=> InFlash(meta, j)
      BY <2>1, <2>2, <1>19 DEF InUse, InFlash
    <3>2. QED
      BY <2>1, <2>2, <3>1, <1>19, <1>a, <1>b, <1>c, <1>d, <1>f
         DEF DurInv, FreshSound, LoadSound, RamSound, Steady
  <2>3. CASE InFlash(meta, cur) /\ \E o \in RmOutcomes(file[cur]) :
              /\ file' = [file EXCEPT ![cur] = o.content]
              /\ meta' = IF o.st = "Fail"
                         THEN ClearSlot(meta, cur)
                         ELSE [ClearSlot(meta, cur) EXCEPT !.faceMapping[cur] = {}]
              /\ status' = o.st
              /\ updateMetadata' = (updateMetadata \/ o.st # "Fail")
    <3>1. PICK o \in RmOutcomes(file[cur]) :
              /\ file' = [file EXCEPT ![cur] = o.content]
              /\ meta' = IF o.st = "Fail"
                         THEN ClearSlot(meta, cur)
                         ELSE [ClearSlot(meta, cur) EXCEPT !.faceMapping[cur] = {}]
              /\ status' = o.st
              /\ updateMetadata' = (updateMetadata \/ o.st # "Fail")
      BY <2>3
    <3>2. file[cur] \in Entries
      BY <2>1, <2>3, <1>b DEF RamSound, Steady
    <3>3. o.content = NoFile /\ o.st = "Success"
      BY <3>2, RmHonest, FaceFiles
    <3>4. \A j \in Ids : file'[j] = IF j = cur THEN NoFile ELSE file[j]
      BY <3>1, <3>3, <1>a
    <3>5. /\ meta'.version = meta.version
          /\ meta'.faceEntrySize = meta.faceEntrySize
          /\ \A j \in Ids : meta'.faceMapping[j] = IF j = cur THEN {} ELSE meta.faceMapping[j]
      BY <2>1, <3>1, <3>3, <1>a DEF ClearSlot, Metadata
    <3>6. \A j \in Ids : /\ InUse(meta', j) => InUse(meta, j) /\ j # cur
                         /\ InFlash(meta', j) => InFlash(meta, j) /\ j # cur
      BY <3>5 DEF InUse, InFlash
    <3>7. FilesSound'
      BY <2>1, <3>4, <1>b, <1>c DEF FilesSound
    <3>8. updateMetadata' /\ status' = "Success"
      BY <3>1, <3>3
    <3>9. QED
      BY <2>1, <3>4, <3>5, <3>6, <3>7, <3>8, <1>a, <1>b, <1>f
         DEF DurInv, FreshSound, LoadSound, RamSound, Steady
  <2>4. QED
    BY <1>23, <2>2, <2>3 DEF DelAllSlot
<1>24. CASE DelAllSkip
  BY <1>24, <1>b, <1>c, <1>d, <1>f DEF DelAllSkip, DurInv, FreshSound, LoadSound, RamSound, Steady
<1>25. CASE DelAllEnd
  <2> DEFINE wrong  == meta.numberFaces # 0 \/ status # "Success"
             update == status = "Success" /\ (updateMetadata \/ wrong)
             m      == IF wrong THEN MetaDefault ELSE meta
  <2>1. /\ pc = "delall" /\ status = "Success" /\ call \in {"Init", "DelAll"}
        /\ UNCHANGED <<dbDir, metaFile, file>>
        /\ \/ update /\ meta' = m /\ Goto("upd_meta") /\ UNCHANGED lock
           \/ ~update /\ DelAllReturn(m)
        /\ entry' = IF wrong THEN [id \in Ids |-> Blank] ELSE entry
    BY <1>25, <1>b DEF DelAllEnd, RamSound
  <2>2. CASE call = "Init"
    <3>1. /\ meta' = MetaDefault /\ call' = call
          /\ pc' \in {"upd_meta", "init_save"}
      BY <2>1, <2>2, <1>b DEF DelAllReturn, Goto, FreshSound
    <3>2. QED
      BY <2>1, <2>2, <3>1, <1>b, <1>c, <1>d DEF DurInv, FreshSound, LoadSound, RamSound, Steady
  <2>3. CASE call = "DelAll" /\ ~wrong
    <3>1. /\ meta' = meta /\ entry' = entry /\ call' = call
          /\ \/ pc' = "upd_meta"
             \/ pc' = "idle" /\ ~updateMetadata
      BY <2>1, <2>3 DEF DelAllReturn, Goto, Return
    <3>2. QED
      BY <2>1, <2>3, <3>1, <1>b, <1>c, <1>d DEF DurInv, FreshSound, LoadSound, RamSound, Steady
  <2>4. CASE call = "DelAll"
    <3>1. \A id \in Ids : id < cur
      BY <1>25, <1>a, Constants DEF DelAllEnd, Ids
    <3>2. UsedIds(meta) = {}
      BY <2>1, <3>1, <1>b DEF RamSound, UsedIds
    <3>3. meta.numberFaces = 0
      BY <2>1, <2>4, <3>2, FS_EmptySet DEF CountInv, Counted
    <3>4. QED
      BY <2>1, <2>3, <2>4, <3>3
  <2>5. QED
    BY <2>1, <2>2, <2>4
<1>26. CASE UpdMeta
  <2>1. PICK o \in SaveOutcomes(metaFile, MetadataImage(meta)) :
          /\ metaFile' = o.content
          /\ \/ ~o.ok /\ UNCHANGED <<meta, lock, ctl>>
             \/ /\ o.ok
                /\ \/ call = "Load" /\ InitDone(meta) /\ UNCHANGED lock
                   \/ call = "Init" /\ DelAllReturn(meta)
                   \/ call = "SaveFace" /\ ReturnLocked("Success") /\ UNCHANGED meta
                   \/ call \notin {"Load", "Init", "SaveFace"} /\ Return("Success")
                      /\ UNCHANGED meta
    BY <1>26 DEF UpdMeta
  <2>2. pc = "upd_meta" /\ UNCHANGED <<entry, dbDir, file>> /\ dbDir
    BY <1>26, <1>b DEF UpdMeta, FreshSound
  <2> DEFINE i == MetadataImage(meta)
  <2>3. /\ i \in Metadata /\ i.version = meta.version /\ i.faceEntrySize = meta.faceEntrySize
        /\ \A id \in Ids : InFlash(i, id) <=> InFlash(meta, id)
    BY <1>a, ImageLists
  <2>4. /\ o.ok => o.content = i
        /\ ~o.ok => o.content \in Torn(metaFile)
    BY <2>1, SaveHonest
  <2> HIDE DEF i
  <2>5. CASE o.ok
    <3>1. /\ metaFile' = i
          /\ \A id \in Ids : Listed(id)' => InFlash(meta, id)
      BY <2>1, <2>3, <2>4, <2>5 DEF Listed
    <3>2. CASE call = "Init"
      <4>1. meta = MetaDefault /\ meta' = MetaDefault /\ pc' = "init_save" /\ call' = call
        BY <2>1, <2>2, <2>5, <3>2, <1>b DEF FreshSound, DelAllReturn, Goto
      <4>2. \A id \in Ids : ~Listed(id)' /\ ~InFlash(i, id)
        BY <2>3, <3>1, <4>1, DefaultLists
      <4>3. FilesSound'
        BY <2>2, <3>1, <4>2 DEF FilesSound
      <4>4. QED
        BY <2>2, <4>1, <4>2, <4>3 DEF DurInv, FreshSound, LoadSound, RamSound, Steady
    <3>3. CASE call # "Init"
      <4>1. Steady
        BY <2>2, <3>3 DEF Steady
      <4>2. FilesSound'
        BY <2>2, <2>3, <3>1, <4>1, <1>b DEF FilesSound, RamSound, FaceEntrySize
      <4>3. /\ pc' = "idle" /\ call' = call
            /\ \/ call = "Load" /\ meta' = [meta EXCEPT !.faceEntrySize = FaceEntrySize]
               \/ call # "Load" /\ meta' = meta
        BY <2>1, <2>5, <3>3 DEF InitDone, InitEnd, ReturnLocked, Return
      <4>4. /\ meta'.version = meta.version /\ meta'.faceMapping = meta.faceMapping
            /\ meta'.faceEntrySize = FaceEntrySize
        BY <2>2, <4>1, <4>3, <1>a, <1>b, <1>e DEF RamSound
      <4>5. \A id \in Ids : /\ InUse(meta', id) <=> InUse(meta, id)
                            /\ InFlash(meta', id) <=> InFlash(meta, id)
        BY <4>4 DEF InUse, InFlash
      <4>6. QED
        BY <2>2, <3>1, <4>1, <4>2, <4>3, <4>4, <4>5, <1>b
           DEF DurInv, FreshSound, LoadSound, RamSound, Steady
    <3>4. QED
      BY <3>2, <3>3
  <2>6. CASE ~o.ok
    <3>1. metaFile' \in {metaFile, EmptyFile} /\ UNCHANGED <<meta, ctl>>
      BY <2>1, <2>4, <2>6 DEF Torn
    <3>2. \A id \in Ids : Listed(id)' => Listed(id)
      BY <3>1 DEF Listed
    <3>3. FilesSound'
      BY <2>2, <3>1, <3>2, <1>b DEF FilesSound
    <3>4. QED
      BY <2>2, <3>1, <3>2, <3>3, <1>b DEF DurInv, FreshSound, LoadSound, RamSound, Steady
  <2>7. QED
    BY <2>5, <2>6
<1>27. CASE Block
  BY <1>27, <1>b, <1>10 DEF Block, RamSound, Steady
<1>28. CASE Crash
  <2>1. metaFile' \in {metaFile, EmptyFile} /\ (~dbDir => metaFile' = NoFile)
    <3>1. metaFile' \in {metaFile, EmptyFile}
      BY <1>28 DEF Crash, Torn
    <3>2. ~dbDir => metaFile' = metaFile
      BY <1>28, <1>b DEF Crash, FreshSound
    <3>3. QED
      BY <3>1, <3>2, <1>b DEF FilesSound
  <2>2. \A id \in Ids : Listed(id)' => Listed(id)
    BY <2>1 DEF Listed
  <2>3. \A id \in Ids : Listed(id) => file'[id] \in Entries \cup {NoFile}
    <3>1. CASE file' = file
      BY <3>1, <1>b DEF FilesSound
    <3>2. CASE /\ pc \in {"save_face", "save_all"} /\ cur \in Ids
               /\ \E c \in Torn(file[cur]) : file' = [file EXCEPT ![cur] = c]
      <4>1. Listed(cur) => Torn(file[cur]) = {file[cur]}
        <5>1. Listed(cur) => file[cur] \in Entries
          BY <3>2, <1>b DEF RamSound, Steady
        <5>2. QED
          BY <5>1, FaceFiles
      <4>2. \A id \in Ids : Listed(id) => file'[id] = file[id]
        BY <3>2, <4>1, <1>a
      <4>3. QED
        BY <4>2, <1>b DEF FilesSound
    <3>3. file' = file \/ (/\ pc \in {"save_face", "save_all"} /\ cur \in Ids
                          /\ \E c \in Torn(file[cur]) : file' = [file EXCEPT ![cur] = c])
      BY <1>28, <1>a DEF Crash, TornFiles
    <3>4. QED
      BY <3>1, <3>2, <3>3
  <2>4. FilesSound'
    BY <1>28, <2>1, <2>2, <2>3, <1>b DEF FilesSound, Crash
  <2>5. QED
    BY <1>28, <2>4 DEF Crash, DurInv, FreshSound, LoadSound, RamSound, Steady
<1>29. CASE UNCHANGED vars
  BY <1>29, <1>b, <1>c, <1>d DEF vars, DurInv, FreshSound, LoadSound, RamSound, Steady
<1>30. CASE Invoke
  <2>1. ASSUME NEW id \in Ids, NEW n \in Names, UpdateName(id, n) PROVE DurInv'
    <3>1. entry[id] \in Entries => [entry[id] EXCEPT !.name = n] \in Entries
      BY DEF Entries
    <3>2. QED
      BY <2>1, <3>1, <1>12 DEF UpdateName
  <2>2. ASSUME NEW id \in Ids, NEW f \in Features, UpdateFace(id, f) PROVE DurInv'
    <3>1. entry[id] \in Entries => [entry[id] EXCEPT !.face = f] \in Entries
      BY DEF Entries
    <3>2. QED
      BY <2>2, <3>1, <1>12 DEF UpdateFace
  <2>3. ASSUME NEW id \in Ids, DelFaceWithID(id) PROVE DurInv'
    BY <2>3, <1>20 DEF DelFaceWithID
  <2>4. ASSUME NEW n \in Names, DelFaceWithName(n) PROVE DurInv'
    BY <2>4, <1>20 DEF DelFaceWithName
  <2>5. ASSUME NEW id \in Ids, NEW c, UpdateUnused(c, id) PROVE DurInv'
    BY <2>5, <1>b, <1>10 DEF UpdateUnused, Enter, RamSound, Steady
  <2>6. QED
    BY <1>30, <1>11, <1>16, <1>22, <1>27, <2>1, <2>2, <2>3, <2>4, <2>5 DEF Invoke
<1>31. QED
  BY <1>1, <1>2, <1>3, <1>4, <1>5, <1>6, <1>7, <1>8, <1>9, <1>14, <1>15, <1>17, <1>18,
     <1>21, <1>23, <1>24, <1>25, <1>26, <1>28, <1>29, <1>30 DEF Next, Step

(* As long as no removal reports an error, no save error is lost when a    *)
(* file is closed and no other firmware left entries of the current        *)
(* version that are smaller, every slot in use holds a whole face of the   *)
(* current feature format, through crashes, faces of another version or    *)
(* with larger entries, failing saves and reads and every sequence of      *)
(* calls.  With smaller entries it fails: a part of a face is loaded.      *)
THEOREM UsedSlotsSound ==
  ASSUME "rm" \notin Failing, "close" \notin Failing, "smaller" \notin Legacies
  PROVE  Spec => []UsedSlotsHoldFaces
<1>1. DurInv => UsedSlotsHoldFaces
  BY DefaultLists DEF DurInv, FreshSound, RamSound, Steady, UsedSlotsHoldFaces, Running, UsedIds
<1>2. Init => TypeInv /\ CountInv /\ DurInv
  BY TypeInit, CountInit, DurInit
<1>3. TypeInv /\ CountInv /\ DurInv /\ [Next]_vars => (TypeInv /\ CountInv /\ DurInv)'
  BY TypeStep, CountStep, DurStep
<1>4. QED
  BY <1>1, <1>2, <1>3, PTL DEF Spec

-----------------------------------------------------------------------------
(* Deleted faces do not return.                                            *)

\* A file the next boot would load, though its slot is not marked as stored,
\* is gone.  Unlike DurInv this survives errors that are lost when a file is
\* closed: the metadata file may then list slots for any length of time after
\* their faces were deleted.
GoneSound ==
  /\ ~dbDir => metaFile = NoFile
  /\ pc \notin {"off", "init_failed"} =>
       \A id \in Ids : Listed(id) /\ ~InFlash(meta, id) => file[id] \in {NoFile, EmptyFile}
  /\ pc = "delall" =>
       /\ call \in {"Init", "DelAll"}
       /\ call = "Init" => status = "Success"
       /\ \A id \in Ids : id < cur => ~InUse(meta, id)
  /\ pc \in {"save_all", "rm"} => call \notin {"Init", "Load"}

(* Every step keeps it, as long as no removal reports an error.            *)
LEMMA GoneStep ==
  ASSUME "rm" \notin Failing
  PROVE  TypeInv /\ CountInv /\ FreshSound /\ GoneSound /\ [Next]_vars
           => FreshSound' /\ GoneSound'
<1> SUFFICES ASSUME TypeInv, CountInv, FreshSound, GoneSound, [Next]_vars
             PROVE  FreshSound' /\ GoneSound'
  OBVIOUS
<1> USE DEF ram, flash, ctl
<1>a. /\ meta \in Metadata
      /\ metaFile \in Metadata \cup {NoFile, EmptyFile}
      /\ file \in [Ids -> Contents]
      /\ pc \in {"save_face", "rm"} => cur \in Ids
      /\ cur \in 0..MAX_FACE_DB_SIZE
      /\ updateMetadata \in BOOLEAN
  BY DEF TypeInv, TypeOK
<1>c. UNCHANGED metaFile => \A id \in Ids : Listed(id)' <=> Listed(id)
  BY DEF Listed
<1>e. ASSUME NEW m \in Metadata
      PROVE  [m EXCEPT !.faceEntrySize = FaceEntrySize].faceMapping = m.faceMapping
  BY DEF Metadata
<1>f. \A id \in Ids : /\ cur + 1 \in Int
                      /\ id < cur + 1 <=> id < cur \/ id = cur
                      /\ ~(id < 0)
  BY <1>a, Constants DEF Ids
\* The initialisation fails.
<1>g. ASSUME pc' = "init_failed", UNCHANGED <<dbDir, metaFile>>
      PROVE  FreshSound' /\ GoneSound'
  BY <1>g DEF FreshSound, GoneSound
\* A step of the initialisation or of a call that changes neither file nor
\* what is marked as stored.
<1>h. ASSUME UNCHANGED <<dbDir, metaFile, file>>, pc \notin {"off", "init_failed"},
             pc' \in {"idle", "blocked", "unlock", "save_face", "save_all", "rm", "delall",
                      "upd_meta", "load"},
             \A id \in Ids : InFlash(meta', id) <=> InFlash(meta, id),
             pc' \in {"delall", "upd_meta"} => call' # "Init",
             pc' = "delall" => call' = "DelAll" /\ \A id \in Ids : id < cur' => ~InUse(meta', id),
             pc' \in {"save_all", "rm"} => call' \notin {"Init", "Load"}
      PROVE  FreshSound' /\ GoneSound'
  BY <1>h, <1>c DEF FreshSound, GoneSound
<1>1. CASE InitMkdir
  <2>1. CASE pc' = "init_failed"
    BY <1>1, <2>1 DEF InitMkdir, Goto, InitFail, InitEnd, FreshSound, GoneSound
  <2>2. CASE dbDir' /\ pc' = "init_save"
    <3>1. \A id \in Ids : ~Listed(id)
      BY <1>1 DEF InitMkdir, GoneSound, Listed
    <3>2. UNCHANGED <<metaFile, file>>
      BY <1>1 DEF InitMkdir
    <3> QED
      BY <2>2, <3>1, <3>2, <1>c DEF FreshSound, GoneSound
  <2> QED
    BY <1>1, <2>1, <2>2 DEF InitMkdir, Goto, InitFail, InitEnd
<1>2. CASE InitReadError
  BY <1>2, <1>g DEF InitReadError, InitFail, InitEnd
<1>3. CASE InitRead
  <2>1. /\ UNCHANGED <<metaFile, file, dbDir>>
        /\ cur = 0 /\ call = "Init" /\ ~updateMetadata /\ status = "Success"
        /\ metaFile # NoFile /\ dbDir
    BY <1>3 DEF CountInv, InitRead, FreshSound
  <2>2. CASE InitFail(MetaContent)
    BY <2>1, <2>2, <1>g DEF InitFail, InitEnd
  <2>3. CASE MetaContent.version # "current" /\ meta' = MetaContent /\ Goto("delall")
    <3>1. \A id \in Ids : ~Listed(id)
      BY <2>3 DEF MetaContent, Listed
    <3> QED
      BY <2>1, <2>3, <3>1, <1>c, <1>f DEF Goto, FreshSound, GoneSound
  <2>4. CASE meta' = MetaContent /\ pc' = "load"
    <3>1. \A id \in Ids : Listed(id) => InFlash(meta', id)
      BY <2>4 DEF MetaContent, Listed
    <3> QED
      BY <2>1, <2>4, <3>1, <1>c DEF FreshSound, GoneSound
  <2> QED
    BY <1>3, <2>2, <2>3, <2>4 DEF InitRead
<1>4. CASE InitSave
  <2>1. PICK o \in SaveOutcomes(metaFile, meta) : metaFile' = o.content
    BY <1>4 DEF InitSave
  <2>2. meta = MetaDefault /\ (\A id \in Ids : ~Listed(id)) /\ dbDir
    BY <1>4 DEF InitSave, CountInv, FreshSound
  <2>3. metaFile' \in {meta, metaFile, EmptyFile}
    BY <2>1, SaveCases
  <2>4. \A id \in Ids : ~Listed(id)'
    BY <2>2, <2>3, DefaultLists DEF Listed
  <2> QED
    BY <1>4, <2>2, <2>4 DEF InitSave, InitDone, InitEnd, FreshSound, GoneSound
<1>5. CASE LoadSlot
  <2>1. \A j \in Ids : meta'.faceMapping[j] = IF j = cur THEN {"Saved", "Used"}
                                                         ELSE meta.faceMapping[j]
    BY <1>5, <1>a DEF LoadSlot, Metadata
  <2>2. \A j \in Ids : InFlash(meta', j) <=> InFlash(meta, j)
    BY <1>5, <2>1 DEF LoadSlot, InFlash
  <2> QED
    BY <1>5, <2>2, <1>h DEF LoadSlot
<1>6. CASE LoadMissing
  <2>1. \A j \in Ids : meta'.faceMapping[j] = IF j = cur THEN {} ELSE meta.faceMapping[j]
    BY <1>6, <1>a DEF LoadMissing, Metadata
  <2>2. \A j \in Ids : InFlash(meta', j) <=> InFlash(meta, j) /\ j # cur
    BY <1>6, <2>1 DEF LoadMissing, InFlash
  <2> QED
    BY <1>6, <2>2, <1>c DEF LoadMissing, FreshSound, GoneSound
<1>7. CASE LoadError
  BY <1>7, <1>g DEF LoadError, InitFail, InitEnd
<1>8. CASE LoadSkip
  BY <1>8, <1>h DEF LoadSkip
<1>9. CASE LoadEnd
  <2>1. call = "Load" /\ UNCHANGED <<metaFile, file, dbDir>> /\ pc = "load"
    BY <1>9 DEF LoadEnd, CountInv
  <2>2. CASE InitFail(meta)
    BY <2>1, <2>2, <1>g DEF InitFail, InitEnd
  <2>3. CASE Goto("upd_meta") /\ UNCHANGED meta
    BY <2>1, <2>3, <1>h DEF Goto
  <2>4. CASE InitDone(meta)
    <3>1. meta'.faceMapping = meta.faceMapping /\ pc' = "idle"
      BY <2>4, <1>a, <1>e DEF InitDone, InitEnd
    <3> QED
      BY <2>1, <3>1, <1>h DEF InFlash
  <2> QED
    BY <1>9, <2>2, <2>3, <2>4 DEF LoadEnd
<1>10. ASSUME NEW e \in Entries, AddFace(e) PROVE FreshSound' /\ GoneSound'
  <2>1. PICK id \in Ids :
          /\ ~InUse(meta, id)
          /\ Enter("AddFace", IF AUTOSAVE THEN "save_face" ELSE "unlock", id)
          /\ meta' = [meta EXCEPT !.faceMapping[id] = {"Used"}, !.numberFaces = Inc16(@)]
          /\ UNCHANGED flash
    BY <1>10 DEF AddFace
  <2>2. \A j \in Ids : meta'.faceMapping[j] = IF j = id THEN {"Used"} ELSE meta.faceMapping[j]
    BY <2>1, <1>a DEF Metadata
  <2>3. pc = "idle" /\ pc' \in {"save_face", "unlock"}
    BY <2>1 DEF Enter
  <2>4. ~InFlash(meta, id)
    BY <2>1, <2>3, UnusedEmpty DEF CountInv
  <2>5. \A j \in Ids : InFlash(meta', j) <=> InFlash(meta, j)
    BY <2>2, <2>4 DEF InFlash
  <2> QED
    BY <2>1, <2>3, <2>5, <1>h
<1>11. ASSUME NEW c, NEW id \in Ids, NEW e, UpdateSlot(c, id, e)
       PROVE  FreshSound' /\ GoneSound'
  <2>1. \A j \in Ids : meta'.faceMapping[j] \in
              {meta.faceMapping[j],
               IF IsSaved(meta, j) THEN (meta.faceMapping[j] \ {"Saved"}) \cup {"Updated"}
                                   ELSE meta.faceMapping[j]}
    BY <1>11, <1>a DEF UpdateSlot, Metadata
  <2>2. /\ pc = "idle" /\ pc' \in {"save_face", "unlock"}
        /\ UNCHANGED <<dbDir, metaFile, file>>
    BY <1>11 DEF UpdateSlot, Enter
  <2>3. \A j \in Ids : InFlash(meta', j) <=> InFlash(meta, j)
    BY <2>1 DEF InFlash, IsSaved
  <2> QED
    BY <2>2, <2>3, <1>h
<1>12. ASSUME cur \in Ids, pc \in {"save_face", "save_all"},
              NEW o \in SaveOutcomes(file[cur], entry[cur]),
              file' = [file EXCEPT ![cur] = o.content],
              meta' = IF o.ok THEN [meta EXCEPT !.faceMapping[cur] = {"Saved", "Used"}] ELSE meta,
              UNCHANGED <<dbDir, metaFile>>,
              pc' \in {"idle", "upd_meta", "save_all"}, call' = call,
              pc' \in {"upd_meta", "save_all"} => call \notin {"Init", "Load"}
       PROVE  FreshSound' /\ GoneSound'
  <2>1. CASE o.ok
    <3>1. \A j \in Ids : meta'.faceMapping[j] = IF j = cur THEN {"Saved", "Used"}
                                                           ELSE meta.faceMapping[j]
      BY <1>12, <2>1, <1>a DEF Metadata
    <3>2. \A j \in Ids : ~InFlash(meta', j) => ~InFlash(meta, j) /\ file'[j] = file[j]
      BY <1>12, <3>1, <1>a DEF InFlash
    <3> QED
      BY <1>12, <3>2, <1>c DEF FreshSound, GoneSound
  <2>2. CASE ~o.ok
    <3>1. o.content \in Torn(file[cur])
      BY <2>2, SaveFails
    <3>2. file[cur] \in {NoFile, EmptyFile} => o.content \in {NoFile, EmptyFile}
      BY <3>1 DEF Torn
    <3>3. \A j \in Ids : file[j] \in {NoFile, EmptyFile} => file'[j] \in {NoFile, EmptyFile}
      BY <1>12, <3>2, <1>a
    <3> QED
      BY <1>12, <2>2, <3>3, <1>c DEF FreshSound, GoneSound
  <2> QED
    BY <2>1, <2>2
<1>13. CASE SaveSlot
  <2>1. PICK o \in SaveOutcomes(file[cur], entry[cur]) :
          /\ file' = [file EXCEPT ![cur] = o.content]
          /\ meta' = IF o.ok THEN [meta EXCEPT !.faceMapping[cur] = {"Saved", "Used"}] ELSE meta
          /\ \/ call = "AddFace" /\ Goto("upd_meta")
             \/ \E r \in {"Failed", "Success"} : Return(r)
    BY <1>13 DEF SaveSlot
  <2>2. /\ pc = "save_face" /\ cur \in Ids /\ UNCHANGED <<dbDir, metaFile>>
        /\ pc' \in {"idle", "upd_meta"} /\ call' = call
        /\ pc' = "upd_meta" => call = "AddFace"
    BY <1>13, <2>1, <1>a DEF SaveSlot, Goto, Return
  <2> QED
    BY <2>1, <2>2, <1>12
<1>14. CASE Unlock
  BY <1>14, <1>h DEF Unlock, Return
<1>15. CASE SaveFace
  BY <1>15, <1>h DEF SaveFace, Enter
<1>16. CASE SaveAllSlot
  <2>1. /\ pc = "save_all" /\ cur \in Ids /\ pc' = "save_all" /\ call' = call
        /\ UNCHANGED <<dbDir, metaFile>> /\ call \notin {"Init", "Load"}
    BY <1>16 DEF SaveAllSlot, GoneSound
  <2>2. CASE InUse(meta, cur) /\ ~IsSaved(meta, cur)
    <3>1. PICK o \in SaveOutcomes(file[cur], entry[cur]) :
            /\ file' = [file EXCEPT ![cur] = o.content]
            /\ meta' = IF o.ok THEN [meta EXCEPT !.faceMapping[cur] = {"Saved", "Used"}]
                               ELSE meta
      BY <1>16, <2>2 DEF SaveAllSlot
    <3> QED
      BY <2>1, <3>1, <1>12
  <2>3. CASE ~(InUse(meta, cur) /\ ~IsSaved(meta, cur))
    BY <1>16, <2>1, <2>3, <1>h DEF SaveAllSlot
  <2> QED
    BY <2>2, <2>3
<1>17. CASE SaveAllEnd
  <2>1. /\ pc = "save_all" /\ UNCHANGED <<meta, file, dbDir, metaFile, call>>
        /\ pc' \in {"upd_meta", "idle"} /\ call # "Init"
    BY <1>17 DEF SaveAllEnd, Goto, ReturnLocked, GoneSound
  <2> QED
    BY <2>1, <1>h
<1>18. ASSUME NEW id \in Ids, meta' = ClearSlot(meta, id)
       PROVE  \A j \in Ids : /\ InFlash(meta', j) <=> InFlash(meta, j)
                             /\ InUse(meta', j) <=> InUse(meta, j) /\ j # id
  <2>1. \A j \in Ids : meta'.faceMapping[j] = IF j = id THEN meta.faceMapping[id] \ {"Used"}
                                                        ELSE meta.faceMapping[j]
    BY <1>18, <1>a DEF ClearSlot, Metadata
  <2> QED
    BY <2>1 DEF InFlash, InUse
<1>19. ASSUME NEW c \in {"DelFaceWithID", "DelFaceWithName"}, NEW id \in Ids, DeleteFace(c, id)
       PROVE  FreshSound' /\ GoneSound'
  <2>1. /\ pc = "idle" /\ pc' \in {"rm", "unlock"} /\ UNCHANGED <<dbDir, metaFile, file>>
        /\ meta' = ClearSlot(meta, id)
        /\ call' = c
    BY <1>19 DEF DeleteFace, Enter
  <2> QED
    BY <2>1, <1>18, <1>h
<1>20. CASE RmSlot
  <2>1. PICK o \in RmOutcomes(file[cur]) :
          /\ file' = [file EXCEPT ![cur] = o.content]
          /\ o.st # "Fail" => meta' = [meta EXCEPT !.faceMapping[cur] = @ \ {"Saved", "Updated"}]
                              /\ Goto("upd_meta")
    BY <1>20 DEF RmSlot
  <2>2. o.content = NoFile /\ o.st # "Fail"
    BY <2>1, RmHonest
  <2>3. /\ pc = "rm" /\ cur \in Ids /\ call \notin {"Init", "Load"}
        /\ UNCHANGED <<dbDir, metaFile>>
    BY <1>20, <1>a DEF RmSlot, GoneSound
  <2>4. \A j \in Ids : j # cur => meta'.faceMapping[j] = meta.faceMapping[j]
    BY <2>1, <2>2, <2>3, <1>a DEF Metadata
  <2>5. \A j \in Ids : file'[j] = IF j = cur THEN NoFile ELSE file[j]
    BY <2>1, <2>2, <1>a
  <2>6. pc' = "upd_meta" /\ call' = call
    BY <2>1, <2>2 DEF Goto
  <2> QED
    BY <2>3, <2>4, <2>5, <2>6, <1>c DEF FreshSound, GoneSound, InFlash
<1>21. CASE DelAll
  BY <1>21, <1>f, <1>h DEF DelAll, Enter
<1>22. CASE DelAllSlot
  <2>1. /\ pc = "delall" /\ cur \in Ids /\ InUse(meta, cur) /\ call = "DelAll"
        /\ pc' = pc /\ call' = call /\ UNCHANGED <<dbDir, metaFile>> /\ cur' = cur + 1
    BY <1>22 DEF DelAllSlot, CountInv, Stored, GoneSound
  <2>2. CASE meta' = ClearSlot(meta, cur) /\ UNCHANGED file
    <3>1. \A id \in Ids : id < cur' => ~InUse(meta', id)
      BY <2>1, <2>2, <1>18, <1>f DEF GoneSound
    <3> QED
      BY <2>1, <2>2, <3>1, <1>18, <1>h
  <2>3. CASE \E o \in RmOutcomes(file[cur]) :
               /\ file' = [file EXCEPT ![cur] = o.content]
               /\ meta' = IF o.st = "Fail"
                          THEN ClearSlot(meta, cur)
                          ELSE [ClearSlot(meta, cur) EXCEPT !.faceMapping[cur] = {}]
    <3>1. PICK o \in RmOutcomes(file[cur]) :
               /\ file' = [file EXCEPT ![cur] = o.content]
               /\ meta' = IF o.st = "Fail"
                          THEN ClearSlot(meta, cur)
                          ELSE [ClearSlot(meta, cur) EXCEPT !.faceMapping[cur] = {}]
      BY <2>3
    <3>2. o.content = NoFile /\ o.st # "Fail"
      BY RmHonest
    <3>3. \A j \in Ids : file'[j] = IF j = cur THEN NoFile ELSE file[j]
      BY <3>1, <3>2, <1>a
    <3>4. \A j \in Ids : meta'.faceMapping[j] = IF j = cur THEN {} ELSE meta.faceMapping[j]
      BY <2>1, <3>1, <3>2, <1>a DEF ClearSlot, Metadata
    <3>5. \A j \in Ids : /\ InUse(meta', j) => InUse(meta, j) /\ j # cur
                         /\ j # cur /\ InFlash(meta, j) => InFlash(meta', j)
      BY <3>4 DEF InUse, InFlash
    <3> QED
      BY <2>1, <3>3, <3>5, <1>c, <1>f DEF FreshSound, GoneSound
  <2> QED
    BY <1>22, <2>2, <2>3 DEF DelAllSlot
<1>23. CASE DelAllSkip
  BY <1>23, <1>c, <1>f DEF DelAllSkip, FreshSound, GoneSound
<1>24. CASE DelAllEnd
  <2> DEFINE wrong  == meta.numberFaces # 0 \/ status # "Success"
             update == status = "Success" /\ (updateMetadata \/ wrong)
             m      == IF wrong THEN MetaDefault ELSE meta
  <2>1. /\ pc = "delall" /\ call \in {"Init", "DelAll"} /\ cur \notin Ids
        /\ UNCHANGED <<dbDir, metaFile, file>>
        /\ \/ update /\ meta' = m /\ Goto("upd_meta")
           \/ ~update /\ DelAllReturn(m)
    BY <1>24 DEF DelAllEnd, GoneSound
  <2>2. CASE call = "Init"
    <3>1. /\ meta' = MetaDefault /\ call' = call
          /\ pc' \in {"upd_meta", "init_save"}
      BY <2>1, <2>2 DEF DelAllReturn, Goto, FreshSound, GoneSound
    <3> QED
      BY <2>1, <2>2, <3>1, <1>c DEF FreshSound, GoneSound
  <2>3. CASE call = "DelAll"
    <3>1. \A id \in Ids : ~InUse(meta, id)
      BY <2>1, <1>a, Constants DEF GoneSound, Ids
    <3>2. \A id \in Ids : ~InFlash(meta, id)
      BY <2>1, <2>3, <3>1, UnusedEmpty DEF CountInv
    <3>3. \A id \in Ids : ~InFlash(meta', id)
      BY <2>1, <2>3, <3>2, DefaultLists DEF DelAllReturn
    <3>4. pc' \in {"upd_meta", "idle"} /\ call' = call
      BY <2>1, <2>3 DEF DelAllReturn, Goto, Return
    <3> QED
      BY <2>1, <2>3, <3>2, <3>3, <3>4, <1>h
  <2> QED
    BY <2>1, <2>2, <2>3
<1>25. CASE UpdMeta
  <2> DEFINE i == MetadataImage(meta)
  <2>1. PICK o \in SaveOutcomes(metaFile, i) :
          /\ metaFile' = o.content
          /\ \/ ~o.ok /\ UNCHANGED <<meta, lock, ctl>>
             \/ /\ o.ok
                /\ \/ call = "Load" /\ InitDone(meta) /\ UNCHANGED lock
                   \/ call = "Init" /\ DelAllReturn(meta)
                   \/ call = "SaveFace" /\ ReturnLocked("Success") /\ UNCHANGED meta
                   \/ call \notin {"Load", "Init", "SaveFace"} /\ Return("Success")
                      /\ UNCHANGED meta
    BY <1>25 DEF UpdMeta
  <2>2. pc = "upd_meta" /\ UNCHANGED <<dbDir, file>> /\ dbDir
    BY <1>25 DEF UpdMeta, FreshSound
  <2>3. \A id \in Ids : InFlash(i, id) <=> InFlash(meta, id)
    BY <1>a, ImageLists
  <2>4. metaFile' \in {i, metaFile, EmptyFile}
    BY <2>1, SaveCases
  <2> HIDE DEF i
  <2>5. \A id \in Ids : Listed(id)' => Listed(id) \/ InFlash(meta, id)
    BY <2>3, <2>4 DEF Listed
  <2>6. CASE call = "Init"
    <3>1. meta = MetaDefault /\ meta' = MetaDefault /\ call' = call
          /\ pc' \in {"upd_meta", "init_save"} /\ updateMetadata' = updateMetadata
      BY <2>1, <2>2, <2>6 DEF FreshSound, DelAllReturn, Goto
    <3>2. \A id \in Ids : ~Listed(id)'
      BY <2>2, <2>5, <2>6, <3>1, DefaultLists DEF FreshSound
    <3> QED
      BY <2>2, <3>1, <3>2 DEF FreshSound, GoneSound
  <2>7. CASE call # "Init"
    <3>1. /\ pc' \in {"idle", "upd_meta"} /\ call' = call
          /\ meta' \in {meta, [meta EXCEPT !.faceEntrySize = FaceEntrySize]}
      BY <2>1, <2>2, <2>7 DEF InitDone, InitEnd, ReturnLocked, Return
    <3>2. meta'.faceMapping = meta.faceMapping
      BY <3>1, <1>a, <1>e
    <3> QED
      BY <2>2, <2>5, <2>7, <3>1, <3>2 DEF FreshSound, GoneSound, InFlash
  <2> QED
    BY <2>6, <2>7
<1>26. CASE Block
  BY <1>26, <1>h DEF Block
<1>27. CASE Crash
  <2>1. ~dbDir => metaFile' = NoFile
    BY <1>27 DEF Crash, FreshSound, GoneSound
  <2> QED
    BY <1>27, <2>1 DEF Crash, FreshSound, GoneSound
<1>28. CASE UNCHANGED vars
  BY <1>28, <1>c DEF vars, FreshSound, GoneSound
<1>29. CASE Invoke
  <2>1. ASSUME NEW id \in Ids, NEW n \in Names, UpdateName(id, n) PROVE FreshSound' /\ GoneSound'
    BY <2>1, <1>11 DEF UpdateName
  <2>2. ASSUME NEW id \in Ids, NEW f \in Features, UpdateFace(id, f)
        PROVE  FreshSound' /\ GoneSound'
    BY <2>2, <1>11 DEF UpdateFace
  <2>3. ASSUME NEW id \in Ids, DelFaceWithID(id) PROVE FreshSound' /\ GoneSound'
    BY <2>3, <1>19 DEF DelFaceWithID
  <2>4. ASSUME NEW n \in Names, DelFaceWithName(n) PROVE FreshSound' /\ GoneSound'
    BY <2>4, <1>19 DEF DelFaceWithName
  <2>5. ASSUME NEW id \in Ids, NEW c, UpdateUnused(c, id) PROVE FreshSound' /\ GoneSound'
    BY <2>5, <1>h DEF UpdateUnused, Enter
  <2> QED
    BY <1>29, <1>10, <1>15, <1>21, <1>26, <2>1, <2>2, <2>3, <2>4, <2>5 DEF Invoke
<1> QED
  BY <1>1, <1>2, <1>3, <1>4, <1>5, <1>6, <1>7, <1>8, <1>9, <1>13, <1>14, <1>16, <1>17,
     <1>20, <1>22, <1>23, <1>24, <1>25, <1>27, <1>28, <1>29 DEF Next, Step

(* As long as no removal reports an error, a face that was deleted never    *)
(* comes back: once the call has returned, the next boot would load nothing *)
(* into its slot, also when saves fail or their errors are lost, whatever   *)
(* firmware ran before.                                                     *)
THEOREM DeletedNeverReturns ==
  ASSUME "rm" \notin Failing
  PROVE  Spec => []DeletedStaysDeleted
<1> DEFINE DelInv == TypeInv /\ CountInv /\ FreshSound /\ GoneSound
<1>1. DelInv => DeletedStaysDeleted
  <2> SUFFICES ASSUME DelInv, pc = "idle", NEW id \in Ids, ~InUse(meta, id)
               PROVE  Durable[id] = NoFile
    BY DEF DeletedStaysDeleted
  <2>1. ~InFlash(meta, id)
    BY UnusedEmpty DEF CountInv
  <2>2. Listed(id) => file[id] \in {NoFile, EmptyFile}
    BY <2>1 DEF GoneSound
  <2> QED
    BY <2>2 DEF Durable, Listed, ReadPart, Part
<1>2. Init => DelInv
  <2>1. Init => FreshSound /\ GoneSound
    BY DEF Init, FreshSound, GoneSound
  <2>2. QED
    BY <2>1, TypeInit, CountInit
<1>3. DelInv /\ [Next]_vars => DelInv'
  BY TypeStep, CountStep, GoneStep
<1> QED
  BY <1>1, <1>2, <1>3, PTL DEF Spec

-----------------------------------------------------------------------------
(* Saved faces survive.                                                    *)

\* What is marked as saved is stored and listed, except in the slot a call
\* is about to save and until the metadata that lists it is written.
SavedSound ==
  /\ pc = "load" =>
       \A id \in Ids : id < cur /\ InUse(meta, id)
                         => IsSaved(meta, id) /\ Listed(id) /\ file[id] = entry[id]
  /\ Steady => \A id \in Ids : InUse(meta, id) =>
       /\ AUTOSAVE => IsSaved(meta, id) \/ (pc = "save_face" /\ call = "AddFace" /\ id = cur)
       /\ IsSaved(meta, id) =>
            /\ file[id] = entry[id] \/ (pc = "save_face" /\ id = cur)
            /\ Listed(id) \/ pc = "upd_meta" \/ (pc = "save_all" /\ updateMetadata)
  /\ pc = "save_face" => AUTOSAVE /\ call \in {"AddFace", "UpdateName", "UpdateFace"}
  /\ pc = "save_all" => status = "Success"

(* Every step keeps it when no save or removal fails.                      *)
LEMMA SavedStep ==
  ASSUME Failing \subseteq {"mkdir", "read"}
  PROVE  TypeInv /\ CountInv /\ DurInv /\ SavedSound /\ [Next]_vars => SavedSound'
<1> SUFFICES ASSUME TypeInv, CountInv, DurInv, SavedSound, [Next]_vars PROVE SavedSound'
  OBVIOUS
<1> USE DEF ram, flash, ctl
<1>a. /\ meta \in Metadata
      /\ file \in [Ids -> Contents]
      /\ entry \in [Ids -> RamEntries]
      /\ pc \in {"save_face", "rm"} => cur \in Ids
      /\ cur \in 0..MAX_FACE_DB_SIZE
      /\ updateMetadata \in BOOLEAN
  BY DEF TypeInv, TypeOK
<1>b. FilesSound /\ FreshSound /\ LoadSound /\ RamSound
  BY DEF DurInv
<1>c. UNCHANGED metaFile => \A id \in Ids : Listed(id)' <=> Listed(id)
  BY DEF Listed
<1>d. ASSUME NEW old, NEW new, NEW o \in SaveOutcomes(old, new)
      PROVE  o.ok = TRUE /\ o.content = new
  BY <1>d, SaveHonest
<1>e. \A id \in Ids : /\ cur + 1 \in Int
                      /\ id < cur + 1 <=> id < cur \/ id = cur
                      /\ ~(id < 0)
  BY <1>a, Constants DEF Ids
<1>f. ASSUME Steady, Steady', UNCHANGED metaFile, pc # "save_face", pc' # "save_face",
             \A id \in Ids : InUse(meta', id) =>
                /\ InUse(meta, id)
                /\ IsSaved(meta', id) <=> IsSaved(meta, id)
                /\ file'[id] = file[id] /\ entry'[id] = entry[id],
             \/ pc' = "upd_meta"
             \/ pc \notin {"upd_meta", "save_all"}
             \/ pc = "save_all" /\ ~updateMetadata
             \/ pc = "save_all" /\ pc' = "save_all" /\ updateMetadata' = updateMetadata,
             pc' = "save_all" => status' = "Success"
      PROVE  SavedSound'
  BY <1>f, <1>c DEF SavedSound, Steady
<1>1. CASE InitMkdir
  BY <1>1 DEF InitMkdir, Goto, InitFail, InitEnd, SavedSound, Steady
<1>2. CASE InitReadError
  BY <1>2 DEF InitReadError, InitFail, InitEnd, SavedSound, Steady
<1>3. CASE InitRead
  <2>1. cur = 0 /\ call = "Init"
    BY <1>3 DEF InitRead, CountInv
  <2>2. pc' \in {"delall", "load", "init_failed"} /\ cur' = 0 /\ (pc' = "delall" => call' = "Init")
    BY <1>3, <2>1 DEF InitRead, Goto, InitFail, InitEnd
  <2>3. QED
    BY <2>2, <1>e DEF SavedSound, Steady
<1>4. CASE InitSave
  <2>1. pc' = "idle" /\ meta' = [MetaDefault EXCEPT !.faceEntrySize = FaceEntrySize]
    BY <1>4 DEF InitSave, InitDone, InitEnd, CountInv
  <2>2. \A id \in Ids : ~InUse(meta', id)
    BY <2>1, DefaultLists DEF InUse, Metadata
  <2>3. QED
    BY <2>1, <2>2 DEF SavedSound, Steady
<1>5. CASE LoadSlot
  <2>1. /\ Listed(cur) /\ meta.faceEntrySize = FaceEntrySize
        /\ file[cur] \in Entries
    BY <1>5, <1>b DEF LoadSlot, LoadSound, FilesSound
  <2>0. ReadLen(file[cur], meta.faceEntrySize) = FaceEntrySize
    BY <2>1, FaceRead
  <2>2. \A j \in Ids : meta'.faceMapping[j] = IF j = cur THEN {"Saved", "Used"}
                                                         ELSE meta.faceMapping[j]
    BY <1>5, <1>a, <2>1, <2>0 DEF LoadSlot, Metadata
  <2>3. entry' = [entry EXCEPT ![cur] = file[cur]]
    <3>1. ReadPart(file[cur], FaceEntrySize) = file[cur] /\ FaceEntrySize # 0
      BY DEF ReadPart, FaceEntrySize
    <3>2. QED
      BY <1>5, <2>0, <3>1 DEF LoadSlot
  <2>4. QED
    BY <1>5, <2>1, <2>2, <2>3, <1>a, <1>c, <1>e DEF LoadSlot, SavedSound, InUse, IsSaved, Steady
<1>6. CASE LoadMissing
  <2>1. \A j \in Ids : meta'.faceMapping[j] = IF j = cur THEN {} ELSE meta.faceMapping[j]
    BY <1>6, <1>a DEF LoadMissing, Metadata
  <2>2. QED
    BY <1>6, <2>1, <1>c, <1>e DEF LoadMissing, SavedSound, InUse, IsSaved, Steady
<1>7. CASE LoadError
  BY <1>7 DEF LoadError, InitFail, InitEnd, SavedSound, Steady
<1>8. CASE LoadSkip
  BY <1>8, <1>c, <1>e DEF LoadSkip, SavedSound, InUse, IsSaved, Steady
<1>9. CASE LoadEnd
  <2>1. \A id \in Ids : id < cur
    BY <1>9, <1>a, Constants DEF LoadEnd, Ids
  <2>2. /\ pc' \in {"init_failed", "upd_meta", "idle"}
        /\ UNCHANGED <<entry, metaFile, file>>
        /\ meta' \in {meta, [meta EXCEPT !.faceEntrySize = FaceEntrySize]}
    BY <1>9 DEF LoadEnd, InitFail, InitDone, InitEnd, Goto
  <2>3. meta'.faceMapping = meta.faceMapping
    BY <2>2, <1>a DEF Metadata
  <2>4. QED
    BY <1>9, <2>1, <2>2, <2>3, <1>c DEF LoadEnd, SavedSound, InUse, IsSaved, Steady
<1>10. ASSUME NEW e \in Entries, AddFace(e) PROVE SavedSound'
  <2>1. PICK id \in Ids :
          /\ ~InUse(meta, id)
          /\ Enter("AddFace", IF AUTOSAVE THEN "save_face" ELSE "unlock", id)
          /\ entry' = [entry EXCEPT ![id] = e]
          /\ meta' = [meta EXCEPT !.faceMapping[id] = {"Used"}, !.numberFaces = Inc16(@)]
          /\ UNCHANGED flash
    BY <1>10 DEF AddFace
  <2>2. \A j \in Ids : meta'.faceMapping[j] = IF j = id THEN {"Used"} ELSE meta.faceMapping[j]
    BY <2>1, <1>a DEF Metadata
  <2>3. \A j \in Ids : j # id => entry'[j] = entry[j]
    BY <2>1, <1>a
  <2>4. QED
    BY <2>1, <2>2, <2>3, <1>c DEF Enter, SavedSound, InUse, IsSaved, Steady
<1>11. ASSUME NEW c \in {"UpdateName", "UpdateFace"}, NEW id \in Ids, NEW e, UpdateSlot(c, id, e)
       PROVE  SavedSound'
  <2>1. /\ pc = "idle" /\ UNCHANGED <<metaFile, file>> /\ call' = c /\ cur' = id
        /\ pc' = (IF AUTOSAVE THEN "save_face" ELSE "unlock")
        /\ \A j \in Ids : j # id => entry'[j] = entry[j]
    BY <1>11, <1>a DEF UpdateSlot, Enter
  <2>2. CASE AUTOSAVE
    <3>1. meta' = meta /\ pc' = "save_face"
      BY <1>11, <2>1, <2>2 DEF UpdateSlot
    <3>2. QED
      BY <2>1, <2>2, <3>1, <1>c DEF SavedSound, Steady
  <2>3. CASE ~AUTOSAVE
    <3>1. /\ pc' = "unlock"
          /\ \A j \in Ids : j # id => meta'.faceMapping[j] = meta.faceMapping[j]
          /\ ~IsSaved(meta', id)
      BY <1>11, <2>1, <2>3, <1>a DEF UpdateSlot, Metadata, IsSaved
    <3>2. QED
      BY <2>1, <2>3, <3>1, <1>c DEF SavedSound, Steady, InUse, IsSaved
  <2>4. QED
    BY <2>2, <2>3
<1>12. ASSUME NEW o \in SaveOutcomes(file[cur], entry[cur]), cur \in Ids, InUse(meta, cur),
              file' = [file EXCEPT ![cur] = o.content],
              meta' = IF o.ok THEN [meta EXCEPT !.faceMapping[cur] = {"Saved", "Used"}] ELSE meta
       PROVE  /\ file'[cur] = entry[cur]
              /\ IsSaved(meta', cur)
              /\ \A j \in Ids : /\ InUse(meta', j) <=> InUse(meta, j)
                                /\ j # cur => file'[j] = file[j]
                                             /\ (IsSaved(meta', j) <=> IsSaved(meta, j))
  <2>1. o.ok = TRUE /\ o.content = entry[cur]
    BY <1>12, <1>d
  <2>2. meta' = [meta EXCEPT !.faceMapping[cur] = {"Saved", "Used"}]
    BY <1>12, <2>1
  <2>3. \A j \in Ids : meta'.faceMapping[j] = IF j = cur THEN {"Saved", "Used"} ELSE meta.faceMapping[j]
    BY <1>12, <2>2, <1>a DEF Metadata
  <2>4. \A j \in Ids : file'[j] = IF j = cur THEN entry[cur] ELSE file[j]
    BY <1>12, <2>1, <1>a
  <2>5. QED
    BY <1>12, <2>3, <2>4 DEF InUse, IsSaved
<1>13. CASE SaveSlot
  <2>1. PICK o \in SaveOutcomes(file[cur], entry[cur]) :
          /\ file' = [file EXCEPT ![cur] = o.content]
          /\ meta' = IF o.ok THEN [meta EXCEPT !.faceMapping[cur] = {"Saved", "Used"}] ELSE meta
          /\ IF call = "AddFace" /\ o.ok
             THEN Goto("upd_meta") /\ UNCHANGED lock
             ELSE Return(IF call = "AddFace" THEN "Failed" ELSE "Success")
    BY <1>13 DEF SaveSlot
  <2>2. pc = "save_face" /\ cur \in Ids /\ InUse(meta, cur) /\ UNCHANGED <<entry, metaFile>>
    BY <1>13, <1>a DEF SaveSlot, CountInv
  <2>3. pc' = IF call = "AddFace" THEN "upd_meta" ELSE "idle"
    BY <2>1, <1>d DEF Goto, Return
  <2>4. /\ file'[cur] = entry[cur]
        /\ IsSaved(meta', cur)
        /\ \A j \in Ids : /\ InUse(meta', j) <=> InUse(meta, j)
                          /\ j # cur => file'[j] = file[j]
                                       /\ (IsSaved(meta', j) <=> IsSaved(meta, j))
    BY <2>1, <2>2, <1>12
  <2>5. call # "AddFace" => Listed(cur)
    BY <2>2 DEF SavedSound, Steady
  <2>6. QED
    BY <2>2, <2>3, <2>4, <2>5, <1>c DEF SavedSound, Steady
<1>14. CASE Unlock
  BY <1>14, <1>f DEF Unlock, Return, Steady
<1>15. CASE SaveFace
  BY <1>15, <1>f DEF SaveFace, Enter, Steady
<1>16. CASE SaveAllSlot
  <2>1. /\ pc = "save_all" /\ cur \in Ids /\ pc' = pc /\ UNCHANGED <<entry, metaFile>>
    BY <1>16 DEF SaveAllSlot
  <2>2. CASE InUse(meta, cur) /\ ~IsSaved(meta, cur)
    <3>1. PICK o \in SaveOutcomes(file[cur], entry[cur]) :
            /\ file' = [file EXCEPT ![cur] = o.content]
            /\ meta' = IF o.ok THEN [meta EXCEPT !.faceMapping[cur] = {"Saved", "Used"}]
                               ELSE meta
            /\ status' = IF o.ok THEN "Success" ELSE "Fail"
            /\ updateMetadata' = (updateMetadata \/ o.ok)
      BY <1>16, <2>2 DEF SaveAllSlot
    <3>2. status' = "Success" /\ updateMetadata'
      BY <3>1, <1>d
    <3>3. /\ file'[cur] = entry[cur]
          /\ IsSaved(meta', cur)
          /\ \A j \in Ids : /\ InUse(meta', j) <=> InUse(meta, j)
                            /\ j # cur => file'[j] = file[j]
                                         /\ (IsSaved(meta', j) <=> IsSaved(meta, j))
      BY <2>1, <2>2, <3>1, <1>12
    <3>4. QED
      BY <2>1, <3>2, <3>3 DEF SavedSound, Steady
  <2>3. CASE ~(InUse(meta, cur) /\ ~IsSaved(meta, cur))
    <3>1. UNCHANGED <<file, meta, status, updateMetadata>>
      BY <1>16, <2>3 DEF SaveAllSlot
    <3>2. QED
      BY <2>1, <3>1, <1>f DEF Steady, SavedSound
  <2>4. QED
    BY <2>2, <2>3
<1>17. CASE SaveAllEnd
  <2>1. /\ pc = "save_all" /\ UNCHANGED <<meta, entry, file, metaFile, call>>
        /\ \/ pc' = "upd_meta"
           \/ pc' = "idle" /\ ~updateMetadata
    BY <1>17 DEF SaveAllEnd, Goto, ReturnLocked, SavedSound
  <2>2. QED
    BY <2>1, <1>b, <1>f DEF Steady, RamSound
<1>18. ASSUME NEW c \in {"DelFaceWithID", "DelFaceWithName"}, NEW id \in Ids, DeleteFace(c, id)
       PROVE  SavedSound'
  <2>1. /\ pc = "idle" /\ pc' \in {"rm", "unlock"} /\ UNCHANGED <<metaFile, file>>
        /\ entry' = [entry EXCEPT ![id] = Blank]
        /\ meta' = ClearSlot(meta, id)
    BY <1>18 DEF DeleteFace, Enter
  <2>2. \A j \in Ids : meta'.faceMapping[j] = IF j = id THEN meta.faceMapping[id] \ {"Used"}
                                                        ELSE meta.faceMapping[j]
    BY <2>1, <1>a DEF ClearSlot, Metadata
  <2>3. \A j \in Ids : InUse(meta', j) => InUse(meta, j) /\ entry'[j] = entry[j]
                                           /\ (IsSaved(meta', j) <=> IsSaved(meta, j))
    BY <2>1, <2>2, <1>a DEF InUse, IsSaved
  <2>4. QED
    BY <2>1, <2>3, <1>f DEF Steady
<1>19. CASE RmSlot
  <2>1. PICK o \in RmOutcomes(file[cur]) :
          /\ file' = [file EXCEPT ![cur] = o.content]
          /\ o.st # "Fail" => meta' = [meta EXCEPT !.faceMapping[cur] = @ \ {"Saved", "Updated"}]
                              /\ Goto("upd_meta")
    BY <1>19 DEF RmSlot
  <2>2. /\ pc = "rm" /\ cur \in Ids /\ ~InUse(meta, cur) /\ call \notin {"Init", "Load"}
        /\ UNCHANGED <<entry, metaFile>>
    BY <1>19, <1>a, <1>b DEF RmSlot, CountInv, RamSound
  <2>3. meta' = [meta EXCEPT !.faceMapping[cur] = @ \ {"Saved", "Updated"}] /\ Goto("upd_meta")
    BY <2>1, RmHonest
  <2>4. \A j \in Ids : meta'.faceMapping[j] = IF j = cur THEN meta.faceMapping[cur] \ {"Saved", "Updated"}
                                                         ELSE meta.faceMapping[j]
    BY <2>2, <2>3, <1>a DEF Metadata
  <2>5. \A j \in Ids : j # cur => file'[j] = file[j]
    BY <2>1, <1>a
  <2>6. \A j \in Ids : InUse(meta', j) => InUse(meta, j) /\ file'[j] = file[j]
                                           /\ (IsSaved(meta', j) <=> IsSaved(meta, j))
    BY <2>2, <2>4, <2>5 DEF InUse, IsSaved
  <2>7. QED
    BY <2>2, <2>3, <2>6, <1>f DEF Goto, Steady
<1>20. CASE DelAll
  BY <1>20, <1>f DEF DelAll, Enter, Steady
<1>21. CASE DelAllSlot
  <2>1. /\ pc = "delall" /\ cur \in Ids /\ InUse(meta, cur) /\ call # "Init"
        /\ pc' = pc /\ call' = call /\ UNCHANGED metaFile
        /\ entry' = [entry EXCEPT ![cur] = Blank]
    BY <1>21 DEF DelAllSlot, CountInv, Stored
  <2>2. meta' = ClearSlot(meta, cur) \/ meta' = [ClearSlot(meta, cur) EXCEPT !.faceMapping[cur] = {}]
    BY <1>21 DEF DelAllSlot
  <2>3. \A j \in Ids : j # cur => file'[j] = file[j]
    BY <1>21, <1>a DEF DelAllSlot
  <2>4. /\ ~InUse(meta', cur)
        /\ \A j \in Ids : j # cur => meta'.faceMapping[j] = meta.faceMapping[j]
    <3>1. CASE meta' = ClearSlot(meta, cur)
      BY <2>1, <3>1, <1>a DEF ClearSlot, Metadata, InUse
    <3>2. CASE meta' = [ClearSlot(meta, cur) EXCEPT !.faceMapping[cur] = {}]
      BY <2>1, <3>2, <1>a DEF ClearSlot, Metadata, InUse
    <3>3. QED
      BY <2>2, <3>1, <3>2
  <2>5. \A j \in Ids : InUse(meta', j) => InUse(meta, j) /\ file'[j] = file[j] /\ entry'[j] = entry[j]
                                           /\ (IsSaved(meta', j) <=> IsSaved(meta, j))
    BY <2>1, <2>3, <2>4, <1>a DEF InUse, IsSaved
  <2>6. QED
    BY <2>1, <2>5, <1>f DEF Steady
<1>22. CASE DelAllSkip
  BY <1>22, <1>c DEF DelAllSkip, SavedSound, Steady
<1>23. CASE DelAllEnd
  <2>1. \A id \in Ids : id < cur
    BY <1>23, <1>a, Constants DEF DelAllEnd, Ids
  <2>2. \A id \in Ids : ~InUse(meta, id)
    BY <1>23, <2>1, <1>b DEF DelAllEnd, RamSound
  <2>3. meta' \in {meta, MetaDefault} /\ pc' \in {"upd_meta", "init_save", "idle"}
    BY <1>23 DEF DelAllEnd, DelAllReturn, Goto, Return
  <2>4. QED
    BY <2>2, <2>3, DefaultLists DEF SavedSound, Steady
<1>24. CASE UpdMeta
  <2>1. PICK o \in SaveOutcomes(metaFile, MetadataImage(meta)) :
          /\ metaFile' = o.content
          /\ \/ ~o.ok /\ UNCHANGED <<meta, lock, ctl>>
             \/ /\ o.ok
                /\ \/ call = "Load" /\ InitDone(meta) /\ UNCHANGED lock
                   \/ call = "Init" /\ DelAllReturn(meta)
                   \/ call = "SaveFace" /\ ReturnLocked("Success") /\ UNCHANGED meta
                   \/ call \notin {"Load", "Init", "SaveFace"} /\ Return("Success")
                      /\ UNCHANGED meta
    BY <1>24 DEF UpdMeta
  <2>2. pc = "upd_meta" /\ UNCHANGED <<entry, file>>
    BY <1>24 DEF UpdMeta
  <2> DEFINE i == MetadataImage(meta)
  <2>3. /\ i \in Metadata /\ i.version = meta.version /\ i.faceEntrySize = meta.faceEntrySize
        /\ \A id \in Ids : InFlash(i, id) <=> InFlash(meta, id)
    BY <1>a, ImageLists
  <2>4. o.ok = TRUE /\ metaFile' = i
    BY <2>1, <1>d
  <2> HIDE DEF i
  <2>5. CASE call = "Init"
    BY <2>1, <2>4, <2>5 DEF DelAllReturn, Goto, SavedSound, Steady
  <2>6. CASE call # "Init"
    <3>1. /\ pc' = "idle"
          /\ meta' \in {meta, [meta EXCEPT !.faceEntrySize = FaceEntrySize]}
      BY <2>1, <2>4, <2>6 DEF InitDone, InitEnd, ReturnLocked, Return
    <3>2. meta'.faceMapping = meta.faceMapping
      BY <3>1, <1>a DEF Metadata
    <3>3. \A id \in Ids : IsSaved(meta, id) => Listed(id)'
      <4>1. metaFile' \notin {NoFile, EmptyFile}
        BY <2>3, <2>4, FileSentinels
      <4>2. \A id \in Ids : IsSaved(meta, id) => InFlash(meta, id)
        BY DEF IsSaved, InFlash
      <4>3. /\ meta.version = "current"
            /\ \A id \in Ids : InFlash(meta, id) => meta.faceEntrySize = FaceEntrySize
        BY <2>2, <2>6, <1>b DEF RamSound, Steady
      <4>4. QED
        BY <2>3, <2>4, <4>1, <4>2, <4>3 DEF Listed, FaceEntrySize
    <3>4. QED
      BY <2>2, <2>6, <3>1, <3>2, <3>3 DEF SavedSound, Steady, InUse, IsSaved
  <2>7. QED
    BY <2>5, <2>6
<1>25. CASE Block
  BY <1>25, <1>f DEF Block, Steady
<1>26. CASE Crash
  BY <1>26 DEF Crash, SavedSound, Steady
<1>27. CASE UNCHANGED vars
  BY <1>27, <1>c DEF vars, SavedSound, Steady
<1>28. CASE Invoke
  <2>1. ASSUME NEW id \in Ids, NEW n \in Names, UpdateName(id, n) PROVE SavedSound'
    BY <2>1, <1>11 DEF UpdateName
  <2>2. ASSUME NEW id \in Ids, NEW f \in Features, UpdateFace(id, f) PROVE SavedSound'
    BY <2>2, <1>11 DEF UpdateFace
  <2>3. ASSUME NEW id \in Ids, DelFaceWithID(id) PROVE SavedSound'
    BY <2>3, <1>18 DEF DelFaceWithID
  <2>4. ASSUME NEW n \in Names, DelFaceWithName(n) PROVE SavedSound'
    BY <2>4, <1>18 DEF DelFaceWithName
  <2>5. ASSUME NEW id \in Ids, NEW c, UpdateUnused(c, id) PROVE SavedSound'
    BY <2>5, <1>f DEF UpdateUnused, Enter, Steady
  <2>6. QED
    BY <1>28, <1>10, <1>15, <1>20, <1>25, <2>1, <2>2, <2>3, <2>4, <2>5 DEF Invoke
<1>29. QED
  BY <1>1, <1>2, <1>3, <1>4, <1>5, <1>6, <1>7, <1>8, <1>9, <1>13, <1>14, <1>16, <1>17,
     <1>19, <1>21, <1>22, <1>23, <1>24, <1>26, <1>27, <1>28 DEF Next, Step

(* With flash operations of which only reads and the creation of the        *)
(* directory may fail, a face that HAL_Facedb_GetSaveStatus reports as saved *)
(* is the face the next boot loads, whenever the power is cut, with AUTOSAVE *)
(* and without, unless another firmware left faces with smaller entries.     *)
THEOREM SavedSurvives ==
  ASSUME Failing \subseteq {"mkdir", "read"}, "smaller" \notin Legacies
  PROVE  Spec => []SavedIsDurable
<1> DEFINE Inv == TypeInv /\ CountInv /\ DurInv /\ SavedSound
<1>1. Inv => SavedIsDurable
  <2> SUFFICES ASSUME Inv, pc = "idle", NEW id \in UsedIds(meta), GetSaveStatus(id)
               PROVE  Durable[id] = entry[id]
    BY DEF SavedIsDurable
  <2>1. id \in Ids /\ InUse(meta, id) /\ IsSaved(meta, id)
    BY DEF UsedIds, GetSaveStatus
  <2>2. Listed(id) /\ file[id] = entry[id] /\ entry[id] \in Entries
    BY <2>1 DEF DurInv, RamSound, SavedSound, Steady
  <2>3. QED
    BY <2>1, <2>2, FaceFiles, DurableFiles DEF DurInv, TypeInv, TypeOK, DurableWhole
<1>2. Init => Inv
  <2>1. Init => SavedSound
    BY DEF Init, SavedSound, Steady
  <2>2. QED
    BY <2>1, TypeInit, CountInit, DurInit
<1>3. Inv /\ [Next]_vars => Inv'
  BY TypeStep, CountStep, DurStep, SavedStep
<1> HIDE DEF Inv
<1>4. QED
  BY <1>1, <1>2, <1>3, PTL DEF Spec

-----------------------------------------------------------------------------
(* With AUTOSAVE, and with flash operations of which only reads and the    *)
(* creation of the directory fail, the face database implements the        *)
(* durable store of FaceStore, for every number of slots.                  *)

\* The calls that delete one face.
Deleting == call \in {"DelFaceWithID", "DelFaceWithName"}

\* What relates the phases of a call to the effects of the abstract call: the
\* files that are gone but still listed, and the one slot that is about to be
\* listed or unlisted.
RefInv ==
  /\ pc = "unlock" => call \in {"UpdateName", "UpdateFace"}
  /\ pc = "blocked" => call \notin {"Init", "Load"}
  /\ \/ pc \in {"off", "init_save", "load"}
     \/ pc \in {"delall", "upd_meta"} /\ call \in {"Init", "Load"}
     => ret = "None"
  /\ pc \in {"load", "delall", "upd_meta"} =>
       \A id \in Ids : Listed(id) /\ ~InFlash(meta, id) => file[id] = NoFile
  /\ pc = "save_face" /\ call = "AddFace" => ~InFlash(meta, cur)
  /\ pc = "save_all" => call = "SaveFace" /\ ~updateMetadata
  /\ pc = "rm" => Deleting
  /\ pc = "upd_meta" =>
       /\ Deleting \/ call \in {"Init", "Load", "AddFace", "DelAll"}
       /\ call = "AddFace" => cur \in Ids /\ InUse(meta, cur)
       /\ Deleting => cur \in Ids /\ ~InUse(meta, cur)
       /\ call = "DelAll" => \A id \in Ids : ~InUse(meta, id)
       /\ \A id \in Ids : InFlash(meta, id) => Listed(id) \/ (call = "AddFace" /\ id = cur)

\* The whole inductive invariant.
Inv == TypeInv /\ CountInv /\ DurInv /\ SavedSound

(* With AUTOSAVE the slots in flash are the ones in use, and the next boot *)
(* would load them, except in the slot a call works on.                    *)
LEMMA FlashListed ==
  ASSUME Inv, AUTOSAVE, pc \in {"idle", "save_all", "rm", "delall"},
         pc = "delall" => call # "Init", NEW id \in Ids, id # cur \/ pc # "rm"
  PROVE  /\ InUse(meta, id) => IsSaved(meta, id) /\ InFlash(meta, id)
         /\ InFlash(meta, id) => InUse(meta, id)
         /\ InFlash(meta, id) /\ (pc = "save_all" => ~updateMetadata) => Listed(id)
<1>1. InUse(meta, id) => IsSaved(meta, id)
  BY DEF Inv, SavedSound, Steady
<1>2. IsSaved(meta, id) => InFlash(meta, id)
  BY DEF IsSaved, InFlash
<1>3. InFlash(meta, id) => InUse(meta, id)
  <2>1. Counted(meta, IF pc = "rm" THEN {cur} ELSE {})
    BY DEF Inv, CountInv
  <2>2. QED
    BY <2>1, UnusedEmpty
<1>4. InUse(meta, id) /\ (pc = "save_all" => ~updateMetadata) => Listed(id)
  BY <1>1 DEF Inv, SavedSound, Steady
<1>5. QED
  BY <1>1, <1>2, <1>3, <1>4

(* The invariant that relates the phases is kept by every step.            *)
LEMMA RefStep ==
  ASSUME AUTOSAVE, Failing \subseteq {"mkdir", "read"}
  PROVE  Inv /\ RefInv /\ [Next]_vars => RefInv'
<1> SUFFICES ASSUME Inv, RefInv, [Next]_vars PROVE RefInv'
  OBVIOUS
<1> USE DEF ram, flash, ctl
<1>a. /\ meta \in Metadata
      /\ file \in [Ids -> Contents]
      /\ pc \in {"save_face", "rm"} => cur \in Ids
      /\ cur \in 0..MAX_FACE_DB_SIZE
  BY DEF Inv, TypeInv, TypeOK
<1>b. CountInv /\ FilesSound /\ FreshSound /\ LoadSound /\ RamSound /\ SavedSound
  BY DEF Inv, DurInv
<1>c. UNCHANGED metaFile => \A id \in Ids : Listed(id)' <=> Listed(id)
  BY DEF Listed
<1>d. ASSUME NEW old, NEW new, NEW o \in SaveOutcomes(old, new)
      PROVE  o.ok = TRUE /\ o.content = new
  BY <1>d, SaveHonest
<1>1. CASE InitMkdir
  BY <1>1 DEF InitMkdir, Goto, InitFail, InitEnd, RefInv
<1>2. CASE InitReadError
  BY <1>2 DEF InitReadError, InitFail, InitEnd, RefInv
<1>3. CASE InitRead
  <2>1. UNCHANGED <<metaFile, file>> /\ ret = "None" /\ call = "Init"
    BY <1>3, <1>b DEF InitRead, RefInv, CountInv
  <2>2. CASE pc' = "init_failed"
    BY <2>2 DEF RefInv
  <2>3. CASE meta' = MetaContent /\ Goto("delall") /\ MetaContent.version # "current"
    <3>1. \A id \in Ids : ~Listed(id)
      BY <2>3 DEF MetaContent, Listed
    <3>2. QED
      BY <2>1, <2>3, <3>1, <1>c DEF Goto, RefInv
  <2>4. CASE meta' = MetaContent /\ pc' = "load" /\ UNCHANGED ret
    <3>1. \A id \in Ids : Listed(id) => InFlash(meta', id)
      BY <2>4 DEF MetaContent, Listed
    <3>2. QED
      BY <2>1, <2>4, <3>1, <1>c DEF RefInv
  <2>5. QED
    BY <1>3, <2>2, <2>3, <2>4 DEF InitRead, InitFail, InitEnd
<1>4. CASE InitSave
  BY <1>4 DEF InitSave, InitDone, InitEnd, RefInv
<1>5. CASE LoadSlot
  <2>1. \A j \in Ids : j # cur => meta'.faceMapping[j] = meta.faceMapping[j]
    BY <1>5, <1>a DEF LoadSlot, Metadata
  <2>2. meta'.faceMapping[cur] = {"Saved", "Used"}
    BY <1>5, <1>a DEF LoadSlot, Metadata
  <2>3. QED
    BY <1>5, <2>1, <2>2, <1>c DEF LoadSlot, RefInv, InFlash
<1>6. CASE LoadMissing
  <2>1. \A j \in Ids : j # cur => meta'.faceMapping[j] = meta.faceMapping[j]
    BY <1>6, <1>a DEF LoadMissing, Metadata
  <2>2. QED
    BY <1>6, <2>1, <1>c DEF LoadMissing, RefInv, InFlash
<1>7. CASE LoadError
  BY <1>7 DEF LoadError, InitFail, InitEnd, RefInv
<1>8. CASE LoadSkip
  BY <1>8, <1>c DEF LoadSkip, RefInv
<1>9. CASE LoadEnd
  <2>1. CASE Goto("upd_meta") /\ UNCHANGED meta
    <3>1. call = "Load" /\ pc = "load" /\ UNCHANGED <<metaFile, file>>
      BY <1>9, <1>b DEF LoadEnd, CountInv
    <3>2. \A id \in Ids : InFlash(meta, id) => Listed(id)
      BY <3>1, <1>b DEF LoadSound
    <3>3. QED
      BY <2>1, <3>1, <3>2, <1>c DEF Goto, RefInv, Deleting
  <2>2. CASE pc' \in {"idle", "init_failed"}
    BY <2>2 DEF RefInv
  <2>3. QED
    BY <1>9, <2>1, <2>2 DEF LoadEnd, InitFail, InitDone, InitEnd
<1>10. ASSUME NEW e \in Entries, AddFace(e) PROVE RefInv'
  <2>1. PICK id \in Ids :
          /\ Enter("AddFace", "save_face", id)
          /\ meta' = [meta EXCEPT !.faceMapping[id] = {"Used"}, !.numberFaces = Inc16(@)]
    BY <1>10 DEF AddFace
  <2>2. ~InFlash(meta', id)
    BY <2>1, <1>a DEF InFlash, Metadata
  <2>3. QED
    BY <2>1, <2>2 DEF Enter, RefInv
<1>11. ASSUME NEW c \in {"UpdateName", "UpdateFace"}, NEW id \in Ids, NEW e, UpdateSlot(c, id, e)
       PROVE  RefInv'
  BY <1>11 DEF UpdateSlot, Enter, RefInv
<1>12. CASE SaveSlot
  <2>1. PICK o \in SaveOutcomes(file[cur], entry[cur]) :
          /\ meta' = IF o.ok THEN [meta EXCEPT !.faceMapping[cur] = {"Saved", "Used"}] ELSE meta
          /\ IF call = "AddFace" /\ o.ok
             THEN Goto("upd_meta") /\ UNCHANGED lock
             ELSE Return(IF call = "AddFace" THEN "Failed" ELSE "Success")
          /\ file' = [file EXCEPT ![cur] = o.content]
    BY <1>12 DEF SaveSlot
  <2>2. CASE call # "AddFace"
    BY <2>1, <2>2 DEF Return, RefInv
  <2>3. CASE call = "AddFace"
    <3>1. /\ meta' = [meta EXCEPT !.faceMapping[cur] = {"Saved", "Used"}]
          /\ Goto("upd_meta") /\ cur \in Ids /\ pc = "save_face" /\ UNCHANGED metaFile
      BY <1>12, <2>1, <2>3, <1>a, <1>d DEF SaveSlot
    <3>2. \A j \in Ids : meta'.faceMapping[j] = IF j = cur THEN {"Saved", "Used"} ELSE meta.faceMapping[j]
      BY <3>1, <1>a DEF Metadata
    <3>3. \A j \in Ids : j # cur => (InFlash(meta, j) <=> Listed(j))
      <4>1. \A j \in Ids : Listed(j) => InFlash(meta, j)
        BY <3>1, <1>b DEF RamSound, Steady
      <4>2. \A j \in Ids : j # cur /\ InUse(meta, j) => Listed(j)
        BY <3>1, <1>b DEF SavedSound, Steady
      <4>3. \A j \in Ids : InFlash(meta, j) => InUse(meta, j)
        BY <3>1, <1>b, UnusedEmpty DEF CountInv
      <4>4. QED
        BY <4>1, <4>2, <4>3
    <3>4. \A j \in Ids : /\ InFlash(meta', j) => Listed(j) \/ j = cur
                         /\ Listed(j) => InFlash(meta', j)
      BY <3>2, <3>3 DEF InFlash
    <3>5. InUse(meta', cur)
      BY <3>1, <3>2 DEF InUse
    <3>6. QED
      BY <2>3, <3>1, <3>4, <3>5, <1>c DEF RefInv, Goto, Deleting
  <2>4. QED
    BY <2>2, <2>3
<1>13. CASE Unlock
  BY <1>13 DEF Unlock, Return, RefInv
<1>14. CASE SaveFace
  BY <1>14 DEF SaveFace, Enter, RefInv
<1>15. CASE SaveAllSlot
  <2>1. pc = "save_all" /\ cur \in Ids
    BY <1>15 DEF SaveAllSlot
  <2>2. InUse(meta, cur) => IsSaved(meta, cur)
    BY <2>1, FlashListed
  <2>3. QED
    BY <1>15, <2>1, <2>2 DEF SaveAllSlot, RefInv
<1>16. CASE SaveAllEnd
  BY <1>16 DEF SaveAllEnd, ReturnLocked, RefInv
<1>17. ASSUME NEW c \in {"DelFaceWithID", "DelFaceWithName"}, NEW id \in Ids, DeleteFace(c, id)
       PROVE  RefInv'
  <2>1. pc = "idle" /\ InUse(meta, id)
    BY <1>17 DEF DeleteFace, Enter
  <2>2. InFlash(meta, id)
    BY <2>1, FlashListed
  <2>3. QED
    BY <1>17, <2>2 DEF DeleteFace, Enter, RefInv, Deleting
<1>18. CASE RmSlot
  <2>1. PICK o \in RmOutcomes(file[cur]) :
          /\ file' = [file EXCEPT ![cur] = o.content]
          /\ o.st # "Fail" => meta' = [meta EXCEPT !.faceMapping[cur] = @ \ {"Saved", "Updated"}]
                              /\ Goto("upd_meta")
    BY <1>18 DEF RmSlot
  <2>2. pc = "rm" /\ cur \in Ids /\ ~InUse(meta, cur) /\ Deleting /\ UNCHANGED metaFile
    BY <1>18, <1>a, <1>b DEF RmSlot, CountInv, RefInv
  <2>3. o.content = NoFile /\ o.st # "Fail"
    BY <2>1, RmHonest
  <2>4. meta' = [meta EXCEPT !.faceMapping[cur] = @ \ {"Saved", "Updated"}] /\ Goto("upd_meta")
    BY <2>1, <2>3
  <2>5. \A j \in Ids : meta'.faceMapping[j] =
          IF j = cur THEN meta.faceMapping[cur] \ {"Saved", "Updated"} ELSE meta.faceMapping[j]
    BY <2>2, <2>4, <1>a DEF Metadata
  <2>6. file'[cur] = NoFile
    BY <2>1, <2>2, <2>3, <1>a
  <2>7. \A j \in Ids : Listed(j) => InFlash(meta, j)
    BY <2>2, <1>b DEF RamSound, Steady
  <2>8. \A j \in Ids : j # cur /\ InFlash(meta, j) => Listed(j)
    BY <2>2, FlashListed
  <2>9. /\ \A j \in Ids : InFlash(meta', j) => Listed(j)
        /\ \A j \in Ids : Listed(j) /\ ~InFlash(meta', j) => j = cur
        /\ ~InUse(meta', cur)
    BY <2>2, <2>5, <2>7, <2>8 DEF InFlash, InUse
  <2>10. QED
    BY <2>2, <2>4, <2>6, <2>9, <1>c DEF RefInv, Goto, Deleting
<1>19. CASE DelAll
  <2>1. \A id \in Ids : Listed(id) => InFlash(meta, id)
    BY <1>19, <1>b DEF DelAll, Enter, RamSound, Steady
  <2>2. QED
    BY <1>19, <2>1, <1>c DEF DelAll, Enter, RefInv
<1>20. CASE DelAllSlot
  <2>1. /\ pc = "delall" /\ cur \in Ids /\ InUse(meta, cur) /\ call # "Init"
        /\ pc' = pc /\ call' = call /\ UNCHANGED <<metaFile, ret>>
    BY <1>20, <1>b DEF DelAllSlot, CountInv, Stored
  <2>2. InFlash(meta, cur)
    BY <2>1, FlashListed
  <2>3. PICK o \in RmOutcomes(file[cur]) :
          /\ file' = [file EXCEPT ![cur] = o.content]
          /\ meta' = IF o.st = "Fail"
                     THEN ClearSlot(meta, cur)
                     ELSE [ClearSlot(meta, cur) EXCEPT !.faceMapping[cur] = {}]
    BY <1>20, <2>2 DEF DelAllSlot
  <2>4. \A j \in Ids : file'[j] = IF j = cur THEN NoFile ELSE file[j]
    BY <2>1, <2>3, RmHonest, <1>a
  <2>5. meta' = [ClearSlot(meta, cur) EXCEPT !.faceMapping[cur] = {}]
    BY <2>3, RmHonest
  <2>6. \A j \in Ids : j # cur => meta'.faceMapping[j] = meta.faceMapping[j]
    BY <2>1, <2>5, <1>a DEF ClearSlot, Metadata
  <2>7. QED
    BY <2>1, <2>4, <2>6, <1>c DEF RefInv, InFlash
<1>21. CASE DelAllSkip
  BY <1>21, <1>c DEF DelAllSkip, RefInv
<1>22. CASE DelAllEnd
  <2>1. /\ pc = "delall" /\ status = "Success" /\ UNCHANGED <<metaFile, file>>
        /\ \A id \in Ids : id < cur
    BY <1>22, <1>a, <1>b, Constants DEF DelAllEnd, RamSound, Ids
  <2>2. \A id \in Ids : ~InUse(meta, id)
    BY <2>1, <1>b DEF RamSound
  <2>3. CASE call = "Init"
    <3>1. /\ meta' = MetaDefault /\ call' = call /\ ret' = ret
          /\ pc' \in {"upd_meta", "init_save"}
      BY <1>22, <2>1, <2>3, <1>b DEF DelAllEnd, DelAllReturn, Goto, FreshSound
    <3>2. QED
      BY <2>1, <2>3, <3>1, <1>b, <1>c, DefaultLists DEF RefInv, FreshSound, Deleting
  <2>4. CASE call = "DelAll"
    <3>1. \A id \in Ids : ~InFlash(meta, id)
      BY <2>1, <2>2, <2>4, <1>b, UnusedEmpty DEF CountInv
    <3>2. meta' \in {meta, MetaDefault} /\ call' = call /\ pc' \in {"upd_meta", "idle"}
      BY <1>22, <2>4 DEF DelAllEnd, DelAllReturn, Goto, Return
    <3>3. \A id \in Ids : Listed(id) => file[id] = NoFile
      BY <2>1, <3>1 DEF RefInv
    <3>4. QED
      BY <2>1, <2>2, <2>4, <3>1, <3>2, <3>3, <1>c, DefaultLists DEF RefInv, Deleting
  <2>5. QED
    BY <2>1, <2>3, <2>4, <1>b DEF RamSound
<1>23. CASE UpdMeta
  <2>1. PICK o \in SaveOutcomes(metaFile, MetadataImage(meta)) :
          \/ ~o.ok
          \/ InitDone(meta)
          \/ call = "Init" /\ DelAllReturn(meta)
          \/ ReturnLocked("Success")
          \/ Return("Success")
    BY <1>23 DEF UpdMeta
  <2>2. pc' = "idle" \/ (pc' = "init_save" /\ ret' = ret /\ call = "Init")
    BY <2>1, <1>d DEF InitDone, InitEnd, DelAllReturn, Goto, ReturnLocked, Return
  <2>3. QED
    BY <1>23, <2>2 DEF RefInv, UpdMeta
<1>24. CASE Block
  BY <1>24, FaceDbAssumption DEF Block, RefInv, AllCalls
<1>25. CASE Crash
  BY <1>25 DEF Crash, RefInv
<1>26. CASE UNCHANGED vars
  BY <1>26, <1>c DEF vars, RefInv, Deleting
<1>27. CASE Invoke
  <2>1. ASSUME NEW id \in Ids, NEW n \in Names, UpdateName(id, n) PROVE RefInv'
    BY <2>1, <1>11 DEF UpdateName
  <2>2. ASSUME NEW id \in Ids, NEW f \in Features, UpdateFace(id, f) PROVE RefInv'
    BY <2>2, <1>11 DEF UpdateFace
  <2>3. ASSUME NEW id \in Ids, DelFaceWithID(id) PROVE RefInv'
    BY <2>3, <1>17 DEF DelFaceWithID
  <2>4. ASSUME NEW n \in Names, DelFaceWithName(n) PROVE RefInv'
    BY <2>4, <1>17 DEF DelFaceWithName
  <2>5. ASSUME NEW id \in Ids, NEW c \in {"UpdateName", "UpdateFace"}, UpdateUnused(c, id)
        PROVE  RefInv'
    BY <2>5, <1>c DEF UpdateUnused, Enter, RefInv
  <2>6. QED
    BY <1>27, <1>10, <1>14, <1>19, <1>24, <2>1, <2>2, <2>3, <2>4, <2>5 DEF Invoke
<1>28. QED
  BY <1>1, <1>2, <1>3, <1>4, <1>5, <1>6, <1>7, <1>8, <1>9, <1>12, <1>13, <1>15, <1>16,
     <1>18, <1>20, <1>21, <1>22, <1>23, <1>25, <1>26, <1>27 DEF Next, Step

-----------------------------------------------------------------------------
(* The steps of the abstract store.                                        *)

(* Every step of the database is a step of the store, or changes nothing   *)
(* that the store shows.                                                   *)
LEMMA StepRefines ==
  ASSUME AUTOSAVE, Failing \subseteq {"mkdir", "read"}
  PROVE  Inv /\ Inv' /\ RefInv /\ [Next]_vars => [Store!Next]_(Store!vars)
<1> SUFFICES ASSUME Inv, Inv', RefInv, [Next]_vars PROVE [Store!Next]_(Store!vars)
  OBVIOUS
<1> USE DEF ram, flash, ctl
<1> DEFINE None == [name |-> "none"]
           At(id) == IF Listed(id) /\ file[id] # EmptyFile THEN file[id] ELSE NoFile
<1>a. /\ meta \in Metadata
      /\ file \in [Ids -> Contents]
      /\ entry \in [Ids -> RamEntries]
      /\ pc \in {"save_face", "rm"} => cur \in Ids
      /\ cur \in 0..MAX_FACE_DB_SIZE
  BY DEF Inv, TypeInv, TypeOK
<1>b. CountInv /\ FilesSound /\ FreshSound /\ LoadSound /\ RamSound /\ SavedSound
  BY DEF Inv, DurInv
<1>c. UNCHANGED metaFile => \A id \in Ids : Listed(id)' <=> Listed(id)
  BY DEF Listed
<1>d. ASSUME NEW old, NEW new, NEW o \in SaveOutcomes(old, new)
      PROVE  o.ok = TRUE /\ o.content = new
  BY <1>d, SaveHonest
<1>e. Durable = [id \in Ids |-> At(id)] /\ Durable' = [id \in Ids |-> At(id)']
  <2>1. DurableWhole
    BY <1>b, DurableFiles DEF Inv, TypeInv, TypeOK
  <2>2. (metaFile \in Metadata \cup {NoFile, EmptyFile})' /\ FilesSound' => DurableWhole'
    BY DurableFiles, PTL
  <2>3. DurableWhole'
    BY <2>2 DEF Inv, DurInv, TypeInv, TypeOK
  <2>4. QED
    BY <2>1, <2>3 DEF DurableWhole
<1>f. UNCHANGED <<metaFile, file>> => UNCHANGED Durable
  BY DEF Durable
<1>g. ASSUME UNCHANGED Durable, AbstractOp = None, AbstractOp' = None, ret = "None",
             ret' \in {"Success", "Failed"}
      PROVE  Store!Next
  BY <1>g DEF Store!Next, Store!Boot, Store!NoOp
<1>h. ASSUME UNCHANGED <<Durable, AbstractOp, ret>>
      PROVE  UNCHANGED Store!vars
  BY <1>h DEF Store!vars
<1>1. CASE InitMkdir
  <2>1. /\ UNCHANGED <<metaFile, file>> /\ AbstractOp = None /\ AbstractOp' = None /\ ret = "None"
        /\ \/ ret' = ret
           \/ ret' = "Failed"
    BY <1>1 DEF InitMkdir, Goto, InitFail, InitEnd, AbstractOp, RefInv
  <2>2. QED
    BY <2>1, <1>f, <1>g, <1>h
<1>2. CASE InitReadError
  <2>1. /\ UNCHANGED <<metaFile, file>> /\ AbstractOp = None /\ AbstractOp' = None /\ ret = "None"
        /\ ret' = "Failed"
    BY <1>2 DEF InitReadError, InitFail, InitEnd, AbstractOp, RefInv
  <2>2. QED
    BY <2>1, <1>f, <1>g
<1>3. CASE InitRead
  <2>1. UNCHANGED <<metaFile, file>> /\ AbstractOp = None /\ ret = "None" /\ call = "Init"
    BY <1>3, <1>b DEF InitRead, AbstractOp, RefInv, CountInv
  <2>2. AbstractOp' = None /\ (ret' = ret \/ ret' = "Failed")
    BY <1>3, <2>1 DEF InitRead, Goto, InitFail, InitEnd, AbstractOp
  <2>3. QED
    BY <2>1, <2>2, <1>f, <1>g, <1>h
<1>4. CASE InitSave
  <2>1. AbstractOp = None /\ AbstractOp' = None /\ ret = "None" /\ ret' = "Success"
    BY <1>4 DEF InitSave, InitDone, InitEnd, AbstractOp, RefInv
  <2>2. meta = MetaDefault /\ (\A id \in Ids : ~Listed(id)) /\ metaFile' = meta
    BY <1>4, <1>b, <1>d DEF InitSave, CountInv, FreshSound
  <2>3. \A id \in Ids : ~Listed(id)'
    BY <2>2, DefaultLists DEF Listed
  <2>4. UNCHANGED Durable
    BY <2>2, <2>3, <1>e
  <2>5. QED
    BY <2>1, <2>4, <1>g
<1>5. CASE LoadSlot \/ LoadMissing \/ LoadSkip
  <2>1. UNCHANGED <<metaFile, file, ret>> /\ AbstractOp = None /\ AbstractOp' = None
    BY <1>5 DEF LoadSlot, LoadMissing, LoadSkip, AbstractOp
  <2>2. QED
    BY <2>1, <1>f, <1>h
<1>6. CASE LoadError \/ LoadEnd
  <2>1. pc = "load" /\ call = "Load" /\ UNCHANGED <<metaFile, file>> /\ ret = "None"
    BY <1>6, <1>b DEF LoadError, LoadEnd, CountInv, RefInv
  <2>2. call' = call /\ (ret' = ret \/ ret' \in {"Success", "Failed"})
    BY <1>6 DEF LoadError, LoadEnd, InitFail, InitDone, InitEnd, Goto
  <2>3. AbstractOp = None /\ AbstractOp' = None
    BY <2>1, <2>2 DEF AbstractOp
  <2>4. QED
    BY <2>1, <2>2, <2>3, <1>f, <1>g, <1>h
<1>7. ASSUME UNCHANGED <<metaFile, file>>, pc = "idle", ret' = "None", AbstractOp' \in Store!Ops,
             AbstractOp'.name # "UpdateUnused"
      PROVE  Store!Next
  <2>1. AbstractOp = None
    BY <1>7 DEF AbstractOp
  <2>2. QED
    BY <1>7, <2>1, <1>f DEF Store!Next, Store!Begin, Store!NoOp, Store!Skips
<1>8. ASSUME NEW c \in {"AddFace", "UpdateName", "UpdateFace"}, NEW id \in Ids,
             Enter(c, "save_face", id), entry'[id] \in Entries, UNCHANGED flash
      PROVE  Store!Next
  <2>1. AbstractOp' = [name |-> c, slot |-> id, want |-> entry'[id]]
    BY <1>8 DEF Enter, AbstractOp
  <2>2. AbstractOp' \in Store!Ops /\ AbstractOp'.name # "UpdateUnused"
    BY <2>1, <1>8 DEF Store!Ops, Store!Stores
  <2>3. QED
    BY <1>8, <2>2, <1>7 DEF Enter
<1>9. ASSUME NEW e \in Entries, AddFace(e) PROVE Store!Next
  <2>1. PICK id \in Ids :
          /\ Enter("AddFace", "save_face", id)
          /\ entry' = [entry EXCEPT ![id] = e]
          /\ UNCHANGED flash
    BY <1>9 DEF AddFace
  <2>2. entry'[id] \in Entries
    BY <2>1, <1>a
  <2>3. QED
    BY <2>1, <2>2, <1>8
<1>10. ASSUME NEW c \in {"UpdateName", "UpdateFace"}, NEW id \in Ids, NEW e, UpdateSlot(c, id, e)
       PROVE  Store!Next
  <2>1. Enter(c, "save_face", id) /\ UNCHANGED flash /\ InUse(meta, id) /\ meta' = meta
    BY <1>10 DEF UpdateSlot
  <2>2. Steady'
    BY <2>1 DEF Enter, Steady
  <2>3. entry'[id] \in Entries
    BY <2>1, <2>2 DEF Inv, DurInv, RamSound
  <2>4. QED
    BY <2>1, <2>3, <1>8
<1>11. CASE SaveSlot
  <2>1. PICK o \in SaveOutcomes(file[cur], entry[cur]) :
          /\ meta' = IF o.ok THEN [meta EXCEPT !.faceMapping[cur] = {"Saved", "Used"}] ELSE meta
          /\ IF call = "AddFace" /\ o.ok
             THEN Goto("upd_meta") /\ UNCHANGED lock
             ELSE Return(IF call = "AddFace" THEN "Failed" ELSE "Success")
          /\ file' = [file EXCEPT ![cur] = o.content]
    BY <1>11 DEF SaveSlot
  <2>2. /\ pc = "save_face" /\ cur \in Ids /\ InUse(meta, cur) /\ UNCHANGED <<metaFile, entry>>
        /\ call \in {"AddFace", "UpdateName", "UpdateFace"}
    BY <1>11, <1>a, <1>b DEF SaveSlot, CountInv, SavedSound
  <2>3. \A j \in Ids : file'[j] = IF j = cur THEN entry[cur] ELSE file[j]
    BY <2>1, <2>2, <1>a, <1>d
  <2>4. entry[cur] \in Entries /\ entry[cur] # EmptyFile
    BY <2>2, <1>b, FaceFiles DEF RamSound, Steady
  <2>5. AbstractOp = [name |-> call, slot |-> cur, want |-> entry[cur]]
    BY <2>2 DEF AbstractOp
  <2>6. CASE call = "AddFace"
    <3>1. Goto("upd_meta")
      BY <2>1, <2>6, <1>d
    <3>2. ~Listed(cur)
      BY <2>2, <2>6, <1>b DEF RefInv, RamSound, Steady
    <3>3. UNCHANGED Durable
      BY <2>2, <2>3, <3>2, <1>c, <1>e
    <3>4. UNCHANGED <<AbstractOp, ret>>
      BY <2>2, <2>5, <2>6, <3>1 DEF Goto, AbstractOp
    <3>5. QED
      BY <3>3, <3>4, <1>h
  <2>7. CASE call # "AddFace"
    <3>1. Return("Success")
      BY <2>1, <2>7
    <3>2. Listed(cur)
      BY <2>2, <2>7, <1>b DEF SavedSound, Steady
    <3>3. Durable' = [Durable EXCEPT ![cur] = entry[cur]]
      <4>1. \A j \in Ids : At(j)' = IF j = cur THEN entry[cur] ELSE At(j)
        BY <2>2, <2>3, <2>4, <3>2, <1>c
      <4> HIDE DEF At
      <4>2. QED
        BY <4>1, <1>e
    <3>4. AbstractOp' = None /\ ret' = "Success"
      BY <3>1 DEF Return, AbstractOp
    <3>5. QED
      BY <2>2, <2>5, <3>3, <3>4 DEF Store!Next, Store!Succeed, Store!Effect, Store!Stores,
         Store!NoOp
  <2>8. QED
    BY <2>6, <2>7
<1>12. CASE SaveFace
  <2>1. AbstractOp' = [name |-> "SaveFace"] /\ pc = "idle" /\ ret' = "None" /\ UNCHANGED <<metaFile, file>>
    BY <1>12 DEF SaveFace, Enter, AbstractOp
  <2>2. QED
    BY <2>1, <1>7 DEF Store!Ops, Store!Others
<1>13. CASE SaveAllSlot \/ SaveAllEnd
  <2>1. pc = "save_all" /\ call = "SaveFace" /\ ~updateMetadata /\ status = "Success"
    BY <1>13, <1>b DEF SaveAllSlot, SaveAllEnd, RefInv, SavedSound
  <2>2. AbstractOp = [name |-> "SaveFace"]
    BY <2>1 DEF AbstractOp
  <2>3. CASE SaveAllSlot
    <3>1. InUse(meta, cur) => IsSaved(meta, cur)
      BY <2>1, <2>3, FlashListed DEF SaveAllSlot
    <3>2. UNCHANGED <<metaFile, file, pc, call, ret>>
      BY <2>3, <3>1 DEF SaveAllSlot
    <3>3. AbstractOp' = [name |-> "SaveFace"]
      BY <2>1, <3>2 DEF AbstractOp
    <3>4. QED
      BY <2>2, <3>2, <3>3, <1>f, <1>h
  <2>4. CASE SaveAllEnd
    <3>1. UNCHANGED <<metaFile, file>> /\ pc' = "idle" /\ ret' = "Success"
      BY <2>1, <2>4 DEF SaveAllEnd, ReturnLocked
    <3>2. AbstractOp' = None
      BY <3>1 DEF AbstractOp
    <3>3. QED
      BY <2>2, <3>1, <3>2, <1>f DEF Store!Next, Store!Succeed, Store!Effect, Store!Others,
         Store!NoOp
  <2>5. QED
    BY <1>13, <2>3, <2>4
<1>14. ASSUME NEW c \in {"DelFaceWithID", "DelFaceWithName"}, NEW id \in Ids, DeleteFace(c, id)
       PROVE  Store!Next
  <2>1. pc = "idle" /\ InUse(meta, id)
    BY <1>14 DEF DeleteFace, Enter
  <2>2. InFlash(meta, id)
    BY <2>1, FlashListed
  <2>3. UNCHANGED <<metaFile, file>> /\ ret' = "None" /\ AbstractOp' = [name |-> c, slot |-> id]
    BY <1>14, <2>2 DEF DeleteFace, Enter, AbstractOp
  <2>4. AbstractOp' \in Store!Ops /\ AbstractOp'.name # "UpdateUnused"
    BY <2>3 DEF Store!Ops, Store!Deletes
  <2>5. QED
    BY <2>1, <2>3, <2>4, <1>7
<1>15. CASE RmSlot
  <2>1. PICK o \in RmOutcomes(file[cur]) :
          /\ file' = [file EXCEPT ![cur] = o.content]
          /\ o.st # "Fail" => Goto("upd_meta")
    BY <1>15 DEF RmSlot
  <2>2. pc = "rm" /\ cur \in Ids /\ Deleting /\ UNCHANGED metaFile
    BY <1>15, <1>a DEF RmSlot, RefInv
  <2>3. Goto("upd_meta") /\ \A j \in Ids : file'[j] = IF j = cur THEN NoFile ELSE file[j]
    BY <2>1, <2>2, RmHonest, <1>a
  <2>4. AbstractOp = [name |-> call, slot |-> cur] /\ UNCHANGED <<AbstractOp, ret>>
    BY <2>2, <2>3 DEF AbstractOp, Goto, Deleting
  <2>5. Durable' = [Durable EXCEPT ![cur] = NoFile]
    <3>1. \A j \in Ids : At(j)' = IF j = cur THEN NoFile ELSE At(j)
      BY <2>2, <2>3, <1>c
    <3> HIDE DEF At
    <3>2. QED
      BY <3>1, <1>e
  <2>6. QED
    BY <2>2, <2>4, <2>5 DEF Store!Next, Store!Work, Store!PartialEffect, Store!Effect,
       Store!Deletes, Deleting
<1>16. CASE DelAll
  <2>1. AbstractOp' = [name |-> "DelAll"] /\ pc = "idle" /\ ret' = "None" /\ UNCHANGED <<metaFile, file>>
    BY <1>16 DEF DelAll, Enter, AbstractOp
  <2>2. QED
    BY <2>1, <1>7 DEF Store!Ops
<1>17. CASE DelAllSlot
  <2>1. /\ pc = "delall" /\ cur \in Ids /\ InUse(meta, cur) /\ call # "Init"
        /\ pc' = pc /\ call' = call /\ UNCHANGED <<metaFile, ret>>
    BY <1>17, <1>b DEF DelAllSlot, CountInv, Stored
  <2>2. call = "DelAll" /\ AbstractOp = [name |-> "DelAll"] /\ AbstractOp' = [name |-> "DelAll"]
    BY <2>1, <1>b DEF RamSound, AbstractOp
  <2>3. InFlash(meta, cur)
    BY <2>1, FlashListed
  <2>4. PICK o \in RmOutcomes(file[cur]) : file' = [file EXCEPT ![cur] = o.content]
    BY <1>17, <2>3 DEF DelAllSlot
  <2>5. \A j \in Ids : file'[j] = IF j = cur THEN NoFile ELSE file[j]
    BY <2>1, <2>4, RmHonest, <1>a
  <2>6. Durable' = [s \in Ids |-> IF s \in {cur} THEN NoFile ELSE Durable[s]]
    <3>1. \A j \in Ids : At(j)' = IF j = cur THEN NoFile ELSE At(j)
      BY <2>1, <2>5, <1>c
    <3> HIDE DEF At
    <3>2. QED
      BY <3>1, <1>e
  <2>7. {cur} \in SUBSET Ids
    BY <2>1
  <2>8. QED
    BY <2>1, <2>2, <2>6, <2>7 DEF Store!Next, Store!Work, Store!PartialEffect
<1>18. CASE DelAllSkip
  <2>1. UNCHANGED <<metaFile, file, ret>> /\ UNCHANGED AbstractOp
    BY <1>18, <1>b DEF DelAllSkip, AbstractOp, RamSound
  <2>2. QED
    BY <2>1, <1>f, <1>h
<1>19. CASE DelAllEnd
  <2>1. /\ pc = "delall" /\ status = "Success" /\ UNCHANGED <<metaFile, file>>
        /\ call \in {"Init", "DelAll"}
        /\ \A id \in Ids : id < cur
    BY <1>19, <1>a, <1>b, Constants DEF DelAllEnd, RamSound, Ids
  <2>2. CASE call = "Init"
    <3>1. call' = call /\ ret' = ret
      BY <1>19, <2>1, <2>2 DEF DelAllEnd, DelAllReturn, Goto
    <3>2. AbstractOp = None /\ AbstractOp' = None
      BY <2>2, <3>1 DEF AbstractOp
    <3>3. QED
      BY <2>1, <3>1, <3>2, <1>f, <1>h
  <2>3. CASE call = "DelAll"
    <3>1. AbstractOp = [name |-> "DelAll"]
      BY <2>1, <2>3 DEF AbstractOp
    <3>2. CASE Goto("upd_meta")
      <4>1. AbstractOp' = [name |-> "DelAll"] /\ ret' = ret
        BY <2>3, <3>2 DEF AbstractOp, Goto
      <4>2. QED
        BY <2>1, <3>1, <4>1, <1>f, <1>h
    <3>3. CASE ~updateMetadata /\ Return("Success")
      <4>1. \A id \in Ids : ~InUse(meta, id)
        BY <2>1, <1>b DEF RamSound
      <4>2. \A id \in Ids : ~InFlash(meta, id)
        BY <2>1, <2>3, <4>1, <1>b, UnusedEmpty DEF CountInv
      <4>3. \A id \in Ids : ~Listed(id)
        BY <2>1, <2>3, <3>3, <4>2, <1>b DEF RamSound, Steady
      <4>4. Durable' = [s \in Ids |-> NoFile]
        BY <2>1, <4>3, <1>c, <1>e
      <4>5. AbstractOp' = None /\ ret' = "Success"
        BY <3>3 DEF Return, AbstractOp
      <4>6. QED
        BY <3>1, <4>4, <4>5 DEF Store!Next, Store!Succeed, Store!Effect, Store!NoOp
    <3>4. Goto("upd_meta") \/ (~updateMetadata /\ Return("Success"))
      BY <1>19, <2>1, <2>3 DEF DelAllEnd, DelAllReturn
    <3>5. QED
      BY <3>2, <3>3, <3>4
  <2>4. QED
    BY <2>1, <2>2, <2>3
<1>20. CASE UpdMeta
  <2>1. PICK o \in SaveOutcomes(metaFile, MetadataImage(meta)) :
          /\ metaFile' = o.content
          /\ \/ ~o.ok /\ UNCHANGED <<meta, lock, ctl>>
             \/ /\ o.ok
                /\ \/ call = "Load" /\ InitDone(meta) /\ UNCHANGED lock
                   \/ call = "Init" /\ DelAllReturn(meta)
                   \/ call = "SaveFace" /\ ReturnLocked("Success") /\ UNCHANGED meta
                   \/ call \notin {"Load", "Init", "SaveFace"} /\ Return("Success")
                      /\ UNCHANGED meta
    BY <1>20 DEF UpdMeta
  <2>2. pc = "upd_meta" /\ UNCHANGED <<entry, file>>
    BY <1>20 DEF UpdMeta
  <2> DEFINE i == MetadataImage(meta)
  <2>3. /\ i \in Metadata /\ i.version = meta.version /\ i.faceEntrySize = meta.faceEntrySize
        /\ \A id \in Ids : InFlash(i, id) <=> InFlash(meta, id)
    BY <1>a, ImageLists
  <2>4. o.ok = TRUE /\ metaFile' = i /\ metaFile' \notin {NoFile, EmptyFile}
    <3>1. o.ok = TRUE /\ metaFile' = i
      BY <2>1, <1>d
    <3> HIDE DEF i
    <3>2. QED
      BY <2>3, <3>1, FileSentinels
  <2> HIDE DEF i
  <2>5. \A id \in Ids : Listed(id)' => InFlash(meta, id)
    BY <2>3, <2>4 DEF Listed
  <2>6. CASE call = "Init"
    <3>1. call' = call /\ ret' = ret
      BY <2>1, <2>4, <2>6 DEF DelAllReturn, Goto
    <3>2. AbstractOp = None /\ AbstractOp' = None
      BY <2>6, <3>1 DEF AbstractOp
    <3>3. \A id \in Ids : ~Listed(id) /\ ~Listed(id)'
      BY <2>2, <2>5, <2>6, <1>b, DefaultLists DEF FreshSound
    <3>4. UNCHANGED Durable
      BY <3>3, <1>e
    <3>5. QED
      BY <3>1, <3>2, <3>4, <1>h
  <2>7. CASE call # "Init"
    <3>1. \A id \in Ids : Listed(id)' <=> InFlash(meta, id)
      <4>1. /\ meta.version = "current"
            /\ \A id \in Ids : InFlash(meta, id) => meta.faceEntrySize = FaceEntrySize
        BY <2>2, <2>7, <1>b DEF RamSound, Steady
      <4>2. QED
        BY <2>3, <2>4, <2>5, <4>1 DEF Listed, FaceEntrySize
    <3>2. \A id \in Ids : ~(call = "AddFace" /\ id = cur) => At(id)' = At(id)
      BY <2>2, <2>7, <3>1 DEF RefInv
    <3>3. pc' = "idle" /\ ret' = "Success"
      BY <2>1, <2>4, <2>7 DEF InitDone, InitEnd, ReturnLocked, Return
    <3>4. AbstractOp' = None
      BY <3>3 DEF AbstractOp
    <3>5. CASE call = "Load"
      <4>1. AbstractOp = None /\ ret = "None"
        BY <2>2, <3>5 DEF AbstractOp, RefInv
      <4>2. UNCHANGED Durable
        BY <3>2, <3>5, <1>e
      <4>3. QED
        BY <3>3, <3>4, <4>1, <4>2, <1>g
    <3>6. CASE call = "AddFace"
      <4>1. AbstractOp = [name |-> call, slot |-> cur, want |-> entry[cur]]
        BY <2>2, <3>6 DEF AbstractOp
      <4>2. cur \in Ids /\ InUse(meta, cur) /\ IsSaved(meta, cur) /\ file[cur] = entry[cur]
            /\ entry[cur] \in Entries
        BY <2>2, <3>6, <1>b DEF RefInv, SavedSound, RamSound, Steady
      <4>3. \A j \in Ids : j = cur => Listed(j)' /\ file'[j] = entry[j] /\ entry[j] # EmptyFile
        <5>1. InFlash(meta, cur) /\ entry[cur] # EmptyFile
          BY <4>2, FaceFiles DEF IsSaved, InFlash
        <5>2. QED
          BY <2>2, <3>1, <4>2, <5>1
      <4>4. \A j \in Ids : At(j)' = IF j = cur THEN entry[cur] ELSE At(j)
        BY <3>2, <4>3
      <4>5. Durable' = [Durable EXCEPT ![cur] = entry[cur]]
        <5> HIDE DEF At
        <5>1. QED
          BY <4>4, <1>e
      <4>6. QED
        BY <3>3, <3>4, <3>6, <4>1, <4>5
           DEF Store!Next, Store!Succeed, Store!Effect, Store!Stores, Store!NoOp
    <3>7. CASE Deleting
      <4>1. AbstractOp = [name |-> call, slot |-> cur]
        BY <2>2, <3>7 DEF AbstractOp, Deleting
      <4>2. cur \in Ids /\ ~InFlash(meta, cur)
        BY <2>2, <3>7, <1>b, UnusedEmpty DEF RefInv, CountInv
      <4>3. \A j \in Ids : At(j)' = IF j = cur THEN NoFile ELSE At(j)
        BY <3>1, <3>2, <3>7, <4>2 DEF Deleting
      <4>4. Durable' = [Durable EXCEPT ![cur] = NoFile]
        <5> HIDE DEF At
        <5>1. QED
          BY <4>3, <1>e
      <4>5. QED
        BY <3>3, <3>4, <3>7, <4>1, <4>4
           DEF Store!Next, Store!Succeed, Store!Effect, Store!Deletes, Store!NoOp, Deleting
    <3>8. CASE call = "DelAll"
      <4>1. AbstractOp = [name |-> "DelAll"]
        BY <2>2, <3>8 DEF AbstractOp
      <4>2. \A id \in Ids : ~InFlash(meta, id)
        BY <2>2, <3>8, <1>b, UnusedEmpty DEF RefInv, CountInv
      <4>3. Durable' = [s \in Ids |-> NoFile]
        BY <3>1, <4>2, <1>e
      <4>4. QED
        BY <3>3, <3>4, <4>1, <4>3 DEF Store!Next, Store!Succeed, Store!Effect, Store!NoOp
    <3>9. QED
      BY <2>2, <2>7, <3>5, <3>6, <3>7, <3>8 DEF RefInv
  <2>8. QED
    BY <2>6, <2>7
<1>21. CASE Block
  <2>1. AbstractOp' = [name |-> "Read"] /\ pc = "idle" /\ ret' = "None" /\ UNCHANGED <<metaFile, file>>
    BY <1>21, FaceDbAssumption DEF Block, AbstractOp, AllCalls
  <2>2. QED
    BY <2>1, <1>7 DEF Store!Ops, Store!Others
<1>22. CASE Crash
  <2>1. AbstractOp' = None /\ ret' = "None"
    BY <1>22 DEF Crash, AbstractOp
  <2>2. metaFile' = metaFile \/ (metaFile = NoFile /\ metaFile' = EmptyFile)
    BY <1>22 DEF Crash, Torn
  <2>3. \A id \in Ids : Listed(id)' <=> Listed(id)
    BY <2>2, <1>c DEF Listed
  <2>4. \A id \in Ids : file'[id] = file[id] \/ (file[id] = NoFile /\ file'[id] = EmptyFile)
    BY <1>22, <1>a DEF Crash, TornFiles, Torn
  <2>5. UNCHANGED Durable
    <3>1. \A id \in Ids : At(id)' = At(id)
      BY <2>3, <2>4
    <3> HIDE DEF At
    <3>2. QED
      BY <3>1, <1>e
  <2>6. QED
    BY <2>1, <2>5 DEF Store!Next, Store!Restart, Store!NoOp
<1>23. CASE UNCHANGED vars
  <2>1. UNCHANGED <<Durable, AbstractOp, ret>>
    BY <1>23 DEF vars, Durable, AbstractOp
  <2>2. QED
    BY <2>1, <1>h
<1>24. CASE Invoke
  <2>1. ASSUME NEW id \in Ids, NEW n \in Names, UpdateName(id, n) PROVE Store!Next
    BY <2>1, <1>10 DEF UpdateName
  <2>2. ASSUME NEW id \in Ids, NEW f \in Features, UpdateFace(id, f) PROVE Store!Next
    BY <2>2, <1>10 DEF UpdateFace
  <2>3. ASSUME NEW id \in Ids, DelFaceWithID(id) PROVE Store!Next
    BY <2>3, <1>14 DEF DelFaceWithID
  <2>4. ASSUME NEW n \in Names, DelFaceWithName(n) PROVE Store!Next
    BY <2>4, <1>14 DEF DelFaceWithName
  <2>5. ASSUME NEW id \in Ids, NEW c \in {"UpdateName", "UpdateFace"}, UpdateUnused(c, id)
        PROVE  Store!Next
    <3>1. /\ pc = "idle" /\ AbstractOp = None /\ ret' = "None" /\ UNCHANGED <<metaFile, file>>
          /\ AbstractOp' = [name |-> "UpdateUnused", slot |-> id]
      BY <2>5 DEF UpdateUnused, Enter, AbstractOp
    <3>2. ~Listed(id)
      <4>1. ~InFlash(meta, id)
        BY <2>5, <3>1, FlashListed DEF UpdateUnused
      <4>2. QED
        BY <3>1, <4>1, <1>b DEF RamSound, Steady
    <3>3. Durable[id] = NoFile
      BY <3>2, <1>e
    <3>4. AbstractOp' \in Store!Ops
      BY <3>1 DEF Store!Ops, Store!Skips
    <3>5. QED
      BY <3>1, <3>3, <3>4, <1>f DEF Store!Next, Store!Begin, Store!NoOp
  <2>6. QED
    BY <1>24, <1>9, <1>12, <1>16, <1>21, <2>1, <2>2, <2>3, <2>4, <2>5 DEF Invoke
<1>25. CASE Unlock
  <2>1. /\ AbstractOp = [name |-> "UpdateUnused", slot |-> cur] /\ AbstractOp' = None
        /\ ret' = "Success" /\ UNCHANGED <<metaFile, file>>
    BY <1>25 DEF Unlock, Return, RefInv, AbstractOp
  <2>2. QED
    BY <2>1, <1>f DEF Store!Next, Store!Succeed, Store!Effect, Store!Skips, Store!NoOp
<1>26. QED
  BY <1>1, <1>2, <1>3, <1>4, <1>5, <1>6, <1>11, <1>13, <1>15, <1>17, <1>18, <1>19, <1>20,
     <1>22, <1>23, <1>24, <1>25 DEF Next, Step

(* With AUTOSAVE, and with flash operations of which only reads and the    *)
(* creation of the directory fail, the database implements the durable     *)
(* store: every call that reports success is durable, unless it was to     *)
(* update a slot without a face, a crash tears no call apart, and no call  *)
(* touches another face than the one it names.  The flash may hold faces   *)
(* of another firmware, but not of the same version with smaller entries.  *)
THEOREM Refinement ==
  ASSUME AUTOSAVE, Failing \subseteq {"mkdir", "read"}, "smaller" \notin Legacies
  PROVE  Spec => StoreRefinement
<1>1. Init => Inv /\ RefInv
  <2>1. Init => SavedSound /\ RefInv
    BY DEF Init, SavedSound, RefInv, Steady
  <2>2. QED
    BY <2>1, TypeInit, CountInit, DurInit DEF Inv
<1>2. Inv /\ RefInv /\ [Next]_vars => (Inv /\ RefInv)'
  <2>1. Inv /\ [Next]_vars => Inv'
    BY TypeStep, CountStep, DurStep, SavedStep DEF Inv
  <2>2. QED
    BY <2>1, RefStep
<1>3. Init => Store!Init
  <2> SUFFICES ASSUME Init PROVE Store!Init
    OBVIOUS
  <2>1. pc = "off" /\ ret = "None"
    BY DEF Init
  <2>2. ASSUME metaFile \notin {NoFile, EmptyFile}
        PROVE  metaFile.version # "current" \/ metaFile.faceEntrySize = 3
    BY <2>2, FaceDbAssumption DEF Init, LegacyMeta
  <2>3. Durable = [id \in Ids |-> NoFile]
    BY <2>2 DEF Durable, FaceEntrySize
  <2>4. QED
    BY <2>1, <2>3 DEF Store!Init, Store!NoOp, AbstractOp
<1>4. Inv /\ Inv' /\ RefInv /\ [Next]_vars => [Store!Next]_(Store!vars)
  BY StepRefines
<1>5. QED
  BY <1>1, <1>2, <1>3, <1>4, PTL DEF Spec, StoreRefinement, Store!Spec
=============================================================================
