---------------------------- MODULE FaceDbProofs ----------------------------
(***************************************************************************)
(* Theorems about FaceDb, for every size of the database, every set of     *)
(* calls and every set of failing flash operations the theorem names.      *)
(***************************************************************************)
EXTENDS FaceDb, FiniteSetTheorems, TLAPS

(* The sizes are natural numbers, and a uint16_t can count the slots.      *)
LEMMA Constants ==
  /\ UINT16_MAX \in Nat
  /\ MAX_FACE_DB_SIZE \in Nat
  /\ 0 < MAX_FACE_DB_SIZE
  /\ MAX_FACE_DB_SIZE < UINT16_MAX
<1>1. UINT16_MAX \in Nat
  BY DEF UINT16_MAX
<1>2. QED
  BY <1>1, FaceDbAssumption

(* The slots are finitely many, and fewer than a uint16_t can count.       *)
LEMMA IdsFinite ==
  ASSUME NEW S, S \subseteq Ids
  PROVE  /\ IsFiniteSet(S)
         /\ Cardinality(S) \in 0..MAX_FACE_DB_SIZE
<1>1. IsFiniteSet(Ids) /\ Cardinality(Ids) = MAX_FACE_DB_SIZE
  <2>1. 0 \in Int /\ MAX_FACE_DB_SIZE - 1 \in Int
    BY Constants
  <2>2. IsFiniteSet(0..(MAX_FACE_DB_SIZE - 1))
        /\ Cardinality(0..(MAX_FACE_DB_SIZE - 1))
             = IF 0 > MAX_FACE_DB_SIZE - 1 THEN 0 ELSE (MAX_FACE_DB_SIZE - 1) - 0 + 1
    BY <2>1, FS_Interval
  <2>3. QED
    BY <2>2, Constants DEF Ids
<1>2. IsFiniteSet(S) /\ Cardinality(S) <= Cardinality(Ids)
  BY <1>1, FS_Subset
<1>3. Cardinality(S) \in Nat
  BY <1>2, FS_CardinalityType
<1>4. QED
  BY <1>1, <1>2, <1>3, Constants

(* The uint16_t arithmetic stays in its range.                             *)
LEMMA Arithmetic16 ==
  /\ \A n \in UInt16 : Dec16(n) \in UInt16 /\ Inc16(n) \in UInt16
  /\ \A n \in UInt16, k \in UInt16 : Sub16(n, k) \in UInt16
  BY Constants DEF UInt16, Sub16, Dec16, Inc16

-----------------------------------------------------------------------------
(* Type correctness.                                                       *)

\* TypeOK is inductive once the slot of a single-slot operation is known to
\* be a slot.
TypeInv ==
  /\ TypeOK
  /\ pc \in {"save_face", "rm"} => cur \in Ids

(* The changes an operation makes to the metadata keep its type.           *)
LEMMA MetadataTypes ==
  ASSUME NEW m \in Metadata
  PROVE  /\ \A id \in Ids, B \in SUBSET Bits :
              [m EXCEPT !.faceMapping[id] = B] \in Metadata
         /\ \A n \in UInt16 : [m EXCEPT !.numberFaces = n] \in Metadata
         /\ \A n \in Sizes : [m EXCEPT !.faceEntrySize = n] \in Metadata
         /\ \A id \in Ids : m.faceMapping[id] \in SUBSET Bits
         /\ m.numberFaces \in UInt16
  BY DEF Metadata

(* The metadata the program starts from has its type.                      *)
LEMMA ConstantMetadata ==
  /\ MetaDefault \in Metadata
  /\ \A S \in SUBSET Ids, l \in Legacies : LegacyMeta(l, S) \in Metadata
  /\ [version |-> "none", numberFaces |-> 0, faceEntrySize |-> 0,
      faceMapping |-> EmptyMapping] \in Metadata
<1>1. EmptyMapping \in [Ids -> SUBSET Bits]
  BY DEF EmptyMapping
<1>2. 0 \in UInt16
  BY Constants DEF UInt16
<1>3. ASSUME NEW S \in SUBSET Ids, NEW l \in Legacies
      PROVE  LegacyMeta(l, S) \in Metadata
  <2>1. Cardinality(S) \in UInt16
    BY IdsFinite, Constants DEF UInt16
  <2>2. [id \in Ids |-> IF id \in S THEN {"Saved"} ELSE {}] \in [Ids -> SUBSET Bits]
    BY DEF Bits
  <2>3. l \in {"old", "larger", "smaller"}
    BY FaceDbAssumption
  <2>4. QED
    BY <2>1, <2>2, <2>3 DEF LegacyMeta, Metadata, Sizes, FaceEntrySize
<1>4. QED
  BY <1>1, <1>2, <1>3 DEF MetaDefault, Metadata, Sizes

(* What _Facedb_UpdateMetadata writes has the type of the metadata.        *)
LEMMA ImageType ==
  ASSUME NEW m \in Metadata
  PROVE  MetadataImage(m) \in Metadata
<1> DEFINE R == {id \in Ids : m.faceMapping[id] = {"Used"}}
           n == Sub16(m.numberFaces, Cardinality(R))
<1>1. n \in UInt16
  <2>1. Cardinality(R) \in UInt16
    BY IdsFinite, Constants DEF UInt16
  <2>2. QED
    BY <2>1, MetadataTypes, Arithmetic16
<1>2. [id \in Ids |-> m.faceMapping[id] \ {"Used"}] \in [Ids -> SUBSET Bits]
  BY MetadataTypes
<1>3. QED
  BY <1>1, <1>2 DEF MetadataImage, Metadata

(* So does the metadata after a face has left its slot.                    *)
LEMMA ClearSlotType ==
  ASSUME NEW m \in Metadata, NEW id \in Ids
  PROVE  ClearSlot(m, id) \in Metadata
<1>1. m.faceMapping[id] \ {"Used"} \in SUBSET Bits /\ Dec16(m.numberFaces) \in UInt16
  BY MetadataTypes, Arithmetic16
<1>2. QED
  BY <1>1 DEF ClearSlot, Metadata

(* The factory state and the states an older firmware left are well typed. *)
LEMMA TypeInit == Init => TypeInv
<1> SUFFICES ASSUME Init PROVE TypeInv
  OBVIOUS
<1> USE DEF Init, TypeInv, TypeOK
<1>1. meta \in Metadata
  BY ConstantMetadata
<1>2. entry \in [Ids -> RamEntries]
  BY DEF RamEntries, Blank
<1>3. metaFile \in Metadata \cup {NoFile, EmptyFile}
  BY ConstantMetadata
<1>4. file \in [Ids -> Contents]
  BY DEF Contents, RamEntries, Legacy, Small
<1>5. cur \in 0..MAX_FACE_DB_SIZE
  BY Constants
<1>6. QED
  BY <1>1, <1>2, <1>3, <1>4, <1>5

(* A save leaves the new content, the old one or an empty file; the lemmas *)
(* after it type the outcomes of saves and removals.                       *)
LEMMA SaveCases ==
  ASSUME NEW old, NEW new, NEW o \in SaveOutcomes(old, new)
  PROVE  o.content \in {new, old, EmptyFile} /\ o.ok \in BOOLEAN
<1>1. CASE o = [ok |-> TRUE, content |-> new]
  BY <1>1
<1>2. CASE o \in [ok : {FALSE}, content : Torn(old)]
  <2>1. o.ok \in {FALSE} /\ o.content \in Torn(old)
    BY <1>2
  <2>2. QED
    BY <2>1 DEF Torn
<1>3. CASE o \in [ok : {TRUE}, content : {IF old = NoFile THEN EmptyFile ELSE old}]
  <2>1. o.ok \in {TRUE} /\ o.content \in {IF old = NoFile THEN EmptyFile ELSE old}
    BY <1>3
  <2>2. QED
    BY <2>1
<1>4. QED
  BY <1>1, <1>2, <1>3 DEF SaveOutcomes

(* A save leaves one of the contents it may leave, of the same type.       *)
LEMMA SaveTypes ==
  ASSUME NEW T, EmptyFile \in T,
         NEW old \in T, NEW new \in T, NEW o \in SaveOutcomes(old, new)
  PROVE  o.content \in T /\ o.ok \in BOOLEAN
  BY SaveCases

(* A removal leaves no file or the old one, and reports how it went.       *)
LEMMA RmTypes ==
  ASSUME NEW old \in Contents, NEW o \in RmOutcomes(old)
  PROVE  o.content \in Contents /\ o.st \in {"Success", "NotExist", "Fail"}
  BY DEF RmOutcomes, Contents

(* Every step keeps the type invariant.                                    *)
LEMMA TypeStep == TypeInv /\ [Next]_vars => TypeInv'
<1> SUFFICES ASSUME TypeInv, [Next]_vars PROVE TypeInv'
  OBVIOUS
<1> USE DEF TypeInv, TypeOK, ram, flash, ctl
<1> DEFINE MetaFiles == Metadata \cup {NoFile, EmptyFile}
<1>a. /\ \A id \in Ids : cur = id => cur + 1 \in 0..MAX_FACE_DB_SIZE
      /\ \A id \in Ids : id \in 0..MAX_FACE_DB_SIZE
      /\ 0 \in 0..MAX_FACE_DB_SIZE
  BY Constants DEF Ids
<1>b. /\ MetaDefault \in Metadata
      /\ [version |-> "none", numberFaces |-> 0, faceEntrySize |-> 0,
          faceMapping |-> EmptyMapping] \in Metadata
      /\ metaFile # NoFile => MetaContent \in Metadata
  BY ConstantMetadata DEF MetaContent
<1>c. ASSUME NEW m \in Metadata
      PROVE  [m EXCEPT !.faceEntrySize = FaceEntrySize] \in Metadata
  BY DEF Metadata, Sizes, FaceEntrySize
<1>d. Blank \in RamEntries
  BY DEF Blank, RamEntries
<1>e. /\ "Used" \in Bits /\ "Saved" \in Bits /\ "Updated" \in Bits
      /\ {"Used"} \in SUBSET Bits /\ {"Saved", "Used"} \in SUBSET Bits
      /\ {} \in SUBSET Bits
  BY DEF Bits
<1>1. CASE InitMkdir
  BY <1>1, <1>b, <1>c DEF InitMkdir, Goto, InitFail, InitEnd
<1>2. CASE InitReadError
  BY <1>2, <1>c DEF InitReadError, InitFail, InitEnd
<1>3. CASE InitRead
  <2>1. MetaContent \in Metadata
    BY <1>3, <1>b DEF InitRead
  <2>2. QED
    BY <1>3, <2>1, <1>c DEF InitRead, InitFail, InitEnd, Goto
<1>4. CASE InitSave
  <2>1. PICK o \in SaveOutcomes(metaFile, meta) : metaFile' = o.content
    BY <1>4 DEF InitSave
  <2>2. metaFile' \in MetaFiles
    BY <2>1, SaveTypes
  <2>3. QED
    BY <1>4, <2>2, <1>c DEF InitSave, InitDone, InitEnd
<1>5. CASE LoadSlot
  <2> DEFINE len == ReadLen(file[cur], meta.faceEntrySize)
  <2>0. len \in Sizes
    BY DEF ReadLen, FileSize, FaceEntrySize, Sizes, Metadata
  <2>1. meta' \in Metadata
    BY <1>5, <2>0, <1>e DEF LoadSlot, Metadata
  <2>2. entry' \in [Ids -> RamEntries]
    <3>1. CASE len = 0
      BY <1>5, <3>1 DEF LoadSlot
    <3>2. CASE len # 0
      <4>1. file[cur] \in RamEntries
        <5>1. meta.faceEntrySize \in 0..3
          BY DEF Metadata, Sizes
        <5>2. FileSize(EmptyFile) = 0
          BY FileSentinels DEF FileSize
        <5>3. file[cur] # EmptyFile
          BY <3>2, <5>1, <5>2 DEF ReadLen
        <5>4. QED
          BY <1>5, <5>3 DEF LoadSlot, Contents
      <4>2. ReadPart(file[cur], len) \in RamEntries
        BY <1>5, <4>1 DEF LoadSlot, ReadPart, Part, RamEntries
      <4>3. QED
        BY <1>5, <3>2, <4>2 DEF LoadSlot
    <3>3. QED
      BY <3>1, <3>2
  <2>3. updateMetadata' \in BOOLEAN
    BY <1>5 DEF LoadSlot
  <2>4. QED
    BY <1>5, <2>1, <2>2, <2>3, <1>a DEF LoadSlot
<1>6. CASE LoadMissing
  <2>1. meta' \in Metadata
    BY <1>6, <1>e, Arithmetic16 DEF LoadMissing, Metadata
  <2>2. QED
    BY <1>6, <2>1, <1>a DEF LoadMissing
<1>7. CASE LoadError
  BY <1>7, <1>c DEF LoadError, InitFail, InitEnd
<1>8. CASE LoadSkip
  BY <1>8, <1>a DEF LoadSkip
<1>9. CASE LoadEnd
  BY <1>9, <1>c DEF LoadEnd, InitFail, InitDone, InitEnd, Goto
<1>10. ASSUME NEW e \in Entries, AddFace(e) PROVE TypeInv'
  <2>1. PICK id \in Ids :
          /\ Enter("AddFace", IF AUTOSAVE THEN "save_face" ELSE "unlock", id)
          /\ entry' = [entry EXCEPT ![id] = e]
          /\ meta' = [meta EXCEPT !.faceMapping[id] = {"Used"}, !.numberFaces = Inc16(@)]
          /\ UNCHANGED flash
    BY <1>10 DEF AddFace
  <2>2. meta' \in Metadata
    BY <2>1, <1>e, Arithmetic16 DEF Metadata
  <2>3. entry' \in [Ids -> RamEntries]
    BY <2>1 DEF Entries, RamEntries
  <2>4. QED
    BY <2>1, <2>2, <2>3, <1>a DEF Enter, AllCalls
<1>11. ASSUME NEW c \in {"UpdateName", "UpdateFace"}, NEW id \in Ids,
              NEW e \in RamEntries, UpdateSlot(c, id, e)
       PROVE  TypeInv'
  <2>1. meta' \in Metadata
    <3>1. (meta.faceMapping[id] \ {"Saved"}) \cup {"Updated"} \in SUBSET Bits
      BY <1>e, MetadataTypes
    <3>2. QED
      BY <1>11, <3>1 DEF UpdateSlot, Metadata
  <2>2. entry' \in [Ids -> RamEntries]
    BY <1>11 DEF UpdateSlot
  <2>3. QED
    BY <1>11, <2>1, <2>2, <1>a DEF UpdateSlot, Enter, AllCalls
<1>12. CASE SaveSlot
  <2>1. cur \in Ids /\ file[cur] \in Contents /\ entry[cur] \in Contents
    BY <1>12 DEF SaveSlot, Contents
  <2>2. PICK o \in SaveOutcomes(file[cur], entry[cur]) :
          /\ file' = [file EXCEPT ![cur] = o.content]
          /\ meta' = IF o.ok THEN [meta EXCEPT !.faceMapping[cur] = {"Saved", "Used"}]
                     ELSE meta
          /\ IF call = "AddFace" /\ o.ok
             THEN Goto("upd_meta") /\ UNCHANGED lock
             ELSE Return(IF call = "AddFace" THEN "Failed" ELSE "Success")
    BY <1>12 DEF SaveSlot
  <2>3. file' \in [Ids -> Contents]
    <3>1. o.content \in Contents
      BY <2>1, SaveTypes DEF Contents
    <3>2. QED
      BY <2>2, <3>1
  <2>4. meta' \in Metadata
    BY <2>1, <2>2, <1>e DEF Metadata
  <2>5. QED
    BY <1>12, <2>2, <2>3, <2>4 DEF SaveSlot, Goto, Return
<1>13. CASE Unlock
  BY <1>13 DEF Unlock, Return
<1>14. CASE SaveFace
  BY <1>14, <1>a DEF SaveFace, Enter, AllCalls
<1>15. CASE SaveAllSlot
  <2>1. CASE InUse(meta, cur) /\ ~IsSaved(meta, cur)
    <3>1. cur \in Ids /\ file[cur] \in Contents /\ entry[cur] \in Contents
      BY <1>15 DEF SaveAllSlot, Contents
    <3>2. PICK o \in SaveOutcomes(file[cur], entry[cur]) :
            /\ file' = [file EXCEPT ![cur] = o.content]
            /\ meta' = IF o.ok THEN [meta EXCEPT !.faceMapping[cur] = {"Saved", "Used"}]
                               ELSE meta
            /\ status' = IF o.ok THEN "Success" ELSE "Fail"
            /\ updateMetadata' = (updateMetadata \/ o.ok)
      BY <1>15, <2>1 DEF SaveAllSlot
    <3>3. o.content \in Contents /\ o.ok \in BOOLEAN
      BY <3>1, SaveTypes DEF Contents
    <3>4. meta' \in Metadata
      BY <3>1, <3>2, <1>e DEF Metadata
    <3>5. QED
      BY <1>15, <3>1, <3>2, <3>3, <3>4, <1>a DEF SaveAllSlot
  <2>2. CASE ~(InUse(meta, cur) /\ ~IsSaved(meta, cur))
    BY <1>15, <2>2, <1>a DEF SaveAllSlot
  <2>3. QED
    BY <2>1, <2>2
<1>16. CASE SaveAllEnd
  BY <1>16 DEF SaveAllEnd, Goto, ReturnLocked
<1>17. ASSUME NEW c \in {"DelFaceWithID", "DelFaceWithName"}, NEW id \in Ids,
              DeleteFace(c, id)
       PROVE  TypeInv'
  BY <1>17, <1>a, <1>d, ClearSlotType DEF DeleteFace, Enter, AllCalls
<1>18. CASE RmSlot
  <2>1. cur \in Ids /\ file[cur] \in Contents
    BY <1>18 DEF RmSlot
  <2>2. PICK o \in RmOutcomes(file[cur]) :
          /\ file' = [file EXCEPT ![cur] = o.content]
          /\ IF o.st = "Fail"
             THEN Return("Failed") /\ UNCHANGED meta
             ELSE /\ meta' = [meta EXCEPT !.faceMapping[cur] = @ \ {"Saved", "Updated"}]
                  /\ Goto("upd_meta")
                  /\ UNCHANGED lock
    BY <1>18 DEF RmSlot
  <2>3. o.content \in Contents
    BY <2>1, RmTypes
  <2>4. meta' \in Metadata
    <3>1. meta.faceMapping[cur] \ {"Saved", "Updated"} \in SUBSET Bits
      BY <2>1, MetadataTypes
    <3>2. QED
      BY <2>1, <2>2, <3>1 DEF Metadata
  <2>5. QED
    BY <1>18, <2>1, <2>2, <2>3, <2>4 DEF RmSlot, Goto, Return
<1>19. CASE DelAll
  BY <1>19, <1>a DEF DelAll, Enter, AllCalls
<1>20. CASE DelAllSlot
  <2>1. cur \in Ids /\ file[cur] \in Contents /\ ClearSlot(meta, cur) \in Metadata
    BY <1>20, ClearSlotType DEF DelAllSlot
  <2>2. entry' \in [Ids -> RamEntries] /\ cur' \in 0..MAX_FACE_DB_SIZE
    BY <1>20, <2>1, <1>a, <1>d DEF DelAllSlot
  <2>3. CASE ~InFlash(meta, cur)
    BY <1>20, <2>1, <2>2, <2>3 DEF DelAllSlot
  <2>4. CASE InFlash(meta, cur)
    <3>1. PICK o \in RmOutcomes(file[cur]) :
            /\ file' = [file EXCEPT ![cur] = o.content]
            /\ meta' = IF o.st = "Fail"
                       THEN ClearSlot(meta, cur)
                       ELSE [ClearSlot(meta, cur) EXCEPT !.faceMapping[cur] = {}]
            /\ status' = o.st
            /\ updateMetadata' = (updateMetadata \/ o.st # "Fail")
      BY <1>20, <2>4 DEF DelAllSlot
    <3>2. o.content \in Contents /\ o.st \in {"Success", "NotExist", "Fail"}
      BY <2>1, RmTypes
    <3>3. meta' \in Metadata
      BY <2>1, <3>1, <1>e DEF Metadata
    <3>4. QED
      BY <1>20, <2>1, <2>2, <3>1, <3>2, <3>3 DEF DelAllSlot
  <2>5. QED
    BY <2>3, <2>4
<1>21. CASE DelAllSkip
  BY <1>21, <1>a DEF DelAllSkip
<1>22. CASE DelAllEnd
  <2> DEFINE wrong  == meta.numberFaces # 0 \/ status # "Success"
             update == status = "Success" /\ (updateMetadata \/ wrong)
             m      == IF wrong THEN MetaDefault ELSE meta
  <2>1. m \in Metadata /\ entry' \in [Ids -> RamEntries]
    BY <1>22, <1>b, <1>d DEF DelAllEnd
  <2>2. \/ meta' = m /\ Goto("upd_meta") /\ UNCHANGED lock
        \/ DelAllReturn(m)
    BY <1>22 DEF DelAllEnd
  <2> HIDE DEF m
  <2>3. QED
    BY <1>22, <2>1, <2>2, <1>b DEF DelAllEnd, DelAllReturn, Goto, Return
<1>23. CASE UpdMeta
  <2>1. PICK o \in SaveOutcomes(metaFile, MetadataImage(meta)) :
          /\ metaFile' = o.content
          /\ \/ UNCHANGED <<meta, lock, ctl>>
             \/ InitDone(meta) /\ UNCHANGED lock
             \/ DelAllReturn(meta)
             \/ ReturnLocked("Success") /\ UNCHANGED meta
             \/ Return("Success") /\ UNCHANGED meta
    BY <1>23 DEF UpdMeta
  <2>2. metaFile' \in MetaFiles
    BY <2>1, ImageType, SaveTypes
  <2>3. /\ meta' \in Metadata
        /\ pc' \in {pc, "idle", "init_save"}
        /\ lock' \in BOOLEAN
        /\ ret' \in {"None", "Success", "Failed"}
        /\ UNCHANGED <<call, cur, status, updateMetadata>>
    BY <2>1, <1>b, <1>c DEF InitDone, InitEnd, DelAllReturn, Return, ReturnLocked, Goto
  <2>4. QED
    BY <1>23, <2>2, <2>3 DEF UpdMeta
<1>24. CASE Block
  BY <1>24, FaceDbAssumption DEF Block
<1>25. CASE Crash
  <2>1. metaFile' \in MetaFiles
    BY <1>25 DEF Crash, Torn
  <2>2. file' \in [Ids -> Contents]
    BY <1>25 DEF Crash, TornFiles, Torn, Contents
  <2>3. entry' \in [Ids -> RamEntries]
    BY <1>25, <1>d DEF Crash
  <2>4. QED
    BY <1>25, <2>1, <2>2, <2>3, <1>a, <1>b DEF Crash
<1>26. CASE UNCHANGED vars
  BY <1>26 DEF vars
<1>27. CASE Invoke
  <2>1. ASSUME NEW id \in Ids, NEW n \in Names, UpdateName(id, n) PROVE TypeInv'
    <3>1. [entry[id] EXCEPT !.name = n] \in RamEntries
      BY DEF RamEntries
    <3>2. QED
      BY <2>1, <3>1, <1>11 DEF UpdateName
  <2>2. ASSUME NEW id \in Ids, NEW f \in Features, UpdateFace(id, f) PROVE TypeInv'
    <3>1. [entry[id] EXCEPT !.face = f] \in RamEntries
      BY DEF RamEntries
    <3>2. QED
      BY <2>2, <3>1, <1>11 DEF UpdateFace
  <2>3. ASSUME NEW id \in Ids, DelFaceWithID(id) PROVE TypeInv'
    BY <2>3, <1>17 DEF DelFaceWithID
  <2>4. ASSUME NEW n \in Names, DelFaceWithName(n) PROVE TypeInv'
    BY <2>4, <1>17 DEF DelFaceWithName
  <2>0. ASSUME NEW id \in Ids, NEW c \in {"UpdateName", "UpdateFace"}, UpdateUnused(c, id)
        PROVE  TypeInv'
    BY <2>0, <1>a DEF UpdateUnused, Enter, AllCalls
  <2> HIDE DEF TypeInv
  <2>5. QED
    BY <1>27, <1>10, <1>14, <1>19, <1>24, <2>0, <2>1, <2>2, <2>3, <2>4 DEF Invoke
<1> HIDE DEF TypeInv
<1>28. QED
  BY <1>1, <1>2, <1>3, <1>4, <1>5, <1>6, <1>7, <1>8, <1>9, <1>12, <1>13, <1>15, <1>16,
     <1>18, <1>20, <1>21, <1>22, <1>23, <1>25, <1>26, <1>27 DEF Next, Step

(* The RAM copy, the flash and the control state keep their types in every *)
(* behaviour, whatever calls are made and whichever flash operations fail. *)
THEOREM TypeCorrect == Spec => []TypeOK
<1>1. TypeInv => TypeOK
  BY DEF TypeInv
<1>2. QED
  BY TypeInit, TypeStep, <1>1, PTL DEF Spec

-----------------------------------------------------------------------------
(* The face count.                                                         *)

\* What a Metadata file written by any call looks like: no Used bits, and a
\* count that is the number of occupied slots.
Stored(m) ==
  /\ m.numberFaces = Cardinality(Occupied(m))
  /\ \A id \in Ids : ~InUse(m, id)

\* The RAM metadata while calls run: the count is the number of used slots,
\* and only the slot whose file is about to be removed has bits without Used.
Counted(m, except) ==
  /\ m.numberFaces = Cardinality(UsedIds(m))
  /\ \A id \in Ids \ except : m.faceMapping[id] # {} => InUse(m, id)

\* The inductive invariant behind CountMatchesUsed, by phase of the program.
CountInv ==
  /\ metaFile \notin {NoFile, EmptyFile} => Stored(metaFile)
  /\ pc = "off" => cur = 0 /\ call = "Init"
  /\ pc = "init_save" => meta = MetaDefault
  /\ pc = "load" =>
       /\ call = "Load"
       /\ meta.numberFaces = Cardinality(Occupied(meta))
       /\ \A id \in Ids : IF id < cur THEN meta.faceMapping[id] # {} => InUse(meta, id)
                                       ELSE ~InUse(meta, id)
  /\ pc = "delall" /\ call = "Init" => Stored(meta)
  /\ pc = "delall" /\ call # "Init" => Counted(meta, {})
  /\ pc = "rm" => Counted(meta, {cur}) /\ ~InUse(meta, cur)
  /\ pc = "save_face" => InUse(meta, cur)
  /\ pc \in {"idle", "blocked", "unlock", "save_face", "save_all", "upd_meta"}
       => Counted(meta, {})

(* Counting after one slot joins or leaves a set of slots.                 *)
LEMMA CountOne ==
  ASSUME NEW S, S \subseteq Ids, NEW id \in Ids, NEW n, n = Cardinality(S)
  PROVE  /\ n \in UInt16
         /\ id \notin S => Inc16(n) = Cardinality(S \cup {id})
         /\ id \in S => Dec16(n) = Cardinality(S \ {id})
<1>1. IsFiniteSet(S) /\ n \in Nat /\ n <= MAX_FACE_DB_SIZE
  BY IdsFinite, Constants
<1>2. id \notin S => Inc16(n) = Cardinality(S \cup {id})
  BY <1>1, FS_AddElement, Constants DEF Inc16
<1>3. id \in S => Dec16(n) = Cardinality(S \ {id})
  <2> SUFFICES ASSUME id \in S PROVE Dec16(n) = Cardinality(S \ {id})
    OBVIOUS
  <2>1. Cardinality(S \ {id}) = n - 1 /\ IsFiniteSet(S \ {id})
    BY <1>1, FS_RemoveElement
  <2>2. n - 1 \in Nat
    BY <2>1, FS_CardinalityType
  <2>3. QED
    BY <1>1, <2>1, <2>2 DEF Dec16, Sub16
<1>4. QED
  BY <1>1, <1>2, <1>3, Constants DEF UInt16

(* Splitting a set of slots.                                               *)
LEMMA CountSplit ==
  ASSUME NEW S, NEW R, S \subseteq Ids, R \subseteq S
  PROVE  Sub16(Cardinality(S), Cardinality(R)) = Cardinality(S \ R)
<1>1. IsFiniteSet(S) /\ IsFiniteSet(R) /\ IsFiniteSet(S \ R)
  BY IdsFinite
<1>2. Cardinality(R) <= Cardinality(S)
  BY <1>1, FS_Subset
<1>3. Cardinality(S \ R) = Cardinality(S) - Cardinality(S \cap R)
  BY <1>1, FS_Difference
<1>4. S \cap R = R
  OBVIOUS
<1>5. Cardinality(S) \in Nat /\ Cardinality(R) \in Nat
  BY <1>1, FS_CardinalityType
<1>6. QED
  BY <1>2, <1>3, <1>4, <1>5 DEF Sub16

(* The image _Facedb_UpdateMetadata writes counts its occupied slots.      *)
LEMMA ImageStored ==
  ASSUME NEW m \in Metadata, Counted(m, {})
  PROVE  Stored(MetadataImage(m))
<1> DEFINE R == {id \in Ids : m.faceMapping[id] = {"Used"}}
           i == MetadataImage(m)
<1>1. i.numberFaces = Sub16(m.numberFaces, Cardinality(R))
  BY DEF MetadataImage, Metadata
<1>2. \A id \in Ids : i.faceMapping[id] = m.faceMapping[id] \ {"Used"}
  BY DEF MetadataImage, Metadata
<1>3. Occupied(i) = UsedIds(m) \ R
  BY <1>2 DEF Occupied, UsedIds, InUse, Counted
<1>4. R \subseteq UsedIds(m) /\ UsedIds(m) \subseteq Ids
  BY DEF UsedIds, InUse
<1>5. Sub16(Cardinality(UsedIds(m)), Cardinality(R)) = Cardinality(UsedIds(m) \ R)
  BY <1>4, CountSplit
<1>6. \A id \in Ids : ~InUse(i, id)
  BY <1>2 DEF InUse
<1>7. QED
  BY <1>1, <1>3, <1>5, <1>6 DEF Stored, Counted

(* The default metadata counts no faces and has none.                      *)
LEMMA DefaultCounted ==
  /\ Counted(MetaDefault, {})
  /\ Stored(MetaDefault)
<1>1. Occupied(MetaDefault) = {} /\ UsedIds(MetaDefault) = {}
  BY DEF Occupied, UsedIds, InUse, MetaDefault, EmptyMapping
<1>2. MetaDefault.numberFaces = 0 /\ \A id \in Ids : MetaDefault.faceMapping[id] = {}
  BY DEF MetaDefault, EmptyMapping
<1>3. QED
  BY <1>1, <1>2, FS_EmptySet DEF Counted, Stored, InUse

(* One slot gets new bits and keeps its Used bit, or stays unused and is   *)
(* emptied: the count still holds.                                         *)
LEMMA CountedKeep ==
  ASSUME NEW m \in Metadata, NEW id \in Ids, NEW B, NEW r, NEW except \in SUBSET {id},
         Counted(m, except),
         r.numberFaces = m.numberFaces,
         r.faceMapping = [m.faceMapping EXCEPT ![id] = B],
         "Used" \in B <=> InUse(m, id),
         B # {} => "Used" \in B
  PROVE  Counted(r, {})
<1>1. \A j \in Ids : r.faceMapping[j] = IF j = id THEN B ELSE m.faceMapping[j]
  BY DEF Metadata
<1>2. UsedIds(r) = UsedIds(m)
  BY <1>1 DEF UsedIds, InUse
<1>3. QED
  BY <1>1, <1>2 DEF Counted, InUse

(* A used slot is cleared.                                                 *)
LEMMA CountedClear ==
  ASSUME NEW m \in Metadata, NEW id \in Ids, Counted(m, {}), InUse(m, id)
  PROVE  /\ Counted(ClearSlot(m, id), {id})
         /\ ~InUse(ClearSlot(m, id), id)
         /\ ~InFlash(m, id) => Counted(ClearSlot(m, id), {})
         /\ Counted([ClearSlot(m, id) EXCEPT !.faceMapping[id] = {}], {})
<1> DEFINE r == ClearSlot(m, id)
           e == [r EXCEPT !.faceMapping[id] = {}]
<1>1. /\ r.numberFaces = Dec16(m.numberFaces)
      /\ \A j \in Ids : r.faceMapping[j] = IF j = id THEN m.faceMapping[id] \ {"Used"}
                                                    ELSE m.faceMapping[j]
  BY DEF ClearSlot, Metadata
<1>2. r \in Metadata
  BY ClearSlotType
<1>3. /\ e.numberFaces = r.numberFaces
      /\ \A j \in Ids : e.faceMapping[j] = IF j = id THEN {} ELSE m.faceMapping[j]
  BY <1>1, <1>2 DEF Metadata
<1> HIDE DEF r, e
<1>4. UsedIds(r) = UsedIds(m) \ {id} /\ UsedIds(e) = UsedIds(m) \ {id}
  BY <1>1, <1>3 DEF UsedIds, InUse
<1>5. Dec16(m.numberFaces) = Cardinality(UsedIds(m) \ {id})
  <2>1. UsedIds(m) \subseteq Ids /\ id \in UsedIds(m)
    BY DEF UsedIds
  <2>2. QED
    BY <2>1, CountOne DEF Counted
<1>6. ~InFlash(m, id) => r.faceMapping[id] = {}
  <2>1. m.faceMapping[id] \subseteq {"Saved", "Updated", "Used"}
    BY MetadataTypes DEF Bits
  <2>2. QED
    BY <2>1, <1>1 DEF InFlash
<1>7. Counted(r, {id}) /\ ~InUse(r, id)
  BY <1>1, <1>4, <1>5 DEF Counted, InUse
<1>8. ~InFlash(m, id) => Counted(r, {})
  BY <1>6, <1>7 DEF Counted
<1>9. Counted(e, {})
  BY <1>1, <1>3, <1>4, <1>5 DEF Counted, InUse
<1>10. QED
  BY <1>7, <1>8, <1>9 DEF r, e

(* A free slot is filled.                                                  *)
LEMMA CountedAdd ==
  ASSUME NEW m \in Metadata, NEW id \in Ids, Counted(m, {}), ~InUse(m, id)
  PROVE  LET r == [m EXCEPT !.faceMapping[id] = {"Used"}, !.numberFaces = Inc16(@)]
         IN  Counted(r, {}) /\ InUse(r, id)
<1> DEFINE r == [m EXCEPT !.faceMapping[id] = {"Used"}, !.numberFaces = Inc16(@)]
<1>1. /\ r.numberFaces = Inc16(m.numberFaces)
      /\ \A j \in Ids : r.faceMapping[j] = IF j = id THEN {"Used"} ELSE m.faceMapping[j]
  BY DEF Metadata
<1> HIDE DEF r
<1>2. UsedIds(r) = UsedIds(m) \cup {id}
  BY <1>1 DEF UsedIds, InUse
<1>3. Inc16(m.numberFaces) = Cardinality(UsedIds(m) \cup {id})
  <2>1. UsedIds(m) \subseteq Ids /\ id \notin UsedIds(m)
    BY DEF UsedIds
  <2>2. QED
    BY <2>1, CountOne DEF Counted
<1>4. Counted(r, {}) /\ InUse(r, id)
  BY <1>1, <1>2, <1>3 DEF Counted, InUse
<1>5. QED
  BY <1>4 DEF r

(* The flash the program first finds has a correct count.                  *)
LEMMA CountInit == Init => CountInv
<1> SUFFICES ASSUME Init PROVE CountInv
  OBVIOUS
<1>1. ASSUME NEW S \in SUBSET Ids, NEW l
      PROVE  Stored(LegacyMeta(l, S))
  <2>1. Occupied(LegacyMeta(l, S)) = S
    BY DEF Occupied, LegacyMeta
  <2>2. QED
    BY <2>1 DEF Stored, LegacyMeta, InUse
<1>2. metaFile \notin {NoFile, EmptyFile} => Stored(metaFile)
  BY <1>1 DEF Init
<1>3. QED
  BY <1>2 DEF Init, CountInv

(* Every step keeps the invariant, as long as the removal of a file never  *)
(* reports an error.                                                       *)
LEMMA CountStep ==
  ASSUME "rm" \notin Failing
  PROVE  TypeInv /\ CountInv /\ [Next]_vars => CountInv'
<1> SUFFICES ASSUME TypeInv, CountInv, [Next]_vars PROVE CountInv'
  OBVIOUS
<1> USE DEF ram, flash, ctl
<1>a. /\ meta \in Metadata
      /\ metaFile \in Metadata \cup {NoFile, EmptyFile}
      /\ pc \in {"save_face", "rm"} => cur \in Ids
      /\ cur \in 0..MAX_FACE_DB_SIZE
      /\ status \in {"Success", "NotExist", "Fail"}
      /\ updateMetadata \in BOOLEAN
  BY DEF TypeInv, TypeOK
<1>b. /\ Counted(MetaDefault, {})
      /\ Stored(MetaDefault)
  BY DefaultCounted
<1>c. ASSUME NEW m \in Metadata, NEW x, Counted(m, x)
      PROVE  Counted([m EXCEPT !.faceEntrySize = FaceEntrySize], x)
  BY <1>c DEF Counted, UsedIds, InUse, Metadata
<1>d. ASSUME NEW old, NEW o \in RmOutcomes(old)
      PROVE  o.st # "Fail"
  BY DEF RmOutcomes
<1>1. CASE InitMkdir
  BY <1>1 DEF CountInv, InitMkdir, Goto, InitFail, InitEnd
<1>2. CASE InitReadError
  BY <1>2 DEF CountInv, InitReadError, InitFail, InitEnd
<1>3. CASE InitRead
  <2>1. Stored(MetaContent)
    <3>1. CASE metaFile = EmptyFile
      BY <3>1, <1>b DEF Stored, MetaContent, MetaDefault, Occupied, InUse
    <3>2. CASE metaFile # EmptyFile
      BY <3>2, <1>3 DEF CountInv, MetaContent, InitRead
    <3>3. QED
      BY <3>1, <3>2
  <2>2. /\ UNCHANGED metaFile
        /\ cur = 0 /\ call = "Init"
        /\ \A id \in Ids : ~(id < 0)
    BY <1>3, Constants DEF CountInv, InitRead, Ids
  <2>3. CASE InitFail(MetaContent)
    BY <2>2, <2>3 DEF CountInv, InitFail, InitEnd
  <2>4. CASE meta' = MetaContent /\ Goto("delall")
    BY <2>1, <2>2, <2>4 DEF CountInv, Goto
  <2>5. CASE meta' = MetaContent /\ pc' = "load" /\ call' = "Load" /\ UNCHANGED cur
    BY <2>1, <2>2, <2>5 DEF CountInv, Stored
  <2>6. QED
    BY <1>3, <2>3, <2>4, <2>5 DEF InitRead
<1>4. CASE InitSave
  <2>1. PICK o \in SaveOutcomes(metaFile, meta) : metaFile' = o.content
    BY <1>4 DEF InitSave
  <2>2. metaFile' \in {meta, metaFile, EmptyFile}
    BY <2>1, SaveCases
  <2>3. metaFile' \notin {NoFile, EmptyFile} => Stored(metaFile')
    BY <1>4, <2>2, <1>b DEF CountInv, InitSave
  <2>4. Counted(meta', {})
    BY <1>4, <1>a, <1>b, <1>c DEF CountInv, InitSave, InitDone, InitEnd
  <2>5. QED
    BY <1>4, <2>3, <2>4 DEF CountInv, InitSave, InitDone, InitEnd
<1>5. CASE LoadSlot
  <2>1. /\ meta'.numberFaces = meta.numberFaces
        /\ \A id \in Ids : meta'.faceMapping[id] =
             IF id = cur THEN {"Saved", "Used"} ELSE meta.faceMapping[id]
    BY <1>5, <1>a DEF LoadSlot, Metadata
  <2>2. Occupied(meta') = Occupied(meta)
    BY <1>5, <2>1 DEF LoadSlot, Occupied, InFlash
  <2>3. \A id \in Ids : IF id < cur' THEN meta'.faceMapping[id] # {} => InUse(meta', id)
                                     ELSE ~InUse(meta', id)
    BY <1>5, <2>1, Constants DEF LoadSlot, CountInv, InUse, Ids
  <2>4. QED
    BY <1>5, <2>1, <2>2, <2>3 DEF CountInv, LoadSlot
<1>6. CASE LoadMissing
  <2>1. /\ meta'.numberFaces = Dec16(meta.numberFaces)
        /\ \A id \in Ids : meta'.faceMapping[id] =
             IF id = cur THEN {} ELSE meta.faceMapping[id]
    BY <1>6, <1>a DEF LoadMissing, Metadata
  <2>2. Occupied(meta') = Occupied(meta) \ {cur}
    BY <2>1 DEF Occupied
  <2>3. Occupied(meta) \subseteq Ids /\ cur \in Occupied(meta)
    BY <1>6 DEF LoadMissing, Occupied, InFlash
  <2>4. meta'.numberFaces = Cardinality(Occupied(meta'))
    BY <1>6, <2>1, <2>2, <2>3, CountOne DEF CountInv, LoadMissing
  <2>5. \A id \in Ids : IF id < cur' THEN meta'.faceMapping[id] # {} => InUse(meta', id)
                                     ELSE ~InUse(meta', id)
    BY <1>6, <2>1, Constants DEF LoadMissing, CountInv, InUse, Ids
  <2>6. QED
    BY <1>6, <2>4, <2>5 DEF CountInv, LoadMissing
<1>7. CASE LoadError
  BY <1>7 DEF CountInv, LoadError, InitFail, InitEnd
<1>8. CASE LoadSkip
  <2>1. \A id \in Ids : IF id < cur' THEN meta.faceMapping[id] # {} => InUse(meta, id)
                                     ELSE ~InUse(meta, id)
    BY <1>8, Constants DEF LoadSkip, CountInv, Ids
  <2>2. QED
    BY <1>8, <2>1 DEF LoadSkip, CountInv
<1>9. CASE LoadEnd
  <2>1. \A id \in Ids : id < cur
    BY <1>9, <1>a, Constants DEF LoadEnd, Ids
  <2>2. Occupied(meta) = UsedIds(meta)
    BY <1>9, <2>1 DEF LoadEnd, CountInv, Occupied, UsedIds, InUse
  <2>3. Counted(meta, {})
    BY <1>9, <2>1, <2>2 DEF LoadEnd, CountInv, Counted
  <2>4. QED
    BY <1>9, <2>3, <1>a, <1>c DEF CountInv, LoadEnd, InitFail, InitDone, InitEnd, Goto
<1>10. ASSUME NEW e \in Entries, AddFace(e) PROVE CountInv'
  <2>1. PICK id \in Ids :
          /\ ~InUse(meta, id)
          /\ Enter("AddFace", IF AUTOSAVE THEN "save_face" ELSE "unlock", id)
          /\ meta' = [meta EXCEPT !.faceMapping[id] = {"Used"}, !.numberFaces = Inc16(@)]
          /\ UNCHANGED flash
    BY <1>10 DEF AddFace
  <2>2. Counted(meta, {})
    BY <2>1 DEF CountInv, Enter
  <2>3. Counted(meta', {}) /\ InUse(meta', id)
    BY <2>1, <2>2, <1>a, CountedAdd
  <2>4. QED
    BY <2>1, <2>3 DEF CountInv, Enter
<1>11. ASSUME NEW c, NEW id \in Ids, NEW e, UpdateSlot(c, id, e)
       PROVE  CountInv'
  <2>1. Counted(meta, {})
    BY <1>11 DEF UpdateSlot, CountInv, Enter
  <2>2. Counted(meta', {}) /\ InUse(meta', id)
    <3> DEFINE B == (meta.faceMapping[id] \ {"Saved"}) \cup {"Updated"}
               r == [meta EXCEPT !.faceMapping[id] = B]
    <3>1. InUse(meta, id) /\ "Used" \in B
      BY <1>11 DEF UpdateSlot, InUse
    <3>2. r.numberFaces = meta.numberFaces /\ r.faceMapping = [meta.faceMapping EXCEPT ![id] = B]
      BY <1>a DEF Metadata
    <3>3. meta' = r \/ meta' = meta
      BY <1>11 DEF UpdateSlot
    <3>4. InUse(r, id)
      BY <3>1, <3>2, <1>a DEF InUse, Metadata
    <3> HIDE DEF B, r
    <3>5. Counted(r, {})
      BY <2>1, <3>1, <3>2, <1>a, CountedKeep
    <3>6. QED
      BY <2>1, <3>1, <3>3, <3>4, <3>5
  <2>3. QED
    BY <1>11, <2>2 DEF UpdateSlot, CountInv, Enter
<1>12. ASSUME cur \in Ids, Counted(meta, {}), InUse(meta, cur),
              meta' = [meta EXCEPT !.faceMapping[cur] = {"Saved", "Used"}]
       PROVE  Counted(meta', {})
  <2> DEFINE B == {"Saved", "Used"}
  <2>1. /\ meta'.numberFaces = meta.numberFaces
        /\ meta'.faceMapping = [meta.faceMapping EXCEPT ![cur] = B]
    BY <1>12, <1>a DEF Metadata
  <2>2. {} \in SUBSET {cur} /\ "Used" \in B
    OBVIOUS
  <2> HIDE DEF B
  <2>3. /\ meta \in Metadata /\ cur \in Ids /\ Counted(meta, {})
        /\ "Used" \in B <=> InUse(meta, cur)
        /\ B # {} => "Used" \in B
    BY <1>12, <2>2, <1>a
  <2>4. QED
    BY <2>1, <2>2, <2>3, CountedKeep
<1>13. CASE SaveSlot
  <2>1. Counted(meta', {})
    BY <1>12, <1>13, <1>a DEF SaveSlot, CountInv
  <2>2. QED
    BY <1>13, <2>1 DEF SaveSlot, CountInv, Goto, Return
<1>14. CASE Unlock
  BY <1>14 DEF Unlock, CountInv, Return
<1>15. CASE SaveFace
  BY <1>15 DEF SaveFace, CountInv, Enter
<1>16. CASE SaveAllSlot
  <2>1. Counted(meta', {})
    BY <1>12, <1>16 DEF SaveAllSlot, CountInv
  <2>2. QED
    BY <1>16, <2>1 DEF SaveAllSlot, CountInv
<1>17. CASE SaveAllEnd
  BY <1>17 DEF SaveAllEnd, CountInv, Goto, ReturnLocked
<1>18. ASSUME NEW c \in {"DelFaceWithID", "DelFaceWithName"}, NEW id \in Ids,
              DeleteFace(c, id)
       PROVE  CountInv'
  <2>1. Counted(meta, {}) /\ InUse(meta, id) /\ meta' = ClearSlot(meta, id)
    BY <1>18 DEF DeleteFace, CountInv, Enter
  <2>2. /\ Counted(meta', {id})
        /\ ~InUse(meta', id)
        /\ ~InFlash(meta, id) => Counted(meta', {})
    BY <2>1, <1>a, CountedClear
  <2>3. QED
    BY <1>18, <2>2 DEF DeleteFace, CountInv, Enter
<1>19. CASE RmSlot
  <2>1. cur \in Ids /\ Counted(meta, {cur}) /\ ~InUse(meta, cur)
    BY <1>19, <1>a DEF RmSlot, CountInv
  <2>2. /\ meta' = [meta EXCEPT !.faceMapping[cur] = @ \ {"Saved", "Updated"}]
        /\ Goto("upd_meta")
        /\ UNCHANGED metaFile
    BY <1>19, <1>d DEF RmSlot
  <2>3. meta.faceMapping[cur] \ {"Saved", "Updated"} = {}
    <3>1. meta.faceMapping[cur] \subseteq {"Saved", "Updated", "Used"}
      BY <2>1, <1>a, MetadataTypes DEF Bits
    <3>2. QED
      BY <2>1, <3>1 DEF InUse
  <2>4. /\ meta'.numberFaces = meta.numberFaces
        /\ meta'.faceMapping = [meta.faceMapping EXCEPT ![cur] = {}]
    BY <2>2, <2>3, <1>a DEF Metadata
  <2>5. Counted(meta', {})
    BY <2>1, <2>4, <1>a, CountedKeep
  <2>6. QED
    BY <1>19, <2>2, <2>5 DEF CountInv, Goto
<1>20. CASE DelAll
  BY <1>20 DEF DelAll, CountInv, Enter
<1>21. CASE DelAllSlot
  <2>1. cur \in Ids /\ InUse(meta, cur) /\ pc = "delall"
    BY <1>21 DEF DelAllSlot
  <2>2. call # "Init" /\ Counted(meta, {})
    BY <2>1 DEF CountInv, Stored
  <2>3. Counted(meta', {})
    BY <1>21, <2>1, <2>2, <1>a, <1>d, CountedClear DEF DelAllSlot
  <2>4. QED
    BY <1>21, <2>1, <2>2, <2>3 DEF CountInv, DelAllSlot
<1>22. CASE DelAllSkip
  BY <1>22 DEF DelAllSkip, CountInv
<1>23. CASE DelAllEnd
  <2> DEFINE wrong  == meta.numberFaces # 0 \/ status # "Success"
             m      == IF wrong THEN MetaDefault ELSE meta
  <2>1. Counted(m, {})
    <3>1. CASE wrong
      BY <3>1, <1>b
    <3>2. CASE ~wrong /\ call = "Init"
      <4>1. Cardinality(Occupied(meta)) = 0 /\ Occupied(meta) \subseteq Ids
        BY <1>23, <3>2 DEF DelAllEnd, CountInv, Stored, Occupied
      <4>2. Occupied(meta) = {}
        BY <4>1, IdsFinite, FS_EmptySet
      <4>3. UsedIds(meta) = {} /\ \A id \in Ids : meta.faceMapping[id] = {}
        BY <4>2 DEF Occupied, UsedIds, InUse
      <4>4. QED
        BY <3>2, <4>3, FS_EmptySet DEF Counted
    <3>3. CASE ~wrong /\ call # "Init"
      BY <1>23, <3>3 DEF DelAllEnd, CountInv
    <3>4. QED
      BY <3>1, <3>2, <3>3
  <2>2. \/ meta' = m /\ Goto("upd_meta") /\ UNCHANGED lock
        \/ DelAllReturn(m)
    BY <1>23 DEF DelAllEnd
  <2>3. UNCHANGED metaFile
    BY <1>23 DEF DelAllEnd
  <2> HIDE DEF m
  <2>4. QED
    BY <2>1, <2>2, <2>3, <1>b DEF CountInv, DelAllReturn, Goto, Return
<1>24. CASE UpdMeta
  <2>1. PICK o \in SaveOutcomes(metaFile, MetadataImage(meta)) :
          /\ metaFile' = o.content
          /\ \/ UNCHANGED <<meta, lock, ctl>>
             \/ InitDone(meta) /\ UNCHANGED lock
             \/ DelAllReturn(meta)
             \/ ReturnLocked("Success") /\ UNCHANGED meta
             \/ Return("Success") /\ UNCHANGED meta
    BY <1>24 DEF UpdMeta
  <2>2. Counted(meta, {})
    BY <1>24 DEF UpdMeta, CountInv
  <2>3. metaFile' \in {MetadataImage(meta), metaFile, EmptyFile}
    BY <2>1, SaveCases
  <2>4. Stored(MetadataImage(meta))
    BY <2>2, <1>a, ImageStored
  <2>5. metaFile' \notin {NoFile, EmptyFile} => Stored(metaFile')
    BY <2>3, <2>4 DEF CountInv
  <2>6. \/ pc' = "upd_meta" /\ meta' = meta
        \/ pc' = "idle" /\ Counted(meta', {})
        \/ pc' = "init_save" /\ meta' = MetaDefault
    BY <1>24, <2>1, <2>2, <1>a, <1>c
       DEF UpdMeta, InitDone, InitEnd, DelAllReturn, Return, ReturnLocked, Goto
  <2>7. QED
    BY <2>2, <2>5, <2>6 DEF CountInv
<1>25. CASE Block
  BY <1>25 DEF Block, CountInv
<1>26. CASE Crash
  <2>1. metaFile' \in {metaFile, EmptyFile}
    BY <1>26 DEF Crash, Torn
  <2>2. QED
    BY <1>26, <2>1 DEF Crash, CountInv
<1>27. CASE UNCHANGED vars
  BY <1>27 DEF vars, CountInv
<1>28. CASE Invoke
  <2>1. ASSUME NEW id \in Ids, NEW n \in Names, UpdateName(id, n) PROVE CountInv'
    BY <2>1, <1>11 DEF UpdateName
  <2>2. ASSUME NEW id \in Ids, NEW f \in Features, UpdateFace(id, f) PROVE CountInv'
    BY <2>2, <1>11 DEF UpdateFace
  <2>3. ASSUME NEW id \in Ids, DelFaceWithID(id) PROVE CountInv'
    BY <2>3, <1>18 DEF DelFaceWithID
  <2>4. ASSUME NEW n \in Names, DelFaceWithName(n) PROVE CountInv'
    BY <2>4, <1>18 DEF DelFaceWithName
  <2>0. ASSUME NEW id \in Ids, NEW c \in {"UpdateName", "UpdateFace"}, UpdateUnused(c, id)
        PROVE  CountInv'
    BY <2>0 DEF UpdateUnused, Enter, CountInv
  <2>5. QED
    BY <1>28, <1>10, <1>15, <1>20, <1>25, <2>0, <2>1, <2>2, <2>3, <2>4 DEF Invoke
<1>29. QED
  BY <1>1, <1>2, <1>3, <1>4, <1>5, <1>6, <1>7, <1>8, <1>9, <1>13, <1>14, <1>16, <1>17,
     <1>19, <1>21, <1>22, <1>23, <1>24, <1>26, <1>27, <1>28 DEF Next, Step

(* As long as no removal of a file fails, the face count that              *)
(* HAL_Facedb_GetCount reads without the lock is the number of used slots, *)
(* through crashes, failing saves and reads and every sequence of calls.   *)
THEOREM CountCorrect ==
  ASSUME "rm" \notin Failing
  PROVE  Spec => []CountMatchesUsed
<1>1. TypeInv /\ CountInv => CountMatchesUsed
  BY DEF CountInv, CountMatchesUsed, Running, Counted
<1>2. Init => TypeInv /\ CountInv
  BY TypeInit, CountInit
<1>3. TypeInv /\ CountInv /\ [Next]_vars => (TypeInv /\ CountInv)'
  BY TypeStep, CountStep
<1>4. QED
  BY <1>1, <1>2, <1>3, PTL DEF Spec
=============================================================================
