---------------------------- MODULE FirmwareUpdate ----------------------------
(***************************************************************************)
(* The boot loader: it starts the application of the current bank, or,     *)
(* with the button held, becomes a USB disk (source/disk.c) that programs  *)
(* the blocks of a file written to it into one of the two application      *)
(* banks (source/sln_msc_vfs.c) and then makes that bank the current one.  *)
(* Which bank is current is kept in the FICA table, one flash sector       *)
(* (source/flash_ica_driver.c).  A power cut may come between any two      *)
(* flash operations, and each of them may fail.                            *)
(*                                                                         *)
(* The task at work follows todo, the flash operations and the decisions   *)
(* left of the C functions it is in; the first error empties todo.         *)
(*                                                                         *)
(* Flash is counted in sectors, and a packet of the host fills one: bank A *)
(* is followed by bank B and by the file system.                           *)
(***************************************************************************)
EXTENDS Naturals, Sequences

CONSTANTS BankSize,      \* the sectors of a bank
          BlockSize,     \* the sectors of an erase block
          ImageLen,      \* the sectors of an image
          Ordered,       \* does the host send each block once and in order?
          Others,        \* places of other files, relative to the image
          AnyBank,       \* may an image be for the bank in use?
          MaxTransfers,  \* how many files the host sends
          MaxCrashes,    \* how many power cuts there are
          MaxFaults      \* how many flash operations fail

VARIABLES flash,          \* the banks and the file system, by sector
          table,          \* the header of the FICA table in flash
          s_fica,         \* its copy in RAM
          s_newAppImgType, transferState, dataWritten,
          file,           \* the image being sent: its bank, what was sent
          packet,         \* the place of the packet being programmed
          stage,          \* the function at work
          todo,           \* what is left of it
          failed,         \* its status is an error
          raw,            \* that error is not SLN_FLASH_ERROR
          running,        \* the bank of the application that is started
          transfers, crashes, faults,
          replaced        \* a failed check has replaced a valid table

vars == <<flash, table, s_fica, s_newAppImgType, transferState, dataWritten,
          file, packet, stage, todo, failed, raw, running, transfers, crashes,
          faults, replaced>>

ASSUME UpdateAssumption ==
  /\ BlockSize \in Nat \ {0} /\ BankSize \in Nat /\ BankSize % BlockSize = 0
  /\ ImageLen \in 1..BankSize
  /\ Ordered \in BOOLEAN /\ AnyBank \in BOOLEAN
  /\ Others \subseteq 1..(BankSize + BlockSize)
  /\ MaxTransfers \in Nat /\ MaxCrashes \in Nat /\ MaxFaults \in Nat

Banks == {"A", "B"}
Flags == {"OTA", "NAV", "NAP", "NAI", "USB"}
Stages == {"Boot", "SetUsbMode", "Jump", "Again", "SetCur", "Usb", "ExtInit",
           "Packet", "Finalize", "ReRun", "App", "Lost"}

\* A sector in flash: 0 if erased, else the version of what it holds.
Sectors == 1..(2 * BankSize + BlockSize)
Addr(b, i) == (IF b = "A" THEN 0 ELSE BankSize) + i

\* The header of an erased sector is all ones, and -1 is FICA_IMG_TYPE_NONE.
Erased == [valid |-> FALSE, currType |-> "NONE", newType |-> "NONE",
           currBootType |-> "NONE", comm |-> Flags]

\* A header of which only the descriptor and the version were programmed.
Torn == [Erased EXCEPT !.valid = TRUE]

\* All of it 0, which is the type of the boot loader.
Zeroed == [valid |-> FALSE, currType |-> "BOOT", newType |-> "BOOT",
           currBootType |-> "BOOT", comm |-> {}]

\* What FICA_initialize writes.  (The two bits of the update server are left
\* out.)
Factory == [Zeroed EXCEPT !.valid = TRUE, !.currType = "A", !.comm = {"OTA"}]

NoFile == [bank |-> "A", sent |-> {}]

-----------------------------------------------------------------------------
(* Instructions.                                                            *)

Ins(op, arg) == [op |-> op, arg |-> arg]

\* FICA_write_db: the sector is erased, then programmed from RAM page by page;
\* the header is on the first of the four pages.
FICA_write_db == << Ins("erase", ""), Ins("header", ""), Ins("pages", "") >>

FICA_initialize == << Ins("init", "") >>
FICA_GetCurAppStartType == FICA_initialize \o << Ins("getcur", "") >>
FICA_set_comm_flag(f) == << Ins("set", f) >>
FICA_clr_comm_flag(f) == << Ins("clr", f) >>

FICA_set_usb_mode == FICA_initialize \o FICA_set_comm_flag("USB")

\* The check that the new bank is not the current one is commented out.
FICA_app_program_ext_init ==
  FICA_initialize \o FICA_GetCurAppStartType \o FICA_set_comm_flag("NAI")

\* Mutant: the bit that guards the activation is never set.
FinalizeWithoutNAP ==
  FICA_write_db \o FICA_set_comm_flag("NAV") \o << Ins("newtype", "") >>
  \o FICA_write_db \o FICA_clr_comm_flag("NAI")

\* Mutant: the new type is not stored.
FinalizeWithoutNewType ==
  FICA_write_db \o FICA_set_comm_flag("NAV") \o FICA_set_comm_flag("NAP")
  \o FICA_clr_comm_flag("NAI")

\* FICA_write_image_info, the NAV bit, the new type, the NAP bit; the NAI bit
\* goes last.
FICA_app_program_ext_finalize ==
  FICA_write_db \o FICA_set_comm_flag("NAV") \o << Ins("newtype", "") >>
  \o FICA_write_db \o FICA_set_comm_flag("NAP") \o FICA_clr_comm_flag("NAI")

\* FICA_SetCurAppStartType and the bits, once the NAP bit was seen.
FICA_app_program_ext_set_reset_vector ==
  FICA_initialize \o << Ins("activate", "") >> \o FICA_write_db
  \o FICA_clr_comm_flag("NAV") \o FICA_clr_comm_flag("NAP")
  \o FICA_set_comm_flag("OTA")

\* The erasure comes first; FICA_app_program_ext_abs checks the place after it.
write_packet == << Ins("erasebank", ""), Ins("program", "") >>

-----------------------------------------------------------------------------
\* A device as it leaves the factory: an application in bank A, and a table
\* that is not there yet.
Init ==
  /\ flash = [a \in Sectors |-> IF a \in BankSize+1 .. 2*BankSize THEN 0 ELSE 1]
  /\ table = Erased
  /\ s_fica = Erased
  /\ s_newAppImgType = "NONE"
  /\ transferState = "IDLE"
  /\ dataWritten = 0
  /\ file = NoFile
  /\ packet = 0
  /\ stage = "Boot"
  /\ todo = <<>>
  /\ failed = FALSE /\ raw = FALSE
  /\ running = "NONE"
  /\ transfers = 0 /\ crashes = 0 /\ faults = 0
  /\ replaced = FALSE

\* The first statement left is op.
At(op) == todo # <<>> /\ Head(todo).op = op

\* A function is called, and one returns.
Begin(s, is) == /\ stage' = s /\ todo' = is
                /\ failed' = FALSE /\ raw' = FALSE
Returns(s) == stage = s /\ todo = <<>>

host == <<file, transfers>>
counters == <<crashes, faults, replaced>>

-----------------------------------------------------------------------------
(* The table: flash_ica_driver.c.                                           *)

\* FICA_initialize without a table: its copy is zeroed, the sector is erased
\* once more, and a record is written for each image.
NewTable ==
  /\ s_fica' = Zeroed
  /\ todo' = << Ins("blank", "") >>
             \o (FICA_write_db \o FICA_write_db \o FICA_write_db \o Tail(todo))

\* FICA_initialize reads the table, and makes a new one if it is not valid.
DoInitialize ==
  /\ At("init")
  /\ IF table.valid THEN s_fica' = table /\ todo' = Tail(todo) ELSE NewTable
  /\ UNCHANGED <<flash, table, s_newAppImgType, transferState, dataWritten,
                 packet, stage, failed, raw, running, host, counters>>

\* FICA_verify_ext_flash fails: the table is not read, hence not found, and
\* the error is forgotten.
CheckFails ==
  /\ At("init")
  /\ faults < MaxFaults
  /\ faults' = faults + 1
  /\ replaced' = (replaced \/ table.valid)
  /\ NewTable
  /\ UNCHANGED <<flash, table, s_newAppImgType, transferState, dataWritten,
                 packet, stage, failed, raw, running, host, crashes>>

\* The header is filled in once the sector is erased.
BlankTable ==
  /\ At("blank")
  /\ table' = Erased
  /\ s_fica' = Factory
  /\ todo' = Tail(todo)
  /\ UNCHANGED <<flash, s_newAppImgType, transferState, dataWritten, packet,
                 stage, failed, raw, running, host, counters>>

\* The rest of FICA_GetCurAppStartType: neither A nor B is made A.
DoGetCur ==
  /\ At("getcur")
  /\ IF s_fica.currType \in Banks
     THEN todo' = Tail(todo) /\ UNCHANGED s_fica
     ELSE /\ s_fica' = [s_fica EXCEPT !.currType = "A"]
          /\ todo' = FICA_write_db \o Tail(todo)
  /\ UNCHANGED <<flash, table, s_newAppImgType, transferState, dataWritten,
                 packet, stage, failed, raw, running, host, counters>>

\* Mutant: the table is written even if the bit is set already.
SetFlagAlways ==
  /\ At("set")
  /\ s_fica' = [table EXCEPT !.comm = @ \union {Head(todo).arg}]
  /\ todo' = FICA_write_db \o Tail(todo)
  /\ UNCHANGED <<flash, table, s_newAppImgType, transferState, dataWritten,
                 packet, stage, failed, raw, running, host, counters>>

\* FICA_set_comm_flag: the table is read again, and written if it changes.
DoSetFlag ==
  /\ At("set")
  /\ s_fica' = [table EXCEPT !.comm = @ \union {Head(todo).arg}]
  /\ todo' = (IF Head(todo).arg \in table.comm THEN <<>> ELSE FICA_write_db)
             \o Tail(todo)
  /\ UNCHANGED <<flash, table, s_newAppImgType, transferState, dataWritten,
                 packet, stage, failed, raw, running, host, counters>>

\* Mutant: the bit is cleared in RAM only, for the next write to store.
ClearFlagInRam ==
  /\ At("clr")
  /\ s_fica' = [table EXCEPT !.comm = @ \ {Head(todo).arg}]
  /\ todo' = Tail(todo)
  /\ UNCHANGED <<flash, table, s_newAppImgType, transferState, dataWritten,
                 packet, stage, failed, raw, running, host, counters>>

\* FICA_clr_comm_flag.
DoClrFlag ==
  /\ At("clr")
  /\ s_fica' = [table EXCEPT !.comm = @ \ {Head(todo).arg}]
  /\ todo' = (IF Head(todo).arg \in table.comm THEN FICA_write_db ELSE <<>>)
             \o Tail(todo)
  /\ UNCHANGED <<flash, table, s_newAppImgType, transferState, dataWritten,
                 packet, stage, failed, raw, running, host, counters>>

DoNewType ==
  /\ At("newtype")
  /\ s_fica' = [s_fica EXCEPT !.newType = s_newAppImgType]
  /\ todo' = Tail(todo)
  /\ UNCHANGED <<flash, table, s_newAppImgType, transferState, dataWritten,
                 packet, stage, failed, raw, running, host, counters>>

\* FICA_app_program_ext_set_reset_vector up to the write of currType: an
\* error without the NAP bit or with no new type.
DoActivate ==
  /\ At("activate")
  /\ s_fica' = IF "NAP" \in table.comm
               THEN [table EXCEPT !.currType = table.newType] ELSE table
  /\ s_newAppImgType' = IF "NAP" \in table.comm THEN table.newType
                        ELSE s_newAppImgType
  /\ failed' = ("NAP" \notin table.comm \/ table.newType = "NONE")
  /\ todo' = IF failed' THEN <<>> ELSE Tail(todo)
  /\ UNCHANGED <<flash, table, transferState, dataWritten, packet, stage, raw,
                 running, host, counters>>

-----------------------------------------------------------------------------
(* The flash: sln_flash.c.                                                  *)

\* SLN_Erase_Sector and SLN_Write_Flash_Page on the sector of the table.
WriteTable ==
  /\ \/ At("erase") /\ table' = Erased
     \/ At("header") /\ table' = s_fica
     \/ At("pages") /\ UNCHANGED table
  /\ todo' = Tail(todo)
  /\ UNCHANGED <<flash, s_fica, s_newAppImgType, transferState, dataWritten,
                 packet, stage, failed, raw, running, host, counters>>

\* FICA_Erase_Bank: a whole block from a block boundary, else one sector.
ErasedBy(a) == IF (a - 1) % BlockSize = 0 THEN a .. a + BlockSize - 1 ELSE {a}

\* Mutant: the place is not offset by the start of the bank.
EraseBankA ==
  /\ At("erasebank")
  /\ flash' = [a \in Sectors |-> IF a \in ErasedBy(packet) THEN 0 ELSE flash[a]]
  /\ todo' = Tail(todo)
  /\ UNCHANGED <<table, s_fica, s_newAppImgType, transferState, dataWritten,
                 packet, stage, failed, raw, running, host, counters>>

EraseBank ==
  /\ At("erasebank")
  /\ flash' = [a \in Sectors |->
                 IF a \in ErasedBy(Addr(s_newAppImgType, packet)) THEN 0
                 ELSE flash[a]]
  /\ todo' = Tail(todo)
  /\ UNCHANGED <<table, s_fica, s_newAppImgType, transferState, dataWritten,
                 packet, stage, failed, raw, running, host, counters>>

\* FICA_app_program_ext_abs: within the bank, and only with the NAI bit.
Program ==
  /\ At("program")
  /\ failed' = (packet > BankSize \/ "NAI" \notin table.comm)
  /\ flash' = IF failed' THEN flash
              ELSE [flash EXCEPT ![Addr(s_newAppImgType, packet)] =
                                   transfers + 1]
  /\ s_fica' = IF packet > BankSize THEN s_fica ELSE table
  /\ todo' = <<>>
  /\ UNCHANGED <<table, s_newAppImgType, transferState, dataWritten, packet,
                 stage, raw, running, host, counters>>

\* FICA_write_db returns the status of a failed erasure as it is, a positive
\* one.  At the end of a transfer that status is passed on, but from
\* FICA_initialize, after which FICA_app_program_ext_set_reset_vector sees no
\* NAP bit and returns SLN_FLASH_ERROR.
PassedOn ==
  /\ stage = "Finalize" /\ At("erase")
  /\ ~\E k \in DOMAIN todo : /\ todo[k].op = "activate"
                             /\ \A j \in 1..k : todo[j].op # "init"

\* A flash operation fails, and leaves the flash as it was.
Fault ==
  /\ faults < MaxFaults
  /\ \/ At("blank") \/ At("erase") \/ At("header") \/ At("pages")
     \/ At("erasebank") \/ At("program")
  /\ faults' = faults + 1
  /\ failed' = TRUE /\ raw' = PassedOn
  /\ todo' = <<>>
  /\ UNCHANGED <<flash, table, s_fica, s_newAppImgType, transferState,
                 dataWritten, packet, stage, running, host, crashes, replaced>>

-----------------------------------------------------------------------------
(* The boot loader's tasks: bootloader.c, disk.c, sln_msc_vfs.c.            *)

\* BootloaderMain: is the button held?
CheckForUpdate ==
  /\ stage = "Boot"
  /\ \/ Begin("SetUsbMode", FICA_set_usb_mode)
     \/ Begin("Jump", FICA_GetCurAppStartType)
  /\ UNCHANGED <<flash, table, s_fica, s_newAppImgType, transferState,
                 dataWritten, packet, running, host, counters>>

\* The boot loader starts anew: RAM is as its start-up code initialises it,
\* and the host sees a new disk.
Start ==
  /\ Begin("Boot", <<>>)
  /\ s_fica' = Erased
  /\ s_newAppImgType' = "NONE"
  /\ transferState' = "IDLE" /\ dataWritten' = 0 /\ packet' = 0
  /\ file' = NoFile
  /\ UNCHANGED <<flash, running, transfers, faults, replaced>>

\* jumpToMainAppTask after FICA_GetCurAppStartType: on an error the boot
\* loader starts over, else the type is asked for once more.
GotAppType ==
  /\ Returns("Jump")
  /\ IF failed
     THEN Start /\ UNCHANGED <<table, crashes>>
     ELSE /\ Begin("Again", FICA_GetCurAppStartType)
          /\ running' = s_fica.currType
          /\ UNCHANGED <<flash, table, s_fica, s_newAppImgType, transferState,
                         dataWritten, packet, host, counters>>

\* Another answer is overruled (FICA_SetCurAppStartType); an error is not
\* looked at, and neither is the image.
JumpToApp ==
  /\ IF Returns("Again") /\ ~failed /\ s_fica.currType # running
     THEN /\ s_fica' = [s_fica EXCEPT !.currType = running]
          /\ Begin("SetCur", FICA_write_db)
     ELSE /\ Returns("Again") \/ Returns("SetCur")
          /\ Begin("App", <<>>)
          /\ UNCHANGED s_fica
  /\ UNCHANGED <<flash, table, s_newAppImgType, transferState, dataWritten,
                 packet, running, host, counters>>

\* USB_MSC_Init, MSC_VFS_Init: the status of FICA_set_usb_mode is ignored.
UsbInit ==
  /\ Returns("SetUsbMode")
  /\ Begin("Usb", <<>>)
  /\ transferState' = "IDLE"
  /\ dataWritten' = 0
  /\ UNCHANGED <<flash, table, s_fica, s_newAppImgType, packet, running, host,
                 counters>>

\* The bank that the boot loader would start.
Current == IF table.valid /\ table.currType \in Banks THEN table.currType
           ELSE "A"

\* MSC_VFS_WriteResponse, idle: the directory entry of a *.BIN file.  Nothing
\* keeps the user from an image for the bank in use.
WriteDirectory ==
  /\ stage = "Usb" /\ transferState = "IDLE"
  /\ transfers < MaxTransfers
  /\ transferState' = "START"
  /\ transfers' = transfers + 1
  /\ \E b \in Banks : /\ AnyBank \/ b # Current
                     /\ file' = [bank |-> b, sent |-> {}]
  /\ UNCHANGED <<flash, table, s_fica, s_newAppImgType, dataWritten, packet,
                 stage, todo, failed, raw, running, counters>>

\* What the host may send next: a block of the file or of another file.
Sendable ==
  Others \union
  { i \in 1..ImageLen : Ordered => file.sent = 1..(i - 1) }

\* MSC_VFS_WriteResponse, started: the first block of an image begins with a
\* reset vector, which names the bank; any other packet is ignored.
WriteFirst(i) ==
  /\ stage = "Usb" /\ transferState = "START"
  /\ i \in Sendable
  /\ file' = [file EXCEPT !.sent = @ \union ({i} \ Others)]
  /\ IF i = 1
     THEN /\ packet' = 1
          /\ s_newAppImgType' = file.bank
          /\ Begin("ExtInit", FICA_app_program_ext_init)
     ELSE UNCHANGED <<packet, s_newAppImgType, stage, todo, failed, raw>>
  /\ UNCHANGED <<flash, table, s_fica, transferState, dataWritten, running,
                 transfers, counters>>

\* On success the first block goes on as any other, on an error the
\* application task is resumed, which starts the boot loader anew.
ExtInitReturns ==
  /\ Returns("ExtInit")
  /\ IF failed
     THEN transferState' = "ERROR" /\ Begin("ReRun", <<>>)
     ELSE transferState' = "ACTIVE" /\ Begin("Packet", write_packet)
  /\ UNCHANGED <<flash, table, s_fica, s_newAppImgType, dataWritten, packet,
                 running, host, counters>>

\* MSC_VFS_WriteResponse, active: a packet not before the image.
WritePacket(i) ==
  /\ stage = "Usb" /\ transferState = "ACTIVE"
  /\ i \in Sendable
  /\ file' = [file EXCEPT !.sent = @ \union ({i} \ Others)]
  /\ packet' = i
  /\ Begin("Packet", write_packet)
  /\ UNCHANGED <<flash, table, s_fica, s_newAppImgType, transferState,
                 dataWritten, running, transfers, counters>>

\* Every packet counts; enough of them end the transfer, and the application
\* task finalizes it.
PacketReturns ==
  /\ Returns("Packet")
  /\ dataWritten' = IF failed THEN dataWritten ELSE dataWritten + 1
  /\ CASE failed -> transferState' = "ERROR" /\ Begin("ReRun", <<>>)
       [] ~failed /\ dataWritten' >= ImageLen ->
            /\ transferState' = "FINAL"
            /\ Begin("Finalize", FICA_app_program_ext_finalize
                                 \o FICA_app_program_ext_set_reset_vector)
       [] OTHER -> Begin("Usb", <<>>) /\ UNCHANGED transferState
  /\ UNCHANGED <<flash, table, s_fica, s_newAppImgType, packet, running, host,
                 counters>>

\* USB_Transfer_Finalize after its two calls: only SLN_FLASH_ERROR counts as
\* an error.
FinalizeReturns ==
  /\ Returns("Finalize")
  /\ transferState' = IF failed /\ ~raw THEN "ERROR" ELSE transferState
  /\ Begin("ReRun", <<>>)
  /\ UNCHANGED <<flash, table, s_fica, s_newAppImgType, dataWritten, packet,
                 running, host, counters>>

\* ReRunBootloader jumps to the address in the record of the current boot
\* image; with no such type it reads outside the table, and anything follows.
ReRunBootloader ==
  /\ stage = "ReRun"
  /\ \/ table.currBootType = "BOOT" /\ Start
     \/ /\ table.currBootType = "NONE"
        /\ Begin("Lost", <<>>)
        /\ UNCHANGED <<flash, s_fica, s_newAppImgType, transferState,
                       dataWritten, packet, running, host, faults, replaced>>
  /\ UNCHANGED <<table, crashes>>

\* The user resets a device that runs its application, waits for the host, or
\* hangs.
Reset ==
  /\ stage \in {"App", "Usb", "Lost"}
  /\ Start
  /\ UNCHANGED <<table, crashes>>

\* Power is cut in the middle of anything; the page of the header that is
\* being programmed may be there in part.
Crash ==
  /\ crashes < MaxCrashes
  /\ stage \notin {"Boot", "App", "Usb", "Lost"}
  /\ crashes' = crashes + 1
  /\ table' \in {table} \union (IF At("header") THEN {Torn} ELSE {})
  /\ Start

-----------------------------------------------------------------------------
Table == \/ DoInitialize \/ DoGetCur \/ DoSetFlag \/ DoClrFlag \/ DoNewType
         \/ DoActivate \/ WriteTable \/ BlankTable

Loader == \/ Table \/ EraseBank \/ Program \/ GotAppType \/ JumpToApp
          \/ UsbInit \/ ExtInitReturns \/ PacketReturns \/ FinalizeReturns
          \/ ReRunBootloader

Host == WriteDirectory \/ \E i \in Sectors : WriteFirst(i) \/ WritePacket(i)

Next == \/ Loader \/ CheckForUpdate \/ Host \/ Reset
        \/ Fault \/ CheckFails \/ Crash

Spec == Init /\ [][Next]_vars

\* A function that is running goes on.  Nothing is assumed of the button, of
\* the host and of the user.
FairSpec == Spec /\ WF_vars(Loader)

-----------------------------------------------------------------------------
(* Properties.                                                              *)

\* Every variable has its type.
TypeOK ==
  /\ flash \in [Sectors -> 0..(MaxTransfers + 1)]
  /\ \A h \in {table, s_fica} :
       /\ h.valid \in BOOLEAN /\ h.comm \subseteq Flags
       /\ h.currType \in Banks \union {"NONE", "BOOT"}
       /\ h.newType \in Banks \union {"NONE", "BOOT"}
       /\ h.currBootType \in {"NONE", "BOOT"}
  /\ s_newAppImgType \in Banks \union {"NONE"}
  /\ transferState \in {"IDLE", "START", "ACTIVE", "FINAL", "ERROR"}
  /\ dataWritten \in 0..ImageLen
  /\ file.bank \in Banks /\ file.sent \subseteq 1..ImageLen
  /\ packet \in 0..(BankSize + BlockSize)
  /\ stage \in Stages /\ failed \in BOOLEAN /\ raw \in BOOLEAN
  /\ running \in Banks \union {"NONE"}

\* The bank holds all of one image.
Whole(b) ==
  \E v \in 1..(MaxTransfers + 1) :
    \A i \in 1..ImageLen : flash[Addr(b, i)] = v

\* Whatever is cut off or fails, the boot loader only ever starts a whole
\* image (jumpToMainAppTask looks at none).  A table lost in FICA_write_db
\* makes bank A current again, and that bank is never left in part while the
\* table is being written: the bits of an interrupted transfer stay set.  This
\* takes the USB bit as well, of which CheckForMSDMode does not know whether
\* it was written, so a second flash error can defeat it; and it takes a
\* FICA_initialize that does not replace a table that is there.
\* flash_ica_driver.h: FICA_app_program_ext_finalize works "by verifying the
\* Signature".
BootsWholeImage ==
  stage = "App" /\ faults < 2 /\ ~replaced => Whole(running)

\* A transfer changes nothing but the bank it is for: not the application in
\* use, and not the file system.  FICA_app_program_ext_abs: "length can not be
\* greater than the total flash size allocated for images".
OnlyNewBankChanges ==
  [][\A a \in Sectors : flash'[a] # flash[a] =>
       \E i \in 1..BankSize : a = Addr(s_newAppImgType, i)]_vars

\* The file's image is the current one, and no bit of its transfer is left.
MadeCurrent ==
  /\ table.valid /\ table.currType = file.bank
  /\ table.comm \intersect {"NAV", "NAP", "NAI"} = {}

\* When FICA_app_program_ext_finalize and then
\* FICA_app_program_ext_set_reset_vector return without an error, they have
\* made the image current, whatever interrupted the transfers before it and
\* whichever of the bits they left: FICA_set_comm_flag and FICA_clr_comm_flag
\* then write nothing, and the next step must not rely on it.
FinishedIsCurrent == Returns("Finalize") /\ ~failed => MadeCurrent

\* Once all of a file was received, unless a power cut or flash error comes, the
\* new image is the one that is started (FICA_app_program_ext_finalize,
\* FICA_app_program_ext_set_reset_vector), and no bit of the transfer is left.
NewImageIsCurrent ==
  \A n \in 0..(MaxCrashes + MaxFaults) :
    (stage = "Finalize" /\ ~failed /\ crashes + faults = n)
      ~> (crashes + faults > n \/ MadeCurrent)
=============================================================================
