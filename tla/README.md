# A TLA+ model of the MCU smart lock

The repository holds the firmware of a face-recognition door lock on an
i.MX RT106F (`rt106f_smart_lock`, FreeRTOS on one core), its bootloader
(`rt106f_bootloader`), the firmware of two helper controllers
(`lpc845_low_power_control`, `k32w_ble`) and an Android application
(`smartlockmanager`).  Most of the rest is vendored (CMSIS, FreeRTOS, lwIP,
mbedTLS, littlefs, USB, Wi-Fi).  This directory models the parts that carry the
program's own logic.  Paths below are relative to
`src/rt106f_smart_lock/sln_framework/` unless they start with `rt106f_`.

## Inventory

| Part | State | Operations | Interacts with |
|---|---|---|---|
| Face database `hal/vision/hal_sln_facedb.c` | metadata and face entries in RAM, a `Metadata` file and one file per face in flash, one mutex | init and load, add, rename, update, delete one or all, save, read | flash HAL; called by the Oasis application; the count is read by the UI without the lock |
| Flash HAL `hal/misc/hal_flash_littlefs.c`, littlefs | files | save, read, rm, mkdir, append, rename | face database, configuration |
| Task and message layer `core/fwk_task.c`, `core/fwk_message.c` | one queue of ten message *pointers* per task | put, put from interrupt, handle | all managers |
| Camera manager `core/fwk_camera_manager.c`, CSI camera `hal/camera/hal_camera_csi_shared_dual_gc0308.c`, `drivers/fsl_csi.c` | four frame buffers that circulate between receiver and task, which of the two sensors runs, pending requests of display and algorithm | frame-done interrupt, dequeue, answer, enqueue | display and algorithm managers |
| Display manager `core/fwk_display_manager.c`, LCD `hal/display/hal_display_lcdif_rk024hh298.c` | two frame buffers, the one set last, a flag shared with the interrupt | request, blit, LCD interrupt, change of the source | camera manager |
| Vision algorithm manager `core/fwk_vision_algo_manager.c`, Oasis application `hal/vision/hal_vision_algo_oasis_lite2D.c` | frames ready, run flag and the flag saved at a stop, blockers, timers, results | response, run, stop and start, registration, timers | camera, output, low power managers, face database |
| Input manager `core/fwk_input_manager.c` | one static message per device | receive, distribute | all managers |
| Output manager `core/fwk_output_manager.c` | receivers, sleep flag | result, notify, register, unregister | UI, LEDs, audio |
| Low power manager `core/fwk_lpm_manager.c` | usage count per device, idle and pre-enter timers, mode | get, put, timers, enable | timer task, all managers |
| Framework timers `core/fwk_timer.c` | heap object and mutex per timer | start, stop, reset, callback | Oasis application, LPM |
| Flash image table `rt106f_bootloader/source/flash_ica_driver.c`, `bootloader.c` | a table in one flash sector: images, start type, update flags | program an image, choose the image to start | mass storage update |
| Mass storage update `rt106f_bootloader/source/sln_msc_vfs.c`, `disk.c` | state of the transfer, bytes written | directory entry, packet, finalize | USB host, flash image table |
| Firmware update server `rt106f_bootloader/common/comms_handler/` | the current job, bytes written | start, block, stop, check, activate | flash image table |

What is hard, and therefore worth a model: power cuts between two flash
operations (the lock powers itself off to sleep), flash operations that fail
one by one, interrupts inside unprotected sequences of assignments, messages
whose content is shared and read late, requests that must never get lost
because nothing repeats them, several parties that stop and start one thing,
timers that are stopped on two sides.  `PROJECT.json` lists these hazards at
their lines.

What makes the parts correct:

- face database: what it reports as saved is what the next boot loads, deleted
  faces stay deleted, the count is the number of users, every call returns, no
  power cut makes it unusable;
- pipeline: buffers have one owner, no task waits for what cannot come, no
  request is lost, a frame is not overwritten while it is used, frames keep
  coming;
- Oasis application: it is stopped exactly while somebody blocks it, and every
  operation ends, whatever the timers do;
- events: the last event of a device arrives, nobody acts on an old one after a
  new one, every block of memory is freed once;
- bootloader: whatever is cut off, it starts a whole image; a transfer touches
  only its bank; a file received as a whole becomes the current image.

## Modules

| Module | Content |
|---|---|
| `FaceDb` | the face database over the flash files |
| `FaceStore` | what the face database promises: a durable store of faces |
| `FaceDbProofs` | theorems about `FaceDb`: types and the count |
| `FaceDbDurable` | theorems about `FaceDb`: what the flash holds, and that it implements `FaceStore` |
| `MCFaceDb` | `FaceDb` for TLC |
| `FramePipeline` | CSI receiver, camera, display and algorithm tasks, LCD interrupt, stop and start of the algorithm |
| `OasisTimers` | the Oasis application's run flag, timers and events, on the algorithm and the timer task |
| `FirmwareUpdate` | the boot loader: FICA table, boot selection, update over USB |
| `EventDispatch` | from an input device over the input manager to the tasks, and the life of the messages |
| `QueueCounting` | lemmas on how often something is in a queue, for the proofs about queues |
| `FramePipelineProofs` | theorems about `FramePipeline`: types, stop and start |
| `FramePipelineTokens` | theorems about `FramePipeline`: buffers, queues and requests, by counting |
| `OasisTimersProofs`, `EventDispatchProofs`, `FirmwareUpdateProofs` | theorems about these three |
| `MCFramePipeline`, `MCOasisTimers`, `MCFirmwareUpdate`, `MCEventDispatch` | these four for TLC |

Definitions that begin with "Mutant:" in their comment are small changes of the
definition below them, as a plausible slip would make them.  No specification
uses them; each shows that a property depends on the line it changes.

### FaceDb

`meta` and `entry` are `s_OasisMetadata` and `s_FaceDB`, `lock` is
`s_FaceDBLock`; `dbDir`, `metaFile` and `file` are the flash.  `pc`, `call`,
`cur`, `status`, `updateMetadata` and `ret` are the program counter and locals of
the one task that calls the database.  An action is one flash operation with the
assignments around it, so `Crash` can fall between any two.  `numberFaces` wraps
like the `uint16_t` it is.  The four bits of a slot are kept; names and feature
vectors are members of small sets.

The flash follows littlefs as `sln_flash_littlefs.c` uses it: a file is committed
when it is closed, a first open creates it empty, so a reset can leave an empty
file but never half of a new content.  `Failing` names the operations that may
report an error.  `Init` starts from an empty flash or from one another firmware left
(`LegacyMeta`); `Legacies` says which: another feature version ("old"), or the same
version with larger or smaller entries.  Entries are as long as 1, 2 (the current size)
or 3 units, so that a read that ends early leaves a part of a face (`ReadPart`).

The calls are made with ids that exist, in use or not.  (The range check of
`HAL_Facedb_UpdateName`, line 926, lets any id through; what it overwrites then is not
modelled.)  An update of a slot that is not in use is `UpdateUnused`: it logs an error
and reports success.

`AUTOSAVE` is the compile-time switch; the firmware sets it.  Reading calls
(`GetIds`, `GetFace`, `GetName`...) change nothing, so only the lock they take is
modelled.

`FaceStore` is the abstract specification: a call that reports success had its
whole effect on what the next boot finds, except that an update may have had none if the
slot has no face, a failed or interrupted one had its
effect or none (part of it for "delete all").  `StoreRefinement` is that
`FaceDb` implements it, with the store mapped to what a boot would load from the
files (`Durable`).

### FramePipeline

One action is what a task or an interrupt does between two points where another
can interfere.  The queues hold pointers: the content of the static messages
(`msg`, `dispReq`, `dispResp`) is in variables that are read when the message is
handled.  `CsiFrameDone` and `LcdFrameDone` are the two interrupts.  The blit is
split into its three assignments, and the change of the output source into its
two, because the LCD interrupt shares those variables with no protection; the
driver calls that mask the CSI interrupt are one step.  Copying and
converting pixels is left out; who owns which buffer at that moment is kept.
`LcdFrameDone` is enabled only when it changes something, the other interrupts of
the panel stutter.

`Devices` says what is registered beside the camera: the LCD is not when the
configuration selects the USB display (`source/app_hal_registration.c`).
Task priorities are not modelled, so the model allows more interleavings than
the scheduler.  The memcpy of a display request is one step.  The run
flag is kept as stopped or not: registration, recognition and "result shown" are
all running; `OasisTimers` has them apart, without the frames.

### OasisTimers

The algorithm task works off `todo`, a sequence of instructions: a C function is
the sequence of the calls it makes and of the assignments between them.  One
instruction is one start of a timer, one half of `FWK_Timer_Stop`, or such
assignments.  The timer task has the highest priority of the firmware, so a
callback (`Expire`) is one step that falls between any two instructions.  The one
exception is a callback that stops the very timer the task is stopping: it waits
for that timer's lock and then works on freed memory.  `Stopping` recognises
this, sets `raced`, and the model ends there because what follows is undefined.

`armed` are the timers whose pointer is set; `stray` counts running timers whose
pointer was overwritten (`FWK_Timer_Start` does not look at it), whose callback
then finds the newer timer.  `timer_timeout`, `run_flag`, `prevRunFlag`,
`blockingList` and `result` are the variables of `s_OasisLite`, `result` reduced to
operation and outcome.  The inference chooses its outcome.  Whether somebody uses
the system when a result expires (`FWK_LpmManager_RequestStatus`) is a choice too.

### FirmwareUpdate

`todo` again holds what is left of the functions at work, one flash operation or
one decision per instruction; the first error empties it, as the chains of
`if (SLN_FLASH_NO_ERROR == status)` do.  `FICA_write_db` is an erasure, the page
with the header and the other pages, so `Crash` finds the table erased, torn or
complete; of the records only the first page is ever read.  A packet is one
sector, a bank a few, with `BlockSize` sectors to an erase block; sectors hold the
number of the transfer that wrote them, which is all `Whole` needs.  `Fault` makes
any flash operation fail; `raw` says that the status of the failure is the positive
one of an erasure and not `SLN_FLASH_ERROR`, which `FinalizeReturns` tells apart as
`disk.c` line 455 does.  `CheckFails` is a failing `FICA_verify_ext_flash`:
`FICA_initialize` then makes a new table (`NewTable`, `BlankTable`) as if there were
none, and `replaced` notes that there was one.  Before it jumps, the boot loader asks
for the current type a second time (stage `Again`) and overrules a different answer
(`SetCur`).  The two bits of the update server and the retries of USB are left out.

Assumed of the outside: a packet that is not the first of an image has no word that
passes for a reset vector.  `AnyBank` says whether the user may send an image for the
bank in use (the code's check of this is commented out); if it is FALSE, the images
are for the other bank.  `Ordered` says that the host writes each block of the file
once and in order, `Others` where else on the disk it writes.

### EventDispatch

`inputQueue` holds devices, since the queue holds pointers to the one message of
each: `msgs` and `event` are read when the message is handled.  The events of the
push buttons and of the Bluetooth device are handed on by pointer, the commands of
the shell are copied.  `button` is the state of the buttons: after an event the
interrupts of all of them are off until the blocking timer (2 s) expires, except
that a release may still come between the reading of the pin by the callback of a
long press and its event.
Each receiver gets a message from the heap; `allocated` counts the blocks in use and
`lost` those of messages a full queue did not take.  Events are numbered per device;
the board's button HAL has the identifiers 1 and 2 only, so that the handler's first
case, without a receiver, is never taken.  `ManagerCallback` are the messages of the vision algorithm and output
managers; a drawn result adds the overlay message to the camera task.  By priority
the Bluetooth and timer tasks (7) come before the input task (5), which comes before
the output task and the algorithm task, the lowest, whose inferences are long
(`source/main.cpp`, `fwk_task.c`); in the model the tasks interleave freely.
Left out, as nothing in this firmware reaches them: the sleep flag of the output task
(set by a message of a low power device) and the messages of another core.  Left out
too: the shell's queries about managers (`kInputEventID_FrameworkRecv`), which are
answered from constant data, but fill the shell's message as its events do.

## Runs

| Run | Shows | Bounds |
|---|---|---|
| `facedb_crash` | `TypeOK`, `SavedIsDurable`, `StoreRefinement`, `CallsReturn` with a crash between any two flash operations, failing reads and mkdir, and faces of another version or with larger entries | 3 slots, 2 names, 2 feature vectors: enough for a slot before, at and after the one worked on |
| `facedb_errors` | `CountMatchesUsed`, `DeletedStaysDeleted`, `UsedSlotsHoldFaces` with failing saves too, and the same firmware changes | 3 slots, 2 names, 1 vector |
| `pipeline` | `TypeOK`, `DequeueFindsFrame`, `CameraBuffersKept`, `CameraQueueBounded`, `DisplayStaysPending`, `DisplayFramesKeepComing` | 3 camera buffers, queues of 10, one exposure event or change of source |
| `pipeline_algo` | `AlgoFramesPending`, `StoppedIffBlocked`, `AlgoRunsAgain` | algorithm only, 3 stop or start events |
| `oasis` | `TypeOK`, `OperationCanEnd`, `StoppedIffBlocked`, `BackToRecognition` | smart lock mode, any 4 of 9 kinds of events: a stop, a start and two operations |
| `update` | `TypeOK`, `BootsWholeImage`, `FinishedIsCurrent`, `OnlyNewBankChanges`, `NewImageIsCurrent` | 3 files of 3 sectors for the bank not in use, banks of 4, blocks of 2, 2 power cuts, 2 flash errors: both banks are rewritten, with a cut in each |
| `dispatch` | `TypeOK`, `EveryBlockOwned`, `NewestLast`, `LastEventArrives` | queues of 2, three events and one manager's message: enough to fill every queue and to overwrite a queued message twice |
| `facedb_lock`, `facedb_laterboot`, `pipeline_answer`, `pipeline_stable`, `update_bounds` | disagreements between the code and what is said of it, below | |

There are no state constraints.  The bounds in guards (`MaxEvents`, `MaxPosts`,
`MaxTransfers`, `MaxCrashes`, `MaxFaults`) count what comes from outside; the cycle
of frames, timers, inferences and boots is unbounded.  The firmware
has four camera buffers; one is lost to the receiver at the start (the first
frame is dequeued while the message has no data, and is never enqueued), so three
leave two in circulation, the least with which frames flow, and the receiver runs
out of buffers more often than with four.

Fairness: `FairSpec` of `FaceDb` is weak fairness of the steps of the calling
task, which nothing but the lock and the flash can hold up; there is none on new
calls or crashes.  `FairSpec` of `FramePipeline` is weak fairness of the two
interrupts (both devices run freely once started) and of each task.  The tasks
block on their queues when they have nothing to do and the frame rate leaves
time for the lower priorities, so none is starved.  No fairness is put on single
actions or on events.  `OasisTimers`: the algorithm task goes on, inferences keep
coming (which `pipeline_algo` shows while it is not stopped), and a timer nobody
stops expires; not the no-face timer, which every face sets back.
`FirmwareUpdate`: a function that runs goes on; nothing is assumed of button, host
and user.  `EventDispatch`: each task goes on; nothing is assumed of devices.

`oasis` does not check for deadlock: once all events have come the application may
stay stopped, and the model ends where a freed timer is used.

`BootsWholeImage` is stated for at most one flash error, and that error must not be a
failed check of the flash by which `FICA_initialize` replaces a valid table
(`replaced`): then one error is enough to start a partial image (see below).  It is a
close call also otherwise: the
table is lost in every rewriting, bank A is current then, and only because an
interrupted transfer leaves its bits set is the table not rewritten while bank A is
there in part.  A second flash error at the right place (the status ignored at
`disk.c` line 550) defeats this.

`CallsReturn` is checked where saves do not fail: the metadata is written in a
loop that ends only with success (line 188), and it is checked without
`HAL_Facedb_SaveFace`, which keeps the lock (`facedb_lock`).

`CameraQueueBounded` is about the messages the pipeline itself makes.  Enough
events from outside at one time fill any queue, and a request dropped then is
never repeated; the property says how many places are left for them.

### Disagreements found

- `facedb_lock`: `HAL_Facedb_SaveFace` never releases the lock.
- `facedb_laterboot`: a reset between the removal of the last face's file and the
  metadata update makes every later initialisation fail.
- `pipeline_answer`: for the first frame after a switch of the sensors the static
  message still names the frame before; requests are answered from a buffer that
  the receiver may be filling.
- `pipeline_stable`: a stop and a start between the two frames of a round start a second
  round of requests; when the first round completes, the algorithm runs on a frame that
  the camera has a request to write.
- `update_bounds`: a packet behind the end of the bank erases a block there before
  its place is checked and refused.

Seen in the models and not given a run: a failed removal of a face leaves a slot
that is stored but not counted (`CountMatchesUsed` with `"rm"` in `Failing`); a face
whose first save failed is "saved" by a rename, but the metadata does not know it
(`SavedIsDurable` with `"save"` in `Failing`); faces of the same version with smaller
entries (another build of the algorithm) are loaded in part and count as users, since
only larger entries are refused at line 305 (`UsedSlotsHoldFaces` with `"smaller"` in
`Legacies`, which the runs therefore leave out); a reset between mkdir and the first
save of the metadata has the same end as `facedb_laterboot`; a failed removal is
hidden when all faces are deleted; an LCD interrupt between the flag and the
pointer of the first blit ends the display's cycle of requests, and inside a later
one requests the buffer that is on the panel; a timer can be freed twice (`raced`);
with sleep enabled and no low power device the application stays in "result shown"
after a recognition; repeated or reordered packets let an image with holes become
current (`BootsWholeImage` with `Ordered = FALSE`); a failed check of the flash in
`FICA_initialize` (`flash_ica_driver.c` line 665) is taken for a missing table, the
valid one is replaced by the factory table, and bank A is started although it is there
in part (`BootsWholeImage` without `replaced`); an image for the bank in use that is
cut off leaves a part of it (`BootsWholeImage` with `AnyBank = TRUE`); a failed erasure
of the table at the end of a transfer has a positive status, which `disk.c` line 455
does not take for an error, so that the transfer stays in `TRANSFER_FINAL` although its
image is not current (`raw`); messages for a full queue leak; a second packet of the
phone overwrites the static event that the messages already forwarded point to, so that
the first event reaches nobody.

## Proofs

Every theorem holds for all values of the constants that satisfy the named
assumptions of the module and the hypotheses in the theorem.  The hypotheses are
conditions on what fails or comes from outside; each one is there because TLC finds
a counterexample without it, or because it is what the firmware's configuration
says.

| Theorem | States | Hypotheses |
|---|---|---|
| `FaceDbProofs!TypeCorrect` | `[]TypeOK` | |
| `FaceDbProofs!CountCorrect` | `[]CountMatchesUsed` | removals do not fail |
| `FaceDbDurable!UsedSlotsSound` | `[]UsedSlotsHoldFaces` | removals do not fail, no error is lost at the close of a file, no smaller entries of the same version |
| `FaceDbDurable!DeletedNeverReturns` | `[]DeletedStaysDeleted` | removals do not fail |
| `FaceDbDurable!SavedSurvives` | `[]SavedIsDurable` | only reads and mkdir fail, no smaller entries of the same version |
| `FaceDbDurable!Refinement` | `StoreRefinement` | the same, and `AUTOSAVE` |
| `FramePipelineProofs!TypeCorrect`, `TypesSound` | `[]TypeOK`, `[]TypeInv` | |
| `FramePipelineProofs!StoppedExactlyWhileBlocked` | `[]StoppedIffBlocked` | |
| `FramePipelineTokens!DequeueNeverBlocks` | `[]DequeueFindsFrame` | |
| `FramePipelineTokens!BuffersKept` | `[]CameraBuffersKept` | |
| `FramePipelineTokens!QueueBounded` | `[]CameraQueueBounded` | |
| `FramePipelineTokens!FramesPending` | `[]AlgoFramesPending` | `[]AlgoRoom`: no message of the algorithm or answer to it meets a full queue |
| `FramePipelineTokens!DisplayKept` | `DisplayStaysPending` | `[]DispRoom`: the same for the display |
| `EventDispatchProofs!TypeCorrect` | `[]TypeOK` | |
| `EventDispatchProofs!BlocksOwned` | `[]EveryBlockOwned` | |
| `EventDispatchProofs!NeverOlder` | `NewestLast` | |
| `OasisTimersProofs!TypeCorrect` | `[]TypeOK` | |
| `OasisTimersProofs!StoppedExactlyWhileBlocked` | `[]StoppedIffBlocked` | |
| `OasisTimersProofs!EveryOperationCanEnd` | `[]OperationCanEnd` | |
| `FirmwareUpdateProofs!TypeCorrect` | `[]TypeOK` | |
| `FirmwareUpdateProofs!FinishedCurrent` | `[]FinishedIsCurrent` | |
| `FirmwareUpdateProofs!NewBankOnly` | `OnlyNewBankChanges` | the host writes within the size of a bank |
| `FirmwareUpdateProofs!WholeImages` | `[]BootsWholeImage` | the host sends the blocks of a file once and in order, for the bank not in use, and nothing else |

The face database, for any number of slots, names, vectors and calls:

- `TypeOK` alone is not inductive: the steps `save_face` and `rm` index by `cur`, so
  `TypeInv` adds that `cur` is a slot there.
- The count is right at rest only because of what holds elsewhere, which is
  `CountInv`: a stored metadata file has no `Used` bits and counts its occupied slots
  (`Stored`); while calls run, the count is the number of used slots and every slot
  with bits is used, except the one being removed (`Counted`); in the middle of a
  load, the slots below the index are used or empty and those above not used.  Each
  phase hands its part on to the next; `Crash` leaves only the first.
- `DurInv` adds what the files hold: a file that the metadata file lists is a whole
  face or missing, and it lists none with smaller entries (this is all that the
  hypothesis on `Legacies` is used for, in `DurInit`), and a slot the RAM counts as stored has its file (`RamSound`), with
  one slot excepted while its metadata update is under way.  While all faces are
  deleted, the slots below the index are not in use; without this the last metadata
  update would not be known to drop them.  Deleted faces stay deleted even where
  `DurInv` fails, when the error of a metadata update is lost at the close of the file:
  `GoneSound` is that a file which is listed but not marked in RAM is gone.  `SavedSound` adds that a saved entry and
  its file agree.  It does not need `AUTOSAVE`, so the build without it, which has no
  run, is covered by the theorem.
- The refinement maps a step to the abstract step at the one flash operation that
  makes the call durable (the metadata file for an addition, the face file for a
  rename, the removal for a deletion) and all others to stutters; an update of an unused
  slot begins only where the store has no face, since with `AUTOSAVE` the slots in flash
  are those in use (`FlashListed`).  `RefInv` relates the
  phases of a call to this: the files that are gone but still listed, and the slot
  about to be listed.  `FaceStore` is an abstraction of safety only; that calls return
  stays with TLC (`CallsReturn`).

The pipeline, for any number of camera buffers from two on, any length of the queues and any set
and number of events:

- `TypeInv` says with the types that a response has a buffer, that the receiver has
  one or two buffers to fill, and that a message naming a buffer also has its format.
- `StopInv` adds `stopped => ~prevStop` to the property: were the saved run flag "stop",
  the last party to unblock the algorithm would not start it.
- `FlowInv` counts.  For each frame of the algorithm there is one token, which is
  where its request is: about to be sent, queued, noted by the camera task,
  answered, or ready; likewise one for the display.  A step moves, merges or drops
  tokens, and an event from outside adds two at most, which bounds the queues.  The
  camera buffers are counted in the same way, at most once each, and there
  are never more dequeue messages than full buffers.  `QueueCounting` has the lemmas on
  counts in queues: appending, taking the head, unions, concatenation.
- That a request is never lost needs queues that do not refuse one.  The hypotheses
  `[]AlgoRoom` and `[]DispRoom` say just that, of the queue a request or answer is about
  to be put into; they do not bound the number of events.  Enough events at one time
  let a queue refuse a request, and nothing repeats it, so the hypothesis is needed;
  `QueueBounded` says how much of the camera's queue the pipeline itself can take.

The event dispatch, for queues of any length, with or without failing allocations:
`DispatchInv` couples three things that need each other.  `EveryBlockOwned` counts the
blocks of the queued messages; without it `allocated` could not be shown to stay a
natural number.  `NothingOlder` and `CopiesInOrder` say that copies of events wait
in the order of the events and are not older than what their receiver has seen.
`EventsFilled` says that nobody is sent a copy before there is an event.

The Oasis application, in both modes, for any set and number of events: what the
task still has to do is a run of timers to stop, followed by one of a few
remainders.  `Place` says for each remainder what holds there of run flag,
blocking list and timers, and `PlaceInv` is that the task is at one of these places.
Callbacks are harmless because they keep every place: the result
timer, whose callback sets the run flag, runs only in "result shown" and beside no
no-face timer, and is among the timers to be stopped before a stop is noted.  As
for the runs, this is up to the use of a freed timer (`raced`).

The boot loader, for any sizes of banks, blocks and images, any number of files, power
cuts and flash errors:

- What the task still has to do is the rest of a writing of the table (`Writes`: of
  several in a row, since each bit rewrites it) followed by one of nineteen remainders
  of the functions or nothing.  `Place` says for each remainder what is true of the
  table in RAM, and `Ready` that the table in flash is this one once the writes are
  done, and erased between the erasure and the header.  `Blanking` is one more place, with
  the erasure for a new table still to come; `NewTablePlace` lists where `FICA_initialize`
  returns to from there.  `PlaceInv` is that the task is at one
  of these places, or has failed and has nothing left.  `TypeOK` needs it:
  `FICA_SetCurAppStartType` copies the new type, which is a bank only because the step
  before stored it and the bit `NAP` is seen; a new table, which has no new type, does
  not have that bit (the second case of F4 in `Finalizing`).  `FinishedIsCurrent` is the
  last place of the end of a transfer.  `Kept` says that the type the boot loader is going
  to start is still that of the table, unless a failed check has replaced it.
- `NewBankOnly` is arithmetic: banks are whole numbers of erase blocks, so
  the block of a sector within a bank lies in the bank; and a packet is programmed
  only at places where `s_newAppImgType` is the bank of the file.  The hypothesis is what
  `update_bounds` shows to be needed.
- `WholeImages` rests on `BootInv`.  `Target` is the header the table will have: the copy
  in RAM while it is being written, else the one in flash.  `OtherBank`: a transfer
  under way is never for the bank that `Target` boots.  `Guarded`: the banks that
  `Target` and the table in flash boot are whole, and so bank A must be while the table is
  being written, because a torn table boots bank A.  A bank A that is there in part is
  therefore accompanied by a table that names bank B and has the bits `USB` and `NAI`:
  the next session finds both set and does not write the table before bank A is whole
  again.  `UsbBit` counts errors for this: with bank B current the bit `USB` is missing
  only after one error, and a session that goes on without it takes a second.
  All of this is claimed only while no valid table was replaced.
  `InOrder` says that what was counted of a file is in flash, in order, which makes both
  banks whole at the end of a transfer.  The hypothesis excludes repeated and
  reordered packets, with which an image with holes does become current (see above), and
  images for the bank in use, of which a power cut leaves a part (the other theorems
  hold for images for either bank); the
  limits on flash errors are part of `BootsWholeImage`.

Assumptions: `FaceDbAssumption` (between 1 and 65534 slots, as 65535 is
`INVALID_ID`), `FileSentinels` (the values for "no file" and "empty file" are
no contents), `PipelineAssumption` (two or more camera buffers, queues of one or more),
`DispatchAssumption` and `OasisAssumption` (kinds of the constants), `UpdateAssumption`
(a bank is a whole number of erase blocks, an image fits into a bank, a host writes at
most a block behind it).

The inductive invariants that TLC can evaluate were checked with it on the instances of
the runs, or smaller ones; the two named `PlaceInv` quantify over all sequences, so TLC
cannot evaluate them as they stand.

Every invariant and every action property of the passing runs is proved, and the
refinement.  Only model-checked: liveness, which is beyond the prover (`CallsReturn`,
`DisplayFramesKeepComing`, `AlgoRunsAgain`, `BackToRecognition`, `LastEventArrives`,
`NewImageIsCurrent`; of the last, `FinishedCurrent` proves what the end of a transfer
establishes, and TLC shows that it is reached).

## Plan

1. `FaceDb`, `FaceStore`, `FramePipeline`, `OasisTimers`, `FirmwareUpdate`,
   `EventDispatch` and their runs - done.
2. Proofs of all safety properties of the runs about the face database, the
   pipeline, the Oasis application and the dispatch - done.
3. Proofs about `FirmwareUpdate`: type correctness, `FinishedIsCurrent`,
   `OnlyNewBankChanges` and `BootsWholeImage` - done.
4. Open: the registration of event handlers at the output manager, the framework
   timers with both sides of a stop, and the unfinished initialisation of the face database
   (hazards without a property in `PROJECT.json`).

Runs answer one question each; runs about the same component are merged where TLC
still finishes in minutes.  The build without `AUTOSAVE`, which the firmware does
not use, has no run: the theorems other than `Refinement` cover it.

## Not modelled

- The low power manager: `board_define.h` enables the device of `hal_lpm_standby.c`, and
  there is a second one in `hal_lpm_snvs.c` with a switch of its own, but nothing calls the function that
  registers either, so all operations of the manager return early here.  What the
  Oasis application does around it is in `OasisTimers`.
- The firmware update server (`common/comms_handler`): the boot loader's project does
  not build it, and headers it includes are missing.
- Voice and audio managers (not started by this application) and the multicore
  manager (compiled out on this board).
- Pixel conversion and PXP, exposure control, UI drawing, LEDs, audio, the shell and
  BLE parsers (pure translation of bytes to events), the recognition library
  (binary), the FAT structures of the USB disk.
- The firmware of the helper controllers and the Android application.

Nearly all lines of the repository are vendored code (device headers, drivers,
FreeRTOS, lwIP, mbedTLS, USB, Wi-Fi, twice or three times over) and data (fonts,
images, test frames as C arrays).  The logic of the program itself is some ten
thousand lines in `sln_framework/core`, parts of `hal` and the boot loader's
`source`, and the models are about those.
