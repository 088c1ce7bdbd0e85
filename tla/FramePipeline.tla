---------------------------- MODULE FramePipeline ----------------------------
(***************************************************************************)
(* How camera frames reach the display and the vision algorithm: the CSI   *)
(* receiver and its frame-done interrupt, the two GC0308 sensors that      *)
(* share it, the camera, display and vision algorithm manager tasks with   *)
(* their message queues, the LCD with its two frame buffers and interrupt, *)
(* and the start and stop events of the Oasis algorithm.                   *)
(*                                                                         *)
(* The queues hold pointers.  The dequeue, request and response messages   *)
(* are static objects, one per device: their content is read when they are *)
(* received, not when they are sent, so it is kept in variables of its own.*)
(* A step is what a task or an interrupt does between two points where     *)
(* another one can interfere.                                              *)
(***************************************************************************)
EXTENDS Integers, Sequences, FiniteSets

CONSTANTS
  QUEUE_LENGTH,             \* mainQUEUE_LENGTH, 10 in the firmware
  CAMERA_DEV_BUFFER_COUNT,  \* frame buffers of the camera, 4 in the firmware
  Devices,                  \* devices registered besides the camera: "display", "algo"
  Events,                   \* kinds of events that reach the tasks from outside
  MaxEvents,                \* bound on the number of such events
  NoBuf                     \* the NULL pointer

\* The two sensors, named like the format of their frames and like the frames
\* the algorithm asks for.
Frames == {"RGB", "IR"}
FrameOrder == <<"RGB", "IR">>
Other(f) == IF f = "RGB" THEN "IR" ELSE "RGB"

AllEvents == {"Notify", "SetSource", "UserStop", "UserRun", "RecStart", "RecStop"}

CamBufs == 1..CAMERA_DEV_BUFFER_COUNT

\* s_FrameBuffers of the LCD driver.
LcdBufs == {"fb0", "fb1"}
OtherBuf(b) == IF b = "fb0" THEN "fb1" ELSE "fb0"

\* The CSI driver needs two buffers to start.
ASSUME PipelineAssumption ==
  /\ QUEUE_LENGTH \in Nat \ {0}
  /\ CAMERA_DEV_BUFFER_COUNT \in Nat
  /\ CAMERA_DEV_BUFFER_COUNT >= 2
  /\ Devices \subseteq {"display", "algo"}
  /\ Events \subseteq AllEvents
  /\ MaxEvents \in Nat
  /\ NoBuf \notin CamBufs
  /\ NoBuf \notin LcdBufs

VARIABLES
  \* CSI receiver and camera driver
  active,      \* buffers in the DMA registers, the one being filled first
  empty,       \* emptyBuffer of the driver, a stack with its top first
  full,        \* filled buffers waiting to be dequeued
  sensor,      \* s_CurrentRunningCamera
  valid,       \* s_CurrentFrameValid
  curBuf,      \* s_pCurrentFrameBuffer of the camera driver
  \* camera manager task
  camQ, camPc,
  msg,         \* payload of cameraDequeueMsg: data and format
  dispSlot,    \* displayRequestFrameInfo: data and srcFormat
  algoSlot,    \* vAlgoRequestFrameInfo[f].data # NULL
  \* display manager task and LCD driver
  dispQ, dispPc,
  dispReq,     \* displayRequestMsgs: data and srcFormat
  dispResp,    \* data of displayResponseMsg
  frame,       \* argument of the blit under way
  srcFormat,   \* cap.srcFormat
  current,     \* s_pCurrentFrameBuffer of the LCD driver
  newSet,      \* s_NewBufferSet
  next, shown, \* LCD registers: next buffer, and the one on the panel
  \* vision algorithm manager task and Oasis device
  algoQ, algoPc,
  todo,        \* requests the task is about to send
  ready,       \* frameReady
  stopped,     \* run_flag = OASIS_RUN_FLAG_STOP
  prevStop,    \* prevRunFlag = OASIS_RUN_FLAG_STOP
  blockers,    \* s_blockingList
  \* environment
  events       \* events so far

recv == <<active, empty, full>>
camd == <<sensor, valid, curBuf, msg>>
cam  == <<camPc, dispSlot, algoSlot>>
disp == <<dispPc, dispReq, frame, srcFormat, current, newSet, next, shown>>
algo == <<algoPc, todo, ready, stopped, prevStop, blockers>>
vars == <<active, empty, full, sensor, valid, curBuf, camQ, camPc, msg, dispSlot, algoSlot,
          dispQ, dispPc, dispReq, dispResp, frame, srcFormat, current, newSet, next, shown,
          algoQ, algoPc, todo, ready, stopped, prevStop, blockers, events>>

-----------------------------------------------------------------------------
(* Messages.                                                               *)

Msg(id, arg) == [id |-> id, arg |-> arg]
Dequeue    == Msg("CameraDequeue", "none")
DispReqMsg == Msg("DisplayRequestFrame", "none")
AlgoReqMsg(f) == Msg("VAlgoRequestFrame", f)
DispRespMsg == Msg("DisplayResponseFrame", "none")
AlgoRespMsg(f) == Msg("VAlgoResponseFrame", f)

\* FWK_Message_Put and FWK_Message_PutFromIsr: a message for a full queue is
\* dropped; no sender looks at the result.
Put(q, m) == IF Len(q) < QUEUE_LENGTH THEN Append(q, m) ELSE q

\* Where a message is pending.
Pending(q, m) == \E i \in DOMAIN q : q[i] = m

-----------------------------------------------------------------------------
\* The buffers are numbered from the one submitted last.
Init ==
  /\ active = <<>>
  /\ empty = [i \in CamBufs |-> i]
  /\ full = <<>>
  /\ sensor = "RGB"
  /\ valid = FALSE
  /\ curBuf = NoBuf
  /\ camQ = <<>> /\ dispQ = <<>> /\ algoQ = <<>>
  /\ camPc = "init" /\ dispPc = "init"
  /\ algoPc = (IF "algo" \in Devices THEN "request" ELSE "idle")
  /\ msg = [data |-> NoBuf, format |-> "none"]
  /\ dispSlot = [data |-> NoBuf, src |-> "none"]
  /\ algoSlot = [f \in Frames |-> FALSE]
  /\ dispReq = [data |-> NoBuf, src |-> "none"]
  /\ dispResp = NoBuf /\ frame = NoBuf
  /\ srcFormat = "RGB"
  /\ current = NoBuf
  /\ newSet = FALSE
  /\ next = "fb0" /\ shown = "fb0"
  /\ todo = (IF "algo" \in Devices THEN FrameOrder ELSE <<>>)
  /\ ready = [f \in Frames |-> FALSE]
  /\ stopped = FALSE
  /\ prevStop = FALSE
  /\ blockers = {}
  /\ events = 0

-----------------------------------------------------------------------------
(* CSI receiver.                                                           *)

\* Mutant: a completed frame is announced even when it is dropped.
CsiFrameDoneAnnouncesAll ==
  /\ active # <<>>
  /\ camQ' = Put(camQ, Dequeue)
  /\ IF Len(active) = 2
     THEN /\ full' = Append(full, Head(active))
          /\ active' = Tail(active) \o (IF empty = <<>> THEN <<>> ELSE <<Head(empty)>>)
     ELSE /\ empty # <<>>
          /\ active' = Append(active, Head(empty))
          /\ UNCHANGED full
  /\ empty' = IF empty = <<>> THEN <<>> ELSE Tail(empty)
  /\ UNCHANGED <<camd, cam, dispQ, dispResp, disp, algoQ, algo, events>>

\* Mutant: the number of active buffers is not counted down.
CsiFrameDoneNoCount ==
  /\ active # <<>>
  /\ camQ' = Put(camQ, Dequeue)
  /\ full' = Append(full, Head(active))
  /\ active' = active \o (IF empty = <<>> THEN <<>> ELSE <<Head(empty)>>)
  /\ empty' = IF empty = <<>> THEN <<>> ELSE Tail(empty)
  /\ UNCHANGED <<camd, cam, dispQ, dispResp, disp, algoQ, algo, events>>

\* CSI_TransferHandleIRQ: a frame is complete.  It is handed over only while
\* the receiver has a second buffer to go on with; otherwise it is dropped
\* and the same buffer is filled again.  The freed register takes the empty
\* buffer on top of the stack.  An interrupt that finds the flags of both
\* buffers set skips the frames: it changes nothing.
CsiFrameDone ==
  /\ active # <<>>
  /\ IF Len(active) = 2
     THEN /\ full' = Append(full, Head(active))
          /\ camQ' = Put(camQ, Dequeue)
          /\ active' = Tail(active) \o (IF empty = <<>> THEN <<>> ELSE <<Head(empty)>>)
     ELSE /\ empty # <<>>
          /\ active' = Append(active, Head(empty))
          /\ UNCHANGED <<full, camQ>>
  /\ empty' = IF empty = <<>> THEN <<>> ELSE Tail(empty)
  /\ UNCHANGED <<camd, cam, dispQ, dispResp, disp, algoQ, algo, events>>

-----------------------------------------------------------------------------
(* Camera manager task.                                                    *)

\* _FWK_CameraManager_TaskInit: the driver's init submits all the buffers,
\* its start loads the first two.
CamStart ==
  /\ camPc = "init"
  /\ camPc' = "idle"
  /\ active' = SubSeq(empty, 1, 2)
  /\ empty' = SubSeq(empty, 3, Len(empty))
  /\ UNCHANGED <<full, camd, camQ, dispSlot, algoSlot, dispQ, dispResp, disp, algoQ, algo, events>>

\* A request is noted when the slot is free, and ignored otherwise.
CamDisplayRequest ==
  /\ camPc = "idle"
  /\ camQ # <<>> /\ Head(camQ) = DispReqMsg
  /\ camQ' = Tail(camQ)
  /\ dispSlot' = IF dispSlot.data = NoBuf THEN dispReq ELSE dispSlot
  /\ UNCHANGED <<recv, camd, camPc, algoSlot, dispQ, dispResp, disp, algoQ, algo, events>>

CamAlgoRequest(f) ==
  /\ camPc = "idle"
  /\ camQ # <<>> /\ Head(camQ) = AlgoReqMsg(f)
  /\ camQ' = Tail(camQ)
  /\ algoSlot' = [algoSlot EXCEPT ![f] = TRUE]
  /\ UNCHANGED <<recv, camd, camPc, dispSlot, dispQ, dispResp, disp, algoQ, algo, events>>

\* An event for the sensors changes their exposure only.
CamNotify ==
  /\ camPc = "idle"
  /\ camQ # <<>> /\ Head(camQ).id = "InputNotify"
  /\ camQ' = Tail(camQ)
  /\ UNCHANGED <<recv, camd, cam, dispQ, dispResp, disp, algoQ, algo, events>>

\* Mutant: a valid frame does not switch the sensors.
CamDequeueNoSwitch ==
  /\ camPc = "idle"
  /\ camQ # <<>> /\ Head(camQ) = Dequeue
  /\ full # <<>>
  /\ camQ' = Tail(camQ)
  /\ curBuf' = Head(full)
  /\ full' = Tail(full)
  /\ msg' = IF valid THEN [data |-> Head(full), format |-> sensor] ELSE msg
  /\ valid' = ~valid
  /\ camPc' = IF msg'.data = NoBuf THEN "idle" ELSE "display"
  /\ UNCHANGED <<active, empty, sensor, dispSlot, algoSlot, dispQ, dispResp, disp, algoQ, algo, events>>

\* A dequeue message: the driver waits for a full buffer and takes it.  The
\* first frame after a switch of the sensors is invalid and leaves data and
\* format of the message as they are; a valid one sets them and switches the
\* sensors.  Without data the frame is forgotten.
CamDequeue ==
  /\ camPc = "idle"
  /\ camQ # <<>> /\ Head(camQ) = Dequeue
  /\ full # <<>>
  /\ camQ' = Tail(camQ)
  /\ curBuf' = Head(full)
  /\ full' = Tail(full)
  /\ IF valid
     THEN /\ msg' = [data |-> Head(full), format |-> sensor]
          /\ sensor' = Other(sensor)
     ELSE UNCHANGED <<msg, sensor>>
  /\ valid' = ~valid
  /\ camPc' = IF msg'.data = NoBuf THEN "idle" ELSE "display"
  /\ UNCHANGED <<active, empty, dispSlot, algoSlot, dispQ, dispResp, disp, algoQ, algo, events>>

\* _FWK_CameraManager_DisplayResponse: when the format fits, the frame is
\* copied to the requested buffer and the response sent.
CamDisplayResponse ==
  /\ camPc = "display"
  /\ camPc' = "algo"
  /\ IF dispSlot.data # NoBuf /\ dispSlot.src = msg.format
     THEN /\ dispResp' = dispSlot.data
          /\ dispQ' = Put(dispQ, DispRespMsg)
          /\ dispSlot' = [dispSlot EXCEPT !.data = NoBuf]
     ELSE UNCHANGED <<dispResp, dispQ, dispSlot>>
  /\ UNCHANGED <<recv, camd, camQ, algoSlot, disp, algoQ, algo, events>>

\* Mutant: the slot is emptied although the frame had another format.
CamAlgoResponseAnyFormat ==
  /\ camPc = "algo"
  /\ camPc' = "enqueue"
  /\ algoQ' = IF algoSlot[msg.format] THEN Put(algoQ, AlgoRespMsg(msg.format)) ELSE algoQ
  /\ algoSlot' = [f \in Frames |-> FALSE]
  /\ UNCHANGED <<recv, camd, camQ, dispSlot, dispQ, dispResp, disp, algo, events>>

\* _FWK_CameraManager_VisionAlgoResponse, the same for the algorithm.
CamAlgoResponse ==
  /\ camPc = "algo"
  /\ camPc' = "enqueue"
  /\ IF algoSlot[msg.format]
     THEN /\ algoQ' = Put(algoQ, AlgoRespMsg(msg.format))
          /\ algoSlot' = [algoSlot EXCEPT ![msg.format] = FALSE]
     ELSE UNCHANGED <<algoQ, algoSlot>>
  /\ UNCHANGED <<recv, camd, camQ, dispSlot, dispQ, dispResp, disp, algo, events>>

\* Mutant: the buffer named by the message is submitted, not the dequeued one.
CamEnqueueMessageData ==
  /\ camPc = "enqueue"
  /\ camPc' = "idle"
  /\ empty' = <<msg.data>> \o empty
  /\ curBuf' = NoBuf
  /\ UNCHANGED <<active, full, sensor, valid, msg, camQ, dispSlot, algoSlot, dispQ, dispResp, disp,
                 algoQ, algo, events>>

\* The dequeued buffer goes back to the receiver.
CamEnqueue ==
  /\ camPc = "enqueue"
  /\ camPc' = "idle"
  /\ empty' = <<curBuf>> \o empty
  /\ curBuf' = NoBuf
  /\ UNCHANGED <<active, full, sensor, valid, msg, camQ, dispSlot, algoSlot, dispQ, dispResp, disp,
                 algoQ, algo, events>>

-----------------------------------------------------------------------------
(* Display manager task and LCD driver.                                    *)

\* _FWK_DisplayManager_TaskInit requests the first frame for the buffer that
\* is not on the panel.
DispStart ==
  /\ "display" \in Devices
  /\ dispPc = "init"
  /\ dispPc' = "idle"
  /\ dispReq' = [data |-> "fb1", src |-> srcFormat]
  /\ camQ' = Put(camQ, DispReqMsg)
  /\ UNCHANGED <<recv, camd, cam, dispQ, dispResp, frame, srcFormat, current, newSet, next, shown,
                 algoQ, algo, events>>

\* HAL_DisplayDev_LcdifRk024hh2_Blit, its three assignments one by one: the
\* LCD interrupt may come between any two of them.  The frame is read from the
\* shared response once, at the call.
DispBlitFlag ==
  /\ dispPc = "idle"
  /\ dispQ # <<>> /\ Head(dispQ) = DispRespMsg
  /\ dispQ' = Tail(dispQ)
  /\ frame' = dispResp
  /\ newSet' = TRUE
  /\ dispPc' = "blit_current"
  /\ UNCHANGED <<recv, camd, cam, camQ, dispReq, dispResp, srcFormat, current, next, shown,
                 algoQ, algo, events>>

DispBlitCurrent ==
  /\ dispPc = "blit_current"
  /\ current' = frame
  /\ dispPc' = "blit_next"
  /\ UNCHANGED <<recv, camd, cam, camQ, dispQ, dispReq, dispResp, frame, srcFormat, newSet, next, shown,
                 algoQ, algo, events>>

DispBlitNext ==
  /\ dispPc = "blit_next"
  /\ next' = frame
  /\ dispPc' = "idle"
  /\ UNCHANGED <<recv, camd, cam, camQ, dispQ, dispReq, dispResp, frame, srcFormat, current, newSet, shown,
                 algoQ, algo, events>>

\* kEventID_SetDisplayOutputSource: HAL_DisplayDev_LcdifRk024hh2_InputNotify
\* sets the format, then the flag that makes the interrupt ask again.
DispSetFormat ==
  /\ dispPc = "idle"
  /\ dispQ # <<>> /\ Head(dispQ).id = "SetSource"
  /\ dispQ' = Tail(dispQ)
  /\ srcFormat' = Head(dispQ).arg
  /\ dispPc' = "set_flag"
  /\ UNCHANGED <<recv, camd, cam, camQ, dispReq, dispResp, frame, current, newSet, next, shown,
                 algoQ, algo, events>>

DispSetFlag ==
  /\ dispPc = "set_flag"
  /\ newSet' = TRUE
  /\ dispPc' = "idle"
  /\ UNCHANGED <<recv, camd, cam, camQ, dispQ, dispReq, dispResp, frame, srcFormat, current, next, shown,
                 algoQ, algo, events>>

\* Mutant: the flag is cleared but the request is not repeated for a buffer
\* that is on the panel already.
LcdFrameDoneOnce ==
  /\ newSet \/ shown # next
  /\ shown' = next
  /\ newSet' = FALSE
  /\ IF newSet /\ current # NoBuf /\ shown # next
     THEN /\ dispReq' = [data |-> OtherBuf(current), src |-> srcFormat]
          /\ camQ' = Put(camQ, DispReqMsg)
     ELSE UNCHANGED <<dispReq, camQ>>
  /\ UNCHANGED <<recv, camd, cam, dispQ, dispPc, dispResp, frame, srcFormat, current, next, algoQ, algo, events>>

\* Mutant: the flag is not cleared.
LcdFrameDoneKeepsFlag ==
  /\ newSet \/ shown # next
  /\ shown' = next
  /\ IF newSet /\ current # NoBuf
     THEN /\ dispReq' = [data |-> OtherBuf(current), src |-> srcFormat]
          /\ camQ' = Put(camQ, DispReqMsg)
     ELSE UNCHANGED <<dispReq, camQ>>
  /\ UNCHANGED <<recv, camd, cam, dispQ, dispPc, dispResp, frame, srcFormat, current, newSet, next, algoQ, algo, events>>

\* DISPLAY_LCDIF_IRQHandler: the panel takes the next buffer; a new buffer
\* frees the other one, which is requested from the camera.
LcdFrameDone ==
  /\ newSet \/ shown # next
  /\ shown' = next
  /\ newSet' = FALSE
  /\ IF newSet /\ current # NoBuf
     THEN /\ dispReq' = [data |-> OtherBuf(current), src |-> srcFormat]
          /\ camQ' = Put(camQ, DispReqMsg)
     ELSE UNCHANGED <<dispReq, camQ>>
  /\ UNCHANGED <<recv, camd, cam, dispQ, dispPc, dispResp, frame, srcFormat, current, next, algoQ, algo, events>>

-----------------------------------------------------------------------------
(* Vision algorithm manager task and the Oasis device.                     *)

\* One request of a round: at the start of the task (autoStart), after a run,
\* and for kVAlgoEvent_RequestFrame.
AlgoRequest ==
  /\ algoPc = "request"
  /\ camQ' = Put(camQ, AlgoReqMsg(Head(todo)))
  /\ todo' = Tail(todo)
  /\ algoPc' = IF Len(todo) = 1 THEN "idle" ELSE "request"
  /\ UNCHANGED <<recv, camd, cam, dispQ, dispResp, disp, algoQ, ready, stopped, prevStop, blockers, events>>

\* A response: the algorithm runs when all the frames are there.
AlgoResponse(f) ==
  /\ algoPc = "idle"
  /\ algoQ # <<>> /\ Head(algoQ) = AlgoRespMsg(f)
  /\ algoQ' = Tail(algoQ)
  /\ ready' = [ready EXCEPT ![f] = TRUE]
  /\ algoPc' = IF \A g \in Frames : ready'[g] THEN "run" ELSE "idle"
  /\ UNCHANGED <<recv, camd, cam, camQ, dispQ, dispResp, disp, todo, stopped, prevStop, blockers, events>>

\* Mutant: after a run the ready flags are cleared but no frame is requested
\* when the algorithm reports a result.
AlgoRunEndNoRequest ==
  /\ algoPc = "run"
  /\ ready' = [f \in Frames |-> FALSE]
  /\ algoPc' = "idle"
  /\ UNCHANGED <<recv, camd, cam, camQ, dispQ, dispResp, disp, algoQ, todo, stopped, prevStop, blockers, events>>

\* The run ends; new frames are requested unless the algorithm is stopped.
AlgoRunEnd ==
  /\ algoPc = "run"
  /\ ready' = [f \in Frames |-> FALSE]
  /\ IF stopped
     THEN algoPc' = "idle" /\ UNCHANGED todo
     ELSE algoPc' = "request" /\ todo' = FrameOrder
  /\ UNCHANGED <<recv, camd, cam, camQ, dispQ, dispResp, disp, algoQ, stopped, prevStop, blockers, events>>

\* _oasis_stop
OasisStop == IF stopped THEN UNCHANGED <<stopped, prevStop>> ELSE stopped' = TRUE /\ prevStop' = FALSE

\* _oasis_start with the blockers b that are left
OasisStart(b) ==
  IF b = {}
  THEN /\ algoPc' = "request" /\ todo' = FrameOrder
       /\ stopped' = prevStop /\ prevStop' = TRUE
  ELSE UNCHANGED <<algoPc, todo, stopped, prevStop>>

\* Mutant: the end of a recording starts the algorithm only if it had been
\* stopped by the recording.
OasisEventForgets(e) ==
  CASE e = "UserStop" -> /\ blockers' = blockers \cup {"UserInput"}
                         /\ OasisStop /\ UNCHANGED <<algoPc, todo>>
    [] e = "RecStart" -> /\ blockers' = blockers \cup {"Record"}
                         /\ OasisStop /\ UNCHANGED <<algoPc, todo>>
    [] e = "UserRun"  -> IF stopped
                         THEN blockers' = blockers \ {"UserInput"} /\ OasisStart(blockers')
                         ELSE UNCHANGED <<blockers, stopped, prevStop, algoPc, todo>>
    [] e = "RecStop"  -> /\ blockers' = blockers \ {"Record"}
                         /\ UNCHANGED <<stopped, prevStop, algoPc, todo>>

\* kEventFaceRecID_OasisSetState (stop or run, by the user) and
\* kEventID_RecordingState (start or stop of a recording).
OasisEvent(e) ==
  CASE e = "UserStop" -> /\ blockers' = blockers \cup {"UserInput"}
                         /\ OasisStop /\ UNCHANGED <<algoPc, todo>>
    [] e = "RecStart" -> /\ blockers' = blockers \cup {"Record"}
                         /\ OasisStop /\ UNCHANGED <<algoPc, todo>>
    [] e = "UserRun"  -> IF stopped
                         THEN blockers' = blockers \ {"UserInput"} /\ OasisStart(blockers')
                         ELSE UNCHANGED <<blockers, stopped, prevStop, algoPc, todo>>
    [] e = "RecStop"  -> /\ blockers' = blockers \ {"Record"}
                         /\ IF prevStop THEN UNCHANGED <<stopped, prevStop, algoPc, todo>>
                                        ELSE OasisStart(blockers')

AlgoNotify ==
  /\ algoPc = "idle"
  /\ algoQ # <<>> /\ Head(algoQ).id = "InputNotify"
  /\ algoQ' = Tail(algoQ)
  /\ OasisEvent(Head(algoQ).arg)
  /\ UNCHANGED <<recv, camd, cam, camQ, dispQ, dispResp, disp, ready, events>>

-----------------------------------------------------------------------------
(* Events from outside: the input manager, and the exposure control of the *)
(* algorithm library while it runs.                                        *)

SendNotify ==
  /\ "Notify" \in Events
  /\ camQ' = Put(camQ, Msg("InputNotify", "exposure"))
  /\ UNCHANGED <<dispQ, algoQ>>

SendSetSource(f) ==
  /\ "SetSource" \in Events
  /\ dispQ' = Put(dispQ, Msg("SetSource", f))
  /\ UNCHANGED <<camQ, algoQ>>

SendOasisEvent(e) ==
  /\ e \in Events
  /\ algoQ' = Put(algoQ, Msg("InputNotify", e))
  /\ UNCHANGED <<camQ, dispQ>>

Event ==
  /\ events < MaxEvents
  /\ events' = events + 1
  /\ \/ SendNotify
     \/ \E f \in Frames : SendSetSource(f)
     \/ \E e \in {"UserStop", "UserRun", "RecStart", "RecStop"} : SendOasisEvent(e)
  /\ UNCHANGED <<recv, camd, cam, dispResp, disp, algo>>

CamStep == \/ CamStart \/ CamDisplayRequest \/ \E f \in Frames : CamAlgoRequest(f)
           \/ CamNotify \/ CamDequeue \/ CamDisplayResponse \/ CamAlgoResponse \/ CamEnqueue
DispStep == DispStart \/ DispBlitFlag \/ DispBlitCurrent \/ DispBlitNext
            \/ DispSetFormat \/ DispSetFlag
AlgoStep == AlgoRequest \/ (\E f \in Frames : AlgoResponse(f)) \/ AlgoRunEnd \/ AlgoNotify

Next == CsiFrameDone \/ LcdFrameDone \/ CamStep \/ DispStep \/ AlgoStep \/ Event

Spec == Init /\ [][Next]_vars

\* The hardware keeps delivering frames and every task keeps running.
FairSpec ==
  /\ Spec
  /\ WF_vars(CsiFrameDone) /\ WF_vars(LcdFrameDone)
  /\ WF_vars(CamStep) /\ WF_vars(DispStep) /\ WF_vars(AlgoStep)

-----------------------------------------------------------------------------
(* Properties.                                                             *)

Ids == {"CameraDequeue", "DisplayRequestFrame", "VAlgoRequestFrame", "DisplayResponseFrame",
        "VAlgoResponseFrame", "SetSource", "InputNotify"}
Messages == [id : Ids, arg : Frames \cup AllEvents \cup {"none", "exposure"}]
BufSeq(s) == s \in Seq(CamBufs)

\* Types of the driver, task and queue state.
TypeOK ==
  /\ BufSeq(active) /\ BufSeq(empty) /\ BufSeq(full)
  /\ Len(active) <= 2
  /\ sensor \in Frames
  /\ valid \in BOOLEAN
  /\ curBuf \in CamBufs \cup {NoBuf}
  /\ camQ \in Seq(Messages) /\ dispQ \in Seq(Messages) /\ algoQ \in Seq(Messages)
  /\ camPc \in {"init", "idle", "display", "algo", "enqueue"}
  /\ msg \in [data : CamBufs \cup {NoBuf}, format : Frames \cup {"none"}]
  /\ dispSlot \in [data : LcdBufs \cup {NoBuf}, src : Frames \cup {"none"}]
  /\ algoSlot \in [Frames -> BOOLEAN]
  /\ dispPc \in {"init", "idle", "blit_current", "blit_next", "set_flag"}
  /\ dispReq \in [data : LcdBufs \cup {NoBuf}, src : Frames \cup {"none"}]
  /\ dispResp \in LcdBufs \cup {NoBuf} /\ frame \in LcdBufs \cup {NoBuf}
  /\ srcFormat \in Frames
  /\ current \in LcdBufs \cup {NoBuf}
  /\ newSet \in BOOLEAN
  /\ next \in LcdBufs /\ shown \in LcdBufs
  /\ algoPc \in {"request", "idle", "run"}
  /\ todo \in Seq(Frames)
  /\ ready \in [Frames -> BOOLEAN]
  /\ stopped \in BOOLEAN /\ prevStop \in BOOLEAN
  /\ blockers \subseteq {"UserInput", "Record"}
  /\ events \in 0..MaxEvents

\* The camera task never waits in vain: every dequeue message in its queue
\* stands for a full buffer, so the loop around CAMERA_RECEIVER_GetFullBuffer,
\* which has no way out, ends.
DequeueFindsFrame ==
  Cardinality({i \in DOMAIN camQ : camQ[i] = Dequeue}) <= Len(full)

\* No camera buffer is ever given to the receiver twice, and at most one (the
\* first frame, dequeued before the message has data) is lost to it.
CameraBuffersKept ==
  LET handled == IF curBuf # NoBuf THEN <<curBuf>> ELSE <<>>
      all     == active \o empty \o full \o handled
      circulating == IF camPc \in {"display", "algo", "enqueue"} THEN all ELSE active \o empty \o full
  IN /\ \A i, j \in DOMAIN all : all[i] = all[j] => i = j
     /\ Len(circulating) >= CAMERA_DEV_BUFFER_COUNT - 1

\* Left to themselves the three tasks and the interrupts never fill the queue
\* of the camera task: its longest content is a dequeue message for every
\* buffer but the one that is being filled, a display request and the two
\* requests of the algorithm.  Each event from outside may add a message or,
\* by a new round of requests, two.
CameraQueueBounded == Len(camQ) <= CAMERA_DEV_BUFFER_COUNT + 2 + 2 * events

\* While the algorithm is not stopped none of its frames gets lost between the
\* two tasks: each is about to be requested, requested, answered or ready.
AlgoFramesPending ==
  "algo" \in Devices /\ ~stopped =>
    \A f \in Frames :
      \/ Pending(todo, f) \/ Pending(camQ, AlgoReqMsg(f)) \/ algoSlot[f]
      \/ Pending(algoQ, AlgoRespMsg(f)) \/ ready[f]

\* The display waits for a frame, or for the LCD interrupt that requests one.
DisplayPending ==
  \/ dispPc = "init" \/ Pending(camQ, DispReqMsg) \/ dispSlot.data # NoBuf
  \/ Pending(dispQ, DispRespMsg) \/ newSet

\* Once a frame has reached the LCD driver, the display never loses its place
\* in the cycle of requests and responses, whatever the interrupt falls into.
DisplayStaysPending == [][current # NoBuf /\ DisplayPending => DisplayPending']_vars

\* The user and the recordings stop and start the algorithm independently: it
\* is stopped exactly as long as one of them blocks it.
StoppedIffBlocked == stopped <=> blockers # {}

\* New frames are requested after a run: while the algorithm works on its
\* frames the camera has no request that would make it overwrite them.
RunsOnStableFrames == algoPc = "run" => \A f \in Frames : ~algoSlot[f]

\* Unless it stays stopped, the algorithm runs again and again.
AlgoRunsAgain == <>[](~stopped) => []<>(algoPc = "run")

\* The display keeps receiving frames once the first has been requested back.
DisplayFramesKeepComing == <>[](current # NoBuf /\ DisplayPending) => []<>(dispPc = "blit_next")

\* A request is answered from the frame that was just dequeued, not from a
\* buffer that is back with the receiver.
AnswersDequeuedFrame ==
  /\ camPc = "display" /\ dispSlot.data # NoBuf /\ dispSlot.src = msg.format => msg.data = curBuf
  /\ camPc = "algo" /\ algoSlot[msg.format] => msg.data = curBuf
=============================================================================
