------------------------- MODULE FramePipelineProofs -------------------------
(***************************************************************************)
(* The types of FramePipeline and the blocking of the algorithm, proved    *)
(* for any length of the queues, any number of camera buffers, devices and *)
(* events.                                                                 *)
(***************************************************************************)
EXTENDS FramePipeline, QueueCounting, FiniteSetTheorems, SequenceTheorems, TLAPS

-----------------------------------------------------------------------------
(* Counting in the queues of the tasks.                                    *)

\* A queue keeps its type when a message is sent to it.
LEMMA PutType ==
  ASSUME NEW S, NEW q \in Seq(S), NEW m \in S
  PROVE  Put(q, m) \in Seq(S)
BY DEF Put

\* What a sender does to a queue: the message is added or, when the queue is
\* full, nothing is.
LEMMA CountPut ==
  ASSUME NEW S, NEW q \in Seq(S), NEW m \in S, NEW M
  PROVE  /\ Put(q, m) \in Seq(S)
         /\ Count(Put(q, m), M) \in Nat
         /\ Count(Put(q, m), M) >= Count(q, M)
         /\ Count(Put(q, m), M) <= Count(q, M) + (IF m \in M THEN 1 ELSE 0)
         /\ Len(q) < QUEUE_LENGTH =>
              Count(Put(q, m), M) = Count(q, M) + (IF m \in M THEN 1 ELSE 0)
<1>1. Count(q, M) \in Nat
  BY Positions
<1>2. CASE Len(q) < QUEUE_LENGTH
  <2>1. Put(q, m) = Append(q, m)
    BY <1>2 DEF Put
  <2>2. Append(q, m) \in Seq(S)
    OBVIOUS
  <2> QED
    BY <1>1, <2>1, <2>2, CountAppend
<1>3. CASE ~(Len(q) < QUEUE_LENGTH)
  <2>1. Put(q, m) = q
    BY <1>3 DEF Put
  <2> QED
    BY <1>1, <1>3, <2>1
<1> QED
  BY <1>2, <1>3

\* A message of M adds one, if there is room.
LEMMA PutOne ==
  ASSUME NEW S, NEW q \in Seq(S), NEW m \in S, NEW M, m \in M
  PROVE  /\ Count(Put(q, m), M) >= Count(q, M)
         /\ Count(Put(q, m), M) <= Count(q, M) + 1
         /\ Len(q) < QUEUE_LENGTH => Count(Put(q, m), M) = Count(q, M) + 1
BY CountPut

\* A message outside M does not change the count.
LEMMA PutOther ==
  ASSUME NEW S, NEW q \in Seq(S), NEW m \in S, NEW M, m \notin M
  PROVE  Count(Put(q, m), M) = Count(q, M)
<1>1. Count(q, M) \in Nat
  BY Positions
<1>2. /\ Count(Put(q, m), M) \in Nat
      /\ Count(Put(q, m), M) >= Count(q, M)
      /\ Count(Put(q, m), M) <= Count(q, M) + 0
  BY CountPut
<1> QED
  BY <1>1, <1>2

\* A message is pending when its count is not zero.
LEMMA CountPending ==
  ASSUME NEW S, NEW q \in Seq(S), NEW m
  PROVE  Pending(q, m) <=> Count(q, {m}) > 0
<1> DEFINE T == {i \in DOMAIN q : q[i] \in {m}}
<1>1. IsFiniteSet(T) /\ Cardinality(T) \in Nat /\ Count(q, {m}) = Cardinality(T)
  BY Positions DEF Count
<1>2. Pending(q, m) <=> T # {}
  BY DEF Pending
<1> HIDE DEF T
<1>3. Cardinality(T) = 0 <=> T = {}
  BY <1>1, FS_EmptySet
<1> QED
  BY <1>1, <1>2, <1>3

\* A round of requests has one for each frame.
LEMMA CountFrameOrder ==
  /\ FrameOrder \in Seq(Frames)
  /\ FrameOrder # <<>>
  /\ \A f \in Frames : Count(FrameOrder, {f}) = 1
<1>1. FrameOrder \in Seq(Frames) /\ FrameOrder # <<>>
  BY DEF FrameOrder, Frames
<1>2. ASSUME NEW f \in Frames PROVE Count(FrameOrder, {f}) = 1
  <2> DEFINE k == IF f = "RGB" THEN 1 ELSE 2
  <2>1. {i \in DOMAIN FrameOrder : FrameOrder[i] \in {f}} = {k}
    BY DEF FrameOrder, Frames
  <2> QED
    BY <2>1, FS_Singleton DEF Count
<1> QED
  BY <1>1, <1>2

-----------------------------------------------------------------------------
(* Types.                                                                  *)

\* What the queues carry: kinds of messages, and for each queue all of them.
Exposure == Msg("InputNotify", "exposure")
Sources == {Msg("SetSource", f) : f \in Frames}
OasisEvents == {"UserStop", "UserRun", "RecStart", "RecStop"}
Notifies == {Msg("InputNotify", e) : e \in OasisEvents}
CamMsgs == {Dequeue, DispReqMsg, AlgoReqMsg("RGB"), AlgoReqMsg("IR"), Exposure}
DispMsgs == {DispRespMsg} \cup Sources
AlgoMsgs == {AlgoRespMsg("RGB"), AlgoRespMsg("IR")} \cup Notifies

\* Types of the camera driver and its task.  Before the task has started all
\* the buffers wait; afterwards the receiver always has one to fill.  A
\* dequeued frame is answered from only with data and a format.
CamTypes ==
  /\ BufSeq(active) /\ BufSeq(empty) /\ BufSeq(full)
  /\ sensor \in Frames
  /\ valid \in BOOLEAN
  /\ curBuf \in CamBufs \cup {NoBuf}
  /\ camQ \in Seq(CamMsgs)
  /\ camPc \in {"init", "idle", "display", "algo", "enqueue"}
  /\ msg \in [data : CamBufs \cup {NoBuf}, format : Frames \cup {"none"}]
  /\ msg.data # NoBuf => msg.format \in Frames
  /\ camPc = "init" => active = <<>> /\ full = <<>> /\ empty = [i \in CamBufs |-> i]
  /\ camPc # "init" => Len(active) \in {1, 2}
  /\ camPc \in {"display", "algo", "enqueue"} => curBuf # NoBuf /\ msg.data # NoBuf

\* Types of the display task, the LCD driver and the camera task's slot.  A
\* request or response on its way has a frame buffer.
DispTypes ==
  /\ dispSlot \in [data : LcdBufs \cup {NoBuf}, src : Frames \cup {"none"}]
  /\ dispPc \in {"init", "idle", "blit_current", "blit_next", "set_flag"}
  /\ dispQ \in Seq(DispMsgs)
  /\ dispReq \in [data : LcdBufs \cup {NoBuf}, src : Frames \cup {"none"}]
  /\ dispResp \in LcdBufs \cup {NoBuf} /\ frame \in LcdBufs \cup {NoBuf}
  /\ srcFormat \in Frames
  /\ current \in LcdBufs \cup {NoBuf}
  /\ newSet \in BOOLEAN
  /\ next \in LcdBufs /\ shown \in LcdBufs
  /\ Count(camQ, {DispReqMsg}) > 0 => dispReq.data # NoBuf
  /\ Count(dispQ, {DispRespMsg}) > 0 => dispResp # NoBuf
  /\ dispPc \in {"blit_current", "blit_next"} => frame # NoBuf

\* Types of the algorithm's task and device.  It is about to send requests
\* exactly while some are left.
AlgoTypes ==
  /\ algoSlot \in [Frames -> BOOLEAN]
  /\ algoQ \in Seq(AlgoMsgs)
  /\ algoPc \in {"request", "idle", "run"}
  /\ todo \in Seq(Frames)
  /\ ready \in [Frames -> BOOLEAN]
  /\ stopped \in BOOLEAN /\ prevStop \in BOOLEAN
  /\ blockers \subseteq {"UserInput", "Record"}
  /\ events \in 0..MaxEvents
  /\ algoPc = "request" <=> todo # <<>>
  /\ algoPc = "run" => \A f \in Frames : ready[f]

\* The types of all parts together are inductive; none of them is alone.
TypeInv == CamTypes /\ DispTypes /\ AlgoTypes

\* The messages are told apart by their tag and argument.
LEMMA MsgFacts ==
  /\ {Dequeue, DispReqMsg, AlgoReqMsg("RGB"), AlgoReqMsg("IR"), Exposure} \subseteq CamMsgs
  /\ DispRespMsg \in DispMsgs
  /\ \A f \in Frames : AlgoReqMsg(f) \in CamMsgs /\ AlgoRespMsg(f) \in AlgoMsgs
  /\ \A f \in Frames : Msg("SetSource", f) \in Sources /\ Msg("SetSource", f) \in DispMsgs
  /\ \A e \in OasisEvents : Msg("InputNotify", e) \in Notifies /\ Msg("InputNotify", e) \in AlgoMsgs
  /\ Dequeue # DispReqMsg /\ Dequeue # Exposure /\ DispReqMsg # Exposure
  /\ \A f \in Frames : AlgoReqMsg(f) # Dequeue /\ AlgoReqMsg(f) # DispReqMsg /\ AlgoReqMsg(f) # Exposure
  /\ \A f, g \in Frames : AlgoReqMsg(f) = AlgoReqMsg(g) => f = g
  /\ \A f, g \in Frames : AlgoRespMsg(f) = AlgoRespMsg(g) => f = g
  /\ \A f \in Frames : AlgoRespMsg(f) \notin Notifies
  /\ DispRespMsg \notin Sources
  /\ \A m \in CamMsgs : m.id = "InputNotify" => m = Exposure
  /\ \A m \in DispMsgs : m.id = "SetSource" => m \in Sources /\ m.arg \in Frames
  /\ \A m \in AlgoMsgs : m.id = "InputNotify" => m \in Notifies /\ m.arg \in OasisEvents
<1> USE DEF Dequeue, DispReqMsg, AlgoReqMsg, Exposure, DispRespMsg, AlgoRespMsg, Msg,
            CamMsgs, DispMsgs, AlgoMsgs, Sources, Notifies, OasisEvents, Frames
<1>1. {Dequeue, DispReqMsg, AlgoReqMsg("RGB"), AlgoReqMsg("IR"), Exposure} \subseteq CamMsgs
  OBVIOUS
<1>2. DispRespMsg \in DispMsgs
  OBVIOUS
<1>3. \A f \in Frames : AlgoReqMsg(f) \in CamMsgs /\ AlgoRespMsg(f) \in AlgoMsgs
  OBVIOUS
<1>4. \A f \in Frames : Msg("SetSource", f) \in Sources /\ Msg("SetSource", f) \in DispMsgs
  OBVIOUS
<1>5. \A e \in OasisEvents : Msg("InputNotify", e) \in Notifies /\ Msg("InputNotify", e) \in AlgoMsgs
  OBVIOUS
<1>6. Dequeue # DispReqMsg /\ Dequeue # Exposure /\ DispReqMsg # Exposure
  OBVIOUS
<1>7. \A f \in Frames : AlgoReqMsg(f) # Dequeue /\ AlgoReqMsg(f) # DispReqMsg /\ AlgoReqMsg(f) # Exposure
  OBVIOUS
<1>8. /\ \A f, g \in Frames : AlgoReqMsg(f) = AlgoReqMsg(g) => f = g
      /\ \A f, g \in Frames : AlgoRespMsg(f) = AlgoRespMsg(g) => f = g
  OBVIOUS
<1>9. \A f \in Frames : AlgoRespMsg(f) \notin Notifies
  OBVIOUS
<1>10. DispRespMsg \notin Sources
  OBVIOUS
<1>11. \A m \in CamMsgs : m.id = "InputNotify" => m = Exposure
  OBVIOUS
<1>12. \A m \in DispMsgs : m.id = "SetSource" => m \in Sources /\ m.arg \in Frames
  OBVIOUS
<1>13. \A m \in AlgoMsgs : m.id = "InputNotify" => m \in Notifies /\ m.arg \in OasisEvents
  OBVIOUS
<1> QED
  BY <1>1, <1>2, <1>3, <1>4, <1>5, <1>6, <1>7, <1>8, <1>9, <1>10, <1>11, <1>12, <1>13

-----------------------------------------------------------------------------
(* Types: proof.                                                           *)

\* The initial state has the types.
LEMMA TypeInit ==
  Init => TypeInv
<1> SUFFICES ASSUME Init PROVE TypeInv
  OBVIOUS
<1>1. CamTypes
  <2>1. [i \in CamBufs |-> i] \in Seq(CamBufs)
    BY PipelineAssumption DEF CamBufs
  <2>2. BufSeq(active) /\ BufSeq(empty) /\ BufSeq(full) /\ camQ \in Seq(CamMsgs)
    BY <2>1 DEF Init, BufSeq
  <2>3. sensor \in Frames /\ valid \in BOOLEAN /\ curBuf = NoBuf /\ camPc = "init"
    BY DEF Init, Frames
  <2>4. msg \in [data : CamBufs \cup {NoBuf}, format : Frames \cup {"none"}] /\ msg.data = NoBuf
    BY DEF Init
  <2>5. active = <<>> /\ full = <<>> /\ empty = [i \in CamBufs |-> i]
    BY DEF Init
  <2> QED
    BY <2>2, <2>3, <2>4, <2>5 DEF CamTypes
<1>2. DispTypes
  <2>1. Count(camQ, {DispReqMsg}) = 0 /\ Count(dispQ, {DispRespMsg}) = 0 /\ dispQ \in Seq(DispMsgs)
    BY CountEmpty DEF Init
  <2>2. /\ dispSlot \in [data : LcdBufs \cup {NoBuf}, src : Frames \cup {"none"}]
        /\ dispReq \in [data : LcdBufs \cup {NoBuf}, src : Frames \cup {"none"}]
    BY DEF Init
  <2>3. /\ dispPc = "init" /\ dispResp = NoBuf /\ frame = NoBuf /\ current = NoBuf /\ newSet \in BOOLEAN
        /\ srcFormat \in Frames /\ next \in LcdBufs /\ shown \in LcdBufs
    BY DEF Init, Frames, LcdBufs
  <2> QED
    BY <2>1, <2>2, <2>3 DEF DispTypes
<1>3. AlgoTypes
  <2>1. /\ todo \in Seq(Frames) /\ algoQ \in Seq(AlgoMsgs)
        /\ algoPc = "request" <=> todo # <<>>
        /\ algoPc \in {"request", "idle"}
    BY CountFrameOrder DEF Init
  <2>2. events \in 0..MaxEvents
    BY PipelineAssumption DEF Init
  <2>3. algoSlot \in [Frames -> BOOLEAN] /\ ready \in [Frames -> BOOLEAN]
    BY DEF Init
  <2> QED
    BY <2>1, <2>2, <2>3 DEF Init, AlgoTypes
<1> QED
  BY <1>1, <1>2, <1>3 DEF TypeInv

\* The camera driver and task keep their types.
LEMMA CamTypesStep ==
  ASSUME TypeInv, Next
  PROVE  CamTypes'
<1> USE DEF TypeInv
<1>1. ASSUME UNCHANGED <<recv, camd, camPc>>, camQ' \in Seq(CamMsgs)
      PROVE  CamTypes'
  BY <1>1 DEF CamTypes, recv, camd, BufSeq
<1>2. CASE CsiFrameDone
  <2>1. camQ' \in Seq(CamMsgs)
    <3>1. camQ' = camQ \/ camQ' = Put(camQ, Dequeue)
      BY <1>2 DEF CsiFrameDone
    <3>2. camQ \in Seq(CamMsgs) /\ Dequeue \in CamMsgs
      BY MsgFacts DEF CamTypes
    <3> QED
      BY <3>1, <3>2 DEF Put
  <2>2. camPc # "init" /\ UNCHANGED <<camd, camPc>>
    BY <1>2 DEF CsiFrameDone, CamTypes, camd, cam
  <2>3. /\ active \in Seq(CamBufs) /\ empty \in Seq(CamBufs) /\ full \in Seq(CamBufs)
        /\ Len(active) \in {1, 2} /\ active # <<>>
    BY <1>2, <2>2 DEF CsiFrameDone, CamTypes, BufSeq
  <2>4. active' \in Seq(CamBufs) /\ Len(active') \in {1, 2}
    <3>1. CASE empty = <<>>
      <4>1. Len(active) = 2 /\ active' = Tail(active) \o <<>>
        BY <1>2, <3>1 DEF CsiFrameDone
      <4> QED
        BY <2>3, <4>1
    <3>2. CASE empty # <<>> /\ Len(active) = 2
      <4>1. active' = Tail(active) \o <<Head(empty)>>
        BY <1>2, <3>2 DEF CsiFrameDone
      <4>2. Head(empty) \in CamBufs /\ Tail(active) \in Seq(CamBufs) /\ Len(Tail(active)) = 1
        BY <2>3, <3>2
      <4>3. <<Head(empty)>> \in Seq(CamBufs) /\ Len(<<Head(empty)>>) = 1
        BY <4>2
      <4> QED
        BY <4>1, <4>2, <4>3
    <3>3. CASE empty # <<>> /\ Len(active) # 2
      <4>1. active' = Append(active, Head(empty)) /\ Len(active) = 1
        BY <1>2, <2>3, <3>3 DEF CsiFrameDone
      <4>2. Head(empty) \in CamBufs
        BY <2>3, <3>3
      <4>3. Append(active, Head(empty)) \in Seq(CamBufs)
        BY <2>3, <4>2
      <4>4. Len(Append(active, Head(empty))) = Len(active) + 1
        BY <2>3
      <4> QED
        BY <4>1, <4>3, <4>4
    <3> QED
      BY <3>1, <3>2, <3>3
  <2>5. empty' \in Seq(CamBufs)
    BY <1>2, <2>3 DEF CsiFrameDone
  <2>6. full' \in Seq(CamBufs)
    <3>1. full' = full \/ full' = Append(full, Head(active))
      BY <1>2 DEF CsiFrameDone
    <3>2. Head(active) \in CamBufs
      BY <2>3
    <3> QED
      BY <2>3, <3>1, <3>2
  <2> QED
    BY <2>1, <2>2, <2>4, <2>5, <2>6 DEF CamTypes, camd, BufSeq
<1>3. CASE CamStart
  <2>1. Len(empty) = CAMERA_DEV_BUFFER_COUNT /\ empty \in Seq(CamBufs)
    BY <1>3, PipelineAssumption DEF CamStart, CamTypes, CamBufs, BufSeq
  <2>2. /\ SubSeq(empty, 1, 2) \in Seq(CamBufs) /\ Len(SubSeq(empty, 1, 2)) = 2
        /\ SubSeq(empty, 3, Len(empty)) \in Seq(CamBufs)
    BY <2>1, PipelineAssumption
  <2> QED
    BY <1>3, <2>2 DEF CamStart, CamTypes, BufSeq, camd
<1>4. CASE CamDisplayRequest
  BY <1>1, <1>4 DEF CamDisplayRequest, CamTypes
<1>5. ASSUME NEW f \in Frames, CamAlgoRequest(f)
      PROVE  CamTypes'
  BY <1>1, <1>5 DEF CamAlgoRequest, CamTypes
<1>6. CASE CamNotify
  BY <1>1, <1>6 DEF CamNotify, CamTypes, cam
<1>7. CASE CamDequeue
  <2>1. /\ camQ' \in Seq(CamMsgs)
        /\ Head(full) \in CamBufs /\ Tail(full) \in Seq(CamBufs)
        /\ NoBuf \notin CamBufs
    BY <1>7, PipelineAssumption DEF CamDequeue, CamTypes, BufSeq
  <2>2. Other(sensor) \in Frames /\ sensor \in Frames
    BY DEF CamTypes, Other, Frames
  <2>3. msg' \in [data : CamBufs \cup {NoBuf}, format : Frames \cup {"none"}]
        /\ (msg'.data # NoBuf => msg'.format \in Frames)
    BY <1>7, <2>1, <2>2 DEF CamDequeue, CamTypes
  <2> QED
    BY <1>7, <2>1, <2>2, <2>3 DEF CamDequeue, CamTypes, BufSeq
<1>8. CASE CamDisplayResponse
  BY <1>8 DEF CamDisplayResponse, CamTypes, recv, camd, BufSeq
<1>9. CASE CamAlgoResponse
  BY <1>9 DEF CamAlgoResponse, CamTypes, recv, camd, BufSeq
<1>10. CASE CamEnqueue
  <2>1. curBuf \in CamBufs /\ <<curBuf>> \o empty \in Seq(CamBufs)
    BY <1>10 DEF CamEnqueue, CamTypes, BufSeq
  <2> QED
    BY <1>10, <2>1 DEF CamEnqueue, CamTypes, BufSeq
<1>11. CASE LcdFrameDone \/ DispStart
  <2>1. camQ \in Seq(CamMsgs) /\ DispReqMsg \in CamMsgs
    BY MsgFacts DEF CamTypes
  <2>2. Put(camQ, DispReqMsg) \in Seq(CamMsgs)
    BY <2>1, PutType
  <2>3. camQ' \in Seq(CamMsgs)
    BY <1>11, <2>1, <2>2 DEF LcdFrameDone, DispStart
  <2> QED
    BY <1>1, <1>11, <2>3 DEF LcdFrameDone, DispStart, cam
<1>12. CASE DispBlitFlag \/ DispBlitCurrent \/ DispBlitNext \/ DispSetFormat \/ DispSetFlag
  BY <1>1, <1>12 DEF DispBlitFlag, DispBlitCurrent, DispBlitNext, DispSetFormat, DispSetFlag,
                     cam, CamTypes
<1>13. CASE AlgoRequest
  <2>1. Head(todo) \in Frames
    BY <1>13 DEF AlgoRequest, AlgoTypes
  <2>2. camQ' \in Seq(CamMsgs)
    BY <1>13, <2>1, MsgFacts DEF AlgoRequest, CamTypes, Put
  <2> QED
    BY <1>1, <1>13, <2>2 DEF AlgoRequest, cam
<1>14. ASSUME NEW f \in Frames, AlgoResponse(f)
       PROVE  CamTypes'
  BY <1>1, <1>14 DEF AlgoResponse, cam, CamTypes
<1>15. CASE AlgoRunEnd \/ AlgoNotify
  BY <1>1, <1>15 DEF AlgoRunEnd, AlgoNotify, cam, CamTypes
<1>16. CASE Event
  <2>1. camQ' \in Seq(CamMsgs)
    BY <1>16, MsgFacts DEF Event, SendNotify, SendSetSource, SendOasisEvent, CamTypes, Exposure, Put
  <2> QED
    BY <1>1, <1>16, <2>1 DEF Event, cam
<1> QED
  BY <1>2, <1>3, <1>4, <1>5, <1>6, <1>7, <1>8, <1>9, <1>10, <1>11, <1>12, <1>13, <1>14, <1>15, <1>16
  DEF Next, CamStep, DispStep, AlgoStep

\* The display task, the LCD driver and the slot keep their types.
LEMMA DispTypesStep ==
  ASSUME TypeInv, Next
  PROVE  DispTypes'
<1> USE DEF TypeInv
<1> DEFINE DisplayVars == <<dispSlot, dispPc, dispQ, dispReq, dispResp, frame, srcFormat, current, newSet, next, shown>>
<1>c. /\ camQ \in Seq(CamMsgs) /\ dispQ \in Seq(DispMsgs)
      /\ Count(camQ, {DispReqMsg}) \in Nat /\ Count(dispQ, {DispRespMsg}) \in Nat
  BY Positions DEF CamTypes, DispTypes
\* A message other than a request leaves the requests of the queue alone.
<1>p. ASSUME NEW m \in CamMsgs, m # DispReqMsg
      PROVE  Count(Put(camQ, m), {DispReqMsg}) = Count(camQ, {DispReqMsg})
  BY <1>c, <1>p, CountPut
\* Receiving a message adds none.
<1>t. ASSUME camQ # <<>>
      PROVE  Count(Tail(camQ), {DispReqMsg}) <= Count(camQ, {DispReqMsg})
  BY <1>c, <1>t, CountTake
<1>h. ASSUME camQ # <<>>, Head(camQ) = DispReqMsg
      PROVE  Count(camQ, {DispReqMsg}) > 0
  BY <1>c, <1>h, CountTake
<1>1. ASSUME UNCHANGED DisplayVars, Count(camQ', {DispReqMsg}) <= Count(camQ, {DispReqMsg}),
             Count(camQ', {DispReqMsg}) \in Nat
      PROVE  DispTypes'
  BY <1>c, <1>1 DEF DispTypes
<1>n. CamTypes' => Count(camQ', {DispReqMsg}) \in Nat
  BY Positions DEF CamTypes
<1>m. Count(camQ', {DispReqMsg}) \in Nat
  BY CamTypesStep, <1>n
<1>2. CASE CsiFrameDone
  <2>1. camQ' = camQ \/ camQ' = Put(camQ, Dequeue)
    BY <1>2 DEF CsiFrameDone
  <2>2. Count(camQ', {DispReqMsg}) <= Count(camQ, {DispReqMsg})
    <3>1. Dequeue \in CamMsgs /\ Dequeue # DispReqMsg
      BY MsgFacts
    <3>2. Count(Put(camQ, Dequeue), {DispReqMsg}) = Count(camQ, {DispReqMsg})
      BY <1>p, <3>1
    <3> QED
      BY <1>c, <2>1, <3>2
  <2> QED
    BY <1>1, <1>2, <1>m, <2>2 DEF CsiFrameDone, cam, disp
<1>3. CASE CamStart
  BY <1>1, <1>3, <1>m, <1>c DEF CamStart, disp
<1>4. CASE CamDisplayRequest
  <2>1. Count(camQ', {DispReqMsg}) <= Count(camQ, {DispReqMsg}) /\ Count(camQ, {DispReqMsg}) > 0
    BY <1>4, <1>t, <1>h DEF CamDisplayRequest
  <2>2. dispReq.data # NoBuf
    BY <2>1 DEF DispTypes
  <2>3. dispSlot' \in [data : LcdBufs \cup {NoBuf}, src : Frames \cup {"none"}]
    BY <1>4 DEF CamDisplayRequest, DispTypes
  <2> QED
    BY <1>4, <2>2, <2>3 DEF CamDisplayRequest, DispTypes, disp
<1>5. ASSUME NEW f \in Frames, CamAlgoRequest(f)
      PROVE  DispTypes'
  BY <1>1, <1>5, <1>t, <1>m DEF CamAlgoRequest, disp
<1>6. CASE CamNotify
  BY <1>1, <1>6, <1>t, <1>m DEF CamNotify, cam, disp
<1>7. CASE CamDequeue
  BY <1>1, <1>7, <1>t, <1>m DEF CamDequeue, disp
<1>8. CASE CamDisplayResponse
  <2>1. CASE dispSlot.data # NoBuf /\ dispSlot.src = msg.format
    <3>1. dispQ' \in Seq(DispMsgs)
      <4>1. dispQ' = Put(dispQ, DispRespMsg)
        BY <1>8, <2>1 DEF CamDisplayResponse
      <4>2. DispRespMsg \in DispMsgs
        BY MsgFacts
      <4> QED
        BY <1>c, <4>1, <4>2 DEF Put
    <3>2. dispResp' \in LcdBufs /\ dispResp' # NoBuf
      BY <1>8, <2>1 DEF CamDisplayResponse, DispTypes
    <3>3. dispSlot' \in [data : LcdBufs \cup {NoBuf}, src : Frames \cup {"none"}]
      BY <1>8, <2>1 DEF CamDisplayResponse, DispTypes
    <3> QED
      BY <1>8, <3>1, <3>2, <3>3 DEF CamDisplayResponse, DispTypes, disp
  <2>2. CASE ~(dispSlot.data # NoBuf /\ dispSlot.src = msg.format)
    BY <1>1, <1>8, <2>2, <1>c DEF CamDisplayResponse, disp
  <2> QED
    BY <2>1, <2>2
<1>9. CASE CamAlgoResponse
  BY <1>1, <1>9, <1>c DEF CamAlgoResponse, disp
<1>10. CASE CamEnqueue
  BY <1>1, <1>10, <1>c DEF CamEnqueue, disp
<1>11. CASE DispStart
  <2>1. dispReq' \in [data : LcdBufs \cup {NoBuf}, src : Frames \cup {"none"}] /\ dispReq'.data # NoBuf
    BY <1>11, PipelineAssumption DEF DispStart, DispTypes, LcdBufs
  <2> QED
    BY <1>11, <2>1 DEF DispStart, DispTypes, cam
<1>12. CASE DispBlitFlag
  <2>1. Count(dispQ, {DispRespMsg}) > 0 /\ dispQ' \in Seq(DispMsgs)
    BY <1>12, <1>c, CountTake DEF DispBlitFlag
  <2> QED
    BY <1>12, <2>1 DEF DispBlitFlag, DispTypes, cam
<1>13. CASE DispBlitCurrent
  BY <1>13 DEF DispBlitCurrent, DispTypes, cam
<1>14. CASE DispBlitNext
  BY <1>14 DEF DispBlitNext, DispTypes, cam
<1>15. CASE DispSetFormat
  <2>1. /\ dispQ' \in Seq(DispMsgs) /\ Head(dispQ) \in DispMsgs
        /\ Count(dispQ', {DispRespMsg}) <= Count(dispQ, {DispRespMsg})
        /\ Count(dispQ', {DispRespMsg}) \in Nat
    BY <1>15, <1>c, CountTake DEF DispSetFormat
  <2>2. srcFormat' \in Frames
    BY <1>15, <2>1, MsgFacts DEF DispSetFormat
  <2> QED
    BY <1>15, <1>c, <2>1, <2>2 DEF DispSetFormat, DispTypes, cam
<1>16. CASE DispSetFlag
  BY <1>16 DEF DispSetFlag, DispTypes, cam
<1>17. CASE LcdFrameDone
  <2>1. CASE newSet /\ current # NoBuf
    <3>1. dispReq' \in [data : LcdBufs \cup {NoBuf}, src : Frames \cup {"none"}] /\ dispReq'.data # NoBuf
      BY <1>17, <2>1, PipelineAssumption DEF LcdFrameDone, DispTypes, LcdBufs, OtherBuf
    <3> QED
      BY <1>17, <3>1 DEF LcdFrameDone, DispTypes, cam
  <2>2. CASE ~(newSet /\ current # NoBuf)
    BY <1>17, <2>2 DEF LcdFrameDone, DispTypes, cam
  <2> QED
    BY <2>1, <2>2
<1>18. CASE AlgoRequest
  <2>1. AlgoReqMsg(Head(todo)) \in CamMsgs /\ AlgoReqMsg(Head(todo)) # DispReqMsg
    <3>1. Head(todo) \in Frames
      BY <1>18 DEF AlgoRequest, AlgoTypes
    <3> QED
      BY <3>1, MsgFacts
  <2>2. Count(camQ', {DispReqMsg}) = Count(camQ, {DispReqMsg})
    BY <1>18, <2>1, <1>p DEF AlgoRequest
  <2> QED
    BY <1>1, <1>18, <1>c, <2>2 DEF AlgoRequest, cam, disp
<1>19. ASSUME NEW f \in Frames, AlgoResponse(f)
       PROVE  DispTypes'
  BY <1>1, <1>19, <1>c DEF AlgoResponse, cam, disp
<1>20. CASE AlgoRunEnd \/ AlgoNotify
  BY <1>1, <1>20, <1>c DEF AlgoRunEnd, AlgoNotify, cam, disp
<1>21. CASE Event
  <2>1. CASE SendNotify
    <3>1. Count(camQ', {DispReqMsg}) = Count(camQ, {DispReqMsg})
      BY <2>1, <1>p, MsgFacts DEF SendNotify, Exposure
    <3> QED
      BY <1>1, <1>21, <2>1, <1>c, <3>1 DEF Event, SendNotify, cam, disp
  <2>2. ASSUME NEW f \in Frames, SendSetSource(f)
        PROVE  DispTypes'
    <3>1. /\ dispQ' \in Seq(DispMsgs)
          /\ Count(dispQ', {DispRespMsg}) \in Nat
          /\ Count(dispQ', {DispRespMsg}) = Count(dispQ, {DispRespMsg})
      <4> DEFINE m == Msg("SetSource", f)
      <4>1. m \in DispMsgs /\ m \notin {DispRespMsg}
        BY <2>2, MsgFacts
      <4>2. dispQ' = Put(dispQ, m)
        BY <2>2 DEF SendSetSource
      <4> HIDE DEF m
      <4> QED
        BY <1>c, <4>1, <4>2, CountPut
    <3> QED
      BY <1>21, <2>2, <1>c, <3>1 DEF Event, SendSetSource, DispTypes, cam, disp
  <2>3. ASSUME NEW e \in OasisEvents, SendOasisEvent(e)
        PROVE  DispTypes'
    BY <1>1, <1>21, <2>3, <1>c DEF Event, SendOasisEvent, cam, disp
  <2> QED
    BY <1>21, <2>1, <2>2, <2>3 DEF Event, OasisEvents
<1> QED
  BY <1>2, <1>3, <1>4, <1>5, <1>6, <1>7, <1>8, <1>9, <1>10, <1>11, <1>12, <1>13, <1>14, <1>15,
     <1>16,
     <1>17, <1>18, <1>19, <1>20, <1>21
  DEF Next, CamStep, DispStep, AlgoStep

\* The algorithm's task and device keep their types.
LEMMA AlgoTypesStep ==
  ASSUME TypeInv, Next
  PROVE  AlgoTypes'
<1> USE DEF TypeInv
<1>1. ASSUME UNCHANGED <<algoSlot, algoQ, algo, events>>
      PROVE  AlgoTypes'
  BY <1>1 DEF AlgoTypes, algo
<1>2. CASE CsiFrameDone \/ CamDisplayRequest \/ CamStart \/ CamNotify \/ CamDequeue \/ CamDisplayResponse
           \/ CamEnqueue
  BY <1>1, <1>2 DEF CsiFrameDone, CamDisplayRequest, CamStart, CamNotify, CamDequeue,
     CamDisplayResponse,
                    CamEnqueue, cam
<1>3. ASSUME NEW f \in Frames, CamAlgoRequest(f)
      PROVE  AlgoTypes'
  BY <1>3 DEF CamAlgoRequest, AlgoTypes, algo
<1>4. CASE CamAlgoResponse
  <2>1. msg.format \in Frames
    BY <1>4 DEF CamAlgoResponse, CamTypes
  <2>2. algoSlot' \in [Frames -> BOOLEAN]
    BY <1>4 DEF CamAlgoResponse, AlgoTypes
  <2>3. algoQ' \in Seq(AlgoMsgs)
    <3>1. algoQ' = algoQ \/ algoQ' = Put(algoQ, AlgoRespMsg(msg.format))
      BY <1>4 DEF CamAlgoResponse
    <3>2. AlgoRespMsg(msg.format) \in AlgoMsgs /\ algoQ \in Seq(AlgoMsgs)
      BY <2>1, MsgFacts DEF AlgoTypes
    <3> QED
      BY <3>1, <3>2 DEF Put
  <2> QED
    BY <1>4, <2>2, <2>3 DEF CamAlgoResponse, AlgoTypes, algo
<1>5. CASE LcdFrameDone \/ DispStart \/ DispBlitFlag \/ DispBlitCurrent \/ DispBlitNext \/ DispSetFormat
           \/ DispSetFlag
  BY <1>1, <1>5 DEF LcdFrameDone, DispStart, DispBlitFlag, DispBlitCurrent, DispBlitNext,
     DispSetFormat,
                    DispSetFlag, cam
<1>6. CASE AlgoRequest
  <2>1. todo \in Seq(Frames) /\ todo # <<>>
    BY <1>6 DEF AlgoRequest, AlgoTypes
  <2>2. todo' \in Seq(Frames) /\ (Len(todo) = 1 <=> todo' = <<>>)
    <3>1. todo' = Tail(todo)
      BY <1>6 DEF AlgoRequest
    <3>2. Tail(todo) \in Seq(Frames) /\ Len(Tail(todo)) = Len(todo) - 1 /\ Len(todo) \in Nat
      BY <2>1
    <3>3. \A s \in Seq(Frames) : s = <<>> <=> Len(s) = 0
      OBVIOUS
    <3> QED
      BY <3>1, <3>2, <3>3
  <2> QED
    BY <1>6, <2>2 DEF AlgoRequest, AlgoTypes, cam
<1>7. ASSUME NEW f \in Frames, AlgoResponse(f)
      PROVE  AlgoTypes'
  <2>1. algoQ' \in Seq(AlgoMsgs)
    BY <1>7 DEF AlgoResponse, AlgoTypes
  <2>2. ready' \in [Frames -> BOOLEAN]
    BY <1>7 DEF AlgoResponse, AlgoTypes
  <2>3. algoPc' \in {"run", "idle"} /\ (algoPc' = "run" => \A g \in Frames : ready'[g])
    BY <1>7 DEF AlgoResponse
  <2> QED
    BY <1>7, <2>1, <2>2, <2>3 DEF AlgoResponse, AlgoTypes, cam
<1>8. CASE AlgoRunEnd
  BY <1>8, CountFrameOrder DEF AlgoRunEnd, AlgoTypes, cam
<1>9. CASE AlgoNotify
  <2>1. /\ algoQ' \in Seq(AlgoMsgs)
        /\ Head(algoQ).arg \in OasisEvents
    BY <1>9, MsgFacts DEF AlgoNotify, AlgoTypes
  <2>2. OasisEvent(Head(algoQ).arg) /\ algoPc = "idle"
    BY <1>9 DEF AlgoNotify
  <2>3. /\ blockers' \subseteq {"UserInput", "Record"}
        /\ stopped' \in BOOLEAN /\ prevStop' \in BOOLEAN
        /\ \/ algoPc' = "idle" /\ todo' = todo
           \/ algoPc' = "request" /\ todo' = FrameOrder
    <3> DEFINE e == Head(algoQ).arg
    <3>1. e \in OasisEvents /\ OasisEvent(e)
      BY <2>1, <2>2
    <3> HIDE DEF e
    <3>2. CASE e = "UserStop"
      BY <2>2, <3>1, <3>2 DEF OasisEvent, OasisStop, AlgoTypes
    <3>3. CASE e = "RecStart"
      BY <2>2, <3>1, <3>3 DEF OasisEvent, OasisStop, AlgoTypes
    <3>4. CASE e = "UserRun"
      BY <2>2, <3>1, <3>4 DEF OasisEvent, OasisStart, AlgoTypes
    <3>5. CASE e = "RecStop"
      BY <2>2, <3>1, <3>5 DEF OasisEvent, OasisStart, AlgoTypes
    <3> QED
      BY <3>1, <3>2, <3>3, <3>4, <3>5 DEF OasisEvents
  <2> QED
    BY <1>9, <2>1, <2>2, <2>3, CountFrameOrder DEF AlgoNotify, AlgoTypes, cam
<1>10. CASE Event
  <2>1. events' \in 0..MaxEvents
    BY <1>10, PipelineAssumption DEF Event, AlgoTypes
  <2>2. algoQ' \in Seq(AlgoMsgs)
    <3>1. CASE SendNotify
      BY <3>1 DEF SendNotify, AlgoTypes
    <3>2. ASSUME NEW f \in Frames, SendSetSource(f)
          PROVE  algoQ' \in Seq(AlgoMsgs)
      BY <3>2 DEF SendSetSource, AlgoTypes
    <3>3. ASSUME NEW e \in OasisEvents, SendOasisEvent(e)
          PROVE  algoQ' \in Seq(AlgoMsgs)
      <4> DEFINE m == Msg("InputNotify", e)
      <4>1. m \in AlgoMsgs /\ algoQ' = Put(algoQ, m)
        BY <3>3, MsgFacts DEF SendOasisEvent
      <4> HIDE DEF m
      <4> QED
        BY <4>1 DEF Put, AlgoTypes
    <3> QED
      BY <1>10, <3>1, <3>2, <3>3 DEF Event, OasisEvents
  <2> QED
    BY <1>10, <2>1, <2>2 DEF Event, AlgoTypes, algo, cam
<1> QED
  BY <1>2, <1>3, <1>4, <1>5, <1>6, <1>7, <1>8, <1>9, <1>10 DEF Next, CamStep, DispStep, AlgoStep

\* Every step keeps the types.
LEMMA TypeStep ==
  TypeInv /\ [Next]_vars => TypeInv'
<1> SUFFICES ASSUME TypeInv, [Next]_vars PROVE TypeInv'
  OBVIOUS
<1>1. CASE Next
  BY <1>1, CamTypesStep, DispTypesStep, AlgoTypesStep DEF TypeInv
<1>2. CASE UNCHANGED vars
  BY <1>2 DEF vars, TypeInv, CamTypes, DispTypes, AlgoTypes, BufSeq
<1> QED
  BY <1>1, <1>2

\* The types hold in every reachable state: among them, that a task that
\* answers a request has a buffer and a format to answer from, and that the
\* LCD driver is never given a NULL frame buffer.
THEOREM TypesSound == Spec => []TypeInv
BY TypeInit, TypeStep, PTL DEF Spec

\* The types the runs check follow.
THEOREM TypeCorrect == Spec => []TypeOK
<1>1. TypeInv => TypeOK
  <2> SUFFICES ASSUME TypeInv PROVE TypeOK
    OBVIOUS
  <2>1. CamMsgs \subseteq Messages /\ DispMsgs \subseteq Messages /\ AlgoMsgs \subseteq Messages
    BY DEF Dequeue, DispReqMsg, AlgoReqMsg, Exposure, DispRespMsg, AlgoRespMsg, Msg, CamMsgs,
       DispMsgs,
           AlgoMsgs, Sources, Notifies, OasisEvents, Frames, Messages, Ids, AllEvents
  <2>2. camQ \in Seq(Messages) /\ dispQ \in Seq(Messages) /\ algoQ \in Seq(Messages)
    BY <2>1 DEF TypeInv, CamTypes, DispTypes, AlgoTypes
  <2>3. Len(active) <= 2
    <3>1. CASE camPc = "init"
      BY <3>1 DEF TypeInv, CamTypes
    <3>2. CASE camPc # "init"
      <4>1. Len(active) \in {1, 2} /\ active \in Seq(CamBufs)
        BY <3>2 DEF TypeInv, CamTypes, BufSeq
      <4>2. \A n \in {1, 2} : n <= 2
        OBVIOUS
      <4> QED
        BY <4>1, <4>2
    <3> QED
      BY <3>1, <3>2
  <2> QED
    BY <2>2, <2>3 DEF TypeOK, TypeInv, CamTypes, DispTypes, AlgoTypes
<1> QED
  BY <1>1, TypesSound, PTL

-----------------------------------------------------------------------------
(* Stopping the algorithm.                                                 *)

\* A run of the algorithm is stopped or not, and who blocks it.
StopInv == (stopped <=> blockers # {}) /\ (stopped => ~prevStop)

\* What stops the algorithm.  The part about prevStop is what the end of a
\* recording needs: were the saved flag "stopped" while the algorithm is
\* stopped, _oasis_start would be skipped.
THEOREM StoppedExactlyWhileBlocked == Spec => []StoppedIffBlocked
<1>1. Init => StopInv
  BY DEF Init, StopInv
<1>2. TypeInv /\ StopInv /\ [Next]_vars => StopInv'
  <2> SUFFICES ASSUME TypeInv, StopInv, [Next]_vars PROVE StopInv'
    OBVIOUS
  <2>1. CASE AlgoNotify
    <3> DEFINE e == Head(algoQ).arg
    <3>1. e \in OasisEvents /\ OasisEvent(e)
      BY <2>1, MsgFacts DEF AlgoNotify, AlgoTypes, TypeInv
    <3>2. blockers \subseteq {"UserInput", "Record"} /\ stopped \in BOOLEAN /\ prevStop \in BOOLEAN
      BY DEF TypeInv, AlgoTypes
    <3> HIDE DEF e
    <3>3. CASE e = "UserStop"
      BY <3>1, <3>2, <3>3 DEF OasisEvent, OasisStop, StopInv
    <3>4. CASE e = "RecStart"
      BY <3>1, <3>2, <3>4 DEF OasisEvent, OasisStop, StopInv
    <3>5. CASE e = "UserRun"
      BY <3>1, <3>2, <3>5 DEF OasisEvent, OasisStart, StopInv
    <3>6. CASE e = "RecStop"
      BY <3>1, <3>2, <3>6 DEF OasisEvent, OasisStart, StopInv
    <3> QED
      BY <3>1, <3>3, <3>4, <3>5, <3>6 DEF OasisEvents
  <2>2. ASSUME UNCHANGED <<stopped, prevStop, blockers>>
        PROVE  StopInv'
    BY <2>2 DEF StopInv
  <2>3. CASE UNCHANGED vars
    BY <2>2, <2>3 DEF vars
  <2>4. CASE CsiFrameDone \/ LcdFrameDone \/ CamStep \/ DispStep \/ AlgoRequest
             \/ (\E f \in Frames : AlgoResponse(f)) \/ AlgoRunEnd \/ Event
    BY <2>2, <2>4 DEF CsiFrameDone, LcdFrameDone, CamStep, CamDisplayRequest, CamStart,
       CamAlgoRequest,
         CamNotify, CamDequeue, CamDisplayResponse, CamAlgoResponse, CamEnqueue, DispStep, DispStart,
         DispBlitFlag, DispBlitCurrent, DispBlitNext, DispSetFormat, DispSetFlag, AlgoRequest,
         AlgoResponse, AlgoRunEnd, Event, algo
  <2> QED
    BY <2>1, <2>3, <2>4 DEF Next, AlgoStep
<1>3. StopInv => StoppedIffBlocked
  BY DEF StopInv, StoppedIffBlocked
<1> QED
  BY <1>1, <1>2, <1>3, TypesSound, PTL DEF Spec
=============================================================================
