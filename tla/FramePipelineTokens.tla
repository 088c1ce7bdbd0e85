------------------------- MODULE FramePipelineTokens -------------------------
(***************************************************************************)
(* What the queues and the buffers of FramePipeline hold, proved for every *)
(* value of its constants.                                                 *)
(*                                                                         *)
(* The argument is one of counting.  What circulates between the tasks is  *)
(* a fixed number of tokens: for every frame of the algorithm the one      *)
(* request that is about to be sent, queued, noted by the camera task,     *)
(* answered or ready, and likewise one for the display.  A step moves a    *)
(* token, merges two of them or drops one; only events from outside add    *)
(* some.  The buffers of the camera are counted in the same way.           *)
(***************************************************************************)
EXTENDS FramePipelineProofs

\* A condition as the number of tokens it stands for.
One(b) == IF b THEN 1 ELSE 0

\* Where the request for frame f of the algorithm can be.
AlgoTokens(f) ==
  Count(todo, {f}) + Count(camQ, {AlgoReqMsg(f)}) + One(algoSlot[f])
    + Count(algoQ, {AlgoRespMsg(f)}) + One(ready[f])

\* Where the request of the display can be, and the changes of its source,
\* which make it ask once more.
DispTokens ==
  One(dispPc = "init") + Count(camQ, {DispReqMsg}) + One(dispSlot.data # NoBuf)
    + Count(dispQ, {DispRespMsg}) + One(newSet)
    + Count(dispQ, Sources) + One(dispPc = "set_flag")

\* All that can become a message of the camera task other than a dequeue: an
\* event for the algorithm may make it send two requests.
Load == AlgoTokens("RGB") + AlgoTokens("IR") + DispTokens
          + Count(camQ, {Exposure}) + 2 * Count(algoQ, Notifies)

\* Three tokens to begin with, and two for every event from outside.
LoadBounded == Load <= 3 + 2 * events

\* How often buffer b is in the hands of the receiver, the driver and the task.
Holders(b) == Count(active, {b}) + Count(empty, {b}) + Count(full, {b}) + One(curBuf = b)
\* The buffers that the receiver and its queues have.
Circulating == Len(active) + Len(empty) + Len(full)

\* No buffer is held twice, and how many the receiver has at each step.
BufInv ==
  /\ \A b \in CamBufs : Holders(b) <= 1
  /\ msg.data = NoBuf /\ ~valid => curBuf = NoBuf /\ Circulating = CAMERA_DEV_BUFFER_COUNT
  /\ msg.data = NoBuf /\ valid =>
       camPc = "idle" /\ curBuf # NoBuf /\ Circulating = CAMERA_DEV_BUFFER_COUNT - 1
  /\ msg.data # NoBuf =>
       IF camPc = "idle"
       THEN curBuf = NoBuf /\ Circulating = CAMERA_DEV_BUFFER_COUNT - 1
       ELSE Circulating = CAMERA_DEV_BUFFER_COUNT - 2

\* While it is not stopped each of its frames has one token at least.
AlgoWaits == "algo" \in Devices /\ ~stopped => \A f \in Frames : AlgoTokens(f) >= 1

\* The queue has room whenever the algorithm or its answer is about to be put
\* into it, and likewise for the display: no message of theirs is dropped.
AlgoRoom ==
  /\ algoPc = "request" => Len(camQ) < QUEUE_LENGTH
  /\ camPc = "algo" /\ algoSlot[msg.format] => Len(algoQ) < QUEUE_LENGTH
DispRoom ==
  /\ newSet \/ dispPc = "init" => Len(camQ) < QUEUE_LENGTH
  /\ camPc = "display" /\ dispSlot.data # NoBuf => Len(dispQ) < QUEUE_LENGTH

-----------------------------------------------------------------------------
(* The flow of tokens.                                                     *)

\* What a step other than an event does to the token of frame f: it is never
\* doubled, except by an event for the algorithm that is used up; it is lost
\* only when the algorithm is stopped; and a start of the algorithm makes one.
AlgoFlow(f) ==
  /\ AlgoTokens(f)' + Count(algoQ', Notifies) <= AlgoTokens(f) + Count(algoQ, Notifies)
  /\ Count(algoQ', Notifies) <= Count(algoQ, Notifies)
  /\ AlgoRoom /\ AlgoTokens(f) >= 1 /\ ~stopped => AlgoTokens(f)' >= 1
  /\ stopped /\ ~stopped' => AlgoTokens(f)' >= 1

\* Every step but an event has this flow.
LEMMA AlgoFlows ==
  ASSUME TypeInv, TypeInv', Next, ~Event, NEW f \in Frames
  PROVE  AlgoFlow(f)
<1> DEFINE r == AlgoReqMsg(f)
           s == AlgoRespMsg(f)
<1>q. /\ camQ \in Seq(CamMsgs) /\ algoQ \in Seq(AlgoMsgs) /\ todo \in Seq(Frames)
      /\ camQ' \in Seq(CamMsgs) /\ algoQ' \in Seq(AlgoMsgs) /\ todo' \in Seq(Frames)
  BY DEF TypeInv, CamTypes, AlgoTypes
<1>n. /\ Count(todo, {f}) \in Nat /\ Count(todo', {f}) \in Nat
      /\ Count(camQ, {r}) \in Nat /\ Count(camQ', {r}) \in Nat
      /\ Count(algoQ, {s}) \in Nat /\ Count(algoQ', {s}) \in Nat
      /\ Count(algoQ, Notifies) \in Nat /\ Count(algoQ', Notifies) \in Nat
  BY <1>q, Positions
<1>b. /\ algoSlot[f] \in BOOLEAN /\ ready[f] \in BOOLEAN
      /\ algoSlot'[f] \in BOOLEAN /\ ready'[f] \in BOOLEAN
      /\ stopped \in BOOLEAN /\ stopped' \in BOOLEAN
  BY DEF TypeInv, AlgoTypes
<1>o. /\ One(algoSlot[f]) = (IF algoSlot[f] THEN 1 ELSE 0) /\ One(algoSlot'[f]) = (IF algoSlot'[f] THEN 1 ELSE 0)
      /\ One(ready[f]) = (IF ready[f] THEN 1 ELSE 0) /\ One(ready'[f]) = (IF ready'[f] THEN 1 ELSE 0)
  BY DEF One
<1>s. /\ AlgoTokens(f) = Count(todo, {f}) + Count(camQ, {r}) + One(algoSlot[f]) + Count(algoQ, {s}) + One(ready[f])
      /\ AlgoTokens(f)' = Count(todo', {f}) + Count(camQ', {r}) + One(algoSlot'[f]) + Count(algoQ', {s})
                            + One(ready'[f])
  BY DEF AlgoTokens
<1>m. /\ r \in CamMsgs /\ r # Dequeue /\ r # DispReqMsg /\ r # Exposure
      /\ s \in AlgoMsgs /\ s \notin Notifies
      /\ Dequeue \in CamMsgs /\ DispReqMsg \in CamMsgs
  BY MsgFacts
<1> HIDE DEF r, s
\* A message for the camera task other than the request, sent or received.
<1>p. ASSUME NEW m \in CamMsgs, m # r
      PROVE  Count(Put(camQ, m), {r}) = Count(camQ, {r})
  BY <1>q, <1>p, PutOther
<1>t. ASSUME camQ # <<>>, Head(camQ) # r
      PROVE  Count(Tail(camQ), {r}) = Count(camQ, {r})
  BY <1>q, <1>t, TakeOther
\* Steps that leave the token where it is.
<1>1. ASSUME Count(camQ', {r}) = Count(camQ, {r}), UNCHANGED <<todo, algoSlot, algoQ, ready, stopped>>
      PROVE  AlgoFlow(f)
  BY <1>1, <1>n, <1>o, <1>s DEF AlgoFlow
<1>2. CASE CsiFrameDone
  <2>1. camQ' = camQ \/ camQ' = Put(camQ, Dequeue)
    BY <1>2 DEF CsiFrameDone
  <2>2. Count(camQ', {r}) = Count(camQ, {r})
    BY <2>1, <1>m, <1>p
  <2> QED
    BY <1>1, <1>2, <2>2 DEF CsiFrameDone, cam, algo
<1>3. CASE LcdFrameDone \/ DispStart
  <2>1. camQ' = camQ \/ camQ' = Put(camQ, DispReqMsg)
    BY <1>3 DEF LcdFrameDone, DispStart
  <2>2. Count(camQ', {r}) = Count(camQ, {r})
    BY <2>1, <1>m, <1>p
  <2> QED
    BY <1>1, <1>3, <2>2 DEF LcdFrameDone, DispStart, cam, algo
<1>4. CASE CamDisplayRequest \/ CamNotify \/ CamDequeue
  <2>1. camQ # <<>> /\ camQ' = Tail(camQ)
    BY <1>4 DEF CamDisplayRequest, CamNotify, CamDequeue
  <2>2. Head(camQ) # r
    <3>1. CASE CamNotify
      <4>1. Head(camQ) \in CamMsgs /\ Head(camQ).id = "InputNotify"
        BY <3>1, <1>q, CountTake DEF CamNotify
      <4>2. Head(camQ) = Exposure
        BY <4>1, MsgFacts
      <4> QED
        BY <4>2, <1>m
    <3>2. CASE CamDisplayRequest \/ CamDequeue
      BY <3>2, <1>m DEF CamDisplayRequest, CamDequeue
    <3> QED
      BY <1>4, <3>1, <3>2
  <2> QED
    BY <1>1, <1>4, <1>t, <2>1, <2>2 DEF CamDisplayRequest, CamNotify, CamDequeue, cam, algo
<1>5. CASE CamStart \/ CamDisplayResponse \/ CamEnqueue
  BY <1>1, <1>5 DEF CamStart, CamDisplayResponse, CamEnqueue, algo
<1>6. CASE DispBlitFlag \/ DispBlitCurrent \/ DispBlitNext \/ DispSetFormat \/ DispSetFlag
  BY <1>1, <1>6 DEF DispBlitFlag, DispBlitCurrent, DispBlitNext, DispSetFormat, DispSetFlag, cam,
     algo
\* The camera task notes the request.
<1>7. ASSUME NEW g \in Frames, CamAlgoRequest(g)
      PROVE  AlgoFlow(f)
  <2>1. camQ # <<>> /\ camQ' = Tail(camQ) /\ Head(camQ) = AlgoReqMsg(g)
    BY <1>7 DEF CamAlgoRequest
  <2>2. UNCHANGED <<todo, algoQ, ready, stopped>> /\ algoSlot' = [algoSlot EXCEPT ![g] = TRUE]
    BY <1>7 DEF CamAlgoRequest, algo
  <2>3. CASE g = f
    <3>1. Count(camQ', {r}) = Count(camQ, {r}) - 1
      BY <1>q, <2>1, <2>3, CountTake DEF r
    <3>2. algoSlot'[f] = TRUE
      BY <2>2, <2>3 DEF TypeInv, AlgoTypes
    <3> QED
      BY <2>2, <3>1, <3>2, <1>n, <1>o, <1>s DEF AlgoFlow
  <2>4. CASE g # f
    <3>1. Head(camQ) # r
      BY <2>1, <2>4, MsgFacts DEF r
    <3>2. Count(camQ', {r}) = Count(camQ, {r})
      BY <2>1, <3>1, <1>t
    <3>3. algoSlot'[f] = algoSlot[f]
      BY <2>2, <2>4 DEF TypeInv, AlgoTypes
    <3> QED
      BY <2>2, <3>2, <3>3, <1>n, <1>o, <1>s DEF AlgoFlow
  <2> QED
    BY <2>3, <2>4
\* The camera task answers it.
<1>8. CASE CamAlgoResponse
  <2>1. UNCHANGED <<camQ, todo, ready, stopped>>
    BY <1>8 DEF CamAlgoResponse, algo
  <2>2. CASE algoSlot[msg.format] /\ msg.format = f
    <3>1. algoQ' = Put(algoQ, s) /\ algoSlot' = [algoSlot EXCEPT ![f] = FALSE]
      BY <1>8, <2>2 DEF CamAlgoResponse, s
    <3>2. /\ Count(algoQ', {s}) <= Count(algoQ, {s}) + 1
          /\ Len(algoQ) < QUEUE_LENGTH => Count(algoQ', {s}) = Count(algoQ, {s}) + 1
          /\ Count(algoQ', Notifies) = Count(algoQ, Notifies)
      <4>1. s \in {s} /\ s \in AlgoMsgs /\ s \notin Notifies
        BY <1>m
      <4>2. Count(algoQ', Notifies) = Count(algoQ, Notifies)
        BY <1>q, <3>1, <4>1, PutOther
      <4>3. /\ Count(algoQ', {s}) <= Count(algoQ, {s}) + 1
            /\ Len(algoQ) < QUEUE_LENGTH => Count(algoQ', {s}) = Count(algoQ, {s}) + 1
        BY <1>q, <3>1, <4>1, PutOne
      <4> QED
        BY <4>2, <4>3
    <3>3. algoSlot[f] /\ algoSlot'[f] = FALSE
      BY <2>2, <3>1 DEF TypeInv, AlgoTypes
    <3>4. AlgoRoom => Len(algoQ) < QUEUE_LENGTH
      BY <1>8, <2>2 DEF AlgoRoom, CamAlgoResponse
    <3> QED
      BY <2>1, <3>2, <3>3, <3>4, <1>n, <1>o, <1>s DEF AlgoFlow
  <2>3. CASE algoSlot[msg.format] /\ msg.format # f
    <3>1. algoQ' = Put(algoQ, AlgoRespMsg(msg.format)) /\ algoSlot' = [algoSlot EXCEPT ![msg.format] = FALSE]
      BY <1>8, <2>3 DEF CamAlgoResponse
    <3>2. msg.format \in Frames
      BY <1>8 DEF CamAlgoResponse, TypeInv, CamTypes
    <3>3. AlgoRespMsg(msg.format) # s /\ AlgoRespMsg(msg.format) \notin Notifies
          /\ AlgoRespMsg(msg.format) \in AlgoMsgs
      BY <2>3, <3>2, MsgFacts DEF s
    <3>4. Count(algoQ', {s}) = Count(algoQ, {s}) /\ Count(algoQ', Notifies) = Count(algoQ, Notifies)
      BY <1>q, <3>1, <3>3, PutOther
    <3>5. algoSlot'[f] = algoSlot[f]
      BY <2>3, <3>1 DEF TypeInv, AlgoTypes
    <3> QED
      BY <2>1, <3>4, <3>5, <1>n, <1>o, <1>s DEF AlgoFlow
  <2>4. CASE ~algoSlot[msg.format]
    BY <1>1, <1>8, <2>1, <2>4 DEF CamAlgoResponse
  <2> QED
    BY <2>2, <2>3, <2>4
\* The algorithm's task sends the request.
<1>9. CASE AlgoRequest
  <2>1. UNCHANGED <<algoSlot, algoQ, ready, stopped>>
    BY <1>9 DEF AlgoRequest, cam
  <2>2. todo # <<>> /\ todo' = Tail(todo) /\ camQ' = Put(camQ, AlgoReqMsg(Head(todo))) /\ Head(todo) \in Frames
    BY <1>9 DEF AlgoRequest, TypeInv, AlgoTypes
  <2>3. AlgoRoom => Len(camQ) < QUEUE_LENGTH
    BY <1>9 DEF AlgoRequest, AlgoRoom
  <2>4. CASE Head(todo) = f
    <3>1. Count(todo', {f}) = Count(todo, {f}) - 1
      BY <1>q, <2>2, <2>4, TakeOne
    <3>2. /\ Count(camQ', {r}) <= Count(camQ, {r}) + 1
          /\ Len(camQ) < QUEUE_LENGTH => Count(camQ', {r}) = Count(camQ, {r}) + 1
      <4>1. camQ' = Put(camQ, r) /\ r \in {r}
        BY <2>2, <2>4 DEF r
      <4> QED
        BY <1>q, <1>m, <4>1, PutOne
    <3>a. One(algoSlot[f]) \in Nat /\ One(ready[f]) \in Nat
      BY <1>o
    <3>b. AlgoTokens(f)' = (Count(todo, {f}) - 1) + Count(camQ', {r}) + One(algoSlot[f])
                             + Count(algoQ, {s}) + One(ready[f])
      BY <2>1, <3>1, <1>s
    <3>c. ASSUME NEW t \in Nat, NEW q \in Nat, NEW x \in Nat, NEW a \in Nat, NEW b \in Nat, NEW c \in Nat
          PROVE  /\ x <= q + 1 => (t - 1) + x + a + b + c <= t + q + a + b + c
                 /\ x = q + 1 => (t - 1) + x + a + b + c = t + q + a + b + c
      OBVIOUS
    <3>d. /\ Count(camQ', {r}) <= Count(camQ, {r}) + 1 => AlgoTokens(f)' <= AlgoTokens(f)
          /\ Count(camQ', {r}) = Count(camQ, {r}) + 1 => AlgoTokens(f)' = AlgoTokens(f)
      BY <3>a, <3>b, <3>c, <1>n, <1>s
    <3>3. AlgoTokens(f)' <= AlgoTokens(f)
      BY <3>2, <3>d
    <3>4. Len(camQ) < QUEUE_LENGTH => AlgoTokens(f)' = AlgoTokens(f)
      BY <3>2, <3>d
    <3>5. AlgoTokens(f) \in Nat /\ AlgoTokens(f)' \in Nat
      BY <1>n, <1>o, <1>s
    <3> QED
      BY <2>1, <2>3, <3>3, <3>4, <3>5, <1>n DEF AlgoFlow
  <2>5. CASE Head(todo) # f
    <3>1. Count(todo', {f}) = Count(todo, {f})
      BY <1>q, <2>2, <2>5, TakeOther
    <3>2. AlgoReqMsg(Head(todo)) # r /\ AlgoReqMsg(Head(todo)) \in CamMsgs
      BY <2>2, <2>5, MsgFacts DEF r
    <3>3. Count(camQ', {r}) = Count(camQ, {r})
      BY <2>2, <3>2, <1>p
    <3> QED
      BY <2>1, <3>1, <3>3, <1>n, <1>o, <1>s DEF AlgoFlow
  <2> QED
    BY <2>4, <2>5
\* It receives the answer.
<1>10. ASSUME NEW g \in Frames, AlgoResponse(g)
       PROVE  AlgoFlow(f)
  <2>1. UNCHANGED <<camQ, todo, algoSlot, stopped>>
    BY <1>10 DEF AlgoResponse, cam
  <2>2. algoQ # <<>> /\ algoQ' = Tail(algoQ) /\ Head(algoQ) = AlgoRespMsg(g)
        /\ ready' = [ready EXCEPT ![g] = TRUE]
    BY <1>10 DEF AlgoResponse
  <2>3. Head(algoQ) \notin Notifies
    BY <2>2, MsgFacts
  <2>4. Count(algoQ', Notifies) = Count(algoQ, Notifies)
    BY <1>q, <1>n, <2>2, <2>3, CountTake
  <2>5. CASE g = f
    <3>1. Count(algoQ', {s}) = Count(algoQ, {s}) - 1
      BY <1>q, <2>2, <2>5, CountTake DEF s
    <3>2. ready'[f] = TRUE
      BY <2>2, <2>5 DEF TypeInv, AlgoTypes
    <3> QED
      BY <2>1, <2>4, <3>1, <3>2, <1>n, <1>o, <1>s DEF AlgoFlow
  <2>6. CASE g # f
    <3>1. Head(algoQ) # s
      BY <2>2, <2>6, MsgFacts DEF s
    <3>2. Count(algoQ', {s}) = Count(algoQ, {s})
      BY <1>q, <2>2, <3>1, TakeOther
    <3>3. ready'[f] = ready[f]
      BY <2>2, <2>6 DEF TypeInv, AlgoTypes
    <3> QED
      BY <2>1, <2>4, <3>2, <3>3, <1>n, <1>o, <1>s DEF AlgoFlow
  <2> QED
    BY <2>5, <2>6
\* A run uses the frames up and starts a new round.
<1>11. CASE AlgoRunEnd
  <2>1. UNCHANGED <<camQ, algoSlot, algoQ, stopped>> /\ ready[f] /\ ready'[f] = FALSE
    BY <1>11 DEF AlgoRunEnd, TypeInv, AlgoTypes, cam
  <2>2. Count(todo, {f}) = 0
    <3>1. todo = <<>>
      BY <1>11 DEF AlgoRunEnd, TypeInv, AlgoTypes
    <3> QED
      BY <3>1, CountEmpty
  <2>3. CASE stopped
    BY <1>11, <2>1, <2>3, <1>n, <1>o, <1>s DEF AlgoRunEnd, AlgoFlow
  <2>4. CASE ~stopped
    <3>1. Count(todo', {f}) = 1
      BY <1>11, <2>4, CountFrameOrder DEF AlgoRunEnd
    <3> QED
      BY <2>1, <2>2, <2>4, <3>1, <1>n, <1>o, <1>s DEF AlgoFlow
  <2> QED
    BY <2>3, <2>4
\* An event may start a round of requests.
<1>12. CASE AlgoNotify
  <2>1. UNCHANGED <<camQ, algoSlot, ready>> /\ algoPc = "idle"
    BY <1>12 DEF AlgoNotify, cam
  <2>2. algoQ # <<>> /\ algoQ' = Tail(algoQ) /\ Head(algoQ).id = "InputNotify" /\ Head(algoQ) \in AlgoMsgs
    BY <1>12, <1>q DEF AlgoNotify
  <2>3. Head(algoQ) \in Notifies /\ Head(algoQ).arg \in OasisEvents
    BY <2>2, MsgFacts
  <2>4. Count(algoQ', Notifies) = Count(algoQ, Notifies) - 1
    BY <1>q, <2>2, <2>3, CountTake
  <2>5. Count(algoQ', {s}) = Count(algoQ, {s})
    <3>1. Head(algoQ) # s
      BY <2>3, <1>m
    <3> QED
      BY <1>q, <2>2, <3>1, TakeOther
  <2>6. Count(todo, {f}) = 0
    <3>1. todo = <<>>
      BY <2>1 DEF TypeInv, AlgoTypes
    <3> QED
      BY <3>1, CountEmpty
  <2>7. \/ todo' = FrameOrder
        \/ todo' = todo /\ (stopped => stopped')
    <3> DEFINE e == Head(algoQ).arg
    <3>1. e \in OasisEvents /\ OasisEvent(e)
      BY <1>12, <2>3 DEF AlgoNotify
    <3> HIDE DEF e
    <3>2. CASE e = "UserStop"
      BY <1>b, <3>1, <3>2 DEF OasisEvent, OasisStop
    <3>3. CASE e = "RecStart"
      BY <1>b, <3>1, <3>3 DEF OasisEvent, OasisStop
    <3>4. CASE e = "UserRun"
      BY <1>b, <3>1, <3>4 DEF OasisEvent, OasisStart
    <3>5. CASE e = "RecStop"
      BY <1>b, <3>1, <3>5 DEF OasisEvent, OasisStart
    <3> QED
      BY <3>1, <3>2, <3>3, <3>4, <3>5 DEF OasisEvents
  <2>8. CASE todo' = FrameOrder
    <3>1. Count(todo', {f}) = 1
      BY <2>8, CountFrameOrder
    <3> QED
      BY <2>1, <2>4, <2>5, <2>6, <3>1, <1>n, <1>o, <1>s DEF AlgoFlow
  <2>9. CASE todo' = todo /\ (stopped => stopped')
    BY <2>1, <2>4, <2>5, <2>9, <1>n, <1>o, <1>s DEF AlgoFlow
  <2> QED
    BY <2>7, <2>8, <2>9
<1> QED
  BY <1>2, <1>3, <1>4, <1>5, <1>6, <1>7, <1>8, <1>9, <1>10, <1>11, <1>12
     DEF Next, CamStep, DispStep, AlgoStep

\* What a step does to the token of the display and the events of the camera
\* task: it adds none.
DispFlow == DispTokens' + Count(camQ', {Exposure}) <= DispTokens + Count(camQ, {Exposure})

\* Every step but an event has this flow.
LEMMA DispFlows ==
  ASSUME TypeInv, TypeInv', Next, ~Event
  PROVE  DispFlow
<1> DEFINE d == DispReqMsg
           p == DispRespMsg
           x == Exposure
<1>q. /\ camQ \in Seq(CamMsgs) /\ camQ' \in Seq(CamMsgs)
      /\ dispQ \in Seq(DispMsgs) /\ dispQ' \in Seq(DispMsgs)
  BY DEF TypeInv, CamTypes, DispTypes
<1>n. /\ Count(camQ, {d}) \in Nat /\ Count(camQ', {d}) \in Nat
      /\ Count(camQ, {x}) \in Nat /\ Count(camQ', {x}) \in Nat
      /\ Count(dispQ, {p}) \in Nat /\ Count(dispQ', {p}) \in Nat
      /\ Count(dispQ, Sources) \in Nat /\ Count(dispQ', Sources) \in Nat
  BY <1>q, Positions
<1>s. /\ DispTokens = (IF dispPc = "init" THEN 1 ELSE 0) + Count(camQ, {d})
                        + (IF dispSlot.data # NoBuf THEN 1 ELSE 0) + Count(dispQ, {p})
                        + (IF newSet THEN 1 ELSE 0) + Count(dispQ, Sources)
                        + (IF dispPc = "set_flag" THEN 1 ELSE 0)
      /\ DispTokens' = (IF dispPc' = "init" THEN 1 ELSE 0) + Count(camQ', {d})
                        + (IF dispSlot'.data # NoBuf THEN 1 ELSE 0) + Count(dispQ', {p})
                        + (IF newSet' THEN 1 ELSE 0) + Count(dispQ', Sources)
                        + (IF dispPc' = "set_flag" THEN 1 ELSE 0)
  BY DEF DispTokens, One
<1>f. DispFlow <=> DispTokens' + Count(camQ', {x}) <= DispTokens + Count(camQ, {x})
  BY DEF DispFlow
<1>m. /\ d \in CamMsgs /\ x \in CamMsgs /\ d # x /\ Dequeue \in CamMsgs /\ Dequeue # d /\ Dequeue # x
      /\ p \in DispMsgs /\ p \notin Sources
      /\ \A f \in Frames : AlgoReqMsg(f) \in CamMsgs /\ AlgoReqMsg(f) # d /\ AlgoReqMsg(f) # x
  BY MsgFacts
<1> HIDE DEF d, p, x
<1>p. ASSUME NEW m \in CamMsgs, m # d, m # x
      PROVE  Count(Put(camQ, m), {d}) = Count(camQ, {d}) /\ Count(Put(camQ, m), {x}) = Count(camQ, {x})
  BY <1>q, <1>p, PutOther
<1>t. ASSUME camQ # <<>>, Head(camQ) # d, Head(camQ) # x
      PROVE  Count(Tail(camQ), {d}) = Count(camQ, {d}) /\ Count(Tail(camQ), {x}) = Count(camQ, {x})
  BY <1>q, <1>t, TakeOther
\* A step that leaves these two kinds of messages and the display alone.
<1>1. ASSUME Count(camQ', {d}) = Count(camQ, {d}), Count(camQ', {x}) = Count(camQ, {x}),
             UNCHANGED <<dispPc, dispSlot, dispQ, newSet>>
      PROVE  DispFlow
  BY <1>1, <1>f, <1>n, <1>s
\* A request put into the queue of the camera task.
<1>2. ASSUME camQ' = Put(camQ, d)
      PROVE  Count(camQ', {d}) <= Count(camQ, {d}) + 1 /\ Count(camQ', {x}) = Count(camQ, {x})
  <2>1. d \in {d} /\ d \notin {x}
    BY <1>m
  <2> QED
    BY <1>2, <1>m, <1>q, <2>1, PutOne, PutOther
<1>3. CASE CsiFrameDone
  <2>1. camQ' = camQ \/ camQ' = Put(camQ, Dequeue)
    BY <1>3 DEF CsiFrameDone
  <2>2. Count(camQ', {d}) = Count(camQ, {d}) /\ Count(camQ', {x}) = Count(camQ, {x})
    BY <2>1, <1>m, <1>p
  <2> QED
    BY <1>1, <1>3, <2>2 DEF CsiFrameDone, cam, disp
<1>4. CASE LcdFrameDone
  <2>1. UNCHANGED <<dispPc, dispSlot, dispQ>> /\ newSet' = FALSE
    BY <1>4 DEF LcdFrameDone, cam
  <2>2. CASE newSet /\ current # NoBuf
    <3>1. camQ' = Put(camQ, d)
      BY <1>4, <2>2 DEF LcdFrameDone, d
    <3> QED
      BY <1>2, <1>f, <1>n, <1>s, <2>1, <2>2, <3>1
  <2>3. CASE ~(newSet /\ current # NoBuf)
    <3>1. camQ' = camQ
      BY <1>4, <2>3 DEF LcdFrameDone
    <3> QED
      BY <1>f, <1>n, <1>s, <2>1, <3>1
  <2> QED
    BY <2>2, <2>3
<1>5. CASE CamDisplayRequest
  <2>1. UNCHANGED <<dispPc, dispQ, newSet>>
    BY <1>5 DEF CamDisplayRequest, disp
  <2>2. camQ # <<>> /\ Head(camQ) = d /\ camQ' = Tail(camQ)
    BY <1>5 DEF CamDisplayRequest, d
  <2>3. Head(camQ) \in {d} /\ Head(camQ) \notin {x}
    BY <1>m, <2>2
  <2>4. Count(camQ', {d}) = Count(camQ, {d}) - 1 /\ Count(camQ', {x}) = Count(camQ, {x})
    BY <1>q, <2>2, <2>3, TakeOne, TakeOther
  <2>5. dispSlot.data # NoBuf => dispSlot' = dispSlot
    BY <1>5 DEF CamDisplayRequest
  <2> QED
    BY <1>f, <1>n, <1>s, <2>1, <2>4, <2>5
<1>6. ASSUME NEW f \in Frames, CamAlgoRequest(f)
      PROVE  DispFlow
  <2>1. camQ # <<>> /\ Head(camQ) # d /\ Head(camQ) # x /\ camQ' = Tail(camQ)
    BY <1>6, <1>m DEF CamAlgoRequest
  <2> QED
    BY <1>1, <1>6, <1>t, <2>1 DEF CamAlgoRequest, disp
<1>7. CASE CamNotify
  <2>1. camQ # <<>> /\ camQ' = Tail(camQ) /\ Head(camQ) \in CamMsgs /\ Head(camQ).id = "InputNotify"
    BY <1>7, <1>q DEF CamNotify
  <2>2. Head(camQ) = x
    BY <2>1, MsgFacts DEF x
  <2>3. Head(camQ) \in {x} /\ Head(camQ) \notin {d}
    BY <1>m, <2>2
  <2>4. Count(camQ', {x}) = Count(camQ, {x}) - 1 /\ Count(camQ', {d}) = Count(camQ, {d})
    BY <1>q, <2>1, <2>3, TakeOne, TakeOther
  <2>5. UNCHANGED <<dispPc, dispSlot, dispQ, newSet>>
    BY <1>7 DEF CamNotify, cam, disp
  <2> QED
    BY <1>f, <1>n, <1>s, <2>4, <2>5
<1>8. CASE CamDequeue
  <2>1. camQ # <<>> /\ Head(camQ) # d /\ Head(camQ) # x /\ camQ' = Tail(camQ)
    BY <1>8, <1>m DEF CamDequeue
  <2> QED
    BY <1>1, <1>8, <1>t, <2>1 DEF CamDequeue, disp
<1>9. CASE CamDisplayResponse
  <2>1. UNCHANGED <<camQ, dispPc, newSet>>
    BY <1>9 DEF CamDisplayResponse, disp
  <2>2. CASE dispSlot.data # NoBuf /\ dispSlot.src = msg.format
    <3>1. dispQ' = Put(dispQ, p) /\ dispSlot'.data = NoBuf
      BY <1>9, <2>2 DEF CamDisplayResponse, p, TypeInv, DispTypes
    <3>2. Count(dispQ', {p}) <= Count(dispQ, {p}) + 1 /\ Count(dispQ', Sources) = Count(dispQ, Sources)
      <4>1. p \in {p}
        OBVIOUS
      <4> QED
        BY <1>m, <1>q, <3>1, <4>1, PutOne, PutOther
    <3> QED
      BY <1>f, <1>n, <1>s, <2>1, <2>2, <3>1, <3>2
  <2>3. CASE ~(dispSlot.data # NoBuf /\ dispSlot.src = msg.format)
    <3>1. UNCHANGED <<dispQ, dispSlot>>
      BY <1>9, <2>3 DEF CamDisplayResponse
    <3> QED
      BY <1>1, <2>1, <3>1
  <2> QED
    BY <2>2, <2>3
<1>10. CASE CamStart \/ CamAlgoResponse \/ CamEnqueue
  BY <1>1, <1>10 DEF CamStart, CamAlgoResponse, CamEnqueue, disp
<1>11. CASE DispStart
  <2>1. /\ camQ' = Put(camQ, d) /\ dispPc = "init" /\ dispPc' = "idle"
        /\ UNCHANGED <<dispSlot, dispQ, newSet>>
    BY <1>11 DEF DispStart, cam, d
  <2> QED
    BY <1>2, <1>f, <1>n, <1>s, <2>1
<1>12. CASE DispBlitFlag
  <2>1. /\ dispQ # <<>> /\ dispQ' = Tail(dispQ) /\ Head(dispQ) = p
        /\ dispPc = "idle" /\ dispPc' = "blit_current"
        /\ UNCHANGED <<camQ, dispSlot>>
    BY <1>12 DEF DispBlitFlag, cam, p
  <2>2. Head(dispQ) \in {p} /\ Head(dispQ) \notin Sources
    BY <1>m, <2>1
  <2>3. Count(dispQ', {p}) = Count(dispQ, {p}) - 1 /\ Count(dispQ', Sources) = Count(dispQ, Sources)
    BY <1>q, <2>1, <2>2, TakeOne, TakeOther
  <2>4. UNCHANGED <<camQ, dispSlot>> /\ dispPc = "idle" /\ dispPc' = "blit_current"
    BY <2>1
  <2> QED
    BY <1>f, <1>n, <1>s, <2>3, <2>4
<1>13. CASE DispBlitCurrent \/ DispBlitNext
  <2>1. /\ dispPc \notin {"init", "set_flag"} /\ dispPc' \notin {"init", "set_flag"}
        /\ UNCHANGED <<camQ, dispSlot, dispQ, newSet>>
    BY <1>13 DEF DispBlitCurrent, DispBlitNext, cam
  <2> QED
    BY <1>f, <1>n, <1>s, <2>1
<1>14. CASE DispSetFormat
  <2>1. /\ dispQ # <<>> /\ dispQ' = Tail(dispQ) /\ Head(dispQ).id = "SetSource"
        /\ dispPc = "idle" /\ dispPc' = "set_flag" /\ Head(dispQ) \in DispMsgs
        /\ UNCHANGED <<camQ, dispSlot, newSet>>
    BY <1>14, <1>q DEF DispSetFormat, cam
  <2>2. Head(dispQ) \in Sources
    BY <2>1, MsgFacts
  <2>3. Head(dispQ) \notin {p}
    BY <1>m, <2>2
  <2>4. Count(dispQ', Sources) = Count(dispQ, Sources) - 1 /\ Count(dispQ', {p}) = Count(dispQ, {p})
    BY <1>q, <2>1, <2>2, <2>3, TakeOne, TakeOther
  <2> QED
    BY <1>f, <1>n, <1>s, <2>1, <2>4
<1>15. CASE DispSetFlag
  <2>1. /\ dispPc = "set_flag" /\ dispPc' = "idle"
        /\ UNCHANGED <<camQ, dispSlot, dispQ>>
    BY <1>15 DEF DispSetFlag, cam
  <2> QED
    BY <1>f, <1>n, <1>s, <2>1
<1>16. CASE AlgoRequest
  <2>1. camQ' = Put(camQ, AlgoReqMsg(Head(todo))) /\ Head(todo) \in Frames
    BY <1>16 DEF AlgoRequest, TypeInv, AlgoTypes
  <2>2. Count(camQ', {d}) = Count(camQ, {d}) /\ Count(camQ', {x}) = Count(camQ, {x})
    BY <1>m, <1>p, <2>1
  <2> QED
    BY <1>1, <1>16, <2>2 DEF AlgoRequest, cam, disp
<1>17. ASSUME NEW f \in Frames, AlgoResponse(f)
       PROVE  DispFlow
  BY <1>1, <1>17 DEF AlgoResponse, cam, disp
<1>18. CASE AlgoRunEnd \/ AlgoNotify
  BY <1>1, <1>18 DEF AlgoRunEnd, AlgoNotify, cam, disp
<1> QED
  BY <1>3, <1>4, <1>5, <1>6, <1>7, <1>8, <1>9, <1>10, <1>11, <1>12, <1>13, <1>14, <1>15, <1>16,
     <1>17, <1>18
  DEF Next, CamStep, DispStep, AlgoStep

\* An event adds no token of the algorithm at once; it adds one to what the
\* display and the camera task have to handle, or one event of the algorithm.
LEMMA EventFlow ==
  ASSUME TypeInv, TypeInv', Event
  PROVE  /\ \A f \in Frames : AlgoTokens(f)' = AlgoTokens(f)
         /\ \/ /\ Count(algoQ', Notifies) = Count(algoQ, Notifies)
               /\ DispTokens' + Count(camQ', {Exposure}) <= DispTokens + Count(camQ, {Exposure}) + 1
            \/ /\ Count(algoQ', Notifies) <= Count(algoQ, Notifies) + 1
               /\ DispTokens' = DispTokens /\ Count(camQ', {Exposure}) = Count(camQ, {Exposure})
               /\ Events \cap OasisEvents # {}
<1>q. /\ camQ \in Seq(CamMsgs) /\ dispQ \in Seq(DispMsgs) /\ algoQ \in Seq(AlgoMsgs)
  BY DEF TypeInv, CamTypes, DispTypes, AlgoTypes
<1>n. /\ Count(camQ, {DispReqMsg}) \in Nat /\ Count(camQ, {Exposure}) \in Nat
      /\ Count(dispQ, {DispRespMsg}) \in Nat /\ Count(dispQ, Sources) \in Nat
      /\ Count(algoQ, Notifies) \in Nat
  BY <1>q, Positions
<1>u. UNCHANGED <<todo, algoSlot, ready, dispPc, dispSlot, newSet>>
  BY DEF Event, cam, disp, algo
\* The tokens of the display, but for the changes of its source.
<1> DEFINE D == (IF dispPc = "init" THEN 1 ELSE 0) + Count(camQ, {DispReqMsg})
                  + (IF dispSlot.data # NoBuf THEN 1 ELSE 0) + Count(dispQ, {DispRespMsg})
                  + (IF newSet THEN 1 ELSE 0) + (IF dispPc = "set_flag" THEN 1 ELSE 0)
<1>s. D \in Nat /\ DispTokens = D + Count(dispQ, Sources)
  BY <1>n DEF DispTokens, One
<1>d. ASSUME Count(camQ', {DispReqMsg}) = Count(camQ, {DispReqMsg}),
             Count(dispQ', {DispRespMsg}) = Count(dispQ, {DispRespMsg}),
             Count(dispQ', Sources) \in Nat
      PROVE  DispTokens' = D + Count(dispQ', Sources)
  <2>1. DispTokens' = (IF dispPc = "init" THEN 1 ELSE 0) + Count(camQ, {DispReqMsg})
                  + (IF dispSlot.data # NoBuf THEN 1 ELSE 0) + Count(dispQ, {DispRespMsg})
                  + (IF newSet THEN 1 ELSE 0) + Count(dispQ', Sources) + (IF dispPc = "set_flag" THEN 1 ELSE 0)
    BY <1>d, <1>u DEF DispTokens, One
  <2> QED
    BY <1>d, <1>n, <2>1
<1> HIDE DEF D
<1>1. CASE SendNotify
  <2>1. camQ' = Put(camQ, Exposure) /\ UNCHANGED <<dispQ, algoQ>>
    BY <1>1 DEF SendNotify, Exposure
  <2>2. /\ Exposure \in CamMsgs /\ Exposure \in {Exposure} /\ Exposure \notin {DispReqMsg}
        /\ \A f \in Frames : Exposure \notin {AlgoReqMsg(f)}
    BY MsgFacts
  <2>3. /\ Count(camQ', {Exposure}) <= Count(camQ, {Exposure}) + 1
        /\ Count(camQ', {DispReqMsg}) = Count(camQ, {DispReqMsg})
        /\ \A f \in Frames : Count(camQ', {AlgoReqMsg(f)}) = Count(camQ, {AlgoReqMsg(f)})
    BY <1>q, <2>1, <2>2, PutOne, PutOther
  <2>4. \A f \in Frames : AlgoTokens(f)' = AlgoTokens(f)
    BY <1>u, <2>1, <2>3 DEF AlgoTokens
  <2>5. DispTokens' = DispTokens
    BY <1>d, <1>n, <1>s, <2>1, <2>3
  <2>6. DispTokens \in Nat /\ Count(camQ', {Exposure}) \in Nat
    <3>1. camQ' \in Seq(CamMsgs)
      BY DEF TypeInv, CamTypes
    <3>2. Count(camQ', {Exposure}) \in Nat
      BY <3>1, Positions
    <3>3. DispTokens \in Nat
      BY <1>n, <1>s
    <3> QED
      BY <3>2, <3>3
  <2>7. DispTokens' + Count(camQ', {Exposure}) <= DispTokens + Count(camQ, {Exposure}) + 1
    BY <1>n, <2>3, <2>5, <2>6
  <2> QED
    BY <2>1, <2>4, <2>7
<1>2. ASSUME NEW g \in Frames, SendSetSource(g)
      PROVE  /\ \A f \in Frames : AlgoTokens(f)' = AlgoTokens(f)
             /\ Count(algoQ', Notifies) = Count(algoQ, Notifies)
             /\ DispTokens' + Count(camQ', {Exposure}) <= DispTokens + Count(camQ, {Exposure}) + 1
  <2> DEFINE m == Msg("SetSource", g)
  <2>1. dispQ' = Put(dispQ, m) /\ UNCHANGED <<camQ, algoQ>>
    BY <1>2 DEF SendSetSource
  <2>2. m \in DispMsgs /\ m \in Sources /\ m \notin {DispRespMsg}
    BY MsgFacts
  <2> HIDE DEF m
  <2>3. /\ Count(dispQ', Sources) <= Count(dispQ, Sources) + 1
        /\ Count(dispQ', {DispRespMsg}) = Count(dispQ, {DispRespMsg})
    BY <1>q, <2>1, <2>2, PutOne, PutOther
  <2>4. \A f \in Frames : AlgoTokens(f)' = AlgoTokens(f)
    BY <1>u, <2>1 DEF AlgoTokens
  <2>5. Count(dispQ', Sources) \in Nat
    BY <1>q, <2>1, <2>2, CountPut
  <2>6. DispTokens' <= DispTokens + 1 /\ DispTokens \in Nat /\ DispTokens' \in Nat
    BY <1>d, <1>n, <1>s, <2>1, <2>3, <2>5
  <2>7. DispTokens' + Count(camQ', {Exposure}) <= DispTokens + Count(camQ, {Exposure}) + 1
    BY <1>n, <2>1, <2>6
  <2> QED
    BY <2>1, <2>4, <2>7
<1>3. ASSUME NEW e \in OasisEvents, SendOasisEvent(e)
      PROVE  /\ \A f \in Frames : AlgoTokens(f)' = AlgoTokens(f)
             /\ Count(algoQ', Notifies) <= Count(algoQ, Notifies) + 1
             /\ DispTokens' = DispTokens /\ Count(camQ', {Exposure}) = Count(camQ, {Exposure})
             /\ Events \cap OasisEvents # {}
  <2> DEFINE m == Msg("InputNotify", e)
  <2>1. algoQ' = Put(algoQ, m) /\ UNCHANGED <<camQ, dispQ>> /\ e \in Events
    BY <1>3 DEF SendOasisEvent
  <2>2. m \in AlgoMsgs /\ m \in Notifies /\ \A f \in Frames : m \notin {AlgoRespMsg(f)}
    BY MsgFacts
  <2> HIDE DEF m
  <2>3. /\ Count(algoQ', Notifies) <= Count(algoQ, Notifies) + 1
        /\ \A f \in Frames : Count(algoQ', {AlgoRespMsg(f)}) = Count(algoQ, {AlgoRespMsg(f)})
    BY <1>q, <2>1, <2>2, PutOne, PutOther
  <2>4. \A f \in Frames : AlgoTokens(f)' = AlgoTokens(f)
    BY <1>u, <2>1, <2>3 DEF AlgoTokens
  <2>5. DispTokens' = DispTokens
    BY <1>d, <1>n, <1>s, <2>1
  <2> QED
    BY <2>1, <2>3, <2>4, <2>5
<1> QED
  BY <1>1, <1>2, <1>3 DEF Event, OasisEvents

\* The tokens are counted by natural numbers.
LEMMA TokensNat ==
  ASSUME TypeInv
  PROVE  /\ \A f \in Frames : AlgoTokens(f) \in Nat
         /\ DispTokens \in Nat
         /\ Count(camQ, {Exposure}) \in Nat
         /\ Count(algoQ, Notifies) \in Nat
<1>q. /\ camQ \in Seq(CamMsgs) /\ dispQ \in Seq(DispMsgs) /\ algoQ \in Seq(AlgoMsgs) /\ todo \in Seq(Frames)
  BY DEF TypeInv, CamTypes, DispTypes, AlgoTypes
<1>1. ASSUME NEW f \in Frames PROVE AlgoTokens(f) \in Nat
  <2>1. Count(todo, {f}) \in Nat /\ Count(camQ, {AlgoReqMsg(f)}) \in Nat /\ Count(algoQ, {AlgoRespMsg(f)}) \in Nat
    BY <1>q, Positions
  <2> QED
    BY <2>1 DEF AlgoTokens, One
<1>2. DispTokens \in Nat
  <2>1. /\ Count(camQ, {DispReqMsg}) \in Nat /\ Count(dispQ, {DispRespMsg}) \in Nat /\ Count(dispQ, Sources) \in Nat
    BY <1>q, Positions
  <2> QED
    BY <2>1 DEF DispTokens, One
<1> QED
  BY <1>1, <1>2, <1>q, Positions

\* Initially each frame of a registered algorithm and the display have a token.
LEMMA TokensInit ==
  ASSUME Init
  PROVE  /\ \A f \in Frames : AlgoTokens(f) = IF "algo" \in Devices THEN 1 ELSE 0
         /\ DispTokens = 1
         /\ Count(camQ, {Exposure}) = 0
         /\ Count(algoQ, Notifies) = 0
<1>1. camQ = <<>> /\ dispQ = <<>> /\ algoQ = <<>>
  BY DEF Init
<1>2. \A M : Count(camQ, M) = 0 /\ Count(dispQ, M) = 0 /\ Count(algoQ, M) = 0
  BY <1>1, CountEmpty
<1>3. ASSUME NEW f \in Frames
      PROVE  AlgoTokens(f) = IF "algo" \in Devices THEN 1 ELSE 0
  <2>1. Count(todo, {f}) = IF "algo" \in Devices THEN 1 ELSE 0
    BY CountEmpty, CountFrameOrder DEF Init
  <2>2. algoSlot[f] = FALSE /\ ready[f] = FALSE
    BY DEF Init
  <2> QED
    BY <1>2, <2>1, <2>2 DEF AlgoTokens, One
<1>4. DispTokens = 1
  <2>1. dispPc = "init" /\ dispSlot.data = NoBuf /\ newSet = FALSE
    BY DEF Init
  <2> QED
    BY <1>2, <2>1 DEF DispTokens, One
<1> QED
  BY <1>2, <1>3, <1>4

\* The load grows by two with an event at most, and with nothing else.
LEMMA LoadStep ==
  ASSUME TypeInv, TypeInv', Next, LoadBounded
  PROVE  LoadBounded'
<1>1. "RGB" \in Frames /\ "IR" \in Frames
  BY DEF Frames
<1>2. /\ AlgoTokens("RGB") \in Nat /\ AlgoTokens("IR") \in Nat /\ DispTokens \in Nat
      /\ Count(camQ, {Exposure}) \in Nat /\ Count(algoQ, Notifies) \in Nat
  BY <1>1, TokensNat
<1>3. /\ AlgoTokens("RGB")' \in Nat /\ AlgoTokens("IR")' \in Nat /\ DispTokens' \in Nat
      /\ Count(camQ', {Exposure}) \in Nat /\ Count(algoQ', Notifies) \in Nat
  <2>1. /\ camQ' \in Seq(CamMsgs) /\ dispQ' \in Seq(DispMsgs) /\ algoQ' \in Seq(AlgoMsgs) /\ todo' \in Seq(Frames)
    BY DEF TypeInv, CamTypes, DispTypes, AlgoTypes
  <2>2. \A M : Count(camQ', M) \in Nat /\ Count(dispQ', M) \in Nat /\ Count(algoQ', M) \in Nat /\ Count(todo', M) \in Nat
    BY <2>1, Positions
  <2> QED
    BY <2>2 DEF AlgoTokens, DispTokens, One
<1>4. events \in Nat
  BY DEF TypeInv, AlgoTypes
<1>5. CASE Event
  <2>1. events' = events + 1
    BY <1>5 DEF Event
  <2>2. /\ AlgoTokens("RGB")' = AlgoTokens("RGB") /\ AlgoTokens("IR")' = AlgoTokens("IR")
        /\ DispTokens' + Count(camQ', {Exposure}) + 2 * Count(algoQ', Notifies)
             <= DispTokens + Count(camQ, {Exposure}) + 2 * Count(algoQ, Notifies) + 2
    BY <1>1, <1>2, <1>3, <1>5, EventFlow
  <2> QED
    BY <1>2, <1>3, <1>4, <2>1, <2>2 DEF LoadBounded, Load
<1>6. CASE ~Event
  <2>1. events' = events
    BY <1>6 DEF Next, CsiFrameDone, LcdFrameDone, CamStep, CamDisplayRequest, CamStart,
       CamAlgoRequest,
         CamNotify, CamDequeue, CamDisplayResponse, CamAlgoResponse, CamEnqueue, DispStep, DispStart,
         DispBlitFlag, DispBlitCurrent, DispBlitNext, DispSetFormat, DispSetFlag, AlgoStep, AlgoRequest,
         AlgoResponse, AlgoRunEnd, AlgoNotify
  <2>2. AlgoTokens("RGB")' + Count(algoQ', Notifies) <= AlgoTokens("RGB") + Count(algoQ, Notifies)
    BY <1>1, <1>6, AlgoFlows DEF AlgoFlow
  <2>3. AlgoTokens("IR")' + Count(algoQ', Notifies) <= AlgoTokens("IR") + Count(algoQ, Notifies)
    BY <1>1, <1>6, AlgoFlows DEF AlgoFlow
  <2>4. DispTokens' + Count(camQ', {Exposure}) <= DispTokens + Count(camQ, {Exposure})
    BY <1>6, DispFlows DEF DispFlow
  <2> QED
    BY <1>2, <1>3, <1>4, <2>1, <2>2, <2>3, <2>4 DEF LoadBounded, Load
<1> QED
  BY <1>5, <1>6

-----------------------------------------------------------------------------
(* The buffers of the camera.                                              *)

\* How many times b is with the receiver and the driver's queues.
InReceiver(b) == Count(active, {b}) + Count(empty, {b}) + Count(full, {b})

\* A complete frame and the start of the receiver only move buffers about.
LEMMA ReceiverMoves ==
  ASSUME TypeInv, TypeInv', CsiFrameDone \/ CamStart
  PROVE  /\ \A b \in CamBufs : InReceiver(b)' = InReceiver(b)
         /\ Circulating' = Circulating
<1>t. /\ active \in Seq(CamBufs) /\ empty \in Seq(CamBufs) /\ full \in Seq(CamBufs)
      /\ active' \in Seq(CamBufs) /\ empty' \in Seq(CamBufs) /\ full' \in Seq(CamBufs)
  BY DEF TypeInv, CamTypes, BufSeq
<1>n. ASSUME NEW M
      PROVE  /\ Count(active, M) \in Nat /\ Count(empty, M) \in Nat /\ Count(full, M) \in Nat
             /\ Count(active', M) \in Nat /\ Count(empty', M) \in Nat /\ Count(full', M) \in Nat
  BY <1>t, Positions
<1>l. /\ Len(active) \in Nat /\ Len(empty) \in Nat /\ Len(full) \in Nat
      /\ Len(active') \in Nat /\ Len(empty') \in Nat /\ Len(full') \in Nat
  BY <1>t
<1>1. CASE CsiFrameDone
  <2> DEFINE e == IF empty = <<>> THEN <<>> ELSE <<Head(empty)>>
  <2>1. active # <<>> /\ empty' = IF empty = <<>> THEN <<>> ELSE Tail(empty)
    BY <1>1 DEF CsiFrameDone
  <2>2. /\ e \in Seq(CamBufs)
        /\ Len(e) + Len(empty') = Len(empty)
    BY <1>t, <2>1
  <2>3. ASSUME NEW b \in CamBufs
        PROVE  Count(e, {b}) + Count(empty', {b}) = Count(empty, {b}) /\ Count(e, {b}) \in Nat
    <3>1. CASE empty = <<>>
      <4>1. e = <<>> /\ empty' = <<>>
        BY <2>1, <3>1
      <4> QED
        BY <3>1, <4>1, CountEmpty
    <3>2. CASE empty # <<>>
      <4>1. e = Append(<<>>, Head(empty)) /\ empty' = Tail(empty) /\ Head(empty) \in CamBufs
        BY <1>t, <2>1, <3>2
      <4>2. Count(e, {b}) = Count(<<>>, {b}) + (IF Head(empty) \in {b} THEN 1 ELSE 0)
        <5>1. <<>> \in Seq(CamBufs)
          OBVIOUS
        <5>2. Count(Append(<<>>, Head(empty)), {b}) = Count(<<>>, {b}) + (IF Head(empty) \in {b} THEN 1 ELSE 0)
          BY <4>1, <5>1, CountAppend
        <5> QED
          BY <4>1, <5>2
      <4>3. Count(empty', {b}) = Count(empty, {b}) - (IF Head(empty) \in {b} THEN 1 ELSE 0)
        BY <1>t, <3>2, <4>1, CountTake
      <4> QED
        BY <1>n, <4>2, <4>3, CountEmpty
    <3> QED
      BY <3>1, <3>2
  <2>4. CASE Len(active) = 2
    <3>1. active' = Tail(active) \o e /\ full' = Append(full, Head(active))
      BY <1>1, <2>4 DEF CsiFrameDone
    <3>2. Head(active) \in CamBufs /\ Tail(active) \in Seq(CamBufs) /\ Len(Tail(active)) = Len(active) - 1
      BY <1>t, <2>1
    <3> HIDE DEF e
    <3>3. Len(active') = Len(Tail(active)) + Len(e) /\ Len(full') = Len(full) + 1
      BY <1>t, <2>2, <3>1, <3>2
    <3>4. ASSUME NEW b \in CamBufs
          PROVE  InReceiver(b)' = InReceiver(b)
      <4>1. Count(active', {b}) = Count(Tail(active), {b}) + Count(e, {b})
        <5>1. e \in Seq(CamBufs) /\ Tail(active) \in Seq(CamBufs)
          BY <2>2, <3>2
        <5>2. \A p \in Seq(CamBufs) : Count(p \o e, {b}) = Count(p, {b}) + Count(e, {b})
          BY <5>1, CountConcat
        <5> QED
          BY <3>1, <5>1, <5>2
      <4>2. Count(Tail(active), {b}) = Count(active, {b}) - (IF Head(active) \in {b} THEN 1 ELSE 0)
        BY <1>t, <2>1, CountTake
      <4>3. Count(full', {b}) = Count(full, {b}) + (IF Head(active) \in {b} THEN 1 ELSE 0)
        BY <1>t, <3>1, <3>2, CountAppend
      <4> QED
        BY <1>n, <2>3, <4>1, <4>2, <4>3 DEF InReceiver
    <3>5. Len(e) \in Nat
      BY <2>2
    <3>6. Circulating' = Circulating
      <4>1. \A a, x, y, z \in Nat : ((a - 1) + x) + y + (z + 1) = a + (x + y) + z
        OBVIOUS
      <4>2. Circulating' = ((Len(active) - 1) + Len(e)) + Len(empty') + (Len(full) + 1)
        BY <3>2, <3>3 DEF Circulating
      <4>3. Circulating = Len(active) + (Len(e) + Len(empty')) + Len(full)
        BY <2>2 DEF Circulating
      <4> QED
        BY <1>l, <3>5, <4>1, <4>2, <4>3
    <3> QED
      BY <3>4, <3>6
  <2>5. CASE Len(active) # 2
    <3>1. empty # <<>> /\ active' = Append(active, Head(empty)) /\ full' = full /\ empty' = Tail(empty)
      BY <1>1, <2>5 DEF CsiFrameDone
    <3>2. Head(empty) \in CamBufs /\ Len(Tail(empty)) = Len(empty) - 1
      BY <1>t, <3>1
    <3>3. Len(active') = Len(active) + 1
      BY <1>t, <3>1, <3>2
    <3>4. ASSUME NEW b \in CamBufs
          PROVE  InReceiver(b)' = InReceiver(b)
      <4>1. Count(active', {b}) = Count(active, {b}) + (IF Head(empty) \in {b} THEN 1 ELSE 0)
        BY <1>t, <3>1, <3>2, CountAppend
      <4>2. Count(empty', {b}) = Count(empty, {b}) - (IF Head(empty) \in {b} THEN 1 ELSE 0)
        BY <1>t, <3>1, CountTake
      <4> QED
        BY <1>n, <3>1, <4>1, <4>2 DEF InReceiver
    <3> QED
      BY <1>l, <3>1, <3>2, <3>3, <3>4 DEF Circulating
  <2> QED
    BY <2>4, <2>5
<1>2. CASE CamStart
  <2>1. active = <<>> /\ active' = SubSeq(empty, 1, 2) /\ empty' = SubSeq(empty, 3, Len(empty)) /\ full' = full
    BY <1>2 DEF CamStart, TypeInv, CamTypes
  <2>2. Len(empty) >= 2
    <3>1. empty = [i \in 1..CAMERA_DEV_BUFFER_COUNT |-> i]
      BY <1>2 DEF CamStart, TypeInv, CamTypes, CamBufs
    <3> QED
      BY <3>1, PipelineAssumption
  <2>3. /\ Len(active') = 2 /\ Len(empty') = Len(empty) - 2
        /\ empty = active' \o empty'
    BY <1>t, <2>1, <2>2, SplitSeq
  <2>4. ASSUME NEW b \in CamBufs
        PROVE  InReceiver(b)' = InReceiver(b)
    <3>1. Count(empty, {b}) = Count(active', {b}) + Count(empty', {b})
      <4>1. Count(active' \o empty', {b}) = Count(active', {b}) + Count(empty', {b})
        BY <1>t, CountConcat
      <4> QED
        BY <2>3, <4>1
    <3>2. Count(active, {b}) = 0
      BY <2>1, CountEmpty
    <3> QED
      BY <1>n, <2>1, <3>1, <3>2 DEF InReceiver
  <2>5. Len(active) = 0
    BY <2>1
  <2> QED
    BY <1>l, <2>1, <2>3, <2>4, <2>5 DEF Circulating
<1> QED
  BY <1>1, <1>2

\* Initially every buffer waits in the driver.
LEMMA BufInit ==
  ASSUME Init
  PROVE  BufInv
<1>1. /\ active = <<>> /\ full = <<>> /\ empty = [i \in 1..CAMERA_DEV_BUFFER_COUNT |-> i]
      /\ curBuf = NoBuf /\ msg.data = NoBuf /\ valid = FALSE
  BY DEF Init, CamBufs
<1>2. CAMERA_DEV_BUFFER_COUNT \in Nat /\ NoBuf \notin CamBufs
  BY PipelineAssumption
<1>3. ASSUME NEW b \in CamBufs
      PROVE  Holders(b) <= 1
  <2>1. Count(empty, {b}) = 1
    BY <1>1, <1>2, CountIdentity DEF CamBufs
  <2>2. Count(active, {b}) = 0 /\ Count(full, {b}) = 0
    BY <1>1, CountEmpty
  <2>3. curBuf # b
    BY <1>1, <1>2
  <2> QED
    BY <2>1, <2>2, <2>3 DEF Holders, One
<1>4. Circulating = CAMERA_DEV_BUFFER_COUNT
  <2>1. Len(active) = 0 /\ Len(full) = 0 /\ Len(empty) = CAMERA_DEV_BUFFER_COUNT
    BY <1>1, <1>2
  <2> QED
    BY <1>2, <2>1 DEF Circulating
<1> QED
  BY <1>1, <1>3, <1>4 DEF BufInv

\* Every step keeps the buffers apart.
LEMMA BufStep ==
  ASSUME TypeInv, TypeInv', Next, BufInv
  PROVE  BufInv'
<1>t. /\ active \in Seq(CamBufs) /\ empty \in Seq(CamBufs) /\ full \in Seq(CamBufs)
      /\ active' \in Seq(CamBufs) /\ empty' \in Seq(CamBufs) /\ full' \in Seq(CamBufs)
  BY DEF TypeInv, CamTypes, BufSeq
<1>n. ASSUME NEW M
      PROVE  /\ Count(active, M) \in Nat /\ Count(empty, M) \in Nat /\ Count(full, M) \in Nat
             /\ Count(active', M) \in Nat /\ Count(empty', M) \in Nat /\ Count(full', M) \in Nat
  BY <1>t, Positions
<1>l. /\ Len(active) \in Nat /\ Len(empty) \in Nat /\ Len(full) \in Nat
      /\ CAMERA_DEV_BUFFER_COUNT \in Nat /\ NoBuf \notin CamBufs
  BY <1>t, PipelineAssumption
<1>h. ASSUME NEW b \in CamBufs
      PROVE  /\ Holders(b) = InReceiver(b) + (IF curBuf = b THEN 1 ELSE 0)
             /\ Holders(b)' = InReceiver(b)' + (IF curBuf' = b THEN 1 ELSE 0)
             /\ InReceiver(b) \in Nat /\ InReceiver(b)' \in Nat
  BY <1>n DEF Holders, InReceiver, One
<1>b. valid \in BOOLEAN
  BY DEF TypeInv, CamTypes
<1>1. CASE CsiFrameDone \/ CamStart
  <2>1. /\ \A b \in CamBufs : InReceiver(b)' = InReceiver(b)
        /\ Circulating' = Circulating
    BY <1>1, ReceiverMoves
  <2>2. UNCHANGED <<curBuf, valid, msg>>
    BY <1>1 DEF CsiFrameDone, CamStart, camd
  <2>3. \A b \in CamBufs : Holders(b)' <= 1
    BY <1>h, <2>1, <2>2 DEF BufInv
  <2>4. CASE CsiFrameDone
    <3>1. camPc' = camPc
      BY <2>4 DEF CsiFrameDone, cam
    <3> QED
      BY <2>1, <2>2, <2>3, <3>1 DEF BufInv
  <2>5. CASE CamStart
    <3>1. camPc = "init" /\ camPc' = "idle"
      BY <2>5 DEF CamStart
    <3>2. Circulating = CAMERA_DEV_BUFFER_COUNT
      <4>1. active = <<>> /\ full = <<>> /\ empty = [i \in 1..CAMERA_DEV_BUFFER_COUNT |-> i]
        BY <3>1 DEF TypeInv, CamTypes, CamBufs
      <4>2. Len(active) = 0 /\ Len(full) = 0 /\ Len(empty) = CAMERA_DEV_BUFFER_COUNT
        BY <1>l, <4>1
      <4> QED
        BY <1>l, <4>2 DEF Circulating
    <3>3. msg.data = NoBuf /\ ~valid
      <4>1. Circulating # CAMERA_DEV_BUFFER_COUNT - 2
        BY <1>l, <3>2
      <4> QED
        BY <1>b, <3>1, <4>1 DEF BufInv
    <3> QED
      BY <2>1, <2>2, <2>3, <3>1, <3>3 DEF BufInv
  <2> QED
    BY <1>1, <2>4, <2>5
<1>2. CASE CamDequeue
  <2>1. /\ full # <<>> /\ full' = Tail(full) /\ curBuf' = Head(full) /\ UNCHANGED <<active, empty>>
        /\ camPc = "idle" /\ valid' = ~valid
        /\ camPc' = IF msg'.data = NoBuf THEN "idle" ELSE "display"
    BY <1>2 DEF CamDequeue
  <2>2. Head(full) \in CamBufs /\ Head(full) # NoBuf /\ Len(full') = Len(full) - 1
    BY <1>l, <1>t, <2>1
  <2>3. ASSUME NEW b \in CamBufs
        PROVE  Holders(b)' <= 1
    <3>1. Count(full', {b}) = Count(full, {b}) - (IF Head(full) \in {b} THEN 1 ELSE 0)
      BY <1>t, <2>1, CountTake
    <3>2. InReceiver(b)' = InReceiver(b) - (IF curBuf' = b THEN 1 ELSE 0)
      BY <1>n, <2>1, <3>1 DEF InReceiver
    <3>3. Holders(b) <= 1
      BY DEF BufInv
    <3> QED
      BY <1>h, <3>2, <3>3
  <2>4. Circulating' = Circulating - 1 /\ Circulating \in Nat
    BY <1>l, <2>1, <2>2 DEF Circulating
  <2>5. CASE msg.data = NoBuf /\ ~valid
    <3>1. msg' = msg /\ valid' /\ camPc' = "idle" /\ curBuf' # NoBuf
      BY <1>2, <2>1, <2>2, <2>5 DEF CamDequeue
    <3>2. Circulating' = CAMERA_DEV_BUFFER_COUNT - 1
      BY <2>4, <2>5 DEF BufInv
    <3> QED
      BY <2>3, <2>5, <3>1, <3>2 DEF BufInv
  <2>6. CASE msg.data # NoBuf \/ valid
    <3>1. msg'.data # NoBuf
      BY <1>2, <2>2, <2>6 DEF CamDequeue
    <3>2. camPc' = "display"
      BY <2>1, <3>1
    <3>3. Circulating' = CAMERA_DEV_BUFFER_COUNT - 2
      BY <1>b, <1>l, <2>1, <2>4, <2>6 DEF BufInv
    <3> QED
      BY <2>3, <3>1, <3>2, <3>3 DEF BufInv
  <2> QED
    BY <1>b, <2>5, <2>6
<1>3. CASE CamEnqueue
  <2>1. /\ empty' = <<curBuf>> \o empty /\ curBuf' = NoBuf /\ UNCHANGED <<active, full, valid, msg>>
        /\ camPc = "enqueue" /\ camPc' = "idle"
    BY <1>3 DEF CamEnqueue
  <2>2. curBuf \in CamBufs /\ msg.data # NoBuf
    BY <2>1 DEF TypeInv, CamTypes
  <2>3. ASSUME NEW b \in CamBufs
        PROVE  Holders(b)' <= 1
    <3>1. Count(empty', {b}) = Count(empty, {b}) + (IF curBuf \in {b} THEN 1 ELSE 0)
      BY <1>t, <2>1, <2>2, CountPrepend
    <3>2. InReceiver(b)' = InReceiver(b) + (IF curBuf = b THEN 1 ELSE 0)
      BY <1>n, <2>1, <3>1 DEF InReceiver
    <3>3. curBuf' # b
      BY <1>l, <2>1
    <3>4. Holders(b) <= 1
      BY DEF BufInv
    <3> QED
      BY <1>h, <3>2, <3>3, <3>4
  <2>4. Circulating' = Circulating + 1
    <3>1. Len(empty') = Len(empty) + 1
      BY <1>t, <2>1, <2>2, CountPrepend
    <3> QED
      BY <1>l, <2>1, <3>1 DEF Circulating
  <2>5. Circulating = CAMERA_DEV_BUFFER_COUNT - 2
    BY <2>1, <2>2 DEF BufInv
  <2>6. Circulating' = CAMERA_DEV_BUFFER_COUNT - 1
    BY <1>l, <2>4, <2>5
  <2> QED
    BY <2>1, <2>2, <2>3, <2>6 DEF BufInv
<1>4. CASE CamDisplayResponse \/ CamAlgoResponse
  <2>1. /\ UNCHANGED <<active, empty, full, curBuf, valid, msg>>
        /\ camPc # "idle" /\ camPc' # "idle" /\ msg.data # NoBuf
    BY <1>4 DEF CamDisplayResponse, CamAlgoResponse, recv, camd, TypeInv, CamTypes
  <2> QED
    BY <2>1 DEF BufInv, Holders, Circulating
<1>5. ASSUME UNCHANGED <<active, empty, full, curBuf, valid, msg, camPc>>
      PROVE  BufInv'
  BY <1>5 DEF BufInv, Holders, Circulating
<1>6. CASE LcdFrameDone \/ CamDisplayRequest \/ CamNotify \/ (\E f \in Frames : CamAlgoRequest(f)) \/ DispStep
           \/ AlgoStep \/ Event
  BY <1>5, <1>6 DEF LcdFrameDone, CamDisplayRequest, CamNotify, CamAlgoRequest, DispStep, DispStart,
         DispBlitFlag, DispBlitCurrent, DispBlitNext, DispSetFormat, DispSetFlag, AlgoStep, AlgoRequest,
         AlgoResponse, AlgoRunEnd, AlgoNotify, Event, recv, camd, cam
<1> QED
  BY <1>1, <1>2, <1>3, <1>4, <1>6 DEF Next, CamStep

-----------------------------------------------------------------------------
(* Dequeue messages.                                                       *)

\* The count that DequeueFindsFrame is about.
DequeueCounted == Count(camQ, {Dequeue}) <= Len(full)

\* The count says what the property says.
LEMMA DequeueCount ==
  DequeueCounted <=> DequeueFindsFrame
<1>1. {i \in DOMAIN camQ : camQ[i] \in {Dequeue}} = {i \in DOMAIN camQ : camQ[i] = Dequeue}
  OBVIOUS
<1> QED
  BY <1>1 DEF DequeueCounted, DequeueFindsFrame, Count

\* A dequeue message is sent with a filled buffer and received with one.
LEMMA DequeueStep ==
  ASSUME TypeInv, TypeInv', Next, DequeueCounted
  PROVE  DequeueCounted'
<1> DEFINE c == Dequeue
<1>q. /\ camQ \in Seq(CamMsgs) /\ camQ' \in Seq(CamMsgs)
      /\ active \in Seq(CamBufs) /\ full \in Seq(CamBufs) /\ full' \in Seq(CamBufs)
  BY DEF TypeInv, CamTypes, BufSeq
<1>n. /\ Count(camQ, {c}) \in Nat /\ Count(camQ', {c}) \in Nat
      /\ Len(full) \in Nat /\ Len(full') \in Nat
  <2>1. Len(full) \in Nat /\ Len(full') \in Nat
    BY <1>q
  <2>2. Count(camQ, {c}) \in Nat /\ Count(camQ', {c}) \in Nat
    BY <1>q, Positions
  <2> QED
    BY <2>1, <2>2
<1>m. /\ c \in CamMsgs /\ DispReqMsg \in CamMsgs /\ Exposure \in CamMsgs
      /\ DispReqMsg # c /\ Exposure # c
      /\ \A f \in Frames : AlgoReqMsg(f) \in CamMsgs /\ AlgoReqMsg(f) # c
  BY MsgFacts
<1>d. /\ DequeueCounted <=> Count(camQ, {c}) <= Len(full)
      /\ DequeueCounted' <=> Count(camQ', {c}) <= Len(full')
  BY DEF DequeueCounted
<1> HIDE DEF c
<1>1. ASSUME Count(camQ', {c}) <= Count(camQ, {c}), full' = full
      PROVE  DequeueCounted'
  BY <1>1, <1>d, <1>n
<1>2. ASSUME NEW m \in CamMsgs, m # c, camQ' = Put(camQ, m), full' = full
      PROVE  DequeueCounted'
  <2>1. Count(camQ', {c}) = Count(camQ, {c})
    BY <1>2, <1>q, PutOther
  <2> QED
    BY <1>1, <1>2, <1>n, <2>1
<1>3. ASSUME camQ # <<>>, camQ' = Tail(camQ), full' = full
      PROVE  DequeueCounted'
  <2>1. Count(camQ', {c}) = Count(camQ, {c}) - (IF Head(camQ) \in {c} THEN 1 ELSE 0)
    BY <1>3, <1>q, CountTake
  <2> QED
    BY <1>1, <1>3, <1>n, <2>1
<1>4. ASSUME UNCHANGED <<camQ, full>>
      PROVE  DequeueCounted'
  BY <1>1, <1>4, <1>n
<1>5. CASE CsiFrameDone
  <2>1. CASE Len(active) = 2
    <3>1. camQ' = Put(camQ, c) /\ full' = Append(full, Head(active)) /\ active # <<>>
      BY <1>5, <2>1 DEF CsiFrameDone, c
    <3>2. c \in {c}
      OBVIOUS
    <3>3. Count(camQ', {c}) <= Count(camQ, {c}) + 1
      BY <1>m, <1>q, <3>1, <3>2, PutOne
    <3>4. Len(full') = Len(full) + 1
      <4>1. Head(active) \in CamBufs
        BY <1>q, <3>1
      <4> QED
        BY <1>q, <3>1, <4>1
    <3> QED
      BY <1>d, <1>n, <3>3, <3>4
  <2>2. CASE Len(active) # 2
    BY <1>4, <1>5, <2>2 DEF CsiFrameDone
  <2> QED
    BY <2>1, <2>2
<1>6. CASE CamDequeue
  <2>1. camQ # <<>> /\ camQ' = Tail(camQ) /\ Head(camQ) = c /\ full # <<>> /\ full' = Tail(full)
    BY <1>6 DEF CamDequeue, c
  <2>2. Head(camQ) \in {c}
    BY <2>1
  <2>3. Count(camQ', {c}) = Count(camQ, {c}) - 1
    BY <1>q, <2>1, <2>2, TakeOne
  <2>4. Len(full') = Len(full) - 1
    BY <1>q, <2>1
  <2> QED
    BY <1>d, <1>n, <2>3, <2>4
<1>7. CASE CamDisplayRequest \/ CamNotify \/ \E f \in Frames : CamAlgoRequest(f)
  BY <1>3, <1>7 DEF CamDisplayRequest, CamNotify, CamAlgoRequest, recv
<1>8. CASE CamStart \/ CamDisplayResponse \/ CamAlgoResponse \/ CamEnqueue
  BY <1>4, <1>8 DEF CamStart, CamDisplayResponse, CamAlgoResponse, CamEnqueue, recv
<1>9. CASE LcdFrameDone \/ DispStart
  <2>1. (camQ' = camQ \/ camQ' = Put(camQ, DispReqMsg)) /\ full' = full
    BY <1>9 DEF LcdFrameDone, DispStart, recv
  <2> QED
    BY <1>2, <1>4, <1>m, <2>1
<1>10. CASE DispBlitFlag \/ DispBlitCurrent \/ DispBlitNext \/ DispSetFormat \/ DispSetFlag
  BY <1>4, <1>10 DEF DispBlitFlag, DispBlitCurrent, DispBlitNext, DispSetFormat, DispSetFlag, recv
<1>11. CASE AlgoRequest
  <2>1. Head(todo) \in Frames /\ camQ' = Put(camQ, AlgoReqMsg(Head(todo))) /\ full' = full
    BY <1>11 DEF AlgoRequest, TypeInv, AlgoTypes, recv
  <2> QED
    BY <1>2, <1>m, <2>1
<1>12. CASE (\E f \in Frames : AlgoResponse(f)) \/ AlgoRunEnd \/ AlgoNotify
  BY <1>4, <1>12 DEF AlgoResponse, AlgoRunEnd, AlgoNotify, recv
<1>13. CASE Event
  <2>1. (camQ' = camQ \/ camQ' = Put(camQ, Exposure)) /\ full' = full
    BY <1>13 DEF Event, SendNotify, SendSetSource, SendOasisEvent, Exposure, recv
  <2> QED
    BY <1>2, <1>4, <1>m, <2>1
<1> QED
  BY <1>5, <1>6, <1>7, <1>8, <1>9, <1>10, <1>11, <1>12, <1>13 DEF Next, CamStep, DispStep, AlgoStep

-----------------------------------------------------------------------------
(* The inductive invariant.                                                *)

\* Types, buffers, load and pending dequeues.
FlowInv == TypeInv /\ BufInv /\ LoadBounded /\ DequeueCounted

\* It holds at first,
LEMMA FlowInit ==
  Init => FlowInv
<1> SUFFICES ASSUME Init PROVE FlowInv
  OBVIOUS
<1>1. LoadBounded
  <2>1. "RGB" \in Frames /\ "IR" \in Frames /\ events = 0
    BY DEF Frames, Init
  <2>2. AlgoTokens("RGB") \in {0, 1} /\ AlgoTokens("IR") \in {0, 1}
    BY <2>1, TokensInit
  <2> QED
    BY <2>1, <2>2, TokensInit DEF LoadBounded, Load
<1>2. DequeueCounted
  BY CountEmpty DEF Init, DequeueCounted
<1> QED
  BY <1>1, <1>2, TypeInit, BufInit DEF FlowInv

\* every step keeps it,
LEMMA FlowStep ==
  FlowInv /\ [Next]_vars => FlowInv'
<1> SUFFICES ASSUME FlowInv, [Next]_vars PROVE FlowInv'
  OBVIOUS
<1>1. TypeInv'
  BY TypeStep DEF FlowInv
<1>2. CASE Next
  BY <1>1, <1>2, BufStep, LoadStep, DequeueStep DEF FlowInv
<1>3. CASE UNCHANGED vars
  BY <1>1, <1>3 DEF vars, FlowInv, BufInv, Holders, Circulating, LoadBounded, Load, AlgoTokens,
     DispTokens, DequeueCounted
<1> QED
  BY <1>2, <1>3

\* and so it always holds.
LEMMA FlowAlways == Spec => []FlowInv
BY FlowInit, FlowStep, PTL DEF Spec

\* What the queues hold, kind by kind.
LEMMA QueueLengths ==
  ASSUME TypeInv
  PROVE  /\ Len(camQ) <= Count(camQ, {Dequeue}) + Count(camQ, {DispReqMsg}) + Count(camQ, {AlgoReqMsg("RGB")})
                           + Count(camQ, {AlgoReqMsg("IR")}) + Count(camQ, {Exposure})
         /\ Len(dispQ) <= Count(dispQ, {DispRespMsg}) + Count(dispQ, Sources)
         /\ Len(algoQ) <= Count(algoQ, {AlgoRespMsg("RGB")}) + Count(algoQ, {AlgoRespMsg("IR")})
                            + Count(algoQ, Notifies)
<1>q. camQ \in Seq(CamMsgs) /\ dispQ \in Seq(DispMsgs) /\ algoQ \in Seq(AlgoMsgs)
  BY DEF TypeInv, CamTypes, DispTypes, AlgoTypes
<1>n. ASSUME NEW M
      PROVE  Count(camQ, M) \in Nat /\ Count(dispQ, M) \in Nat /\ Count(algoQ, M) \in Nat
  BY <1>q, Positions
<1>1. Len(camQ) <= Count(camQ, {Dequeue}) + Count(camQ, {DispReqMsg}) + Count(camQ, {AlgoReqMsg("RGB")})
                     + Count(camQ, {AlgoReqMsg("IR")}) + Count(camQ, {Exposure})
  <2> DEFINE C == {AlgoReqMsg("IR")} \cup {Exposure}
             B == {AlgoReqMsg("RGB")} \cup C
             A == {DispReqMsg} \cup B
  <2>1. CamMsgs = {Dequeue} \cup A
    BY DEF CamMsgs
  <2>2. Count(camQ, C) <= Count(camQ, {AlgoReqMsg("IR")}) + Count(camQ, {Exposure})
    BY <1>q, CountUnion
  <2> HIDE DEF C
  <2>3. Count(camQ, B) <= Count(camQ, {AlgoReqMsg("RGB")}) + Count(camQ, C)
    BY <1>q, CountUnion
  <2> HIDE DEF B
  <2>4. Count(camQ, A) <= Count(camQ, {DispReqMsg}) + Count(camQ, B)
    BY <1>q, CountUnion
  <2> HIDE DEF A
  <2>5. Count(camQ, {Dequeue} \cup A) <= Count(camQ, {Dequeue}) + Count(camQ, A)
    BY <1>q, CountUnion
  <2>6. Count(camQ, {Dequeue} \cup A) = Len(camQ)
    BY <1>q, <2>1, CountAll
  <2>7. Count(camQ, B) <= Count(camQ, {AlgoReqMsg("RGB")})
                            + (Count(camQ, {AlgoReqMsg("IR")}) + Count(camQ, {Exposure}))
    BY <1>n, <2>2, <2>3
  <2>9. Len(camQ) \in Nat
    BY <1>q
  <2>8. Len(camQ) <= Count(camQ, {Dequeue}) + (Count(camQ, {DispReqMsg}) + Count(camQ, B))
    <3>1. \A l, a, x, b, y \in Nat : l <= a + x /\ x <= b + y => l <= a + (b + y)
      OBVIOUS
    <3>2. Len(camQ) <= Count(camQ, {Dequeue}) + Count(camQ, A)
      BY <2>5, <2>6
    <3> QED
      BY <1>n, <2>4, <2>9, <3>1, <3>2
  <2>10. \A l, a, b, c, d, e, x \in Nat : x <= c + (d + e) /\ l <= a + (b + x) => l <= a + b + c + d + e
    OBVIOUS
  <2> QED
    BY <1>n, <2>7, <2>8, <2>9, <2>10
<1>2. Len(dispQ) <= Count(dispQ, {DispRespMsg}) + Count(dispQ, Sources)
  <2>1. Count(dispQ, {DispRespMsg} \cup Sources) <= Count(dispQ, {DispRespMsg}) + Count(dispQ, Sources)
    BY <1>q, CountUnion
  <2>2. Count(dispQ, {DispRespMsg} \cup Sources) = Len(dispQ)
    BY <1>q, CountAll DEF DispMsgs
  <2> QED
    BY <2>1, <2>2
<1>3. Len(algoQ) <= Count(algoQ, {AlgoRespMsg("RGB")}) + Count(algoQ, {AlgoRespMsg("IR")}) + Count(algoQ, Notifies)
  <2> DEFINE B == {AlgoRespMsg("IR")} \cup Notifies
  <2>1. AlgoMsgs = {AlgoRespMsg("RGB")} \cup B
    BY DEF AlgoMsgs
  <2>2. Count(algoQ, B) <= Count(algoQ, {AlgoRespMsg("IR")}) + Count(algoQ, Notifies)
    BY <1>q, CountUnion
  <2> HIDE DEF B
  <2>3. Count(algoQ, {AlgoRespMsg("RGB")} \cup B) <= Count(algoQ, {AlgoRespMsg("RGB")}) + Count(algoQ, B)
    BY <1>q, CountUnion
  <2>4. Count(algoQ, {AlgoRespMsg("RGB")} \cup B) = Len(algoQ)
    BY <1>q, <2>1, CountAll
  <2>5. Len(algoQ) \in Nat /\ Len(algoQ) <= Count(algoQ, {AlgoRespMsg("RGB")}) + Count(algoQ, B)
    BY <1>q, <2>3, <2>4
  <2>6. \A l, a, x, b, y \in Nat : l <= a + x /\ x <= b + y => l <= a + b + y
    OBVIOUS
  <2> QED
    BY <1>n, <2>2, <2>5, <2>6
<1> QED
  BY <1>1, <1>2, <1>3

\* One buffer at least, or two, are with the receiver and not full.
LEMMA FullBound ==
  ASSUME TypeInv, BufInv
  PROVE  /\ Len(full) \in Nat
         /\ Len(full) <= CAMERA_DEV_BUFFER_COUNT - 1
         /\ Len(active) = 2 => Len(full) <= CAMERA_DEV_BUFFER_COUNT - 2
<1>t. active \in Seq(CamBufs) /\ empty \in Seq(CamBufs) /\ full \in Seq(CamBufs)
  BY DEF TypeInv, CamTypes, BufSeq
<1>l. Len(active) \in Nat /\ Len(empty) \in Nat /\ Len(full) \in Nat
  BY <1>t
<1>c. CAMERA_DEV_BUFFER_COUNT \in Nat /\ CAMERA_DEV_BUFFER_COUNT >= 2
  BY PipelineAssumption
<1>1. Circulating <= CAMERA_DEV_BUFFER_COUNT
  <2>1. valid \in BOOLEAN
    BY DEF TypeInv, CamTypes
  <2>2. \/ Circulating = CAMERA_DEV_BUFFER_COUNT
        \/ Circulating = CAMERA_DEV_BUFFER_COUNT - 1
        \/ Circulating = CAMERA_DEV_BUFFER_COUNT - 2
    BY <2>1 DEF BufInv
  <2> QED
    BY <1>c, <2>2
<1>2. CASE camPc = "init"
  <2>1. Len(full) = 0 /\ Len(active) = 0
    BY <1>2 DEF TypeInv, CamTypes
  <2> QED
    BY <1>c, <2>1
<1>3. CASE camPc # "init"
  <2>1. Len(active) >= 1
    <3>1. Len(active) = 1 \/ Len(active) = 2
      BY <1>3 DEF TypeInv, CamTypes
    <3> QED
      BY <3>1
  <2>2. Len(active) + Len(empty) + Len(full) <= CAMERA_DEV_BUFFER_COUNT
    BY <1>1 DEF Circulating
  <2>3. \A a, e, f, n \in Nat : a + e + f <= n => f <= n - a
    OBVIOUS
  <2>4. Len(full) <= CAMERA_DEV_BUFFER_COUNT - Len(active)
    BY <1>c, <1>l, <2>2, <2>3
  <2>5. \A a, f, n \in Nat : f <= n - a /\ a >= 1 => f <= n - 1 /\ (a = 2 => f <= n - 2)
    OBVIOUS
  <2> QED
    BY <1>c, <1>l, <2>1, <2>4, <2>5
<1> QED
  BY <1>2, <1>3

\* What is in the queues and slots is part of the load.
LEMMA LoadParts ==
  ASSUME FlowInv
  PROVE  /\ \A f \in Frames :
              /\ AlgoTokens(f) \in Nat
              /\ AlgoTokens(f) >= Count(todo, {f}) + Count(camQ, {AlgoReqMsg(f)})
              /\ AlgoTokens(f) >= Count(algoQ, {AlgoRespMsg(f)}) + (IF algoSlot[f] THEN 1 ELSE 0)
         /\ DispTokens \in Nat
         /\ DispTokens >= Count(camQ, {DispReqMsg})
         /\ newSet \/ dispPc = "init" => DispTokens >= Count(camQ, {DispReqMsg}) + 1
         /\ DispTokens >= Count(dispQ, {DispRespMsg}) + Count(dispQ, Sources)
                            + (IF dispSlot.data # NoBuf THEN 1 ELSE 0)
         /\ AlgoTokens("RGB") + AlgoTokens("IR") + DispTokens
              + Count(camQ, {Exposure}) + 2 * Count(algoQ, Notifies) <= 3 + 2 * events
<1>q. camQ \in Seq(CamMsgs) /\ dispQ \in Seq(DispMsgs) /\ algoQ \in Seq(AlgoMsgs) /\ todo \in Seq(Frames)
  BY DEF FlowInv, TypeInv, CamTypes, DispTypes, AlgoTypes
<1>n. ASSUME NEW M
      PROVE  Count(camQ, M) \in Nat /\ Count(dispQ, M) \in Nat /\ Count(algoQ, M) \in Nat /\ Count(todo, M) \in Nat
  BY <1>q, Positions
<1>1. ASSUME NEW f \in Frames
      PROVE  /\ AlgoTokens(f) \in Nat
             /\ AlgoTokens(f) >= Count(todo, {f}) + Count(camQ, {AlgoReqMsg(f)})
             /\ AlgoTokens(f) >= Count(algoQ, {AlgoRespMsg(f)}) + (IF algoSlot[f] THEN 1 ELSE 0)
  BY <1>n DEF AlgoTokens, One
<1>2. /\ DispTokens \in Nat
      /\ DispTokens >= Count(camQ, {DispReqMsg})
      /\ newSet \/ dispPc = "init" => DispTokens >= Count(camQ, {DispReqMsg}) + 1
      /\ DispTokens >= Count(dispQ, {DispRespMsg}) + Count(dispQ, Sources)
                         + (IF dispSlot.data # NoBuf THEN 1 ELSE 0)
  BY <1>n DEF DispTokens, One
<1>3. AlgoTokens("RGB") + AlgoTokens("IR") + DispTokens
        + Count(camQ, {Exposure}) + 2 * Count(algoQ, Notifies) <= 3 + 2 * events
  BY DEF FlowInv, LoadBounded, Load
<1> QED
  BY <1>1, <1>2, <1>3

\* How long the queues can be, together with what may be put into them next.
LEMMA QueueBounds ==
  ASSUME FlowInv
  PROVE  /\ events \in Nat /\ Len(camQ) \in Nat /\ Len(dispQ) \in Nat /\ Len(algoQ) \in Nat
         /\ Count(todo, {"RGB"}) \in Nat /\ Count(todo, {"IR"}) \in Nat
         /\ Len(camQ) + Count(todo, {"RGB"}) + Count(todo, {"IR"}) + (IF newSet \/ dispPc = "init" THEN 1 ELSE 0)
              + (IF Len(active) = 2 THEN 1 ELSE 0) <= CAMERA_DEV_BUFFER_COUNT + 2 + 2 * events
         /\ Len(dispQ) + (IF dispSlot.data # NoBuf THEN 1 ELSE 0) <= 3 + 2 * events
         /\ \A f \in Frames : Len(algoQ) + (IF algoSlot[f] THEN 1 ELSE 0) <= 3 + 2 * events
<1>q. camQ \in Seq(CamMsgs) /\ dispQ \in Seq(DispMsgs) /\ algoQ \in Seq(AlgoMsgs) /\ todo \in Seq(Frames)
  BY DEF FlowInv, TypeInv, CamTypes, DispTypes, AlgoTypes
<1>n. ASSUME NEW M
      PROVE  Count(camQ, M) \in Nat /\ Count(dispQ, M) \in Nat /\ Count(algoQ, M) \in Nat /\ Count(todo, M) \in Nat
  BY <1>q, Positions
<1>l. Len(camQ) \in Nat /\ Len(dispQ) \in Nat /\ Len(algoQ) \in Nat
  BY <1>q
<1>e. events \in Nat
  BY DEF FlowInv, TypeInv, AlgoTypes
<1>f. "RGB" \in Frames /\ "IR" \in Frames
  BY DEF Frames
<1>c. CAMERA_DEV_BUFFER_COUNT \in Nat
  BY PipelineAssumption
<1> DEFINE ra == AlgoTokens("RGB")
           ia == AlgoTokens("IR")
           dt == DispTokens
           ex == Count(camQ, {Exposure})
           no == Count(algoQ, Notifies)
           n  == IF newSet \/ dispPc = "init" THEN 1 ELSE 0
           two == IF Len(active) = 2 THEN 1 ELSE 0
<1>1. /\ ra \in Nat /\ ia \in Nat /\ dt \in Nat /\ ex \in Nat /\ no \in Nat
      /\ n \in {0, 1} /\ two \in {0, 1}
  BY <1>f, <1>n, LoadParts
<1>2. /\ Count(todo, {"RGB"}) + Count(camQ, {AlgoReqMsg("RGB")}) <= ra
      /\ Count(todo, {"IR"}) + Count(camQ, {AlgoReqMsg("IR")}) <= ia
      /\ Count(algoQ, {AlgoRespMsg("RGB")}) + (IF algoSlot["RGB"] THEN 1 ELSE 0) <= ra
      /\ Count(algoQ, {AlgoRespMsg("IR")}) + (IF algoSlot["IR"] THEN 1 ELSE 0) <= ia
  <2>1. \A a, b, c \in Nat : a >= b + c => b + c <= a
    OBVIOUS
  <2> QED
    BY <1>f, <1>n, <1>1, <2>1, LoadParts
<1>3. Count(camQ, {DispReqMsg}) + n <= dt
  <2>1. CASE newSet \/ dispPc = "init"
    <3>1. n = 1 /\ dt >= Count(camQ, {DispReqMsg}) + 1
      BY <2>1, LoadParts
    <3> QED
      BY <1>1, <1>n, <3>1
  <2>2. CASE ~(newSet \/ dispPc = "init")
    <3>1. n = 0 /\ dt >= Count(camQ, {DispReqMsg})
      BY <2>2, LoadParts
    <3> QED
      BY <1>1, <1>n, <3>1
  <2> QED
    BY <2>1, <2>2
<1>4. ra + ia + dt + ex + 2 * no <= 3 + 2 * events
  BY LoadParts
<1>5. Count(camQ, {Dequeue}) + two <= CAMERA_DEV_BUFFER_COUNT - 1
  <2>1. /\ Len(full) \in Nat /\ Len(full) <= CAMERA_DEV_BUFFER_COUNT - 1
        /\ Len(active) = 2 => Len(full) <= CAMERA_DEV_BUFFER_COUNT - 2
        /\ Count(camQ, {Dequeue}) <= Len(full)
    BY FullBound DEF FlowInv, DequeueCounted
  <2>2. \A d, m, k \in Nat : d <= m /\ m <= k - 1 => d + 0 <= k - 1
    OBVIOUS
  <2>3. \A d, m, k \in Nat : d <= m /\ m <= k - 2 => d + 1 <= k - 1
    OBVIOUS
  <2>4. CASE Len(active) = 2
    <3>1. two = 1
      BY <2>4
    <3> HIDE DEF two
    <3> QED
      BY <1>c, <1>n, <2>1, <2>3, <2>4, <3>1
  <2>5. CASE Len(active) # 2
    <3>1. two = 0
      BY <2>5
    <3> HIDE DEF two
    <3> QED
      BY <1>c, <1>n, <2>1, <2>2, <3>1
  <2> QED
    BY <2>4, <2>5
<1>6. /\ Len(camQ) <= Count(camQ, {Dequeue}) + Count(camQ, {DispReqMsg}) + Count(camQ, {AlgoReqMsg("RGB")})
                        + Count(camQ, {AlgoReqMsg("IR")}) + ex
      /\ Len(dispQ) <= Count(dispQ, {DispRespMsg}) + Count(dispQ, Sources)
      /\ Len(algoQ) <= Count(algoQ, {AlgoRespMsg("RGB")}) + Count(algoQ, {AlgoRespMsg("IR")}) + no
  BY QueueLengths DEF FlowInv
<1>7. Count(dispQ, {DispRespMsg}) + Count(dispQ, Sources) + (IF dispSlot.data # NoBuf THEN 1 ELSE 0) <= dt
  <2>1. dt >= Count(dispQ, {DispRespMsg}) + Count(dispQ, Sources) + (IF dispSlot.data # NoBuf THEN 1 ELSE 0)
    BY LoadParts
  <2> QED
    BY <1>1, <1>n, <2>1
<1> HIDE DEF ra, ia, dt, ex, no, n, two
<1>8. Len(camQ) + Count(todo, {"RGB"}) + Count(todo, {"IR"}) + n + two <= CAMERA_DEV_BUFFER_COUNT + 2 + 2 * events
  <2> DEFINE q1 == Count(camQ, {Dequeue})
             q2 == Count(camQ, {DispReqMsg})
             q3 == Count(camQ, {AlgoReqMsg("RGB")})
             q4 == Count(camQ, {AlgoReqMsg("IR")})
             t1 == Count(todo, {"RGB"})
             t2 == Count(todo, {"IR"})
             len == Len(camQ)
  <2>1. /\ q1 \in Nat /\ q2 \in Nat /\ q3 \in Nat /\ q4 \in Nat /\ t1 \in Nat /\ t2 \in Nat /\ len \in Nat
        /\ n \in Nat /\ two \in Nat
    BY <1>1, <1>l, <1>n
  <2>2. t1 + q3 <= ra /\ t2 + q4 <= ia /\ q2 + n <= dt /\ q1 + two <= CAMERA_DEV_BUFFER_COUNT - 1
    BY <1>2, <1>3, <1>5
  <2>3. len <= q1 + q2 + q3 + q4 + ex
    BY <1>6
  <2> HIDE DEF q1, q2, q3, q4, t1, t2, len
  <2>4. len + t1 + t2 + n + two <= CAMERA_DEV_BUFFER_COUNT + 2 + 2 * events
    BY <1>1, <1>4, <1>c, <1>e, <2>1, <2>2, <2>3
  <2> QED
    BY <2>4 DEF t1, t2, len
<1>9. Len(dispQ) + (IF dispSlot.data # NoBuf THEN 1 ELSE 0) <= 3 + 2 * events
  <2> DEFINE len == Len(dispQ)
             b == IF dispSlot.data # NoBuf THEN 1 ELSE 0
             q == Count(dispQ, {DispRespMsg}) + Count(dispQ, Sources)
  <2>1. len \in Nat /\ b \in Nat /\ q \in Nat
    BY <1>l, <1>n
  <2>2. len <= q /\ q + b <= dt
    BY <1>6, <1>7
  <2> HIDE DEF len, b, q
  <2>3. len + b <= 3 + 2 * events
    BY <1>1, <1>4, <1>e, <2>1, <2>2
  <2> QED
    BY <2>3 DEF len, b
<1>10. ASSUME NEW f \in Frames
       PROVE  Len(algoQ) + (IF algoSlot[f] THEN 1 ELSE 0) <= 3 + 2 * events
  <2> DEFINE len == Len(algoQ)
             b1 == IF algoSlot["RGB"] THEN 1 ELSE 0
             b2 == IF algoSlot["IR"] THEN 1 ELSE 0
             q1 == Count(algoQ, {AlgoRespMsg("RGB")})
             q2 == Count(algoQ, {AlgoRespMsg("IR")})
  <2>1. len \in Nat /\ b1 \in Nat /\ b2 \in Nat /\ q1 \in Nat /\ q2 \in Nat
    BY <1>l, <1>n
  <2>2. len <= q1 + q2 + no /\ q1 + b1 <= ra /\ q2 + b2 <= ia
    BY <1>2, <1>6
  <2> HIDE DEF len, b1, b2, q1, q2
  <2>3. len + b1 <= 3 + 2 * events /\ len + b2 <= 3 + 2 * events
    BY <1>1, <1>4, <1>e, <2>1, <2>2
  <2>4. CASE f = "RGB"
    BY <2>3, <2>4 DEF len, b1
  <2>5. CASE f = "IR"
    BY <2>3, <2>5 DEF len, b2
  <2> QED
    BY <2>4, <2>5 DEF Frames
<1> QED
  BY <1>8, <1>9, <1>10, <1>l, <1>n, <1>e DEF n, two

-----------------------------------------------------------------------------
(* The properties.                                                         *)

\* The camera task never blocks on a dequeue message without a full buffer.
THEOREM DequeueNeverBlocks == Spec => []DequeueFindsFrame
<1>1. FlowInv => DequeueFindsFrame
  BY DequeueCount DEF FlowInv
<1> QED
  BY <1>1, FlowAlways, PTL

\* No camera buffer is submitted twice, and one at most is lost.
THEOREM BuffersKept == Spec => []CameraBuffersKept
<1>1. FlowInv => CameraBuffersKept
  <2> SUFFICES ASSUME FlowInv PROVE CameraBuffersKept
    OBVIOUS
  <2> DEFINE handled == IF curBuf # NoBuf THEN <<curBuf>> ELSE <<>>
             held == active \o empty \o full
             all == held \o handled
  <2>t. active \in Seq(CamBufs) /\ empty \in Seq(CamBufs) /\ full \in Seq(CamBufs) /\ curBuf \in CamBufs \cup {NoBuf}
    BY DEF FlowInv, TypeInv, CamTypes, BufSeq
  <2>c. CAMERA_DEV_BUFFER_COUNT \in Nat
    BY PipelineAssumption
  <2>1. handled \in Seq(CamBufs)
    BY <2>t
  <2>2. held \in Seq(CamBufs) /\ Len(held) = Len(active) + Len(empty) + Len(full)
    BY <2>t
  <2>3. all \in Seq(CamBufs) /\ Len(all) = Len(held) + Len(handled)
    BY <2>1, <2>2
  <2>4. ASSUME NEW b \in CamBufs
        PROVE  Count(all, {b}) <= 1
    <3>1. Count(handled, {b}) = IF curBuf = b THEN 1 ELSE 0
      <4>1. CASE curBuf = NoBuf
        <5>1. handled = <<>> /\ curBuf # b
          BY <4>1, PipelineAssumption
        <5> QED
          BY <5>1, CountEmpty
      <4>2. CASE curBuf # NoBuf
        <5>1. handled = Append(<<>>, curBuf) /\ curBuf \in CamBufs /\ <<>> \in Seq(CamBufs)
          BY <2>t, <4>2
        <5>2. Count(Append(<<>>, curBuf), {b}) = Count(<<>>, {b}) + (IF curBuf \in {b} THEN 1 ELSE 0)
          BY <5>1, CountAppend
        <5>3. Count(<<>>, {b}) = 0
          BY CountEmpty
        <5> QED
          BY <5>1, <5>2, <5>3
      <4> QED
        BY <4>1, <4>2
    <3>2. active \o empty \in Seq(CamBufs)
      BY <2>t
    <3>3. Count(active \o empty, {b}) = Count(active, {b}) + Count(empty, {b})
      BY <2>t, CountConcat
    <3>4. Count(held, {b}) = Count(active \o empty, {b}) + Count(full, {b})
      <4>1. \A p \in Seq(CamBufs) : Count(p \o full, {b}) = Count(p, {b}) + Count(full, {b})
        BY <2>t, CountConcat
      <4> QED
        BY <3>2, <4>1
    <3> HIDE DEF held, handled
    <3>5. Count(all, {b}) = Count(held, {b}) + Count(handled, {b})
      BY <2>1, <2>2, CountConcat
    <3>6. Count(active, {b}) + Count(empty, {b}) + Count(full, {b}) + (IF curBuf = b THEN 1 ELSE 0) <= 1
      BY DEF FlowInv, BufInv, Holders, One
    <3> QED
      BY <3>1, <3>3, <3>4, <3>5, <3>6
  <2>5. \A i, j \in DOMAIN all : all[i] = all[j] => i = j
    <3> HIDE DEF all
    <3> QED
      BY <2>3, <2>4, CountOnce
  <2>6. CASE camPc \in {"display", "algo", "enqueue"}
    <3>1. Circulating = CAMERA_DEV_BUFFER_COUNT - 2 /\ curBuf # NoBuf
      BY <2>6 DEF FlowInv, BufInv, TypeInv, CamTypes
    <3>2. Len(handled) = 1
      BY <3>1
    <3>3. Len(held) = CAMERA_DEV_BUFFER_COUNT - 2
      BY <2>2, <3>1 DEF Circulating
    <3>4. Len(all) >= CAMERA_DEV_BUFFER_COUNT - 1
      <4> HIDE DEF all, held, handled
      <4> QED
        BY <2>3, <2>c, <3>2, <3>3
    <3> QED
      BY <2>5, <2>6, <3>4 DEF CameraBuffersKept
  <2>7. CASE camPc \notin {"display", "algo", "enqueue"}
    <3>1. Circulating >= CAMERA_DEV_BUFFER_COUNT - 1
      <4>1. CASE camPc = "idle"
        <5>1. Circulating = CAMERA_DEV_BUFFER_COUNT \/ Circulating = CAMERA_DEV_BUFFER_COUNT - 1
          BY <4>1 DEF FlowInv, TypeInv, CamTypes, BufInv
        <5> QED
          BY <2>c, <5>1
      <4>2. CASE camPc = "init"
        <5>1. active = <<>> /\ full = <<>> /\ empty = [i \in 1..CAMERA_DEV_BUFFER_COUNT |-> i]
          BY <4>2 DEF FlowInv, TypeInv, CamTypes, CamBufs
        <5>2. Len(active) = 0 /\ Len(full) = 0 /\ Len(empty) = CAMERA_DEV_BUFFER_COUNT
          BY <2>c, <5>1
        <5> QED
          BY <2>c, <5>2 DEF Circulating
      <4> QED
        BY <2>7, <4>1, <4>2 DEF FlowInv, TypeInv, CamTypes
    <3>2. Len(held) >= CAMERA_DEV_BUFFER_COUNT - 1
      BY <2>2, <3>1 DEF Circulating
    <3> QED
      BY <2>5, <2>7, <3>2 DEF CameraBuffersKept
  <2> QED
    BY <2>6, <2>7
<1> QED
  BY <1>1, FlowAlways, PTL

\* The queue of the camera task is bounded, whatever the order of steps.
THEOREM QueueBounded == Spec => []CameraQueueBounded
<1>1. FlowInv => CameraQueueBounded
  <2> SUFFICES ASSUME FlowInv PROVE CameraQueueBounded
    OBVIOUS
  <2> DEFINE t1 == Count(todo, {"RGB"})
             t2 == Count(todo, {"IR"})
             n  == IF newSet \/ dispPc = "init" THEN 1 ELSE 0
             two == IF Len(active) = 2 THEN 1 ELSE 0
             len == Len(camQ)
  <2>1. /\ len \in Nat /\ t1 \in Nat /\ t2 \in Nat /\ n \in Nat /\ two \in Nat /\ events \in Nat
        /\ len + t1 + t2 + n + two <= CAMERA_DEV_BUFFER_COUNT + 2 + 2 * events
    BY QueueBounds
  <2>2. CAMERA_DEV_BUFFER_COUNT \in Nat
    BY PipelineAssumption
  <2> HIDE DEF t1, t2, n, two, len
  <2>3. len <= CAMERA_DEV_BUFFER_COUNT + 2 + 2 * events
    BY <2>1, <2>2
  <2> QED
    BY <2>3 DEF CameraQueueBounded, len
<1> QED
  BY <1>1, FlowAlways, PTL

\* As long as the queues have room for the algorithm's messages, a frame of the
\* algorithm is never lost between the tasks while it is not stopped, however
\* many events come.
THEOREM FramesPending == Spec /\ []AlgoRoom => []AlgoFramesPending
<1>1. Init => AlgoWaits
  <2> SUFFICES ASSUME Init PROVE AlgoWaits
    OBVIOUS
  <2> QED
    BY TokensInit DEF AlgoWaits
<1>2. FlowInv /\ AlgoRoom /\ AlgoWaits /\ [Next]_vars => AlgoWaits'
  <2> SUFFICES ASSUME FlowInv, AlgoRoom, AlgoWaits, [Next]_vars, "algo" \in Devices, ~stopped', NEW f \in Frames
               PROVE  AlgoTokens(f)' >= 1
    BY DEF AlgoWaits
  <2>1. TypeInv /\ TypeInv' /\ AlgoRoom
    BY TypeStep DEF FlowInv
  <2>2. ~stopped => AlgoTokens(f) >= 1
    BY DEF AlgoWaits
  <2>3. CASE Event
    <3>1. stopped' = stopped /\ AlgoTokens(f)' = AlgoTokens(f)
      BY <2>1, <2>3, EventFlow DEF Event, algo
    <3> QED
      BY <2>2, <3>1
  <2>4. CASE Next /\ ~Event
    <3>1. AlgoFlow(f)
      BY <2>1, <2>4, AlgoFlows
    <3> QED
      BY <2>1, <2>2, <3>1 DEF AlgoFlow
  <2>5. CASE UNCHANGED vars
    BY <2>2, <2>5 DEF vars, AlgoTokens
  <2> QED
    BY <2>3, <2>4, <2>5
<1>3. FlowInv /\ AlgoWaits => AlgoFramesPending
  <2> SUFFICES ASSUME FlowInv, AlgoWaits, "algo" \in Devices, ~stopped, NEW f \in Frames,
                      ~Pending(todo, f), ~Pending(camQ, AlgoReqMsg(f)), ~algoSlot[f],
                      ~Pending(algoQ, AlgoRespMsg(f)), ~ready[f]
               PROVE  FALSE
    BY DEF AlgoFramesPending
  <2>1. camQ \in Seq(CamMsgs) /\ algoQ \in Seq(AlgoMsgs) /\ todo \in Seq(Frames)
    BY DEF FlowInv, TypeInv, CamTypes, AlgoTypes
  <2>2. /\ Count(todo, {f}) \in Nat /\ Count(camQ, {AlgoReqMsg(f)}) \in Nat /\ Count(algoQ, {AlgoRespMsg(f)}) \in Nat
    BY <2>1, Positions
  <2>3. ~(Count(todo, {f}) > 0) /\ ~(Count(camQ, {AlgoReqMsg(f)}) > 0) /\ ~(Count(algoQ, {AlgoRespMsg(f)}) > 0)
    BY <2>1, CountPending
  <2>4. AlgoTokens(f) = 0
    BY <2>2, <2>3 DEF AlgoTokens, One
  <2> QED
    BY <2>4 DEF AlgoWaits
<1> QED
  BY <1>1, <1>2, <1>3, FlowAlways, PTL DEF Spec

\* As long as the queues have room for the display's messages, it keeps its place
\* in the cycle of requests and responses once a frame has reached the LCD
\* driver.
THEOREM DisplayKept == Spec /\ []DispRoom => DisplayStaysPending
<1>1. DispRoom /\ FlowInv /\ FlowInv' /\ [Next]_vars => [current # NoBuf /\ DisplayPending => DisplayPending']_vars
  <2> SUFFICES ASSUME DispRoom, FlowInv, FlowInv', Next, current # NoBuf, DisplayPending
               PROVE  DisplayPending'
    OBVIOUS
  <2> DEFINE d == DispReqMsg
             p == DispRespMsg
  <2>q. /\ camQ \in Seq(CamMsgs) /\ camQ' \in Seq(CamMsgs)
        /\ dispQ \in Seq(DispMsgs) /\ dispQ' \in Seq(DispMsgs)
    BY DEF FlowInv, TypeInv, CamTypes, DispTypes
  <2>n. /\ Count(camQ, {d}) \in Nat /\ Count(camQ', {d}) \in Nat
        /\ Count(dispQ, {p}) \in Nat /\ Count(dispQ', {p}) \in Nat
    BY <2>q, Positions
  <2>a. DisplayPending <=> \/ dispPc = "init" \/ Count(camQ, {d}) > 0 \/ dispSlot.data # NoBuf
                           \/ Count(dispQ, {p}) > 0 \/ newSet
    <3>1. (Pending(camQ, d) <=> Count(camQ, {d}) > 0) /\ (Pending(dispQ, p) <=> Count(dispQ, {p}) > 0)
      BY <2>q, CountPending
    <3> QED
      BY <3>1 DEF DisplayPending
  <2>b. DisplayPending' <=> \/ dispPc' = "init" \/ Count(camQ', {d}) > 0 \/ dispSlot'.data # NoBuf
                            \/ Count(dispQ', {p}) > 0 \/ newSet'
    <3>1. (Pending(camQ', d) <=> Count(camQ', {d}) > 0) /\ (Pending(dispQ', p) <=> Count(dispQ', {p}) > 0)
      BY <2>q, CountPending
    <3> QED
      BY <3>1 DEF DisplayPending
  <2>m. /\ d \in CamMsgs /\ Dequeue \in CamMsgs /\ Exposure \in CamMsgs /\ Dequeue # d /\ Exposure # d
        /\ p \in DispMsgs /\ p \notin Sources
        /\ \A f \in Frames : AlgoReqMsg(f) \in CamMsgs /\ AlgoReqMsg(f) # d
    BY MsgFacts
  <2> HIDE DEF d, p
  \* A step that takes away none of it.
  <2>1. ASSUME Count(camQ', {d}) >= Count(camQ, {d}), Count(dispQ', {p}) >= Count(dispQ, {p}),
               dispPc = "init" => dispPc' = "init", dispSlot' = dispSlot, newSet => newSet'
        PROVE  DisplayPending'
    BY <2>1, <2>a, <2>b, <2>n
  <2>2. ASSUME NEW m \in CamMsgs, camQ' = Put(camQ, m)
        PROVE  Count(camQ', {d}) >= Count(camQ, {d})
    BY <2>2, <2>q, CountPut
  <2>3. ASSUME camQ # <<>>, camQ' = Tail(camQ), Head(camQ) # d
        PROVE  Count(camQ', {d}) >= Count(camQ, {d})
    <3>1. Count(camQ', {d}) = Count(camQ, {d})
      BY <2>3, <2>q, TakeOther
    <3> QED
      BY <2>n, <3>1
  <2>4. ASSUME UNCHANGED camQ
        PROVE  Count(camQ', {d}) >= Count(camQ, {d})
    BY <2>4, <2>n
  <2>5. ASSUME UNCHANGED dispQ
        PROVE  Count(dispQ', {p}) >= Count(dispQ, {p})
    BY <2>5, <2>n
  <2>6. CASE CsiFrameDone
    <3>1. camQ' = camQ \/ camQ' = Put(camQ, Dequeue)
      BY <2>6 DEF CsiFrameDone
    <3>2. Count(camQ', {d}) >= Count(camQ, {d})
      BY <2>2, <2>4, <2>m, <3>1
    <3> QED
      BY <2>1, <2>5, <2>6, <3>2 DEF CsiFrameDone, cam, disp
  <2>7. CASE LcdFrameDone
    <3>1. CASE newSet
      <4>1. camQ' = Put(camQ, d) /\ Len(camQ) < QUEUE_LENGTH
        BY <2>7, <3>1 DEF LcdFrameDone, DispRoom, d
      <4>2. d \in {d}
        OBVIOUS
      <4>3. Count(camQ', {d}) = Count(camQ, {d}) + 1
        BY <2>m, <2>q, <4>1, <4>2, PutOne
      <4> QED
        BY <2>b, <2>n, <4>3
    <3>2. CASE ~newSet
      <4>1. UNCHANGED <<camQ, dispQ, dispPc, dispSlot>>
        BY <2>7, <3>2 DEF LcdFrameDone, cam
      <4> QED
        BY <2>1, <2>4, <2>5, <3>2, <4>1
    <3> QED
      BY <3>1, <3>2
  <2>8. CASE CamDisplayRequest
    <3>1. camQ # <<>> /\ Head(camQ) = d
      BY <2>8 DEF CamDisplayRequest, d
    <3>2. Count(camQ, {d}) > 0
      <4>1. Pending(camQ, d)
        BY <2>q, <3>1 DEF Pending
      <4> QED
        BY <2>q, <4>1, CountPending
    <3>3. dispReq.data # NoBuf
      BY <3>2 DEF FlowInv, TypeInv, DispTypes, d
    <3>4. dispSlot'.data # NoBuf
      BY <2>8, <3>3 DEF CamDisplayRequest
    <3> QED
      BY <2>b, <3>4
  <2>9. ASSUME NEW f \in Frames, CamAlgoRequest(f)
        PROVE  DisplayPending'
    <3>1. camQ # <<>> /\ camQ' = Tail(camQ) /\ Head(camQ) # d
      BY <2>9, <2>m DEF CamAlgoRequest
    <3> QED
      BY <2>1, <2>3, <2>5, <2>9, <3>1 DEF CamAlgoRequest, disp
  <2>10. CASE CamNotify
    <3>1. camQ # <<>> /\ camQ' = Tail(camQ) /\ Head(camQ) \in CamMsgs /\ Head(camQ).id = "InputNotify"
      BY <2>10, <2>q DEF CamNotify
    <3>2. Head(camQ) # d
      BY <2>m, <3>1, MsgFacts
    <3> QED
      BY <2>1, <2>3, <2>5, <2>10, <3>1, <3>2 DEF CamNotify, cam, disp
  <2>11. CASE CamDequeue
    <3>1. camQ # <<>> /\ camQ' = Tail(camQ) /\ Head(camQ) # d
      BY <2>11, <2>m DEF CamDequeue
    <3> QED
      BY <2>1, <2>3, <2>5, <2>11, <3>1 DEF CamDequeue, disp
  <2>12. CASE CamDisplayResponse
    <3>1. CASE dispSlot.data # NoBuf /\ dispSlot.src = msg.format
      <4>1. dispQ' = Put(dispQ, p) /\ Len(dispQ) < QUEUE_LENGTH
        BY <2>12, <3>1 DEF CamDisplayResponse, DispRoom, p
      <4>2. p \in {p}
        OBVIOUS
      <4>3. Count(dispQ', {p}) = Count(dispQ, {p}) + 1
        BY <2>m, <2>q, <4>1, <4>2, PutOne
      <4> QED
        BY <2>b, <2>n, <4>3
    <3>2. CASE ~(dispSlot.data # NoBuf /\ dispSlot.src = msg.format)
      BY <2>1, <2>4, <2>5, <2>12, <3>2 DEF CamDisplayResponse, disp
    <3> QED
      BY <3>1, <3>2
  <2>13. CASE CamStart \/ CamAlgoResponse \/ CamEnqueue
    BY <2>1, <2>4, <2>5, <2>13 DEF CamStart, CamAlgoResponse, CamEnqueue, disp
  <2>14. CASE DispStart
    <3>1. camQ' = Put(camQ, d) /\ Len(camQ) < QUEUE_LENGTH
      BY <2>14 DEF DispStart, DispRoom, d
    <3>2. d \in {d}
      OBVIOUS
    <3>3. Count(camQ', {d}) = Count(camQ, {d}) + 1
      BY <2>m, <2>q, <3>1, <3>2, PutOne
    <3> QED
      BY <2>b, <2>n, <3>3
  <2>15. CASE DispBlitFlag \/ DispSetFlag
    <3>1. newSet' = TRUE
      BY <2>15 DEF DispBlitFlag, DispSetFlag
    <3> QED
      BY <2>b, <3>1
  <2>16. CASE DispBlitCurrent \/ DispBlitNext
    BY <2>1, <2>4, <2>5, <2>16 DEF DispBlitCurrent, DispBlitNext, cam
  <2>17. CASE DispSetFormat
    <3>1. dispQ # <<>> /\ dispQ' = Tail(dispQ) /\ Head(dispQ) \in DispMsgs /\ Head(dispQ).id = "SetSource"
      BY <2>17, <2>q DEF DispSetFormat
    <3>2. Head(dispQ) \notin {p}
      BY <2>m, <3>1, MsgFacts
    <3>3. Count(dispQ', {p}) = Count(dispQ, {p})
      BY <2>q, <3>1, <3>2, TakeOther
    <3>4. Count(dispQ', {p}) >= Count(dispQ, {p})
      BY <2>n, <3>3
    <3> QED
      BY <2>1, <2>4, <2>17, <3>4 DEF DispSetFormat, cam
  <2>18. CASE AlgoRequest
    <3>1. camQ' = Put(camQ, AlgoReqMsg(Head(todo))) /\ Head(todo) \in Frames
      BY <2>18 DEF AlgoRequest, FlowInv, TypeInv, AlgoTypes
    <3>2. Count(camQ', {d}) >= Count(camQ, {d})
      BY <2>2, <2>m, <3>1
    <3> QED
      BY <2>1, <2>5, <2>18, <3>2 DEF AlgoRequest, cam, disp
  <2>19. CASE (\E f \in Frames : AlgoResponse(f)) \/ AlgoRunEnd \/ AlgoNotify
    BY <2>1, <2>4, <2>5, <2>19 DEF AlgoResponse, AlgoRunEnd, AlgoNotify, cam, disp
  <2>20. CASE Event
    <3>1. UNCHANGED <<dispPc, dispSlot, newSet>>
      BY <2>20 DEF Event, cam, disp
    <3>2. CASE SendNotify
      <4>1. camQ' = Put(camQ, Exposure) /\ dispQ' = dispQ
        BY <3>2 DEF SendNotify, Exposure
      <4> QED
        BY <2>1, <2>2, <2>5, <2>m, <3>1, <4>1
    <3>3. ASSUME NEW f \in Frames, SendSetSource(f)
          PROVE  DisplayPending'
      <4>1. dispQ' = Put(dispQ, Msg("SetSource", f)) /\ camQ' = camQ /\ Msg("SetSource", f) \in DispMsgs
        BY <3>3, MsgFacts DEF SendSetSource
      <4>2. Count(dispQ', {p}) >= Count(dispQ, {p})
        BY <2>q, <4>1, CountPut
      <4> QED
        BY <2>1, <2>4, <3>1, <4>1, <4>2
    <3>4. ASSUME NEW e \in OasisEvents, SendOasisEvent(e)
          PROVE  DisplayPending'
      BY <2>1, <2>4, <2>5, <3>1, <3>4 DEF SendOasisEvent
    <3> QED
      BY <2>20, <3>2, <3>3, <3>4 DEF Event, OasisEvents
  <2> QED
    BY <2>6, <2>7, <2>8, <2>9, <2>10, <2>11, <2>12, <2>13, <2>14, <2>15, <2>16, <2>17, <2>18,
       <2>19, <2>20
    DEF Next, CamStep, DispStep, AlgoStep
<1> QED
  BY <1>1, FlowAlways, PTL DEF Spec, DisplayStaysPending
=============================================================================
