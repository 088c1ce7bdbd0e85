---------------------------- MODULE EventDispatch ----------------------------
(***************************************************************************)
(* How an event gets from an input device to the tasks that act on it.     *)
(* The callback of the input manager, called from an interrupt, the timer  *)
(* task or the shell, fills the one message the manager keeps for the      *)
(* device and queues a pointer to it.  The input task forwards the event   *)
(* to the receivers: a message of its own from the heap for each, with a   *)
(* copy of the event (shell) or a pointer to it (push buttons, Bluetooth). *)
(* The callbacks of the vision algorithm and of the output manager post    *)
(* such messages too.  A receiver handles a message and frees it.          *)
(*                                                                         *)
(* core/fwk_input_manager.c, core/fwk_output_manager.c,                    *)
(* core/fwk_vision_algo_manager.c, core/fwk_message.c,                     *)
(* hal/input/hal_input_push_buttons_viznlc.c.                              *)
(*                                                                         *)
(* The Bluetooth task has a higher priority than the input task, and the   *)
(* input task a higher one than its receivers; the algorithm task has the  *)
(* lowest, and an inference takes long.  The model lets the steps of the   *)
(* tasks interleave freely.                                                *)
(***************************************************************************)
EXTENDS Naturals, Sequences, FiniteSets

CONSTANTS QUEUE_LENGTH,  \* mainQUEUE_LENGTH, the length of every queue
          MaxEvents,     \* how many events the devices send
          MaxPosts,      \* how many messages the managers' callbacks post
          MallocFails    \* may FWK_MALLOC return NULL?

VARIABLES button,      \* ready, a long press timed out, released late, blocked
          sent,        \* the number of events of each device
          event,       \* the device's static event: the number of its data
          msgs,        \* the receiver list in the device's static message
          inputQueue,  \* pointers to messages: the devices, as they called
          input,       \* the input task: the device and receivers left
          queue,       \* the queues of the receivers
          seen,        \* the event each receiver was given last, by device
          missed,      \* <<d, t>>: no room or memory for the newest event of d
          allocated,   \* the blocks in use on the heap
          lost,        \* the blocks of messages that no queue took
          posts        \* the messages posted by callbacks

vars == <<button, sent, event, msgs, inputQueue, input, queue, seen, missed,
          allocated, lost, posts>>

ASSUME DispatchAssumption ==
  /\ QUEUE_LENGTH \in Nat \ {0}
  /\ MaxEvents \in Nat /\ MaxPosts \in Nat
  /\ MallocFails \in BOOLEAN

Devices == {"buttons", "ble", "shell"}

Tasks == {"VisionAlgo", "Output"}

\* The camera task is sent the overlays that the user interface draws.
Queues == Tasks \union {"Camera"}

\* The receiver lists of the packets of the phone that make an event.
BleReceiverLists == { {"VisionAlgo"}, {"VisionAlgo", "Output"}, {"Output"} }

\* The receiver lists of the events of a device: the two buttons (their HAL
\* gives them the identifiers 1 and 2, which the handler calls switches 2 and
\* 3), the packets of the phone, the commands of the shell.
ReceiverLists(d) ==
  CASE d = "buttons" -> { {"VisionAlgo", "Output"}, {"VisionAlgo"} }
    [] d = "ble" -> BleReceiverLists
    [] d = "shell" -> { {"VisionAlgo"}, {"Output"} }

\* The receivers of a list in the order of their task identifiers.
TaskOrder(r) == (IF "VisionAlgo" \in r THEN << "VisionAlgo" >> ELSE <<>>)
                \o (IF "Output" \in r THEN << "Output" >> ELSE <<>>)

\* Does the device ask for a copy of the event?
Copy(d) == d = "shell"

\* A message for a task: where it comes from (a device, or what a manager
\* reports), and the number of the event in the copied data, or 0 for a
\* pointer to the device's event or to a surface.
Message(d, n) == [dev |-> d, data |-> n]
Blocks(m) == IF m.data = 0 THEN 1 ELSE 2

\* The events sent by all the devices.
Total == sent["buttons"] + sent["ble"] + sent["shell"]

Init ==
  /\ button = "ready"
  /\ sent = [d \in Devices |-> 0]
  /\ event = [d \in Devices |-> 0]
  /\ msgs = [d \in Devices |-> {}]
  /\ inputQueue = <<>>
  /\ input = [dev |-> "buttons", rest |-> <<>>]
  /\ queue = [t \in Queues |-> <<>>]
  /\ seen = [t \in Tasks |-> [d \in Devices |-> 0]]
  /\ missed = {}
  /\ allocated = 0 /\ lost = 0 /\ posts = 0

-----------------------------------------------------------------------------
\* What follows an event of a button.  Its release (interrupt) or the timeout
\* of a long press (timer task) disables the interrupts of all buttons until
\* the blocking timer.  The timer callback has read the pin before it disables
\* them, so that the release may still be sent first, and its event too.
ButtonAfter == [ready |-> {"blocked"}, timeout |-> {"blocked", "late"},
                late |-> {"blocked"}, blocked |-> {}]

\* _ReleaseTimerCallback finds the button pressed.
LongPressTimeout ==
  /\ button = "ready"
  /\ button' = "timeout"
  /\ UNCHANGED <<sent, event, msgs, inputQueue, input, queue, seen, missed,
                 allocated, lost, posts>>

\* _BlockingTimerCallback enables the interrupts of the buttons again.
BlockingTimeout ==
  /\ button = "blocked"
  /\ button' = "ready"
  /\ UNCHANGED <<sent, event, msgs, inputQueue, input, queue, seen, missed,
                 allocated, lost, posts>>

\* Mutant: a full queue grows.
DeviceCallbackUnbounded(d) ==
  /\ button' \in IF d = "buttons" THEN ButtonAfter[button] ELSE {button}
  /\ Total < MaxEvents
  /\ sent' = [sent EXCEPT ![d] = @ + 1]
  /\ event' = [event EXCEPT ![d] = sent'[d]]
  /\ \E r \in ReceiverLists(d) : msgs' = [msgs EXCEPT ![d] = r]
  /\ inputQueue' = Append(inputQueue, d)
  /\ UNCHANGED <<input, queue, seen, missed, allocated, lost, posts>>

\* A device has an event: it fills its static event, and the callback of the
\* input manager fills the device's message and queues it.  A message that is
\* still queued is overwritten.
DeviceCallback(d) ==
  /\ button' \in IF d = "buttons" THEN ButtonAfter[button] ELSE {button}
  /\ Total < MaxEvents
  /\ sent' = [sent EXCEPT ![d] = @ + 1]
  /\ event' = [event EXCEPT ![d] = sent'[d]]
  /\ \E r \in ReceiverLists(d) :
       /\ msgs' = [msgs EXCEPT ![d] = r]
       /\ LET older == missed \ ({d} \X Tasks) IN
          IF Len(inputQueue) < QUEUE_LENGTH
          THEN inputQueue' = Append(inputQueue, d) /\ missed' = older
          ELSE missed' = older \union ({d} \X r) /\ UNCHANGED inputQueue
  /\ UNCHANGED <<input, queue, seen, allocated, lost, posts>>

\* The input task takes a message and reads its receiver list.
InputReceive ==
  /\ input.rest = <<>>
  /\ inputQueue # <<>>
  /\ LET d == Head(inputQueue) IN
     input' = [dev |-> d, rest |-> TaskOrder(msgs[d])]
  /\ inputQueue' = Tail(inputQueue)
  /\ UNCHANGED <<button, sent, event, msgs, queue, seen, missed, allocated,
                 lost, posts>>

\* Mutant: a message is put in front of the queue.
MessagePutToFront(q, t, m) ==
  IF Len(q[t]) < QUEUE_LENGTH
  THEN queue' = [q EXCEPT ![t] = << m >> \o @] /\ UNCHANGED lost
  ELSE queue' = q /\ lost' = lost + Blocks(m)

\* FWK_Message_Put, with the queues as they are in q: nobody looks at its
\* result, so that what a full queue does not take stays allocated.  Its early
\* return is for messages from another core, of which there is none, and for
\* a task without a queue: those that are sent messages here have one.
MessagePut(q, t, m) ==
  IF Len(q[t]) < QUEUE_LENGTH
  THEN queue' = [q EXCEPT ![t] = Append(@, m)] /\ UNCHANGED lost
  ELSE queue' = q /\ lost' = lost + Blocks(m)

\* The outcomes of the one or two calls of FWK_MALLOC for a message.
Mallocs == IF MallocFails THEN BOOLEAN ELSE {TRUE}

\* Mutant: when there is no memory for the copy, the message is not freed.
InputForwardLeaks ==
  /\ input.rest # <<>>
  /\ LET d == input.dev
         t == Head(input.rest)
         m == Message(d, IF Copy(d) THEN event[d] ELSE 0) IN
     \E ok \in Mallocs :
       IF ok
       THEN /\ MessagePut(queue, t, m)
            /\ allocated' = allocated + Blocks(m)
            /\ missed' = IF Len(queue[t]) < QUEUE_LENGTH THEN missed
                         ELSE missed \union { <<d, t>> }
       ELSE /\ missed' = missed \union { <<d, t>> }
            /\ allocated' = allocated + Blocks(m) - 1
            /\ UNCHANGED <<queue, lost>>
  /\ input' = [input EXCEPT !.rest = Tail(@)]
  /\ UNCHANGED <<button, sent, event, msgs, inputQueue, seen, posts>>

\* Mutant: the input task stops at the first receiver.
InputForwardFirst ==
  /\ input.rest # <<>>
  /\ LET d == input.dev
         m == Message(d, IF Copy(d) THEN event[d] ELSE 0) IN
     /\ MessagePut(queue, Head(input.rest), m)
     /\ allocated' = allocated + Blocks(m)
  /\ input' = [input EXCEPT !.rest = <<>>]
  /\ UNCHANGED <<button, sent, event, msgs, inputQueue, seen, missed, posts>>

\* The input task forwards the event to the next receiver.
InputForward ==
  /\ input.rest # <<>>
  /\ LET d == input.dev
         t == Head(input.rest)
         m == Message(d, IF Copy(d) THEN event[d] ELSE 0) IN
     \E ok \in Mallocs :
       IF ok
       THEN /\ MessagePut(queue, t, m)
            /\ allocated' = allocated + Blocks(m)
            /\ missed' = IF Len(queue[t]) < QUEUE_LENGTH THEN missed
                         ELSE missed \union { <<d, t>> }
       ELSE /\ missed' = missed \union { <<d, t>> }
            /\ UNCHANGED <<queue, lost, allocated>>
  /\ input' = [input EXCEPT !.rest = Tail(@)]
  /\ UNCHANGED <<button, sent, event, msgs, inputQueue, seen, posts>>

\* The callbacks of the vision algorithm manager (a result for the output task)
\* and of the output manager (a notification for either task): a copy.
ManagerCallback(t, what) ==
  /\ posts < MaxPosts
  /\ what = "result" => t = "Output"
  /\ posts' = posts + 1
  /\ \E ok \in Mallocs :
       IF ok
       THEN /\ MessagePut(queue, t, Message(what, 1))
            /\ allocated' = allocated + 2
       ELSE UNCHANGED <<queue, lost, allocated>>
  /\ UNCHANGED <<button, sent, event, msgs, inputQueue, input, seen, missed>>

\* A task hands a message to its devices or handlers, then frees the data, if
\* copied, and the message (_fwk_task_proc).  A result that the user interface
\* has drawn is followed by a message to the camera task, memory permitting.
\* The output task drops results once it was told of sleep (s_SleepModeIsOn):
\* only a low power device tells it, and none is registered.
MessageHandle(t) ==
  /\ queue[t] # <<>>
  /\ LET m == Head(queue[t])
         rest == [queue EXCEPT ![t] = Tail(@)] IN
     /\ seen' = IF m.dev \notin Devices THEN seen
                ELSE [seen EXCEPT ![t][m.dev] =
                        IF m.data = 0 THEN event[m.dev] ELSE m.data]
     /\ \/ /\ queue' = rest
           /\ allocated' = allocated - Blocks(m)
           /\ UNCHANGED lost
        \/ /\ m.dev = "result"
           /\ MessagePut(rest, "Camera", Message("overlay", 0))
           /\ allocated' = allocated - Blocks(m) + 1
  /\ UNCHANGED <<button, sent, event, msgs, inputQueue, input, missed, posts>>

Next ==
  \/ LongPressTimeout \/ BlockingTimeout
  \/ \E d \in Devices : DeviceCallback(d)
  \/ InputReceive \/ InputForward
  \/ \E t \in Tasks, what \in {"result", "notify"} : ManagerCallback(t, what)
  \/ \E t \in Queues : MessageHandle(t)

Spec == Init /\ [][Next]_vars

\* The tasks run (_fwk_task_proc waits for messages for ever); nothing is
\* assumed of the devices.
FairSpec == /\ Spec
            /\ WF_vars(InputReceive \/ InputForward)
            /\ \A t \in Queues : WF_vars(MessageHandle(t))

-----------------------------------------------------------------------------
(* Properties.                                                              *)

Senders == Devices \union {"result", "notify", "overlay"}
Messages == [dev : Senders, data : Nat]

\* Every variable has its type, and no queue is longer than its storage.
TypeOK ==
  /\ button \in DOMAIN ButtonAfter
  /\ sent \in [Devices -> 0..MaxEvents] /\ event \in [Devices -> 0..MaxEvents]
  /\ msgs \in [Devices -> SUBSET Tasks]
  /\ inputQueue \in Seq(Devices) /\ Len(inputQueue) <= QUEUE_LENGTH
  /\ input \in [dev : Devices, rest : Seq(Tasks)]
  /\ queue \in [Queues -> Seq(Messages)]
  /\ \A t \in Queues : Len(queue[t]) <= QUEUE_LENGTH
  /\ seen \in [Tasks -> [Devices -> 0..MaxEvents]]
  /\ missed \subseteq Devices \X Tasks
  /\ allocated \in Nat /\ lost \in Nat /\ posts \in 0..MaxPosts

\* The blocks of the messages in a queue: one each, and one for copied data.
Owned(q) == Len(q) + Cardinality({i \in DOMAIN q : q[i].data # 0})

\* Every block on the heap belongs to a message that is still queued, or to
\* one that a full queue did not take: a handler or an error path neither
\* forgets a block nor frees one twice.
EveryBlockOwned ==
  allocated = lost + Owned(queue["VisionAlgo"]) + Owned(queue["Output"])
                   + Owned(queue["Camera"])

\* A receiver never acts on an older event of a device after a newer one, be
\* the data copied or shared.
NewestLast ==
  [][\A t \in Tasks, d \in Devices : seen'[t][d] >= seen[t][d]]_vars

\* The last event of a device reaches each of its receivers, though the one
\* message of the device may be filled while it is queued or being forwarded,
\* unless there was no room or memory (which is logged): when the devices fall
\* silent, as they do after MaxEvents events at the latest, every receiver has
\* in the end been given the newest event that is for it.
LastEventArrives ==
  <>[](\A d \in Devices : \A t \in msgs[d] :
         seen[t][d] = sent[d] \/ <<d, t>> \in missed)
=============================================================================
