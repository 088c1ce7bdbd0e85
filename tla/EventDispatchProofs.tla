------------------------- MODULE EventDispatchProofs -------------------------
(***************************************************************************)
(* The dispatch of events, proved for any length of the queues, any number *)
(* of events and posted messages, and with or without failing allocations: *)
(* the types, the ownership of the heap blocks, and the order in which a   *)
(* receiver sees the events of a device.                                   *)
(***************************************************************************)
EXTENDS EventDispatch, QueueCounting

\* The messages that carry a copy of their data: they own a second block.
Copied == {m \in Messages : m.data # 0}

\* What is pending at the input task about a device that asks for a copy was
\* filled by an event: a copy never has the number 0 of "no event yet".
EventsFilled ==
  \A d \in Devices : Copy(d) =>
    /\ \A i \in DOMAIN inputQueue : inputQueue[i] = d => event[d] > 0
    /\ input.dev = d /\ input.rest # <<>> => event[d] > 0

\* A receiver has seen no more than the newest event, and the copies that wait
\* for it are not older than what it has seen, nor newer than the newest.
NothingOlder ==
  /\ \A d \in Devices : event[d] <= sent[d]
  /\ \A t \in Tasks, d \in Devices : seen[t][d] <= event[d]
  /\ \A t \in Tasks : \A i \in DOMAIN queue[t] :
       LET m == queue[t][i] IN
       m.dev \in Devices =>
         /\ m.data = 0 <=> ~Copy(m.dev)
         /\ Copy(m.dev) => seen[t][m.dev] <= m.data /\ m.data <= event[m.dev]
  /\ \A i \in DOMAIN queue["Camera"] : queue["Camera"][i].dev \notin Devices

\* Copies of the events of a device wait in the order of the events.
CopiesInOrder ==
  \A t \in Tasks : \A i, j \in DOMAIN queue[t] :
    /\ i < j
    /\ queue[t][i].dev = queue[t][j].dev
    /\ queue[t][i].dev \in Devices
    => queue[t][i].data <= queue[t][j].data

-----------------------------------------------------------------------------
(* Types.                                                                  *)

\* A message is one, with its blocks.
LEMMA MessageFacts ==
  ASSUME NEW d \in Senders, NEW n \in Nat
  PROVE  /\ Message(d, n) \in Messages
         /\ Message(d, n).dev = d /\ Message(d, n).data = n
         /\ Blocks(Message(d, n)) = IF n = 0 THEN 1 ELSE 2
BY DEF Message, Messages, Blocks

\* The receivers of a list are tasks.
LEMMA TaskOrderSeq ==
  ASSUME NEW r \in SUBSET Tasks
  PROVE  TaskOrder(r) \in Seq(Tasks)
<1>1. << "VisionAlgo" >> \in Seq(Tasks) /\ << "Output" >> \in Seq(Tasks)
      /\ <<>> \in Seq(Tasks)
  BY DEF Tasks
<1>2. \A a, b \in Seq(Tasks) : a \o b \in Seq(Tasks)
  OBVIOUS
<1> QED
  BY <1>1, <1>2, Zenon DEF TaskOrder

\* What FWK_Message_Put leaves behind: one queue is longer by the message, or
\* nothing but the count of lost blocks has changed.
LEMMA PutFacts ==
  ASSUME NEW q \in [Queues -> Seq(Messages)], NEW t \in Queues, NEW m \in Messages,
         \A u \in Queues : Len(q[u]) <= QUEUE_LENGTH,
         lost \in Nat, MessagePut(q, t, m)
  PROVE  /\ queue' \in [Queues -> Seq(Messages)]
         /\ \A u \in Queues : Len(queue'[u]) <= QUEUE_LENGTH
         /\ lost' \in Nat
         /\ \A u \in Queues : u # t => queue'[u] = q[u]
         /\ \/ queue'[t] = Append(q[t], m) /\ lost' = lost
            \/ queue'[t] = q[t] /\ lost' = lost + Blocks(m)
<1>1. QUEUE_LENGTH \in Nat /\ Blocks(m) \in Nat
  BY DispatchAssumption DEF Blocks
<1>2. CASE Len(q[t]) < QUEUE_LENGTH
  <2>1. queue' = [q EXCEPT ![t] = Append(@, m)] /\ lost' = lost
    BY <1>2 DEF MessagePut
  <2>2. q[t] \in Seq(Messages)
    OBVIOUS
  <2>3. Append(q[t], m) \in Seq(Messages) /\ Len(Append(q[t], m)) = Len(q[t]) + 1
        /\ Len(q[t]) \in Nat
    BY <2>2
  <2>4. queue'[t] = Append(q[t], m) /\ \A u \in Queues : u # t => queue'[u] = q[u]
    BY <2>1
  <2>5. queue' \in [Queues -> Seq(Messages)]
    BY <2>1, <2>3
  <2>6. \A u \in Queues : Len(queue'[u]) <= QUEUE_LENGTH
    BY <1>1, <1>2, <2>3, <2>4
  <2> QED
    BY <2>1, <2>4, <2>5, <2>6
<1>3. CASE ~(Len(q[t]) < QUEUE_LENGTH)
  BY <1>1, <1>3 DEF MessagePut
<1> QED
  BY <1>2, <1>3

\* What taking a message from a queue leaves behind.
LEMMA TakeFacts ==
  ASSUME TypeOK, NEW t \in Queues, queue[t] # <<>>
  PROVE  LET rest == [queue EXCEPT ![t] = Tail(@)] IN
         /\ rest \in [Queues -> Seq(Messages)]
         /\ \A u \in Queues : Len(rest[u]) <= QUEUE_LENGTH
         /\ rest[t] = Tail(queue[t])
         /\ \A u \in Queues : u # t => rest[u] = queue[u]
         /\ Head(queue[t]) \in Messages
<1> DEFINE rest == [queue EXCEPT ![t] = Tail(@)]
<1>1. /\ queue \in [Queues -> Seq(Messages)] /\ QUEUE_LENGTH \in Nat
      /\ \A u \in Queues : Len(queue[u]) <= QUEUE_LENGTH
  BY DispatchAssumption DEF TypeOK
<1>2. queue[t] \in Seq(Messages)
  BY <1>1
<1>3. /\ Tail(queue[t]) \in Seq(Messages) /\ Head(queue[t]) \in Messages
      /\ Len(Tail(queue[t])) = Len(queue[t]) - 1 /\ Len(queue[t]) \in Nat
  BY <1>2
<1>4. rest[t] = Tail(queue[t]) /\ \A u \in Queues : u # t => rest[u] = queue[u]
  BY <1>1
<1>5. rest \in [Queues -> Seq(Messages)]
  BY <1>1, <1>3
<1>6. \A u \in Queues : Len(rest[u]) <= QUEUE_LENGTH
  BY <1>1, <1>3, <1>4
<1> QED
  BY <1>3, <1>4, <1>5, <1>6

-----------------------------------------------------------------------------
(* The heap.                                                               *)

\* The blocks of a queue are those of its messages and of their copied data.
LEMMA OwnedCount ==
  ASSUME NEW q \in Seq(Messages)
  PROVE  Owned(q) = Len(q) + Count(q, Copied) /\ Owned(q) \in Nat
<1>1. {i \in DOMAIN q : q[i].data # 0} = {i \in DOMAIN q : q[i] \in Copied}
  BY DEF Copied
<1>2. Count(q, Copied) \in Nat
  BY Positions
<1>3. Len(q) \in Nat
  OBVIOUS
<1>4. Owned(q) = Len(q) + Cardinality({i \in DOMAIN q : q[i].data # 0})
  BY DEF Owned
<1>5. Count(q, Copied) = Cardinality({i \in DOMAIN q : q[i].data # 0})
  BY <1>1, Zenon DEF Count
<1> QED
  BY <1>2, <1>3, <1>4, <1>5

\* A queued message adds its blocks.
LEMMA OwnedAppend ==
  ASSUME NEW q \in Seq(Messages), NEW m \in Messages
  PROVE  Owned(Append(q, m)) = Owned(q) + Blocks(m)
<1>1. Append(q, m) \in Seq(Messages) /\ Len(Append(q, m)) = Len(q) + 1 /\ Len(q) \in Nat
  OBVIOUS
<1>2. Count(Append(q, m), Copied) = Count(q, Copied) + (IF m \in Copied THEN 1 ELSE 0)
  BY CountAppend
<1>3. Blocks(m) = 1 + (IF m \in Copied THEN 1 ELSE 0)
  BY DEF Blocks, Copied
<1>4. Count(q, Copied) \in Nat
  BY Positions
<1>5. /\ Owned(q) = Len(q) + Count(q, Copied)
      /\ Owned(Append(q, m)) = Len(Append(q, m)) + Count(Append(q, m), Copied)
  BY <1>1, OwnedCount
<1> QED
  BY <1>1, <1>2, <1>3, <1>4, <1>5

\* A message taken from a queue takes its blocks along.
LEMMA OwnedTail ==
  ASSUME NEW q \in Seq(Messages), q # <<>>
  PROVE  Owned(q) = Owned(Tail(q)) + Blocks(Head(q))
<1>1. /\ Tail(q) \in Seq(Messages) /\ Len(Tail(q)) = Len(q) - 1 /\ Len(q) \in Nat
      /\ Head(q) \in Messages
  OBVIOUS
<1>2. Count(Tail(q), Copied) = Count(q, Copied) - (IF Head(q) \in Copied THEN 1 ELSE 0)
  BY CountTail
<1>3. Blocks(Head(q)) = 1 + (IF Head(q) \in Copied THEN 1 ELSE 0)
  BY <1>1 DEF Blocks, Copied
<1>4. Count(q, Copied) \in Nat
  BY Positions
<1>5. /\ Owned(q) = Len(q) + Count(q, Copied)
      /\ Owned(Tail(q)) = Len(Tail(q)) + Count(Tail(q), Copied)
  BY <1>1, OwnedCount
<1> QED
  BY <1>1, <1>2, <1>3, <1>4, <1>5

\* The blocks of all queues.
AllOwned(q) == Owned(q["VisionAlgo"]) + Owned(q["Output"]) + Owned(q["Camera"])

\* When one queue changes, all the blocks change by as much as its own.
LEMMA AllOwnedChange ==
  ASSUME NEW q \in [Queues -> Seq(Messages)], NEW r \in [Queues -> Seq(Messages)],
         NEW t \in Queues, \A u \in Queues : u # t => r[u] = q[u]
  PROVE  /\ AllOwned(q) \in Nat /\ AllOwned(r) \in Nat
         /\ Owned(q[t]) \in Nat /\ Owned(r[t]) \in Nat
         /\ AllOwned(r) + Owned(q[t]) = AllOwned(q) + Owned(r[t])
         /\ AllOwned(q) >= Owned(q[t])
<1> DEFINE f == [u \in Queues |-> Owned(q[u])]
           g == [u \in Queues |-> Owned(r[u])]
<1>1. \A u \in Queues : Owned(q[u]) \in Nat /\ Owned(r[u]) \in Nat
  BY OwnedCount
<1>2. \A u \in Queues : u # t => Owned(r[u]) = Owned(q[u])
  OBVIOUS
<1>3. f \in [Queues -> Nat] /\ g \in [Queues -> Nat] /\ \A u \in Queues : u # t => g[u] = f[u]
  BY <1>1, <1>2
<1>4. /\ f[t] = Owned(q[t]) /\ g[t] = Owned(r[t])
      /\ AllOwned(q) = f["VisionAlgo"] + f["Output"] + f["Camera"]
      /\ AllOwned(r) = g["VisionAlgo"] + g["Output"] + g["Camera"]
  BY DEF AllOwned, Queues, Tasks
<1> HIDE DEF f, g
<1>5. t \in {"VisionAlgo", "Output", "Camera"} /\ Queues = {"VisionAlgo", "Output", "Camera"}
  BY DEF Queues, Tasks
<1>6. /\ f["VisionAlgo"] \in Nat /\ f["Output"] \in Nat /\ f["Camera"] \in Nat
      /\ g["VisionAlgo"] \in Nat /\ g["Output"] \in Nat /\ g["Camera"] \in Nat
  BY <1>3, <1>5
<1>a. ASSUME NEW x \in Nat, NEW y \in Nat, NEW z \in Nat, NEW w \in Nat
      PROVE  /\ x + y + z \in Nat /\ w + y + z \in Nat /\ x + y + z >= x
             /\ (w + y + z) + x = (x + y + z) + w
  OBVIOUS
<1>7. CASE t = "VisionAlgo"
  <2>1. g["Output"] = f["Output"] /\ g["Camera"] = f["Camera"]
    BY <1>3, <1>5, <1>7
  <2>2. AllOwned(q) = f[t] + f["Output"] + f["Camera"]
    BY <1>4, <1>6, <1>7
  <2>3. AllOwned(r) = g[t] + f["Output"] + f["Camera"]
    BY <1>4, <1>6, <1>7, <2>1
  <2>4. f[t] \in Nat /\ g[t] \in Nat /\ f["Output"] \in Nat /\ f["Camera"] \in Nat
    BY <1>3, <1>6
  <2>5. /\ AllOwned(q) \in Nat /\ AllOwned(r) \in Nat /\ AllOwned(q) >= f[t]
        /\ AllOwned(r) + f[t] = AllOwned(q) + g[t]
    BY <1>a, <2>2, <2>3, <2>4
  <2> QED
    BY <1>4, <2>4, <2>5
<1>8. CASE t = "Output"
  <2>1. g["VisionAlgo"] = f["VisionAlgo"] /\ g["Camera"] = f["Camera"]
    BY <1>3, <1>5, <1>8
  <2>2. AllOwned(q) = f[t] + f["VisionAlgo"] + f["Camera"]
    BY <1>4, <1>6, <1>8
  <2>3. AllOwned(r) = g[t] + f["VisionAlgo"] + f["Camera"]
    BY <1>4, <1>6, <1>8, <2>1
  <2>4. f[t] \in Nat /\ g[t] \in Nat /\ f["VisionAlgo"] \in Nat /\ f["Camera"] \in Nat
    BY <1>3, <1>6
  <2>5. /\ AllOwned(q) \in Nat /\ AllOwned(r) \in Nat /\ AllOwned(q) >= f[t]
        /\ AllOwned(r) + f[t] = AllOwned(q) + g[t]
    BY <1>a, <2>2, <2>3, <2>4
  <2> QED
    BY <1>4, <2>4, <2>5
<1>9. CASE t = "Camera"
  <2>1. g["VisionAlgo"] = f["VisionAlgo"] /\ g["Output"] = f["Output"]
    BY <1>3, <1>5, <1>9
  <2>2. AllOwned(q) = f[t] + f["VisionAlgo"] + f["Output"]
    BY <1>4, <1>6, <1>9
  <2>3. AllOwned(r) = g[t] + f["VisionAlgo"] + f["Output"]
    BY <1>4, <1>6, <1>9, <2>1
  <2>4. f[t] \in Nat /\ g[t] \in Nat /\ f["VisionAlgo"] \in Nat /\ f["Output"] \in Nat
    BY <1>3, <1>6
  <2>5. /\ AllOwned(q) \in Nat /\ AllOwned(r) \in Nat /\ AllOwned(q) >= f[t]
        /\ AllOwned(r) + f[t] = AllOwned(q) + g[t]
    BY <1>a, <2>2, <2>3, <2>4
  <2> QED
    BY <1>4, <2>4, <2>5
<1> QED
  BY <1>5, <1>7, <1>8, <1>9

\* A message put into a queue belongs to it or is lost.
LEMMA PutOwned ==
  ASSUME NEW q \in [Queues -> Seq(Messages)], NEW t \in Queues, NEW m \in Messages,
         \A u \in Queues : Len(q[u]) <= QUEUE_LENGTH,
         lost \in Nat, MessagePut(q, t, m)
  PROVE  lost' + AllOwned(queue') = lost + AllOwned(q) + Blocks(m)
<1>1. /\ queue' \in [Queues -> Seq(Messages)]
      /\ lost' \in Nat
      /\ \A u \in Queues : u # t => queue'[u] = q[u]
      /\ \/ queue'[t] = Append(q[t], m) /\ lost' = lost
         \/ queue'[t] = q[t] /\ lost' = lost + Blocks(m)
  BY PutFacts
<1>2. /\ AllOwned(q) \in Nat /\ AllOwned(queue') \in Nat
      /\ Owned(q[t]) \in Nat /\ Owned(queue'[t]) \in Nat
      /\ AllOwned(queue') + Owned(q[t]) = AllOwned(q) + Owned(queue'[t])
  BY <1>1, AllOwnedChange
<1>3. Blocks(m) \in Nat
  BY DEF Blocks
<1>4. CASE queue'[t] = Append(q[t], m) /\ lost' = lost
  <2>1. Owned(queue'[t]) = Owned(q[t]) + Blocks(m)
    BY <1>4, OwnedAppend
  <2>2. \A a, b, o, n \in Nat : b + o = a + (o + n) => b = a + n
    OBVIOUS
  <2>3. AllOwned(queue') + Owned(q[t]) = AllOwned(q) + (Owned(q[t]) + Blocks(m))
    BY <1>2, <2>1
  <2>4. AllOwned(queue') = AllOwned(q) + Blocks(m)
    BY <1>2, <1>3, <2>2, <2>3
  <2> QED
    BY <1>2, <1>3, <1>4, <2>4
<1>5. CASE queue'[t] = q[t] /\ lost' = lost + Blocks(m)
  BY <1>2, <1>3, <1>5
<1> QED
  BY <1>1, <1>4, <1>5

\* Taking a message from a queue releases what it owns.
LEMMA TakeOwned ==
  ASSUME TypeOK, NEW t \in Queues, queue[t] # <<>>
  PROVE  LET rest == [queue EXCEPT ![t] = Tail(@)] IN
         /\ AllOwned(rest) \in Nat
         /\ AllOwned(queue) = AllOwned(rest) + Blocks(Head(queue[t]))
         /\ Blocks(Head(queue[t])) \in Nat
<1> DEFINE rest == [queue EXCEPT ![t] = Tail(@)]
<1>1. /\ rest \in [Queues -> Seq(Messages)] /\ rest[t] = Tail(queue[t])
      /\ \A u \in Queues : u # t => rest[u] = queue[u]
      /\ Head(queue[t]) \in Messages
  BY TakeFacts
<1>2. queue \in [Queues -> Seq(Messages)] /\ queue[t] \in Seq(Messages)
  BY DEF TypeOK
<1> HIDE DEF rest
<1>3. /\ AllOwned(queue) \in Nat /\ AllOwned(rest) \in Nat
      /\ Owned(queue[t]) \in Nat /\ Owned(rest[t]) \in Nat
      /\ AllOwned(rest) + Owned(queue[t]) = AllOwned(queue) + Owned(rest[t])
  BY <1>1, <1>2, AllOwnedChange
<1>4. Owned(queue[t]) = Owned(rest[t]) + Blocks(Head(queue[t]))
  BY <1>1, <1>2, OwnedTail
<1>5. Blocks(Head(queue[t])) \in Nat
  BY DEF Blocks
<1>6. \A a, r, o, n \in Nat : r + (o + n) = a + o => a = r + n
  OBVIOUS
<1>7. AllOwned(rest) + (Owned(rest[t]) + Blocks(Head(queue[t])))
        = AllOwned(queue) + Owned(rest[t])
  BY <1>3, <1>4
<1>8. AllOwned(queue) = AllOwned(rest) + Blocks(Head(queue[t]))
  BY <1>3, <1>5, <1>6, <1>7
<1> QED
  BY <1>3, <1>5, <1>8 DEF rest

\* EveryBlockOwned in terms of all the queues.
LEMMA OwnedSum ==
  ASSUME queue \in [Queues -> Seq(Messages)], lost \in Nat
  PROVE  EveryBlockOwned <=> allocated = lost + AllOwned(queue)
<1>1. /\ Owned(queue["VisionAlgo"]) \in Nat /\ Owned(queue["Output"]) \in Nat
      /\ Owned(queue["Camera"]) \in Nat
  BY OwnedCount DEF Queues, Tasks
<1> QED
  BY <1>1 DEF EveryBlockOwned, AllOwned

\* The types hold at the start, and nothing is allocated.
LEMMA HeapInit ==
  ASSUME Init
  PROVE  TypeOK /\ EveryBlockOwned
<1>1. QUEUE_LENGTH \in Nat /\ MaxEvents \in Nat /\ MaxPosts \in Nat
  BY DispatchAssumption
<1>2. queue \in [Queues -> Seq(Messages)] /\ \A t \in Queues : queue[t] = <<>>
  BY DEF Init
<1>3. TypeOK
  <2>1. \A t \in Queues : Len(queue[t]) <= QUEUE_LENGTH
    BY <1>1, <1>2
  <2>2. sent \in [Devices -> 0..MaxEvents] /\ event \in [Devices -> 0..MaxEvents]
        /\ msgs \in [Devices -> SUBSET Tasks]
    BY <1>1 DEF Init
  <2>3. inputQueue \in Seq(Devices) /\ Len(inputQueue) <= QUEUE_LENGTH
        /\ input \in [dev : Devices, rest : Seq(Tasks)]
    BY <1>1 DEF Init, Devices
  <2>4. seen \in [Tasks -> [Devices -> 0..MaxEvents]]
        /\ missed \subseteq Devices \X Tasks
        /\ allocated \in Nat /\ lost \in Nat /\ posts \in 0..MaxPosts
    BY <1>1 DEF Init
  <2>5. button \in DOMAIN ButtonAfter
    BY DEF Init, ButtonAfter
  <2> QED
    BY <1>2, <2>1, <2>2, <2>3, <2>4, <2>5 DEF TypeOK
<1>4. EveryBlockOwned
  <2>1. Owned(<<>>) = 0
    <3>1. <<>> \in Seq(Messages) /\ Len(<<>>) = 0
      OBVIOUS
    <3>2. Owned(<<>>) = Len(<<>>) + Count(<<>>, Copied)
      BY <3>1, OwnedCount
    <3>3. Count(<<>>, Copied) = 0
      BY CountEmpty
    <3> QED
      BY <3>1, <3>2, <3>3
  <2>2. queue["VisionAlgo"] = <<>> /\ queue["Output"] = <<>> /\ queue["Camera"] = <<>>
    BY <1>2 DEF Queues, Tasks
  <2>3. allocated = 0 /\ lost = 0
    BY DEF Init
  <2> QED
    BY <2>1, <2>2, <2>3 DEF EveryBlockOwned
<1> QED
  BY <1>3, <1>4

\* The timers of the buttons touch nothing of the dispatch.
LEMMA ButtonTimers ==
  ASSUME LongPressTimeout \/ BlockingTimeout
  PROVE  UNCHANGED <<sent, event, msgs, inputQueue, input, queue, seen, missed,
                     allocated, lost, posts>>
  BY DEF LongPressTimeout, BlockingTimeout

\* Every step keeps the types and accounts for every block.  That a receiver
\* notes no number beyond the last event is where the order comes in.
LEMMA HeapStep ==
  ASSUME TypeOK, EveryBlockOwned, NothingOlder, [Next]_vars
  PROVE  TypeOK' /\ EveryBlockOwned'
<1> DEFINE Heap == <<queue, lost, allocated>>
<1>1. QUEUE_LENGTH \in Nat \ {0} /\ MaxEvents \in Nat /\ MaxPosts \in Nat
  BY DispatchAssumption
<1>2. /\ queue \in [Queues -> Seq(Messages)] /\ lost \in Nat /\ allocated \in Nat
      /\ \A t \in Queues : Len(queue[t]) <= QUEUE_LENGTH
  BY DEF TypeOK
<1>3. allocated = lost + AllOwned(queue) /\ AllOwned(queue) \in Nat
  <2>1. AllOwned(queue) \in Nat
    BY <1>2, AllOwnedChange DEF Queues
  <2> QED
    BY <1>2, <2>1, OwnedSum
\* It is enough to look at the heap and the queues, and at the rest.
<1>4. ASSUME /\ queue' \in [Queues -> Seq(Messages)] /\ lost' \in Nat
             /\ \A t \in Queues : Len(queue'[t]) <= QUEUE_LENGTH
             /\ allocated' = lost' + AllOwned(queue')
      PROVE  allocated' \in Nat /\ EveryBlockOwned'
  <2>1. AllOwned(queue') \in Nat
    BY <1>4, AllOwnedChange DEF Queues
  <2>2. EveryBlockOwned' <=> allocated' = lost' + AllOwned(queue')
    <3>1. /\ Owned(queue'["VisionAlgo"]) \in Nat /\ Owned(queue'["Output"]) \in Nat
          /\ Owned(queue'["Camera"]) \in Nat
      BY <1>4, OwnedCount DEF Queues, Tasks
    <3> QED
      BY <1>4, <3>1 DEF EveryBlockOwned, AllOwned
  <2> QED
    BY <1>4, <2>1, <2>2
<1>5. ASSUME UNCHANGED Heap
      PROVE  /\ queue' \in [Queues -> Seq(Messages)] /\ lost' \in Nat
             /\ \A t \in Queues : Len(queue'[t]) <= QUEUE_LENGTH
             /\ allocated' = lost' + AllOwned(queue')
  BY <1>2, <1>3, <1>5
<1>6. ASSUME NEW d \in Devices, DeviceCallback(d)
      PROVE  TypeOK' /\ EveryBlockOwned'
  <2>1. PICK r \in ReceiverLists(d) :
          /\ msgs' = [msgs EXCEPT ![d] = r]
          /\ LET older == missed \ ({d} \X Tasks) IN
             IF Len(inputQueue) < QUEUE_LENGTH
             THEN inputQueue' = Append(inputQueue, d) /\ missed' = older
             ELSE missed' = older \union ({d} \X r) /\ UNCHANGED inputQueue
    BY <1>6 DEF DeviceCallback
  <2>2. r \in SUBSET Tasks
    BY DEF ReceiverLists, BleReceiverLists, Tasks, Devices
  <2>3. sent' \in [Devices -> 0..MaxEvents] /\ event' \in [Devices -> 0..MaxEvents]
    <3>1. /\ Total < MaxEvents
          /\ sent' = [sent EXCEPT ![d] = @ + 1]
          /\ event' = [event EXCEPT ![d] = sent'[d]]
      BY <1>6 DEF DeviceCallback
    <3>2. /\ sent["buttons"] \in Nat /\ sent["ble"] \in Nat /\ sent["shell"] \in Nat
          /\ sent[d] \in {sent["buttons"], sent["ble"], sent["shell"]}
      BY <1>1 DEF TypeOK, Devices
    <3>3. sent[d] + 1 \in 0..MaxEvents
      BY <1>1, <3>1, <3>2 DEF Total
    <3>4. sent' \in [Devices -> 0..MaxEvents] /\ sent'[d] = sent[d] + 1
      BY <3>1, <3>3 DEF TypeOK
    <3> QED
      BY <3>1, <3>3, <3>4 DEF TypeOK
  <2>4. msgs' \in [Devices -> SUBSET Tasks]
    BY <2>1, <2>2 DEF TypeOK
  <2>5. /\ inputQueue' \in Seq(Devices) /\ Len(inputQueue') <= QUEUE_LENGTH
        /\ missed' \subseteq Devices \X Tasks
    <3>1. missed \subseteq Devices \X Tasks /\ {d} \X r \subseteq Devices \X Tasks
      BY <2>2 DEF TypeOK
    <3>2. inputQueue \in Seq(Devices) /\ Len(inputQueue) <= QUEUE_LENGTH
      BY DEF TypeOK
    <3>3. CASE Len(inputQueue) < QUEUE_LENGTH
      <4>1. inputQueue' = Append(inputQueue, d) /\ missed' = missed \ ({d} \X Tasks)
        BY <2>1, <3>3
      <4>2. /\ Append(inputQueue, d) \in Seq(Devices)
            /\ Len(Append(inputQueue, d)) = Len(inputQueue) + 1 /\ Len(inputQueue) \in Nat
        BY <3>2
      <4> QED
        BY <1>1, <3>1, <3>3, <4>1, <4>2
    <3>4. CASE ~(Len(inputQueue) < QUEUE_LENGTH)
      BY <2>1, <3>1, <3>2, <3>4
    <3> QED
      BY <3>3, <3>4
  <2>6. UNCHANGED Heap /\ UNCHANGED <<input, seen, posts>>
    BY <1>6 DEF DeviceCallback
  <2>7. button' \in DOMAIN ButtonAfter
    <3>1. button' \in IF d = "buttons" THEN ButtonAfter[button] ELSE {button}
      BY <1>6 DEF DeviceCallback
    <3> QED
      BY <3>1 DEF TypeOK, ButtonAfter
  <2> QED
    BY <1>4, <1>5, <2>3, <2>4, <2>5, <2>6, <2>7 DEF TypeOK
<1>7. CASE InputReceive
  <2>1. inputQueue \in Seq(Devices) /\ inputQueue # <<>> /\ Len(inputQueue) <= QUEUE_LENGTH
    BY <1>7 DEF InputReceive, TypeOK
  <2>2. /\ Head(inputQueue) \in Devices /\ Tail(inputQueue) \in Seq(Devices)
        /\ Len(Tail(inputQueue)) = Len(inputQueue) - 1 /\ Len(inputQueue) \in Nat
    BY <2>1
  <2>3. TaskOrder(msgs[Head(inputQueue)]) \in Seq(Tasks)
    BY <2>2, TaskOrderSeq DEF TypeOK
  <2>4. input' \in [dev : Devices, rest : Seq(Tasks)]
    BY <1>7, <2>2, <2>3 DEF InputReceive
  <2>5. inputQueue' \in Seq(Devices) /\ Len(inputQueue') <= QUEUE_LENGTH
    BY <1>1, <1>7, <2>1, <2>2 DEF InputReceive
  <2>6. UNCHANGED Heap /\ UNCHANGED <<button, sent, event, msgs, seen, missed, posts>>
    BY <1>7 DEF InputReceive
  <2> QED
    BY <1>4, <1>5, <2>4, <2>5, <2>6 DEF TypeOK
<1>8. CASE InputForward
  <2> DEFINE d == input.dev
             t == Head(input.rest)
             m == Message(d, IF Copy(d) THEN event[d] ELSE 0)
  <2>1. /\ input.rest \in Seq(Tasks) /\ input.rest # <<>> /\ d \in Devices
        /\ t \in Tasks /\ Tail(input.rest) \in Seq(Tasks)
        /\ input' = [input EXCEPT !.rest = Tail(@)]
    BY <1>8 DEF InputForward, TypeOK
  <2>2. m \in Messages /\ t \in Queues /\ Blocks(m) \in Nat
    <3>1. d \in Senders /\ event[d] \in Nat
      BY <1>1, <2>1 DEF Senders, TypeOK
    <3> QED
      BY <2>1, <3>1, MessageFacts DEF Queues, Blocks
  <2>3. input' \in [dev : Devices, rest : Seq(Tasks)]
    BY <2>1 DEF TypeOK
  <2>4. missed' \subseteq Devices \X Tasks
    BY <1>8, <2>1 DEF InputForward, TypeOK
  <2>5. /\ queue' \in [Queues -> Seq(Messages)] /\ lost' \in Nat
        /\ \A u \in Queues : Len(queue'[u]) <= QUEUE_LENGTH
        /\ allocated' = lost' + AllOwned(queue')
    <3>1. CASE MessagePut(queue, t, m) /\ allocated' = allocated + Blocks(m)
      <4> HIDE DEF t, m
      <4>1. /\ queue' \in [Queues -> Seq(Messages)] /\ lost' \in Nat
            /\ \A u \in Queues : Len(queue'[u]) <= QUEUE_LENGTH
        BY <1>2, <2>2, <3>1, PutFacts
      <4>2. lost' + AllOwned(queue') = lost + AllOwned(queue) + Blocks(m)
        BY <1>2, <2>2, <3>1, PutOwned
      <4> QED
        BY <1>3, <3>1, <4>1, <4>2
    <3>2. CASE UNCHANGED Heap
      BY <1>5, <3>2
    <3> QED
      BY <1>8, <3>1, <3>2 DEF InputForward
  <2>6. UNCHANGED <<button, sent, event, msgs, inputQueue, seen, posts>>
    BY <1>8 DEF InputForward
  <2> QED
    BY <1>4, <2>3, <2>4, <2>5, <2>6 DEF TypeOK
<1>9. ASSUME NEW t \in Tasks, NEW what \in {"result", "notify"}, ManagerCallback(t, what)
      PROVE  TypeOK' /\ EveryBlockOwned'
  <2>1. Message(what, 1) \in Messages /\ Blocks(Message(what, 1)) = 2 /\ t \in Queues
    <3>1. what \in Senders
      BY DEF Senders
    <3> QED
      BY <3>1, MessageFacts DEF Queues
  <2>2. posts' \in 0..MaxPosts
    BY <1>1, <1>9 DEF ManagerCallback, TypeOK
  <2>3. /\ queue' \in [Queues -> Seq(Messages)] /\ lost' \in Nat
        /\ \A u \in Queues : Len(queue'[u]) <= QUEUE_LENGTH
        /\ allocated' = lost' + AllOwned(queue')
    <3>1. CASE MessagePut(queue, t, Message(what, 1)) /\ allocated' = allocated + 2
      <4>1. /\ queue' \in [Queues -> Seq(Messages)] /\ lost' \in Nat
            /\ \A u \in Queues : Len(queue'[u]) <= QUEUE_LENGTH
        BY <1>2, <2>1, <3>1, PutFacts
      <4>2. lost' + AllOwned(queue') = lost + AllOwned(queue) + 2
        BY <1>2, <2>1, <3>1, PutOwned
      <4> QED
        BY <1>3, <3>1, <4>1, <4>2
    <3>2. CASE UNCHANGED Heap
      BY <1>5, <3>2
    <3> QED
      BY <1>9, <3>1, <3>2 DEF ManagerCallback
  <2>4. UNCHANGED <<button, sent, event, msgs, inputQueue, input, seen, missed>>
    BY <1>9 DEF ManagerCallback
  <2> QED
    BY <1>4, <2>2, <2>3, <2>4 DEF TypeOK
<1>10. ASSUME NEW t \in Queues, MessageHandle(t)
       PROVE  TypeOK' /\ EveryBlockOwned'
  <2> DEFINE m == Head(queue[t])
             rest == [queue EXCEPT ![t] = Tail(@)]
  <2>1. queue[t] # <<>>
    BY <1>10 DEF MessageHandle
  <2>2. /\ rest \in [Queues -> Seq(Messages)] /\ m \in Messages
        /\ \A u \in Queues : Len(rest[u]) <= QUEUE_LENGTH
    BY <2>1, TakeFacts
  <2>3. /\ AllOwned(rest) \in Nat /\ Blocks(m) \in Nat
        /\ AllOwned(queue) = AllOwned(rest) + Blocks(m)
    BY <2>1, TakeOwned
  <2>4. seen' \in [Tasks -> [Devices -> 0..MaxEvents]]
    <3>1. CASE m.dev \notin Devices
      BY <1>10, <3>1 DEF MessageHandle, TypeOK
    <3>2. CASE m.dev \in Devices
      <4>1. seen' = [seen EXCEPT ![t][m.dev] =
                        IF m.data = 0 THEN event[m.dev] ELSE m.data]
        BY <1>10, <3>2 DEF MessageHandle
      <4>2. t \in Tasks
        <5>1. t # "Camera"
          <6>1. CASE t = "Camera"
            <7>1. 1 \in DOMAIN queue["Camera"] /\ queue["Camera"][1] = m
              BY <1>2, <2>1, <6>1
            <7> QED
              BY <3>2, <7>1 DEF NothingOlder
          <6> QED
            BY <6>1
        <5> QED
          BY <5>1 DEF Queues
      <4>3. event[m.dev] \in 0..MaxEvents /\ m.data \in Nat
        BY <2>2, <3>2 DEF TypeOK, Messages
      <4>4. m.data = 0 \/ m.data <= event[m.dev]
        <5>1. 1 \in DOMAIN queue[t] /\ queue[t][1] = m
          BY <1>2, <2>1
        <5>2. /\ m.data = 0 <=> ~Copy(m.dev)
              /\ Copy(m.dev) => m.data <= event[m.dev]
          BY <3>2, <4>2, <5>1 DEF NothingOlder
        <5> QED
          BY <5>2
      <4>5. (IF m.data = 0 THEN event[m.dev] ELSE m.data) \in 0..MaxEvents
        BY <1>1, <4>3, <4>4
      <4>6. seen \in [Tasks -> [Devices -> 0..MaxEvents]]
        BY DEF TypeOK
      <4> HIDE DEF m
      <4> QED
        BY <3>2, <4>1, <4>2, <4>5, <4>6
    <3> QED
      BY <3>1, <3>2
  <2>5. /\ queue' \in [Queues -> Seq(Messages)] /\ lost' \in Nat
        /\ \A u \in Queues : Len(queue'[u]) <= QUEUE_LENGTH
        /\ allocated' = lost' + AllOwned(queue')
    <3>1. CASE queue' = rest /\ allocated' = allocated - Blocks(m) /\ lost' = lost
      <4> HIDE DEF m, rest
      <4> QED
        BY <1>2, <1>3, <2>2, <2>3, <3>1
    <3>2. CASE /\ MessagePut(rest, "Camera", Message("overlay", 0))
               /\ allocated' = allocated - Blocks(m) + 1
      <4> HIDE DEF m, rest
      <4>1. /\ Message("overlay", 0) \in Messages /\ "Camera" \in Queues
            /\ Blocks(Message("overlay", 0)) = 1
        BY MessageFacts DEF Senders, Queues
      <4>2. /\ queue' \in [Queues -> Seq(Messages)] /\ lost' \in Nat
            /\ \A u \in Queues : Len(queue'[u]) <= QUEUE_LENGTH
        BY <1>2, <2>2, <3>2, <4>1, PutFacts
      <4>3. lost' + AllOwned(queue') = lost + AllOwned(rest) + 1
        <5>1. lost' + AllOwned(queue')
                = lost + AllOwned(rest) + Blocks(Message("overlay", 0))
          BY <1>2, <2>2, <3>2, <4>1, PutOwned
        <5> QED
          BY <4>1, <5>1
      <4>4. \A l, o, b \in Nat : l + (o + b) - b + 1 = l + o + 1
        OBVIOUS
      <4>5. allocated' = lost + (AllOwned(rest) + Blocks(m)) - Blocks(m) + 1
        <5>1. allocated' = allocated - Blocks(m) + 1
          BY <3>2
        <5>2. allocated = lost + (AllOwned(rest) + Blocks(m))
          BY <1>3, <2>3
        <5> QED
          BY <1>2, <2>3, <5>1, <5>2
      <4>6. allocated' = lost' + AllOwned(queue')
        BY <1>2, <2>3, <4>3, <4>4, <4>5
      <4> QED
        BY <4>2, <4>6
    <3> QED
      BY <1>10, <3>1, <3>2 DEF MessageHandle
  <2>6. UNCHANGED <<button, sent, event, msgs, inputQueue, input, missed, posts>>
    BY <1>10 DEF MessageHandle
  <2> QED
    BY <1>4, <2>4, <2>5, <2>6 DEF TypeOK
<1>11. CASE UNCHANGED vars
  <2>1. /\ UNCHANGED Heap
        /\ UNCHANGED <<button, sent, event, msgs, inputQueue, input, seen, missed, posts>>
    BY <1>11 DEF vars
  <2> QED
    BY <1>4, <1>5, <2>1 DEF TypeOK
<1>12. CASE LongPressTimeout \/ BlockingTimeout
  <2>1. /\ UNCHANGED Heap
        /\ UNCHANGED <<sent, event, msgs, inputQueue, input, seen, missed, posts>>
    BY <1>12, ButtonTimers
  <2>2. button' \in DOMAIN ButtonAfter
    BY <1>12 DEF LongPressTimeout, BlockingTimeout, ButtonAfter
  <2> QED
    BY <1>4, <1>5, <2>1, <2>2 DEF TypeOK
<1> QED
  BY <1>6, <1>7, <1>8, <1>9, <1>10, <1>11, <1>12 DEF Next

-----------------------------------------------------------------------------
(* The order of the events.                                                *)

\* Init has no events, no messages and nothing pending.
LEMMA OrderInit ==
  ASSUME Init
  PROVE  EventsFilled /\ NothingOlder /\ CopiesInOrder
<1>1. \A t \in Queues : queue[t] = <<>>
  BY DEF Init
<1>2. DOMAIN inputQueue = {} /\ input.rest = <<>>
  BY DEF Init
<1>3. \A t \in Queues : DOMAIN queue[t] = {}
  BY <1>1
<1>4. \A d \in Devices : event[d] = 0 /\ sent[d] = 0 /\ \A t \in Tasks : seen[t][d] = 0
  BY DEF Init
<1>5. "Camera" \in Queues /\ \A t \in Tasks : t \in Queues
  BY DEF Queues
<1>6. EventsFilled
  BY <1>2 DEF EventsFilled
<1>7. NothingOlder
  BY <1>3, <1>4, <1>5 DEF NothingOlder
<1>8. CopiesInOrder
  BY <1>3, <1>5 DEF CopiesInOrder
<1> QED
  BY <1>6, <1>7, <1>8

\* The numbers of a device's events only grow.
LEMMA EventsGrow ==
  ASSUME TypeOK, NothingOlder, [Next]_vars, NEW d \in Devices
  PROVE  event[d] <= event'[d] /\ event'[d] <= sent'[d]
<1>1. event[d] \in Nat /\ sent[d] \in Nat /\ event[d] <= sent[d]
  BY DispatchAssumption DEF TypeOK, NothingOlder
<1>2. CASE UNCHANGED <<sent, event>>
  BY <1>1, <1>2
<1>3. ASSUME NEW e \in Devices, DeviceCallback(e)
      PROVE  event[d] <= event'[d] /\ event'[d] <= sent'[d]
  <2>1. /\ sent' = [sent EXCEPT ![e] = @ + 1]
        /\ event' = [event EXCEPT ![e] = sent'[e]]
    BY <1>3 DEF DeviceCallback
  <2>2. sent \in [Devices -> 0..MaxEvents] /\ event \in [Devices -> 0..MaxEvents]
    BY DEF TypeOK
  <2>3. CASE d = e
    <3>1. sent'[d] = sent[d] + 1 /\ event'[d] = sent'[d]
      BY <2>1, <2>2, <2>3
    <3> QED
      BY <1>1, <3>1
  <2>4. CASE d # e
    <3>1. sent'[d] = sent[d] /\ event'[d] = event[d]
      BY <2>1, <2>2, <2>4
    <3> QED
      BY <1>1, <3>1
  <2> QED
    BY <2>3, <2>4
<1>4. InputReceive \/ InputForward => UNCHANGED <<sent, event>>
  BY DEF InputReceive, InputForward
<1>5. \A t, what : ManagerCallback(t, what) => UNCHANGED <<sent, event>>
  BY DEF ManagerCallback
<1>6. \A t : MessageHandle(t) => UNCHANGED <<sent, event>>
  BY DEF MessageHandle
<1>7. UNCHANGED vars => UNCHANGED <<sent, event>>
  BY DEF vars
<1>8. LongPressTimeout \/ BlockingTimeout => UNCHANGED <<sent, event>>
  BY ButtonTimers
<1> QED
  BY <1>2, <1>3, <1>4, <1>5, <1>6, <1>7, <1>8 DEF Next

\* A device that asks for a copy has an event whenever it has called.
LEMMA FilledStep ==
  ASSUME TypeOK, EventsFilled, NothingOlder, [Next]_vars
  PROVE  EventsFilled'
<1> SUFFICES ASSUME NEW d \in Devices, Copy(d)
             PROVE  /\ \A i \in DOMAIN inputQueue' : inputQueue'[i] = d => event'[d] > 0
                    /\ input'.dev = d /\ input'.rest # <<>> => event'[d] > 0
  BY DEF EventsFilled, Copy
<1>1. event[d] <= event'[d]
  BY EventsGrow
<1>2. event[d] \in Nat /\ event'[d] \in Int /\ inputQueue \in Seq(Devices)
  <2>1. event[d] \in Nat /\ inputQueue \in Seq(Devices)
    BY DispatchAssumption DEF TypeOK
  <2>2. ASSUME NEW e \in Devices, DeviceCallback(e) PROVE event'[d] \in Int
    <3>1. event' = [event EXCEPT ![e] = sent'[e]] /\ sent' = [sent EXCEPT ![e] = @ + 1]
      BY <2>2 DEF DeviceCallback
    <3> QED
      BY <3>1, DispatchAssumption DEF TypeOK
  <2>3. ~(\E e \in Devices : DeviceCallback(e)) => UNCHANGED event
    BY ButtonTimers
    DEF Next, InputReceive, InputForward, ManagerCallback, MessageHandle, vars
  <2> QED
    BY <2>1, <2>2, <2>3
<1>3. /\ \A i \in DOMAIN inputQueue : inputQueue[i] = d => event[d] > 0
      /\ input.dev = d /\ input.rest # <<>> => event[d] > 0
  BY DEF EventsFilled
<1>4. CASE UNCHANGED <<inputQueue, input>>
  BY <1>1, <1>2, <1>3, <1>4
<1>5. ASSUME NEW e \in Devices, DeviceCallback(e)
      PROVE  /\ \A i \in DOMAIN inputQueue' : inputQueue'[i] = d => event'[d] > 0
             /\ input'.dev = d /\ input'.rest # <<>> => event'[d] > 0
  <2>1. input' = input
    BY <1>5 DEF DeviceCallback
  <2>2. e = d => event'[d] > 0
    <3>1. CASE e = d
      <4>1. sent' = [sent EXCEPT ![d] = @ + 1] /\ event' = [event EXCEPT ![d] = sent'[d]]
        BY <1>5, <3>1 DEF DeviceCallback
      <4>2. sent[d] \in Nat /\ sent'[d] = sent[d] + 1 /\ event'[d] = sent'[d]
        BY <4>1, DispatchAssumption DEF TypeOK
      <4> QED
        BY <4>2
    <3> QED
      BY <3>1
  <2>3. CASE inputQueue' = inputQueue
    BY <1>1, <1>2, <1>3, <2>1, <2>3
  <2>4. CASE inputQueue' = Append(inputQueue, e)
    <3>1. \A i \in DOMAIN inputQueue' :
            \/ i \in DOMAIN inputQueue /\ inputQueue'[i] = inputQueue[i]
            \/ inputQueue'[i] = e
      BY <1>2, <2>4
    <3> QED
      BY <1>1, <1>2, <1>3, <2>1, <2>2, <3>1
  <2> QED
    BY <1>5, <2>3, <2>4 DEF DeviceCallback
<1>6. CASE InputReceive
  <2>1. /\ inputQueue # <<>> /\ inputQueue' = Tail(inputQueue) /\ event' = event
        /\ input'.dev = Head(inputQueue)
    BY <1>6 DEF InputReceive
  <2>2. \A i \in DOMAIN inputQueue' :
          i + 1 \in DOMAIN inputQueue /\ inputQueue'[i] = inputQueue[i + 1]
    BY <1>2, <2>1
  <2>3. 1 \in DOMAIN inputQueue /\ inputQueue[1] = Head(inputQueue)
    BY <1>2, <2>1
  <2> QED
    BY <1>3, <2>1, <2>2, <2>3
<1>7. CASE InputForward
  <2>1. input.rest # <<>> /\ input'.dev = input.dev /\ UNCHANGED <<inputQueue, event>>
    BY <1>7 DEF InputForward, TypeOK
  <2> QED
    BY <1>3, <2>1
<1>8. \A t, what : ManagerCallback(t, what) => UNCHANGED <<inputQueue, input>>
  BY DEF ManagerCallback
<1>9. \A t : MessageHandle(t) => UNCHANGED <<inputQueue, input>>
  BY DEF MessageHandle
<1>10. UNCHANGED vars => UNCHANGED <<inputQueue, input>>
  BY DEF vars
<1>11. LongPressTimeout \/ BlockingTimeout => UNCHANGED <<inputQueue, input>>
  BY ButtonTimers
<1> QED
  BY <1>4, <1>5, <1>6, <1>7, <1>8, <1>9, <1>10, <1>11 DEF Next

\* A message for t, against what t has seen and the newest events.
MsgSound(m, s, e) ==
  m.dev \in Devices =>
    /\ m.data = 0 <=> ~Copy(m.dev)
    /\ Copy(m.dev) => s[m.dev] <= m.data /\ m.data <= e[m.dev]

\* Are the copies of a queue in order?
InOrder(q) ==
  \A i, j \in DOMAIN q :
    i < j /\ q[i].dev = q[j].dev /\ q[i].dev \in Devices => q[i].data <= q[j].data

\* The conjuncts of the invariant, by queue.
LEMMA OrderParts ==
  /\ NothingOlder <=>
       /\ \A d \in Devices : event[d] <= sent[d]
       /\ \A t \in Tasks, d \in Devices : seen[t][d] <= event[d]
       /\ \A t \in Tasks : \A i \in DOMAIN queue[t] : MsgSound(queue[t][i], seen[t], event)
       /\ \A i \in DOMAIN queue["Camera"] : queue["Camera"][i].dev \notin Devices
  /\ CopiesInOrder <=> \A t \in Tasks : InOrder(queue[t])
BY DEF NothingOlder, CopiesInOrder, MsgSound, InOrder

\* A message with the newest event goes behind the others.
LEMMA AppendInOrder ==
  ASSUME NEW q \in Seq(Messages), NEW m \in Messages, NEW s, NEW e,
         \A i \in DOMAIN q : MsgSound(q[i], s, e), InOrder(q), MsgSound(m, s, e),
         m.dev \in Devices /\ Copy(m.dev) => m.data = e[m.dev]
  PROVE  /\ \A i \in DOMAIN Append(q, m) : MsgSound(Append(q, m)[i], s, e)
         /\ InOrder(Append(q, m))
<1>1. \A i \in DOMAIN Append(q, m) :
        \/ i \in DOMAIN q /\ Append(q, m)[i] = q[i] /\ i < Len(q) + 1
        \/ i = Len(q) + 1 /\ Append(q, m)[i] = m
  OBVIOUS
<1>2. \A i \in DOMAIN Append(q, m) : MsgSound(Append(q, m)[i], s, e)
  BY <1>1
<1>3. ASSUME NEW i \in DOMAIN Append(q, m), NEW j \in DOMAIN Append(q, m), i < j,
             Append(q, m)[i].dev = Append(q, m)[j].dev,
             Append(q, m)[i].dev \in Devices
      PROVE  Append(q, m)[i].data <= Append(q, m)[j].data
  <2>1. i \in DOMAIN q /\ Append(q, m)[i] = q[i]
    <3>1. i \in 1..Len(q) + 1 /\ j \in 1..Len(q) + 1 /\ Len(q) \in Nat
      OBVIOUS
    <3>2. i # Len(q) + 1
      BY <1>3, <3>1
    <3> QED
      BY <1>1, <3>2
  <2>2. CASE j \in DOMAIN q
    <3>1. Append(q, m)[j] = q[j]
      BY <2>2
    <3> QED
      BY <1>3, <2>1, <2>2, <3>1 DEF InOrder
  <2>3. CASE j \notin DOMAIN q
    <3>1. Append(q, m)[j] = m
      BY <1>1, <2>3
    <3>2. q[i].dev = m.dev /\ m.dev \in Devices
      BY <1>3, <2>1, <3>1
    <3>3. CASE Copy(m.dev)
      BY <2>1, <3>1, <3>2, <3>3 DEF MsgSound
    <3>4. CASE ~Copy(m.dev)
      <4>1. q[i].data = 0 /\ m.data = 0
        BY <2>1, <3>2, <3>4 DEF MsgSound
      <4> QED
        BY <2>1, <3>1, <4>1
    <3> QED
      BY <3>3, <3>4
  <2> QED
    BY <2>2, <2>3
<1>4. InOrder(Append(q, m))
  BY <1>3 DEF InOrder
<1> QED
  BY <1>2, <1>4

\* What is left behind a message is not older than it.
LEMMA TailInOrder ==
  ASSUME NEW q \in Seq(Messages), q # <<>>, InOrder(q)
  PROVE  /\ InOrder(Tail(q))
         /\ \A i \in DOMAIN Tail(q) :
              /\ i + 1 \in DOMAIN q /\ Tail(q)[i] = q[i + 1]
              /\ Head(q).dev = Tail(q)[i].dev /\ Head(q).dev \in Devices
                   => Head(q).data <= Tail(q)[i].data
<1>1. \A i \in DOMAIN Tail(q) : i \in Nat \ {0} /\ i + 1 \in DOMAIN q /\ Tail(q)[i] = q[i + 1]
  OBVIOUS
<1>2. 1 \in DOMAIN q /\ Head(q) = q[1]
  OBVIOUS
<1>3. InOrder(Tail(q))
  <2>1. \A i, j \in DOMAIN Tail(q) : i < j => i + 1 < j + 1
    BY <1>1
  <2> QED
    BY <1>1, <2>1 DEF InOrder
<1>4. \A i \in DOMAIN Tail(q) : 1 < i + 1
  BY <1>1
<1> QED
  BY <1>1, <1>2, <1>3, <1>4 DEF InOrder

\* A step moves no receiver back, and leaves it only messages that will not.
LEMMA OrderStep ==
  ASSUME TypeOK, EventsFilled, NothingOlder, CopiesInOrder, [Next]_vars
  PROVE  /\ NothingOlder' /\ CopiesInOrder'
         /\ \A t \in Tasks, d \in Devices : seen'[t][d] >= seen[t][d]
<1> DEFINE Sound(q, s, e) == /\ \A i \in DOMAIN q : MsgSound(q[i], s, e)
                             /\ InOrder(q)
           NoDevice(q) == \A i \in DOMAIN q : q[i].dev \notin Devices
<1>1. /\ \A d \in Devices : event[d] <= sent[d]
      /\ \A t \in Tasks, d \in Devices : seen[t][d] <= event[d]
      /\ \A t \in Tasks : Sound(queue[t], seen[t], event)
      /\ NoDevice(queue["Camera"])
  BY OrderParts
<1>2. /\ queue \in [Queues -> Seq(Messages)] /\ lost \in Nat
      /\ \A t \in Queues : Len(queue[t]) <= QUEUE_LENGTH
      /\ \A d \in Devices : event[d] \in Nat
      /\ \A t \in Tasks, d \in Devices : seen[t][d] \in Nat
  BY DispatchAssumption DEF TypeOK
<1>3. \A d \in Devices : event[d] <= event'[d] /\ event'[d] <= sent'[d]
  BY EventsGrow
<1>4. Tasks \subseteq Queues /\ "Camera" \in Queues /\ "Camera" \notin Tasks
      /\ Queues \ Tasks = {"Camera"}
  BY DEF Queues, Tasks
\* It is enough to look at what was seen and at the queues.
<1>5. ASSUME \A t \in Tasks, d \in Devices : seen'[t][d] <= event'[d],
             \A t \in Tasks : Sound(queue'[t], seen'[t], event'),
             NoDevice(queue'["Camera"])
      PROVE  NothingOlder' /\ CopiesInOrder'
  BY <1>3, <1>5 DEF NothingOlder, CopiesInOrder, MsgSound, InOrder
<1>6. ASSUME NEW d \in Devices, DeviceCallback(d)
      PROVE  /\ NothingOlder' /\ CopiesInOrder'
             /\ \A t \in Tasks, e \in Devices : seen'[t][e] >= seen[t][e]
  <2>1. UNCHANGED <<queue, seen>>
    BY <1>6 DEF DeviceCallback
  <2>2. \A e \in Devices : event'[e] \in Int
    <3>1. sent \in [Devices -> 0..MaxEvents] /\ event \in [Devices -> 0..MaxEvents]
      BY DEF TypeOK
    <3>2. event' = [event EXCEPT ![d] = sent'[d]] /\ sent' = [sent EXCEPT ![d] = @ + 1]
      BY <1>6 DEF DeviceCallback
    <3> QED
      BY <3>1, <3>2, DispatchAssumption
  <2>3. \A t \in Tasks, e \in Devices : seen'[t][e] <= event'[e] /\ seen'[t][e] >= seen[t][e]
    BY <1>1, <1>2, <1>3, <2>1, <2>2
  <2>4. \A t \in Tasks : Sound(queue'[t], seen'[t], event')
    <3> SUFFICES ASSUME NEW t \in Tasks, NEW i \in DOMAIN queue[t]
                 PROVE  MsgSound(queue[t][i], seen[t], event')
      BY <1>1, <2>1
    <3>1. MsgSound(queue[t][i], seen[t], event)
      BY <1>1
    <3>2. queue[t][i].data \in Nat
      <4>1. queue[t] \in Seq(Messages)
        BY <1>2, <1>4
      <4>2. queue[t][i] \in Messages
        BY <4>1
      <4> QED
        BY <4>2 DEF Messages
    <3> QED
      BY <1>2, <1>3, <2>2, <3>1, <3>2 DEF MsgSound
  <2> QED
    BY <1>1, <1>5, <2>1, <2>3, <2>4
\* A message put into a queue that keeps the order there.
<1>7. ASSUME NEW t \in Queues, NEW m \in Messages, NEW q \in [Queues -> Seq(Messages)],
             \A u \in Queues : Len(q[u]) <= QUEUE_LENGTH, MessagePut(q, t, m),
             NEW s, NEW e,
             \A u \in Tasks : Sound(q[u], s[u], e),
             NoDevice(q["Camera"]),
             t \in Tasks => MsgSound(m, s[t], e),
             t = "Camera" => m.dev \notin Devices,
             m.dev \in Devices /\ Copy(m.dev) => m.data = e[m.dev]
      PROVE  /\ \A u \in Tasks : Sound(queue'[u], s[u], e)
             /\ NoDevice(queue'["Camera"])
  <2>1. /\ \A u \in Queues : u # t => queue'[u] = q[u]
        /\ queue'[t] \in {q[t], Append(q[t], m)}
    BY <1>2, <1>7, PutFacts
  <2>2. ASSUME NEW u \in Tasks PROVE Sound(queue'[u], s[u], e)
    <3>1. CASE queue'[u] = q[u]
      BY <1>7, <3>1
    <3>2. CASE u = t /\ queue'[u] = Append(q[t], m)
      <4>1. q[t] \in Seq(Messages) /\ Sound(q[t], s[t], e) /\ MsgSound(m, s[t], e)
        BY <1>7, <3>2
      <4>2. m.dev \in Devices /\ Copy(m.dev) => m.data = e[m.dev]
        BY <1>7
      <4>3. /\ \A i \in DOMAIN Append(q[t], m) : MsgSound(Append(q[t], m)[i], s[t], e)
            /\ InOrder(Append(q[t], m))
        BY <4>1, <4>2, AppendInOrder
      <4> QED
        BY <3>2, <4>3
    <3> QED
      BY <1>4, <2>1, <3>1, <3>2
  <2>3. NoDevice(queue'["Camera"])
    <3>1. CASE queue'["Camera"] = q["Camera"]
      BY <1>7, <3>1
    <3>2. CASE t = "Camera" /\ queue'["Camera"] = Append(q["Camera"], m)
      <4>1. q["Camera"] \in Seq(Messages)
        BY <1>4, <1>7
      <4>2. \A i \in DOMAIN Append(q["Camera"], m) :
              \/ i \in DOMAIN q["Camera"] /\ Append(q["Camera"], m)[i] = q["Camera"][i]
              \/ Append(q["Camera"], m)[i] = m
        BY <4>1
      <4> QED
        BY <1>7, <3>2, <4>2
    <3> QED
      BY <1>4, <2>1, <3>1, <3>2
  <2> QED
    BY <2>2, <2>3
<1>8. CASE InputForward
  <2> DEFINE d == input.dev
             t == Head(input.rest)
             m == Message(d, IF Copy(d) THEN event[d] ELSE 0)
  <2>1. /\ UNCHANGED <<sent, event, seen>>
        /\ MessagePut(queue, t, m) \/ UNCHANGED queue
        /\ input.rest # <<>>
    BY <1>8 DEF InputForward
  <2>2. d \in Devices /\ t \in Tasks
    BY <2>1 DEF TypeOK
  <2>3. /\ m \in Messages /\ m.dev = d
        /\ m.data = IF Copy(d) THEN event[d] ELSE 0
    BY <1>2, <2>2, MessageFacts DEF Senders
  <2>4. Copy(d) => event[d] > 0
    BY <2>1, <2>2 DEF EventsFilled
  <2>5. MsgSound(m, seen[t], event)
    <3> HIDE DEF d, t, m
    <3> QED
      BY <1>1, <1>2, <2>2, <2>3, <2>4 DEF MsgSound
  <2> HIDE DEF d, t, m
  <2>6. /\ \A u \in Tasks : Sound(queue'[u], seen[u], event)
        /\ NoDevice(queue'["Camera"])
    <3>1. CASE UNCHANGED queue
      BY <1>1, <3>1
    <3>2. CASE MessagePut(queue, t, m)
      <4>1. t \in Queues /\ t # "Camera"
        BY <1>4, <2>2
      <4>2. m \in Messages /\ (m.dev \in Devices /\ Copy(m.dev) => m.data = event[m.dev])
        BY <2>3
      <4>3. /\ queue \in [Queues -> Seq(Messages)]
            /\ \A u \in Queues : Len(queue[u]) <= QUEUE_LENGTH
            /\ \A u \in Tasks : Sound(queue[u], seen[u], event)
            /\ NoDevice(queue["Camera"])
        BY <1>1, <1>2
      <4> QED
        BY <1>7, <2>5, <3>2, <4>1, <4>2, <4>3
    <3> QED
      BY <2>1, <3>1, <3>2
  <2> QED
    BY <1>1, <1>2, <1>5, <2>1, <2>6
<1>9. ASSUME NEW t \in Tasks, NEW what \in {"result", "notify"}, ManagerCallback(t, what)
      PROVE  /\ NothingOlder' /\ CopiesInOrder'
             /\ \A u \in Tasks, e \in Devices : seen'[u][e] >= seen[u][e]
  <2> DEFINE m == Message(what, 1)
  <2>1. /\ UNCHANGED <<sent, event, seen>>
        /\ MessagePut(queue, t, m) \/ UNCHANGED queue
    BY <1>9 DEF ManagerCallback
  <2>2. m \in Messages /\ m.dev \notin Devices
    BY MessageFacts DEF Senders, Devices
  <2> HIDE DEF m
  <2>3. MsgSound(m, seen[t], event)
    BY <2>2 DEF MsgSound
  <2>4. /\ \A u \in Tasks : Sound(queue'[u], seen[u], event)
        /\ NoDevice(queue'["Camera"])
    <3>1. CASE UNCHANGED queue
      BY <1>1, <3>1
    <3>2. CASE MessagePut(queue, t, m)
      <4>1. t \in Queues /\ t # "Camera"
        BY <1>4
      <4>2. /\ queue \in [Queues -> Seq(Messages)]
            /\ \A u \in Queues : Len(queue[u]) <= QUEUE_LENGTH
            /\ \A u \in Tasks : Sound(queue[u], seen[u], event)
            /\ NoDevice(queue["Camera"])
        BY <1>1, <1>2
      <4>3. m \in Messages /\ (m.dev \in Devices /\ Copy(m.dev) => m.data = event[m.dev])
        BY <2>2
      <4> QED
        BY <1>7, <2>3, <3>2, <4>1, <4>2, <4>3
    <3> QED
      BY <2>1, <3>1, <3>2
  <2> QED
    BY <1>1, <1>2, <1>5, <2>1, <2>4

<1>10. ASSUME NEW t \in Queues, MessageHandle(t)
       PROVE  /\ NothingOlder' /\ CopiesInOrder'
              /\ \A u \in Tasks, e \in Devices : seen'[u][e] >= seen[u][e]
  <2> DEFINE m == Head(queue[t])
             rest == [queue EXCEPT ![t] = Tail(@)]
             v == IF m.data = 0 THEN event[m.dev] ELSE m.data
  <2>1. queue[t] # <<>> /\ UNCHANGED <<sent, event>> /\ queue[t] \in Seq(Messages)
    BY <1>2, <1>10 DEF MessageHandle
  <2>2. /\ rest \in [Queues -> Seq(Messages)] /\ m \in Messages
        /\ \A u \in Queues : Len(rest[u]) <= QUEUE_LENGTH
        /\ rest[t] = Tail(queue[t])
        /\ \A u \in Queues : u # t => rest[u] = queue[u]
    BY <2>1, TakeFacts
  <2>3. 1 \in DOMAIN queue[t] /\ queue[t][1] = m
    BY <2>1
  <2>4. m.dev \in Devices => t \in Tasks
    BY <1>1, <1>4, <2>3
  <2>5. seen' = IF m.dev \notin Devices THEN seen ELSE [seen EXCEPT ![t][m.dev] = v]
    BY <1>10 DEF MessageHandle
  <2>6. \A u \in Tasks, e \in Devices :
          seen'[u][e] = IF u = t /\ e = m.dev THEN v ELSE seen[u][e]
    <3>1. seen \in [Tasks -> [Devices -> 0..MaxEvents]]
      BY DEF TypeOK
    <3> HIDE DEF m, v
    <3> QED
      BY <2>4, <2>5, <3>1
  <2>7. queue' = rest \/ MessagePut(rest, "Camera", Message("overlay", 0))
    BY <1>10 DEF MessageHandle
  <2>8. m.data \in Nat
    BY <2>2 DEF Messages
  <2> HIDE DEF m, rest
  <2>9. ASSUME m.dev \in Devices
        PROVE  v <= event[m.dev] /\ v >= seen[t][m.dev]
    <3>1. MsgSound(m, seen[t], event) /\ seen[t][m.dev] <= event[m.dev]
      BY <1>1, <2>3, <2>4, <2>9
    <3> QED
      BY <1>2, <2>4, <2>8, <2>9, <3>1 DEF MsgSound
  <2>10. \A u \in Tasks, e \in Devices : seen'[u][e] <= event'[e] /\ seen'[u][e] >= seen[u][e]
    <3> HIDE DEF v
    <3> QED
      BY <1>1, <1>2, <2>1, <2>6, <2>9
  <2>11. ASSUME NEW u \in Tasks PROVE Sound(rest[u], seen'[u], event)
    <3>1. CASE u # t
      <4>1. rest[u] = queue[u] /\ \A e \in Devices : seen'[u][e] = seen[u][e]
        BY <1>4, <2>2, <2>6, <3>1
      <4> QED
        BY <1>1, <4>1 DEF MsgSound
    <3>2. CASE u = t
      <4>1. rest[u] = Tail(queue[t]) /\ Sound(queue[t], seen[t], event)
        BY <1>1, <2>2, <3>2
      <4>2. /\ InOrder(Tail(queue[t]))
            /\ \A i \in DOMAIN Tail(queue[t]) :
                 /\ i + 1 \in DOMAIN queue[t] /\ Tail(queue[t])[i] = queue[t][i + 1]
                 /\ m.dev = Tail(queue[t])[i].dev /\ m.dev \in Devices
                      => m.data <= Tail(queue[t])[i].data
        BY <2>1, <4>1, TailInOrder DEF m
      <4>3. ASSUME NEW i \in DOMAIN Tail(queue[t])
            PROVE  MsgSound(Tail(queue[t])[i], seen'[t], event)
        <5>1. MsgSound(Tail(queue[t])[i], seen[t], event)
          BY <4>1, <4>2
        <5>2. MsgSound(m, seen[t], event)
          BY <2>3, <4>1
        <5>3. CASE Tail(queue[t])[i].dev # m.dev
          BY <2>6, <3>2, <5>1, <5>3 DEF MsgSound
        <5>4. CASE Tail(queue[t])[i].dev = m.dev
          <6>1. CASE m.dev \in Devices /\ Copy(m.dev)
            <7>1. seen'[t][m.dev] = m.data
              BY <2>6, <3>2, <5>2, <6>1 DEF MsgSound
            <7> QED
              BY <4>2, <5>1, <5>4, <6>1, <7>1 DEF MsgSound
          <6>2. CASE ~(m.dev \in Devices /\ Copy(m.dev))
            BY <5>1, <5>4, <6>2 DEF MsgSound
          <6> QED
            BY <6>1, <6>2
        <5> QED
          BY <5>3, <5>4
      <4> QED
        BY <3>2, <4>1, <4>2, <4>3
    <3> QED
      BY <3>1, <3>2
  <2>12. NoDevice(rest["Camera"])
    <3>1. CASE t # "Camera"
      <4>1. rest["Camera"] = queue["Camera"]
        BY <1>4, <2>2, <3>1
      <4> QED
        BY <1>1, <4>1
    <3>2. CASE t = "Camera"
      <4>1. \A i \in DOMAIN Tail(queue[t]) :
              i + 1 \in DOMAIN queue[t] /\ Tail(queue[t])[i] = queue[t][i + 1]
        BY <2>1
      <4> QED
        BY <1>1, <2>2, <3>2, <4>1
    <3> QED
      BY <3>1, <3>2
  <2>13. /\ \A u \in Tasks : Sound(queue'[u], seen'[u], event')
         /\ NoDevice(queue'["Camera"])
    <3>1. CASE queue' = rest
      BY <2>1, <2>11, <2>12, <3>1
    <3>2. CASE MessagePut(rest, "Camera", Message("overlay", 0))
      <4>1. /\ Message("overlay", 0) \in Messages
            /\ Message("overlay", 0).dev \notin Devices
        BY MessageFacts DEF Senders, Devices
      <4>2. /\ \A u \in Tasks : Sound(queue'[u], seen'[u], event)
            /\ NoDevice(queue'["Camera"])
        <5> HIDE DEF Sound, NoDevice
        <5> QED
          BY <1>4, <1>7, <2>2, <2>11, <2>12, <3>2, <4>1
      <4> QED
        BY <2>1, <4>2
    <3> QED
      BY <2>7, <3>1, <3>2
  <2> QED
    BY <1>5, <2>10, <2>13
<1>11. CASE LongPressTimeout \/ BlockingTimeout \/ InputReceive \/ UNCHANGED vars
  <2>1. UNCHANGED <<sent, event, queue, seen>>
    BY <1>11, ButtonTimers DEF InputReceive, vars
  <2> QED
    BY <1>1, <1>2, <1>5, <2>1
<1> QED
  BY <1>6, <1>8, <1>9, <1>10, <1>11 DEF Next

-----------------------------------------------------------------------------
(* Theorems.                                                               *)

\* The inductive invariant: the types need the ownership (a task never frees
\* more than is allocated) and the order (no number seen is too large), the
\* order needs the events filled.
DispatchInv ==
  TypeOK /\ EveryBlockOwned /\ EventsFilled /\ NothingOlder /\ CopiesInOrder

\* The dispatch keeps its invariant in every state.
LEMMA DispatchAlways == Spec => []DispatchInv
<1>1. Init => DispatchInv
  BY HeapInit, OrderInit DEF DispatchInv
<1>2. DispatchInv /\ [Next]_vars => DispatchInv'
  BY HeapStep, FilledStep, OrderStep DEF DispatchInv
<1> QED
  BY <1>1, <1>2, PTL DEF Spec

\* Every variable of the dispatch has its type, and no queue outgrows its
\* storage, whatever the length of the queues and the number of events.
THEOREM TypeCorrect == Spec => []TypeOK
<1>1. DispatchInv => TypeOK
  BY DEF DispatchInv
<1> QED
  BY <1>1, DispatchAlways, PTL

\* Every block on the heap belongs to a queued message or to one that a full
\* queue did not take: no handler or error path of the input, the output and
\* the algorithm manager forgets a block or frees one twice.
THEOREM BlocksOwned == Spec => []EveryBlockOwned
<1>1. DispatchInv => EveryBlockOwned
  BY DEF DispatchInv
<1> QED
  BY <1>1, DispatchAlways, PTL

\* No receiver acts on an older event of a device after a newer one, though
\* copies wait in its queue and shared events change while they wait.
THEOREM NeverOlder == Spec => NewestLast
<1>1. DispatchInv /\ [Next]_vars =>
        [\A t \in Tasks, d \in Devices : seen'[t][d] >= seen[t][d]]_vars
  BY OrderStep DEF DispatchInv
<1> QED
  BY <1>1, DispatchAlways, PTL DEF Spec, NewestLast
=============================================================================
