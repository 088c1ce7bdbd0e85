---------------------------- MODULE QueueCounting ----------------------------
(***************************************************************************)
(* Counting the elements of a queue that belong to a given set: the lemmas *)
(* behind the proofs that follow messages, buffers and heap blocks through *)
(* the queues of the tasks (FramePipelineTokens, EventDispatchProofs).     *)
(***************************************************************************)
EXTENDS Naturals, Sequences, FiniteSets, FiniteSetTheorems, SequenceTheorems, TLAPS

\* The number of elements of queue q that belong to M.
Count(q, M) == Cardinality({i \in DOMAIN q : q[i] \in M})

\* The positions of the elements that belong to M are finitely many, at most
\* as many as the queue is long.
LEMMA Positions ==
  ASSUME NEW S, NEW q \in Seq(S), NEW M
  PROVE  /\ IsFiniteSet({i \in DOMAIN q : q[i] \in M})
         /\ Count(q, M) \in Nat
         /\ Count(q, M) <= Len(q)
<1> DEFINE T == {i \in DOMAIN q : q[i] \in M}
<1>1. Len(q) \in Nat /\ T \in SUBSET (1..Len(q))
  OBVIOUS
<1>2. IsFiniteSet(1..Len(q)) /\ Cardinality(1..Len(q)) = Len(q)
  <2>1. \A n \in Nat : IsFiniteSet(1..n) /\ Cardinality(1..n) = n
    BY FS_Interval
  <2> QED
    BY <1>1, <2>1
<1>3. IsFiniteSet(T) /\ Cardinality(T) <= Cardinality(1..Len(q))
  BY <1>1, <1>2, FS_Subset
<1> QED
  BY <1>2, <1>3, FS_CardinalityType DEF Count

\* The empty queue has no elements.
LEMMA CountEmpty ==
  ASSUME NEW M
  PROVE  Count(<<>>, M) = 0
<1>1. {i \in DOMAIN <<>> : <<>>[i] \in M} = {}
  OBVIOUS
<1> QED
  BY <1>1, FS_EmptySet DEF Count

\* An appended element counts when it belongs to M.
LEMMA CountAppend ==
  ASSUME NEW S, NEW q \in Seq(S), NEW m \in S, NEW M
  PROVE  Count(Append(q, m), M) = Count(q, M) + (IF m \in M THEN 1 ELSE 0)
<1> DEFINE T == {i \in DOMAIN q : q[i] \in M}
           U == {i \in DOMAIN Append(q, m) : Append(q, m)[i] \in M}
<1>1. IsFiniteSet(T) /\ Cardinality(T) \in Nat
  BY Positions DEF Count
<1>2. CASE m \in M
  <2>1. U = T \cup {Len(q) + 1}
    BY <1>2
  <2>2. Len(q) + 1 \notin T
    OBVIOUS
  <2> QED
    BY <1>1, <1>2, <2>1, <2>2, FS_AddElement DEF Count
<1>3. CASE m \notin M
  <2>1. U = T
    BY <1>3
  <2>2. Cardinality(U) = Cardinality(T)
    BY <2>1
  <2>3. Count(Append(q, m), M) = Cardinality(U) /\ Count(q, M) = Cardinality(T)
    BY DEF Count
  <2> HIDE DEF T, U
  <2> QED
    BY <1>1, <1>3, <2>2, <2>3
<1> QED
  BY <1>2, <1>3

\* A removed element no longer counts.
LEMMA CountTail ==
  ASSUME NEW S, NEW q \in Seq(S), q # <<>>, NEW M
  PROVE  Count(Tail(q), M) = Count(q, M) - (IF Head(q) \in M THEN 1 ELSE 0)
<1> DEFINE T == {i \in DOMAIN Tail(q) : Tail(q)[i] \in M}
           U == {i \in DOMAIN q : q[i] \in M}
           V == U \ {1}
<1>1. IsFiniteSet(U) /\ Cardinality(U) \in Nat
  BY Positions DEF Count
<1>2. IsFiniteSet(V) /\ Cardinality(V) = IF 1 \in U THEN Cardinality(U) - 1 ELSE Cardinality(U)
  <2> HIDE DEF U
  <2> QED
    BY <1>1, FS_RemoveElement
<1>3. 1 \in U <=> Head(q) \in M
  OBVIOUS
<1>4. ExistsBijection(V, T)
  <2> DEFINE g == [i \in V |-> i - 1]
  <2>1. \A i \in V : i \in 2..Len(q) /\ q[i] \in M
    OBVIOUS
  <2>2. \A i \in V : i - 1 \in T
    BY <2>1
  <2>3. \A j \in T : j + 1 \in V /\ (j + 1) - 1 = j /\ j \in Int
    OBVIOUS
  <2>4. g \in Bijection(V, T)
    <3>1. g \in [V -> T]
      BY <2>2
    <3>2. \A a, b \in V : g[a] = g[b] => a = b
      BY <2>1
    <3>3. \A j \in T : \E i \in V : g[i] = j
      BY <2>3
    <3> QED
      BY <3>1, <3>2, <3>3 DEF Bijection, Injection, Surjection, IsInjective
  <2> QED
    BY <2>4 DEF ExistsBijection
<1>5. Cardinality(T) = Cardinality(V)
  BY <1>2, <1>4, FS_Bijection
<1>6. Count(q, M) = Cardinality(U) /\ Count(Tail(q), M) = Cardinality(T)
  BY DEF Count
<1> HIDE DEF T, U, V
<1> QED
  BY <1>1, <1>2, <1>3, <1>5, <1>6

\* What a receiver does to a queue.
LEMMA CountTake ==
  ASSUME NEW S, NEW q \in Seq(S), q # <<>>, NEW M
  PROVE  /\ Tail(q) \in Seq(S)
         /\ Head(q) \in S
         /\ Len(Tail(q)) = Len(q) - 1
         /\ Count(Tail(q), M) \in Nat
         /\ Count(Tail(q), M) = Count(q, M) - (IF Head(q) \in M THEN 1 ELSE 0)
<1>1. Tail(q) \in Seq(S) /\ Head(q) \in S /\ Len(Tail(q)) = Len(q) - 1
  OBVIOUS
<1> QED
  BY <1>1, CountTail, Positions

\* Taking an element of M lowers the count by one.
LEMMA TakeOne ==
  ASSUME NEW S, NEW q \in Seq(S), q # <<>>, NEW M, Head(q) \in M
  PROVE  Count(Tail(q), M) = Count(q, M) - 1
BY CountTake

\* Taking an element outside M does not change the count.
LEMMA TakeOther ==
  ASSUME NEW S, NEW q \in Seq(S), q # <<>>, NEW M, Head(q) \notin M
  PROVE  Count(Tail(q), M) = Count(q, M)
<1>1. Count(q, M) \in Nat
  BY Positions
<1>2. Count(Tail(q), M) = Count(q, M) - 0
  BY CountTake
<1> QED
  BY <1>1, <1>2

\* Counting two sets of elements apart loses none of them.
LEMMA CountUnion ==
  ASSUME NEW S, NEW q \in Seq(S), NEW A, NEW B
  PROVE  Count(q, A \cup B) <= Count(q, A) + Count(q, B)
<1> DEFINE T == {i \in DOMAIN q : q[i] \in A}
           U == {i \in DOMAIN q : q[i] \in B}
           W == {i \in DOMAIN q : q[i] \in A \cup B}
<1>1. IsFiniteSet(T) /\ IsFiniteSet(U) /\ Cardinality(T) \in Nat /\ Cardinality(U) \in Nat
  BY Positions DEF Count
<1>2. W = T \cup U
  OBVIOUS
<1>3. Count(q, A) = Cardinality(T) /\ Count(q, B) = Cardinality(U) /\ Count(q, A \cup B) = Cardinality(W)
  BY DEF Count
<1> HIDE DEF T, U, W
<1>4. Cardinality(T \cup U) = Cardinality(T) + Cardinality(U) - Cardinality(T \cap U)
  BY <1>1, FS_Union
<1>5. Cardinality(T \cap U) \in Nat
  <2>1. IsFiniteSet(T \cap U)
    BY <1>1, FS_Intersection
  <2> QED
    BY <2>1, FS_CardinalityType
<1> QED
  BY <1>1, <1>2, <1>3, <1>4, <1>5

\* All the elements of a queue are counted when M holds whatever it may carry.
LEMMA CountAll ==
  ASSUME NEW S, NEW q \in Seq(S)
  PROVE  Count(q, S) = Len(q)
<1>1. {i \in DOMAIN q : q[i] \in S} = 1..Len(q)
  OBVIOUS
<1>2. \A n \in Nat : Cardinality(1..n) = n
  BY FS_Interval
<1>3. Len(q) \in Nat
  OBVIOUS
<1> QED
  BY <1>1, <1>2, <1>3 DEF Count

\* Counting in two queues one behind the other.
LEMMA CountConcat ==
  ASSUME NEW S, NEW q \in Seq(S), NEW t \in Seq(S), NEW M
  PROVE  Count(q \o t, M) = Count(q, M) + Count(t, M)
<1> DEFINE n == Len(q)
           A == {i \in DOMAIN q : q[i] \in M}
           B == {i \in DOMAIN t : t[i] \in M}
           C == {i \in n + 1 .. n + Len(t) : t[i - n] \in M}
           W == {i \in DOMAIN (q \o t) : (q \o t)[i] \in M}
<1>1. n \in Nat /\ Len(t) \in Nat
  OBVIOUS
<1>2. W = A \cup C /\ A \cap C = {}
  <2>1. q \o t \in Seq(S) /\ Len(q \o t) = n + Len(t)
    OBVIOUS
  <2>2. \A i \in 1..n : (q \o t)[i] = q[i]
    OBVIOUS
  <2>3. \A i \in n + 1 .. n + Len(t) : (q \o t)[i] = t[i - n]
    OBVIOUS
  <2>4. DOMAIN (q \o t) = (1..n) \cup (n + 1 .. n + Len(t)) /\ DOMAIN q = 1..n
    BY <1>1, <2>1
  <2>5. (1..n) \cap (n + 1 .. n + Len(t)) = {}
    BY <1>1
  <2> HIDE DEF n
  <2> QED
    BY <2>2, <2>3, <2>4, <2>5
<1>3. IsFiniteSet(A) /\ Cardinality(A) \in Nat /\ IsFiniteSet(B) /\ Cardinality(B) \in Nat
  BY Positions DEF Count
<1>4. ExistsBijection(B, C)
  <2> DEFINE g == [i \in B |-> i + n]
  <2>1. \A i \in B : i \in Int /\ i + n \in C
    BY <1>1
  <2>2. \A j \in C : j - n \in B /\ (j - n) + n = j
    BY <1>1
  <2>3. g \in Bijection(B, C)
    <3>1. g \in [B -> C]
      BY <2>1
    <3>2. \A a, b \in B : g[a] = g[b] => a = b
      BY <1>1, <2>1
    <3>3. \A j \in C : \E i \in B : g[i] = j
      BY <2>2
    <3> QED
      BY <3>1, <3>2, <3>3 DEF Bijection, Injection, Surjection, IsInjective
  <2> QED
    BY <2>3 DEF ExistsBijection
<1>5. IsFiniteSet(C) /\ Cardinality(C) = Cardinality(B)
  BY <1>3, <1>4, FS_Bijection
<1>6. Count(q \o t, M) = Cardinality(W) /\ Count(q, M) = Cardinality(A) /\ Count(t, M) = Cardinality(B)
  BY DEF Count
<1> HIDE DEF A, B, C, W
<1>7. Cardinality(A \cup C) = Cardinality(A) + Cardinality(C) - Cardinality(A \cap C)
  BY <1>3, <1>5, FS_Union
<1>8. Cardinality(A \cap C) = 0
  BY <1>2, FS_EmptySet
<1> QED
  BY <1>2, <1>3, <1>5, <1>6, <1>7, <1>8

\* An element put in front counts when it is in M.
LEMMA CountPrepend ==
  ASSUME NEW S, NEW q \in Seq(S), NEW m \in S, NEW M
  PROVE  /\ Len(<<m>> \o q) = Len(q) + 1
         /\ Count(<<m>> \o q, M) = Count(q, M) + (IF m \in M THEN 1 ELSE 0)
<1>1. <<>> \in Seq(S) /\ <<m>> = Append(<<>>, m)
  OBVIOUS
<1>2. <<m>> \in Seq(S) /\ Len(<<m>>) = 1
  OBVIOUS
<1>3. /\ Count(<<m>>, M) = IF m \in M THEN 1 ELSE 0
      /\ Count(<<m>> \o q, M) = Count(<<m>>, M) + Count(q, M)
  <2>1. Count(<<m>>, M) = Count(<<>>, M) + (IF m \in M THEN 1 ELSE 0)
    BY <1>1, CountAppend, Zenon
  <2>2. Count(<<>>, M) = 0
    BY CountEmpty
  <2>3. Count(<<m>> \o q, M) = Count(<<m>>, M) + Count(q, M)
    BY <1>2, CountConcat, Zenon
  <2> QED
    BY <2>1, <2>2, <2>3
<1>4. Count(q, M) \in Nat /\ Len(q) \in Nat
  <2>1. Len(q) \in Nat
    OBVIOUS
  <2> QED
    BY <2>1, Positions, Zenon
<1>5. Len(<<m>> \o q) = Len(<<m>>) + Len(q)
  BY <1>2
<1> QED
  BY <1>2, <1>3, <1>4, <1>5

\* The first two elements and the rest make up a sequence.
LEMMA SplitSeq ==
  ASSUME NEW S, NEW q \in Seq(S), Len(q) >= 2
  PROVE  /\ Len(SubSeq(q, 1, 2)) = 2
         /\ Len(SubSeq(q, 3, Len(q))) = Len(q) - 2
         /\ q = SubSeq(q, 1, 2) \o SubSeq(q, 3, Len(q))
<1>1. Len(q) \in Nat /\ Len(q) >= 2 /\ \A i \in 1..Len(q) : q[i] \in S
  OBVIOUS
<1>2. SubSeq(q, 1, 2) \o SubSeq(q, 3, Len(q)) = q
  <2>1. 1 \in 1..Len(q) + 1 /\ 2 \in 1 - 1 .. Len(q) /\ Len(q) \in 2..Len(q)
    BY <1>1
  <2>2. SubSeq(q, 1, 2) \o SubSeq(q, 2 + 1, Len(q)) = SubSeq(q, 1, Len(q))
    BY <2>1, ConcatAdjacentSubSeq
  <2> QED
    BY <2>2, SubSeqFull
<1>3. Len(SubSeq(q, 1, 2)) = 2
  BY <1>1, SubSeqProperties
<1>4. Len(SubSeq(q, 3, Len(q))) = Len(q) - 2
  <2>1. Len(SubSeq(q, 3, Len(q))) = IF 3 <= Len(q) THEN Len(q) - 3 + 1 ELSE 0
    BY <1>1, SubSeqProperties
  <2>2. \A n \in Nat : n >= 2 => (IF 3 <= n THEN n - 3 + 1 ELSE 0) = n - 2
    OBVIOUS
  <2> QED
    BY <1>1, <2>1, <2>2, Zenon
<1> QED
  BY <1>2, <1>3, <1>4

\* No element of a queue is there twice when each counts once at most.
LEMMA CountOnce ==
  ASSUME NEW S, NEW q \in Seq(S), \A b \in S : Count(q, {b}) <= 1
  PROVE  \A i, j \in DOMAIN q : q[i] = q[j] => i = j
<1> SUFFICES ASSUME NEW i \in DOMAIN q, NEW j \in DOMAIN q, q[i] = q[j], i # j
             PROVE  FALSE
  OBVIOUS
<1> DEFINE T == {k \in DOMAIN q : q[k] \in {q[i]}}
<1>1. IsFiniteSet(T) /\ Count(q, {q[i]}) = Cardinality(T)
  BY Positions DEF Count
<1>2. {i, j} \in SUBSET T /\ q[i] \in S
  OBVIOUS
<1> HIDE DEF T
<1>3. Cardinality({i, j}) = 2
  <2>1. Cardinality({i}) = 1 /\ IsFiniteSet({i})
    BY FS_Singleton
  <2>2. {i, j} = {i} \cup {j} /\ j \notin {i}
    OBVIOUS
  <2>3. Cardinality({i} \cup {j}) = Cardinality({i}) + 1
    BY <2>1, <2>2, FS_AddElement
  <2>4. Cardinality({i} \cup {j}) = 2
    BY <2>1, <2>3
  <2> QED
    BY <2>2, <2>4, Zenon
<1>4. Cardinality({i, j}) <= Cardinality(T)
  BY <1>1, <1>2, FS_Subset
<1>5. Cardinality(T) \in Nat
  BY <1>1, FS_CardinalityType
<1>6. Cardinality(T) <= 1
  BY <1>1, <1>2
<1> QED
  BY <1>3, <1>4, <1>5, <1>6

\* The buffers as the driver's init submits them: each of them once.
LEMMA CountIdentity ==
  ASSUME NEW n \in Nat, NEW b \in 1..n
  PROVE  Count([i \in 1..n |-> i], {b}) = 1
<1> DEFINE g == [i \in 1..n |-> i]
<1>1. {k \in DOMAIN g : g[k] \in {b}} = {b}
  OBVIOUS
<1> HIDE DEF g
<1>2. Count(g, {b}) = Cardinality({b})
  BY <1>1 DEF Count
<1>3. Count(g, {b}) = 1
  BY <1>2, FS_Singleton
<1> QED
  BY <1>3 DEF g
=============================================================================
