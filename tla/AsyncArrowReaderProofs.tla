----------------------- MODULE AsyncArrowReaderProofs -----------------------
(***************************************************************************)
(* Theorems about AsyncArrowReader, for every queue size and every length  *)
(* of the stream.                                                          *)
(***************************************************************************)
EXTENDS AsyncArrowReader, Integers, TLAPS

\* Only the last item of the queue can be other than a batch, and then the
\* thread has ended.  The consumer waits only for an open reader.
Shape ==
  /\ \A i \in 1..Len(queue) :
       queue[i].kind # "batch" => i = Len(queue) /\ thread = "ended"
  /\ pc = "get" => ~closed /\ answer = "none"
  /\ pc \in {"close_sync", "drain", "join"} => closed /\ answer = "none"
  /\ pc = "close_sync" => ~syncClosed
  /\ pc \in {"drain", "join"} => syncClosed
  /\ syncClosed => closed
  /\ thread = "late" => syncClosed

\* An end that the thread has found is the end of the whole stream.
EndIsTrue ==
  ~closed =>
    /\ thread = "put" /\ item.kind = "end" => taken = Batches
    /\ \A i \in 1..Len(queue) : queue[i].kind = "end" => taken = Batches

IInv == TypeOK /\ Shape /\ NothingLost /\ EndIsTrue

\* What the thread can still do once the queue has been drained: put the
\* batch it was reading, then, for the reader is closed, the end or an error.
ClosedWithRoom ==
  pc = "join" \/ answer = "closed" =>
    /\ syncClosed
    /\ thread \in {"none", "reading"} \/ InHand => queue = <<>>
    /\ thread \in {"next", "late", "put"} => Len(queue) <= 1

-----------------------------------------------------------------------------
USE SizesAssumption DEF SizesAssumption, consumer, producer, vars

LEMMA TailOfQueue ==
  ASSUME NEW S, NEW q \in Seq(S), q # <<>>
  PROVE  /\ Head(q) = q[1] /\ Head(q) \in S
         /\ Tail(q) \in Seq(S) /\ Len(q) \in Nat \ {0} /\ Len(Tail(q)) = Len(q) - 1
         /\ \A i \in 1..Len(Tail(q)) : Tail(q)[i] = q[i + 1]
OBVIOUS

LEMMA AppendToQueue ==
  ASSUME NEW S, NEW q \in Seq(S), NEW x \in S
  PROVE  /\ Append(q, x) \in Seq(S) /\ Len(q) \in Nat /\ Len(Append(q, x)) = Len(q) + 1
         /\ Append(q, x)[Len(q) + 1] = x
         /\ \A i \in 1..Len(q) : Append(q, x)[i] = q[i]
OBVIOUS

LEMMA ItemTypes ==
  /\ End \in Items /\ End.kind = "end"
  /\ Error \in Items /\ Error.kind = "error"
  /\ \A n \in 0..Batches :
       Batch(n) \in Items /\ Batch(n).kind = "batch" /\ Batch(n).number = n
  /\ \A x \in Items : x.kind \in {"batch", "end", "error"} /\ x.number \in 0..Batches
BY DEF End, Error, Batch, Items

LEMMA EmptyQueue == ASSUME NEW S, NEW q \in Seq(S), Len(q) = 0 PROVE q = <<>>
OBVIOUS

LEMMA NoItems == ASSUME NEW S PROVE <<>> \in Seq(S) /\ Len(<<>>) = 0
OBVIOUS

LEMMA InitIInv == Init => IInv
<1> SUFFICES ASSUME Init PROVE IInv
  OBVIOUS
<1>1. TypeOK
  <2>1. queue \in Seq(Items) /\ Len(queue) <= QueueSize /\ delivered \in Seq(1..Batches)
    BY NoItems DEF Init
  <2>2. item \in Items /\ taken \in 0..Batches
    BY ItemTypes DEF Init
  <2> QED
    BY <2>1, <2>2 DEF Init, TypeOK
<1>2. Shape /\ EndIsTrue
  BY DEF Init, Shape, EndIsTrue
<1>3. NothingLost
  BY DEF Init, NothingLost, InHand, BatchesQueued
<1> QED
  BY <1>1, <1>2, <1>3 DEF IInv

LEMMA TypeStep ==
  ASSUME IInv, [Next]_vars
  PROVE  TypeOK'
<1> USE DEF IInv, TypeOK
<1>1. CASE Read \/ Iter
  BY <1>1 DEF Read, Iter
<1>2. CASE Get
  <2>1. queue \in Seq(Items) /\ queue # <<>>
    BY <1>2 DEF Get
  <2>2. queue' \in Seq(Items) /\ Len(queue') <= QueueSize
    BY <1>2, <2>1, TailOfQueue DEF Get
  <2>3. Head(queue) = queue[1] /\ Head(queue) \in Items /\ 1 \in 1..Len(queue)
    BY <2>1, TailOfQueue
  <2>4. answer' \in {"batch", "end", "error"}
    BY <1>2, <2>3, ItemTypes DEF Get
  <2>5. delivered' \in Seq(1..Batches)
    <3>1. CASE Head(queue).kind = "batch"
      <4>1. Head(queue).number = Len(delivered) + 1
        BY <1>2, <2>3, <3>1 DEF Get, Shape, NothingLost
      <4>2. Head(queue).number \in 0..Batches
        BY <2>3, ItemTypes
      <4>3. Len(delivered) \in Nat
        OBVIOUS
      <4>4. Head(queue).number \in 1..Batches
        BY <4>1, <4>2, <4>3
      <4> QED
        BY <1>2, <3>1, <4>4, AppendToQueue DEF Get
    <3>2. CASE Head(queue).kind # "batch"
      BY <1>2, <3>2 DEF Get
    <3> QED
      BY <3>1, <3>2
  <2>6. finished' \in BOOLEAN
    BY <1>2 DEF Get, FinishedBy
  <2> QED
    BY <1>2, <2>2, <2>4, <2>5, <2>6 DEF Get
<1>3. CASE Close
  BY <1>3 DEF Close
<1>4. CASE CloseSync
  BY <1>4 DEF CloseSync
<1>5. CASE Drain
  <2>1. queue' \in Seq(Items) /\ Len(queue') <= QueueSize
    BY <1>5, TailOfQueue DEF Drain, Drained
  <2> QED
    BY <1>5, <2>1 DEF Drain
<1>6. CASE DrainEnds
  BY <1>6 DEF DrainEnds
<1>7. CASE Join
  BY <1>7 DEF Join
<1>8. CASE StartNext
  BY <1>8 DEF StartNext
<1>9. CASE ReadBatch
  <2>1. taken' \in 0..Batches /\ item' \in Items
    BY <1>9, ItemTypes DEF ReadBatch
  <2> QED
    BY <1>9, <2>1 DEF ReadBatch
<1>10. CASE StopReading
  <2>1. item' \in Items
    BY <1>10, ItemTypes DEF StopReading, OnException
  <2> QED
    BY <1>10, <2>1 DEF StopReading
<1>11. CASE Put
  <2>1. queue' \in Seq(Items) /\ Len(queue') <= QueueSize
    BY <1>11, AppendToQueue DEF Put, HasRoom, PutLast
  <2> QED
    BY <1>11, <2>1 DEF Put
<1>12. CASE UNCHANGED vars
  BY <1>12
<1> QED
  BY <1>1, <1>2, <1>3, <1>4, <1>5, <1>6, <1>7, <1>8, <1>9, <1>10, <1>11, <1>12
  DEF Next, ConsumerContinues, ProducerSteps

LEMMA ShapeStep ==
  ASSUME IInv, [Next]_vars
  PROVE  Shape'
<1> USE DEF IInv, TypeOK, Items, Shape
<1>1. CASE Read \/ Iter
  BY <1>1 DEF Read, Iter
<1>2. CASE Get
  BY <1>2 DEF Get
<1>3. CASE Close
  BY <1>3 DEF Close
<1>4. CASE CloseSync
  BY <1>4 DEF CloseSync
<1>5. CASE Drain
  BY <1>5 DEF Drain, Drained
<1>6. CASE DrainEnds
  BY <1>6 DEF DrainEnds
<1>7. CASE Join
  BY <1>7 DEF Join
<1>8. CASE StartNext
  BY <1>8 DEF StartNext
<1>9. CASE ReadBatch
  BY <1>9 DEF ReadBatch
<1>10. CASE StopReading
  BY <1>10 DEF StopReading
<1>11. CASE Put
  BY <1>11 DEF Put, HasRoom, PutLast
<1>12. CASE UNCHANGED vars
  BY <1>12
<1> QED
  BY <1>1, <1>2, <1>3, <1>4, <1>5, <1>6, <1>7, <1>8, <1>9, <1>10, <1>11, <1>12
  DEF Next, ConsumerContinues, ProducerSteps

LEMMA NothingLostStep ==
  ASSUME IInv, [Next]_vars
  PROVE  NothingLost'
<1> SUFFICES ASSUME ~closed' PROVE NothingLost'
  BY DEF NothingLost
<1> DEFINE Numbered(q, n) == \A i \in 1..Len(q) : q[i].kind = "batch" => q[i].number = n + i
           InOrder(d) == \A i \in 1..Len(d) : d[i] = i
<1>a. ~closed =>
        /\ InOrder(delivered) /\ Numbered(queue, Len(delivered))
        /\ InHand => item.number = Len(delivered) + Len(queue) + 1
        /\ taken = Len(delivered) + BatchesQueued + (IF InHand THEN 1 ELSE 0)
  BY DEF IInv, NothingLost
<1>b. SUFFICES
        /\ InOrder(delivered') /\ Numbered(queue', Len(delivered'))
        /\ InHand' => item'.number = Len(delivered') + Len(queue') + 1
        /\ taken' = Len(delivered') + BatchesQueued' + (IF InHand' THEN 1 ELSE 0)
  BY DEF NothingLost
<1>c. /\ Len(delivered) \in Nat /\ delivered \in Seq(1..Batches) /\ queue \in Seq(Items)
      /\ taken \in 0..Batches /\ Len(queue) \in Nat /\ item \in Items
  BY DEF IInv, TypeOK
<1>1. CASE Read \/ Iter
  <2>1. /\ ~closed /\ UNCHANGED <<queue, delivered, item, taken>>
        /\ thread' = "put" <=> thread = "put"
    BY <1>1 DEF Read, Iter
  <2>2. BatchesQueued' = BatchesQueued /\ InHand' = InHand
    BY <2>1 DEF BatchesQueued, InHand
  <2> HIDE DEF InOrder, Numbered
  <2> QED
    BY <1>a, <2>1, <2>2
<1>2. CASE Get
  <2>1. /\ queue # <<>> /\ ~closed
        /\ queue' = Tail(queue) /\ UNCHANGED <<thread, item, taken>>
    BY <1>2 DEF Get
  <2>2. /\ Head(queue) = queue[1] /\ queue[1] \in Items /\ Len(queue) \in Nat \ {0}
        /\ Len(queue') = Len(queue) - 1
        /\ \A i \in 1..Len(queue') : queue'[i] = queue[i + 1]
    BY <1>c, <2>1, TailOfQueue
  <2>q. queue' \in Seq(Items) /\ Len(queue') \in Nat /\ UNCHANGED item /\ UNCHANGED thread
    BY <1>c, <2>1, TailOfQueue
  <2>3. 1 \in 1..Len(queue)
    BY <2>2
  <2>4. CASE queue[1].kind = "batch"
    <3>1. queue[1].number = Len(delivered) + 1
      BY <1>a, <2>1, <2>3, <2>4
    <3>2. queue[1].number \in 0..Batches
      BY <2>2, ItemTypes
    <3>3. Len(delivered) + 1 \in 1..Batches
      BY <1>c, <3>1, <3>2
    <3>4. delivered' = Append(delivered, Len(delivered) + 1)
      BY <1>2, <2>2, <2>4, <3>1 DEF Get
    <3>5. /\ Len(delivered') = Len(delivered) + 1
          /\ delivered'[Len(delivered) + 1] = Len(delivered) + 1
          /\ \A i \in 1..Len(delivered) : delivered'[i] = delivered[i]
      BY <1>c, <3>3, <3>4, AppendToQueue
    <3>6. InOrder(delivered')
      <4> SUFFICES ASSUME NEW i \in 1..Len(delivered') PROVE delivered'[i] = i
        OBVIOUS
      <4>1. CASE i \in 1..Len(delivered)
        BY <1>a, <2>1, <3>5, <4>1
      <4>2. CASE i = Len(delivered) + 1
        BY <3>5, <4>2
      <4> QED
        BY <1>c, <3>5, <4>1, <4>2
    <3>7. Numbered(queue', Len(delivered'))
      <4> SUFFICES ASSUME NEW i \in 1..Len(queue'), queue'[i].kind = "batch"
                   PROVE  queue'[i].number = Len(delivered') + i
        OBVIOUS
      <4>1. i + 1 \in 1..Len(queue) /\ queue'[i] = queue[i + 1]
        BY <2>2
      <4>2. queue[i + 1].number = Len(delivered) + (i + 1)
        BY <1>a, <2>1, <4>1
      <4> QED
        BY <1>c, <3>5, <4>1, <4>2
    <3>8. BatchesQueued' = BatchesQueued - 1
      <4>1. CASE Len(queue) = 1
        <5>1. queue' = <<>> /\ Len(queue') = 0
          BY <2>2, <2>q, <4>1, EmptyQueue
        <5>2. BatchesQueued = 1
          BY <2>1, <2>4, <4>1 DEF BatchesQueued
        <5>3. BatchesQueued' = 0
          BY <5>1 DEF BatchesQueued
        <5> QED
          BY <5>2, <5>3
      <4>2. CASE Len(queue) > 1
        <5>1. queue'[Len(queue')] = queue[Len(queue)] /\ queue' # <<>>
          BY <2>2, <4>2
        <5> QED
          BY <2>1, <2>2, <5>1 DEF BatchesQueued
      <4> QED
        BY <2>2, <4>1, <4>2
    <3>9. InHand' = InHand /\ BatchesQueued \in Int
      <4>1. InHand' = InHand
        BY <2>q DEF InHand
      <4>2. BatchesQueued \in Int
        BY <1>c DEF BatchesQueued
      <4> QED
        BY <4>1, <4>2
    <3>10. InHand' => item'.number = Len(delivered') + Len(queue') + 1
      <4>1. InHand => item.number = Len(delivered) + Len(queue) + 1
        BY <1>a, <2>1
      <4>2. Len(delivered') + Len(queue') + 1 = Len(delivered) + Len(queue) + 1
        BY <1>c, <2>2, <3>5
      <4>3. item' = item
        BY <2>q
      <4> QED
        BY <3>9, <4>1, <4>2, <4>3
    <3>11. taken' = Len(delivered') + BatchesQueued' + (IF InHand' THEN 1 ELSE 0)
      <4> DEFINE hand == IF InHand THEN 1 ELSE 0
      <4>1. hand' = hand /\ hand \in Int
        BY <3>9
      <4>2. taken = Len(delivered) + BatchesQueued + hand /\ taken' = taken
        BY <1>a, <2>1
      <4> HIDE DEF hand
      <4>3. taken' = Len(delivered') + BatchesQueued' + hand'
        BY <1>c, <3>5, <3>8, <3>9, <4>1, <4>2
      <4> QED
        BY <4>3 DEF hand
    <3> QED
      BY <3>6, <3>7, <3>10, <3>11
  <2>5. CASE queue[1].kind # "batch"
    <3>1. Len(queue) = 1 /\ thread = "ended"
      BY <2>2, <2>3, <2>5 DEF IInv, Shape
    <3>2. queue' = <<>> /\ Len(queue') = 0
      BY <2>2, <2>q, <3>1, EmptyQueue
    <3>3. BatchesQueued = 0 /\ BatchesQueued' = 0
      BY <2>1, <2>5, <3>1, <3>2 DEF BatchesQueued
    <3>4. delivered' = delivered /\ ~InHand /\ ~InHand'
      BY <1>2, <2>1, <2>2, <2>5, <3>1 DEF Get, InHand
    <3>5. Numbered(queue', Len(delivered'))
      BY <3>2
    <3>6. taken' = Len(delivered') + BatchesQueued' + (IF InHand' THEN 1 ELSE 0)
      BY <1>a, <1>c, <2>1, <3>3, <3>4
    <3> QED
      BY <1>a, <2>1, <3>4, <3>5, <3>6
  <2> QED
    BY <2>4, <2>5
<1>3. CASE Close \/ CloseSync \/ Drain \/ DrainEnds \/ Join
  BY <1>3 DEF Close, CloseSync, Drain, DrainEnds, Join, IInv, Shape
<1>4. CASE StartNext
  BY <1>4, <1>a DEF StartNext, InHand, BatchesQueued
<1>5. CASE ReadBatch
  <2>1. /\ ~closed /\ taken' = taken + 1 /\ taken + 1 \in 0..Batches
        /\ item' = Batch(taken + 1) /\ thread = "reading" /\ thread' = "put"
        /\ UNCHANGED <<queue, delivered>>
    BY <1>5, <1>c DEF ReadBatch
  <2>2. ~InHand /\ InHand' /\ item'.number = taken + 1
    BY <2>1, ItemTypes DEF InHand
  <2>3. BatchesQueued = Len(queue)
    BY <1>c, <2>1 DEF BatchesQueued, IInv, Shape
  <2>4. BatchesQueued' = BatchesQueued
    BY <2>1 DEF BatchesQueued
  <2> QED
    BY <1>a, <1>c, <2>1, <2>2, <2>3, <2>4
<1>6. CASE StopReading
  <2>1. ~InHand /\ ~InHand'
    BY <1>6, ItemTypes DEF StopReading, OnException, InHand
  <2> QED
    BY <1>6, <1>a, <2>1 DEF StopReading, BatchesQueued
<1>7. CASE Put
  <2>1. /\ queue' = Append(queue, item) /\ thread = "put" /\ thread' # "put" /\ ~closed
        /\ UNCHANGED <<delivered, taken, item>>
    BY <1>7 DEF Put, PutLast
  <2>2. /\ Len(queue') = Len(queue) + 1 /\ queue'[Len(queue) + 1] = item
        /\ \A i \in 1..Len(queue) : queue'[i] = queue[i]
    BY <1>c, <2>1, AppendToQueue
  <2>3. BatchesQueued = Len(queue)
    BY <1>c, <2>1 DEF BatchesQueued, IInv, Shape
  <2>4. queue' # <<>>
    BY <1>c, <2>2
  <2>5. ~InHand' /\ (InHand <=> item.kind = "batch")
    BY <2>1 DEF InHand
  <2>6. BatchesQueued' = IF InHand THEN Len(queue) + 1 ELSE Len(queue)
    BY <1>c, <2>1, <2>2, <2>4, <2>5 DEF BatchesQueued
  <2>7. Numbered(queue', Len(delivered'))
    <3> SUFFICES ASSUME NEW i \in 1..Len(queue'), queue'[i].kind = "batch"
                 PROVE  queue'[i].number = Len(delivered') + i
      OBVIOUS
    <3>1. CASE i \in 1..Len(queue)
      BY <1>a, <2>1, <2>2, <3>1
    <3>2. CASE i = Len(queue) + 1
      BY <1>a, <1>c, <2>1, <2>2, <2>5, <3>2
    <3> QED
      BY <1>c, <2>2, <3>1, <3>2
  <2> HIDE DEF InOrder, Numbered
  <2> QED
    BY <1>a, <1>c, <2>1, <2>3, <2>5, <2>6, <2>7
<1>8. CASE UNCHANGED vars
  BY <1>8, <1>a DEF InHand, BatchesQueued
<1> QED
  BY <1>1, <1>2, <1>3, <1>4, <1>5, <1>6, <1>7, <1>8
  DEF Next, ConsumerContinues, ProducerSteps

LEMMA EndIsTrueStep ==
  ASSUME IInv, [Next]_vars
  PROVE  EndIsTrue'
<1> SUFFICES ASSUME ~closed' PROVE EndIsTrue'
  BY DEF EndIsTrue
<1> USE DEF IInv, TypeOK, Items, Shape, EndIsTrue
<1>1. CASE Read \/ Iter
  BY <1>1 DEF Read, Iter
<1>2. CASE Get
  BY <1>2 DEF Get
<1>3. CASE Close \/ CloseSync \/ Drain \/ DrainEnds \/ Join
  BY <1>3 DEF Close, CloseSync, Drain, DrainEnds, Join
<1>4. CASE StartNext
  BY <1>4 DEF StartNext
<1>5. CASE ReadBatch
  BY <1>5 DEF ReadBatch, Batch
<1>6. CASE StopReading
  BY <1>6 DEF StopReading, End, OnException, Error
<1>7. CASE Put
  BY <1>7 DEF Put, HasRoom, PutLast
<1>8. CASE UNCHANGED vars
  BY <1>8
<1> QED
  BY <1>1, <1>2, <1>3, <1>4, <1>5, <1>6, <1>7, <1>8
  DEF Next, ConsumerContinues, ProducerSteps

LEMMA NextIInv == IInv /\ [Next]_vars => IInv'
BY TypeStep, ShapeStep, NothingLostStep, EndIsTrueStep DEF IInv

LEMMA Invariance == Spec => []IInv
BY InitIInv, NextIInv, PTL DEF Spec

LEMMA RoomStep ==
  ASSUME QueueSize >= 2, IInv, ClosedWithRoom, [Next]_vars
  PROVE  ClosedWithRoom'
<1> USE DEF IInv, TypeOK, Items, Shape, ClosedWithRoom, InHand
<1>1. CASE Read \/ Iter
  BY <1>1 DEF Read, Iter
<1>2. CASE Get
  <2>1. Head(queue) \in Items
    BY <1>2, TailOfQueue DEF Get
  <2>2. answer' # "closed" /\ pc' = "idle"
    BY <1>2, <2>1, ItemTypes DEF Get
  <2> QED
    BY <2>2
<1>3. CASE Close
  BY <1>3 DEF Close
<1>4. CASE CloseSync
  BY <1>4 DEF CloseSync
<1>5. CASE Drain
  BY <1>5 DEF Drain, Drained
<1>6. CASE DrainEnds
  BY <1>6 DEF DrainEnds, Drained
<1>7. CASE Join
  BY <1>7 DEF Join
<1>8. CASE StartNext
  BY <1>8 DEF StartNext
<1>9. CASE ReadBatch
  BY <1>9 DEF ReadBatch
<1>10. CASE StopReading
  BY <1>10 DEF StopReading, End, OnException, Error
<1>11. CASE Put
  BY <1>11 DEF Put, HasRoom, PutLast
<1>12. CASE UNCHANGED vars
  BY <1>12
<1> QED
  BY <1>1, <1>2, <1>3, <1>4, <1>5, <1>6, <1>7, <1>8, <1>9, <1>10, <1>11, <1>12
  DEF Next, ConsumerContinues, ProducerSteps

-----------------------------------------------------------------------------
(* Every state is well typed, and the queue is within its size.             *)
THEOREM TypeCorrect == Spec => []TypeOK
BY Invariance, PTL DEF IInv

(* Nothing read from the stream is lost, reordered or doubled on its way to *)
(* the consumer of an open reader.                                          *)
THEOREM NothingIsLost == Spec => []NothingLost
BY Invariance, PTL DEF IInv

(* A read that waited is told of the end only when it has every batch.      *)
THEOREM EndIsTheEnd == Spec => EndMeansAll
<1>1. ASSUME IInv, [Next]_vars
      PROVE  [pc = "get" /\ answer' = "end" => Len(delivered) = Batches]_vars
  <2> SUFFICES ASSUME pc = "get", answer' = "end", ~ UNCHANGED vars
               PROVE  Len(delivered) = Batches
    OBVIOUS
  <2>1. Get
    BY <1>1 DEF Next, ConsumerContinues, ProducerSteps, Read, Iter, Close, CloseSync,
       Drain, DrainEnds, Join, StartNext, ReadBatch, StopReading, Put, IInv, Shape
  <2>2. queue \in Seq(Items) /\ queue # <<>> /\ ~closed /\ queue[1].kind = "end"
    BY <1>1, <2>1, TailOfQueue DEF Get, IInv, TypeOK, Shape
  <2>3. 1 \in 1..Len(queue)
    BY <2>2, TailOfQueue
  <2>4. Len(queue) = 1 /\ thread = "ended" /\ taken = Batches
    BY <1>1, <2>2, <2>3 DEF IInv, Shape, EndIsTrue
  <2>5. BatchesQueued = 0 /\ ~InHand
    BY <2>2, <2>4 DEF BatchesQueued, InHand
  <2>6. taken = Len(delivered) + BatchesQueued + (IF InHand THEN 1 ELSE 0)
    BY <1>1, <2>2 DEF IInv, NothingLost
  <2>7. Len(delivered) \in Nat
    BY <1>1 DEF IInv, TypeOK
  <2> QED
    BY <2>4, <2>5, <2>6, <2>7
<1> QED
  BY <1>1, Invariance, PTL DEF Spec, EndMeansAll

(* With room for two items, the default, whatever the thread still puts     *)
(* after close() has drained the queue finds room.                          *)
THEOREM RoomAfterClose == ASSUME QueueSize >= 2 PROVE Spec => []ThreadHasRoom
<1>1. Init => ClosedWithRoom
  BY DEF Init, ClosedWithRoom
<1>2. IInv /\ ClosedWithRoom /\ [Next]_vars => ClosedWithRoom'
  BY RoomStep
<1>3. IInv /\ ClosedWithRoom => ThreadHasRoom
  BY DEF IInv, TypeOK, ClosedWithRoom, ThreadHasRoom
<1> QED
  BY <1>1, <1>2, <1>3, Invariance, PTL DEF Spec

-----------------------------------------------------------------------------
(* Progress.  The provers do not compute ENABLED: of it they are given      *)
(* GuardsSuffice, that the consumer and the thread can step where the       *)
(* guards of their actions hold.  The rest is proved: which of them can     *)
(* step, that its step brings the call nearer to its end, and that no step  *)
(* of the other undoes that.                                                *)

\* A thread that has ended has left the end or an error in the queue, unless
\* the consumer has seen it; a read waits only for a thread that was started.
EndAwaits ==
  /\ pc = "get" => ~finished /\ thread # "none"
  /\ thread = "ended" /\ ~closed /\ ~finished =>
       queue # <<>> /\ queue[Len(queue)].kind # "batch"

LEMMA EndAwaitsStep ==
  ASSUME IInv, EndAwaits, [Next]_vars
  PROVE  EndAwaits'
<1> USE DEF IInv, TypeOK, Items, Shape, EndAwaits
<1>1. CASE Read \/ Iter
  BY <1>1 DEF Read, Iter
<1>2. CASE Get
  <2>1. /\ queue # <<>> /\ queue \in Seq(Items) /\ UNCHANGED <<thread, closed>>
        /\ queue' = Tail(queue) /\ pc' = "idle" /\ ~finished
        /\ finished' = (Head(queue).kind # "batch")
    BY <1>2 DEF Get, FinishedBy
  <2>2. SUFFICES ASSUME thread = "ended", ~closed, Head(queue).kind = "batch"
                 PROVE  queue' # <<>> /\ queue'[Len(queue')].kind # "batch"
    BY <2>1
  <2>3. Len(queue) # 1
    BY <2>1, <2>2, TailOfQueue
  <2>4. /\ queue' \in Seq(Items) /\ Len(queue) \in Nat \ {0} /\ Len(queue') = Len(queue) - 1
        /\ \A i \in 1..Len(queue') : queue'[i] = queue[i + 1]
    BY <2>1, TailOfQueue
  <2>5. Len(queue') \in 1..Len(queue') /\ queue'[Len(queue')] = queue[Len(queue)]
    BY <2>3, <2>4
  <2>6. queue' # <<>>
    BY <2>5, NoItems
  <2> QED
    BY <2>1, <2>2, <2>5, <2>6
<1>3. CASE Close \/ CloseSync \/ Drain \/ DrainEnds \/ Join
  BY <1>3 DEF Close, CloseSync, Drain, DrainEnds, Join
<1>4. CASE StartNext \/ ReadBatch \/ StopReading
  BY <1>4 DEF StartNext, ReadBatch, StopReading
<1>5. CASE Put
  <2>1. queue' = Append(queue, item) /\ UNCHANGED <<pc, finished, closed>> /\ thread # "none"
        /\ thread' = IF item.kind = "batch" THEN "next" ELSE "ended"
    BY <1>5 DEF Put, PutLast
  <2>2. Len(queue') = Len(queue) + 1 /\ queue'[Len(queue')] = item /\ Len(queue) \in Nat
    BY <2>1, AppendToQueue
  <2>3. queue' # <<>>
    BY <2>2, NoItems
  <2> QED
    BY <2>1, <2>2, <2>3
<1>6. CASE UNCHANGED vars
  BY <1>6
<1> QED
  BY <1>1, <1>2, <1>3, <1>4, <1>5, <1>6 DEF Next, ConsumerContinues, ProducerSteps

LEMMA EndIsAwaited == Spec => []EndAwaits
<1>1. Init => EndAwaits
  BY DEF Init, EndAwaits
<1> QED
  BY <1>1, EndAwaitsStep, Invariance, PTL DEF Spec

(* Whoever a call waits for can step: the consumer itself, or the thread    *)
(* when the consumer reads from an empty queue.                             *)
THEOREM NobodyIsStuck == Spec /\ []GuardsSuffice => []CallNotStuck
<1>1. ASSUME IInv, EndAwaits, GuardsSuffice
      PROVE  CallNotStuck
  <2>1. CASE pc = "get" /\ queue = <<>>
    <3>1. thread \in {"next", "reading", "late", "put"}
      BY <1>1, <2>1 DEF IInv, TypeOK, Shape, EndAwaits
    <3>2. Len(queue) < QueueSize
      BY <2>1, NoItems
    <3>3. ProducerGuard
      BY <3>1, <3>2 DEF ProducerGuard, HasRoom
    <3> QED
      BY <1>1, <2>1, <3>3 DEF CallNotStuck
  <2>2. CASE pc # "idle" /\ ~(pc = "get" /\ queue = <<>>)
    <3>1. ConsumerGuard
      BY <1>1, <2>2 DEF IInv, TypeOK, ConsumerGuard
    <3> QED
      BY <1>1, <2>2, <3>1 DEF CallNotStuck
  <2> QED
    BY <1>1, <2>1, <2>2 DEF CallNotStuck
<1> QED
  BY <1>1, Invariance, EndIsAwaited, PTL

\* How far a read that waits is from its batch.
Asked == pc = "get"
Idle == pc = "idle"
Offered == pc = "get" /\ queue # <<>>
Offering == pc = "get" /\ queue = <<>> /\ thread = "put"
Reading == pc = "get" /\ queue = <<>> /\ thread \in {"reading", "late"}
Starting == pc = "get" /\ queue = <<>> /\ thread = "next"

\* What a step of the thread does for it.
ThreadAdvances ==
  \/ thread = "next" /\ thread' \in {"reading", "late"} /\ queue' = queue
  \/ thread \in {"reading", "late"} /\ thread' = "put" /\ queue' = queue
  \/ thread = "put" /\ queue' # <<>>

LEMMA ReadComesNearer ==
  ASSUME IInv, EndAwaits
  PROVE  /\ Asked => Offered \/ Offering \/ Reading \/ Starting
         /\ Offered /\ [Next]_vars => Offered' \/ Idle'
         /\ Offered /\ <<ConsumerContinues>>_vars => Idle'
         /\ Offering /\ [Next]_vars => Offering' \/ Offered'
         /\ Offering /\ <<ProducerSteps>>_vars => Offered'
         /\ Reading /\ [Next]_vars => Reading' \/ Offering'
         /\ Reading /\ <<ProducerSteps>>_vars => Offering'
         /\ Starting /\ [Next]_vars => Starting' \/ Reading'
         /\ Starting /\ <<ProducerSteps>>_vars => Reading'
         /\ Offered => ConsumerGuard
         /\ Offering \/ Reading \/ Starting => ProducerGuard
<1> USE DEF IInv, TypeOK, Shape, EndAwaits, Offered, Offering, Reading, Starting, Asked, Idle
<1>1. Asked => Offered \/ Offering \/ Reading \/ Starting
  OBVIOUS
<1>2. /\ Offered => ConsumerGuard
      /\ Offering \/ Reading \/ Starting => ProducerGuard
  BY NoItems DEF ConsumerGuard, ProducerGuard, HasRoom
<1>3. ASSUME pc = "get", [Next]_vars
      PROVE  \/ queue # <<>> /\ pc' = "idle"
             \/ UNCHANGED <<queue, consumer, producer>>
             \/ ~ConsumerContinues /\ pc' = pc /\ ThreadAdvances
  <2>1. CASE Get
    BY <2>1 DEF Get
  <2>2. CASE StartNext \/ ReadBatch \/ StopReading
    <3>1. ~ConsumerContinues /\ pc' = pc /\ queue' = queue
      BY <1>3, <2>2 DEF StartNext, ReadBatch, StopReading, ConsumerContinues, Get, CloseSync,
         Drain, DrainEnds, Join
    <3>2. \/ thread = "next" /\ thread' \in {"reading", "late"}
          \/ thread \in {"reading", "late"} /\ thread' = "put"
      BY <2>2 DEF StartNext, ReadBatch, StopReading
    <3> QED
      BY <2>2, <3>1, <3>2 DEF StartNext, ReadBatch, StopReading, ThreadAdvances
  <2>3. CASE Put
    <3>1. queue' # <<>>
      BY <2>3, AppendToQueue, NoItems DEF Put, PutLast
    <3>2. ~ConsumerContinues /\ pc' = pc /\ thread = "put"
      BY <1>3, <2>3 DEF Put, ConsumerContinues, Get, CloseSync, Drain, DrainEnds, Join
    <3> QED
      BY <3>1, <3>2 DEF ThreadAdvances
  <2>4. ~Read /\ ~Iter /\ ~Close /\ ~CloseSync /\ ~Drain /\ ~DrainEnds /\ ~Join
    BY <1>3 DEF Read, Iter, Close, CloseSync, Drain, DrainEnds, Join
  <2> QED
    BY <1>3, <2>1, <2>2, <2>3, <2>4 DEF Next, ConsumerContinues, ProducerSteps
<1>5. ProducerSteps \/ ConsumerContinues => Next
  BY DEF Next
<1>6. Offered /\ [Next]_vars => Offered' \/ Idle'
  BY <1>3 DEF ThreadAdvances
<1>7. Offered /\ <<ConsumerContinues>>_vars => Idle'
  BY <1>3, <1>5
<1>8. ASSUME Offering \/ Reading \/ Starting, [Next]_vars
      PROVE  UNCHANGED vars \/ (pc' = pc /\ ThreadAdvances)
  <2>1. pc = "get" /\ queue = <<>>
    BY <1>8
  <2>2. [Next]_vars
    BY <1>8
  <2> QED
    BY <1>3, <2>1, <2>2
<1>9. /\ Offering /\ [Next]_vars => Offering' \/ Offered'
      /\ Offering /\ <<ProducerSteps>>_vars => Offered'
  BY <1>5, <1>8 DEF ThreadAdvances
<1>10. /\ Reading /\ [Next]_vars => Reading' \/ Offering'
       /\ Reading /\ <<ProducerSteps>>_vars => Offering'
  BY <1>5, <1>8 DEF ThreadAdvances
<1>11. /\ Starting /\ [Next]_vars => Starting' \/ Reading'
       /\ Starting /\ <<ProducerSteps>>_vars => Reading'
  BY <1>5, <1>8 DEF ThreadAdvances
<1> QED
  BY <1>1, <1>2, <1>6, <1>7, <1>9, <1>10, <1>11

(* A read returns.                                                          *)
THEOREM ReadsDoReturn == Spec /\ []GuardsSuffice => ReadsReturn
<1>1. IInv /\ EndAwaits =>
         /\ Asked => Offered \/ Offering \/ Reading \/ Starting
         /\ Offered /\ [Next]_vars => Offered' \/ Idle'
         /\ Offered /\ <<ConsumerContinues>>_vars => Idle'
         /\ Offering /\ [Next]_vars => Offering' \/ Offered'
         /\ Offering /\ <<ProducerSteps>>_vars => Offered'
         /\ Reading /\ [Next]_vars => Reading' \/ Offering'
         /\ Reading /\ <<ProducerSteps>>_vars => Offering'
         /\ Starting /\ [Next]_vars => Starting' \/ Reading'
         /\ Starting /\ <<ProducerSteps>>_vars => Reading'
         /\ Offered => ConsumerGuard
         /\ Offering \/ Reading \/ Starting => ProducerGuard
  BY ReadComesNearer
<1>2. GuardsSuffice <=>
        /\ ConsumerGuard => ENABLED <<ConsumerContinues>>_vars
        /\ ProducerGuard => ENABLED <<ProducerSteps>>_vars
  BY DEF GuardsSuffice
<1>3. ReadsReturn <=> (Asked ~> Idle)
  BY DEF ReadsReturn, Asked, Idle
<1>4. ProducerSteps \/ ConsumerContinues => Next
  BY DEF Next
<1> HIDE DEF vars
<1>6. Spec /\ []GuardsSuffice => (Asked ~> Idle)
  BY <1>1, <1>2, <1>4, Invariance, EndIsAwaited, PTL DEF Spec, Fairness
<1> QED
  BY <1>3, <1>6, PTL

\* A reader that was closed and drained, and how far its thread is from its
\* end: it may still put the batch it was reading.
Released ==
  /\ pc = "idle" /\ syncClosed
  /\ thread \in {"none", "reading"} \/ InHand => queue = <<>>
  /\ thread \in {"next", "late", "put"} => Len(queue) <= 1

Away == thread \in {"none", "ended"}
StillReading == Released /\ thread = "reading"
LastBatch == Released /\ InHand
AtNext == Released /\ thread = "next"
TooLate == Released /\ thread = "late"
LastItem == Released /\ thread = "put" /\ ~InHand

LEMMA ThreadComesNearer ==
  ASSUME QueueSize >= 2, IInv, ClosedWithRoom
  PROVE  /\ answer = "closed" => Released
         /\ Released => Away \/ StillReading \/ LastBatch \/ AtNext \/ TooLate \/ LastItem
         /\ StillReading \/ LastBatch \/ AtNext \/ TooLate \/ LastItem => ProducerGuard
         /\ StillReading /\ [Next]_vars => StillReading' \/ LastBatch' \/ LastItem'
         /\ StillReading /\ <<ProducerSteps>>_vars => LastBatch' \/ LastItem'
         /\ LastBatch /\ [Next]_vars => LastBatch' \/ AtNext'
         /\ LastBatch /\ <<ProducerSteps>>_vars => AtNext'
         /\ AtNext /\ [Next]_vars => AtNext' \/ TooLate'
         /\ AtNext /\ <<ProducerSteps>>_vars => TooLate'
         /\ TooLate /\ [Next]_vars => TooLate' \/ LastItem'
         /\ TooLate /\ <<ProducerSteps>>_vars => LastItem'
         /\ LastItem /\ [Next]_vars => LastItem' \/ Away'
         /\ LastItem /\ <<ProducerSteps>>_vars => Away'
<1>1. answer = "closed" => Released
  BY DEF IInv, TypeOK, Shape, ClosedWithRoom, Released
<1>2. Released => Away \/ StillReading \/ LastBatch \/ AtNext \/ TooLate \/ LastItem
  BY DEF IInv, TypeOK, Released, Away, StillReading, LastBatch, AtNext, TooLate, LastItem
<1>3. StillReading \/ LastBatch \/ AtNext \/ TooLate \/ LastItem => ProducerGuard
  BY DEF IInv, TypeOK, Released, StillReading, LastBatch, AtNext, TooLate, LastItem, InHand,
     ProducerGuard, HasRoom
<1>4. ProducerSteps => Next
  BY DEF Next
<1>5. ASSUME Released, ~Away, [Next]_vars, ~ProducerSteps
      PROVE  UNCHANGED <<pc, syncClosed, queue, thread, item>>
  <2>1. closed
    BY <1>5 DEF IInv, Shape, Released
  <2> QED
    BY <1>5, <2>1 DEF Next, Read, Iter, Close, ConsumerContinues, Get, CloseSync, Drain,
       DrainEnds, Join, Released, Away
<1>6. ASSUME Released, ~Away, [Next]_vars, ~ProducerSteps
      PROVE  /\ Released' /\ InHand' = InHand /\ thread' = thread
  BY <1>5, <1>6 DEF Released, InHand
<1>7. ASSUME Released, ProducerSteps
      PROVE  /\ UNCHANGED <<pc, syncClosed>>
             /\ \/ thread = "next" /\ thread' = "late" /\ queue' = queue
                \/ thread = "reading" /\ thread' = "put" /\ queue' = queue
                \/ thread = "late" /\ thread' = "put" /\ ~InHand' /\ queue' = queue
                \/ InHand /\ thread' = "next" /\ queue' = Append(queue, item)
                \/ thread = "put" /\ ~InHand /\ thread' = "ended"
  BY <1>7, ItemTypes DEF ProducerSteps, StartNext, ReadBatch, StopReading, Put, PutLast,
     OnException, InHand, Released
<1>8. StillReading /\ ProducerSteps => LastBatch' \/ LastItem'
  <2> SUFFICES ASSUME Released, thread = "reading", ProducerSteps
               PROVE  Released' /\ thread' = "put"
    BY DEF StillReading, LastBatch, LastItem, InHand
  <2>1. UNCHANGED <<pc, syncClosed>> /\ thread' = "put" /\ queue' = queue /\ queue = <<>>
    BY <1>7 DEF Released, InHand
  <2> QED
    BY <2>1, NoItems DEF Released
<1>9. LastBatch /\ ProducerSteps => AtNext'
  <2> SUFFICES ASSUME Released, InHand, ProducerSteps
               PROVE  Released' /\ thread' = "next"
    BY DEF LastBatch, AtNext
  <2>1. /\ UNCHANGED <<pc, syncClosed>> /\ thread' = "next"
        /\ queue' = Append(queue, item) /\ queue = <<>>
    BY <1>7 DEF Released, InHand
  <2>2. Len(queue') = 1
    BY <2>1, AppendToQueue, NoItems DEF IInv, TypeOK
  <2> QED
    BY <2>1, <2>2 DEF Released, InHand
<1>10. AtNext /\ ProducerSteps => TooLate'
  BY <1>7 DEF AtNext, TooLate, Released, InHand
<1>11. TooLate /\ ProducerSteps => LastItem'
  BY <1>7 DEF TooLate, LastItem, Released, InHand
<1>12. LastItem /\ ProducerSteps => Away'
  BY <1>7 DEF LastItem, Away, InHand
<1>13. /\ StillReading /\ [Next]_vars => StillReading' \/ LastBatch' \/ LastItem'
       /\ LastBatch /\ [Next]_vars => LastBatch' \/ AtNext'
       /\ AtNext /\ [Next]_vars => AtNext' \/ TooLate'
       /\ TooLate /\ [Next]_vars => TooLate' \/ LastItem'
       /\ LastItem /\ [Next]_vars => LastItem' \/ Away'
  BY <1>6, <1>8, <1>9, <1>10, <1>11, <1>12
     DEF StillReading, LastBatch, AtNext, TooLate, LastItem, Away, InHand
<1> QED
  BY <1>1, <1>2, <1>3, <1>8, <1>9, <1>10, <1>11, <1>12, <1>13

(* The thread of a closed reader ends, with a queue of at least two.        *)
THEOREM ThreadDoesEnd ==
  ASSUME QueueSize >= 2
  PROVE  Spec /\ []GuardsSuffice => ThreadEnds
<1> DEFINE Closed == answer = "closed"
<1>1. Init => ClosedWithRoom
  BY DEF Init, ClosedWithRoom
<1>2. IInv /\ ClosedWithRoom /\ [Next]_vars => ClosedWithRoom'
  BY RoomStep
<1>3. IInv /\ ClosedWithRoom =>
         /\ Closed => Released
         /\ Released => Away \/ StillReading \/ LastBatch \/ AtNext \/ TooLate \/ LastItem
         /\ StillReading \/ LastBatch \/ AtNext \/ TooLate \/ LastItem => ProducerGuard
         /\ StillReading /\ [Next]_vars => StillReading' \/ LastBatch' \/ LastItem'
         /\ StillReading /\ <<ProducerSteps>>_vars => LastBatch' \/ LastItem'
         /\ LastBatch /\ [Next]_vars => LastBatch' \/ AtNext'
         /\ LastBatch /\ <<ProducerSteps>>_vars => AtNext'
         /\ AtNext /\ [Next]_vars => AtNext' \/ TooLate'
         /\ AtNext /\ <<ProducerSteps>>_vars => TooLate'
         /\ TooLate /\ [Next]_vars => TooLate' \/ LastItem'
         /\ TooLate /\ <<ProducerSteps>>_vars => LastItem'
         /\ LastItem /\ [Next]_vars => LastItem' \/ Away'
         /\ LastItem /\ <<ProducerSteps>>_vars => Away'
  BY ThreadComesNearer
<1>4. GuardsSuffice => (ProducerGuard => ENABLED <<ProducerSteps>>_vars)
  BY DEF GuardsSuffice
<1>5. ThreadEnds <=> (Closed ~> Away)
  BY DEF ThreadEnds, Away
<1> HIDE DEF vars, Closed
<1>6. Spec /\ []GuardsSuffice => (Closed ~> Away)
  BY <1>1, <1>2, <1>3, <1>4, Invariance, PTL DEF Spec, Fairness
<1> QED
  BY <1>5, <1>6, PTL

=============================================================================
