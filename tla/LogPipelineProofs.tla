------------------------- MODULE LogPipelineProofs -------------------------
(***************************************************************************)
(* For every number of workers, every queue and batch size, every topic    *)
(* and every set of faults: LogPipeline delivers at most once, implements  *)
(* the safety part of LogDelivery and accounts for every event that it     *)
(* takes over.                                                             *)
(***************************************************************************)
EXTENDS LogPipeline, FiniteSetTheorems, TLAPS

(***************************************************************************)
(* The channel and the batches are sequences without repetition.  What     *)
(* their operations do to the set of elements:                             *)
(***************************************************************************)
\* Appending a new element, as a send on the channel and a worker's append do.
LEMMA AppendLemma ==
    ASSUME NEW S, NEW s \in Seq(S), NEW e \in S
    PROVE  /\ Append(s, e) \in Seq(S) /\ Append(s, e) # <<>>
           /\ Len(Append(s, e)) = Len(s) + 1
           /\ ToSet(Append(s, e)) = ToSet(s) \cup {e}
           /\ Distinct(s) /\ e \notin ToSet(s) => Distinct(Append(s, e))
<1>1. /\ Append(s, e) \in Seq(S) /\ Append(s, e) # <<>> 
      /\ Len(Append(s, e)) = Len(s) + 1
      /\ \A i \in 1..Len(s) : Append(s, e)[i] = s[i]
      /\ Append(s, e)[Len(s) + 1] = e
  OBVIOUS
<1>2. ToSet(Append(s, e)) = ToSet(s) \cup {e}
  BY <1>1 DEF ToSet
<1>3. Distinct(s) /\ e \notin ToSet(s) => Distinct(Append(s, e))
  BY <1>1 DEF ToSet, Distinct
<1> QED BY <1>1, <1>2, <1>3

\* Taking the first element off, as a receive and the detection loop do.
LEMMA TailLemma ==
    ASSUME NEW S, NEW s \in Seq(S), s # <<>>
    PROVE  /\ Head(s) \in S /\ Head(s) \in ToSet(s)
           /\ Tail(s) \in Seq(S) /\ Len(Tail(s)) = Len(s) - 1
           /\ ToSet(Tail(s)) \subseteq ToSet(s)
           /\ ToSet(s) \subseteq ToSet(Tail(s)) \cup {Head(s)}
           /\ Distinct(s) => Distinct(Tail(s)) /\ Head(s) \notin ToSet(Tail(s))
<1>1. /\ Len(s) \in Nat \ {0} /\ Head(s) = s[1] /\ Head(s) \in S
      /\ Tail(s) \in Seq(S) /\ Len(Tail(s)) = Len(s) - 1
      /\ \A i \in 1..Len(s) - 1 : Tail(s)[i] = s[i + 1]
  OBVIOUS
<1>2. Head(s) \in ToSet(s)
  BY <1>1 DEF ToSet
<1>3. ToSet(Tail(s)) \subseteq ToSet(s)
  BY <1>1 DEF ToSet
<1>4. ToSet(s) \subseteq ToSet(Tail(s)) \cup {Head(s)}
  <2> SUFFICES ASSUME NEW i \in 1..Len(s)
               PROVE  s[i] \in ToSet(Tail(s)) \cup {Head(s)}
    BY DEF ToSet
  <2>1. CASE i = 1
    BY <2>1, <1>1
  <2>2. CASE i # 1
    <3>1. i - 1 \in 1..Len(Tail(s)) /\ Tail(s)[i - 1] = s[i]
      BY <2>2, <1>1
    <3>2. i - 1 \in DOMAIN Tail(s)
      BY <1>1, <3>1
    <3>3. Tail(s)[i - 1] \in ToSet(Tail(s))
      BY <3>2 DEF ToSet
    <3> QED BY <3>1, <3>3
  <2> QED BY <2>1, <2>2
<1>5. Distinct(s) => Distinct(Tail(s)) /\ Head(s) \notin ToSet(Tail(s))
  BY <1>1 DEF ToSet, Distinct
<1> QED BY <1>1, <1>2, <1>3, <1>4, <1>5

\* The empty channel and batch.
LEMMA EmptyLemma ==
    ASSUME NEW S
    PROVE  /\ <<>> \in Seq(S) /\ Len(<<>>) = 0 /\ ToSet(<<>>) = {} /\ Distinct(<<>>)
  BY DEF ToSet, Distinct
-----------------------------------------------------------------------------
(***************************************************************************)
(* Types.  The bound on the batches rests on the worker's phases: a worker *)
(* in its select has room for one more event.                              *)
(***************************************************************************)
Typing == TypeOK /\ WorkerPhases

USE HttpAssumption, TopicAssumption, SizeAssumption

LEMMA TypingInit == Init => Typing
<1> SUFFICES ASSUME Init PROVE Typing
  OBVIOUS
<1>1. TypeOK
  BY EmptyLemma DEF Init, TypeOK
<1>2. WorkerPhases
  BY DEF Init, WorkerPhases
<1> QED BY <1>1, <1>2 DEF Typing

LEMMA TypingEnqueue ==
    ASSUME Typing, NEW e \in Events, EnqueueLog(e)
    PROVE  queue' \in Seq(Events) /\ Len(queue') <= QueueCap
  BY AppendLemma DEF Typing, TypeOK, EnqueueLog

LEMMA TypingHttp ==
    ASSUME Typing, NEW e \in HttpEvents, IngestLog(e)
    PROVE  Typing'
<1> USE DEF consumer, database, WorkerPhases
<1>1. CASE Refuse(e)
  BY <1>1 DEF Typing, TypeOK, Refuse
<1>2. CASE Validate(e)
  BY <1>2 DEF Typing, TypeOK, Validate
<1>3. CASE EnqueueHttp(e)
  <2>1. queue' \in Seq(Events) /\ Len(queue') <= QueueCap
    BY <1>3, TypingEnqueue DEF EnqueueHttp, Events
  <2> QED BY <1>3, <2>1 DEF Typing, TypeOK, EnqueueHttp
<1>4. CASE Respond(e)
  BY <1>4 DEF Typing, TypeOK, Respond
<1> QED BY <1>1, <1>2, <1>3, <1>4 DEF IngestLog

LEMMA TypingConsumer ==
    ASSUME Typing, StartConsumer \/ CommitFails \/ Rejoin
    PROVE  Typing'
<1> USE DEF consumer, database, WorkerPhases
<1>1. CASE ReadMessage
  <2>1. /\ position + 1 \in 1..Len(Topic) /\ Topic[position + 1] \in TopicEvents
        /\ position' = position + 1 /\ committed' = position + 1
    BY <1>1 DEF Typing, TypeOK, ReadMessage, Fetchable
  <2>2. held' \in TopicEvents \cup {NoEvent}
    BY <1>1, <2>1 DEF ReadMessage
  <2>3. mishaps' \in [Events -> SUBSET {"tx", "crash", "offset"}]
    BY <1>1 DEF Typing, TypeOK, ReadMessage
  <2>4. UNCHANGED <<request, queue, pc, batch, logs, analysed, processed>>
    BY <1>1 DEF ReadMessage
  <2> QED BY <2>1, <2>2, <2>3, <2>4 DEF Typing, TypeOK
<1>2. CASE EnqueueKafka
  <2>1. queue' \in Seq(Events) /\ Len(queue') <= QueueCap
    BY <1>2, TypingEnqueue DEF EnqueueKafka, Typing, TypeOK, Events
  <2> QED BY <1>2, <2>1 DEF Typing, TypeOK, EnqueueKafka
<1>3. CASE CommitFails
  <2>1. mishaps' \in [Events -> SUBSET {"tx", "crash", "offset"}]
    BY <1>3 DEF Typing, TypeOK, CommitFails
  <2> QED BY <1>3, <2>1 DEF Typing, TypeOK, CommitFails, Fetchable
<1>4. CASE Rejoin
  BY <1>4 DEF Typing, TypeOK, Rejoin
<1> QED BY <1>1, <1>2, <1>3, <1>4 DEF StartConsumer

LEMMA TypingWorker ==
    ASSUME Typing, NEW w \in Workers, Worker(w)
    PROVE  Typing'
<1> USE DEF consumer, database
<1>0. batch[w] \in Seq(Events) /\ Len(batch[w]) \in Nat /\ Len(batch[w]) <= BatchSize
  BY DEF Typing, TypeOK
<1>1. CASE Receive(w)
  <2>1. /\ Head(queue) \in Events /\ Tail(queue) \in Seq(Events)
        /\ Len(Tail(queue)) <= QueueCap
    BY <1>1, TailLemma DEF Typing, TypeOK, Receive
  <2>2. /\ batch'[w] \in Seq(Events) /\ batch'[w] # <<>>
        /\ Len(batch'[w]) = Len(batch[w]) + 1 /\ Len(batch[w]) < BatchSize
    BY <1>0, <1>1, <2>1, AppendLemma DEF Typing, TypeOK, WorkerPhases, Receive
  <2>3. /\ batch' \in [Workers -> Seq(Events)] /\ pc' \in [Workers -> {"select", "insert", "detect"}]
        /\ \A v \in Workers \ {w} : batch'[v] = batch[v] /\ pc'[v] = pc[v]
    BY <1>1, <2>2 DEF Typing, TypeOK, Receive
  <2>4. pc'[w] = IF Len(batch'[w]) >= BatchSize THEN "insert" ELSE "select"
    BY <1>1 DEF Typing, TypeOK, Receive
  <2>5. ASSUME NEW v \in Workers PROVE Len(batch'[v]) <= BatchSize
    <3>1. CASE v = w
      BY <1>0, <2>2, <3>1
    <3>2. CASE v # w
      BY <2>3, <3>2 DEF Typing, TypeOK
    <3> QED BY <3>1, <3>2
  <2>6. WorkerPhases'
    BY <1>0, <2>2, <2>3, <2>4 DEF Typing, WorkerPhases
  <2>7. TypeOK'
    BY <1>1, <2>1, <2>3, <2>5 DEF Typing, TypeOK, Receive
  <2> QED BY <2>6, <2>7 DEF Typing
<1>2. CASE FlushOnTick(w)
  BY <1>2 DEF Typing, TypeOK, WorkerPhases, FlushOnTick
<1>3. CASE InsertCommits(w)
  <2>1. /\ logs' \in [Events -> Nat] /\ processed' \in Nat
        /\ pc' = [pc EXCEPT ![w] = "detect"]
        /\ UNCHANGED <<request, consumer, queue, batch, analysed, mishaps>>
    BY <1>0, <1>3 DEF Typing, TypeOK, InsertCommits, Rows
  <2> QED BY <1>3, <2>1 DEF Typing, TypeOK, WorkerPhases, InsertCommits
<1>4. CASE InsertFails(w)
  BY <1>4 DEF Typing, TypeOK, WorkerPhases, InsertFails
<1>5. CASE InsertAnswerLost(w)
  <2>1. logs' \in [Events -> Nat]
    BY <1>5 DEF Typing, TypeOK, InsertAnswerLost, Rows
  <2> QED BY <1>5, <2>1 DEF Typing, TypeOK, WorkerPhases, InsertAnswerLost
<1>6. CASE Detect(w)
  <2>1. batch[w] # <<>>
    BY <1>6 DEF Typing, TypeOK, WorkerPhases, Detect
  <2>2. /\ Head(batch[w]) \in Events /\ Tail(batch[w]) \in Seq(Events)
        /\ Len(Tail(batch[w])) = Len(batch[w]) - 1
    BY <1>0, <2>1, TailLemma
  <2>3. /\ batch' \in [Workers -> Seq(Events)] /\ pc' \in [Workers -> {"select", "insert", "detect"}]
        /\ batch'[w] = Tail(batch[w])
        /\ pc'[w] = IF Len(batch[w]) = 1 THEN "select" ELSE "detect"
        /\ \A v \in Workers \ {w} : batch'[v] = batch[v] /\ pc'[v] = pc[v]
    BY <1>6, <2>2 DEF Typing, TypeOK, Detect
  <2>4. ASSUME NEW v \in Workers PROVE Len(batch'[v]) <= BatchSize
    <3>1. CASE v = w
      BY <1>0, <2>2, <2>3, <3>1
    <3>2. CASE v # w
      BY <2>3, <3>2 DEF Typing, TypeOK
    <3> QED BY <3>1, <3>2
  <2>5. WorkerPhases'
    <3>1. Len(batch'[w]) = Len(batch[w]) - 1 /\ Len(batch[w]) \in Nat /\ batch'[w] \in Seq(Events)
      BY <1>0, <2>2, <2>3
    <3>2. CASE Len(batch[w]) = 1
      <4>1. pc'[w] = "select"
        BY <2>3, <3>2
      <4>2. Len(batch'[w]) = 0
        BY <3>1, <3>2
      <4>3. 0 < BatchSize
        OBVIOUS
      <4>4. Len(batch'[w]) < BatchSize
        BY <4>2, <4>3
      <4> QED BY <2>3, <4>1, <4>4 DEF Typing, WorkerPhases
    <3>3. CASE Len(batch[w]) # 1
      <4>1. batch'[w] # <<>>
        <5>1. Len(batch[w]) # 0
          BY <1>0, <2>1
        <5>2. Len(batch'[w]) # 0
          BY <3>1, <3>3, <5>1
        <5> QED BY <5>2, EmptyLemma
      <4> QED BY <2>3, <3>3, <4>1 DEF Typing, WorkerPhases
    <3> QED BY <3>2, <3>3
  <2>6. TypeOK'
    <3>1. analysed' \in [Events -> Nat]
      BY <1>6, <2>2 DEF Typing, TypeOK, Detect
    <3> QED BY <1>6, <2>3, <2>4, <3>1 DEF Typing, TypeOK, Detect
  <2> QED BY <2>5, <2>6 DEF Typing
<1> QED BY <1>1, <1>2, <1>3, <1>4, <1>5, <1>6 DEF Worker

LEMMA TypingCrash ==
    ASSUME Typing, Crash
    PROVE  Typing'
<1>1. WorkerPhases'
  BY DEF Crash, WorkerPhases
<1>2. TypeOK'
  <2>1. batch' \in [Workers -> Seq(Events)] /\ \A w \in Workers : Len(batch'[w]) <= BatchSize
    BY EmptyLemma DEF Crash
  <2>2. queue' \in Seq(Events) /\ Len(queue') <= QueueCap
    BY EmptyLemma DEF Crash
  <2> QED BY <2>1, <2>2 DEF Typing, TypeOK, Crash
<1> QED BY <1>1, <1>2 DEF Typing

LEMMA TypingStep == Typing /\ [Next]_vars => Typing'
<1> SUFFICES ASSUME Typing, [Next]_vars PROVE Typing'
  OBVIOUS
<1>1. CASE Next
  BY <1>1, TypingHttp, TypingConsumer, TypingWorker, TypingCrash DEF Next
<1>2. CASE UNCHANGED vars
  BY <1>2 DEF vars, Typing, TypeOK, WorkerPhases
<1> QED BY <1>1, <1>2

\* Every reachable state is well typed: in particular the channel never holds
\* more than its capacity and a batch never more than batchSize, so the append
\* of a worker never outgrows the array it allocated.
THEOREM TypeCorrect == Spec => []TypeOK
<1>1. Typing => TypeOK
  BY DEF Typing
<1> QED BY <1>1, TypingInit, TypingStep, PTL DEF Spec
-----------------------------------------------------------------------------
(***************************************************************************)
(* AtMostOnce is not inductive: it says nothing of an event that waits in  *)
(* two places at once.  OnePlace does, and it is preserved because every   *)
(* step that puts an event in a place takes it out of the one before.      *)
(***************************************************************************)
IInv == Typing /\ OnePlace /\ AtMostOnce

LEMMA PlaceInit == Init => IInv
<1> SUFFICES ASSUME Init PROVE IInv
  OBVIOUS
<1>1. PendingPlace
  BY EmptyLemma DEF Init, PendingPlace, InFlight, InBatch, Fresh
<1>2. HeldPlace /\ QueuePlace /\ BatchPlace
  BY EmptyLemma DEF Init, HeldPlace, QueuePlace, BatchPlace
<1>3. AtMostOnce
  BY DEF Init, AtMostOnce
<1> QED BY <1>1, <1>2, <1>3, TypingInit DEF IInv, OnePlace

\* A send by a handler or by the consumer.  The event was in no batch, not in
\* the channel, and fresh.
LEMMA PlaceSend ==
    ASSUME IInv, NEW e \in Events, EnqueueLog(e),
           e \notin ToSet(queue), ~InBatch(e), Fresh(e),
           UNCHANGED <<batch, pc, logs, analysed>>
    PROVE  QueuePlace' /\ BatchPlace' /\ ToSet(queue') = ToSet(queue) \cup {e}
<1>1. /\ ToSet(queue') = ToSet(queue) \cup {e}
      /\ Distinct(queue')
  BY AppendLemma DEF EnqueueLog, IInv, OnePlace, QueuePlace, Typing, TypeOK
<1>2. QueuePlace'
  BY <1>1 DEF IInv, OnePlace, QueuePlace, InBatch, Fresh
<1>3. BatchPlace'
  BY DEF IInv, OnePlace, BatchPlace, Distinct
<1> QED BY <1>1, <1>2, <1>3

LEMMA PlaceHttp ==
    ASSUME IInv, NEW e \in HttpEvents, IngestLog(e)
    PROVE  OnePlace' /\ AtMostOnce'
<1> USE DEF consumer, database
<1>1. CASE Refuse(e) \/ Validate(e) \/ Respond(e)
  <2>1. UNCHANGED <<consumer, queue, pc, batch, database>>
    BY <1>1 DEF Refuse, Validate, Respond
  <2>2. \A x \in Events : Pending(x)' => Pending(x)
    BY <1>1, <2>1 DEF IInv, Typing, TypeOK, Refuse, Validate, Respond, Pending
  <2>3. PendingPlace'
    BY <2>1, <2>2 DEF IInv, OnePlace, PendingPlace, InFlight, InBatch, Fresh
  <2>4. HeldPlace' /\ QueuePlace' /\ BatchPlace' /\ AtMostOnce'
    BY <2>1 DEF IInv, OnePlace, HeldPlace, QueuePlace, BatchPlace, InBatch, Fresh,
                Distinct, AtMostOnce
  <2> QED BY <2>3, <2>4 DEF OnePlace
<1>2. CASE EnqueueHttp(e)
  <2>1. /\ e \in Events /\ Pending(e) /\ EnqueueLog(e)
        /\ UNCHANGED <<consumer, pc, batch, database>>
    BY <1>2 DEF EnqueueHttp, Pending, Events
  <2>2. ~InFlight(e) /\ Fresh(e)
    BY <2>1 DEF IInv, OnePlace, PendingPlace
  <2>3. e # held /\ e \notin ToSet(queue) /\ ~InBatch(e)
    BY <2>2 DEF InFlight
  <2>4. QueuePlace' /\ BatchPlace' /\ ToSet(queue') = ToSet(queue) \cup {e}
    BY <2>1, <2>2, <2>3, PlaceSend
  <2>5. \A x \in Events : Pending(x)' => Pending(x) /\ x # e
    <3>1. ~Pending(e)'
      BY <1>2, <2>1 DEF EnqueueHttp, IInv, Typing, TypeOK, Pending
    <3>2. \A x \in Events : Pending(x)' => Pending(x)
      BY <1>2, <2>1 DEF EnqueueHttp, IInv, Typing, TypeOK, Pending
    <3> QED BY <3>1, <3>2
  <2>6. PendingPlace'
    BY <2>1, <2>4, <2>5 DEF IInv, OnePlace, PendingPlace, InFlight, InBatch, Fresh
  <2>7. HeldPlace' /\ AtMostOnce'
    BY <2>1, <2>3, <2>4 DEF IInv, OnePlace, HeldPlace, InBatch, Fresh, AtMostOnce
  <2> QED BY <2>4, <2>6, <2>7 DEF OnePlace
<1> QED BY <1>1, <1>2 DEF IngestLog

LEMMA PlaceConsumer ==
    ASSUME IInv, StartConsumer \/ CommitFails \/ Rejoin
    PROVE  OnePlace' /\ AtMostOnce'
<1> USE DEF consumer, database
<1>0. /\ committed \in 0..Len(Topic) /\ position \in committed..Len(Topic)
      /\ Len(Topic) \in Nat
  BY DEF IInv, Typing, TypeOK
<1>1. CASE ReadMessage
  <2> DEFINE n == Topic[position + 1]
  <2>1. /\ position + 1 \in (committed + 1)..Len(Topic)
        /\ position + 1 \in 1..Len(Topic) /\ committed' = position + 1
        /\ held = NoEvent /\ held' \in {n, NoEvent}
        /\ UNCHANGED <<request, queue, pc, batch, logs, analysed>>
    BY <1>0, <1>1 DEF ReadMessage, Fetchable
  <2>2. n \in Events /\ Pending(n)
    BY <2>1 DEF Pending, Events
  <2>3. ~InFlight(n) /\ Fresh(n)
    BY <2>2 DEF IInv, OnePlace, PendingPlace
  <2>4. \A x \in Events : Pending(x)' => Pending(x) /\ x # n
    <3>1. \A i \in (committed' + 1)..Len(Topic) :
              i \in (committed + 1)..Len(Topic) /\ i \in 1..Len(Topic) /\ i # position + 1
      BY <1>0, <2>1
    <3>2. \A i \in (committed' + 1)..Len(Topic) : Topic[i] # n
      BY <2>1, <3>1
    <3>3. n \notin HttpEvents
      BY <2>1
    <3> QED BY <2>1, <3>1, <3>2, <3>3 DEF Pending
  <2>5. PendingPlace'
    BY <2>1, <2>4 DEF IInv, OnePlace, PendingPlace, InFlight, InBatch, Fresh, Events
  <2>6. HeldPlace'
    BY <2>1, <2>3 DEF HeldPlace, InFlight, InBatch, Fresh
  <2>7. QueuePlace' /\ BatchPlace' /\ AtMostOnce'
    BY <2>1 DEF IInv, OnePlace, QueuePlace, BatchPlace, InBatch, Fresh, Distinct, AtMostOnce
  <2> QED BY <2>5, <2>6, <2>7 DEF OnePlace
<1>2. CASE EnqueueKafka
  <2>1. /\ held \in Events /\ held # NoEvent /\ EnqueueLog(held) /\ held' = NoEvent
        /\ UNCHANGED <<request, committed, position, pc, batch, database>>
    BY <1>2 DEF EnqueueKafka, IInv, Typing, TypeOK, Events
  <2>2. held \notin ToSet(queue) /\ ~InBatch(held) /\ Fresh(held)
    BY <2>1 DEF IInv, OnePlace, HeldPlace
  <2>3. QueuePlace' /\ BatchPlace' /\ ToSet(queue') = ToSet(queue) \cup {held}
    BY <2>1, <2>2, PlaceSend
  <2>4. PendingPlace'
    BY <2>1, <2>3 DEF IInv, OnePlace, PendingPlace, Pending, InFlight, InBatch, Fresh
  <2>5. HeldPlace' /\ AtMostOnce'
    BY <2>1 DEF IInv, HeldPlace, AtMostOnce
  <2> QED BY <2>3, <2>4, <2>5 DEF OnePlace
<1>3. CASE CommitFails \/ Rejoin
  <2>1. /\ committed' \in Nat /\ committed' >= committed
        /\ UNCHANGED <<request, held, queue, pc, batch, logs, analysed>>
    BY <1>0, <1>3 DEF CommitFails, Rejoin
  <2>2. \A x \in Events : Pending(x)' => Pending(x)
    BY <1>0, <2>1 DEF Pending
  <2>3. PendingPlace'
    BY <2>1, <2>2 DEF IInv, OnePlace, PendingPlace, InFlight, InBatch, Fresh
  <2>4. HeldPlace' /\ QueuePlace' /\ BatchPlace' /\ AtMostOnce'
    BY <2>1 DEF IInv, OnePlace, HeldPlace, QueuePlace, BatchPlace, InBatch, Fresh,
                Distinct, AtMostOnce
  <2> QED BY <2>3, <2>4 DEF OnePlace
<1> QED BY <1>1, <1>2, <1>3 DEF StartConsumer
LEMMA PlaceReceive ==
    ASSUME IInv, NEW w \in Workers, Receive(w)
    PROVE  OnePlace' /\ AtMostOnce'
<1> USE DEF consumer, database
<1> DEFINE h == Head(queue)
<1>1. /\ queue \in Seq(Events) /\ queue # <<>> /\ batch[w] \in Seq(Events) /\ h \in Events
      /\ UNCHANGED <<request, consumer, logs, analysed>> /\ pc[w] = "select"
      /\ h \in ToSet(queue) /\ queue' = Tail(queue)
      /\ batch'[w] = Append(batch[w], h)
      /\ \A v \in Workers \ {w} : batch'[v] = batch[v] /\ pc'[v] = pc[v]
      /\ pc'[w] # "detect"
  BY TailLemma DEF Receive, IInv, Typing, TypeOK
<1>2. /\ ToSet(Tail(queue)) \subseteq ToSet(queue) \ {h}
      /\ Distinct(Tail(queue))
  BY <1>1, TailLemma DEF IInv, OnePlace, QueuePlace
<1>3. ~InBatch(h) /\ Fresh(h) /\ h # held
  BY <1>1 DEF IInv, OnePlace, QueuePlace, HeldPlace, Events
<1>4. /\ ToSet(batch'[w]) = ToSet(batch[w]) \cup {h}
      /\ Distinct(batch'[w])
  BY <1>1, <1>3, AppendLemma DEF IInv, OnePlace, BatchPlace, InBatch
<1>5. \A x : InBatch(x)' => InBatch(x) \/ x = h
  BY <1>1, <1>4 DEF InBatch
<1>6. PendingPlace'
  <2>1. \A x \in Events : InFlight(x)' => InFlight(x)
    BY <1>1, <1>2, <1>5 DEF InFlight
  <2> QED BY <1>1, <2>1 DEF IInv, OnePlace, PendingPlace, Pending, Fresh
<1>7. HeldPlace'
  BY <1>1, <1>2, <1>3, <1>5 DEF IInv, OnePlace, HeldPlace, Fresh
<1>8. QueuePlace'
  BY <1>1, <1>2, <1>5 DEF IInv, OnePlace, QueuePlace, Fresh
<1>9. BatchPlace'
  <2> SUFFICES ASSUME NEW v \in Workers
               PROVE  /\ Distinct(batch'[v])
                      /\ \A u \in Workers \ {v} : ToSet(batch'[v]) \cap ToSet(batch'[u]) = {}
                      /\ \A e \in ToSet(batch'[v]) :
                             analysed'[e] = 0 /\ (pc'[v] # "detect" => logs'[e] = 0)
    BY DEF BatchPlace, Distinct
  <2>1. \A u \in Workers : h \notin ToSet(batch[u])
    BY <1>3 DEF InBatch
  <2>2. CASE v = w
    <3>1. \A u \in Workers \ {w} : ToSet(batch'[w]) \cap ToSet(batch'[u]) = {}
      <4>1. \A u \in Workers \ {w} : ToSet(batch[w]) \cap ToSet(batch[u]) = {}
        BY DEF IInv, OnePlace, BatchPlace
      <4> QED BY <1>1, <1>4, <2>1, <4>1
    <3>2. \A e \in ToSet(batch'[w]) : analysed'[e] = 0 /\ logs'[e] = 0
      <4>1. \A e \in ToSet(batch[w]) : analysed[e] = 0 /\ logs[e] = 0
        BY <1>1 DEF IInv, OnePlace, BatchPlace
      <4> QED BY <1>1, <1>3, <1>4, <4>1 DEF Fresh
    <3> QED BY <1>4, <2>2, <3>1, <3>2
  <2>3. CASE v # w
    <3>1. batch'[v] = batch[v] /\ pc'[v] = pc[v]
      BY <1>1, <2>3
    <3>2. /\ Distinct(batch[v])
          /\ \A u \in Workers \ {v} : ToSet(batch[v]) \cap ToSet(batch[u]) = {}
          /\ \A e \in ToSet(batch[v]) :
                 analysed[e] = 0 /\ (pc[v] # "detect" => logs[e] = 0)
      BY DEF IInv, OnePlace, BatchPlace
    <3>3. ASSUME NEW u \in Workers \ {v}
          PROVE  ToSet(batch[v]) \cap ToSet(batch'[u]) = {}
      <4>1. CASE u = w
        BY <1>4, <2>1, <3>2, <4>1
      <4>2. CASE u # w
        BY <1>1, <3>2, <4>2
      <4> QED BY <4>1, <4>2
    <3> QED BY <1>1, <3>1, <3>2, <3>3
  <2> QED BY <2>2, <2>3
<1>10. AtMostOnce'
  BY <1>1 DEF IInv, AtMostOnce
<1> QED BY <1>6, <1>7, <1>8, <1>9, <1>10 DEF OnePlace

\* The three outcomes of the transaction: the rows are added or not.
LEMMA PlaceInsert ==
    ASSUME IInv, NEW w \in Workers,
           InsertCommits(w) \/ InsertFails(w) \/ InsertAnswerLost(w)
    PROVE  OnePlace' /\ AtMostOnce'
<1> USE DEF consumer, database
<1>1. /\ UNCHANGED <<request, consumer, queue, batch, analysed>>
      /\ pc[w] = "insert" /\ pc'[w] = "detect"
      /\ \A v \in Workers \ {w} : pc'[v] = pc[v]
  BY DEF InsertCommits, InsertFails, InsertAnswerLost, IInv, Typing, TypeOK
<1>2. logs' = Rows(w) \/ logs' = logs
  BY DEF InsertCommits, InsertFails, InsertAnswerLost
<1>3. ASSUME NEW e \in Events, e \notin ToSet(batch[w])
      PROVE  logs'[e] = logs[e]
  BY <1>2, <1>3 DEF Rows, IInv, Typing, TypeOK
<1>4. ASSUME NEW e \in Events, e \in ToSet(batch[w])
      PROVE  logs[e] = 0 /\ logs'[e] \in {0, 1}
  <2>1. logs[e] = 0
    BY <1>1, <1>4 DEF IInv, OnePlace, BatchPlace
  <2> QED BY <1>2, <1>4, <2>1 DEF Rows
<1>5. ASSUME NEW e \in Events, ~InBatch(e)
      PROVE  logs'[e] = logs[e]
  BY <1>3, <1>5 DEF InBatch
<1>6. PendingPlace'
  <2> SUFFICES ASSUME NEW e \in Events, Pending(e)'
               PROVE  ~InFlight(e)' /\ Fresh(e)'
    BY DEF PendingPlace
  <2>1. ~InFlight(e) /\ Fresh(e)
    BY <1>1 DEF Pending, IInv, OnePlace, PendingPlace
  <2> QED BY <1>1, <1>5, <2>1 DEF InFlight, InBatch, Fresh
<1>7. HeldPlace'
  <2> SUFFICES ASSUME held # NoEvent
               PROVE  held \notin ToSet(queue) /\ ~InBatch(held) /\ Fresh(held)'
    BY <1>1 DEF HeldPlace, InBatch, Fresh
  <2> QED BY <1>1, <1>5 DEF IInv, OnePlace, HeldPlace, Fresh, Typing, TypeOK, Events
<1>8. QueuePlace'
  <2>1. \A e \in ToSet(queue) : e \in Events /\ ~InBatch(e) /\ Fresh(e)
    BY DEF IInv, OnePlace, QueuePlace, Typing, TypeOK, ToSet
  <2>2. \A e \in ToSet(queue) : Fresh(e)'
    BY <1>1, <1>5, <2>1 DEF Fresh
  <2> QED BY <1>1, <2>1, <2>2 DEF IInv, OnePlace, QueuePlace, InBatch, Distinct
<1>9. BatchPlace'
  <2> SUFFICES ASSUME NEW v \in Workers
               PROVE  \A e \in ToSet(batch[v]) :
                          analysed[e] = 0 /\ (pc'[v] # "detect" => logs'[e] = 0)
    BY <1>1 DEF IInv, OnePlace, BatchPlace, Distinct
  <2>1. ToSet(batch[v]) \subseteq Events
    BY DEF IInv, Typing, TypeOK, ToSet
  <2>2. CASE v = w
    BY <1>1, <2>2 DEF IInv, OnePlace, BatchPlace
  <2>3. CASE v # w
    BY <1>1, <1>3, <2>1, <2>3 DEF IInv, OnePlace, BatchPlace
  <2> QED BY <2>2, <2>3
<1>10. AtMostOnce'
  BY <1>1, <1>3, <1>4 DEF IInv, AtMostOnce
<1> QED BY <1>6, <1>7, <1>8, <1>9, <1>10 DEF OnePlace

LEMMA PlaceDetect ==
    ASSUME IInv, NEW w \in Workers, Detect(w)
    PROVE  OnePlace' /\ AtMostOnce'
<1> USE DEF consumer, database
<1> DEFINE h == Head(batch[w])
<1>1. /\ batch[w] \in Seq(Events) /\ batch[w] # <<>>
      /\ UNCHANGED <<request, consumer, queue, logs>> /\ pc[w] = "detect"
      /\ batch'[w] = Tail(batch[w])
      /\ \A v \in Workers \ {w} : batch'[v] = batch[v] /\ pc'[v] = pc[v]
      /\ analysed' = [analysed EXCEPT ![h] = @ + 1]
  BY DEF Detect, IInv, Typing, TypeOK, WorkerPhases
<1>2. /\ h \in Events /\ h \in ToSet(batch[w])
      /\ ToSet(batch'[w]) \subseteq ToSet(batch[w]) \ {h}
      /\ Distinct(batch'[w])
  BY <1>1, TailLemma DEF IInv, OnePlace, BatchPlace
<1>3. /\ analysed[h] = 0 /\ analysed'[h] = 1
      /\ \A e \in Events \ {h} : analysed'[e] = analysed[e]
  BY <1>1, <1>2 DEF IInv, OnePlace, BatchPlace, Typing, TypeOK
<1>4. InBatch(h) /\ \A e : InBatch(e)' => InBatch(e)
  BY <1>1, <1>2 DEF InBatch
<1>5. PendingPlace'
  <2> SUFFICES ASSUME NEW e \in Events, Pending(e)'
               PROVE  ~InFlight(e)' /\ Fresh(e)'
    BY DEF PendingPlace
  <2>1. ~InFlight(e) /\ Fresh(e)
    BY <1>1 DEF Pending, IInv, OnePlace, PendingPlace
  <2>2. e # h
    BY <1>4, <2>1 DEF InFlight
  <2> QED BY <1>1, <1>3, <1>4, <2>1, <2>2 DEF InFlight, Fresh
<1>6. HeldPlace'
  <2> SUFFICES ASSUME held # NoEvent
               PROVE  held \notin ToSet(queue) /\ ~InBatch(held)' /\ Fresh(held)'
    BY <1>1 DEF HeldPlace
  <2>1. held \in Events /\ held \notin ToSet(queue) /\ ~InBatch(held) /\ Fresh(held)
    BY DEF IInv, OnePlace, HeldPlace, Typing, TypeOK, Events
  <2> QED BY <1>1, <1>3, <1>4, <2>1 DEF Fresh
<1>7. QueuePlace'
  <2>1. \A e \in ToSet(queue) : e \in Events /\ ~InBatch(e) /\ Fresh(e)
    BY DEF IInv, OnePlace, QueuePlace, Typing, TypeOK, ToSet
  <2>2. \A e \in ToSet(queue) : Fresh(e)' /\ ~InBatch(e)'
    BY <1>1, <1>3, <1>4, <2>1 DEF Fresh
  <2> QED BY <1>1, <2>2 DEF IInv, OnePlace, QueuePlace, Distinct
<1>8. BatchPlace'
  <2> SUFFICES ASSUME NEW v \in Workers
               PROVE  /\ Distinct(batch'[v])
                      /\ \A u \in Workers \ {v} : ToSet(batch'[v]) \cap ToSet(batch'[u]) = {}
                      /\ \A e \in ToSet(batch'[v]) :
                             analysed'[e] = 0 /\ (pc'[v] # "detect" => logs'[e] = 0)
    BY DEF BatchPlace, Distinct
  <2>1. \A u \in Workers : ToSet(batch[u]) \subseteq Events
    BY DEF IInv, Typing, TypeOK, ToSet
  <2>2. CASE v = w
    <3>1. \A e \in ToSet(batch'[w]) : analysed'[e] = 0
      BY <1>2, <1>3, <2>1 DEF IInv, OnePlace, BatchPlace
    <3>2. pc'[w] # "detect" => ToSet(batch'[w]) = {}
      <4> SUFFICES ASSUME Len(batch[w]) = 1 PROVE ToSet(batch'[w]) = {}
        BY DEF Detect, IInv, Typing, TypeOK
      <4>1. batch'[w] \in Seq(Events) /\ Len(batch'[w]) = 0
        BY <1>1, TailLemma
      <4> QED BY <4>1 DEF ToSet
    <3> QED BY <1>1, <1>2, <2>2, <3>1, <3>2 DEF IInv, OnePlace, BatchPlace
  <2>3. CASE v # w
    <3>1. h \notin ToSet(batch[v])
      BY <1>2, <2>3 DEF IInv, OnePlace, BatchPlace
    <3>2. /\ Distinct(batch[v])
          /\ \A u \in Workers \ {v} : ToSet(batch[v]) \cap ToSet(batch[u]) = {}
          /\ \A e \in ToSet(batch[v]) :
                 analysed[e] = 0 /\ (pc[v] # "detect" => logs[e] = 0)
      BY DEF IInv, OnePlace, BatchPlace
    <3>3. \A e \in ToSet(batch[v]) : analysed'[e] = analysed[e]
      BY <1>3, <2>1, <3>1
    <3>4. ASSUME NEW u \in Workers \ {v}
          PROVE  ToSet(batch[v]) \cap ToSet(batch'[u]) = {}
      <4>1. CASE u = w
        BY <1>2, <3>2, <4>1
      <4>2. CASE u # w
        BY <1>1, <3>2, <4>2
      <4> QED BY <4>1, <4>2
    <3>5. batch'[v] = batch[v] /\ pc'[v] = pc[v] /\ logs' = logs
      BY <1>1, <2>3
    <3> QED BY <3>2, <3>3, <3>4, <3>5
  <2> QED BY <2>2, <2>3
<1>9. AtMostOnce'
  BY <1>1, <1>3 DEF IInv, AtMostOnce
<1> QED BY <1>5, <1>6, <1>7, <1>8, <1>9 DEF OnePlace

LEMMA PlaceWorker ==
    ASSUME IInv, NEW w \in Workers, Worker(w)
    PROVE  OnePlace' /\ AtMostOnce'
<1>1. CASE FlushOnTick(w)
  <2>1. /\ UNCHANGED <<request, committed, held, queue, batch, logs, analysed>>
        /\ \A v \in Workers : pc'[v] # "detect" => pc[v] # "detect"
    BY <1>1 DEF FlushOnTick, IInv, Typing, TypeOK, consumer, database
  <2>2. PendingPlace' /\ HeldPlace' /\ QueuePlace' /\ AtMostOnce'
    BY <2>1 DEF IInv, OnePlace, PendingPlace, HeldPlace, QueuePlace, Pending, InFlight,
                InBatch, Fresh, Distinct, AtMostOnce
  <2>3. BatchPlace'
    BY <2>1 DEF IInv, OnePlace, BatchPlace, Distinct
  <2> QED BY <2>2, <2>3 DEF OnePlace
<1> QED BY <1>1, PlaceReceive, PlaceInsert, PlaceDetect DEF Worker

\* A crash empties every place but the table, and frees no event it took.
LEMMA PlaceCrash ==
    ASSUME IInv, Crash
    PROVE  OnePlace' /\ AtMostOnce'
<1>1. /\ UNCHANGED <<committed, logs, analysed>> /\ held' = NoEvent
      /\ queue' = <<>> /\ \A w \in Workers : batch'[w] = <<>>
  BY DEF Crash
<1>2. \A e \in Events : ~InFlight(e)'
  BY <1>1, EmptyLemma DEF InFlight, InBatch
<1>3. \A e \in Events : Pending(e)' => Pending(e)
  BY <1>1 DEF Crash, Pending
<1>4. PendingPlace'
  BY <1>1, <1>2, <1>3 DEF IInv, OnePlace, PendingPlace, Fresh
<1>5. HeldPlace' /\ QueuePlace' /\ BatchPlace'
  BY <1>1, EmptyLemma DEF HeldPlace, QueuePlace, BatchPlace
<1>6. AtMostOnce'
  BY <1>1 DEF IInv, AtMostOnce
<1> QED BY <1>4, <1>5, <1>6 DEF OnePlace

LEMMA PlaceStep == IInv /\ [Next]_vars => IInv'
<1> SUFFICES ASSUME IInv, [Next]_vars PROVE IInv'
  OBVIOUS
<1>1. Typing'
  BY TypingStep DEF IInv
<1>2. CASE Next
  BY <1>1, <1>2, PlaceHttp, PlaceConsumer, PlaceWorker, PlaceCrash DEF Next, IInv
<1>3. CASE UNCHANGED vars
  <2>1. OnePlace' /\ AtMostOnce'
    BY <1>3 DEF vars, IInv, OnePlace, PendingPlace, HeldPlace, QueuePlace, BatchPlace,
                Pending, InFlight, InBatch, Fresh, Distinct, AtMostOnce
  <2> QED BY <1>1, <2>1 DEF IInv
<1> QED BY <1>2, <1>3

\* An event is in one place at a time: not yet taken, in the consumer's hand,
\* in the channel, in one batch, or done.
THEOREM EventInOnePlace == Spec => []OnePlace
<1>1. IInv => OnePlace
  BY DEF IInv
<1> QED BY <1>1, PlaceInit, PlaceStep, PTL DEF Spec

\* No event is stored or analysed twice, with any number of workers, any
\* interleaving of them with the handlers and the consumer, and any sequence of
\* crashes, failed transactions and failed commits.
THEOREM DeliveredAtMostOnce == Spec => []AtMostOnce
<1>1. IInv => AtMostOnce
  BY DEF IInv
<1> QED BY <1>1, PlaceInit, PlaceStep, PTL DEF Spec

-----------------------------------------------------------------------------
(***************************************************************************)
(* The account of each event, and the refinement.  Everything follows from *)
(* what one step may do with one event (Move), which is found action by    *)
(* action.                                                                 *)
(***************************************************************************)
\* The event is in flight and its insert is still to come, or has been tried.
Waiting(e) ==
    \/ e = held \/ e \in ToSet(queue)
    \/ \E w \in Workers : pc[w] # "detect" /\ e \in ToSet(batch[w])
Detecting(e) == \E w \in Workers : pc[w] = "detect" /\ e \in ToSet(batch[w])

\* The process died before the handler had an answer for the event.
Aborted(e) == e \in HttpEvents /\ request[e] = "aborted"

(***************************************************************************)
(* The moves of an event.                                                  *)
(***************************************************************************)
Untouched(e) ==
    logs'[e] = logs[e] /\ analysed'[e] = analysed[e] /\ mishaps'[e] = mishaps[e]

Stays(e) ==
    /\ Pending(e)' <=> Pending(e)
    /\ Waiting(e)' <=> Waiting(e)
    /\ Detecting(e)' <=> Detecting(e)
    /\ Aborted(e) => Aborted(e)'
    /\ Untouched(e)

Enters(e) == Pending(e) /\ ~Pending(e)' /\ Waiting(e)' /\ ~Detecting(e)' /\ Untouched(e)

IsTried(e) ==
    /\ Waiting(e) /\ ~Pending(e)' /\ ~Waiting(e)' /\ Detecting(e)'
    /\ analysed'[e] = analysed[e]
    /\ \/ logs'[e] > 0 /\ mishaps'[e] = mishaps[e]
       \/ logs'[e] = logs[e] /\ mishaps'[e] = mishaps[e] \cup {"tx"}

IsAnalysed(e) ==
    /\ Detecting(e) /\ ~Pending(e)' /\ ~Waiting(e)' /\ ~Detecting(e)'
    /\ analysed'[e] = analysed[e] + 1
    /\ logs'[e] = logs[e] /\ mishaps'[e] = mishaps[e]

IsPassedOver(e) ==
    /\ e \in TopicEvents /\ Pending(e)
    /\ ~Pending(e)' /\ ~Waiting(e)' /\ ~Detecting(e)'
    /\ logs'[e] = logs[e] /\ analysed'[e] = analysed[e]
    /\ mishaps'[e] = mishaps[e] \cup {"offset"}

Dies(e) ==
    /\ Waiting(e) \/ Detecting(e)
    /\ ~Pending(e)' /\ ~Waiting(e)' /\ ~Detecting(e)'
    /\ logs'[e] = logs[e] /\ analysed'[e] = analysed[e]
    /\ mishaps'[e] = mishaps[e] \cup {"crash"}

IsAborted(e) ==
    /\ Pending(e) /\ ~Pending(e)' /\ ~Waiting(e)' /\ ~Detecting(e)' /\ Aborted(e)'
    /\ Untouched(e)

Move(e) ==
    \/ Stays(e) \/ Enters(e) \/ IsTried(e) \/ IsAnalysed(e)
    \/ IsPassedOver(e) \/ Dies(e) \/ IsAborted(e)

\* In flight is waiting or in a detection loop.
LEMMA FlightParts ==
    ASSUME NEW e
    PROVE  InFlight(e) <=> Waiting(e) \/ Detecting(e)
  BY DEF InFlight, InBatch, Waiting, Detecting

\* What OnePlace says of an event in each stage.
LEMMA StagesApart ==
    ASSUME IInv, NEW e \in Events
    PROVE  /\ Pending(e) => ~Waiting(e) /\ ~Detecting(e) /\ logs[e] = 0 /\ analysed[e] = 0
           /\ Waiting(e) => ~Pending(e) /\ ~Detecting(e) /\ logs[e] = 0 /\ analysed[e] = 0
           /\ Detecting(e) => ~Pending(e) /\ ~Waiting(e) /\ analysed[e] = 0
<1>0. held # NoEvent \/ e # held
  BY DEF Events
<1>1. Pending(e) => ~Waiting(e) /\ ~Detecting(e) /\ logs[e] = 0 /\ analysed[e] = 0
  BY FlightParts DEF IInv, OnePlace, PendingPlace, Fresh
<1>2. e = held => logs[e] = 0 /\ analysed[e] = 0 /\ ~InBatch(e)
  BY <1>0 DEF IInv, OnePlace, HeldPlace, Fresh
<1>3. e \in ToSet(queue) => logs[e] = 0 /\ analysed[e] = 0 /\ ~InBatch(e)
  BY DEF IInv, OnePlace, QueuePlace, Fresh
<1>4. ASSUME NEW w \in Workers, e \in ToSet(batch[w])
      PROVE  /\ analysed[e] = 0 /\ (pc[w] # "detect" => logs[e] = 0)
             /\ \A v \in Workers : e \in ToSet(batch[v]) => v = w
  BY <1>4 DEF IInv, OnePlace, BatchPlace
<1>5. Waiting(e) => ~Detecting(e) /\ logs[e] = 0 /\ analysed[e] = 0
  BY <1>2, <1>3, <1>4 DEF Waiting, Detecting, InBatch
<1>6. Detecting(e) => analysed[e] = 0
  BY <1>4 DEF Detecting
<1> QED BY <1>1, <1>5, <1>6
-----------------------------------------------------------------------------
LEMMA MoveHttp ==
    ASSUME IInv, NEW e \in HttpEvents, IngestLog(e), NEW x \in Events
    PROVE  Move(x)
<1> USE DEF consumer, database
<1>0. request \in [HttpEvents ->
           {"idle", "sending", "sent", "accepted", "refused", "aborted"}]
  BY DEF IInv, Typing, TypeOK
<1>1. CASE Refuse(e) \/ Validate(e) \/ Respond(e)
  <2>1. UNCHANGED <<consumer, queue, pc, batch, database>>
    BY <1>1 DEF Refuse, Validate, Respond
  <2>2. (Pending(x)' <=> Pending(x)) /\ (Aborted(x) => Aborted(x)')
    BY <1>0, <1>1, <2>1 DEF Refuse, Validate, Respond, Pending, Aborted
  <2>3. (Waiting(x)' <=> Waiting(x)) /\ (Detecting(x)' <=> Detecting(x)) /\ Untouched(x)
    BY <2>1 DEF Waiting, Detecting, Untouched
  <2> QED BY <2>2, <2>3 DEF Move, Stays
<1>2. CASE EnqueueHttp(e)
  <2>1. /\ e \in Events /\ EnqueueLog(e) /\ UNCHANGED <<consumer, pc, batch, database>>
        /\ request' = [request EXCEPT ![e] = "sent"] /\ request[e] = "sending"
    BY <1>2 DEF EnqueueHttp, Events
  <2>2. ToSet(queue') = ToSet(queue) \cup {e}
    BY <2>1, AppendLemma DEF EnqueueLog, IInv, Typing, TypeOK
  <2>3. Untouched(x) /\ (Detecting(x)' <=> Detecting(x))
    BY <2>1 DEF Untouched, Detecting
  <2>4. CASE x = e
    <3>1. Pending(e) /\ ~Pending(e)'
      BY <2>1 DEF IInv, Typing, TypeOK, Pending
    <3>2. ~Detecting(e)
      BY <2>1, <3>1, StagesApart
    <3>3. Waiting(e)'
      BY <2>2 DEF Waiting
    <3> QED BY <2>3, <2>4, <3>1, <3>2, <3>3 DEF Move, Enters
  <2>5. CASE x # e
    <3>1. (Pending(x)' <=> Pending(x)) /\ (Aborted(x) => Aborted(x)')
      BY <1>0, <2>1, <2>5 DEF Pending, Aborted
    <3>2. Waiting(x)' <=> Waiting(x)
      BY <2>1, <2>2, <2>5 DEF Waiting
    <3> QED BY <2>3, <3>1, <3>2 DEF Move, Stays
  <2> QED BY <2>4, <2>5
<1> QED BY <1>1, <1>2 DEF IngestLog

\* Messages that were fetched and are committed without having been handed over.
LEMMA Offsets ==
    ASSUME IInv, NEW n \in committed..position, NEW e \in PassedOver(n)
    PROVE  e \in TopicEvents /\ e \in Events /\ Pending(e)
<1>0. /\ committed \in 0..Len(Topic) /\ position \in committed..Len(Topic)
      /\ Len(Topic) \in Nat
  BY DEF IInv, Typing, TypeOK
<1>1. PICK i \in (committed + 1)..n : e = Topic[i]
  BY DEF PassedOver
<1>2. i \in (committed + 1)..Len(Topic) /\ i \in 1..Len(Topic)
  BY <1>0, <1>1
<1> QED BY <1>1, <1>2 DEF Pending, Events

LEMMA MoveRead ==
    ASSUME IInv, ReadMessage, NEW x \in Events
    PROVE  Move(x)
<1> USE DEF consumer, database
<1> PICK n : n = Topic[position + 1]
  OBVIOUS
<1>0. /\ committed \in 0..Len(Topic) /\ position \in committed..Len(Topic)
      /\ Len(Topic) \in Nat /\ mishaps \in [Events -> SUBSET {"tx", "crash", "offset"}]
  BY DEF IInv, Typing, TypeOK
<1>1. /\ position + 1 \in (committed + 1)..Len(Topic)
      /\ position + 1 \in 1..Len(Topic) /\ committed' = position + 1
      /\ held = NoEvent /\ held' = (IF n \in Undecodable THEN NoEvent ELSE n)
      /\ UNCHANGED <<request, queue, pc, batch, logs, analysed>>
  BY <1>0 DEF ReadMessage, Fetchable
<1>2. mishaps'[x] = mishaps[x] \cup
          (IF x \in PassedOver(position) \cup ({n} \cap Undecodable) THEN {"offset"} ELSE {})
  BY DEF ReadMessage
<1>3. n \in TopicEvents /\ n \in Events /\ n # NoEvent /\ n \notin HttpEvents /\ Pending(n)
  BY <1>1 DEF Pending, Events
<1>4. n \notin PassedOver(position)
  BY <1>0, <1>1 DEF PassedOver
<1>5. (Detecting(x)' <=> Detecting(x)) /\ (Aborted(x) => Aborted(x)')
  BY <1>1 DEF Detecting, Aborted
<1>6. x # n => (Waiting(x)' <=> Waiting(x))
  BY <1>1 DEF Waiting, Events
<1>7. ~Pending(n)'
  <2>1. \A i \in (committed' + 1)..Len(Topic) : i \in 1..Len(Topic) /\ i # position + 1
    BY <1>0, <1>1
  <2>2. \A i \in (committed' + 1)..Len(Topic) : Topic[i] # n
    BY <1>1, <2>1
  <2> QED BY <1>3, <2>2 DEF Pending
<1>8. CASE x = n
  <2>1. ~Waiting(n) /\ ~Detecting(n)
    BY <1>3, StagesApart
  <2>2. CASE n \in Undecodable
    <3>1. ~Waiting(n)'
      BY <1>1, <1>3, <2>1, <2>2 DEF Waiting
    <3> QED BY <1>1, <1>2, <1>3, <1>5, <1>7, <1>8, <2>1, <2>2, <3>1 DEF Move, IsPassedOver
  <2>3. CASE n \notin Undecodable
    <3>1. Waiting(n)'
      BY <1>1, <2>3 DEF Waiting
    <3>2. Untouched(n)
      BY <1>1, <1>2, <1>4, <1>8, <2>3 DEF Untouched
    <3> QED BY <1>3, <1>5, <1>7, <1>8, <2>1, <3>1, <3>2 DEF Move, Enters
  <2> QED BY <2>2, <2>3
<1>9. CASE x # n /\ x \in PassedOver(position)
  <2>1. x \in TopicEvents /\ Pending(x)
    BY <1>0, <1>9, Offsets
  <2>2. PICK i \in (committed + 1)..position : x = Topic[i]
    BY <1>9 DEF PassedOver
  <2>3. ~Pending(x)'
    BY <1>0, <1>1, <2>1, <2>2 DEF Pending
  <2>4. ~Waiting(x) /\ ~Detecting(x)
    BY <2>1, StagesApart
  <2>5. mishaps'[x] = mishaps[x] \cup {"offset"}
    BY <1>2, <1>9
  <2> QED BY <1>1, <1>5, <1>6, <1>9, <2>1, <2>3, <2>4, <2>5 DEF Move, IsPassedOver
<1>10. CASE x # n /\ x \notin PassedOver(position)
  <2>1. Pending(x)' => Pending(x)
    BY <1>0, <1>1 DEF Pending
  <2>2. Pending(x) => Pending(x)'
    <3> SUFFICES ASSUME NEW i \in (committed + 1)..Len(Topic), x = Topic[i]
                 PROVE  i \in (committed' + 1)..Len(Topic)
      BY <1>1 DEF Pending
    <3>1. i \notin (committed + 1)..position
      BY <1>10 DEF PassedOver
    <3>2. i # position + 1
      BY <1>10
    <3> QED BY <1>0, <1>1, <3>1, <3>2
  <2>3. Untouched(x)
    BY <1>1, <1>2, <1>10 DEF Untouched
  <2> QED BY <1>5, <1>6, <1>10, <2>1, <2>2, <2>3 DEF Move, Stays
<1> QED BY <1>8, <1>9, <1>10

LEMMA MoveOffset ==
    ASSUME IInv, CommitFails \/ Rejoin, NEW x \in Events
    PROVE  Move(x)
<1> USE DEF consumer, database
<1>0. /\ committed \in 0..Len(Topic) /\ position \in committed..Len(Topic)
      /\ Len(Topic) \in Nat /\ mishaps \in [Events -> SUBSET {"tx", "crash", "offset"}]
  BY DEF IInv, Typing, TypeOK
<1>1. UNCHANGED <<request, held, queue, pc, batch, logs, analysed>>
  BY DEF CommitFails, Rejoin
<1>2. (Waiting(x)' <=> Waiting(x)) /\ (Detecting(x)' <=> Detecting(x)) /\ (Aborted(x) => Aborted(x)')
  BY <1>1 DEF Waiting, Detecting, Aborted
<1>3. CASE committed' = committed /\ mishaps'[x] = mishaps[x]
  <2>1. Pending(x)' <=> Pending(x)
    BY <1>1, <1>3 DEF Pending
  <2> QED BY <1>1, <1>2, <1>3, <2>1 DEF Move, Stays, Untouched
<1>4. CASE CommitFails /\ committed' = position + 1
  <2>1. position + 1 \in (committed + 1)..Len(Topic)
    BY <1>0, <1>4 DEF CommitFails, Fetchable
  <2>2. mishaps'[x] = mishaps[x] \cup (IF x \in PassedOver(committed') THEN {"offset"} ELSE {})
    BY <1>4 DEF CommitFails
  <2>3. CASE x \in PassedOver(committed')
    <3>1. PICK i \in (committed + 1)..(position + 1) : x = Topic[i]
      BY <1>4, <2>3 DEF PassedOver
    <3>2. i \in (committed + 1)..Len(Topic) /\ i \in 1..Len(Topic) /\ i <= committed'
      BY <1>0, <1>4, <2>1, <3>1
    <3>3. x \in TopicEvents /\ Pending(x) /\ x \notin HttpEvents
      BY <3>1, <3>2 DEF Pending
    <3>4. ~Pending(x)'
      BY <1>0, <1>4, <2>1, <3>1, <3>2, <3>3 DEF Pending
    <3>5. ~Waiting(x) /\ ~Detecting(x)
      BY <3>3, StagesApart
    <3>6. mishaps'[x] = mishaps[x] \cup {"offset"}
      BY <2>2, <2>3
    <3> QED BY <1>1, <1>2, <3>3, <3>4, <3>5, <3>6 DEF Move, IsPassedOver
  <2>4. CASE x \notin PassedOver(committed')
    <3>1. Pending(x)' => Pending(x)
      BY <1>0, <1>1, <1>4, <2>1 DEF Pending
    <3>2. Pending(x) => Pending(x)'
      <4> SUFFICES ASSUME NEW i \in (committed + 1)..Len(Topic), x = Topic[i]
                   PROVE  i \in (committed' + 1)..Len(Topic)
        BY <1>1 DEF Pending
      <4>1. i \notin (committed + 1)..committed'
        BY <2>4 DEF PassedOver
      <4> QED BY <1>0, <1>4, <2>1, <4>1
    <3>3. Untouched(x)
      BY <1>0, <1>1, <2>2, <2>4 DEF Untouched
    <3> QED BY <1>2, <3>1, <3>2, <3>3 DEF Move, Stays
  <2> QED BY <2>3, <2>4
<1>5. ASSUME CommitFails, committed' = committed
      PROVE  mishaps'[x] = mishaps[x]
  <2>1. x \notin PassedOver(committed')
    BY <1>0, <1>5 DEF PassedOver
  <2> QED BY <1>0, <1>5, <2>1 DEF CommitFails
<1>6. Rejoin => committed' = committed /\ mishaps'[x] = mishaps[x]
  BY DEF Rejoin
<1>7. CommitFails => committed' \in {committed, position + 1}
  BY DEF CommitFails
<1> QED BY <1>3, <1>4, <1>5, <1>6, <1>7

LEMMA MoveEnqueueKafka ==
    ASSUME IInv, EnqueueKafka, NEW x \in Events
    PROVE  Move(x)
<1> USE DEF consumer, database
<1>1. /\ held \in Events /\ held # NoEvent /\ EnqueueLog(held) /\ held' = NoEvent
      /\ UNCHANGED <<request, committed, position, pc, batch, database>>
  BY DEF EnqueueKafka, IInv, Typing, TypeOK, Events
<1>2. ToSet(queue') = ToSet(queue) \cup {held}
  BY <1>1, AppendLemma DEF EnqueueLog, IInv, Typing, TypeOK
<1>3. x # NoEvent
  BY DEF Events
<1>4. Waiting(x)' <=> Waiting(x)
  BY <1>1, <1>2, <1>3 DEF Waiting
<1>5. (Pending(x)' <=> Pending(x)) /\ (Detecting(x)' <=> Detecting(x))
  BY <1>1 DEF Pending, Detecting
<1>6. (Aborted(x) => Aborted(x)') /\ Untouched(x)
  BY <1>1 DEF Aborted, Untouched
<1> QED BY <1>4, <1>5, <1>6 DEF Move, Stays

LEMMA MoveReceive ==
    ASSUME IInv, NEW w \in Workers, Receive(w), NEW x \in Events
    PROVE  Move(x)
<1> USE DEF consumer, database
<1> PICK h : h = Head(queue)
  OBVIOUS
<1>1. /\ queue \in Seq(Events) /\ queue # <<>> /\ batch[w] \in Seq(Events) /\ h \in Events
      /\ UNCHANGED <<request, consumer, logs, analysed, mishaps>> /\ pc[w] = "select"
      /\ queue' = Tail(queue) /\ batch'[w] = Append(batch[w], h)
      /\ \A v \in Workers \ {w} : batch'[v] = batch[v] /\ pc'[v] = pc[v]
      /\ pc'[w] # "detect"
  BY TailLemma DEF Receive, IInv, Typing, TypeOK
<1>2. ToSet(queue) = ToSet(queue') \cup {h}
  BY <1>1, TailLemma
<1>3. ToSet(batch'[w]) = ToSet(batch[w]) \cup {h}
  BY <1>1, AppendLemma
<1>4. Waiting(x) => Waiting(x)'
  BY <1>1, <1>2, <1>3 DEF Waiting
<1>5. Waiting(x)' => Waiting(x)
  BY <1>1, <1>2, <1>3 DEF Waiting
<1>6. Detecting(x)' <=> Detecting(x)
  BY <1>1 DEF Detecting
<1>7. (Pending(x)' <=> Pending(x)) /\ (Aborted(x) => Aborted(x)') /\ Untouched(x)
  BY <1>1 DEF Pending, Aborted, Untouched
<1> QED BY <1>4, <1>5, <1>6, <1>7 DEF Move, Stays

LEMMA MoveFlush ==
    ASSUME IInv, NEW w \in Workers, FlushOnTick(w), NEW x \in Events
    PROVE  Move(x)
<1> USE DEF consumer, database
<1>1. /\ UNCHANGED <<request, consumer, queue, batch, logs, analysed, mishaps>>
      /\ \A v \in Workers : pc'[v] = "detect" <=> pc[v] = "detect"
  BY DEF FlushOnTick, IInv, Typing, TypeOK
<1>2. (Waiting(x)' <=> Waiting(x)) /\ (Detecting(x)' <=> Detecting(x))
  BY <1>1 DEF Waiting, Detecting
<1>3. (Pending(x)' <=> Pending(x)) /\ (Aborted(x) => Aborted(x)') /\ Untouched(x)
  BY <1>1 DEF Pending, Aborted, Untouched
<1> QED BY <1>2, <1>3 DEF Move, Stays

LEMMA MoveInsert ==
    ASSUME IInv, NEW w \in Workers,
           InsertCommits(w) \/ InsertFails(w) \/ InsertAnswerLost(w), NEW x \in Events
    PROVE  Move(x)
<1> USE DEF consumer, database
<1>1. /\ UNCHANGED <<request, consumer, queue, batch, analysed>>
      /\ pc[w] = "insert" /\ pc'[w] = "detect"
      /\ \A v \in Workers \ {w} : pc'[v] = pc[v]
  BY DEF InsertCommits, InsertFails, InsertAnswerLost, IInv, Typing, TypeOK
<1>2. logs \in [Events -> Nat] /\ mishaps \in [Events -> SUBSET {"tx", "crash", "offset"}]
  BY DEF IInv, Typing, TypeOK
<1>3. (Pending(x)' <=> Pending(x)) /\ (Aborted(x) => Aborted(x)')
  BY <1>1 DEF Pending, Aborted
<1>4. CASE x \in ToSet(batch[w])
  <2>1. \/ logs'[x] > 0 /\ mishaps'[x] = mishaps[x]
        \/ logs'[x] = logs[x] /\ mishaps'[x] = mishaps[x] \cup {"tx"}
    BY <1>2, <1>4 DEF InsertCommits, InsertFails, InsertAnswerLost, Rows
  <2>2. Waiting(x) /\ Detecting(x)'
    BY <1>1, <1>4 DEF Waiting, Detecting
  <2>3. ~Pending(x)
    BY <2>2, StagesApart
  <2>4. x # held /\ x \notin ToSet(queue)
    BY <1>4 DEF IInv, OnePlace, HeldPlace, QueuePlace, InBatch, Events
  <2>5. \A v \in Workers \ {w} : x \notin ToSet(batch[v])
    BY <1>4 DEF IInv, OnePlace, BatchPlace
  <2>6. ~Waiting(x)'
    BY <1>1, <2>4, <2>5 DEF Waiting
  <2> QED BY <1>1, <1>3, <2>1, <2>2, <2>3, <2>6 DEF Move, IsTried
<1>5. CASE x \notin ToSet(batch[w])
  <2>1. Untouched(x)
    <3>1. logs'[x] = logs[x]
      BY <1>2, <1>5 DEF InsertCommits, InsertFails, InsertAnswerLost, Rows
    <3>2. mishaps'[x] = mishaps[x]
      <4>1. CASE InsertFails(w)
        <5>1. mishaps'[x] = mishaps[x] \cup {}
          BY <1>5, <4>1 DEF InsertFails
        <5> QED BY <5>1
      <4>2. CASE InsertCommits(w) \/ InsertAnswerLost(w)
        BY <4>2 DEF InsertCommits, InsertAnswerLost
      <4> QED BY <4>1, <4>2
    <3> QED BY <1>1, <3>1, <3>2 DEF Untouched
  <2>2. Waiting(x)' <=> Waiting(x)
    BY <1>1, <1>5 DEF Waiting
  <2>3. Detecting(x)' <=> Detecting(x)
    BY <1>1, <1>5 DEF Detecting
  <2> QED BY <1>3, <2>1, <2>2, <2>3 DEF Move, Stays
<1> QED BY <1>4, <1>5

LEMMA MoveDetect ==
    ASSUME IInv, NEW w \in Workers, Detect(w), NEW x \in Events
    PROVE  Move(x)
<1> USE DEF consumer, database
<1> PICK h : h = Head(batch[w])
  OBVIOUS
<1>1. /\ batch[w] \in Seq(Events) /\ batch[w] # <<>>
      /\ UNCHANGED <<request, consumer, queue, logs, mishaps>> /\ pc[w] = "detect"
      /\ batch'[w] = Tail(batch[w])
      /\ pc'[w] = (IF Len(batch[w]) = 1 THEN "select" ELSE "detect")
      /\ \A v \in Workers \ {w} : batch'[v] = batch[v] /\ pc'[v] = pc[v]
      /\ analysed' = [analysed EXCEPT ![h] = @ + 1]
  BY DEF Detect, IInv, Typing, TypeOK, WorkerPhases
<1>2. /\ h \in Events /\ h \in ToSet(batch[w]) /\ h \notin ToSet(batch'[w])
      /\ ToSet(batch[w]) = ToSet(batch'[w]) \cup {h}
  BY <1>1, TailLemma DEF IInv, OnePlace, BatchPlace
<1>3. analysed \in [Events -> Nat]
  BY DEF IInv, Typing, TypeOK
<1>4. (Pending(x)' <=> Pending(x)) /\ (Aborted(x) => Aborted(x)')
  BY <1>1 DEF Pending, Aborted
<1>5. pc'[w] # "detect" => ToSet(batch'[w]) = {}
  <2> SUFFICES ASSUME Len(batch[w]) = 1 PROVE ToSet(batch'[w]) = {}
    BY <1>1
  <2>1. batch'[w] \in Seq(Events) /\ Len(batch'[w]) = 0
    BY <1>1, TailLemma
  <2> QED BY <2>1 DEF ToSet
<1>6. CASE x = h
  <2>1. Detecting(x)
    BY <1>1, <1>2, <1>6 DEF Detecting
  <2>2. ~Pending(x)
    BY <2>1, StagesApart
  <2>3. x # held /\ x \notin ToSet(queue)
    BY <1>2, <1>6 DEF IInv, OnePlace, HeldPlace, QueuePlace, InBatch, Events
  <2>4. \A v \in Workers \ {w} : x \notin ToSet(batch[v])
    BY <1>2, <1>6 DEF IInv, OnePlace, BatchPlace
  <2>5. \A v \in Workers : x \notin ToSet(batch'[v])
    BY <1>1, <1>2, <1>6, <2>4
  <2>6. ~Waiting(x)' /\ ~Detecting(x)'
    BY <1>1, <2>3, <2>5 DEF Waiting, Detecting
  <2>7. analysed'[x] = analysed[x] + 1
    BY <1>1, <1>3, <1>6
  <2> QED BY <1>1, <1>4, <2>1, <2>2, <2>6, <2>7 DEF Move, IsAnalysed
<1>7. CASE x # h
  <2>1. Untouched(x)
    BY <1>1, <1>3, <1>7 DEF Untouched
  <2>2. x \in ToSet(batch'[w]) <=> x \in ToSet(batch[w])
    BY <1>2, <1>7
  <2>3. Waiting(x)' <=> Waiting(x)
    BY <1>1, <1>5, <2>2 DEF Waiting
  <2>4. Detecting(x)' <=> Detecting(x)
    BY <1>1, <1>5, <2>2 DEF Detecting
  <2> QED BY <1>4, <2>1, <2>3, <2>4 DEF Move, Stays
<1> QED BY <1>6, <1>7

LEMMA MoveCrash ==
    ASSUME IInv, Crash, NEW x \in Events
    PROVE  Move(x)
<1>1. /\ UNCHANGED <<committed, logs, analysed>> /\ held' = NoEvent
      /\ queue' = <<>> /\ \A w \in Workers : batch'[w] = <<>>
      /\ request' = [e \in HttpEvents |->
             IF request[e] \in {"sending", "sent"} THEN "aborted" ELSE request[e]]
      /\ mishaps'[x] = mishaps[x] \cup (IF InFlight(x) THEN {"crash"} ELSE {})
  BY DEF Crash
<1>2. ~Waiting(x)' /\ ~Detecting(x)'
  BY <1>1, EmptyLemma DEF Waiting, Detecting, Events
<1>3. (Pending(x)' => Pending(x)) /\ (Aborted(x) => Aborted(x)')
  BY <1>1 DEF Pending, Aborted
<1>4. Pending(x) /\ ~Pending(x)' => Aborted(x)'
  BY <1>1 DEF Pending, Aborted
<1>5. CASE InFlight(x)
  <2>1. Waiting(x) \/ Detecting(x)
    BY <1>5, FlightParts
  <2>2. ~Pending(x)
    BY <2>1, StagesApart
  <2> QED BY <1>1, <1>2, <1>3, <1>5, <2>1, <2>2 DEF Move, Dies
<1>6. CASE ~InFlight(x)
  <2>1. ~Waiting(x) /\ ~Detecting(x)
    BY <1>6, FlightParts
  <2>2. Untouched(x)
    BY <1>1, <1>6 DEF Untouched
  <2>3. CASE Pending(x) /\ ~Pending(x)'
    BY <1>2, <1>4, <2>2, <2>3 DEF Move, IsAborted
  <2>4. CASE ~(Pending(x) /\ ~Pending(x)')
    BY <1>2, <1>3, <2>1, <2>2, <2>4 DEF Move, Stays
  <2> QED BY <2>3, <2>4
<1> QED BY <1>5, <1>6

\* Every step of the pipeline does one of these seven things with an event.
LEMMA EveryMove ==
    ASSUME IInv, [Next]_vars, NEW x \in Events
    PROVE  Move(x)
<1>1. CASE Next
  <2>1. ASSUME NEW w \in Workers, Worker(w) PROVE Move(x)
    BY <2>1, MoveReceive, MoveFlush, MoveInsert, MoveDetect DEF Worker
  <2>2. StartConsumer \/ CommitFails \/ Rejoin => Move(x)
    BY MoveRead, MoveEnqueueKafka, MoveOffset DEF StartConsumer
  <2> QED BY <1>1, <2>1, <2>2, MoveHttp, MoveCrash DEF Next
<1>2. CASE UNCHANGED vars
  <2>1. (Pending(x)' <=> Pending(x)) /\ (Waiting(x)' <=> Waiting(x))
    BY <1>2 DEF vars, Pending, Waiting
  <2>2. (Detecting(x)' <=> Detecting(x)) /\ (Aborted(x) => Aborted(x)') /\ Untouched(x)
    BY <1>2 DEF vars, Detecting, Aborted, Untouched
  <2> QED BY <2>1, <2>2 DEF Move, Stays
<1> QED BY <1>1, <1>2
-----------------------------------------------------------------------------
(***************************************************************************)
(* The account of an event: what its stage says of the table, the          *)
(* detectors and its mishaps.  Each move keeps it.                         *)
(***************************************************************************)
Account(e) ==
    /\ Pending(e) \/ Waiting(e) => mishaps[e] = {}
    /\ Detecting(e) => logs[e] > 0 \/ "tx" \in mishaps[e]
    /\ logs[e] > 0 \/ mishaps[e] # {} \/ Pending(e) \/ Waiting(e) \/ Aborted(e)
    /\ logs[e] > 0 => analysed[e] = 1 \/ Detecting(e) \/ "crash" \in mishaps[e]
    /\ analysed[e] > 0 => logs[e] > 0 \/ "tx" \in mishaps[e]

\* A request that is not valid gets no further than the handler's check.
InvalidStays ==
    \A e \in HttpEvents \cap Invalid : request[e] \in {"idle", "refused"}

DInv == IInv /\ InvalidStays /\ \A e \in Events : Account(e)

LEMMA DeliveryInit == Init => DInv
<1> SUFFICES ASSUME Init PROVE DInv
  OBVIOUS
<1>1. IInv
  BY PlaceInit
<1>2. InvalidStays
  BY DEF Init, InvalidStays
<1>3. ASSUME NEW e \in Events PROVE Account(e)
  <2>1. logs[e] = 0 /\ analysed[e] = 0 /\ mishaps[e] = {}
    BY DEF Init
  <2>2. Pending(e)
    <3>1. CASE e \in HttpEvents
      BY <3>1 DEF Init, Pending
    <3>2. CASE e \in TopicEvents
      <4>1. \E i \in 1..Len(Topic) : e = Topic[i]
        BY <3>2 DEF TopicEvents, ToSet
      <4> QED BY <4>1 DEF Init, Pending
    <3> QED BY <3>1, <3>2 DEF Events
  <2>3. ~Detecting(e)
    BY DEF Init, Detecting
  <2> QED BY <2>1, <2>2, <2>3 DEF Account
<1> QED BY <1>1, <1>2, <1>3 DEF DInv

LEMMA AccountKept ==
    ASSUME DInv, IInv', NEW e \in Events, Move(e)
    PROVE  Account(e)'
<1>1. logs[e] \in Nat /\ analysed[e] \in Nat /\ Account(e)
  BY DEF DInv, IInv, Typing, TypeOK
<1>2. CASE Stays(e)
  BY <1>1, <1>2 DEF Stays, Untouched, Account
<1>3. CASE Enters(e)
  BY <1>1, <1>3, StagesApart DEF DInv, Enters, Untouched, Account
<1>4. CASE IsTried(e)
  BY <1>1, <1>4, StagesApart DEF DInv, IsTried, Account
<1>5. CASE IsAnalysed(e)
  <2>1. analysed[e] = 0
    BY <1>5, StagesApart DEF DInv, IsAnalysed
  <2> QED BY <1>1, <1>5, <2>1 DEF IsAnalysed, Account
<1>6. CASE IsPassedOver(e)
  BY <1>1, <1>6, StagesApart DEF DInv, IsPassedOver, Account
<1>7. CASE Dies(e)
  BY <1>1, <1>7 DEF Dies, Account
<1>8. CASE IsAborted(e)
  BY <1>1, <1>8, StagesApart DEF DInv, IsAborted, Untouched, Account
<1> QED BY <1>2, <1>3, <1>4, <1>5, <1>6, <1>7, <1>8 DEF Move

LEMMA InvalidStep ==
    ASSUME IInv, InvalidStays, [Next]_vars
    PROVE  InvalidStays'
<1> USE DEF consumer, database
<1>1. ASSUME NEW e \in HttpEvents, IngestLog(e) PROVE InvalidStays'
  BY <1>1 DEF IngestLog, Refuse, Validate, EnqueueHttp, Respond, InvalidStays, IInv, Typing, TypeOK
<1>2. StartConsumer \/ CommitFails \/ Rejoin => UNCHANGED request
  BY DEF StartConsumer, ReadMessage, EnqueueKafka, CommitFails, Rejoin
<1>3. ASSUME NEW w \in Workers, Worker(w) PROVE UNCHANGED request
  BY <1>3 DEF Worker, Receive, FlushOnTick, InsertCommits, InsertFails, InsertAnswerLost, Detect
<1>4. Crash => InvalidStays'
  BY DEF Crash, InvalidStays
<1>5. UNCHANGED request => InvalidStays'
  BY DEF InvalidStays
<1> QED BY <1>1, <1>2, <1>3, <1>4, <1>5 DEF Next, vars

LEMMA DeliveryStep == DInv /\ [Next]_vars => DInv'
<1> SUFFICES ASSUME DInv, [Next]_vars PROVE DInv'
  OBVIOUS
<1>1. IInv'
  BY PlaceStep DEF DInv
<1>2. InvalidStays'
  BY InvalidStep DEF DInv
<1>3. \A e \in Events : Account(e)'
  BY <1>1, EveryMove, AccountKept DEF DInv
<1> QED BY <1>1, <1>2, <1>3 DEF DInv

\* An acknowledged event is in flight or stored, unless a failed transaction, a crash
\* or an offset committed past it took it: for any workers, sizes, topic and faults.
THEOREM NothingIsLostSilently == Spec => []NoSilentLoss
<1>1. DInv => NoSilentLoss
  <2> SUFFICES ASSUME DInv, NEW e \in Acknowledged
               PROVE  InFlight(e) \/ e \in Stored \/ mishaps[e] # {}
    BY DEF NoSilentLoss
  <2>1. e \in Events /\ ~Pending(e) /\ ~Aborted(e)
    <3>1. CASE e \in HttpEvents /\ request[e] = "accepted"
      BY <3>1 DEF Pending, Aborted, Events, DInv, IInv, Typing, TypeOK
    <3>2. ASSUME NEW i \in 1..committed, e = Topic[i]
          PROVE  e \in Events /\ ~Pending(e) /\ ~Aborted(e)
      BY <3>2 DEF Pending, Aborted, Events, DInv, IInv, Typing, TypeOK
    <3> QED BY <3>1, <3>2 DEF Acknowledged
  <2>2. logs[e] > 0 \/ mishaps[e] # {} \/ Waiting(e)
    BY <2>1 DEF DInv, Account
  <2> QED BY <2>1, <2>2, FlightParts DEF Stored
<1> QED BY <1>1, DeliveryInit, DeliveryStep, PTL DEF Spec
-----------------------------------------------------------------------------
(***************************************************************************)
(* The counter.  A batch that is committed adds as many rows as it has     *)
(* events, none of which was there.                                        *)
(***************************************************************************)
LEMMA DistinctLemma ==
    ASSUME NEW S, NEW s \in Seq(S), Distinct(s)
    PROVE  IsFiniteSet(ToSet(s)) /\ Cardinality(ToSet(s)) = Len(s)
<1>1. /\ Len(s) \in Nat /\ DOMAIN s = 1..Len(s)
      /\ s \in [1..Len(s) -> ToSet(s)]
  BY DEF ToSet
<1>2. s \in Surjection(1..Len(s), ToSet(s))
  BY <1>1 DEF Surjection, ToSet
<1>3. s \in Injection(1..Len(s), ToSet(s))
  BY <1>1 DEF Injection, IsInjective, Distinct
<1>4. IsFiniteSet(1..Len(s)) /\ Cardinality(1..Len(s)) = Len(s)
  <2> PICK n \in Nat : n = Len(s)
    BY <1>1
  <2>1. IsFiniteSet(1..n) /\ Cardinality(1..n) = IF 1 > n THEN 0 ELSE (n - 1) + 1
    <3>1. 1 \in Int /\ n \in Int
      OBVIOUS
    <3> QED BY ONLY <3>1, FS_Interval, Zenon
  <2> QED BY <2>1
<1> QED BY <1>2, <1>3, <1>4, FS_Surjection

Counted == IsFiniteSet(Stored) /\ CounterIsHonest

LEMMA CountedInit == Init => Counted
<1> SUFFICES ASSUME Init PROVE Counted
  OBVIOUS
<1>1. Stored = {}
  BY DEF Init, Stored
<1> QED BY <1>1, FS_EmptySet DEF Init, Counted, CounterIsHonest

LEMMA CountedStep ==
    ASSUME DInv, Counted, [Next]_vars
    PROVE  Counted'
<1> USE DEF consumer, database
<1>0. processed \in Nat /\ Cardinality(Stored) \in Nat /\ processed <= Cardinality(Stored)
  BY FS_CardinalityType DEF DInv, IInv, Typing, TypeOK, Counted, CounterIsHonest
<1>1. CASE logs' = logs /\ processed' \in {processed, 0}
  <2>1. Stored' = Stored
    BY <1>1 DEF Stored
  <2> QED BY <1>0, <1>1, <2>1 DEF Counted, CounterIsHonest
<1>2. ASSUME NEW w \in Workers, pc[w] = "insert", logs' = Rows(w),
             processed' \in {processed, processed + Len(batch[w])}
      PROVE  Counted'
  <2> PICK b : b = batch[w]
    OBVIOUS
  <2> PICK n : n = Len(b)
    OBVIOUS
  <2>1. b \in Seq(Events) /\ Distinct(b) /\ \A e \in ToSet(b) : logs[e] = 0
    BY <1>2 DEF DInv, IInv, Typing, TypeOK, OnePlace, BatchPlace
  <2>2. n \in Nat /\ IsFiniteSet(ToSet(b)) /\ Cardinality(ToSet(b)) = n
    BY <2>1, DistinctLemma
  <2>3. ToSet(b) \subseteq Events
    BY <2>1 DEF ToSet
  <2>4. Stored' = Stored \cup ToSet(b)
    <3>1. \A e \in Events : logs'[e] = logs[e] + (IF e \in ToSet(b) THEN 1 ELSE 0)
      BY <1>2 DEF Rows
    <3>2. logs \in [Events -> Nat]
      BY DEF DInv, IInv, Typing, TypeOK
    <3> QED BY <2>3, <3>1, <3>2 DEF Stored
  <2>5. Stored \cap ToSet(b) = {}
    BY <2>1 DEF Stored
  <2>6. IsFiniteSet(Stored) /\ Cardinality({}) = 0
    BY FS_EmptySet DEF Counted
  <2>7. IsFiniteSet(Stored') /\ Cardinality(Stored') = Cardinality(Stored) + n
    <3>1. /\ IsFiniteSet(Stored \cup ToSet(b))
          /\ Cardinality(Stored \cup ToSet(b)) = Cardinality(Stored)
                 + (Cardinality(ToSet(b)) - Cardinality(Stored \cap ToSet(b)))
      BY <2>2, <2>6, FS_Union
    <3>2. Cardinality(Stored \cap ToSet(b)) = 0
      BY <2>5, <2>6
    <3> QED BY <1>0, <2>2, <2>4, <3>1, <3>2
  <2> QED BY <1>0, <1>2, <2>2, <2>7 DEF Counted, CounterIsHonest
<1>3. ASSUME NEW w \in Workers, Worker(w)
      PROVE  Counted'
  <2>1. Receive(w) \/ FlushOnTick(w) \/ InsertFails(w) \/ Detect(w) =>
            logs' = logs /\ processed' = processed
    BY DEF Receive, FlushOnTick, InsertFails, Detect
  <2>2. InsertCommits(w) => Counted'
    BY <1>2 DEF InsertCommits
  <2>3. InsertAnswerLost(w) => Counted'
    BY <1>2 DEF InsertAnswerLost
  <2> QED BY <1>1, <1>3, <2>1, <2>2, <2>3 DEF Worker
<1>4. ASSUME NEW e \in HttpEvents, IngestLog(e)
      PROVE  logs' = logs /\ processed' = processed
  BY <1>4 DEF IngestLog, Refuse, Validate, EnqueueHttp, Respond
<1>5. StartConsumer \/ CommitFails \/ Rejoin => logs' = logs /\ processed' = processed
  BY DEF StartConsumer, ReadMessage, EnqueueKafka, CommitFails, Rejoin
<1>6. Crash => logs' = logs /\ processed' = 0
  BY DEF Crash
<1>7. UNCHANGED vars => logs' = logs /\ processed' = processed
  BY DEF vars
<1> QED BY <1>1, <1>3, <1>4, <1>5, <1>6, <1>7 DEF Next

\* A stored event is analysed unless a crash cuts the detection loop short, an event
\* analysed but not stored was in a failed transaction, and the counter of the metrics
\* never exceeds the rows of the table.
THEOREM StoredAndAnalysedTogether == Spec => []StoredAnalysedCounted
<1>1. DInv => StoredIsAnalysed /\ AnalysedIsStored
  BY DEF DInv, Account, Detecting, StoredIsAnalysed, AnalysedIsStored, Stored
<1>2. DInv /\ Counted /\ [Next]_vars => Counted'
  BY CountedStep
<1>3. DInv /\ Counted => StoredAnalysedCounted
  BY <1>1 DEF StoredAnalysedCounted, Counted
<1> QED BY <1>2, <1>3, DeliveryInit, DeliveryStep, CountedInit, PTL DEF Spec
-----------------------------------------------------------------------------
(***************************************************************************)
(* The refinement.                                                         *)
(***************************************************************************)
LEMMA FateMeaning ==
    ASSUME NEW e \in Events
    PROVE  Fate[e] = IF logs[e] > 0 THEN "stored"
                     ELSE IF mishaps[e] # {} THEN "lost"
                     ELSE IF InFlight(e) THEN "taken" ELSE "offered"
  BY DEF Fate, Stored

LEMMA FateInit == Init => Delivery!Init
<1> SUFFICES ASSUME Init, NEW e \in Events PROVE Fate[e] = "offered"
  BY DEF Delivery!Init, Fate
<1>1. logs[e] = 0 /\ mishaps[e] = {}
  BY DEF Init
<1>2. ~InFlight(e)
  BY EmptyLemma DEF Init, InFlight, InBatch, Events
<1> QED BY <1>1, <1>2, FateMeaning

\* A move of an event is a move of its fate, or leaves it.
LEMMA FateMoves ==
    ASSUME DInv, DInv', NEW e \in Events, Move(e)
    PROVE  Fate'[e] = Fate[e] \/ <<Fate[e], Fate'[e]>> \in Delivery!Moves(e)
<1>1. /\ logs[e] \in Nat /\ analysed[e] \in Nat /\ Account(e)
      /\ InFlight(e) <=> Waiting(e) \/ Detecting(e)
  BY FlightParts DEF DInv, IInv, Typing, TypeOK
<1>2. Fate[e] = IF logs[e] > 0 THEN "stored" ELSE IF mishaps[e] # {} THEN "lost"
                ELSE IF Waiting(e) \/ Detecting(e) THEN "taken" ELSE "offered"
  BY <1>1, FateMeaning
<1>3. Fate'[e] = IF logs'[e] > 0 THEN "stored" ELSE IF mishaps'[e] # {} THEN "lost"
                 ELSE IF Waiting(e)' \/ Detecting(e)' THEN "taken" ELSE "offered"
  BY FateMeaning, FlightParts DEF Fate, Stored, InFlight, InBatch, Waiting, Detecting
<1>4. Waiting(e) \/ Detecting(e) => e \in FragileEvents
  <2> SUFFICES ASSUME e \in HttpEvents \cap Invalid PROVE ~Waiting(e) /\ ~Detecting(e)
    BY DEF FragileEvents
  <2>1. Pending(e)
    BY DEF DInv, InvalidStays, Pending
  <2> QED BY <2>1, StagesApart DEF DInv
<1>5. CASE Stays(e)
  BY <1>2, <1>3, <1>5 DEF Stays, Untouched
<1>6. CASE Enters(e)
  <2>1. logs[e] = 0 /\ mishaps[e] = {} /\ ~Waiting(e) /\ ~Detecting(e)
    BY <1>1, <1>6, StagesApart DEF DInv, Enters, Account
  <2>2. Fate[e] = "offered" /\ Fate'[e] = "taken"
    BY <1>2, <1>3, <1>6, <2>1 DEF Enters, Untouched
  <2> QED BY <2>2 DEF Delivery!Moves
<1>7. CASE IsTried(e)
  <2>1. logs[e] = 0 /\ mishaps[e] = {} /\ e \in FragileEvents /\ Waiting(e)
    BY <1>1, <1>4, <1>7, StagesApart DEF DInv, IsTried, Account
  <2>2. Fate[e] = "taken" /\ Fate'[e] \in {"stored", "lost"}
    BY <1>2, <1>3, <1>7, <2>1 DEF IsTried
  <2> QED BY <2>1, <2>2 DEF Delivery!Moves
<1>8. CASE IsAnalysed(e)
  <2>1. logs[e] > 0 \/ mishaps[e] # {}
    BY <1>1, <1>8 DEF IsAnalysed, Account
  <2> QED BY <1>2, <1>3, <1>8, <2>1 DEF IsAnalysed
<1>9. CASE IsPassedOver(e)
  <2>1. logs[e] = 0 /\ mishaps[e] = {} /\ ~Waiting(e) /\ ~Detecting(e)
    BY <1>1, <1>9, StagesApart DEF DInv, IsPassedOver, Account
  <2>2. Fate[e] = "offered" /\ Fate'[e] = "lost"
    BY <1>2, <1>3, <1>9, <2>1 DEF IsPassedOver
  <2>3. e \in FragileEvents
    BY <1>9 DEF IsPassedOver, FragileEvents
  <2> QED BY <2>2, <2>3 DEF Delivery!Moves
<1>10. CASE Dies(e)
  <2>1. e \in FragileEvents /\ (Waiting(e) \/ Detecting(e)) /\ logs'[e] = logs[e]
    BY <1>4, <1>10 DEF Dies
  <2>2. Fate'[e] = IF logs[e] > 0 THEN "stored" ELSE "lost"
    BY <1>3, <1>10, <2>1 DEF Dies
  <2> QED BY <1>2, <2>1, <2>2 DEF Delivery!Moves
<1>11. CASE IsAborted(e)
  <2>1. ~Waiting(e) /\ ~Detecting(e)
    BY <1>11, StagesApart DEF DInv, IsAborted
  <2> QED BY <1>2, <1>3, <1>11, <2>1 DEF IsAborted, Untouched
<1> QED BY <1>5, <1>6, <1>7, <1>8, <1>9, <1>10, <1>11 DEF Move

LEMMA FateStep == DInv /\ DInv' /\ [Next]_vars => [Delivery!Advance]_Fate
<1> SUFFICES ASSUME DInv, DInv', [Next]_vars PROVE Delivery!Advance
  OBVIOUS
<1>1. Fate' \in [Events -> Delivery!Fates]
  BY DEF Fate, Delivery!Fates
<1>2. \A e \in Events : Fate'[e] = Fate[e] \/ <<Fate[e], Fate'[e]>> \in Delivery!Moves(e)
  BY EveryMove, FateMoves DEF DInv
<1> QED BY <1>1, <1>2 DEF Delivery!Advance

\* The pipeline implements LogDelivery: the fate of an event moves from offered to
\* taken and from there to stored or lost, is never revised, and only an event that
\* the handler does not refuse is lost.
THEOREM PipelineImplementsDelivery == Spec => ImplementsDelivery
<1> QED BY DeliveryInit, DeliveryStep, FateInit, FateStep, PTL
        DEF Spec, ImplementsDelivery, Delivery!Spec
=============================================================================
