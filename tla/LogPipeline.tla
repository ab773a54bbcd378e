---------------------------- MODULE LogPipeline ----------------------------
(***************************************************************************)
(* The path of an event through the ingestion service: two entry points    *)
(* (the POST /logs handler and the Kafka consumer), the buffered channel   *)
(* queue.LogQueue, and the worker goroutines that collect batches, insert  *)
(* a batch in one database transaction and then run the detectors on each  *)
(* of its events.  The process may crash at any point; the database may    *)
(* fail a transaction; Kafka may fail an offset commit.                    *)
(*                                                                         *)
(* An event stands for one submission: one HTTP request, or one message of *)
(* the topic.  Its contents matter only through the three sets of invalid, *)
(* undecodable and unstorable events.                                      *)
(***************************************************************************)
EXTENDS Integers, Sequences, FiniteSets, SequencesExt

CONSTANTS
    Workers,       \* the goroutines started by StartWorkers
    HttpEvents,    \* events submitted by POST /logs, one request each
    Topic,         \* the Kafka topic: the sequence of its messages
    Invalid,       \* events the HTTP handler refuses with a 400
    Undecodable,   \* messages of the topic that are not JSON events
    Unstorable,    \* events whose INSERT the database refuses
    QueueCap,      \* capacity of queue.LogQueue
    BatchSize,     \* batchSize of the worker
    Faults,        \* the faults the environment may inject
    NoEvent        \* the consumer has nothing in hand

TopicEvents == ToSet(Topic)
Events == HttpEvents \cup TopicEvents

ASSUME HttpAssumption == NoEvent \notin Events /\ HttpEvents \cap TopicEvents = {}
ASSUME TopicAssumption ==
    /\ Topic \in Seq(TopicEvents)
    /\ \A i, j \in 1..Len(Topic) : Topic[i] = Topic[j] => i = j
ASSUME SizeAssumption == QueueCap \in Nat \ {0} /\ BatchSize \in Nat \ {0}

VARIABLES
    request,    \* request[e]: progress of the HTTP request that carries e
    committed,  \* offset committed by the consumer group (messages 1..committed)
    position,   \* offset up to which the reader has fetched
    held,       \* the message the consumer holds between read and enqueue
    queue,      \* contents of queue.LogQueue
    pc,         \* pc[w]: where worker w is: in its select, in InsertLogsBatch,
                \*   or in the detection loop of flush
    batch,      \* batch[w]: its batch; in the detection loop, what is left of it
    logs,       \* logs[e]: rows of table logs that hold event e
    analysed,   \* analysed[e]: times the detectors were run on e
    processed,  \* the counter metrics.EventsProcessed since the last start
    mishaps     \* history: what went wrong with e ("tx", "crash", "offset")

vars == <<request, committed, position, held, queue, pc, batch, logs,
          analysed, processed, mishaps>>

consumer == <<committed, position, held>>
database == <<logs, analysed, processed, mishaps>>

\* An event the service holds in memory only.
InBatch(e) == \E w \in Workers : e \in ToSet(batch[w])
InFlight(e) == e = held \/ e \in ToSet(queue) \/ InBatch(e)

Stored == {e \in Events : logs[e] > 0}

TypeOK ==
    /\ request \in [HttpEvents ->
           {"idle", "sending", "sent", "accepted", "refused", "aborted"}]
    /\ committed \in 0..Len(Topic)
    /\ position \in committed..Len(Topic)
    /\ held \in TopicEvents \cup {NoEvent}
    /\ queue \in Seq(Events) /\ Len(queue) <= QueueCap
    /\ pc \in [Workers -> {"select", "insert", "detect"}]
    /\ batch \in [Workers -> Seq(Events)]
    /\ \A w \in Workers : Len(batch[w]) <= BatchSize
    /\ logs \in [Events -> Nat] /\ analysed \in [Events -> Nat]
    /\ processed \in Nat
    /\ mishaps \in [Events -> SUBSET {"tx", "crash", "offset"}]

Init ==
    /\ request = [e \in HttpEvents |-> "idle"]
    /\ committed = 0 /\ position = 0 /\ held = NoEvent
    /\ queue = <<>>
    /\ pc = [w \in Workers |-> "select"]
    /\ batch = [w \in Workers |-> <<>>]
    /\ logs = [e \in Events |-> 0] /\ analysed = [e \in Events |-> 0]
    /\ processed = 0
    /\ mishaps = [e \in Events |-> {}]

\* InsertLogsBatch: all rows of the batch or none, and none if one is refused.
Rows(w) == [e \in Events |-> logs[e] + (IF e \in ToSet(batch[w]) THEN 1 ELSE 0)]

Storable(w) == ToSet(batch[w]) \cap Unstorable = {}

-----------------------------------------------------------------------------
(* Plausible mistakes in the actions below.  None is part of Next: each     *)
(* replaces the action it imitates to see that a property notices.          *)

\* The channel without its capacity.
EnqueueUnbounded(e) == queue' = Append(queue, e)

\* A send that drops the event when the channel is full.
EnqueueOrDrop(e) == queue' = IF Len(queue) < QueueCap THEN Append(queue, e) ELSE queue

\* An insert that is repeated because its answer was an error.
InsertAnswerLostRetried(w) ==
    /\ pc[w] = "insert" /\ Storable(w) /\ "tx" \in Faults
    /\ logs' = Rows(w)
    /\ UNCHANGED <<request, consumer, queue, pc, batch, analysed, processed, mishaps>>

\* A detection loop that resets the batch one event early.
DetectSkipsLast(w) ==
    /\ pc[w] = "detect"
    /\ analysed' = [analysed EXCEPT ![Head(batch[w])] = @ + 1]
    /\ batch' = [batch EXCEPT ![w] = IF Len(@) <= 2 THEN <<>> ELSE Tail(@)]
    /\ pc' = [pc EXCEPT ![w] = IF Len(batch[w]) <= 2 THEN "select" ELSE "detect"]
    /\ UNCHANGED <<request, consumer, queue, logs, processed, mishaps>>

\* A tick that only flushes full batches.
FlushOnlyFull(w) ==
    /\ pc[w] = "select" /\ Len(batch[w]) >= BatchSize
    /\ pc' = [pc EXCEPT ![w] = "insert"]
    /\ UNCHANGED <<request, consumer, queue, batch, database>>

\* A consumer that stops at a message it cannot decode.
FetchableEvent ==
    /\ held = NoEvent /\ position < Len(Topic)
    /\ Topic[position + 1] \notin Undecodable

-----------------------------------------------------------------------------
(* POST /logs.  The handler goroutine decodes and validates, blocks on the  *)
(* channel until the event is in it, and only then writes its 202.          *)

Refuse(e) ==
    /\ request[e] = "idle" /\ e \in Invalid
    /\ request' = [request EXCEPT ![e] = "refused"]
    /\ UNCHANGED <<consumer, queue, pc, batch, database>>

Validate(e) ==
    /\ request[e] = "idle" /\ e \notin Invalid
    /\ request' = [request EXCEPT ![e] = "sending"]
    /\ UNCHANGED <<consumer, queue, pc, batch, database>>

EnqueueLog(e) ==
    /\ Len(queue) < QueueCap
    /\ queue' = Append(queue, e)

EnqueueHttp(e) ==
    /\ request[e] = "sending"
    /\ EnqueueLog(e)
    /\ request' = [request EXCEPT ![e] = "sent"]
    /\ UNCHANGED <<consumer, pc, batch, database>>

Respond(e) ==
    /\ request[e] = "sent"
    /\ request' = [request EXCEPT ![e] = "accepted"]
    /\ UNCHANGED <<consumer, queue, pc, batch, database>>

-----------------------------------------------------------------------------
(* The Kafka consumer.  ReadMessage of a group reader fetches the next      *)
(* message and commits its offset before it returns it; when the commit     *)
(* fails it returns the error and no message, and the next call fetches the *)
(* following one.  A reader that rejoins its group resumes from the         *)
(* committed offset.                                                        *)

\* The messages that a commit up to offset n passes over: fetched by calls
\* that returned an error, and never handed to the consumer.
PassedOver(n) == {Topic[i] : i \in (committed + 1)..n}

Fetchable == held = NoEvent /\ position < Len(Topic)

ReadMessage ==
    /\ Fetchable
    /\ LET next == Topic[position + 1]
           gone == PassedOver(position) \cup ({next} \cap Undecodable)
       IN /\ held' = IF next \in Undecodable THEN NoEvent ELSE next
          /\ mishaps' = [e \in Events |->
                 mishaps[e] \cup (IF e \in gone THEN {"offset"} ELSE {})]
    /\ position' = position + 1 /\ committed' = position + 1
    /\ UNCHANGED <<request, queue, pc, batch, logs, analysed, processed>>

\* The commit is reported as failed.  It may have reached the broker.
CommitFails ==
    /\ "commit" \in Faults /\ Fetchable
    /\ position' = position + 1
    /\ committed' \in {committed, position + 1}
    /\ mishaps' = [e \in Events |->
           mishaps[e] \cup (IF e \in PassedOver(committed') THEN {"offset"} ELSE {})]
    /\ UNCHANGED <<request, held, queue, pc, batch, logs, analysed, processed>>

Rejoin ==
    /\ "commit" \in Faults /\ position # committed
    /\ position' = committed
    /\ UNCHANGED <<request, committed, held, queue, pc, batch, database>>

EnqueueKafka ==
    /\ held # NoEvent
    /\ EnqueueLog(held)
    /\ held' = NoEvent
    /\ UNCHANGED <<request, committed, position, pc, batch, database>>

-----------------------------------------------------------------------------
(* A worker.  Its select takes an event from the channel or a tick of its   *)
(* two-second ticker, whichever is ready; the batch is flushed when full or *)
(* on the tick.  Flushing an empty batch does nothing.                      *)

Receive(w) ==
    /\ pc[w] = "select" /\ queue # <<>>
    /\ batch' = [batch EXCEPT ![w] = Append(@, Head(queue))]
    /\ queue' = Tail(queue)
    /\ pc' = [pc EXCEPT ![w] = IF Len(batch'[w]) >= BatchSize THEN "insert" ELSE "select"]
    /\ UNCHANGED <<request, consumer, database>>

FlushOnTick(w) ==
    /\ pc[w] = "select" /\ batch[w] # <<>>
    /\ pc' = [pc EXCEPT ![w] = "insert"]
    /\ UNCHANGED <<request, consumer, queue, batch, database>>

InsertCommits(w) ==
    /\ pc[w] = "insert" /\ Storable(w)
    /\ logs' = Rows(w)
    /\ processed' = processed + Len(batch[w])
    /\ pc' = [pc EXCEPT ![w] = "detect"]
    /\ UNCHANGED <<request, consumer, queue, batch, analysed, mishaps>>

\* Begin, Prepare, an Exec or Commit fails; the transaction is rolled back.
\* The error is printed and the batch goes on to the detectors all the same.
InsertFails(w) ==
    /\ pc[w] = "insert"
    /\ ~Storable(w) \/ "tx" \in Faults
    /\ mishaps' = [e \in Events |->
           mishaps[e] \cup (IF e \in ToSet(batch[w]) THEN {"tx"} ELSE {})]
    /\ pc' = [pc EXCEPT ![w] = "detect"]
    /\ UNCHANGED <<request, consumer, queue, batch, logs, analysed, processed>>

\* Commit reaches the database and its answer is lost: rows and an error.
InsertAnswerLost(w) ==
    /\ pc[w] = "insert" /\ Storable(w) /\ "tx" \in Faults
    /\ logs' = Rows(w)
    /\ pc' = [pc EXCEPT ![w] = "detect"]
    /\ UNCHANGED <<request, consumer, queue, batch, analysed, processed, mishaps>>

\* One iteration of the detection loop: both detectors see the event.
Detect(w) ==
    /\ pc[w] = "detect"
    /\ analysed' = [analysed EXCEPT ![Head(batch[w])] = @ + 1]
    /\ batch' = [batch EXCEPT ![w] = Tail(@)]
    /\ pc' = [pc EXCEPT ![w] = IF Len(batch[w]) = 1 THEN "select" ELSE "detect"]
    /\ UNCHANGED <<request, consumer, queue, logs, processed, mishaps>>

-----------------------------------------------------------------------------
(* The process dies and is started again: everything in memory is gone, the *)
(* clients of open requests see a broken connection, and the new reader     *)
(* starts from the committed offset.                                        *)

Crash ==
    /\ "crash" \in Faults
    /\ mishaps' = [e \in Events |->
           mishaps[e] \cup (IF InFlight(e) THEN {"crash"} ELSE {})]
    /\ request' = [e \in HttpEvents |->
           IF request[e] \in {"sending", "sent"} THEN "aborted" ELSE request[e]]
    /\ position' = committed /\ held' = NoEvent
    /\ queue' = <<>>
    /\ pc' = [w \in Workers |-> "select"]
    /\ batch' = [w \in Workers |-> <<>>]
    /\ processed' = 0
    /\ UNCHANGED <<committed, logs, analysed>>

-----------------------------------------------------------------------------
IngestLog(e) == Refuse(e) \/ Validate(e) \/ EnqueueHttp(e) \/ Respond(e)

StartConsumer == ReadMessage \/ EnqueueKafka

Worker(w) ==
    \/ Receive(w) \/ FlushOnTick(w)
    \/ InsertCommits(w) \/ InsertFails(w) \/ InsertAnswerLost(w)
    \/ Detect(w)

Next ==
    \/ \E e \in HttpEvents : IngestLog(e)
    \/ StartConsumer \/ CommitFails \/ Rejoin
    \/ \E w \in Workers : Worker(w)
    \/ Crash

Spec == Init /\ [][Next]_vars

\* Handlers, consumer and workers are goroutines the scheduler keeps running;
\* a select with several ready cases picks at random, so a ready tick is not
\* passed over for ever; each transaction is assumed to end.
Fairness ==
    /\ \A e \in HttpEvents : WF_vars(EnqueueHttp(e)) /\ WF_vars(Respond(e))
    /\ WF_vars(ReadMessage) /\ WF_vars(EnqueueKafka)
    /\ \A w \in Workers :
           /\ WF_vars(Receive(w)) /\ WF_vars(FlushOnTick(w)) /\ WF_vars(Detect(w))
           /\ WF_vars(InsertCommits(w) \/ InsertFails(w) \/ InsertAnswerLost(w))

FairSpec == Spec /\ Fairness

-----------------------------------------------------------------------------
\* No event is stored twice or analysed twice, whatever the interleaving of
\* handlers, consumer and workers, and across crashes, rejoins and lost
\* answers: ReadMessage acknowledges before it delivers, the channel hands an
\* event to one worker, and flush never retries a batch.
AtMostOnce == \A e \in Events : logs[e] <= 1 /\ analysed[e] <= 1

\* Where an event can be.  Pending: not taken over yet.  A pending event is
\* nowhere else; an event in hand, in the channel or in a batch is in that one
\* place once, and is neither stored nor analysed before its turn.  This is
\* what makes AtMostOnce true: the places pass an event on, they never copy it.
Pending(e) ==
    \/ e \in HttpEvents /\ request[e] \in {"idle", "sending", "refused"}
    \/ \E i \in (committed + 1)..Len(Topic) : e = Topic[i]
Fresh(e) == logs[e] = 0 /\ analysed[e] = 0
Distinct(s) == \A i, j \in 1..Len(s) : s[i] = s[j] => i = j

PendingPlace == \A e \in Events : Pending(e) => ~InFlight(e) /\ Fresh(e)
HeldPlace ==
    held # NoEvent => held \notin ToSet(queue) /\ ~InBatch(held) /\ Fresh(held)
QueuePlace ==
    Distinct(queue) /\ \A e \in ToSet(queue) : ~InBatch(e) /\ Fresh(e)
BatchPlace ==
    \A w \in Workers :
        /\ Distinct(batch[w])
        /\ \A v \in Workers \ {w} : ToSet(batch[w]) \cap ToSet(batch[v]) = {}
        /\ \A e \in ToSet(batch[w]) :
               analysed[e] = 0 /\ (pc[w] # "detect" => logs[e] = 0)

OnePlace == PendingPlace /\ HeldPlace /\ QueuePlace /\ BatchPlace

\* What the proofs need of the workers: one leaves its select with something to
\* insert, and never sits in it with a full batch.
WorkerPhases ==
    \A w \in Workers :
        IF pc[w] = "select" THEN Len(batch[w]) < BatchSize ELSE batch[w] # <<>>

\* An event the service took over (its request was answered 202, or its offset
\* is committed) is still in flight or in the table, unless one of three
\* things happened to it: a failed transaction, a crash, or an offset committed
\* past it.  There is no other way to lose an event.
Acknowledged ==
    {e \in HttpEvents : request[e] = "accepted"} \cup {Topic[i] : i \in 1..committed}

NoSilentLoss ==
    \A e \in Acknowledged : InFlight(e) \/ e \in Stored \/ mishaps[e] # {}

StoredIsAnalysed ==
    \A e \in Stored :
        \/ analysed[e] = 1
        \/ \E w \in Workers : pc[w] = "detect" /\ e \in ToSet(batch[w])
        \/ "crash" \in mishaps[e]
AnalysedIsStored ==
    \A e \in Events : analysed[e] > 0 => e \in Stored \/ "tx" \in mishaps[e]
CounterIsHonest == processed <= Cardinality(Stored)

\* Storing, analysing and counting go together: a stored event has been analysed, or
\* its worker is in the detection loop, or a crash cut that loop short; an analysed
\* event that is not in the table was in a transaction that failed; and
\* siem_events_processed_total never reports more events than the table holds,
\* although the counter is bumped outside the transaction.
StoredAnalysedCounted == StoredIsAnalysed /\ AnalysedIsStored /\ CounterIsHonest

\* Without crashes, every event that enters the channel reaches the detectors,
\* also when its transaction fails: a full or half-empty batch is never stuck.
TakenIsAnalysed ==
    \A e \in Events : InFlight(e) ~> analysed[e] = 1

\* Back-pressure ends: a handler blocked on a full channel gets its 202, and the
\* consumer reaches the end of the topic, which undecodable messages and a full
\* channel delay but never stop.
SenderIsAnswered ==
    \A e \in HttpEvents : request[e] = "sending" ~> request[e] = "accepted"
TopicIsConsumed == <>(committed = Len(Topic))
ProducersGoOn == SenderIsAnswered /\ TopicIsConsumed

-----------------------------------------------------------------------------
(* The pipeline implements LogDelivery.                                     *)

Fate == [e \in Events |->
    CASE e \in Stored -> "stored"
      [] e \notin Stored /\ mishaps[e] # {} -> "lost"
      [] e \notin Stored /\ mishaps[e] = {} /\ InFlight(e) -> "taken"
      [] OTHER -> "offered"]

\* Any event but one that the handler refuses may be lost.
FragileEvents == Events \ (Invalid \cap HttpEvents)

Delivery == INSTANCE LogDelivery WITH
    Events <- Events, Fragile <- FragileEvents, fate <- Fate

\* Every event is offered, taken, and then stored or lost for good, whatever
\* the handlers, the consumer, the workers and the faults do.
ImplementsDelivery == Delivery!Spec

\* Without crashes each taken event is also decided, one way or the other.
ImplementsFairDelivery == Delivery!FairSpec
=============================================================================
