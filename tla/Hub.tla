-------------------------------- MODULE Hub --------------------------------
(***************************************************************************)
(* The WebSocket hub: connections come and go, workers broadcast alerts,   *)
(* and one goroutine, batchSender, takes the batch every second and writes *)
(* it to every client.  Two mutexes: batchMutex guards the batch and is    *)
(* held for one assignment; mutex guards the map of clients and is held by *)
(* flushBatch for as long as all its writes take.                          *)
(*                                                                         *)
(* Alerts are numbered in the order in which Broadcast appended them.  A   *)
(* connection is one *websocket.Conn: a dashboard that reconnects is a new *)
(* one.                                                                    *)
(***************************************************************************)
EXTENDS Integers, Sequences, FiniteSets, SequencesExt

CONSTANTS
    Conns,      \* the connections that are ever opened
    NoConn,     \* no client is being written to
    Faults,     \* "stall": a peer may stop reading for a while or for ever
    MaxAlerts   \* bound on the alerts that are broadcast

ASSUME BoundAssumption == MaxAlerts \in Nat
ASSUME ConnsAssumption == IsFiniteSet(Conns) /\ NoConn \notin Conns

VARIABLES
    count,      \* how many alerts were broadcast
    batch,      \* Hub.batch
    phase,      \* batchSender: waits for a tick, wants mutex, or writes under it
    sending,    \* batchToSend
    todo,       \* the clients that the loop of flushBatch has not done with
    client,     \* the one it is writing to
    clients,    \* Hub.clients
    handler,    \* handler[c]: how far HandleConnections of c has come
    link,       \* link[c]: the peer reads, does not read, or is closed
    written,    \* history: the alerts written to c, in order
    joined,     \* history: how many alerts there were when c was registered
    gauge       \* metrics.WebsocketConnectionsActive

vars == <<count, batch, phase, sending, todo, client, clients, handler, link,
          written, joined, gauge>>

sender == <<batch, phase, sending, todo, client>>

Numbers == 1..MaxAlerts
HandlerStates == {"none", "upgraded", "registered", "reading", "failed", "deleted", "done"}

TypeOK ==
    /\ count \in 0..MaxAlerts
    /\ batch \in Seq(Numbers) /\ sending \in Seq(Numbers)
    /\ phase \in {"waiting", "locking", "writing"}
    /\ clients \subseteq Conns /\ todo \subseteq clients
    /\ client \in todo \cup {NoConn}
    /\ handler \in [Conns -> HandlerStates]
    /\ link \in [Conns -> {"reads", "stalled", "closed"}]
    /\ written \in [Conns -> Seq(Numbers)]
    /\ joined \in [Conns -> 0..MaxAlerts]
    /\ gauge \in 0..Cardinality(Conns)

Init ==
    /\ count = 0 /\ batch = <<>>
    /\ phase = "waiting" /\ sending = <<>> /\ todo = {} /\ client = NoConn
    /\ clients = {}
    /\ handler = [c \in Conns |-> "none"]
    /\ link = [c \in Conns |-> "reads"]
    /\ written = [c \in Conns |-> <<>>]
    /\ joined = [c \in Conns |-> 0]
    /\ gauge = 0

\* Only flushBatch holds mutex across steps.
MutexFree == phase # "writing"

-----------------------------------------------------------------------------
(* Plausible mistakes, not part of Next.                                    *)

\* The batch is emptied once the clients are locked.
LockClientsEmptiesBatch ==
    /\ phase = "locking"
    /\ phase' = "writing" /\ todo' = clients /\ batch' = <<>>
    /\ UNCHANGED <<count, sending, client, clients, handler, link, written, joined, gauge>>

\* The batch is not emptied: the next one begins with it.
SwapBatchKept ==
    /\ phase = "waiting" /\ batch # <<>>
    /\ sending' = batch
    /\ phase' = "locking"
    /\ UNCHANGED <<count, batch, todo, client, clients, handler, link, written, joined, gauge>>

\* The connection that failed is also taken off the gauge, as its handler does.
WriteFailsCounted(c) ==
    /\ client = c /\ link[c] = "closed"
    /\ clients' = clients \ {c} /\ todo' = todo \ {c} /\ client' = NoConn
    /\ gauge' = gauge - 1
    /\ UNCHANGED <<count, batch, phase, sending, handler, link, written, joined>>

\* The handler changes the map without the mutex.
DeleteUnlocked(c) ==
    /\ handler[c] = "failed"
    /\ clients' = clients \ {c}
    /\ handler' = [handler EXCEPT ![c] = "deleted"]
    /\ UNCHANGED <<count, sender, link, written, joined, gauge>>

\* A failed write ends the loop.
WriteFailsReturns(c) ==
    /\ client = c /\ link[c] = "closed"
    /\ clients' = clients \ {c} /\ todo' = {} /\ client' = NoConn
    /\ UNCHANGED <<count, batch, phase, sending, handler, link, written, joined, gauge>>

\* The loop returns when no client is left, and does not unlock.
UnlockUnlessEmpty ==
    /\ phase = "writing" /\ todo = {} /\ client = NoConn /\ clients # {}
    /\ phase' = "waiting" /\ sending' = <<>>
    /\ UNCHANGED <<count, batch, todo, client, clients, handler, link, written, joined, gauge>>

-----------------------------------------------------------------------------
Broadcast ==
    /\ count < MaxAlerts
    /\ count' = count + 1
    /\ batch' = Append(batch, count + 1)
    /\ UNCHANGED <<phase, sending, todo, client, clients, handler, link, written, joined, gauge>>

(* batchSender.  An empty batch is left alone.                              *)

SwapBatch ==
    /\ phase = "waiting" /\ batch # <<>>
    /\ sending' = batch /\ batch' = <<>>
    /\ phase' = "locking"
    /\ UNCHANGED <<count, todo, client, clients, handler, link, written, joined, gauge>>

LockClients ==
    /\ phase = "locking"
    /\ phase' = "writing" /\ todo' = clients
    /\ UNCHANGED <<count, batch, sending, client, clients, handler, link, written, joined, gauge>>

\* The loop takes the clients one after the other, in no particular order.
NextClient(c) ==
    /\ phase = "writing" /\ client = NoConn /\ c \in todo
    /\ client' = c
    /\ UNCHANGED <<count, batch, phase, sending, todo, clients, handler, link, written,
                   joined, gauge>>

\* WriteJSON has no deadline: to a peer that does not read it does not return.
\* A write to a peer that has just closed may still be accepted.
WriteSucceeds(c) ==
    /\ client = c /\ link[c] # "stalled"
    /\ written' = [written EXCEPT ![c] = @ \o sending]
    /\ todo' = todo \ {c} /\ client' = NoConn
    /\ UNCHANGED <<count, batch, phase, sending, clients, handler, link, joined, gauge>>

WriteFails(c) ==
    /\ client = c /\ link[c] = "closed"
    /\ clients' = clients \ {c} /\ todo' = todo \ {c} /\ client' = NoConn
    /\ UNCHANGED <<count, batch, phase, sending, handler, link, written, joined, gauge>>

Unlock ==
    /\ phase = "writing" /\ todo = {} /\ client = NoConn
    /\ phase' = "waiting" /\ sending' = <<>>
    /\ UNCHANGED <<count, batch, todo, client, clients, handler, link, written, joined, gauge>>

(* HandleConnections, one goroutine per connection.                         *)

Upgrade(c) ==
    /\ handler[c] = "none"
    /\ handler' = [handler EXCEPT ![c] = "upgraded"]
    /\ UNCHANGED <<count, sender, clients, link, written, joined, gauge>>

Register(c) ==
    /\ handler[c] = "upgraded" /\ MutexFree
    /\ clients' = clients \cup {c}
    /\ joined' = [joined EXCEPT ![c] = count]
    /\ handler' = [handler EXCEPT ![c] = "registered"]
    /\ UNCHANGED <<count, sender, link, written, gauge>>

CountIn(c) ==
    /\ handler[c] = "registered"
    /\ gauge' = gauge + 1
    /\ handler' = [handler EXCEPT ![c] = "reading"]
    /\ UNCHANGED <<count, sender, clients, link, written, joined>>

\* What the peer sends is read and dropped; only an error ends the loop.
ReadFails(c) ==
    /\ handler[c] = "reading" /\ link[c] = "closed"
    /\ handler' = [handler EXCEPT ![c] = "failed"]
    /\ UNCHANGED <<count, sender, clients, link, written, joined, gauge>>

Delete(c) ==
    /\ handler[c] = "failed" /\ MutexFree
    /\ clients' = clients \ {c}
    /\ handler' = [handler EXCEPT ![c] = "deleted"]
    /\ UNCHANGED <<count, sender, link, written, joined, gauge>>

CountOut(c) ==
    /\ handler[c] = "deleted"
    /\ gauge' = gauge - 1
    /\ handler' = [handler EXCEPT ![c] = "done"]
    /\ UNCHANGED <<count, sender, clients, link, written, joined>>

(* The peer.                                                                *)

PeerCloses(c) ==
    /\ handler[c] # "none" /\ link[c] # "closed"
    /\ link' = [link EXCEPT ![c] = "closed"]
    /\ UNCHANGED <<count, sender, clients, handler, written, joined, gauge>>

PeerStalls(c) ==
    /\ "stall" \in Faults /\ handler[c] # "none" /\ link[c] = "reads"
    /\ link' = [link EXCEPT ![c] = "stalled"]
    /\ UNCHANGED <<count, sender, clients, handler, written, joined, gauge>>

PeerResumes(c) ==
    /\ link[c] = "stalled"
    /\ link' = [link EXCEPT ![c] = "reads"]
    /\ UNCHANGED <<count, sender, clients, handler, written, joined, gauge>>

-----------------------------------------------------------------------------
FlushBatch ==
    \/ SwapBatch \/ LockClients \/ Unlock
    \/ \E c \in Conns : NextClient(c) \/ WriteSucceeds(c) \/ WriteFails(c)

HandleConnections(c) ==
    \/ Upgrade(c) \/ Register(c) \/ CountIn(c)
    \/ ReadFails(c) \/ Delete(c) \/ CountOut(c)

Peer(c) == PeerCloses(c) \/ PeerStalls(c) \/ PeerResumes(c)

Next ==
    \/ Broadcast \/ FlushBatch
    \/ \E c \in Conns : HandleConnections(c) \/ Peer(c)

Spec == Init /\ [][Next]_vars

\* The ticker keeps firing and goroutines keep running.  Weak fairness is enough
\* for Register and Delete, which wait for mutex: flushes end with the alerts.
\* (A Go mutex hands itself to a starved waiter, so that strong fairness would be
\* justified as well.)
\* A write gets through to a peer that reads again and again.  Nothing else is
\* assumed of peers: a stalled one may stall for ever.
Fairness ==
    /\ WF_vars(SwapBatch) /\ WF_vars(LockClients) /\ WF_vars(Unlock)
    /\ \A c \in Conns :
           /\ WF_vars(NextClient(c)) /\ SF_vars(WriteSucceeds(c) \/ WriteFails(c))
           /\ WF_vars(Register(c)) /\ WF_vars(Delete(c))
           /\ WF_vars(CountIn(c)) /\ WF_vars(ReadFails(c)) /\ WF_vars(CountOut(c))

FairSpec == Spec /\ Fairness

-----------------------------------------------------------------------------
\* What a dashboard receives over one connection is an unbroken run of the alerts
\* in the order of their broadcast: none twice, none skipped, none overtaken.
ReceivedInOrder ==
    \A c \in Conns : \A i \in 1..(Len(written[c]) - 1) :
        written[c][i + 1] = written[c][i] + 1

\* Alerts that are still in the batch or on their way to c.
Due(c) ==
    ToSet(batch) \cup
        (IF phase = "locking" \/ c \in todo THEN ToSet(sending) ELSE {})

\* A client of the map misses nothing: each alert broadcast since it was
\* registered was written to it or is still due, however registrations fall
\* between the swap of the batch, the lock and the writes.
NothingMissed ==
    \A c \in clients : ((joined[c] + 1)..count) \subseteq ToSet(written[c]) \cup Due(c)

\* Both at once: the alerts that a client was and will be handed are those of its
\* time, each of them once and in the order of Broadcast.
ExactlyItsAlerts == ReceivedInOrder /\ NothingMissed

\* siem_websocket_connections_active counts the connections whose handler is
\* between its increment and its decrement, also when flushBatch, the handler or
\* both remove the connection from the map.
GaugeCountsHandlers ==
    gauge = Cardinality({c \in Conns : handler[c] \in {"reading", "failed", "deleted"}})

\* No stall lasts for ever; there may always be another.
StallsEnd == \A c \in Conns : []<>(link[c] # "stalled")

\* A dashboard that leaves is forgotten: out of the map and off the gauge, though
\* the handler has to wait for flushBatch.  Unless a peer stalls for ever.
LeaverIsForgotten ==
    StallsEnd =>
        \A c \in Conns : (link[c] = "closed" /\ handler[c] # "none") ~>
            handler[c] = "done" /\ c \notin clients

\* However often peers stall, if no stall lasts, every alert due to a dashboard is
\* written to it or the dashboard has gone.
DueIsWritten ==
    StallsEnd =>
        \A c \in Conns : \A n \in Numbers :
            (c \in clients /\ n \in Due(c)) ~> (n \in ToSet(written[c]) \/ link[c] = "closed")

-----------------------------------------------------------------------------
(* The hub implements AlertFeed.                                            *)

\* The alerts that batchSender has taken out of the batch.
Swapped == count - Len(batch)

\* The last alert that a client of the map must have been written.
Mark(c) ==
    IF phase = "locking" \/ c \in todo THEN Swapped - Len(sending) ELSE Swapped

Marks == [c \in Conns |-> IF c \in clients THEN Mark(c) ELSE 0]

Feed == INSTANCE AlertFeed WITH members <- clients, given <- written, mark <- Marks

\* A client is handed the alerts after its mark, all of them and in order, and one
\* that joins (a dashboard that reconnects is one) is handed none that was written
\* to anyone before: the two mutexes and the copy of the batch do not show.
ImplementsFeed == Feed!Spec

-----------------------------------------------------------------------------
\* What the repository says and the code does not do.

\* README.md: alerts reach the dashboards within a second.  With one peer that
\* stops reading they do not reach those that read, however long they wait.
AlertReachesDashboards ==
    \A c \in Conns : \A n \in Numbers :
        (c \in clients /\ n \in Due(c)) ~> (n \in ToSet(written[c]) \/ link[c] # "reads")
=============================================================================
