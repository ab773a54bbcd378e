------------------------------ MODULE HubProofs ------------------------------
(***************************************************************************)
(* The hub hands every connection an unbroken run of the alerts, misses    *)
(* none of those broadcast since the connection joined, and its gauge      *)
(* counts the handlers: for any number of connections and alerts, with     *)
(* peers that stall and close, and registrations that fall between the     *)
(* swap of the batch, the lock and the writes.                             *)
(***************************************************************************)
EXTENDS Hub, FiniteSetTheorems, TLAPS

\* s ends with the alert numbered last, and has no gap before it.
Run(s, last) == \A i \in 1..Len(s) : s[i] = (last - Len(s)) + i

InOrder(s) == \A i \in 1..(Len(s) - 1) : s[i + 1] = s[i] + 1

Phases ==
    /\ phase = "waiting" => sending = <<>>
    /\ phase # "writing" => todo = {}

\* The batch and the one on its way follow each other.
Batches == Run(batch, count) /\ Run(sending, Swapped)

\* What a client was written ends at its mark and goes back to its registration.
ClientRun(c) == Run(written[c], Mark(c)) /\ joined[c] >= Mark(c) - Len(written[c])
ClientRuns == \A c \in clients : ClientRun(c)

\* A connection that is not registered yet is not in the map and was written nothing.
NewcomersAreEmpty ==
    \A c \in Conns : handler[c] \in {"none", "upgraded"} =>
        c \notin clients /\ written[c] = <<>>

Counted == {c \in Conns : handler[c] \in {"reading", "failed", "deleted"}}

\* The last alert that may have been written to anyone, of the map or not.
Sent == IF phase = "locking" THEN Swapped - Len(sending) ELSE Swapped

WrittenIsSent == \A d \in Conns : \A i \in 1..Len(written[d]) : written[d][i] <= Sent

IInv ==
    /\ TypeOK /\ Phases /\ Batches /\ ClientRuns /\ NewcomersAreEmpty
    /\ ReceivedInOrder /\ GaugeCountsHandlers

USE BoundAssumption, ConnsAssumption
-----------------------------------------------------------------------------
(***************************************************************************)
(* Runs.                                                                   *)
(***************************************************************************)
\* Broadcast appends the next alert.
LEMMA AppendRun ==
    ASSUME NEW s \in Seq(Int), NEW k \in Int, Run(s, k)
    PROVE  Run(Append(s, k + 1), k + 1)
  BY DEF Run

\* A write appends the batch that begins where the connection's run ended.
LEMMA ConcatRun ==
    ASSUME NEW s \in Seq(Int), NEW t \in Seq(Int), NEW k \in Int,
           Run(s, k - Len(t)), Run(t, k)
    PROVE  Run(s \o t, k)
<1>1. /\ Len(s) \in Nat /\ Len(t) \in Nat /\ Len(s \o t) = Len(s) + Len(t)
      /\ \A i \in 1..Len(s) : (s \o t)[i] = s[i]
      /\ \A i \in (Len(s) + 1)..(Len(s) + Len(t)) : (s \o t)[i] = t[i - Len(s)]
  OBVIOUS
<1> SUFFICES ASSUME NEW i \in 1..(Len(s) + Len(t))
             PROVE  (s \o t)[i] = (k - (Len(s) + Len(t))) + i
  BY <1>1 DEF Run
<1>2. CASE i <= Len(s)
  <2>1. s[i] = ((k - Len(t)) - Len(s)) + i
    BY <1>1, <1>2 DEF Run
  <2> QED BY <1>1, <1>2, <2>1
<1>3. CASE i > Len(s)
  <2>1. i - Len(s) \in 1..Len(t)
    BY <1>1, <1>3
  <2>2. t[i - Len(s)] = (k - Len(t)) + (i - Len(s))
    BY <2>1 DEF Run
  <2> QED BY <1>1, <1>3, <2>1, <2>2
<1> QED BY <1>1, <1>2, <1>3

\* A run holds every alert between its ends.
LEMMA RunHolds ==
    ASSUME NEW s \in Seq(Int), NEW k \in Int, Run(s, k),
           NEW n \in Int, k - Len(s) < n, n <= k
    PROVE  n \in ToSet(s)
<1>1. Len(s) \in Nat /\ DOMAIN s = 1..Len(s)
  OBVIOUS
<1>2. n - (k - Len(s)) \in 1..Len(s)
  BY <1>1
<1>3. s[n - (k - Len(s))] = n
  BY <1>1, <1>2 DEF Run
<1> QED BY <1>1, <1>2, <1>3 DEF ToSet

LEMMA RunInOrder ==
    ASSUME NEW s \in Seq(Int), NEW k \in Int, Run(s, k) PROVE InOrder(s)
<1> SUFFICES ASSUME NEW i \in 1..(Len(s) - 1) PROVE s[i + 1] = s[i] + 1
  BY DEF InOrder
<1>1. i \in 1..Len(s) /\ i + 1 \in 1..Len(s) /\ Len(s) \in Nat
  OBVIOUS
<1> QED BY <1>1 DEF Run

\* What the types say of the numbers and sequences that the lemmas speak of.
LEMMA Widen ==
    ASSUME TypeOK
    PROVE  /\ count \in Int /\ Swapped \in Int
           /\ batch \in Seq(Int) /\ sending \in Seq(Int)
           /\ Len(batch) \in Nat /\ Len(sending) \in Nat
           /\ \A c \in Conns : /\ written[c] \in Seq(Int) /\ Len(written[c]) \in Nat
                               /\ joined[c] \in Int /\ Mark(c) \in Int
<1>1. \A s \in Seq(Numbers) : s \in Seq(Int) /\ Len(s) \in Nat
  BY DEF Numbers
<1>2. /\ count \in Int /\ batch \in Seq(Int) /\ Len(batch) \in Nat
      /\ sending \in Seq(Int) /\ Len(sending) \in Nat
  BY <1>1 DEF TypeOK
<1>3. \A c \in Conns : written[c] \in Seq(Numbers) /\ joined[c] \in Int
  BY DEF TypeOK
<1> QED BY <1>1, <1>2, <1>3 DEF Swapped, Mark

LEMMA WidenNext ==
    ASSUME TypeOK', NEW c \in Conns
    PROVE  written'[c] \in Seq(Int) /\ Mark(c)' \in Int
<1>1. \A s \in Seq(Numbers) : s \in Seq(Int) /\ Len(s) \in Nat
  BY DEF Numbers
<1>2. /\ count' \in Int /\ Len(batch') \in Nat /\ Len(sending') \in Nat
      /\ written'[c] \in Seq(Numbers)
  BY <1>1 DEF TypeOK
<1> QED BY <1>1, <1>2 DEF Swapped, Mark
-----------------------------------------------------------------------------
LEMMA HubInit == Init => IInv
<1> SUFFICES ASSUME Init PROVE IInv
  OBVIOUS
<1>1. IsFiniteSet({}) /\ Cardinality({}) = 0 /\ Cardinality(Conns) \in Nat
  BY FS_EmptySet, FS_CardinalityType
<1>2. TypeOK
  BY <1>1 DEF Init, TypeOK, HandlerStates
<1>3. Phases /\ Batches /\ ClientRuns /\ NewcomersAreEmpty /\ ReceivedInOrder
  BY DEF Init, Phases, Batches, Run, ClientRuns, NewcomersAreEmpty, ReceivedInOrder
<1>4. {c \in Conns : handler[c] \in {"reading", "failed", "deleted"}} = {}
  BY DEF Init
<1>5. GaugeCountsHandlers
  BY <1>1, <1>4 DEF Init, GaugeCountsHandlers
<1> QED BY <1>2, <1>3, <1>5 DEF IInv

(***************************************************************************)
(* The gauge.                                                              *)
(***************************************************************************)
\* A step that leaves the gauge and the counted handlers alone.
LEMMA GaugeQuiet ==
    ASSUME IInv, gauge' = gauge, Counted' = Counted
    PROVE  gauge' \in 0..Cardinality(Conns) /\ GaugeCountsHandlers'
  BY DEF IInv, TypeOK, GaugeCountsHandlers, Counted

LEMMA CountedFinite ==
    /\ IsFiniteSet(Counted) /\ Cardinality(Counted) \in Nat
    /\ IsFiniteSet(Counted') /\ Cardinality(Counted') \in Nat
    /\ Cardinality(Counted') <= Cardinality(Conns) /\ Cardinality(Conns) \in Nat
<1>1. Counted \subseteq Conns /\ Counted' \subseteq Conns
  BY DEF Counted
<1> QED BY <1>1, FS_Subset, FS_CardinalityType

LEMMA GaugeCounts ==
    ASSUME IInv, NEW c \in Conns, CountIn(c) \/ CountOut(c)
    PROVE  gauge' \in 0..Cardinality(Conns) /\ GaugeCountsHandlers'
<1>0. gauge = Cardinality(Counted) /\ handler \in [Conns -> HandlerStates]
  BY DEF IInv, TypeOK, GaugeCountsHandlers, Counted
<1>1. CASE CountIn(c)
  <2>1. c \notin Counted /\ Counted' = Counted \cup {c} /\ gauge' = gauge + 1
    BY <1>0, <1>1 DEF CountIn, Counted
  <2>2. Cardinality(Counted') = Cardinality(Counted) + 1
    BY <2>1, CountedFinite, FS_AddElement
  <2>3. gauge' = Cardinality(Counted')
    BY <1>0, <2>1, <2>2
  <2> QED BY <2>3, CountedFinite DEF GaugeCountsHandlers, Counted
<1>2. CASE CountOut(c)
  <2>1. c \in Counted /\ Counted' = Counted \ {c} /\ gauge' = gauge - 1
    BY <1>0, <1>2 DEF CountOut, Counted
  <2>2. Cardinality(Counted') = Cardinality(Counted) - 1
    BY <2>1, CountedFinite, FS_RemoveElement
  <2>3. gauge' = Cardinality(Counted')
    BY <1>0, <2>1, <2>2
  <2> QED BY <2>3, CountedFinite DEF GaugeCountsHandlers, Counted
<1> QED BY <1>1, <1>2
-----------------------------------------------------------------------------
(***************************************************************************)
(* Steps.  Each action is shown to keep the types and the runs; what it    *)
(* does to the gauge is settled above.                                     *)
(***************************************************************************)
\* Whatever keeps every client's run keeps the order of what was written.
LEMMA OrderKept ==
    ASSUME IInv, TypeOK', ClientRuns',
           \A c \in Conns : c \in clients' \/ written'[c] = written[c]
    PROVE  ReceivedInOrder'
<1> SUFFICES ASSUME NEW c \in Conns PROVE InOrder(written'[c])
  BY DEF ReceivedInOrder, InOrder
<1>1. CASE c \in clients'
  <2>1. written'[c] \in Seq(Int) /\ Mark(c)' \in Int
    BY WidenNext
  <2>2. Run(written'[c], Mark(c)')
    BY <1>1 DEF ClientRuns, ClientRun, Run
  <2> QED BY <2>1, <2>2, RunInOrder
<1>2. CASE written'[c] = written[c]
  BY <1>2 DEF IInv, ReceivedInOrder, InOrder
<1> QED BY <1>1, <1>2

LEMMA BroadcastStep ==
    ASSUME IInv, Broadcast PROVE IInv'
<1> USE DEF Broadcast
<1>1. gauge' \in 0..Cardinality(Conns) /\ GaugeCountsHandlers'
  BY GaugeQuiet DEF Counted
<1>2. count + 1 \in Numbers /\ count' \in 0..MaxAlerts
  BY DEF IInv, TypeOK, Numbers
<1>3. batch' \in Seq(Numbers) /\ Len(batch') = Len(batch) + 1
  BY <1>2 DEF IInv, TypeOK
<1>4. TypeOK'
  BY <1>1, <1>2, <1>3 DEF IInv, TypeOK
<1>5. Swapped' = Swapped
  BY <1>3, Widen DEF IInv, Swapped
<1>6. Batches'
  <2>1. Run(batch', count')
    BY AppendRun, Widen DEF IInv, Batches
  <2> QED BY <1>5, <2>1 DEF IInv, Batches
<1>7. \A c \in Conns : Mark(c)' = Mark(c)
  BY <1>5 DEF Mark
<1>8. ClientRuns'
  BY <1>7 DEF IInv, TypeOK, ClientRuns, ClientRun
<1>9. Phases' /\ NewcomersAreEmpty' /\ ReceivedInOrder'
  BY DEF IInv, Phases, NewcomersAreEmpty, ReceivedInOrder
<1> QED BY <1>1, <1>4, <1>6, <1>8, <1>9 DEF IInv

LEMMA SwapBatchStep ==
    ASSUME IInv, SwapBatch PROVE IInv'
<1> USE DEF SwapBatch
<1>1. gauge' \in 0..Cardinality(Conns) /\ GaugeCountsHandlers'
  BY GaugeQuiet DEF Counted
<1>2. TypeOK'
  BY <1>1 DEF IInv, TypeOK
<1>3. Swapped' = count /\ todo = {} /\ Len(sending) = 0
  BY Widen DEF IInv, Phases, Swapped
<1>4. Batches' /\ Phases'
  BY <1>3, Widen DEF IInv, Batches, Run, Phases
<1>5. \A c \in Conns : Mark(c) = Swapped /\ Mark(c)' = Swapped
  BY <1>3, Widen DEF Mark, Swapped
<1>6. ClientRuns'
  BY <1>5 DEF IInv, TypeOK, ClientRuns, ClientRun
<1>7. NewcomersAreEmpty' /\ ReceivedInOrder'
  BY DEF IInv, NewcomersAreEmpty, ReceivedInOrder
<1> QED BY <1>1, <1>2, <1>4, <1>6, <1>7 DEF IInv

LEMMA LockClientsStep ==
    ASSUME IInv, LockClients PROVE IInv'
<1> USE DEF LockClients
<1>1. gauge' \in 0..Cardinality(Conns) /\ GaugeCountsHandlers'
  BY GaugeQuiet DEF Counted
<1>2. TypeOK'
  BY <1>1 DEF IInv, TypeOK, Phases
<1>3. Batches' /\ Phases'
  BY DEF IInv, Batches, Swapped, Phases
<1>4. \A c \in clients : Mark(c)' = Mark(c)
  BY DEF Mark, Swapped
<1>5. ClientRuns'
  BY <1>4 DEF IInv, TypeOK, ClientRuns, ClientRun
<1>6. NewcomersAreEmpty' /\ ReceivedInOrder'
  BY DEF IInv, NewcomersAreEmpty, ReceivedInOrder
<1> QED BY <1>1, <1>2, <1>3, <1>5, <1>6 DEF IInv

\* A write that succeeds is all the runs are about.
LEMMA WriteSucceedsStep ==
    ASSUME IInv, NEW c \in Conns, WriteSucceeds(c) PROVE IInv'
<1> USE DEF WriteSucceeds
<1>1. gauge' \in 0..Cardinality(Conns) /\ GaugeCountsHandlers'
  BY GaugeQuiet DEF Counted
<1>2. c \in todo /\ c \in clients /\ phase = "writing"
  BY DEF IInv, TypeOK, Phases
<1>3. /\ written[c] \in Seq(Numbers) /\ sending \in Seq(Numbers)
      /\ written'[c] = written[c] \o sending
      /\ \A d \in Conns : d # c => written'[d] = written[d]
  BY DEF IInv, TypeOK
<1>4. written' \in [Conns -> Seq(Numbers)] /\ Len(written'[c]) = Len(written[c]) + Len(sending)
  <2>1. written[c] \o sending \in Seq(Numbers)
    BY <1>3
  <2> QED BY <1>3, <2>1 DEF IInv, TypeOK
<1>5. TypeOK'
  BY <1>1, <1>4 DEF IInv, TypeOK
<1>6. Batches' /\ Phases'
  BY <1>2 DEF IInv, Batches, Swapped, Phases
<1>7. Mark(c) = Swapped - Len(sending) /\ Mark(c)' = Swapped /\ Swapped' = Swapped
  BY <1>2 DEF Mark, Swapped
<1>8. Run(written'[c], Swapped)
  <2>1. Run(written[c], Swapped - Len(sending)) /\ Run(sending, Swapped)
    BY <1>2, <1>7 DEF IInv, ClientRuns, ClientRun, Batches
  <2> QED BY <1>3, <2>1, ConcatRun, Widen DEF IInv
<1>9. joined[c] >= Swapped - Len(written'[c])
  BY <1>2, <1>4, <1>7, Widen DEF IInv, ClientRuns, ClientRun
<1>10. ASSUME NEW d \in clients', d # c PROVE ClientRun(d)'
  <2>1. Mark(d)' = Mark(d) /\ d \in clients /\ written'[d] = written[d]
    BY <1>2, <1>3, <1>10 DEF Mark, Swapped, IInv, TypeOK
  <2> QED BY <2>1 DEF IInv, ClientRuns, ClientRun
<1>11. ClientRun(c)'
  BY <1>7, <1>8, <1>9 DEF ClientRun
<1>12. ClientRuns'
  BY <1>10, <1>11 DEF ClientRuns
<1>13. NewcomersAreEmpty'
  <2>1. handler[c] \notin {"none", "upgraded"}
    BY <1>2 DEF IInv, NewcomersAreEmpty
  <2> QED BY <1>3, <2>1 DEF IInv, NewcomersAreEmpty
<1>14. ReceivedInOrder'
  BY <1>2, <1>3, <1>5, <1>12, OrderKept DEF IInv
<1> QED BY <1>1, <1>5, <1>6, <1>12, <1>13, <1>14 DEF IInv

\* flushBatch and the handler take a client out of the map: what is left keeps
\* its run, as the others' marks do not move.
LEMMA FewerClients ==
    ASSUME IInv, TypeOK', clients' \subseteq clients, todo' = todo \cap clients',
           UNCHANGED <<count, batch, phase, sending, written, joined>>,
           \A c \in Conns : handler'[c] \in {"none", "upgraded"} =>
                               handler'[c] = handler[c],
           GaugeCountsHandlers'
    PROVE  IInv'
<1>1. Batches' /\ Phases'
  BY DEF IInv, Batches, Swapped, Phases
<1>2. \A c \in clients' : Mark(c)' = Mark(c)
  BY DEF Mark, Swapped
<1>3. ClientRuns'
  BY <1>2 DEF ClientRuns, ClientRun, IInv
<1>4. NewcomersAreEmpty' /\ ReceivedInOrder'
  BY DEF IInv, NewcomersAreEmpty, ReceivedInOrder
<1> QED BY <1>1, <1>3, <1>4 DEF IInv

LEMMA RemovalStep ==
    ASSUME IInv, NEW c \in Conns, WriteFails(c) \/ Delete(c) PROVE IInv'
<1>1. CASE WriteFails(c)
  <2>1. gauge' \in 0..Cardinality(Conns) /\ GaugeCountsHandlers'
    BY <1>1, GaugeQuiet DEF WriteFails, Counted
  <2>2. TypeOK' /\ todo' = todo \cap clients'
    BY <1>1, <2>1 DEF WriteFails, IInv, TypeOK
  <2> QED BY <1>1, <2>1, <2>2, FewerClients DEF WriteFails
<1>2. CASE Delete(c)
  <2>1. Counted' = Counted
    BY <1>2 DEF Delete, Counted, IInv, TypeOK
  <2>2. gauge' \in 0..Cardinality(Conns) /\ GaugeCountsHandlers'
    BY <1>2, <2>1, GaugeQuiet DEF Delete
  <2>3. todo = {} /\ todo' = {} /\ client' = client
    BY <1>2 DEF Delete, MutexFree, IInv, Phases, sender
  <2>4. handler' \in [Conns -> HandlerStates]
    BY <1>2 DEF Delete, IInv, TypeOK, HandlerStates
  <2>5. TypeOK'
    BY <1>2, <2>2, <2>3, <2>4 DEF Delete, IInv, TypeOK, sender
  <2>6. \A d \in Conns : handler'[d] \in {"none", "upgraded"} => handler'[d] = handler[d]
    BY <1>2 DEF Delete, IInv, TypeOK
  <2> QED BY <1>2, <2>2, <2>3, <2>5, <2>6, FewerClients DEF Delete, sender
<1> QED BY <1>1, <1>2

\* The loop of flushBatch, and what handlers and peers do outside the map.
LEMMA QuietStep ==
    ASSUME IInv,
           \/ UNCHANGED vars
           \/ \E c \in Conns : NextClient(c) \/ Upgrade(c) \/ CountIn(c)
                                 \/ ReadFails(c) \/ CountOut(c) \/ Peer(c)
    PROVE  IInv'
<1>1. ASSUME NEW c \in Conns, CountIn(c) \/ CountOut(c)
      PROVE  gauge' \in 0..Cardinality(Conns) /\ GaugeCountsHandlers'
  BY <1>1, GaugeCounts
<1>2. ASSUME \/ UNCHANGED vars
             \/ \E c \in Conns : NextClient(c) \/ Upgrade(c) \/ ReadFails(c) \/ Peer(c)
      PROVE  gauge' \in 0..Cardinality(Conns) /\ GaugeCountsHandlers'
  <2>1. gauge' = gauge /\ Counted' = Counted
    BY <1>2 DEF vars, NextClient, Upgrade, ReadFails, Peer, PeerCloses, PeerStalls,
                PeerResumes, Counted, IInv, TypeOK
  <2> QED BY <2>1, GaugeQuiet
<1>3. gauge' \in 0..Cardinality(Conns) /\ GaugeCountsHandlers'
  BY <1>1, <1>2
<1>4. UNCHANGED <<count, batch, phase, sending, todo, clients, written, joined>>
  BY DEF vars, sender, NextClient, Upgrade, CountIn, ReadFails, CountOut, Peer,
         PeerCloses, PeerStalls, PeerResumes
<1>5. /\ handler' \in [Conns -> HandlerStates]
      /\ \A c \in Conns : handler'[c] \in {"none", "upgraded"} =>
                              handler[c] \in {"none", "upgraded"}
  BY DEF vars, sender, NextClient, Upgrade, CountIn, ReadFails, CountOut, Peer,
         PeerCloses, PeerStalls, PeerResumes, IInv, TypeOK, HandlerStates
<1>6. link' \in [Conns -> {"reads", "stalled", "closed"}]
  BY DEF vars, sender, NextClient, Upgrade, CountIn, ReadFails, CountOut, Peer,
         PeerCloses, PeerStalls, PeerResumes, IInv, TypeOK
<1>7. client' \in todo \cup {NoConn}
  BY DEF vars, sender, NextClient, Upgrade, CountIn, ReadFails, CountOut, Peer,
         PeerCloses, PeerStalls, PeerResumes, IInv, TypeOK
<1>8. TypeOK'
  BY <1>3, <1>4, <1>5, <1>6, <1>7 DEF IInv, TypeOK
<1>9. Batches' /\ Phases'
  BY <1>4 DEF IInv, Batches, Swapped, Phases
<1>10. ClientRuns'
  BY <1>4 DEF IInv, ClientRuns, ClientRun, Mark, Swapped
<1>11. NewcomersAreEmpty' /\ ReceivedInOrder'
  BY <1>4, <1>5 DEF IInv, NewcomersAreEmpty, ReceivedInOrder
<1> QED BY <1>3, <1>8, <1>9, <1>10, <1>11 DEF IInv

\* A connection joins: it was written nothing, and its mark is not beyond count.
LEMMA RegisterStep ==
    ASSUME IInv, NEW c \in Conns, Register(c) PROVE IInv'
<1> USE DEF Register, sender
<1>1. c \notin Counted /\ Counted' = Counted
  BY DEF Counted, IInv, TypeOK
<1>2. gauge' \in 0..Cardinality(Conns) /\ GaugeCountsHandlers'
  BY <1>1, GaugeQuiet
<1>3. TypeOK'
  <2>1. handler' \in [Conns -> HandlerStates]
    BY DEF IInv, TypeOK, HandlerStates
  <2>2. joined' \in [Conns -> 0..MaxAlerts]
    BY DEF IInv, TypeOK
  <2> QED BY <1>2, <2>1, <2>2 DEF IInv, TypeOK
<1>4. Batches' /\ Phases'
  BY DEF IInv, Batches, Swapped, Phases
<1>5. \A d \in Conns : Mark(d)' = Mark(d)
  BY DEF Mark, Swapped
<1>6. ASSUME NEW d \in clients', d # c PROVE ClientRun(d)'
  <2>1. d \in clients /\ d \in Conns /\ joined'[d] = joined[d]
    BY <1>6 DEF IInv, TypeOK
  <2> QED BY <1>5, <2>1 DEF IInv, ClientRuns, ClientRun
<1>7. ClientRun(c)'
  <2>1. written[c] = <<>> /\ joined'[c] = count /\ Mark(c) <= count
    BY Widen DEF IInv, TypeOK, NewcomersAreEmpty, Mark, Swapped
  <2> QED BY <1>5, <2>1, Widen DEF IInv, ClientRun, Run
<1>8. ClientRuns'
  BY <1>6, <1>7 DEF ClientRuns
<1>9. NewcomersAreEmpty' /\ ReceivedInOrder'
  BY DEF IInv, TypeOK, NewcomersAreEmpty, ReceivedInOrder
<1> QED BY <1>2, <1>3, <1>4, <1>8, <1>9 DEF IInv

LEMMA UnlockStep ==
    ASSUME IInv, Unlock PROVE IInv'
<1> USE DEF Unlock
<1>1. gauge' \in 0..Cardinality(Conns) /\ GaugeCountsHandlers'
  BY GaugeQuiet DEF Counted
<1>2. TypeOK'
  BY <1>1 DEF IInv, TypeOK
<1>3. Batches' /\ Phases'
  BY DEF IInv, Batches, Swapped, Phases, Run
<1>4. \A c \in Conns : Mark(c)' = Mark(c)
  BY DEF Mark, Swapped
<1>5. ClientRuns'
  BY <1>4 DEF IInv, TypeOK, ClientRuns, ClientRun
<1>6. NewcomersAreEmpty' /\ ReceivedInOrder'
  BY DEF IInv, NewcomersAreEmpty, ReceivedInOrder
<1> QED BY <1>1, <1>2, <1>3, <1>5, <1>6 DEF IInv

LEMMA HubStep == IInv /\ [Next]_vars => IInv'
  BY BroadcastStep, SwapBatchStep, LockClientsStep, WriteSucceedsStep, RemovalStep,
     QuietStep, RegisterStep, UnlockStep
  DEF Next, FlushBatch, HandleConnections

\* The invariant leaves no gap between what a client was written, what is on its
\* way and what is in the batch.
LEMMA NoGap == IInv => NothingMissed
<1> SUFFICES ASSUME IInv, NEW c \in clients, NEW n \in (joined[c] + 1)..count
             PROVE  n \in ToSet(written[c]) \cup Due(c)
  BY DEF NothingMissed
<1>1. /\ c \in Conns /\ TypeOK /\ ClientRun(c)
      /\ Run(batch, count) /\ Run(sending, Swapped)
  BY DEF IInv, TypeOK, ClientRuns, Batches
<1>2. /\ count \in Int /\ joined[c] \in Int /\ Mark(c) \in Int /\ n \in Int
      /\ Len(batch) \in Nat /\ Len(sending) \in Nat /\ Len(written[c]) \in Nat
      /\ Swapped = count - Len(batch)
  BY <1>1, Widen DEF Swapped
<1>3. CASE n <= Mark(c)
  <2>1. Mark(c) - Len(written[c]) < n
    BY <1>1, <1>2 DEF ClientRun
  <2> QED BY <1>1, <1>2, <1>3, <2>1, RunHolds, Widen DEF ClientRun
<1>4. CASE Mark(c) < n /\ n <= Swapped
  <2>1. (phase = "locking" \/ c \in todo) /\ Mark(c) = Swapped - Len(sending)
    BY <1>2, <1>4 DEF Mark
  <2>2. n \in ToSet(sending)
    BY <1>1, <1>2, <1>4, <2>1, RunHolds, Widen
  <2> QED BY <2>1, <2>2 DEF Due
<1>5. CASE Swapped < n
  <2>1. n \in ToSet(batch)
    BY <1>1, <1>2, <1>5, RunHolds, Widen
  <2> QED BY <2>1 DEF Due
<1> QED BY <1>2, <1>3, <1>4, <1>5
-----------------------------------------------------------------------------
(***************************************************************************)
(* The feed.  IInv says nothing of connections that left the map; that one *)
(* which joins is due nothing that they were written needs WrittenIsSent.  *)
(***************************************************************************)
LEMMA SentInt == (TypeOK => Sent \in Int) /\ (TypeOK' => Sent' \in Int)
<1>1. \A s \in Seq(Numbers) : Len(s) \in Nat
  OBVIOUS
<1> QED BY <1>1 DEF TypeOK, Sent, Swapped

\* The numbers start at 1, so that no run reaches below.
LEMMA SentBounds ==
    ASSUME TypeOK, Batches PROVE Sent \in 0..count
<1>1. /\ Swapped \in Int /\ count \in Nat /\ Len(batch) \in Nat /\ Len(sending) \in Nat
      /\ Swapped = count - Len(batch)
      /\ batch \in Seq(Numbers) /\ sending \in Seq(Numbers)
  BY Widen DEF TypeOK, Swapped
<1>2. \A s \in Seq(Numbers) : Len(s) > 0 => s[1] \in Int /\ s[1] >= 1 /\ 1 \in 1..Len(s)
  BY DEF Numbers
<1>3. Swapped >= 0
  BY <1>1, <1>2 DEF Batches, Run
<1>4. Swapped - Len(sending) >= 0
  BY <1>1, <1>2, <1>3 DEF Batches, Run
<1> QED BY <1>1, <1>3, <1>4 DEF Sent

\* What is marked as sent only grows, and it grows when the clients are locked.
LEMMA SentGrows ==
    ASSUME IInv, \/ Broadcast \/ SwapBatch \/ LockClients \/ Unlock
                 \/ UNCHANGED <<count, batch, phase, sending>>
    PROVE  Sent' >= Sent
<1>1. /\ count \in Int /\ Swapped \in Int /\ Len(batch) \in Nat /\ Len(sending) \in Nat
      /\ batch \in Seq(Int)
  BY Widen DEF IInv
<1>2. CASE Broadcast
  <2>1. Len(batch') = Len(batch) + 1
    BY <1>1, <1>2 DEF Broadcast
  <2> QED BY <1>1, <1>2, <2>1 DEF Broadcast, Sent, Swapped
<1>3. CASE SwapBatch
  BY <1>1, <1>3 DEF SwapBatch, Sent, Swapped
<1>4. CASE LockClients
  BY <1>1, <1>4 DEF LockClients, Sent, Swapped
<1>5. CASE Unlock
  BY <1>1, <1>5 DEF Unlock, Sent, Swapped
<1>6. CASE UNCHANGED <<count, batch, phase, sending>>
  BY <1>1, <1>6 DEF Sent, Swapped
<1> QED BY <1>2, <1>3, <1>4, <1>5, <1>6

\* A write reaches as far as the batch that it writes.
LEMMA WriteIsSent ==
    ASSUME IInv, WrittenIsSent, NEW c \in Conns, WriteSucceeds(c)
    PROVE  WrittenIsSent'
<1>1. IInv' /\ TypeOK'
  BY WriteSucceedsStep DEF IInv
<1>2. c \in clients' /\ c \notin todo' /\ phase = "writing" /\ phase' = "writing"
  BY DEF WriteSucceeds, IInv, TypeOK, Phases
<1>3. Mark(c)' = Swapped' /\ Sent' = Swapped' /\ Sent' = Sent
  BY <1>2 DEF Mark, Sent, Swapped, WriteSucceeds
<1>4. ASSUME NEW i \in 1..Len(written'[c]) PROVE written'[c][i] <= Sent'
  <2>1. written'[c] \in Seq(Int) /\ Mark(c)' \in Int
    BY <1>1, WidenNext
  <2>2. Run(written'[c], Mark(c)')
    BY <1>1, <1>2 DEF IInv, ClientRuns, ClientRun, Run
  <2> QED BY <1>3, <2>1, <2>2 DEF Run
<1>5. ASSUME NEW d \in Conns, d # c PROVE written'[d] = written[d]
  BY <1>5 DEF WriteSucceeds, IInv, TypeOK
<1> QED BY <1>3, <1>4, <1>5 DEF WrittenIsSent

LEMMA SentStep == IInv /\ WrittenIsSent /\ [Next]_vars => WrittenIsSent'
<1> SUFFICES ASSUME IInv, WrittenIsSent, [Next]_vars PROVE WrittenIsSent'
  OBVIOUS
<1>1. CASE \E c \in Conns : WriteSucceeds(c)
  BY <1>1, WriteIsSent
<1>2. CASE ~(\E c \in Conns : WriteSucceeds(c))
  <2>1. /\ written' = written
        /\ \/ Broadcast \/ SwapBatch \/ LockClients \/ Unlock
           \/ UNCHANGED <<count, batch, phase, sending>>
    BY <1>2 DEF Next, FlushBatch, HandleConnections, Peer, vars, sender, Broadcast,
       SwapBatch, LockClients, Unlock, NextClient, WriteFails, Upgrade, Register,
       CountIn, ReadFails, Delete, CountOut, PeerCloses, PeerStalls, PeerResumes
  <2>2. Sent' >= Sent
    BY <2>1, SentGrows
  <2>3. TypeOK /\ TypeOK'
    BY HubStep DEF IInv
  <2>4. Sent \in Int /\ Sent' \in Int
    BY <2>3, SentInt
  <2>5. ASSUME NEW d \in Conns, NEW i \in 1..Len(written[d]) PROVE written[d][i] \in Int
    BY <2>3, Widen
  <2> QED BY <2>1, <2>2, <2>4, <2>5 DEF WrittenIsSent
<1> QED BY <1>1, <1>2

\* Steps that the feed does not see: no mark moves, though the batch does.
LEMMA HiddenStep ==
    ASSUME IInv, \/ SwapBatch \/ LockClients \/ Unlock
                 \/ UNCHANGED <<count, batch, phase, sending, todo, clients, written>>
    PROVE  UNCHANGED <<count, clients, written, Marks>>
<1>1. Swapped \in Int /\ count \in Int /\ Len(batch) \in Nat /\ Len(sending) \in Nat
  BY Widen DEF IInv
<1>2. \A c \in clients : Mark(c)' = Mark(c)
  <2>1. CASE SwapBatch
    BY <1>1, <2>1 DEF SwapBatch, Mark, Swapped, IInv, Phases
  <2>2. CASE LockClients
    BY <2>2 DEF LockClients, Mark, Swapped
  <2>3. CASE Unlock
    BY <2>3 DEF Unlock, Mark, Swapped
  <2>4. CASE UNCHANGED <<count, batch, phase, sending, todo, clients, written>>
    BY <2>4 DEF Mark, Swapped
  <2> QED BY <2>1, <2>2, <2>3, <2>4
<1>3. UNCHANGED <<count, clients, written>>
  BY DEF SwapBatch, LockClients, Unlock
<1> QED BY <1>2, <1>3 DEF Marks

LEMMA BroadcastPublishes ==
    ASSUME IInv, Broadcast PROVE Feed!Publish
<1>1. Len(batch') = Len(batch) + 1 /\ Len(batch) \in Nat /\ count \in Int
  <2>1. Len(batch) \in Nat /\ batch \in Seq(Int) /\ count \in Int
    BY Widen DEF IInv
  <2> QED BY <2>1 DEF Broadcast
<1>2. \A c \in clients : Mark(c)' = Mark(c)
  BY <1>1 DEF Broadcast, Mark, Swapped
<1> QED BY <1>2 DEF Broadcast, Feed!Publish, Marks

\* A write hands over what lies between the connection's mark and the batch.
LEMMA WriteGives ==
    ASSUME IInv, NEW c \in Conns, WriteSucceeds(c)
    PROVE  Feed!Give(c) \/ UNCHANGED <<count, clients, written, Marks>>
<1>1. c \in todo /\ c \in clients /\ phase = "writing" /\ phase' = "writing"
  BY DEF WriteSucceeds, IInv, TypeOK, Phases
<1>2. /\ Swapped \in Int /\ count \in Int /\ Len(batch) \in Nat /\ Len(sending) \in Nat
      /\ sending \in Seq(Int) /\ written[c] \in Seq(Int) /\ Swapped <= count
      /\ Run(sending, Swapped) /\ written \in [Conns -> Seq(Numbers)]
  BY Widen DEF IInv, TypeOK, Batches, Swapped
<1>3. Mark(c) = Swapped - Len(sending) /\ Mark(c)' = Swapped
  BY <1>1 DEF WriteSucceeds, Mark, Swapped
<1>4. \A d \in clients : d # c => Mark(d)' = Mark(d)
  BY <1>1 DEF WriteSucceeds, Mark, Swapped
<1>5. Marks[c] = Swapped - Len(sending) /\ Marks' = [Marks EXCEPT ![c] = Swapped]
  BY <1>1, <1>3, <1>4 DEF WriteSucceeds, Marks
<1>6. written' = [written EXCEPT ![c] = @ \o sending] /\ UNCHANGED <<count, clients>>
  BY DEF WriteSucceeds
<1>7. CASE Len(sending) = 0
  <2>1. sending = <<>> /\ written[c] \o sending = written[c]
    BY <1>2, <1>7
  <2>2. written' = written
    BY <1>2, <1>6, <2>1
  <2>3. Marks' = Marks
    <3>1. Marks[c] = Swapped
      BY <1>2, <1>5, <1>7
    <3>2. Marks = [Marks EXCEPT ![c] = Marks[c]]
      BY DEF Marks
    <3> QED BY <1>5, <3>1, <3>2
  <2> QED BY <1>6, <2>2, <2>3
<1>8. CASE Len(sending) > 0
  <2>1. Swapped \in (Marks[c] + 1)..count
    BY <1>2, <1>5, <1>8
  <2>2. Feed!Between(Marks[c], Swapped) = sending
    <3>1. Swapped - Marks[c] = Len(sending)
      BY <1>2, <1>5
    <3>2. \A i \in 1..Len(sending) : sending[i] = Marks[c] + i
      BY <1>2, <1>5 DEF Run
    <3>3. sending = [i \in 1..Len(sending) |-> sending[i]]
      BY <1>2
    <3> QED BY <3>1, <3>2, <3>3 DEF Feed!Between
  <2> QED BY <1>1, <1>5, <1>6, <2>1, <2>2 DEF Feed!Give
<1> QED BY <1>2, <1>7, <1>8

LEMMA RemovalLeaves ==
    ASSUME IInv, NEW c \in Conns, WriteFails(c) \/ Delete(c)
    PROVE  Feed!Leave(c) \/ UNCHANGED <<count, clients, written, Marks>>
<1>1. /\ clients' = clients \ {c} /\ todo \subseteq clients
      /\ UNCHANGED <<count, batch, phase, sending, written>>
      /\ \A d \in Conns : d # c => (d \in todo' <=> d \in todo)
  BY DEF WriteFails, Delete, sender, IInv, TypeOK
<1>2. \A d \in clients' : Mark(d)' = Mark(d)
  BY <1>1 DEF Mark, Swapped, IInv, TypeOK
<1>3. CASE c \in clients
  <2>1. Marks' = [Marks EXCEPT ![c] = 0]
    BY <1>1, <1>2 DEF Marks
  <2> QED BY <1>1, <1>3, <2>1 DEF Feed!Leave
<1>4. CASE c \notin clients
  <2>1. clients' = clients
    BY <1>1, <1>4
  <2> QED BY <1>1, <1>2, <2>1 DEF Marks
<1> QED BY <1>3, <1>4

\* Nobody was written anything beyond the mark of a connection that joins.
LEMMA RegisterJoins ==
    ASSUME IInv, WrittenIsSent, NEW c \in Conns, Register(c)
    PROVE  Feed!Join(c)
<1>1. phase # "writing" /\ todo = {} /\ c \notin clients /\ written[c] = <<>>
  BY DEF Register, MutexFree, IInv, Phases, NewcomersAreEmpty
<1>2. \A d \in Conns : Mark(d)' = Mark(d) /\ Mark(c) = Sent
  BY <1>1 DEF Register, sender, Mark, Sent, Swapped
<1>3. Marks' = [Marks EXCEPT ![c] = Sent]
  BY <1>2 DEF Register, Marks
<1>4. Sent \in 0..count
  BY SentBounds DEF IInv
<1> QED BY <1>1, <1>3, <1>4 DEF Register, sender, WrittenIsSent, Feed!Join

LEMMA FeedInit == Init => Feed!Init /\ WrittenIsSent
  BY DEF Init, Feed!Init, Marks, WrittenIsSent

LEMMA FeedStep == IInv /\ WrittenIsSent /\ [Next]_vars => [Feed!Next]_Feed!vars
<1> SUFFICES ASSUME IInv, WrittenIsSent, [Next]_vars PROVE [Feed!Next]_Feed!vars
  OBVIOUS
<1> USE DEF Feed!Next, Feed!vars
<1>1. CASE Broadcast
  BY <1>1, BroadcastPublishes
<1>2. ASSUME NEW c \in Conns, WriteSucceeds(c) PROVE [Feed!Next]_Feed!vars
  BY <1>2, WriteGives
<1>3. ASSUME NEW c \in Conns, WriteFails(c) \/ Delete(c) PROVE [Feed!Next]_Feed!vars
  BY <1>3, RemovalLeaves
<1>4. ASSUME NEW c \in Conns, Register(c) PROVE [Feed!Next]_Feed!vars
  BY <1>4, RegisterJoins
<1>5. CASE SwapBatch \/ LockClients \/ Unlock
  BY <1>5, HiddenStep
<1>6. CASE \/ UNCHANGED vars
           \/ \E c \in Conns : NextClient(c) \/ Upgrade(c) \/ CountIn(c)
                                 \/ ReadFails(c) \/ CountOut(c) \/ Peer(c)
  <2>1. UNCHANGED <<count, batch, phase, sending, todo, clients, written>>
    BY <1>6 DEF vars, sender, NextClient, Upgrade, CountIn, ReadFails, CountOut, Peer,
                PeerCloses, PeerStalls, PeerResumes
  <2> QED BY <2>1, HiddenStep
<1> QED BY <1>1, <1>2, <1>3, <1>4, <1>5, <1>6 DEF Next, FlushBatch, HandleConnections
-----------------------------------------------------------------------------
\* The hub has its types in every reachable state.
THEOREM HubTyped == Spec => []TypeOK
<1>1. IInv => TypeOK
  BY DEF IInv
<1> QED BY <1>1, HubInit, HubStep, PTL DEF Spec

\* What a dashboard receives over one connection is an unbroken run of the alerts
\* in the order of Broadcast, and every alert broadcast since it registered was
\* written to it or still will be, wherever in the course of flushBatch it
\* registered and whoever else joins, stalls or leaves meanwhile.
THEOREM ClientsGetExactlyTheirAlerts == Spec => []ExactlyItsAlerts
<1>1. IInv => ExactlyItsAlerts
  BY NoGap DEF IInv, ExactlyItsAlerts
<1> QED BY <1>1, HubInit, HubStep, PTL DEF Spec

\* The gauge counts the handlers between their two updates of it, although a
\* connection may be removed from the map by flushBatch, its handler or both.
THEOREM GaugeIsHonest == Spec => []GaugeCountsHandlers
<1>1. IInv => GaugeCountsHandlers
  BY DEF IInv
<1> QED BY <1>1, HubInit, HubStep, PTL DEF Spec

\* The hub implements AlertFeed: with its two mutexes, the copy of the batch and
\* writes that fail or hang, it hands each connection the alerts after its mark in
\* order, and one that joins starts beyond all that was written before, so that a
\* dashboard that reconnects is written nothing twice.
THEOREM HubImplementsFeed == Spec => ImplementsFeed
<1>1. Spec => [](IInv /\ WrittenIsSent)
  BY HubInit, HubStep, FeedInit, SentStep, PTL DEF Spec
<1> QED BY <1>1, FeedInit, FeedStep, PTL DEF Spec, ImplementsFeed, Feed!Spec
=============================================================================
