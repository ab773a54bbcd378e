---------------------------- MODULE AlertService ----------------------------
(***************************************************************************)
(* What becomes of an alert that a detector returned.  AlertService's      *)
(* CreateAlert asks ShouldSuppressAlert, stores the alert, broadcasts the  *)
(* stored row to the dashboards and notifies Slack.  Several workers are   *)
(* in CreateAlert at once; the only thing they share is the suppression    *)
(* map, and only the question to it is under a mutex.  The map is memory:  *)
(* a restart empties it.                                                   *)
(***************************************************************************)
EXTENDS Integers, Sequences, FiniteSets, SequencesExt

CONSTANTS
    Alerts,     \* the alerts the detectors raise, each once
    Keys,       \* suppression keys, tenant:type:address
    KeyOf,      \* the key of each alert
    Workers,    \* how many workers there are
    Suppress,   \* length of the suppression window: 5 minutes
    Faults,     \* "store": the INSERT may fail; "crash": the process may die
    NoEntry,    \* the key is not in the map
    MaxTime,    \* bound on the clock
    MaxBoots    \* bound on the restarts

ASSUME KeyAssumption == KeyOf \in [Alerts -> Keys]
ASSUME SuppressAssumption == Suppress \in Nat \ {0}
ASSUME NoEntryAssumption == NoEntry \notin Nat
ASSUME BoundAssumption == MaxTime \in Nat /\ MaxBoots \in Nat

VARIABLES
    now,        \* the clock
    boot,       \* how often the process was restarted
    alertMap,   \* alertMap[k]: time of the last alert of the key let through
    state,      \* state[a]: how far alert a has come
    rows,       \* the table alerts: what was inserted, in order of id
    broadcast,  \* history: alerts handed to the WebSocket hub, in order
    asked       \* history: asked[a] is when and in which boot a was asked about

vars == <<now, boot, alertMap, state, rows, broadcast, asked>>

\* In CreateAlert: let through and not yet returned.
InProgress == {"passed", "stored", "broadcast"}
States == InProgress \cup {"new", "suppressed", "failed", "done", "dead"}
Passed(a) == state[a] \notin {"new", "suppressed"}

TypeOK ==
    /\ now \in 0..MaxTime /\ boot \in 0..MaxBoots
    /\ alertMap \in [Keys -> (0..MaxTime) \cup {NoEntry}]
    /\ state \in [Alerts -> States]
    /\ rows \in Seq(Alerts) /\ broadcast \in Seq(Alerts)
    /\ asked \in [Alerts -> [boot : 0..MaxBoots, at : 0..MaxTime]]

Init ==
    /\ now = 0 /\ boot = 0
    /\ alertMap = [k \in Keys |-> NoEntry]
    /\ state = [a \in Alerts |-> "new"]
    /\ rows = <<>> /\ broadcast = <<>>
    /\ asked = [a \in Alerts |-> [boot |-> 0, at |-> 0]]

-----------------------------------------------------------------------------
Tick ==
    /\ now < MaxTime
    /\ now' = now + 1
    /\ UNCHANGED <<boot, alertMap, state, rows, broadcast, asked>>

(* Plausible mistakes, not part of Next.                                    *)
FreshSecondLonger(k) == alertMap[k] # NoEntry /\ now - alertMap[k] <= Suppress
FreshButLast(k) == alertMap[k] # NoEntry /\ now - alertMap[k] < Suppress - 1
StoreAnswerLostBroadcast(a) ==
    /\ state[a] = "passed" /\ "store" \in Faults
    /\ state' = [state EXCEPT ![a] = "broadcast"]
    /\ broadcast' = Append(broadcast, a)
    /\ UNCHANGED <<now, boot, alertMap, rows, asked>>
BroadcastSkipped(a) ==
    /\ state[a] = "stored"
    /\ state' = [state EXCEPT ![a] = "broadcast"]
    /\ UNCHANGED <<now, boot, alertMap, rows, broadcast, asked>>

-----------------------------------------------------------------------------
\* An entry of the map that is younger than the window.
Fresh(k) == alertMap[k] # NoEntry /\ now - alertMap[k] < Suppress

\* A plausible mistake again: an entry that holds the end of the window, not the
\* time of the alert.
AskStampsEnd(a) ==
    LET k == KeyOf[a]
    IN /\ state[a] = "new"
       /\ Cardinality({b \in Alerts : state[b] \in InProgress}) < Workers
       /\ state' = [state EXCEPT ![a] = IF Fresh(k) THEN "suppressed" ELSE "passed"]
       /\ alertMap' = IF Fresh(k) THEN alertMap
                      ELSE [alertMap EXCEPT ![k] = now + Suppress]
       /\ asked' = [asked EXCEPT ![a] = [boot |-> boot, at |-> now]]
       /\ UNCHANGED <<now, boot, rows, broadcast>>

\* ShouldSuppressAlert: the question and the stamp are one critical section.
\* The key is stamped before anything is known about the store.
Ask(a) ==
    LET k == KeyOf[a]
    IN /\ state[a] = "new"
       /\ Cardinality({b \in Alerts : state[b] \in InProgress}) < Workers
       /\ state' = [state EXCEPT ![a] = IF Fresh(k) THEN "suppressed" ELSE "passed"]
       /\ alertMap' = IF Fresh(k) THEN alertMap ELSE [alertMap EXCEPT ![k] = now]
       /\ asked' = [asked EXCEPT ![a] = [boot |-> boot, at |-> now]]
       /\ UNCHANGED <<now, boot, rows, broadcast>>

\* AlertRepository.CreateAlert.  There is no deadline on the query.
Store(a) ==
    /\ state[a] = "passed"
    /\ rows' = Append(rows, a)
    /\ state' = [state EXCEPT ![a] = "stored"]
    /\ UNCHANGED <<now, boot, alertMap, broadcast, asked>>

StoreFails(a) ==
    /\ state[a] = "passed" /\ "store" \in Faults
    /\ state' = [state EXCEPT ![a] = "failed"]
    /\ UNCHANGED <<now, boot, alertMap, rows, broadcast, asked>>

\* The row is inserted and the answer is lost: an error to CreateAlert.
StoreAnswerLost(a) ==
    /\ state[a] = "passed" /\ "store" \in Faults
    /\ rows' = Append(rows, a)
    /\ state' = [state EXCEPT ![a] = "failed"]
    /\ UNCHANGED <<now, boot, alertMap, broadcast, asked>>

Broadcast(a) ==
    /\ state[a] = "stored"
    /\ state' = [state EXCEPT ![a] = "broadcast"]
    /\ broadcast' = Append(broadcast, a)
    /\ UNCHANGED <<now, boot, alertMap, rows, asked>>

\* The metric, the goroutine that posts to Slack, and the return.
Notify(a) ==
    /\ state[a] = "broadcast"
    /\ state' = [state EXCEPT ![a] = "done"]
    /\ UNCHANGED <<now, boot, alertMap, rows, broadcast, asked>>

\* The process dies and is started again.
Crash ==
    /\ "crash" \in Faults /\ boot < MaxBoots
    /\ boot' = boot + 1
    /\ alertMap' = [k \in Keys |-> NoEntry]
    /\ state' = [a \in Alerts |-> IF state[a] \in InProgress THEN "dead" ELSE state[a]]
    /\ UNCHANGED <<now, rows, broadcast, asked>>

CreateAlert(a) ==
    \/ Ask(a)
    \/ Store(a) \/ StoreFails(a) \/ StoreAnswerLost(a)
    \/ Broadcast(a) \/ Notify(a)

Next == Tick \/ Crash \/ \E a \in Alerts : CreateAlert(a)

Spec == Init /\ [][Next]_vars

\* A worker in CreateAlert keeps running, and its query is answered some time.
FairSpec ==
    /\ Spec
    /\ \A a \in Alerts :
           /\ WF_vars(Store(a) \/ StoreFails(a) \/ StoreAnswerLost(a))
           /\ WF_vars(Broadcast(a)) /\ WF_vars(Notify(a))

-----------------------------------------------------------------------------
\* Between two restarts, alerts of one key are let through at least a window
\* apart, however many workers ask at once.
PassedAreSpaced ==
    \A a, b \in Alerts :
        a # b /\ KeyOf[a] = KeyOf[b] /\ Passed(a) /\ Passed(b)
            /\ asked[a].boot = asked[b].boot =>
        asked[a].at - asked[b].at >= Suppress \/ asked[b].at - asked[a].at >= Suppress

\* An alert is only suppressed on account of another one of its own key that was
\* let through less than a window before: a suppressed alert does not prolong
\* the window, and an alert of another key never suppresses.
SuppressedForAReason ==
    \A a \in Alerts : state[a] = "suppressed" =>
        \E b \in Alerts \ {a} :
            /\ KeyOf[b] = KeyOf[a] /\ Passed(b) /\ asked[b].boot = asked[a].boot
            /\ asked[a].at - asked[b].at \in 0..(Suppress - 1)

\* What an entry of the map says: the latest alert of its key that was let
\* through since the start, whether or not it was stored; no entry, none.  This
\* is what makes the two properties above true.
PassedHere(k) == {a \in Alerts : KeyOf[a] = k /\ Passed(a) /\ asked[a].boot = boot}

MapIsLatest ==
    \A k \in Keys :
        IF alertMap[k] = NoEntry THEN PassedHere(k) = {}
        ELSE /\ alertMap[k] <= now
             /\ \E a \in PassedHere(k) : asked[a].at = alertMap[k]
             /\ \A a \in PassedHere(k) : asked[a].at <= alertMap[k]

\* A dashboard is never shown an alert that is not in the table, nor one alert
\* twice; and no failure makes a second row of an alert.
ShownIsStored ==
    /\ ToSet(broadcast) \subseteq ToSet(rows)
    /\ IsInjective(broadcast) /\ IsInjective(rows)

\* Every alert that was let through reaches the dashboards' hub, unless its insert
\* failed, the process died under it, or the answer of its insert was lost.  That an
\* alert ended as "done" is not enough: it was handed over.
PassedIsShown ==
    \A a \in Alerts :
        state[a] = "passed" ~> a \in ToSet(broadcast) \/ state[a] \in {"failed", "dead"}

-----------------------------------------------------------------------------
\* What the repository says and the code does not do.

\* alert_service.go: the check is for duplicates.  An alert is suppressed even if
\* the one it duplicates could not be stored, and then neither is.
SuppressedIsDuplicate ==
    \A a \in Alerts : state[a] = "suppressed" =>
        \E b \in Alerts \ {a} :
            KeyOf[b] = KeyOf[a] /\ (state[b] \in InProgress \/ b \in ToSet(rows))
=============================================================================
