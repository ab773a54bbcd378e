------------------------- MODULE AlertServiceProofs -------------------------
(***************************************************************************)
(* Alerts of one key are spaced, and a suppressed alert has a reason, for  *)
(* any number of alerts, keys and workers, any window, and with failing    *)
(* stores and restarts.  Only Ask and Crash touch what the two properties  *)
(* read; every other action is a quiet step.                               *)
(***************************************************************************)
EXTENDS AlertService, TLAPS

\* Nothing was asked in a boot that has not begun.
AskedBefore == \A a \in Alerts : asked[a].boot <= boot

IInv == TypeOK /\ AskedBefore /\ MapIsLatest /\ PassedAreSpaced /\ SuppressedForAReason

\* No alert is asked about, and the boot and the map stay as they are.
Quiet ==
    /\ boot' = boot /\ alertMap' = alertMap /\ asked' = asked
    /\ now' \in Int /\ now <= now'
    /\ \A a \in Alerts :
           /\ Passed(a)' <=> Passed(a)
           /\ state'[a] = "suppressed" <=> state[a] = "suppressed"

-----------------------------------------------------------------------------
LEMMA InitTyped == Init => TypeOK
  BY BoundAssumption DEF Init, TypeOK, States

LEMMA AppendTyped ==
    ASSUME NEW S, NEW s \in Seq(S), NEW x \in S PROVE Append(s, x) \in Seq(S)
  OBVIOUS

\* Every step keeps the types.
LEMMA NextTyped ==
    ASSUME TypeOK, [Next]_vars PROVE TypeOK'
<1> USE DEF TypeOK
<1>1. CASE Tick
  BY <1>1, BoundAssumption DEF Tick
<1>2. CASE Crash
  BY <1>2, BoundAssumption DEF Crash, States
<1>3. ASSUME NEW a \in Alerts, Ask(a) PROVE TypeOK'
  <2>1. KeyOf[a] \in Keys
    BY KeyAssumption
  <2>2. state' \in [Alerts -> States]
    BY <1>3 DEF Ask, States, InProgress
  <2>3. alertMap' \in [Keys -> (0..MaxTime) \cup {NoEntry}]
    BY <1>3, <2>1 DEF Ask
  <2>4. asked' \in [Alerts -> [boot : 0..MaxBoots, at : 0..MaxTime]]
    BY <1>3 DEF Ask
  <2> QED
    BY <1>3, <2>2, <2>3, <2>4 DEF Ask
<1>4. ASSUME NEW a \in Alerts,
             Store(a) \/ StoreFails(a) \/ StoreAnswerLost(a) \/ Broadcast(a)
      PROVE  TypeOK'
  <2>1. Append(rows, a) \in Seq(Alerts) /\ Append(broadcast, a) \in Seq(Alerts)
    BY AppendTyped
  <2> QED
    BY <1>4, <2>1 DEF Store, StoreFails, StoreAnswerLost, Broadcast, States, InProgress
<1>5. ASSUME NEW a \in Alerts, Notify(a) PROVE TypeOK'
  BY <1>5 DEF Notify, States
<1>6. CASE UNCHANGED vars
  BY <1>6 DEF vars
<1> QED
  BY <1>1, <1>2, <1>3, <1>4, <1>5, <1>6 DEF Next, CreateAlert

\* The alert service has its types in every reachable state.
THEOREM AlertsTyped == Spec => []TypeOK
  BY InitTyped, NextTyped, PTL DEF Spec

-----------------------------------------------------------------------------
\* Everything but the question and the restart is quiet.
LEMMA QuietSteps ==
    ASSUME TypeOK,
           \/ Tick \/ UNCHANGED vars
           \/ \E a \in Alerts : \/ Store(a) \/ StoreFails(a) \/ StoreAnswerLost(a)
                                \/ Broadcast(a) \/ Notify(a)
    PROVE  Quiet
<1> USE DEF TypeOK, Quiet, Passed
<1>1. CASE Tick
  BY <1>1, BoundAssumption DEF Tick
<1>2. CASE UNCHANGED vars
  BY <1>2, BoundAssumption DEF vars
<1>3. ASSUME NEW a \in Alerts,
             \/ Store(a) \/ StoreFails(a) \/ StoreAnswerLost(a)
             \/ Broadcast(a) \/ Notify(a)
      PROVE  Quiet
  BY <1>3, BoundAssumption DEF Store, StoreFails, StoreAnswerLost, Broadcast, Notify
<1> QED
  BY <1>1, <1>2, <1>3

LEMMA QuietPreserves ==
    ASSUME IInv, TypeOK', Quiet
    PROVE  AskedBefore' /\ MapIsLatest' /\ PassedAreSpaced' /\ SuppressedForAReason'
<1> USE DEF IInv, Quiet
<1>1. AskedBefore'
  BY DEF AskedBefore
<1>2. \A k \in Keys : PassedHere(k)' = PassedHere(k)
  BY DEF PassedHere
<1>3. MapIsLatest'
  <2> SUFFICES ASSUME NEW k \in Keys, alertMap'[k] # NoEntry
               PROVE  alertMap'[k] <= now'
    BY <1>2 DEF MapIsLatest, PassedHere
  <2>1. alertMap[k] <= now /\ alertMap[k] \in Int /\ now \in Int
    BY BoundAssumption DEF MapIsLatest, TypeOK
  <2> QED
    BY <2>1
<1>4. PassedAreSpaced'
  BY DEF PassedAreSpaced
<1>5. SuppressedForAReason'
  BY DEF SuppressedForAReason
<1> QED
  BY <1>1, <1>3, <1>4, <1>5

-----------------------------------------------------------------------------
\* A restart empties the map and begins a boot in which nobody has asked yet.
LEMMA CrashPreserves ==
    ASSUME IInv, TypeOK', Crash
    PROVE  AskedBefore' /\ MapIsLatest' /\ PassedAreSpaced' /\ SuppressedForAReason'
<1> USE DEF IInv
<1>1. boot \in Int /\ boot' = boot + 1 /\ asked' = asked
  BY BoundAssumption DEF TypeOK, Crash
<1>2. \A a \in Alerts : asked[a].boot \in Int /\ asked[a].boot <= boot
  BY BoundAssumption DEF TypeOK, AskedBefore
<1>3. \A a \in Alerts : /\ Passed(a)' <=> Passed(a)
                        /\ state'[a] = "suppressed" <=> state[a] = "suppressed"
  BY DEF Crash, Passed, TypeOK, InProgress
<1>4. AskedBefore'
  BY <1>1, <1>2 DEF AskedBefore
<1>5. MapIsLatest'
  <2>1. \A k \in Keys : PassedHere(k)' = {}
    BY <1>1, <1>2 DEF PassedHere
  <2> QED
    BY <2>1 DEF MapIsLatest, Crash
<1>6. PassedAreSpaced'
  BY <1>1, <1>3 DEF PassedAreSpaced
<1>7. SuppressedForAReason'
  BY <1>1, <1>3 DEF SuppressedForAReason
<1> QED
  BY <1>4, <1>5, <1>6, <1>7

-----------------------------------------------------------------------------
\* The question: an alert is let through and becomes the latest of its key, or
\* is suppressed on account of the latest.
LEMMA AskPreserves ==
    ASSUME IInv, TypeOK', NEW a \in Alerts, Ask(a)
    PROVE  AskedBefore' /\ MapIsLatest' /\ PassedAreSpaced' /\ SuppressedForAReason'
<1> USE DEF IInv
<1>a. PICK key \in Keys : key = KeyOf[a]
  BY KeyAssumption
<1>1. /\ boot' = boot /\ now' = now /\ now \in Int /\ boot \in Int
      /\ state[a] = "new" /\ ~Passed(a)
      /\ asked'[a] = [boot |-> boot, at |-> now]
      /\ Suppress \in Int /\ Suppress > 0
  BY BoundAssumption, SuppressAssumption DEF Ask, TypeOK, Passed
<1>2. \A b \in Alerts \ {a} :
          /\ asked'[b] = asked[b] /\ state'[b] = state[b]
          /\ Passed(b)' <=> Passed(b)
  BY DEF Ask, TypeOK, Passed
<1>3. \A b \in Alerts :
          /\ asked[b].boot \in Int /\ asked[b].at \in Int /\ asked[b].boot <= boot
  BY BoundAssumption DEF TypeOK, AskedBefore
<1>4. \A k \in Keys : alertMap[k] = NoEntry \/ alertMap[k] \in Int
  BY BoundAssumption DEF TypeOK
<1>5. AskedBefore'
  BY <1>1, <1>2, <1>3 DEF AskedBefore
<1>6. \A k \in Keys \ {key} : PassedHere(k)' = PassedHere(k) /\ alertMap'[k] = alertMap[k]
  BY <1>a, <1>1, <1>2 DEF PassedHere, Ask, TypeOK
<1>7. CASE Fresh(key)
  <2>1. alertMap' = alertMap /\ state'[a] = "suppressed" /\ ~Passed(a)'
    BY <1>7, <1>a DEF Ask, TypeOK, Passed
  <2>2. PassedHere(key)' = PassedHere(key)
    BY <2>1, <1>1, <1>2 DEF PassedHere
  <2>3. MapIsLatest'
    <3>1. \A k \in Keys : PassedHere(k)' = PassedHere(k)
      BY <1>6, <2>2
    <3>2. \A k \in Keys : \A b \in PassedHere(k) : asked'[b] = asked[b]
      BY <1>1, <1>2 DEF PassedHere
    <3> QED
      BY <3>1, <3>2, <2>1, <1>1 DEF MapIsLatest
  <2>4. PassedAreSpaced'
    BY <2>1, <1>1, <1>2 DEF PassedAreSpaced
  <2>5. SuppressedForAReason'
    <3>1. PICK b \in PassedHere(key) : asked[b].at = alertMap[key]
      BY <1>7 DEF MapIsLatest, Fresh
    <3>2. /\ b \in Alerts \ {a} /\ KeyOf[b] = KeyOf[a] /\ Passed(b)
          /\ asked[b].boot = boot
      BY <3>1, <1>1, <1>a DEF PassedHere
    <3>3. now - asked[b].at \in 0..(Suppress - 1)
      BY <3>1, <1>7, <1>1, <1>4 DEF Fresh, MapIsLatest
    <3>4. ASSUME NEW c \in Alerts \ {a}, state[c] = "suppressed"
          PROVE  \E d \in Alerts \ {c} :
                     /\ KeyOf[d] = KeyOf[c] /\ Passed(d)' /\ asked'[d].boot = asked'[c].boot
                     /\ asked'[c].at - asked'[d].at \in 0..(Suppress - 1)
      <4>1. PICK d \in Alerts \ {c} :
                /\ KeyOf[d] = KeyOf[c] /\ Passed(d) /\ asked[d].boot = asked[c].boot
                /\ asked[c].at - asked[d].at \in 0..(Suppress - 1)
        BY <3>4 DEF SuppressedForAReason
      <4>2. d # a
        BY <4>1, <1>1
      <4> QED
        BY <4>1, <4>2, <1>2, <3>4
    <3> QED
      BY <3>2, <3>3, <3>4, <1>1, <1>2 DEF SuppressedForAReason
  <2> QED
    BY <1>5, <2>3, <2>4, <2>5
<1>8. CASE ~Fresh(key)
  <2>1. alertMap'[key] = now /\ state'[a] = "passed" /\ Passed(a)'
    BY <1>8, <1>a DEF Ask, TypeOK, Passed
  <2>2. PassedHere(key)' = PassedHere(key) \cup {a}
    BY <2>1, <1>1, <1>2, <1>a DEF PassedHere
  <2>3. \A b \in PassedHere(key) :
            b # a /\ asked'[b] = asked[b] /\ now - asked[b].at >= Suppress
    <3> SUFFICES ASSUME NEW b \in PassedHere(key)
                 PROVE  b # a /\ asked'[b] = asked[b] /\ now - asked[b].at >= Suppress
      OBVIOUS
    <3>1. b \in Alerts \ {a}
      BY <1>1 DEF PassedHere
    <3>2. alertMap[key] # NoEntry /\ asked[b].at <= alertMap[key]
      BY DEF MapIsLatest
    <3>3. now - alertMap[key] >= Suppress
      BY <3>2, <1>8, <1>4, <1>1 DEF Fresh
    <3> QED
      BY <3>1, <3>2, <3>3, <1>1, <1>2, <1>3, <1>4
  <2>4. MapIsLatest'
    <3>1. ASSUME NEW k \in Keys \ {key}
          PROVE  \A b \in PassedHere(k) : asked'[b] = asked[b]
      BY <1>1, <1>2 DEF PassedHere
    <3>2. \A b \in PassedHere(key)' : asked'[b].at <= now
      <4>1. \A b \in PassedHere(key) : asked'[b].at <= now
        BY <2>3, <1>1, <1>3 DEF PassedHere
      <4> QED
        BY <4>1, <2>2, <1>1
    <3>3. a \in PassedHere(key)' /\ asked'[a].at = now /\ now # NoEntry
      BY <2>2, <1>1, NoEntryAssumption, BoundAssumption DEF TypeOK
    <3>4. ASSUME NEW k \in Keys, k # key
          PROVE  (IF alertMap[k] = NoEntry THEN PassedHere(k) = {}
                  ELSE /\ alertMap[k] <= now
                       /\ \E b \in PassedHere(k) : asked[b].at = alertMap[k]
                       /\ \A b \in PassedHere(k) : asked[b].at <= alertMap[k])'
      BY <3>1, <3>4, <1>1, <1>6 DEF MapIsLatest
    <3>5. (IF alertMap[key] = NoEntry THEN PassedHere(key) = {}
           ELSE /\ alertMap[key] <= now
                /\ \E b \in PassedHere(key) : asked[b].at = alertMap[key]
                /\ \A b \in PassedHere(key) : asked[b].at <= alertMap[key])'
      BY <3>2, <3>3, <2>1, <1>1
    <3> QED
      BY <3>4, <3>5 DEF MapIsLatest
  <2>5. PassedAreSpaced'
    <3>1. ASSUME NEW b \in Alerts \ {a}, KeyOf[b] = KeyOf[a], Passed(b)',
                 asked'[b].boot = asked'[a].boot
          PROVE  asked'[a].at - asked'[b].at >= Suppress
      <4>1. b \in PassedHere(key)
        BY <3>1, <1>1, <1>2, <1>a DEF PassedHere
      <4> QED
        BY <4>1, <2>3, <1>1
    <3> QED
      BY <3>1, <1>2 DEF PassedAreSpaced
  <2>6. SuppressedForAReason'
    <3>1. ASSUME NEW c \in Alerts, state'[c] = "suppressed"
          PROVE  \E d \in Alerts \ {c} :
                     /\ KeyOf[d] = KeyOf[c] /\ Passed(d)' /\ asked'[d].boot = asked'[c].boot
                     /\ asked'[c].at - asked'[d].at \in 0..(Suppress - 1)
      <4>1. c # a /\ state[c] = "suppressed"
        BY <3>1, <2>1, <1>2
      <4>2. PICK d \in Alerts \ {c} :
                /\ KeyOf[d] = KeyOf[c] /\ Passed(d) /\ asked[d].boot = asked[c].boot
                /\ asked[c].at - asked[d].at \in 0..(Suppress - 1)
        BY <4>1 DEF SuppressedForAReason
      <4>3. d # a
        BY <4>2, <1>1
      <4> QED
        BY <4>1, <4>2, <4>3, <1>2
    <3> QED
      BY <3>1 DEF SuppressedForAReason
  <2> QED
    BY <1>5, <2>4, <2>5, <2>6
<1> QED
  BY <1>7, <1>8

-----------------------------------------------------------------------------
LEMMA InitIInv == Init => IInv
<1> SUFFICES ASSUME Init PROVE IInv
  OBVIOUS
<1>1. \A a \in Alerts : ~Passed(a) /\ state[a] # "suppressed" /\ asked[a].boot = 0
  BY DEF Init, Passed
<1>2. \A k \in Keys : PassedHere(k) = {}
  BY <1>1 DEF PassedHere
<1> QED
  BY <1>1, <1>2, InitTyped
  DEF IInv, Init, AskedBefore, MapIsLatest, PassedAreSpaced, SuppressedForAReason

LEMMA NextIInv == IInv /\ [Next]_vars => IInv'
<1> SUFFICES ASSUME IInv, [Next]_vars PROVE IInv'
  OBVIOUS
<1>1. TypeOK'
  BY NextTyped DEF IInv
<1>2. AskedBefore' /\ MapIsLatest' /\ PassedAreSpaced' /\ SuppressedForAReason'
  <2>1. CASE Crash
    BY <2>1, <1>1, CrashPreserves
  <2>2. ASSUME NEW a \in Alerts, Ask(a)
        PROVE  AskedBefore' /\ MapIsLatest' /\ PassedAreSpaced' /\ SuppressedForAReason'
    BY <2>2, <1>1, AskPreserves
  <2>3. CASE \/ Tick \/ UNCHANGED vars
             \/ \E a \in Alerts : \/ Store(a) \/ StoreFails(a) \/ StoreAnswerLost(a)
                                  \/ Broadcast(a) \/ Notify(a)
    <3>1. Quiet
      BY <2>3, QuietSteps DEF IInv
    <3> QED
      BY <3>1, <1>1, QuietPreserves
  <2> QED
    BY <2>1, <2>2, <2>3 DEF Next, CreateAlert
<1> QED
  BY <1>1, <1>2 DEF IInv

\* An entry of the suppression map is the time of the latest alert of its key
\* that ShouldSuppressAlert let through since the process started.
THEOREM MapHoldsTheLatest == Spec => []MapIsLatest
<1>1. IInv => MapIsLatest
  BY DEF IInv
<1> QED
  BY InitIInv, NextIInv, <1>1, PTL DEF Spec

\* ShouldSuppressAlert lets alerts of one key through at least Suppress apart,
\* between two restarts, whatever the number of workers that ask.
THEOREM AlertsAreSpaced == Spec => []PassedAreSpaced
<1>1. IInv => PassedAreSpaced
  BY DEF IInv
<1> QED
  BY InitIInv, NextIInv, <1>1, PTL DEF Spec

\* ShouldSuppressAlert only suppresses an alert because another one of its key
\* was let through less than Suppress earlier in the same run of the process.
THEOREM SuppressionHasAReason == Spec => []SuppressedForAReason
<1>1. IInv => SuppressedForAReason
  BY DEF IInv
<1> QED
  BY InitIInv, NextIInv, <1>1, PTL DEF Spec

-----------------------------------------------------------------------------
(***************************************************************************)
(* The table and the dashboards: each step of an alert happens once.       *)
(***************************************************************************)
OnceEach ==
    /\ \A a \in Alerts :
        /\ state[a] \in {"new", "suppressed", "passed"} => a \notin ToSet(rows)
        /\ state[a] = "stored" => a \in ToSet(rows)
        /\ state[a] \in {"new", "suppressed", "passed", "stored"} => a \notin ToSet(broadcast)
    /\ ShownIsStored

LEMMA AppendOnce ==
    ASSUME NEW S, NEW s \in Seq(S), NEW x \in S
    PROVE  /\ ToSet(Append(s, x)) = ToSet(s) \cup {x}
           /\ IsInjective(s) /\ x \notin ToSet(s) => IsInjective(Append(s, x))
<1>1. /\ Len(s) \in Nat /\ DOMAIN s = 1..Len(s) /\ DOMAIN Append(s, x) = 1..(Len(s) + 1)
      /\ \A i \in 1..Len(s) : Append(s, x)[i] = s[i]
      /\ Append(s, x)[Len(s) + 1] = x
  OBVIOUS
<1>2. ToSet(Append(s, x)) = ToSet(s) \cup {x}
  BY <1>1 DEF ToSet
<1>3. IsInjective(s) /\ x \notin ToSet(s) => IsInjective(Append(s, x))
  BY <1>1 DEF ToSet, IsInjective
<1> QED
  BY <1>2, <1>3

LEMMA OnceInit == Init => OnceEach
<1> SUFFICES ASSUME Init PROVE OnceEach
  OBVIOUS
<1>1. rows = <<>> /\ broadcast = <<>> /\ \A a \in Alerts : state[a] = "new"
  BY DEF Init
<1>2. ToSet(<<>>) = {} /\ IsInjective(<<>>)
  BY DEF ToSet, IsInjective
<1> QED
  BY <1>1, <1>2 DEF OnceEach, ShownIsStored

LEMMA OnceStep ==
    ASSUME TypeOK, OnceEach, [Next]_vars
    PROVE  OnceEach'
<1>0. /\ state \in [Alerts -> States] /\ rows \in Seq(Alerts) /\ broadcast \in Seq(Alerts)
  BY DEF TypeOK
<1>1. ASSUME rows' = rows, broadcast' = broadcast,
             \A a \in Alerts :
                 /\ state'[a] \in {"new", "suppressed", "passed"} =>
                        state[a] \in {"new", "suppressed", "passed"}
                 /\ state'[a] = "stored" => state[a] = "stored"
      PROVE  OnceEach'
  BY <1>1 DEF OnceEach, ShownIsStored
<1>2. ASSUME NEW a \in Alerts, Store(a) \/ StoreAnswerLost(a)
      PROVE  OnceEach'
  <2>1. /\ a \notin ToSet(rows) /\ rows' = Append(rows, a) /\ broadcast' = broadcast
        /\ state[a] = "passed" /\ state'[a] \in {"stored", "failed"}
        /\ \A b \in Alerts \ {a} : state'[b] = state[b]
    <3>1. state[a] = "passed" /\ rows' = Append(rows, a) /\ broadcast' = broadcast
      BY <1>2 DEF Store, StoreAnswerLost
    <3>2. a \notin ToSet(rows)
      BY <3>1 DEF OnceEach
    <3>3. state' = [state EXCEPT ![a] = "stored"] \/ state' = [state EXCEPT ![a] = "failed"]
      BY <1>2 DEF Store, StoreAnswerLost
    <3> QED
      BY <1>0, <3>1, <3>2, <3>3
  <2>2. ToSet(rows') = ToSet(rows) \cup {a} /\ IsInjective(rows')
    BY <1>0, <2>1, AppendOnce DEF OnceEach, ShownIsStored
  <2>3. ShownIsStored'
    BY <2>1, <2>2 DEF OnceEach, ShownIsStored
  <2>4. ASSUME NEW b \in Alerts
        PROVE  /\ state'[b] \in {"new", "suppressed", "passed"} => b \notin ToSet(rows')
               /\ state'[b] = "stored" => b \in ToSet(rows')
               /\ state'[b] \in {"new", "suppressed", "passed", "stored"} =>
                      b \notin ToSet(broadcast')
    <3>1. CASE b = a
      BY <2>1, <2>2, <3>1 DEF OnceEach
    <3>2. CASE b # a
      BY <2>1, <2>2, <3>2 DEF OnceEach
    <3> QED
      BY <3>1, <3>2
  <2> QED
    BY <2>3, <2>4 DEF OnceEach
<1>3. ASSUME NEW a \in Alerts, Broadcast(a)
      PROVE  OnceEach'
  <2>1. /\ a \notin ToSet(broadcast) /\ a \in ToSet(rows)
        /\ broadcast' = Append(broadcast, a) /\ rows' = rows
        /\ state[a] = "stored" /\ state'[a] = "broadcast"
        /\ \A b \in Alerts \ {a} : state'[b] = state[b]
    <3>1. state[a] = "stored" /\ state' = [state EXCEPT ![a] = "broadcast"]
      BY <1>3 DEF Broadcast
    <3>2. broadcast' = Append(broadcast, a) /\ rows' = rows
      BY <1>3 DEF Broadcast
    <3>3. a \notin ToSet(broadcast) /\ a \in ToSet(rows)
      BY <3>1 DEF OnceEach
    <3> QED
      BY <1>0, <3>1, <3>2, <3>3
  <2>2. ToSet(broadcast') = ToSet(broadcast) \cup {a} /\ IsInjective(broadcast')
    BY <1>0, <2>1, AppendOnce DEF OnceEach, ShownIsStored
  <2>3. ShownIsStored'
    BY <2>1, <2>2 DEF OnceEach, ShownIsStored
  <2>4. ASSUME NEW b \in Alerts
        PROVE  /\ state'[b] \in {"new", "suppressed", "passed"} => b \notin ToSet(rows')
               /\ state'[b] = "stored" => b \in ToSet(rows')
               /\ state'[b] \in {"new", "suppressed", "passed", "stored"} =>
                      b \notin ToSet(broadcast')
    <3>1. CASE b = a
      BY <2>1, <2>2, <3>1 DEF OnceEach
    <3>2. CASE b # a
      BY <2>1, <2>2, <3>2 DEF OnceEach
    <3> QED
      BY <3>1, <3>2
  <2> QED
    BY <2>3, <2>4 DEF OnceEach
<1>4. ASSUME NEW a \in Alerts, Ask(a) \/ StoreFails(a) \/ Notify(a)
      PROVE  OnceEach'
  BY <1>0, <1>1, <1>4 DEF Ask, StoreFails, Notify
<1>5. CASE Tick \/ UNCHANGED vars
  BY <1>1, <1>5 DEF Tick, vars
<1>6. CASE Crash
  BY <1>1, <1>6 DEF Crash
<1> QED
  BY <1>2, <1>3, <1>4, <1>5, <1>6 DEF Next, CreateAlert

\* CreateAlert shows no alert that is not in the table, none twice, and inserts none
\* twice, also when the answer to an insert is lost or the process dies.
THEOREM ShownAlertsAreStored == Spec => []ShownIsStored
<1>1. OnceEach => ShownIsStored
  BY DEF OnceEach
<1>2. TypeOK /\ OnceEach /\ [Next]_vars => OnceEach'
  BY OnceStep
<1> QED
  BY InitTyped, NextTyped, OnceInit, <1>1, <1>2, PTL DEF Spec
=============================================================================
