------------------------- MODULE DashboardViewProofs -------------------------
(***************************************************************************)
(* What holds of the page for any number of alerts, addresses, tenants and *)
(* calls, and any sizes of the feed, the leaderboard and the console.      *)
(*                                                                         *)
(* The groups of variables do not depend on each other: Moves says once    *)
(* what a step may do to each of them, and every property is then proved   *)
(* from the moves of the variables that it reads.                          *)
(***************************************************************************)
EXTENDS DashboardView, FiniteSetTheorems, SequenceTheorems, TLAPS

FormTyped == form \in [threshold : Thresholds, webhook : Webhooks, retention : Retentions]

\* TypeOK by groups of variables.
DataTyped ==
    /\ stored \in Seq(Alerts) /\ got \in 0..MaxAlerts /\ 1..got \subseteq ToSet(stored)
    /\ list \in Seq(ToSet(stored))
    /\ attackers \in Seq(Ips) /\ Len(attackers) <= Limit
ViewTyped ==
    /\ tab \in Tabs /\ drawer \in ToSet(stored) \cup {None} /\ selected \in Ips \cup {None}
    /\ severity \in Severities \cup {"ALL"} /\ search \in Texts
    /\ tenant \in Tenants /\ FormTyped
BlindTyped == blind \in 0..MaxBlind
ToastTyped == toast \in Nat \cup {None} /\ timers \subseteq 0..ToastTime
LogsTyped == logs \in Seq(Nat)

\* An alert is stored once.
StoredOnce == \A i, j \in DOMAIN stored : stored[i] = stored[j] => i = j

\* The list has no gaps but those that the socket has still to fill: with an alert it has
\* all that were stored before it, unless the alert came over the socket (and so did,
\* by then, all with a smaller number).
Complete ==
    \A a, b \in Alerts :
        OwnerOf[a] = OwnerOf[b] /\ StoredBefore(a, b) /\ b \in ToSet(list) =>
            a \in ToSet(list) \/ b <= got

IInv ==
    /\ DataTyped /\ ViewTyped /\ BlindTyped /\ ToastTyped /\ LogsTyped
    /\ StoredOnce /\ Complete /\ ToastEnds /\ ConsoleIsRecent

-----------------------------------------------------------------------------
LEMMA Sizes ==
    /\ MaxAlerts \in Nat /\ Top \in Nat /\ Limit \in Nat /\ ToastTime \in Nat /\ MaxBlind \in Nat
    /\ Keep \in Nat \ {0}
  BY SizesAssumption

(***************************************************************************)
(* Orders of a set, and what is cut off a sequence.                        *)
(***************************************************************************)
LEMMA AlertsFinite ==
    \A S \in SUBSET Alerts : IsFiniteSet(S)
<1>1. IsFiniteSet(Alerts)
  BY Sizes, FS_Interval DEF Alerts
<1> QED BY <1>1, FS_Subset

LEMMA IpsFinite ==
    \A S \in SUBSET Ips : IsFiniteSet(S)
<1> DEFINE f == [a \in Alerts |-> IpOf[a]]
<1>1. f \in Surjection(Alerts, Ips)
  BY DEF Surjection, Ips
<1>2. IsFiniteSet(Alerts)
  BY AlertsFinite
<1>3. IsFiniteSet(Ips)
  BY <1>1, <1>2, FS_Surjection
<1> QED BY <1>3, FS_Subset

\* An order of a finite set is a sequence that holds each of its elements once.
LEMMA OrderOf ==
    ASSUME NEW S, IsFiniteSet(S), NEW l \in SetToSeqs(S)
    PROVE  /\ l \in Seq(S) /\ ToSet(l) = S
           /\ Len(l) \in Nat /\ DOMAIN l = 1..Len(l)
           /\ \A i, j \in DOMAIN l : l[i] = l[j] => i = j
<1> DEFINE n == Cardinality(S)
<1>1. n \in Nat
  BY FS_CardinalityType
<1>2. l \in [1..n -> S] /\ \A i, j \in 1..n : i # j => l[i] # l[j]
  BY DEF SetToSeqs
<1>3. l \in Seq(S) /\ Len(l) = n /\ DOMAIN l = 1..n
  <2> HIDE DEF n
  <2> QED BY <1>1, <1>2
<1>4. l \in Injection(1..n, S)
  BY <1>2 DEF Injection, IsInjective
<1>5. IsFiniteSet(1..n) /\ Cardinality(1..n) = n
  <2> HIDE DEF n
  <2>1. IsFiniteSet(1..n) /\ Cardinality(1..n) = IF 1 > n THEN 0 ELSE n - 1 + 1
    BY <1>1, FS_Interval
  <2> QED BY <1>1, <2>1
<1>6. l \in Surjection(1..n, S)
  <2>1. Cardinality(1..n) = Cardinality(S)
    BY <1>5
  <2> QED BY <1>4, <1>5, <2>1, FS_Injection
<1>7. ToSet(l) = S
  BY <1>2, <1>3, <1>6 DEF ToSet, Surjection
<1> QED BY <1>1, <1>2, <1>3, <1>7

LEMMA ShortestOf ==
    ASSUME NEW m \in Nat, NEW n \in Nat
    PROVE  /\ Shortest(m, n) \in Nat /\ Shortest(m, n) <= m /\ Shortest(m, n) <= n
           /\ n <= m => Shortest(m, n) = n
           /\ m <= n => Shortest(m, n) = m
  BY DEF Shortest

LEMMA FirstOfSeq ==
    ASSUME NEW S, NEW s \in Seq(S), NEW n \in Nat
    PROVE  /\ FirstOf(s, n) \in Seq(S) /\ Len(FirstOf(s, n)) <= n
           /\ Len(FirstOf(s, n)) <= Len(s)
           /\ \A i \in 1..Len(FirstOf(s, n)) : FirstOf(s, n)[i] = s[i]
           /\ n <= Len(s) => Len(FirstOf(s, n)) = n
           /\ ToSet(FirstOf(s, n)) \subseteq ToSet(s)
<1> DEFINE k == Shortest(Len(s), n)
<1>1. Len(s) \in Nat /\ DOMAIN s = 1..Len(s)
  OBVIOUS
<1>2. k \in Nat /\ k <= n /\ k <= Len(s) /\ (n <= Len(s) => k = n)
  BY <1>1, ShortestOf
<1>3. FirstOf(s, n) = SubSeq(s, 1, k)
  BY DEF FirstOf
<1> HIDE DEF k
<1>4. \A i \in 1..k : s[i] \in S
  BY <1>1, <1>2
<1>5. /\ SubSeq(s, 1, k) \in Seq(S) /\ Len(SubSeq(s, 1, k)) = k
      /\ \A i \in 1..k : SubSeq(s, 1, k)[i] = s[i]
  BY <1>2, <1>4
<1>6. ToSet(SubSeq(s, 1, k)) \subseteq ToSet(s)
  BY <1>1, <1>2, <1>5 DEF ToSet
<1> QED BY <1>2, <1>3, <1>5, <1>6

\* What a sequence holds.
LEMMA SeqHolds ==
    ASSUME NEW S, NEW s \in Seq(S)
    PROVE  /\ DOMAIN s = 1..Len(s) /\ Len(s) \in Nat
           /\ \A i \in 1..Len(s) : s[i] \in ToSet(s) /\ s[i] \in S
           /\ ToSet(s) \subseteq S
           /\ \A a \in ToSet(s) : \E i \in 1..Len(s) : s[i] = a
BY DEF ToSet

-----------------------------------------------------------------------------
(***************************************************************************)
(* The console.                                                            *)
(***************************************************************************)
Recent(s) == Len(s) <= Keep + 1 /\ \A i \in DOMAIN s : s[i] = Len(s) - i

\* A console that shows the latest entries does so after n more of them.
LEMMA LoggedRecent ==
    ASSUME NEW s \in Seq(Nat), Recent(s), NEW n \in Nat \ {0}
    PROVE  Logged(s, n) \in Seq(Nat) /\ Recent(Logged(s, n))
<1> DEFINE total == Len(s) + n
           kept == Shortest(total, Keep + 1)
           entry(i) == IF i <= Len(s) THEN s[i] + n ELSE total - i
<1>1. /\ Len(s) \in Nat /\ DOMAIN s = 1..Len(s) /\ total \in Nat /\ Keep + 1 \in Nat
      /\ total = Len(s) + n
  BY Sizes
<1>2. kept \in Nat /\ kept <= total /\ kept <= Keep + 1
  BY <1>1, ShortestOf
<1>3. Logged(s, n) = [i \in 1..kept |-> entry((total - kept) + i)]
  BY DEF Logged
<1>4. ASSUME NEW j \in 1..total PROVE entry(j) = total - j /\ entry(j) \in Nat
  <2>1. CASE j <= Len(s)
    <3>1. s[j] = Len(s) - j
      BY <1>1, <2>1 DEF Recent
    <3> QED BY <1>1, <2>1, <3>1
  <2>2. CASE j > Len(s)
    BY <1>1, <2>2
  <2> QED BY <1>1, <2>1, <2>2
<1> HIDE DEF total, kept, entry
<1>5. ASSUME NEW i \in 1..kept
      PROVE  entry((total - kept) + i) = kept - i /\ entry((total - kept) + i) \in Nat
  <2>1. (total - kept) + i \in 1..total
    BY <1>1, <1>2
  <2>2. entry((total - kept) + i) = total - ((total - kept) + i)
    BY <1>4, <2>1
  <2>3. entry((total - kept) + i) = kept - i
    BY <1>1, <1>2, <2>2
  <2>4. entry((total - kept) + i) \in Nat
    BY <1>4, <2>1
  <2> QED BY <2>3, <2>4
<1>6. Logged(s, n) = [i \in 1..kept |-> kept - i]
  BY <1>3, <1>5
<1>7. [i \in 1..kept |-> kept - i] \in Seq(Nat) /\ Len([i \in 1..kept |-> kept - i]) = kept
  BY <1>2
<1> QED BY <1>2, <1>6, <1>7 DEF Recent

-----------------------------------------------------------------------------
(***************************************************************************)
(* What one step may do to each group of variables.                        *)
(***************************************************************************)
LogsMove == logs' = logs \/ logs' = <<>> \/ \E n \in Nat \ {0} : AddLogs(n)

ToastMove == NoToast \/ TriggerToast \/ ToastTimer \/ Tick

BlindMove ==
    \/ blind' = blind
    \/ blind > 0 /\ blind' = blind - 1
    \/ blind < MaxBlind /\ blind' = blind + 1

ListMove ==
    UNCHANGED <<stored, got, list>> \/ Store \/ AlertsLoaded \/ SocketMessage \/ SocketMoves

AttackersMove ==
    attackers' = attackers \/ \E v \in 0..Len(stored) : attackers' \in TopAttackers(v)

ViewMove ==
    /\ tab' \in {tab} \cup Tabs
    /\ drawer' \in {drawer, None} \cup ToSet(list)
    /\ selected' \in {selected} \cup ToSet(attackers) \cup ToSet(attackers')
    /\ severity' \in {severity, "ALL"} \cup Severities
    /\ search' \in {search} \cup Texts
    /\ tenant' \in {tenant} \cup Tenants
    /\ FormTyped => FormTyped'

Moves ==
    LogsMove /\ ToastMove /\ BlindMove /\ ListMove /\ AttackersMove /\ ViewMove

\* A list of attackers is a sequence of addresses, not longer than the limit.
LEMMA AttackersTyped ==
    ASSUME DataTyped, NEW v \in 0..Len(stored), NEW top \in TopAttackers(v)
    PROVE  top \in Seq(Ips) /\ Len(top) <= Limit
<1> DEFINE S == {IpOf[stored[i]] : i \in 1..v}
<1>1. \A i \in 1..v : stored[i] \in Alerts
  BY DEF DataTyped
<1>2. S \in SUBSET Ips
  BY <1>1 DEF Ips
<1>3. IsFiniteSet(S)
  BY <1>2, IpsFinite
<1>4. PICK r \in SetToSeqs(S) : top = Cut(r)
  BY DEF TopAttackers
<1> HIDE DEF S
<1>5. r \in Seq(Ips)
  <2>1. r \in Seq(S)
    BY <1>3, <1>4, OrderOf
  <2> QED BY <1>2, <2>1, SeqMonotonic
<1> QED BY <1>4, <1>5, Sizes, FirstOfSeq DEF Cut

\* What arrives.
LEMMA ArrivalMoves ==
    ASSUME DataTyped, Arrival
    PROVE  Moves
<1> USE DEF Moves, LogsMove, ToastMove, BlindMove, ListMove, AttackersMove, ViewMove,
        FormTyped, NoToast, data, view, notices
<1>1. 1 \in Nat \ {0}
  OBVIOUS
<1>2. CASE AlertsLoaded
  <2>1. logs' = Logged(logs, 1) /\ UNCHANGED <<stored, got, attackers, view, blind, toast, timers>>
    BY <1>2 DEF AlertsLoaded, AddLogs
  <2> QED BY <1>1, <1>2, <2>1 DEF AddLogs
<1>3. CASE PanelLoaded \/ SocketDown
  BY <1>1, <1>3 DEF PanelLoaded, SocketDown
<1>4. CASE LoadFailed
  BY <1>1, <1>4 DEF LoadFailed, BlindEnds, SeeingEnds
<1>5. CASE AttackersLoaded
  <2>1. PICK v \in 0..Len(stored) : attackers' \in TopAttackers(v)
    BY <1>5 DEF AttackersLoaded
  <2>2. attackers' \in Seq(Ips)
    BY <2>1, AttackersTyped
  <2>3. attackers' # <<>> => attackers'[1] \in ToSet(attackers')
    BY <2>2 DEF ToSet
  <2>4. selected' \in {selected} \cup ToSet(attackers')
    BY <1>5, <2>3 DEF AttackersLoaded, Selection
  <2>5. BlindMove
    BY <1>5 DEF AttackersLoaded, BlindEnds, SeeingEnds
  <2>6. AddLogs(1) /\ UNCHANGED <<stored, got, list, tab, drawer, severity, search, tenant, form,
                                  toast, timers>>
    BY <1>5 DEF AttackersLoaded
  <2> QED BY <1>1, <2>1, <2>4, <2>5, <2>6
<1>6. CASE AttackersRefused
  BY <1>6 DEF AttackersRefused, BlindEnds
<1>7. CASE AttackersRefetched
  BY <1>7 DEF AttackersRefetched
<1>8. CASE SocketOpened
  BY <1>1, <1>8 DEF SocketOpened
<1>9. CASE SocketMessage
  <2>0. PICK n \in (got + 1)..MaxAlerts : \E new \in InOrder(New(n)) :
            \E runs \in {1, 2} : AddLogs(1 + runs * Len(new))
    BY <1>9 DEF SocketMessage
  <2>1. PICK new \in InOrder(New(n)) : \E runs \in {1, 2} : AddLogs(1 + runs * Len(new))
    BY <2>0
  <2>2. New(n) \in SUBSET Alerts
    BY Sizes DEF New, Alerts, DataTyped
  <2>3. Len(new) \in Nat
    BY <2>1, <2>2, AlertsFinite, OrderOf DEF InOrder
  <2>4. \E made \in Nat \ {0} : AddLogs(made)
    <3>1. CASE AddLogs(1 + 1 * Len(new))
      <4>1. 1 + 1 * Len(new) \in Nat \ {0}
        BY <2>3
      <4> QED BY <3>1, <4>1
    <3>2. CASE AddLogs(1 + 2 * Len(new))
      <4>1. 1 + 2 * Len(new) \in Nat \ {0}
        BY <2>3
      <4> QED BY <3>2, <4>1
    <3> QED BY <2>1, <3>1, <3>2
  <2>5. UNCHANGED <<stored, attackers, view, blind, toast, timers>>
    BY <1>9 DEF SocketMessage
  <2> QED BY <1>9, <2>4, <2>5
<1>10. CASE SocketMoves
  BY <1>10 DEF SocketMoves
<1> QED
  BY <1>2, <1>3, <1>4, <1>5, <1>6, <1>7, <1>8, <1>9, <1>10 DEF Arrival

\* What the user does.
LEMMA UserMoves ==
    ASSUME DataTyped, User
    PROVE  Moves
<1> USE DEF Moves, LogsMove, ToastMove, BlindMove, ListMove, AttackersMove, ViewMove,
        NoToast, data, view, notices
<1>1. 1 \in Nat \ {0} /\ 4 \in Nat \ {0}
  OBVIOUS
<1>2. form' = form => (FormTyped => FormTyped')
  BY DEF FormTyped
<1>3. CASE Refresh
  BY <1>1, <1>2, <1>3 DEF Refresh, Begin
<1>4. CASE CloseDrawer \/ \E t \in Tabs : ChooseTab(t)
  BY <1>2, <1>4 DEF CloseDrawer, ChooseTab
<1>5. CASE RemediateAlert \/ BlockAttacker
  BY <1>1, <1>2, <1>5 DEF RemediateAlert, BlockAttacker, HandleRemediate
<1>6. ASSUME NEW a \in Alerts, OpenFromFeed(a) \/ OpenFromTable(a) PROVE Moves
  <2>1. ToSet(Feed) \subseteq ToSet(list)
    BY Sizes, FirstOfSeq DEF Feed, DataTyped
  <2>2. FilteredAlerts \subseteq ToSet(list)
    BY DEF FilteredAlerts
  <2>3. a \in ToSet(list) /\ OpenDrawer(a)
    BY <1>6, <2>1, <2>2 DEF OpenFromFeed, OpenFromTable
  <2> QED BY <1>2, <2>3 DEF OpenDrawer
<1>7. ASSUME NEW ip \in Ips, SelectFromLeaderboard(ip) \/ SelectFromSources(ip) PROVE Moves
  <2>1. ToSet(Leaderboard) \subseteq ToSet(attackers)
    BY Sizes, FirstOfSeq DEF Leaderboard, DataTyped
  <2>2. ip \in ToSet(attackers) /\ SelectAttacker(ip)
    BY <1>7, <2>1 DEF SelectFromLeaderboard, SelectFromSources
  <2> QED BY <1>2, <2>2 DEF SelectAttacker, Tabs
<1>8. CASE FilterSeverity \/ SearchFor \/ ResetFilters
  BY <1>2, <1>8, FirstAssumption DEF FilterSeverity, SearchFor, ResetFilters, SetFilter
<1>9. CASE ClearConsole
  BY <1>2, <1>9 DEF ClearConsole
<1>10. CASE CopyKey \/ SaveForm
  BY <1>1, <1>2, <1>10 DEF CopyKey, SaveForm
<1>11. CASE EditThreshold \/ EditWebhook \/ EditRetention
  <2>1. ASSUME NEW n \in Thresholds, EditForm([form EXCEPT !.threshold = n]) PROVE Moves
    BY <2>1 DEF EditForm, FormTyped
  <2>2. ASSUME NEW url \in Webhooks, EditForm([form EXCEPT !.webhook = url]) PROVE Moves
    BY <2>2 DEF EditForm, FormTyped
  <2>3. ASSUME NEW n \in Retentions, EditForm([form EXCEPT !.retention = n]) PROVE Moves
    BY <2>3 DEF EditForm, FormTyped
  <2> QED BY <1>11, <2>1, <2>2, <2>3 DEF EditThreshold, EditWebhook, EditRetention
<1>12. ASSUME NEW t \in Tenants, SwitchTenant(t) PROVE Moves
  <2>1. BlindMove
    BY <1>12 DEF SwitchTenant, Begin
  <2>2. LogsMove
    BY <1>1, <1>12 DEF SwitchTenant
  <2> QED BY <1>2, <1>12, <2>1, <2>2 DEF SwitchTenant
<1> QED
  BY <1>3, <1>4, <1>5, <1>6, <1>7, <1>8, <1>9, <1>10, <1>11, <1>12 DEF User

LEMMA StepMoves ==
    ASSUME DataTyped, [Next]_vars
    PROVE  Moves
<1> USE DEF Moves, LogsMove, ToastMove, BlindMove, ListMove, AttackersMove, ViewMove,
        FormTyped, NoToast, data, view, notices
<1>1. CASE Store
  BY <1>1 DEF Store
<1>2. CASE ToastTimer
  BY <1>2 DEF ToastTimer
<1>3. CASE Tick
  BY <1>3 DEF Tick
<1>4. CASE UNCHANGED vars
  BY <1>4 DEF vars
<1> QED BY <1>1, <1>2, <1>3, <1>4, ArrivalMoves, UserMoves DEF Next

-----------------------------------------------------------------------------
(***************************************************************************)
(* Each group keeps its part of the invariant.                             *)
(***************************************************************************)
LEMMA LogsStep ==
    ASSUME LogsTyped, ConsoleIsRecent, LogsMove
    PROVE  LogsTyped' /\ ConsoleIsRecent'
<1>1. LogsTyped' /\ ConsoleIsRecent' <=> logs' \in Seq(Nat) /\ Recent(logs')
  BY DEF LogsTyped, ConsoleIsRecent, Recent
<1>2. logs \in Seq(Nat) /\ Recent(logs)
  BY DEF LogsTyped, ConsoleIsRecent, Recent
<1>3. CASE logs' = logs
  BY <1>1, <1>2, <1>3
<1>4. CASE logs' = <<>>
  BY <1>1, <1>4, Sizes DEF Recent
<1>5. ASSUME NEW n \in Nat \ {0}, AddLogs(n) PROVE logs' \in Seq(Nat) /\ Recent(logs')
  BY <1>2, <1>5, LoggedRecent DEF AddLogs
<1> QED BY <1>1, <1>3, <1>4, <1>5 DEF LogsMove

\* Of the timers pending, the one of the toast that is shown fires in time.
LEMMA ToastStep ==
    ASSUME ToastTyped, ToastEnds, ToastMove
    PROVE  ToastTyped' /\ ToastEnds'
<1> USE DEF ToastTyped, ToastEnds
<1>1. ToastTime \in Nat /\ None \notin Nat
  BY Sizes, NoneAssumption
<1>2. CASE NoToast
  BY <1>2 DEF NoToast
<1>3. CASE TriggerToast
  <2>1. toast' = 0 /\ timers' = timers \cup {ToastTime}
    BY <1>3 DEF TriggerToast
  <2>2. ToastTime \in timers' /\ toast' + ToastTime <= ToastTime
    BY <1>1, <2>1
  <2>3. timers' \subseteq 0..ToastTime
    BY <1>1, <2>1
  <2> QED BY <2>1, <2>2, <2>3
<1>4. CASE ToastTimer
  BY <1>4 DEF ToastTimer
<1>5. CASE Tick
  <2>1. timers' = {t - 1 : t \in timers} /\ 0 \notin timers
        /\ toast' = IF toast = None THEN None ELSE toast + 1
    BY <1>5 DEF Tick
  <2>2. \A t \in timers : t - 1 \in 0..ToastTime
    BY <1>1, <2>1
  <2>3. timers' \subseteq 0..ToastTime
    BY <2>1, <2>2
  <2>4. CASE toast = None
    BY <2>1, <2>3, <2>4
  <2>5. CASE toast # None
    <3>1. PICK t \in timers : toast + t <= ToastTime
      BY <2>5
    <3>2. toast \in Nat /\ t \in Nat /\ toast' = toast + 1
      BY <1>1, <2>1, <2>5
    <3>3. t - 1 \in timers' /\ toast' + (t - 1) <= ToastTime /\ toast' \in Nat
      BY <1>1, <2>1, <3>1, <3>2
    <3> QED BY <2>3, <3>3
  <2> QED BY <2>4, <2>5
<1> QED BY <1>2, <1>3, <1>4, <1>5 DEF ToastMove

LEMMA BlindStep ==
    ASSUME BlindTyped, BlindMove
    PROVE  BlindTyped'
  BY Sizes DEF BlindTyped, BlindMove

-----------------------------------------------------------------------------
(***************************************************************************)
(* The list.                                                               *)
(***************************************************************************)
\* Since an alert is stored once, one of two is stored before the other.
LEMMA BeforeIsStrict ==
    ASSUME DataTyped, StoredOnce, NEW a, NEW b, StoredBefore(a, b)
    PROVE  ~StoredBefore(b, a) /\ a \in ToSet(stored) /\ b \in ToSet(stored)
<1>1. PICK i \in DOMAIN stored, j \in DOMAIN stored : i < j /\ stored[i] = a /\ stored[j] = b
  BY DEF StoredBefore
<1>2. DOMAIN stored = 1..Len(stored) /\ Len(stored) \in Nat
  BY SeqHolds DEF DataTyped
<1>3. ASSUME NEW m \in DOMAIN stored, NEW n \in DOMAIN stored,
             m < n, stored[m] = b, stored[n] = a
      PROVE  FALSE
  <2>1. m = j /\ n = i
    BY <1>1, <1>3 DEF StoredOnce
  <2> QED BY <1>1, <1>2, <1>3, <2>1
<1> QED BY <1>1, <1>3 DEF StoredBefore, ToSet

\* The rows that a load of tenant t brings when v alerts are stored.
Rows(v, t) == {a \in ToSet(FirstOf(stored, v)) : OwnerOf[a] = t}

\* What is stored before a row that is loaded, and is of its tenant, is loaded with it.
LEMMA RowsHold ==
    ASSUME DataTyped, StoredOnce, NEW v \in 0..Len(stored), NEW t
    PROVE  /\ Rows(v, t) \subseteq ToSet(stored) /\ IsFiniteSet(Rows(v, t))
           /\ \A b \in Rows(v, t) : \A a : OwnerOf[a] = OwnerOf[b] /\ StoredBefore(a, b) =>
                  a \in Rows(v, t)
<1>1. /\ stored \in Seq(Alerts) /\ DOMAIN stored = 1..Len(stored) /\ Len(stored) \in Nat
      /\ ToSet(stored) \subseteq Alerts
  BY SeqHolds DEF DataTyped
<1> DEFINE s == FirstOf(stored, v)
<1>2. /\ s \in Seq(Alerts) /\ Len(s) = v /\ \A i \in 1..v : s[i] = stored[i]
      /\ ToSet(s) \subseteq ToSet(stored)
  <2>1. v \in Nat /\ v <= Len(stored)
    BY <1>1
  <2>2. /\ s \in Seq(Alerts) /\ (v <= Len(stored) => Len(s) = v)
        /\ \A i \in 1..Len(s) : s[i] = stored[i]
        /\ ToSet(s) \subseteq ToSet(stored)
    BY <1>1, <2>1, FirstOfSeq
  <2> QED BY <2>1, <2>2
<1>3. DOMAIN s = 1..v
  BY <1>2, SeqHolds
<1> HIDE DEF s
<1>4. ASSUME NEW b \in Rows(v, t), NEW a, OwnerOf[a] = OwnerOf[b], StoredBefore(a, b)
      PROVE  a \in Rows(v, t)
  <2>1. PICK i \in DOMAIN stored, j \in DOMAIN stored : i < j /\ stored[i] = a /\ stored[j] = b
    BY <1>4 DEF StoredBefore
  <2>2. PICK k \in 1..v : stored[k] = b
    BY <1>2, <1>3 DEF Rows, ToSet, s
  <2>3. k = j
    BY <1>1, <2>1, <2>2 DEF StoredOnce
  <2>4. i \in 1..v
    BY <1>1, <2>1, <2>3
  <2>5. a \in ToSet(s)
    BY <1>2, <1>3, <2>1, <2>4 DEF ToSet
  <2> QED BY <1>4, <2>5 DEF Rows, s
<1>5. Rows(v, t) \subseteq ToSet(stored)
  BY <1>2 DEF Rows, s
<1>6. Rows(v, t) \in SUBSET Alerts
  BY <1>1, <1>5
<1> QED BY <1>4, <1>5, <1>6, AlertsFinite

\* A load lists these rows, and none above one stored after it.
LEMMA LoadedList ==
    ASSUME DataTyped, StoredOnce, AlertsLoaded
    PROVE  \E v \in 0..Len(stored) : \E t \in Known :
               /\ list' \in Seq(ToSet(stored)) /\ ToSet(list') = Rows(v, t)
               /\ \A i, j \in DOMAIN list' : i < j => StoredBefore(list'[j], list'[i])
<1>1. PICK v \in 0..Len(stored) : \E t \in Known : list' \in NewestFirst(Rows(v, t))
  BY DEF AlertsLoaded, Rows
<1>2. PICK t \in Known : list' \in NewestFirst(Rows(v, t))
  BY <1>1
<1>3. list' \in SetToSeqs(Rows(v, t))
  BY <1>2 DEF NewestFirst
<1>4. IsFiniteSet(Rows(v, t)) /\ Rows(v, t) \subseteq ToSet(stored)
  BY RowsHold
<1>5. list' \in Seq(Rows(v, t)) /\ ToSet(list') = Rows(v, t)
  BY <1>3, <1>4, OrderOf
<1>6. list' \in Seq(ToSet(stored))
  BY <1>4, <1>5, SeqMonotonic
<1> QED BY <1>2, <1>5, <1>6 DEF NewestFirst

\* A message puts new alerts of the tenant, in their order, above the list.
LEMMA MessageList ==
    ASSUME DataTyped, NEW n \in (got + 1)..MaxAlerts, NEW new \in InOrder(New(n)),
           (got + 1)..n \subseteq ToSet(stored)
    PROVE  /\ new \in Seq(ToSet(stored)) /\ ToSet(new) = New(n)
           /\ New(n) \subseteq ToSet(stored)
           /\ Prepended(new) \in Seq(ToSet(stored))
           /\ ToSet(Prepended(new)) = New(n) \cup ToSet(list)
           /\ Len(new) \in Nat /\ Len(list) \in Nat
           /\ DOMAIN Prepended(new) = 1..(Len(new) + Len(list))
           /\ \A i \in 1..Len(new) : Prepended(new)[i] = new[i] /\ new[i] \in New(n)
           /\ \A i \in (Len(new) + 1)..(Len(new) + Len(list)) :
                  Prepended(new)[i] = list[i - Len(new)] /\ i - Len(new) \in DOMAIN list
<1>1. New(n) \subseteq ToSet(stored)
  BY DEF New
<1>2. ToSet(stored) \subseteq Alerts
  BY SeqHolds DEF DataTyped
<1>3. IsFiniteSet(New(n))
  BY <1>1, <1>2, AlertsFinite
<1>4. new \in SetToSeqs(New(n))
  BY DEF InOrder
<1>5. new \in Seq(New(n)) /\ ToSet(new) = New(n) /\ Len(new) \in Nat /\ DOMAIN new = 1..Len(new)
  BY <1>3, <1>4, OrderOf
<1>6. new \in Seq(ToSet(stored))
  BY <1>1, <1>5, SeqMonotonic
<1>7. list \in Seq(ToSet(stored)) /\ Len(list) \in Nat /\ DOMAIN list = 1..Len(list)
  BY SeqHolds DEF DataTyped
<1>8. /\ new \o list \in Seq(ToSet(stored)) /\ Len(new \o list) = Len(new) + Len(list)
      /\ \A i \in 1..(Len(new) + Len(list)) :
             (new \o list)[i] = IF i <= Len(new) THEN new[i] ELSE list[i - Len(new)]
  BY <1>6, <1>7, ConcatProperties
<1> DEFINE p == new \o list
<1>9. DOMAIN p = 1..(Len(new) + Len(list))
  BY <1>8, SeqHolds
<1>10. \A i \in 1..Len(new) : p[i] = new[i] /\ new[i] \in New(n)
  BY <1>5, <1>7, <1>8 DEF ToSet
<1>11. \A i \in (Len(new) + 1)..(Len(new) + Len(list)) :
           p[i] = list[i - Len(new)] /\ i - Len(new) \in DOMAIN list
  BY <1>5, <1>7, <1>8
<1> HIDE DEF p
<1>12. ToSet(p) \subseteq New(n) \cup ToSet(list)
  <2> SUFFICES ASSUME NEW i \in 1..(Len(new) + Len(list)) PROVE p[i] \in New(n) \cup ToSet(list)
    BY <1>9 DEF ToSet
  <2>1. CASE i <= Len(new)
    BY <1>5, <1>10, <2>1
  <2>2. CASE i > Len(new)
    <3>1. i \in (Len(new) + 1)..(Len(new) + Len(list))
      BY <1>5, <1>7, <2>2
    <3>2. p[i] = list[i - Len(new)] /\ i - Len(new) \in DOMAIN list
      BY <1>11, <3>1
    <3> QED BY <3>2 DEF ToSet
  <2> QED BY <1>5, <1>7, <2>1, <2>2
<1>13. New(n) \subseteq ToSet(p)
  <2> SUFFICES ASSUME NEW i \in 1..Len(new) PROVE new[i] \in ToSet(p)
    BY <1>5 DEF ToSet
  <2> QED BY <1>5, <1>7, <1>9, <1>10 DEF ToSet
<1>14. ToSet(list) \subseteq ToSet(p)
  <2> SUFFICES ASSUME NEW i \in 1..Len(list) PROVE list[i] \in ToSet(p)
    BY <1>7 DEF ToSet
  <2>1. /\ Len(new) + i \in (Len(new) + 1)..(Len(new) + Len(list))
        /\ Len(new) + i \in 1..(Len(new) + Len(list)) /\ (Len(new) + i) - Len(new) = i
    BY <1>5, <1>7
  <2>2. p[Len(new) + i] = list[i]
    BY <1>11, <2>1
  <2> QED BY <1>9, <2>1, <2>2 DEF ToSet
<1> QED
  BY <1>1, <1>5, <1>6, <1>7, <1>8, <1>9, <1>10, <1>11, <1>12, <1>13, <1>14 DEF Prepended, p

\* Storing an alert adds it after all others.
LEMMA StoredStep ==
    ASSUME DataTyped, StoredOnce, NEW a \in Alerts \ ToSet(stored), stored' = Append(stored, a)
    PROVE  /\ stored' \in Seq(Alerts) /\ StoredOnce' /\ ToSet(stored) \subseteq ToSet(stored')
           /\ \A x, y : StoredBefore(x, y)' => StoredBefore(x, y) \/ y = a
<1> DEFINE n == Len(stored)
<1>1. /\ stored \in Seq(Alerts) /\ DOMAIN stored = 1..n /\ n \in Nat
      /\ \A i \in 1..n : stored[i] \in ToSet(stored)
  BY SeqHolds DEF DataTyped
<1>2. /\ stored' \in Seq(Alerts) /\ Len(stored') = n + 1
      /\ \A i \in 1..n : stored'[i] = stored[i]
      /\ stored'[n + 1] = a
  BY <1>1, AppendProperties
<1>3. DOMAIN stored' = 1..(n + 1)
  BY <1>2, SeqHolds
<1> HIDE DEF n
<1>4. \A i \in 1..(n + 1) : i \in 1..n \/ i = n + 1
  BY <1>1
<1>5. \A i, j \in 1..(n + 1) : stored'[i] = stored'[j] => i = j
  BY <1>1, <1>2, <1>4 DEF StoredOnce
<1>6. ASSUME NEW x, NEW y, StoredBefore(x, y)', y # a PROVE StoredBefore(x, y)
  <2>1. PICK i \in 1..(n + 1), j \in 1..(n + 1) : i < j /\ stored'[i] = x /\ stored'[j] = y
    BY <1>3, <1>6 DEF StoredBefore
  <2>2. j \in 1..n /\ i \in 1..n
    BY <1>1, <1>2, <1>4, <1>6, <2>1
  <2> QED BY <1>1, <1>2, <2>1, <2>2 DEF StoredBefore
<1>7. ToSet(stored) \subseteq ToSet(stored')
  <2> SUFFICES ASSUME NEW i \in 1..n PROVE stored[i] \in ToSet(stored')
    BY <1>1 DEF ToSet
  <2>1. i \in 1..(n + 1) /\ stored'[i] = stored[i]
    BY <1>1, <1>2
  <2> QED BY <1>3, <2>1 DEF ToSet
<1> QED BY <1>2, <1>3, <1>5, <1>6, <1>7 DEF StoredOnce

LEMMA ListStep ==
    ASSUME DataTyped, StoredOnce, Complete, ListMove
    PROVE  /\ stored' \in Seq(Alerts) /\ got' \in 0..MaxAlerts /\ 1..got' \subseteq ToSet(stored')
           /\ list' \in Seq(ToSet(stored')) /\ ToSet(stored) \subseteq ToSet(stored')
           /\ StoredOnce' /\ Complete'
<1> USE DEF DataTyped
<1>1. MaxAlerts \in Nat /\ got \in 0..MaxAlerts
  BY Sizes
<1>2. ToSet(stored) \subseteq Alerts /\ ToSet(list) \subseteq ToSet(stored)
  BY SeqHolds
<1>3. CASE UNCHANGED <<stored, got, list>>
  <2>1. StoredOnce'
    BY <1>3 DEF StoredOnce
  <2>2. \A x, y : StoredBefore(x, y)' <=> StoredBefore(x, y)
    BY <1>3 DEF StoredBefore
  <2> QED BY <1>3, <2>1, <2>2 DEF Complete
<1>4. CASE Store
  <2>1. PICK a \in Alerts \ ToSet(stored) : stored' = Append(stored, a)
    BY <1>4 DEF Store
  <2>2. got' = got /\ list' = list
    BY <1>4 DEF Store
  <2>3. /\ stored' \in Seq(Alerts) /\ StoredOnce' /\ ToSet(stored) \subseteq ToSet(stored')
        /\ \A x, y : StoredBefore(x, y)' => StoredBefore(x, y) \/ y = a
    BY <2>1, StoredStep
  <2>4. list' \in Seq(ToSet(stored'))
    BY <2>2, <2>3, SeqMonotonic
  <2>5. a \notin ToSet(list')
    BY <1>2, <2>1, <2>2
  <2>6. Complete'
    BY <2>2, <2>3, <2>5 DEF Complete
  <2> QED BY <2>2, <2>3, <2>4, <2>6
<1>5. CASE AlertsLoaded
  <2>1. stored' = stored /\ got' = got
    BY <1>5 DEF AlertsLoaded
  <2>2. PICK v \in 0..Len(stored) : \E t \in Known :
            list' \in Seq(ToSet(stored)) /\ ToSet(list') = Rows(v, t)
    BY <1>5, LoadedList
  <2>3. PICK t \in Known : list' \in Seq(ToSet(stored)) /\ ToSet(list') = Rows(v, t)
    BY <2>2
  <2>4. \A b \in Rows(v, t) : \A a : OwnerOf[a] = OwnerOf[b] /\ StoredBefore(a, b) =>
            a \in Rows(v, t)
    BY RowsHold
  <2>5. \A x, y : StoredBefore(x, y)' <=> StoredBefore(x, y)
    BY <2>1 DEF StoredBefore
  <2>6. Complete'
    BY <2>3, <2>4, <2>5 DEF Complete
  <2>7. StoredOnce'
    BY <2>1 DEF StoredOnce
  <2> QED BY <2>1, <2>3, <2>6, <2>7
<1>6. CASE SocketMessage
  <2>1. stored' = stored
    BY <1>6 DEF SocketMessage
  <2>2. PICK n \in (got + 1)..MaxAlerts : \E new \in InOrder(New(n)) :
            (got + 1)..n \subseteq ToSet(stored) /\ list' = Prepended(new) /\ got' = n
    BY <1>6 DEF SocketMessage
  <2>3. PICK new \in InOrder(New(n)) :
            (got + 1)..n \subseteq ToSet(stored) /\ list' = Prepended(new) /\ got' = n
    BY <2>2
  <2>4. list' \in Seq(ToSet(stored)) /\ ToSet(list') = New(n) \cup ToSet(list)
    BY <2>3, MessageList
  <2>5. got' \in 0..MaxAlerts /\ got <= got' /\ 1..got' \subseteq ToSet(stored)
    BY <1>1, <2>3
  <2>6. \A x, y : StoredBefore(x, y)' <=> StoredBefore(x, y)
    BY <2>1 DEF StoredBefore
  <2>7. \A b \in New(n) : b <= got'
    BY <1>1, <2>3 DEF New
  <2>8. Complete'
    <3> SUFFICES ASSUME NEW a \in Alerts, NEW b \in Alerts, OwnerOf[a] = OwnerOf[b],
                        StoredBefore(a, b)', b \in ToSet(list')
                 PROVE  a \in ToSet(list') \/ b <= got'
      BY DEF Complete
    <3>1. CASE b \in New(n)
      BY <2>7, <3>1
    <3>2. CASE b \in ToSet(list)
      <4>1. a \in ToSet(list) \/ b <= got
        BY <2>6, <3>2 DEF Complete
      <4>2. b \in Nat
        BY Sizes DEF Alerts
      <4> QED BY <1>1, <2>4, <2>5, <4>1, <4>2
    <3> QED BY <2>4, <3>1, <3>2
  <2>9. StoredOnce'
    BY <2>1 DEF StoredOnce
  <2> QED BY <2>1, <2>4, <2>5, <2>8, <2>9
<1>7. CASE SocketMoves
  <2>1. stored' = stored /\ list' = list
    BY <1>7 DEF SocketMoves
  <2>2. got' \in 0..MaxAlerts /\ got <= got' /\ 1..got' \subseteq ToSet(stored)
    BY <1>1, <1>7 DEF SocketMoves
  <2>3. \A x, y : StoredBefore(x, y)' <=> StoredBefore(x, y)
    BY <2>1 DEF StoredBefore
  <2>4. \A b \in Alerts : b <= got => b <= got'
    BY <1>1, <2>2 DEF Alerts
  <2>5. Complete'
    BY <2>1, <2>3, <2>4 DEF Complete
  <2>6. StoredOnce'
    BY <2>1 DEF StoredOnce
  <2> QED BY <2>1, <2>2, <2>5, <2>6
<1> QED BY <1>3, <1>4, <1>5, <1>6, <1>7 DEF ListMove

LEMMA AttackersStep ==
    ASSUME DataTyped, AttackersMove
    PROVE  attackers' \in Seq(Ips) /\ Len(attackers') <= Limit
<1>1. ASSUME NEW v \in 0..Len(stored), attackers' \in TopAttackers(v)
      PROVE  attackers' \in Seq(Ips) /\ Len(attackers') <= Limit
  BY <1>1, AttackersTyped
<1> QED BY <1>1 DEF AttackersMove, DataTyped

\* What the user sees are alerts that are stored and addresses that were listed.
LEMMA ViewStep ==
    ASSUME DataTyped, ViewTyped, ViewMove, attackers' \in Seq(Ips),
           ToSet(stored) \subseteq ToSet(stored')
    PROVE  ViewTyped'
<1>1. ToSet(attackers) \subseteq Ips /\ ToSet(attackers') \subseteq Ips /\ ToSet(list) \subseteq ToSet(stored)
  BY SeqHolds DEF DataTyped
<1>2. tab' \in Tabs /\ severity' \in Severities \cup {"ALL"} /\ search' \in Texts
      /\ tenant' \in Tenants /\ FormTyped'
  BY DEF ViewMove, ViewTyped
<1>3. drawer' \in ToSet(stored') \cup {None}
  BY <1>1 DEF ViewMove, ViewTyped
<1>4. selected' \in Ips \cup {None}
  BY <1>1 DEF ViewMove, ViewTyped
<1> QED BY <1>2, <1>3, <1>4 DEF ViewTyped

-----------------------------------------------------------------------------
(***************************************************************************)
(* The invariant.                                                          *)
(***************************************************************************)
LEMMA InitIInv == Init => IInv
<1> SUFFICES ASSUME Init PROVE IInv
  OBVIOUS
<1>1. stored = <<>> /\ got = 0 /\ list = <<>> /\ attackers = <<>>
  BY DEF Init
<1>2. ToSet(stored) = {} /\ DOMAIN stored = {}
  BY <1>1 DEF ToSet
<1>3. DataTyped
  BY <1>1, Sizes DEF DataTyped
<1>4. ViewTyped
  BY FirstAssumption DEF Init, ViewTyped, FormTyped, Tabs
<1>5. PICK runs \in {1, 2} : blind = runs /\ runs <= MaxBlind /\ logs = Logged(<<>>, 3 * runs)
  BY DEF Init
<1>6. BlindTyped
  BY <1>5, Sizes DEF BlindTyped
<1>7. LogsTyped /\ ConsoleIsRecent
  <2>1. <<>> \in Seq(Nat) /\ Recent(<<>>) /\ 3 * runs \in Nat \ {0}
    BY Sizes DEF Recent
  <2>2. logs \in Seq(Nat) /\ Recent(logs)
    BY <1>5, <2>1, LoggedRecent
  <2> QED BY <2>2 DEF LogsTyped, ConsoleIsRecent, Recent
<1>8. ToastTyped /\ ToastEnds
  BY DEF Init, ToastTyped, ToastEnds
<1>9. StoredOnce /\ Complete
  BY <1>2 DEF StoredOnce, Complete, StoredBefore
<1> QED BY <1>3, <1>4, <1>6, <1>7, <1>8, <1>9 DEF IInv

LEMMA StepIInv ==
    ASSUME IInv, [Next]_vars PROVE IInv'
<1>1. Moves
  BY StepMoves DEF IInv
<1>2. /\ stored' \in Seq(Alerts) /\ got' \in 0..MaxAlerts /\ 1..got' \subseteq ToSet(stored')
      /\ list' \in Seq(ToSet(stored')) /\ ToSet(stored) \subseteq ToSet(stored')
      /\ StoredOnce' /\ Complete'
  BY <1>1, ListStep DEF IInv, Moves
<1>3. attackers' \in Seq(Ips) /\ Len(attackers') <= Limit
  BY <1>1, AttackersStep DEF IInv, Moves
<1>4. DataTyped'
  BY <1>2, <1>3 DEF DataTyped
<1>5. ViewTyped'
  BY <1>1, <1>2, <1>3, ViewStep DEF IInv, Moves
<1>6. BlindTyped'
  BY <1>1, BlindStep DEF IInv, Moves
<1>7. ToastTyped' /\ ToastEnds'
  BY <1>1, ToastStep DEF IInv, Moves
<1>8. LogsTyped' /\ ConsoleIsRecent'
  BY <1>1, LogsStep DEF IInv, Moves
<1> QED BY <1>2, <1>4, <1>5, <1>6, <1>7, <1>8 DEF IInv

LEMMA Invariance == Spec => []IInv
<1>1. IInv /\ [Next]_vars => IInv'
  BY StepIInv
<1> QED BY <1>1, InitIInv, PTL DEF Spec

-----------------------------------------------------------------------------
(***************************************************************************)
(* What a step may never do.                                               *)
(***************************************************************************)
NewOlderAbove ==
    \A p \in OlderAbove(list') \ OlderAbove(list) :
        /\ p[1] \in (got + 1)..got' /\ p[2] \in (got + 1)..got'
        /\ {p[1], p[2]} \cap ToSet(list) = {}

\* The rows of list' are in no pair but those that OlderAbove allows: a load orders them
\* by the table, and a message puts above an alert only one that is new, and that Complete
\* makes later than what was listed.
LEMMA OlderStep ==
    ASSUME IInv, ListMove
    PROVE  NewOlderAbove
<1> USE DEF IInv
<1>1. CASE list' = list
  BY <1>1 DEF NewOlderAbove
<1>2. CASE AlertsLoaded
  <2> SUFFICES ASSUME NEW p \in OlderAbove(list') PROVE FALSE
    BY DEF NewOlderAbove
  <2>1. PICK v \in 0..Len(stored) : \E t \in Known :
            \A i, j \in DOMAIN list' : i < j => StoredBefore(list'[j], list'[i])
    BY <1>2, LoadedList
  <2>2. PICK i \in DOMAIN list', j \in DOMAIN list' : i < j /\ list'[i] = p[1] /\ list'[j] = p[2]
    BY DEF OlderAbove
  <2>3. StoredBefore(p[2], p[1]) /\ StoredBefore(p[1], p[2])
    BY <2>1, <2>2 DEF OlderAbove
  <2> QED BY <2>3, BeforeIsStrict
<1>3. CASE SocketMessage
  <2>1. PICK n \in (got + 1)..MaxAlerts : \E new \in InOrder(New(n)) :
            (got + 1)..n \subseteq ToSet(stored) /\ list' = Prepended(new) /\ got' = n
    BY <1>3 DEF SocketMessage
  <2>2. PICK new \in InOrder(New(n)) :
            (got + 1)..n \subseteq ToSet(stored) /\ list' = Prepended(new) /\ got' = n
    BY <2>1
  <2> DEFINE k == Len(new)
  <2>3. /\ k \in Nat /\ Len(list) \in Nat /\ DOMAIN list' = 1..(k + Len(list))
        /\ \A i \in 1..k : list'[i] \in New(n)
        /\ \A i \in (k + 1)..(k + Len(list)) :
               list'[i] = list[i - k] /\ i - k \in DOMAIN list
    BY <2>2, MessageList
  <2>4. DOMAIN list = 1..Len(list)
    BY SeqHolds DEF DataTyped
  <2> HIDE DEF k
  <2>5. New(n) \cap ToSet(list) = {} /\ New(n) \subseteq (got + 1)..got'
    BY <2>2 DEF New
  <2> SUFFICES ASSUME NEW p \in OlderAbove(list'), p \notin OlderAbove(list)
               PROVE  p[1] \in New(n) /\ p[2] \in New(n)
    BY <2>5 DEF NewOlderAbove
  <2>6. PICK i \in 1..(k + Len(list)), j \in 1..(k + Len(list)) :
            i < j /\ list'[i] = p[1] /\ list'[j] = p[2]
    BY <2>3 DEF OlderAbove
  <2>7. /\ p \in Alerts \X Alerts /\ p[1] < p[2] /\ OwnerOf[p[1]] = OwnerOf[p[2]]
        /\ StoredBefore(p[1], p[2])
    BY DEF OlderAbove
  <2>8. CASE j <= k
    <3>1. i \in 1..k /\ j \in 1..k
      BY <2>3, <2>6, <2>8
    <3> QED BY <2>3, <2>6, <3>1
  <2>9. CASE i > k
    <3>1. i \in (k + 1)..(k + Len(list)) /\ j \in (k + 1)..(k + Len(list))
      BY <2>3, <2>6, <2>9
    <3>2. /\ i - k \in DOMAIN list /\ j - k \in DOMAIN list /\ i - k < j - k
          /\ list[i - k] = p[1] /\ list[j - k] = p[2]
      BY <2>3, <2>6, <3>1
    <3>3. p \in OlderAbove(list)
      BY <2>7, <3>2 DEF OlderAbove
    <3> QED BY <3>3
  <2>10. CASE i <= k /\ j > k
    <3>1. i \in 1..k /\ j \in (k + 1)..(k + Len(list))
      BY <2>3, <2>6, <2>10
    <3>2. p[1] \in New(n) /\ p[2] \in ToSet(list)
      BY <2>3, <2>6, <3>1 DEF ToSet
    <3>3. p[1] \notin ToSet(list) /\ p[1] > got
      BY <2>5, <3>2 DEF New, DataTyped
    <3>4. p[2] <= got
      BY <2>7, <3>2, <3>3 DEF Complete
    <3> QED BY <2>7, <3>3, <3>4, Sizes DEF Alerts, DataTyped
  <2> QED BY <2>3, <2>6, <2>8, <2>9, <2>10
<1>4. CASE Store
  BY <1>1, <1>4 DEF Store
<1>5. CASE SocketMoves
  BY <1>1, <1>5 DEF SocketMoves
<1> QED BY <1>1, <1>2, <1>3, <1>4, <1>5 DEF ListMove

\* Only fetchData and the lists of addresses set the selection.
SelectionStays ==
    selected # None /\ selected' # selected =>
        \/ blind' < blind
        \/ \E ip \in Ips : SelectFromLeaderboard(ip) \/ SelectFromSources(ip)

LEMMA SelectionStep ==
    ASSUME IInv, [Next]_vars
    PROVE  SelectionStays
<1> USE DEF SelectionStays, data, view
<1>1. blind \in Nat
  BY Sizes DEF IInv, BlindTyped
<1>2. CASE AttackersLoaded
  <2>1. CASE BlindEnds
    BY <1>1, <2>1 DEF BlindEnds
  <2>2. CASE selected' = Selection(TRUE, attackers')
    BY <2>2 DEF Selection
  <2> QED BY <1>2, <2>1, <2>2 DEF AttackersLoaded
<1>3. CASE Arrival /\ ~AttackersLoaded
  BY <1>3 DEF Arrival, AlertsLoaded, PanelLoaded, LoadFailed, AttackersRefused,
     AttackersRefetched, SocketOpened, SocketDown, SocketMessage, SocketMoves
<1>4. CASE Store \/ ToastTimer \/ Tick
  BY <1>4 DEF Store, ToastTimer, Tick
<1>5. CASE Refresh \/ CloseDrawer \/ RemediateAlert \/ BlockAttacker \/ ClearConsole \/ CopyKey
           \/ SaveForm
  BY <1>5 DEF Refresh, CloseDrawer, RemediateAlert, BlockAttacker, HandleRemediate, ClearConsole,
     CopyKey, SaveForm
<1>6. CASE \/ \E t \in Tabs : ChooseTab(t)
           \/ \E t \in Tenants : SwitchTenant(t)
           \/ \E a \in Alerts : OpenFromFeed(a) \/ OpenFromTable(a)
  BY <1>6 DEF ChooseTab, SwitchTenant, OpenFromFeed, OpenFromTable, OpenDrawer
<1>7. CASE FilterSeverity \/ SearchFor \/ ResetFilters
  BY <1>7 DEF FilterSeverity, SearchFor, ResetFilters, SetFilter
<1>8. CASE EditThreshold \/ EditWebhook \/ EditRetention
  BY <1>8 DEF EditThreshold, EditWebhook, EditRetention, EditForm
<1>9. CASE UNCHANGED vars
  BY <1>9 DEF vars
<1> QED
  BY <1>2, <1>3, <1>4, <1>5, <1>6, <1>7, <1>8, <1>9 DEF Next, User

-----------------------------------------------------------------------------
\* Every field of the page has a value of its kind: the list holds only alerts that are
\* stored, the drawer shows one of them, the selection is an address of some alert, and
\* the leaderboard has at most as many addresses as the query has rows.
THEOREM ViewIsTyped == Spec => []TypeOK
<1>1. IInv => TypeOK
  BY DEF IInv, DataTyped, ViewTyped, FormTyped, BlindTyped, ToastTyped, LogsTyped, TypeOK
<1> QED BY <1>1, Invariance, PTL

\* No toast stays longer than its time, whatever toasts and timers overlap (triggerToast
\* never clears a timer).
THEOREM ToastsEnd == Spec => []ToastEnds
<1>1. IInv => ToastEnds
  BY DEF IInv
<1> QED BY <1>1, Invariance, PTL

\* The console shows the latest entries without a gap and in order, however many one
\* handler makes (addConsoleLog).
THEOREM ConsoleShowsTheLatest == Spec => []ConsoleIsRecent
<1>1. IInv => ConsoleIsRecent
  BY DEF IInv
<1> QED BY <1>1, Invariance, PTL

\* A load, late or not, never puts an alert above one stored after it, and a message only
\* within what it brings (fetchData and onmessage).
THEOREM RowsKeepTheirOrder == Spec => OlderAboveOnlyInBatches
<1>1. IInv /\ [Next]_vars => NewOlderAbove
  BY StepMoves, OlderStep DEF IInv, Moves
<1>2. IInv /\ [Next]_vars =>
          [\A p \in OlderAbove(list') \ OlderAbove(list) :
               /\ p[1] \in (got + 1)..got' /\ p[2] \in (got + 1)..got'
               /\ {p[1], p[2]} \cap ToSet(list) = {}]_vars
  BY <1>1 DEF NewOlderAbove
<1> QED BY <1>2, Invariance, PTL DEF Spec, OlderAboveOnlyInBatches

\* Answers and messages leave what the user selected, but for those of calls that began
\* before there was a selection (fetchData, fetchAttackers).
THEOREM SelectionKept == Spec => SelectionIsKept
<1>1. IInv /\ [Next]_vars =>
          [selected # None /\ selected' # selected =>
               \/ blind' < blind
               \/ \E ip \in Ips : SelectFromLeaderboard(ip) \/ SelectFromSources(ip)]_vars
  BY SelectionStep DEF SelectionStays
<1> QED BY <1>1, Invariance, PTL DEF Spec, SelectionIsKept
=============================================================================
