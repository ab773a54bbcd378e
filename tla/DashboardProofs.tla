--------------------------- MODULE DashboardProofs ---------------------------
(***************************************************************************)
(* What holds of Dashboard for every set of keys and calls and any number  *)
(* of alerts.  The invariants are proved together with what they rest on:  *)
(* the socket filters by the selected key, and nothing has arrived over a  *)
(* connection that is not open.                                            *)
(***************************************************************************)
EXTENDS Dashboard, TLAPS

\* SwitchTenant gives every new socket a closure with the new key.
FiltersForSelected == linkKey = apiKey

\* The hub only knows sockets that are being opened or open, and until one is open
\* for the browser, too, the browser has been handed nothing.
HubKnowsLive ==
    hub = "joined" =>
        /\ link \in {"connecting", "open"}
        /\ link = "connecting" => got = joined

IInv ==
    /\ TypeOK /\ FiltersForSelected /\ HubKnowsLive
    /\ NoRowTwice /\ ListIsOwn /\ MissedForAReason /\ ConnectedIsLive

CallStates == [stage : Stages, key : Keys \cup {NoKey}, since : SUBSET stored]

-----------------------------------------------------------------------------
\* What calls[c] can be set to is the state of a call.
LEMMA CallsTyped ==
    ASSUME TypeOK, NEW c \in Calls, NEW k \in Keys, NEW stage \in Stages
    PROVE  /\ [calls EXCEPT ![c] = Begun(k)] \in [Calls -> CallStates]
           /\ [calls EXCEPT ![c] = [Idle EXCEPT !.stage = stage]] \in [Calls -> CallStates]
           /\ [calls EXCEPT ![c] = Idle] \in [Calls -> CallStates]
<1>1. calls \in [Calls -> CallStates]
  BY DEF TypeOK, CallStates
<1>2. Begun(k) \in CallStates
  BY DEF Begun, CallStates, Stages
<1>3. Idle \in CallStates
  BY DEF Idle, CallStates, Stages
<1>4. [Idle EXCEPT !.stage = stage] \in CallStates
  BY <1>3 DEF CallStates
<1> QED BY <1>1, <1>2, <1>3, <1>4

LEMMA InitIInv == Init => IInv
<1> SUFFICES ASSUME Init PROVE IInv
  OBVIOUS
<1> USE KeysAssumption, BoundsAssumption, OwnerAssumption
<1>1. stored = {} /\ apiKey = FirstKey /\ rows = [a \in Alerts |-> 0] /\ connected = FALSE
      /\ loading = TRUE /\ link = "connecting" /\ linkKey = FirstKey
      /\ hub = "away" /\ joined = 0 /\ got = 0 /\ loaded = NotLoaded
  BY DEF Init, Mount
<1>2. calls \in [Calls -> CallStates] /\ closing \in 0..MaxClosing
  <2>1. PICK c \in Calls, d \in Calls :
            /\ calls = [e \in Calls |-> IF e \in {c, d} THEN Begun(FirstKey) ELSE Idle]
            /\ closing = IF c = d THEN 0 ELSE 1
    BY DEF Init, Mount
  <2>2. Begun(FirstKey) \in CallStates /\ Idle \in CallStates
    BY DEF Begun, Idle, CallStates, Stages
  <2>3. closing <= MaxClosing
    BY DEF Init, Mount
  <2> QED BY <2>1, <2>2, <2>3
<1>3. TypeOK
  <2>1. loaded \in [key : Keys \cup {NoKey}, asOf : SUBSET stored, heard : 0..got]
    BY <1>1 DEF NotLoaded
  <2>2. rows \in [Alerts -> Nat] /\ 1..got \subseteq stored /\ stored \subseteq Alerts
    BY <1>1
  <2>3. got \in 0..MaxAlerts /\ joined \in 0..got
    BY <1>1
  <2>4. /\ loading \in BOOLEAN /\ connected \in BOOLEAN
        /\ link \in {"connecting", "open", "lost", "none"} /\ hub \in {"away", "joined"}
        /\ apiKey \in Keys /\ linkKey \in Keys
    BY <1>1
  <2> QED BY <1>2, <2>1, <2>2, <2>3, <2>4 DEF TypeOK, CallStates
<1>4. loaded.key # apiKey
  BY <1>1 DEF NotLoaded
<1> QED
  BY <1>1, <1>3, <1>4 DEF IInv, FiltersForSelected, HubKnowsLive, NoRowTwice, ListIsOwn,
     MissedForAReason, ConnectedIsLive, Alerts

-----------------------------------------------------------------------------
(* The user.                                                                *)

LEMMA SwitchTenantStep ==
    ASSUME IInv, NEW c \in Calls, NEW k \in Keys, SwitchTenant(c, k)
    PROVE  IInv'
<1> USE KeysAssumption, BoundsAssumption
<1>1. /\ stored' = stored /\ rows' = rows /\ apiKey' = k /\ loaded' = NotLoaded
      /\ calls' = [calls EXCEPT ![c] = Begun(k)] /\ loading' = TRUE
      /\ linkKey' = k /\ hub' = "away" /\ joined' = 0 /\ got' = got
  BY DEF SwitchTenant, RunEffect
<1>2. /\ closing' = (IF link = "none" THEN closing ELSE closing + 1)
      /\ closing < MaxClosing
      /\ \/ link' = "connecting" /\ connected' = connected
         \/ link' = "none" /\ connected' = FALSE
  BY DEF SwitchTenant, RunEffect, CleanUp, NewSocket, SocketRefused
<1>3. calls' \in [Calls -> CallStates]
  BY <1>1, CallsTyped DEF IInv, Stages
<1>4. TypeOK'
  <2>1. loaded' \in [key : Keys \cup {NoKey}, asOf : SUBSET stored', heard : 0..got']
    BY <1>1 DEF IInv, TypeOK, NotLoaded
  <2>2. closing' \in 0..MaxClosing
    BY <1>2 DEF IInv, TypeOK
  <2>3. link' \in {"connecting", "open", "lost", "none"} /\ connected' \in BOOLEAN
    BY <1>2 DEF IInv, TypeOK
  <2>4. joined' \in 0..got'
    BY <1>1 DEF IInv, TypeOK
  <2> QED BY <1>1, <1>3, <2>1, <2>2, <2>3, <2>4 DEF IInv, TypeOK, CallStates
<1>5. loaded'.key # apiKey'
  BY <1>1 DEF NotLoaded
<1>6. ConnectedIsLive'
  <2>1. CASE link' = "none" /\ connected' = FALSE
    BY <2>1 DEF ConnectedIsLive
  <2>2. CASE link = "none" /\ closing' = closing /\ connected' = connected
    BY <2>2 DEF IInv, ConnectedIsLive
  <2>3. CASE closing' = closing + 1
    <3>1. closing' > 0
      BY <2>3 DEF IInv, TypeOK
    <3> QED BY <3>1 DEF ConnectedIsLive
  <2> QED BY <1>2, <2>1, <2>2, <2>3
<1>7. NoRowTwice'
  BY <1>1 DEF IInv, NoRowTwice
<1> QED
  BY <1>1, <1>4, <1>5, <1>6, <1>7 DEF IInv, FiltersForSelected, HubKnowsLive, ListIsOwn,
     MissedForAReason

LEMMA RefreshStep ==
    ASSUME IInv, NEW c \in Calls, Refresh(c)
    PROVE  IInv'
<1>1. UNCHANGED <<stored, apiKey, rows, socket, loaded>> /\ loading' = TRUE
      /\ calls' = [calls EXCEPT ![c] = Begun(apiKey)]
  BY DEF Refresh
<1>2. calls' \in [Calls -> CallStates]
  BY <1>1, CallsTyped DEF IInv, TypeOK, Stages
<1> QED
  BY <1>1, <1>2 DEF IInv, TypeOK, CallStates, socket, FiltersForSelected, HubKnowsLive, NoRowTwice,
     ListIsOwn, Own, MissedForAReason, ConnectedIsLive

-----------------------------------------------------------------------------
(* fetchData.                                                               *)

\* The steps of a call that leave the list alone.
LEMMA QuietStep ==
    ASSUME IInv, NEW c \in Calls,
           AlertsRefused(c) \/ PanelAnswered(c) \/ AttackersAnswered(c) \/ RequestFails(c)
    PROVE  IInv'
<1>1. UNCHANGED <<stored, apiKey, rows, socket, loaded>>
  BY DEF AlertsRefused, PanelAnswered, AttackersAnswered, RequestFails
<1>2. calls' \in [Calls -> CallStates] /\ loading' \in BOOLEAN
  <2>1. CASE calls' = [calls EXCEPT ![c] = Idle] /\ loading' = FALSE
    BY <2>1, CallsTyped, KeysAssumption DEF IInv, TypeOK, Stages
  <2>2. CASE \E stage \in Stages : Await(c, stage) /\ loading' = loading
    BY <2>2, CallsTyped, KeysAssumption DEF IInv, TypeOK, Stages, Await
  <2> QED
    BY <2>1, <2>2 DEF AlertsRefused, PanelAnswered, AttackersAnswered, RequestFails, End, Stages
<1> QED
  BY <1>1, <1>2 DEF IInv, TypeOK, CallStates, socket, FiltersForSelected, HubKnowsLive, NoRowTwice,
     ListIsOwn, Own, MissedForAReason, ConnectedIsLive

\* A list that arrives replaces the rows: what it does not contain was stored after it
\* was made, and was delivered before or is to be delivered.
LEMMA AlertsLoadedStep ==
    ASSUME IInv, NEW c \in Calls, AlertsLoaded(c)
    PROVE  IInv'
<1> USE KeysAssumption, BoundsAssumption
<1>1. UNCHANGED <<stored, apiKey, loading, socket>>
      /\ calls' = [calls EXCEPT ![c] = [Idle EXCEPT !.stage = "traffic"]]
  BY DEF AlertsLoaded, Await
<1>2. PICK v \in SUBSET stored :
          /\ rows' = Load(calls[c].key, v)
          /\ loaded' = [key |-> calls[c].key, asOf |-> v, heard |-> got]
  BY DEF AlertsLoaded
<1>3. calls[c].key \in Keys
  BY DEF AlertsLoaded
<1>4. calls' \in [Calls -> CallStates]
  BY <1>1, CallsTyped DEF IInv, Stages
<1>5. rows' \in [Alerts -> {0, 1}] /\ \A a \in Alerts : rows'[a] > 0 <=> a \in v /\ Own(calls[c].key, a)
  BY <1>2 DEF Load
<1>6. TypeOK'
  BY <1>1, <1>2, <1>3, <1>4, <1>5 DEF IInv, TypeOK, CallStates, socket
<1>7. NoRowTwice'
  BY <1>5 DEF NoRowTwice
<1>8. ListIsOwn'
  BY <1>1, <1>2, <1>5 DEF ListIsOwn, Own
<1>9. MissedForAReason'
  BY <1>1, <1>2, <1>5 DEF IInv, TypeOK, MissedForAReason, Own, socket, Alerts
<1> QED
  BY <1>1, <1>6, <1>7, <1>8, <1>9 DEF IInv, FiltersForSelected, HubKnowsLive, ConnectedIsLive, socket

-----------------------------------------------------------------------------
(* The service and the socket.                                              *)

\* A new alert has not been broadcast: it is still to be delivered.
LEMMA StoreStep ==
    ASSUME IInv, Store
    PROVE  IInv'
<1>1. PICK a \in Alerts \ stored : stored' = stored \cup {a}
  BY DEF Store
<1>2. UNCHANGED <<apiKey, rows, loading, calls, socket, loaded>>
  BY DEF Store
<1>3. calls \in [Calls -> [stage : Stages, key : Keys \cup {NoKey}, since : SUBSET stored']]
  <2>1. \A d \in Calls : calls[d] \in [stage : Stages, key : Keys \cup {NoKey}, since : SUBSET stored]
    BY DEF IInv, TypeOK
  <2>2. SUBSET stored \subseteq SUBSET stored'
    BY <1>1
  <2>3. \A d \in Calls : calls[d] \in [stage : Stages, key : Keys \cup {NoKey}, since : SUBSET stored']
    BY <2>1, <2>2
  <2> QED BY <2>3 DEF IInv, TypeOK
<1>4. TypeOK'
  BY <1>1, <1>2, <1>3 DEF IInv, TypeOK, socket
<1>5. MissedForAReason'
  <2>1. a > got
    BY <1>1 DEF IInv, TypeOK, Alerts
  <2> QED BY <1>1, <1>2, <2>1 DEF IInv, TypeOK, MissedForAReason, Own, socket
<1>6. ListIsOwn'
  BY <1>1, <1>2 DEF IInv, ListIsOwn, Own
<1> QED
  BY <1>2, <1>4, <1>5, <1>6 DEF IInv, FiltersForSelected, HubKnowsLive, NoRowTwice, ConnectedIsLive,
     socket

LEMMA RegisterStep ==
    ASSUME IInv, Register
    PROVE  IInv'
<1>1. PICK n \in got..MaxAlerts : 1..n \subseteq stored /\ joined' = n /\ got' = n
  BY DEF Register
<1>2. UNCHANGED <<stored, apiKey, rows, loading, connected, calls, link, linkKey, closing, loaded>>
      /\ link \in {"connecting", "open"} /\ hub' = "joined"
  BY DEF Register
<1>3. TypeOK'
  BY <1>1, <1>2, BoundsAssumption DEF IInv, TypeOK
<1>4. MissedForAReason'
  BY <1>1, <1>2 DEF IInv, TypeOK, MissedForAReason, Own, Alerts
<1> QED
  BY <1>1, <1>2, <1>3, <1>4 DEF IInv, FiltersForSelected, HubKnowsLive, NoRowTwice, ListIsOwn, Own,
     ConnectedIsLive

\* A batch adds the alerts of the selected tenant that are not listed, and only these.
LEMMA OnMessageStep ==
    ASSUME IInv, OnMessage
    PROVE  IInv'
<1>1. PICK n \in (got + 1)..MaxAlerts :
          1..n \subseteq stored /\ rows' = Prepend(linkKey, n) /\ got' = n
  BY DEF OnMessage
<1>2. UNCHANGED <<stored, apiKey, loading, connected, calls, link, linkKey, hub, joined, closing, loaded>>
      /\ link = "open" /\ hub = "joined"
  BY DEF OnMessage
<1>3. /\ rows' \in [Alerts -> Nat]
      /\ \A a \in Alerts : rows'[a] = rows[a] \/ rows'[a] = 1
      /\ \A a \in Alerts : rows'[a] > 0 => rows[a] > 0 \/ (a \in 1..n /\ Own(apiKey, a))
      /\ \A a \in Alerts : rows'[a] = 0 => rows[a] = 0 /\ ~(a \in (got + 1)..n /\ Own(apiKey, a))
  BY <1>1, BoundsAssumption DEF IInv, TypeOK, Prepend, FiltersForSelected, Alerts
<1>4. TypeOK'
  BY <1>1, <1>2, <1>3, BoundsAssumption DEF IInv, TypeOK
<1>5. NoRowTwice'
  BY <1>3 DEF IInv, NoRowTwice
<1>6. ListIsOwn'
  BY <1>1, <1>2, <1>3 DEF IInv, ListIsOwn, Own
<1>7. MissedForAReason'
  BY <1>1, <1>2, <1>3, BoundsAssumption DEF IInv, TypeOK, MissedForAReason, Own, Alerts
<1> QED
  BY <1>2, <1>4, <1>5, <1>6, <1>7 DEF IInv, FiltersForSelected, HubKnowsLive, ConnectedIsLive

\* The sockets open and close: no alert is touched.
LEMMA LinkStep ==
    ASSUME IInv, OnOpen \/ LinkLost \/ OnClose \/ OnCloseOld
    PROVE  IInv'
<1>1. UNCHANGED <<stored, apiKey, rows, loading, calls, linkKey, got, loaded>>
  BY DEF OnOpen, LinkLost, OnClose, OnCloseOld
<1>2. TypeOK' /\ HubKnowsLive' /\ ConnectedIsLive'
  <2>1. CASE OnOpen
    BY <1>1, <2>1 DEF IInv, TypeOK, HubKnowsLive, ConnectedIsLive, OnOpen
  <2>2. CASE LinkLost
    BY <1>1, <2>2 DEF IInv, TypeOK, HubKnowsLive, ConnectedIsLive, LinkLost
  <2>3. CASE OnClose
    BY <1>1, <2>3 DEF IInv, TypeOK, HubKnowsLive, ConnectedIsLive, OnClose
  <2>4. CASE OnCloseOld
    <3>1. closing' \in 0..MaxClosing
      BY <2>4, BoundsAssumption DEF IInv, TypeOK, OnCloseOld
    <3> QED BY <1>1, <2>4, <3>1 DEF IInv, TypeOK, HubKnowsLive, ConnectedIsLive, OnCloseOld
  <2> QED BY <2>1, <2>2, <2>3, <2>4
<1>3. MissedForAReason'
  BY <1>1 DEF IInv, TypeOK, MissedForAReason, Own, HubKnowsLive, Alerts,
     OnOpen, LinkLost, OnClose, OnCloseOld
<1> QED
  BY <1>1, <1>2, <1>3 DEF IInv, FiltersForSelected, NoRowTwice, ListIsOwn, Own

-----------------------------------------------------------------------------
LEMMA NextIInv == IInv /\ [Next]_vars => IInv'
<1> SUFFICES ASSUME IInv, [Next]_vars PROVE IInv'
  OBVIOUS
<1>1. CASE Store
  BY <1>1, StoreStep
<1>2. CASE Socket
  BY <1>2, RegisterStep, OnMessageStep, LinkStep DEF Socket
<1>3. ASSUME NEW c \in Calls, FetchData(c) PROVE IInv'
  BY <1>3, AlertsLoadedStep, QuietStep DEF FetchData
<1>4. ASSUME NEW c \in Calls, User(c) PROVE IInv'
  BY <1>4, RefreshStep, SwitchTenantStep DEF User
<1>5. CASE UNCHANGED vars
  BY <1>5 DEF vars, IInv, TypeOK, FiltersForSelected, HubKnowsLive, NoRowTwice, ListIsOwn, Own,
     MissedForAReason, ConnectedIsLive
<1> QED
  BY <1>1, <1>2, <1>3, <1>4, <1>5 DEF Next

LEMMA Inductive == Spec => []IInv
  BY InitIInv, NextIInv, PTL DEF Spec

-----------------------------------------------------------------------------
\* The data of the dashboard stays well typed.
THEOREM DashboardTyped == Spec => []TypeOK
<1>1. IInv => TypeOK
  BY DEF IInv
<1> QED BY <1>1, Inductive, PTL

\* No alert is listed twice (App.jsx: setAlerts in fetchData and in onmessage).
THEOREM RowsAreDistinct == Spec => []NoRowTwice
<1>1. IInv => NoRowTwice
  BY DEF IInv
<1> QED BY <1>1, Inductive, PTL

\* After a list of the selected tenant, only alerts of this tenant are shown.
THEOREM ListStaysOwn == Spec => []ListIsOwn
<1>1. IInv => ListIsOwn
  BY DEF IInv
<1> QED BY <1>1, Inductive, PTL

\* What is missing from the list is missing for one of the reasons there are.
THEOREM MissingHasAReason == Spec => []MissedForAReason
<1>1. IInv => MissedForAReason
  BY DEF IInv
<1> QED BY <1>1, Inductive, PTL

\* The indicator `connected` is never on with every socket closed and handled.
THEOREM IndicatorIsLive == Spec => []ConnectedIsLive
<1>1. IInv => ConnectedIsLive
  BY DEF IInv
<1> QED BY <1>1, Inductive, PTL
=============================================================================
