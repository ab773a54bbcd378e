----------------------------- MODULE Dashboard -----------------------------
(***************************************************************************)
(* The data of the dashboard, App.jsx: the alerts it lists, which arrive   *)
(* over two ways that know nothing of each other (fetchData over HTTP and  *)
(* the WebSocket), the tenant they should belong to, and the indicators    *)
(* `loading` and `connected`.  JavaScript runs one callback at a time; in  *)
(* between, any number of calls of fetchData wait for answers, each with   *)
(* the API key of the render in which it began.                            *)
(*                                                                         *)
(* Alerts are numbered in the order in which the service broadcasts them   *)
(* (module Hub: a connection gets an unbroken run of them).  Each is       *)
(* stored before that, but several workers may store them in another       *)
(* order.  The list is kept as the number of rows of each alert; the order *)
(* of rows is the business of DashboardView, and so are the attackers.     *)
(***************************************************************************)
EXTENDS Integers

CONSTANTS
    Keys,       \* the API keys that the settings tab offers
    Known,      \* those that the service maps to a tenant
    FirstKey,   \* the one selected at the start
    NoKey,      \* no list was loaded since the tenant was selected
    Calls,      \* bound: the calls of fetchData in flight at once
    MaxAlerts,  \* bound on the alerts stored
    MaxClosing, \* bound on the sockets given up whose close event is pending
    OwnerOf,    \* OwnerOf[a]: the key of the tenant of alert a
    Faults      \* "request": an HTTP request fails; "socket": a connection fails

Alerts == 1..MaxAlerts

ASSUME KeysAssumption == Known \subseteq Keys /\ FirstKey \in Keys /\ NoKey \notin Keys
ASSUME BoundsAssumption == MaxAlerts \in Nat /\ MaxClosing \in Nat
ASSUME OwnerAssumption == OwnerOf \in [Alerts -> Known]

VARIABLES
    stored,     \* the alerts that the service has stored
    apiKey,
    rows,       \* rows[a]: how often alert a is in the list `alerts`
    loading,
    connected,
    calls,      \* the calls of fetchData: what each waits for, its key, and
                \* what was stored when it sent the request
    link,       \* the socket of the last run of the effect; "lost" and "none":
                \* before and after its onclose
    linkKey,    \* apiKey in the closure of its onmessage
    hub,        \* whether the hub knows the connection
    joined,     \* how many alerts it had sent to others when it got to know it
    got,        \* how far the alerts have arrived, over this or another socket
    closing,    \* how many sockets of earlier runs have their onclose to come
    loaded      \* history: of the list loaded last, its key, the alerts stored
                \* when it was made, and `got` when it arrived.  The key is NoKey
                \* again when another tenant is selected.

vars == <<stored, apiKey, rows, loading, connected, calls, link, linkKey, hub,
          joined, got, closing, loaded>>

socket == <<connected, link, linkKey, hub, joined, got, closing>>

Stages == {"idle", "alerts", "traffic", "status", "paths", "attackers"}

TypeOK ==
    /\ stored \subseteq Alerts
    /\ apiKey \in Keys
    /\ rows \in [Alerts -> Nat]
    /\ loading \in BOOLEAN /\ connected \in BOOLEAN
    /\ calls \in [Calls -> [stage : Stages, key : Keys \cup {NoKey}, since : SUBSET stored]]
    /\ link \in {"connecting", "open", "lost", "none"} /\ linkKey \in Keys
    /\ hub \in {"away", "joined"}
    /\ got \in 0..MaxAlerts /\ 1..got \subseteq stored /\ joined \in 0..got
    /\ closing \in 0..MaxClosing
    /\ loaded \in [key : Keys \cup {NoKey}, asOf : SUBSET stored, heard : 0..got]

\* Whether alert a belongs to the tenant of key k.  For a key that it does not
\* know the dashboard compares tenant_id with the key itself, which no alert has.
Own(k, a) == k \in Known /\ OwnerOf[a] = k

Idle == [stage |-> "idle", key |-> NoKey, since |-> {}]
Begun(k) == [stage |-> "alerts", key |-> k, since |-> stored]
NotLoaded == [key |-> NoKey, asOf |-> {}, heard |-> 0]

\* The production build runs the effect once.  In development StrictMode runs it,
\* cleans it up and runs it again: two calls, and a socket closed at once.
Mount ==
    /\ \E c, d \in Calls :
           /\ calls = [e \in Calls |-> IF e \in {c, d} THEN Begun(FirstKey) ELSE Idle]
           /\ closing = IF c = d THEN 0 ELSE 1
    /\ closing <= MaxClosing
    /\ loading = TRUE
    /\ link = "connecting" /\ linkKey = FirstKey
    /\ hub = "away" /\ joined = 0 /\ got = 0

Init ==
    /\ stored = {}
    /\ apiKey = FirstKey
    /\ rows = [a \in Alerts |-> 0]
    /\ connected = FALSE
    /\ Mount
    /\ loaded = NotLoaded

-----------------------------------------------------------------------------
(* Plausible mistakes, not part of Next.                                    *)

\* The effect does not depend on apiKey: the new tenant is fetched, the socket
\* and its closure stay.
EffectKeepsSocket(c, k) ==
    /\ calls[c].stage = "idle" /\ closing < MaxClosing
    /\ calls' = [calls EXCEPT ![c] = Begun(k)]
    /\ loading' = TRUE
    /\ UNCHANGED socket

\* The effect sets connected before the socket has opened.
EffectAssumesLink(c, k) ==
    /\ calls[c].stage = "idle" /\ closing < MaxClosing
    /\ calls' = [calls EXCEPT ![c] = Begun(k)]
    /\ loading' = TRUE
    /\ closing' = IF link = "none" THEN closing ELSE closing + 1
    /\ link' = "connecting" /\ linkKey' = k /\ connected' = TRUE
    /\ hub' = "away" /\ joined' = 0 /\ UNCHANGED got

\* A failed load returns early, without the finally block.
RefusedKeepsLoading(c) ==
    /\ calls[c].stage = "alerts" /\ calls[c].key \notin Known
    /\ calls' = [calls EXCEPT ![c] = Idle]
    /\ UNCHANGED <<stored, apiKey, rows, loading, socket, loaded>>

\* A batch is filtered by tenant but not compared with the rows there are.
PrependAll(k, n) ==
    [a \in Alerts |-> rows[a] + (IF a \in (got + 1)..n /\ Own(k, a) THEN 1 ELSE 0)]

\* A batch is compared with the rows there are but not filtered by tenant.
PrependForeign(k, n) ==
    [a \in Alerts |-> rows[a] + (IF a \in (got + 1)..n /\ rows[a] = 0 THEN 1 ELSE 0)]

\* Alerts are broadcast before they are stored.
RegisterUnstored ==
    /\ link \in {"connecting", "open"} /\ hub = "away"
    /\ \E n \in got..MaxAlerts : joined' = n /\ got' = n
    /\ hub' = "joined"
    /\ UNCHANGED <<stored, apiKey, rows, loading, connected, calls, link, linkKey, closing, loaded>>

-----------------------------------------------------------------------------
(* The effect on [apiKey]: clean up, call fetchData, open a socket.  close() *)
(* ends the messages of the old socket at once, and its onclose comes later. *)

CleanUp == closing' = IF link = "none" THEN closing ELSE closing + 1

NewSocket == link' = "connecting" /\ UNCHANGED connected

\* The constructor throws (say, for ws: on a page that came over https:).
SocketRefused == "socket" \in Faults /\ link' = "none" /\ connected' = FALSE

RunEffect(c, k) ==
    /\ calls[c].stage = "idle" /\ closing < MaxClosing
    /\ calls' = [calls EXCEPT ![c] = Begun(k)]
    /\ loading' = TRUE
    /\ CleanUp
    /\ NewSocket \/ SocketRefused
    /\ linkKey' = k /\ hub' = "away" /\ joined' = 0 /\ UNCHANGED got

\* A button of the settings tab.  The button of the selected tenant changes nothing.
SwitchTenant(c, k) ==
    /\ k # apiKey
    /\ apiKey' = k
    /\ RunEffect(c, k)
    /\ loaded' = NotLoaded
    /\ UNCHANGED <<stored, rows>>

Refresh(c) ==
    /\ ~loading /\ calls[c].stage = "idle"
    /\ calls' = [calls EXCEPT ![c] = Begun(apiKey)]
    /\ loading' = TRUE
    /\ UNCHANGED <<stored, apiKey, rows, socket, loaded>>

-----------------------------------------------------------------------------
(* fetchData.  The service makes the answer at some time between the request *)
(* and the step that takes it.                                               *)

Await(c, stage) == calls' = [calls EXCEPT ![c] = [Idle EXCEPT !.stage = stage]]

End(c) == calls' = [calls EXCEPT ![c] = Idle] /\ loading' = FALSE

\* The rows of GET /alerts with key k when the alerts v are stored.  (Between the
\* request and now the alerts may have been stored in any order.)
Load(k, v) == [a \in Alerts |-> IF a \in v /\ Own(k, a) THEN 1 ELSE 0]

AlertsLoaded(c) ==
    /\ calls[c].stage = "alerts" /\ calls[c].key \in Known
    /\ \E v \in {w \in SUBSET stored : calls[c].since \subseteq w} :
           /\ rows' = Load(calls[c].key, v)
           /\ loaded' = [key |-> calls[c].key, asOf |-> v, heard |-> got]
    /\ Await(c, "traffic")
    /\ UNCHANGED <<stored, apiKey, loading, socket>>

\* 401: the list of the tenant before stays.
AlertsRefused(c) ==
    /\ calls[c].stage = "alerts" /\ calls[c].key \notin Known
    /\ End(c)
    /\ UNCHANGED <<stored, apiKey, rows, socket, loaded>>

\* With or without an ok response the next request follows.
PanelAnswered(c) ==
    /\ \/ calls[c].stage = "traffic" /\ Await(c, "status")
       \/ calls[c].stage = "status" /\ Await(c, "paths")
       \/ calls[c].stage = "paths" /\ Await(c, "attackers")
    /\ UNCHANGED <<stored, apiKey, rows, loading, socket, loaded>>

AttackersAnswered(c) ==
    /\ calls[c].stage = "attackers"
    /\ End(c)
    /\ UNCHANGED <<stored, apiKey, rows, socket, loaded>>

\* No connection, or GET /alerts not ok for another reason.
RequestFails(c) ==
    /\ "request" \in Faults /\ calls[c].stage # "idle"
    /\ End(c)
    /\ UNCHANGED <<stored, apiKey, rows, socket, loaded>>

-----------------------------------------------------------------------------
(* The service and the socket.                                              *)

Store ==
    /\ \E a \in Alerts \ stored : stored' = stored \cup {a}
    /\ UNCHANGED <<apiKey, rows, loading, calls, socket, loaded>>

\* Alerts up to n were broadcast and flushed, if only to others.  The handshake is
\* over for the hub before or after it is for the browser.
Register ==
    /\ link \in {"connecting", "open"} /\ hub = "away"
    /\ \E n \in got..MaxAlerts : 1..n \subseteq stored /\ joined' = n /\ got' = n
    /\ hub' = "joined"
    /\ UNCHANGED <<stored, apiKey, rows, loading, connected, calls, link, linkKey, closing, loaded>>

OnOpen ==
    /\ link = "connecting"
    /\ link' = "open" /\ connected' = TRUE
    /\ UNCHANGED <<stored, apiKey, rows, loading, calls, linkKey, hub, joined, got, closing, loaded>>

\* The rows after a batch of the alerts up to n: new ones of the tenant come first.
Prepend(k, n) ==
    [a \in Alerts |->
        rows[a] + (IF a \in (got + 1)..n /\ Own(k, a) /\ rows[a] = 0 THEN 1 ELSE 0)]

OnMessage ==
    /\ link = "open" /\ hub = "joined"
    /\ \E n \in (got + 1)..MaxAlerts :
           1..n \subseteq stored /\ rows' = Prepend(linkKey, n) /\ got' = n
    /\ UNCHANGED <<stored, apiKey, loading, connected, calls, link, linkKey, hub, joined,
                   closing, loaded>>

\* What is under way is lost, and the socket is not opened again.
LinkLost ==
    /\ "socket" \in Faults /\ link \in {"connecting", "open"}
    /\ link' = "lost" /\ hub' = "away" /\ joined' = 0 /\ UNCHANGED got
    /\ UNCHANGED <<stored, apiKey, rows, loading, connected, calls, linkKey, closing, loaded>>

\* onerror does no more, a moment earlier.
OnClose ==
    /\ link = "lost"
    /\ link' = "none" /\ connected' = FALSE
    /\ UNCHANGED <<stored, apiKey, rows, loading, calls, linkKey, hub, joined, got, closing, loaded>>

\* The handlers of a socket given up are still attached.
OnCloseOld ==
    /\ closing > 0
    /\ closing' = closing - 1 /\ connected' = FALSE
    /\ UNCHANGED <<stored, apiKey, rows, loading, calls, link, linkKey, hub, joined, got, loaded>>

-----------------------------------------------------------------------------
FetchData(c) ==
    \/ AlertsLoaded(c) \/ AlertsRefused(c) \/ PanelAnswered(c) \/ AttackersAnswered(c)
    \/ RequestFails(c)

User(c) == Refresh(c) \/ \E k \in Keys : SwitchTenant(c, k)

Socket == Register \/ OnOpen \/ OnMessage \/ LinkLost \/ OnClose \/ OnCloseOld

Next == Store \/ Socket \/ \E c \in Calls : FetchData(c) \/ User(c)

Spec == Init /\ [][Next]_vars

\* Every request is answered or fails in the end (browsers give up on a server that
\* is silent), and what arrived at a socket is handed on.  Nothing is assumed of the
\* user or of new alerts, nor that connections last.
Fairness ==
    /\ \A c \in Calls : WF_vars(FetchData(c))
    /\ WF_vars(Register) /\ WF_vars(OnOpen) /\ WF_vars(OnMessage)
    /\ WF_vars(OnClose) /\ WF_vars(OnCloseOld)

FairSpec == Spec /\ Fairness

-----------------------------------------------------------------------------
\* No alert is listed twice, though the list and the stream overlap in any way and
\* several loads may be under way: (id, created_at) also serves as the key of rows.
NoRowTwice == \A a \in Alerts : rows[a] <= 1

\* Once a list was loaded for the selected tenant, no alert of another one is shown:
\* whatever the socket delivers after that, for whichever tenant, and however often
\* tenants were switched before.  Only a late answer to a call that began under
\* another key makes an exception (loaded.key then is that key).
ListIsOwn ==
    loaded.key = apiKey =>
        \A a \in Alerts : rows[a] > 0 => Own(apiKey, a) /\ a \in stored

\* What is missing from a list that was loaded for the selected tenant: only an alert
\* stored after the answer was made, and of these one that the socket delivered
\* before the answer came and overwrote it (a <= loaded.heard), one broadcast before
\* the hub knew the socket, or one that it has still to deliver, if it is open.
MissedForAReason ==
    loaded.key = apiKey =>
        \A a \in stored : Own(apiKey, a) /\ rows[a] = 0 =>
            /\ a \notin loaded.asOf
            /\ \/ a <= loaded.heard
               \/ link # "open" \/ hub = "away"
               \/ a <= joined
               \/ a > got

\* LIVE STREAM ACTIVE is never shown when every socket is closed and every close
\* event has been handled, however openings and closings of several sockets overlap.
\* (The converse fails: the onclose of an old socket turns the indicator off under
\* an open one.)
ConnectedIsLive == connected => link \in {"open", "lost"} \/ closing > 0

\* The refresh button is disabled by `loading`: it always becomes usable again, also
\* after refused and failed requests and when calls overlap.
LoadingEnds == loading ~> ~loading

-----------------------------------------------------------------------------
\* What the repository says and the code does not do.

\* README.md: data is segregated by tenant.  When the user stays with a tenant that
\* the service knows, and nothing fails, in the end only its alerts are shown.
ShowsItsTenant ==
    \A k \in Known :
        <>[](apiKey = k) => <>[](\A a \in Alerts : rows[a] > 0 => Own(k, a))
=============================================================================
