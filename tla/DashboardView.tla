--------------------------- MODULE DashboardView ---------------------------
(***************************************************************************)
(* The page of App.jsx: what the user sees of the data and can do with it. *)
(* Tabs, the alert drawer, the filters, the attackers and their dossier,   *)
(* the toast, the console and the settings.                                *)
(*                                                                         *)
(* When answers and messages arrive is the subject of Dashboard; here they *)
(* may arrive at any time, an answer may be older than the one before, and *)
(* it may be for another tenant than the one selected now.  What is kept   *)
(* of them is what Dashboard leaves out: the order of the rows, and every  *)
(* toast and console entry that a handler makes.                           *)
(***************************************************************************)
EXTENDS Integers, Sequences, FiniteSets, SequencesExt

CONSTANTS
    MaxAlerts,    \* bound on the alerts; they are numbered as they are broadcast
    OwnerOf, SeverityOf, IpOf,   \* tenant, severity and source_ip of an alert
    Severities,   \* the severities that have a button
    Texts,        \* what the user types into the search field, "" included
    Hits,         \* Hits[t]: the alerts whose address or message contains t
    Top,          \* length of the alert feed and of the leaderboard (4)
    Limit,        \* how many attackers the service lists (10)
    Tenants, FirstTenant,   \* those with a button, and the one selected first
    Known,        \* those whose key the service knows
    Thresholds, Webhooks, Retentions, FirstForm,   \* what the settings fields can
                  \* hold, and what they hold at first
    Keep,         \* addConsoleLog keeps that many entries (35) and adds one
    ToastTime,    \* ticks that a toast is meant to stay (4500 ms)
    MaxBlind,     \* bound on `blind`
    None

Alerts == 1..MaxAlerts
Ips == {IpOf[a] : a \in Alerts}

ASSUME SizesAssumption ==
    MaxAlerts \in Nat /\ {Top, Limit, Keep, ToastTime, MaxBlind} \subseteq Nat \ {0}
ASSUME NoneAssumption == None \notin Ips /\ None \notin Nat
ASSUME FirstAssumption ==
    /\ FirstTenant \in Tenants /\ "" \in Texts
    /\ FirstForm \in [threshold : Thresholds, webhook : Webhooks, retention : Retentions]

VARIABLES
    stored,     \* the alerts in the order in which the service stored them
    got,        \* how far they have arrived over this or another socket
    list,       \* alerts, as they are listed
    attackers,  \* the addresses, as they are listed
    tab, drawer, selected,   \* activeTab, selectedAlert, selectedAttackerIP
    severity, search,        \* filterSeverity, searchIP
    tenant,     \* activeTenant, and with it apiKey
    form,       \* bruteForceThreshold, slackWebhook, retentionDays
    blind,      \* how many calls of fetchData are in flight that began while
                \* nothing was selected
    toast,      \* None, or the ticks for which the toast has been shown
    timers,     \* the ticks left to each pending setToast(null)
    logs        \* consoleLogs; an entry is the number of entries made after it

data == <<stored, got, list, attackers>>
view == <<tab, drawer, selected, severity, search, tenant, form>>
notices == <<toast, timers, logs>>
vars == <<data, view, blind, notices>>

Tabs == {"Overview", "Threat Alerts", "Analytics", "Threat Intelligence",
         "Infrastructure", "Settings"}

TypeOK ==
    /\ stored \in Seq(Alerts) /\ got \in 0..MaxAlerts /\ 1..got \subseteq ToSet(stored)
    /\ list \in Seq(ToSet(stored))
    /\ attackers \in Seq(Ips) /\ Len(attackers) <= Limit
    /\ tab \in Tabs /\ drawer \in ToSet(stored) \cup {None} /\ selected \in Ips \cup {None}
    /\ severity \in Severities \cup {"ALL"} /\ search \in Texts
    /\ tenant \in Tenants
    /\ form \in [threshold : Thresholds, webhook : Webhooks, retention : Retentions]
    /\ blind \in 0..MaxBlind
    /\ toast \in Nat \cup {None} /\ timers \subseteq 0..ToastTime
    /\ logs \in Seq(Nat)

-----------------------------------------------------------------------------
(* Plausible mistakes, not part of Next.                                    *)

Shortest(m, n) == IF m <= n THEN m ELSE n

\* prev.slice(0, 35): the first 35 entries stay, not the last 35.
LoggedSlicedFromFront(s, n) ==
    LET kept == Shortest(Len(s) + n, Keep + 1)
    IN  [i \in 1..kept |-> CASE i = kept -> 0
                             [] i < kept /\ i <= Len(s) -> s[i] + n
                             [] i < kept /\ i > Len(s) -> Len(s) + n - i]

\* Pending timers are cleared after the new one is started, not before.
ToastTimersCleared ==
    /\ toast' = 0
    /\ timers' = {}

\* New alerts are appended below the ones there are.
AppendedBatch(new) == list \o new

\* The attackers that arrive always select the first one.
AlwaysSelectsFirst(sees, top) == IF top = <<>> THEN selected ELSE top[1]

\* The query of the attackers has no LIMIT.
CutNowhere(s) == s

-----------------------------------------------------------------------------
(* Toast and console.                                                       *)

\* The console s after n > 0 calls of addConsoleLog, each of which keeps the last
\* Keep entries and adds one.
Logged(s, n) ==
    LET total == Len(s) + n
        kept == Shortest(total, Keep + 1)
        entry(i) == IF i <= Len(s) THEN s[i] + n ELSE total - i
    IN  [i \in 1..kept |-> entry((total - kept) + i)]

AddLogs(n) == logs' = Logged(logs, n)

\* Each toast has its own timer, which removes whatever toast there is by then.
TriggerToast ==
    /\ toast' = 0
    /\ timers' = timers \cup {ToastTime}

NoToast == UNCHANGED <<toast, timers>>

\* Timers fire before time goes on: callbacks are short.
ToastTimer ==
    /\ 0 \in timers
    /\ timers' = timers \ {0} /\ toast' = None
    /\ UNCHANGED <<data, view, blind, logs>>

Tick ==
    /\ timers # {} /\ 0 \notin timers
    /\ timers' = {t - 1 : t \in timers}
    /\ toast' = IF toast = None THEN None ELSE toast + 1
    /\ UNCHANGED <<data, view, blind, logs>>

-----------------------------------------------------------------------------
(* What the page derives from its state when it is rendered.                *)

FirstOf(s, n) == SubSeq(s, 1, Shortest(Len(s), n))

\* The "Critical Alert Feed" and the "Risk Leaderboard" of the overview.
Feed == FirstOf(list, Top)
Leaderboard == FirstOf(attackers, Top)

\* The rows of the alert table.  The filter by type is never set to anything but ALL.
FilteredAlerts ==
    {a \in ToSet(list) :
        (severity = "ALL" \/ SeverityOf[a] = severity) /\ (search = "" \/ a \in Hits[search])}

\* activeAttackerDetails: the dossier is shown for a selected address that is
\* still among the attackers.
Dossier == IF selected \in ToSet(attackers) THEN selected ELSE None

-----------------------------------------------------------------------------
(* Mounting, and answers and messages.                                      *)

\* The effect of the first render has begun a call and made three entries; in
\* development StrictMode runs it twice.
Init ==
    /\ stored = <<>> /\ got = 0 /\ list = <<>> /\ attackers = <<>>
    /\ tab = "Overview" /\ drawer = None /\ selected = None
    /\ severity = "ALL" /\ search = ""
    /\ tenant = FirstTenant
    /\ form = FirstForm
    /\ \E runs \in {1, 2} :
           blind = runs /\ runs <= MaxBlind /\ logs = Logged(<<>>, 3 * runs)
    /\ toast = None /\ timers = {}

\* Several workers store alerts: not always in the order in which they broadcast them.
Store ==
    /\ \E a \in Alerts \ ToSet(stored) : stored' = Append(stored, a)
    /\ UNCHANGED <<got, list, attackers, view, blind, notices>>

StoredBefore(a, b) ==
    \E i, j \in DOMAIN stored : i < j /\ stored[i] = a /\ stored[j] = b

\* The set S in the order of created_at DESC.
NewestFirst(S) ==
    {l \in SetToSeqs(S) : \A i, j \in DOMAIN l : i < j => StoredBefore(l[j], l[i])}

\* GET /alerts answered when v alerts were stored: those of a tenant, newest first.
AlertsLoaded ==
    /\ \E v \in 0..Len(stored), t \in Known :
           list' \in NewestFirst({a \in ToSet(FirstOf(stored, v)) : OwnerOf[a] = t})
    /\ AddLogs(1)
    /\ UNCHANGED <<stored, got, attackers, view, blind, toast, timers>>

\* Traffic, status codes or paths, asked for by fetchData.
PanelLoaded ==
    /\ AddLogs(1)
    /\ UNCHANGED <<data, view, blind, toast, timers>>

\* A call of fetchData sees the selection of the render in which it begins.
BlindEnds == blind > 0 /\ blind' = blind - 1
SeeingEnds == selected # None /\ UNCHANGED blind

Begin ==
    IF selected = None THEN blind < MaxBlind /\ blind' = blind + 1 ELSE UNCHANGED blind

LoadFailed ==
    /\ BlindEnds \/ SeeingEnds
    /\ AddLogs(1) /\ TriggerToast
    /\ UNCHANGED <<data, view>>

\* GET /analytics/attackers when v alerts were stored: the addresses with most
\* alerts of all tenants.  The database orders equal counts as it likes.
Count(ip, v) == Cardinality({i \in 1..v : IpOf[stored[i]] = ip})
Ranked(s, v) == \A i \in 1..(Len(s) - 1) : Count(s[i], v) >= Count(s[i + 1], v)
Cut(s) == FirstOf(s, Limit)
TopAttackers(v) ==
    {Cut(s) : s \in {r \in SetToSeqs({IpOf[stored[i]] : i \in 1..v}) : Ranked(r, v)}}

\* What is selected when the list top has arrived: the first one, unless the call saw
\* a selection when it began.  It does not see one made since.
Selection(sees, top) == IF sees \/ top = <<>> THEN selected ELSE top[1]

\* Listed by fetchData.
AttackersLoaded ==
    /\ \E v \in 0..Len(stored) : attackers' \in TopAttackers(v)
    /\ \/ BlindEnds /\ selected' = Selection(FALSE, attackers')
       \/ SeeingEnds /\ selected' = Selection(TRUE, attackers')
    /\ AddLogs(1)
    /\ UNCHANGED <<stored, got, list, tab, drawer, severity, search, tenant, form,
                   toast, timers>>

\* Not ok: the call ends without a word.
AttackersRefused ==
    /\ BlindEnds
    /\ UNCHANGED <<data, view, notices>>

\* Listed by fetchAttackers after a message.
AttackersRefetched ==
    /\ \E v \in 0..Len(stored) : attackers' \in TopAttackers(v)
    /\ UNCHANGED <<stored, got, list, view, blind, notices>>

SocketOpened ==
    /\ AddLogs(1) /\ TriggerToast
    /\ UNCHANGED <<data, view, blind>>

\* onerror or onclose, of this socket or of an earlier one.
SocketDown ==
    /\ AddLogs(1)
    /\ UNCHANGED <<data, view, blind, toast, timers>>

\* A batch comes in the order of broadcasting and is put in front as it is.
Prepended(new) == new \o list

New(n) == {a \in (got + 1)..n : OwnerOf[a] = tenant /\ a \notin ToSet(list)}

InOrder(S) == {l \in SetToSeqs(S) : \A i, j \in DOMAIN l : i < j => l[i] < l[j]}

\* The updater makes an entry of each new alert.  StrictMode may run it twice: it is
\* given the same list again, so that only the entries are doubled.
SocketMessage ==
    /\ \E n \in (got + 1)..MaxAlerts : \E new \in InOrder(New(n)) :
           /\ (got + 1)..n \subseteq ToSet(stored)
           /\ \E runs \in {1, 2} : AddLogs(1 + runs * Len(new))
           /\ list' = Prepended(new) /\ got' = n
    /\ UNCHANGED <<stored, attackers, view, blind, toast, timers>>

\* What a new socket delivers begins with the alerts that the hub has yet to send.
SocketMoves ==
    /\ \E n \in (got + 1)..MaxAlerts : (got + 1)..n \subseteq ToSet(stored) /\ got' = n
    /\ UNCHANGED <<stored, list, attackers, view, blind, notices>>

-----------------------------------------------------------------------------
(* What the user does.                                                      *)

ChooseTab(t) ==
    /\ tab' = t
    /\ UNCHANGED <<data, drawer, selected, severity, search, tenant, form, blind, notices>>

\* Refresh Data, which is disabled while `loading` (Dashboard).
Refresh ==
    /\ Begin
    /\ AddLogs(1)
    /\ UNCHANGED <<data, view, toast, timers>>

OpenDrawer(a) ==
    /\ drawer' = a
    /\ UNCHANGED <<data, tab, selected, severity, search, tenant, form, blind, notices>>

OpenFromFeed(a) == tab = "Overview" /\ a \in ToSet(Feed) /\ OpenDrawer(a)

OpenFromTable(a) == tab = "Threat Alerts" /\ a \in FilteredAlerts /\ OpenDrawer(a)

\* Its button, or a click beside it.  The drawer covers the page but only for the
\* mouse: what lies below it can still be reached by the keyboard.
CloseDrawer ==
    /\ drawer # None /\ drawer' = None
    /\ UNCHANGED <<data, tab, selected, severity, search, tenant, form, blind, notices>>

\* It says that it was done; nothing is sent to the service, and the alert stays
\* where it is.
HandleRemediate ==
    /\ drawer' = None
    /\ AddLogs(1) /\ TriggerToast
    /\ UNCHANGED <<data, tab, selected, severity, search, tenant, form, blind>>

\* Block or dismiss.
RemediateAlert == drawer # None /\ HandleRemediate

BlockAttacker ==
    /\ tab = "Threat Intelligence" /\ Dossier # None
    /\ HandleRemediate

SelectAttacker(ip) ==
    /\ selected' = ip /\ tab' = "Threat Intelligence"
    /\ UNCHANGED <<data, drawer, severity, search, tenant, form, blind, notices>>

SelectFromLeaderboard(ip) ==
    tab = "Overview" /\ ip \in ToSet(Leaderboard) /\ SelectAttacker(ip)

SelectFromSources(ip) ==
    tab = "Threat Intelligence" /\ ip \in ToSet(attackers) /\ SelectAttacker(ip)

SetFilter(sev, text) ==
    /\ tab = "Threat Alerts"
    /\ severity' = sev /\ search' = text
    /\ UNCHANGED <<data, tab, drawer, selected, tenant, form, blind, notices>>

FilterSeverity == \E sev \in Severities \cup {"ALL"} : SetFilter(sev, search)
SearchFor == \E text \in Texts : SetFilter(severity, text)
ResetFilters == SetFilter("ALL", "")

ClearConsole ==
    /\ tab = "Infrastructure"
    /\ logs' = <<>>
    /\ UNCHANGED <<data, view, blind, toast, timers>>

\* When the key changes, the effect runs: a call, and three entries more.
SwitchTenant(t) ==
    /\ tab = "Settings"
    /\ tenant' = t
    /\ \/ t = tenant /\ AddLogs(1) /\ UNCHANGED blind
       \/ t # tenant /\ AddLogs(4) /\ Begin
    /\ TriggerToast
    /\ UNCHANGED <<data, tab, drawer, selected, severity, search, form>>

CopyKey ==
    /\ tab = "Settings"
    /\ TriggerToast
    /\ UNCHANGED <<data, view, blind, logs>>

\* The fields keep their values on the page; the service never learns of them.
EditForm(f) ==
    /\ tab = "Settings"
    /\ form' = f
    /\ UNCHANGED <<data, tab, drawer, selected, severity, search, tenant, blind, notices>>

EditThreshold == \E n \in Thresholds : EditForm([form EXCEPT !.threshold = n])
EditWebhook == \E url \in Webhooks : EditForm([form EXCEPT !.webhook = url])
EditRetention == \E n \in Retentions : EditForm([form EXCEPT !.retention = n])

SaveForm ==
    /\ tab = "Settings"
    /\ AddLogs(1) /\ TriggerToast
    /\ UNCHANGED <<data, view, blind>>

-----------------------------------------------------------------------------
Arrival ==
    \/ AlertsLoaded \/ PanelLoaded \/ LoadFailed \/ AttackersLoaded \/ AttackersRefused
    \/ AttackersRefetched \/ SocketOpened \/ SocketDown \/ SocketMessage \/ SocketMoves

User ==
    \/ Refresh \/ CloseDrawer \/ RemediateAlert \/ BlockAttacker
    \/ \E t \in Tabs : ChooseTab(t)
    \/ \E a \in Alerts : OpenFromFeed(a) \/ OpenFromTable(a)
    \/ \E ip \in Ips : SelectFromLeaderboard(ip) \/ SelectFromSources(ip)
    \/ FilterSeverity \/ SearchFor \/ ResetFilters
    \/ ClearConsole \/ CopyKey \/ SaveForm
    \/ EditThreshold \/ EditWebhook \/ EditRetention
    \/ \E t \in Tenants : SwitchTenant(t)

Next == Store \/ Arrival \/ User \/ ToastTimer \/ Tick

Spec == Init /\ [][Next]_vars

-----------------------------------------------------------------------------
\* A toast is gone at the latest when its time is over, however many timers of
\* other toasts are pending or have removed others.  (It may go earlier: the timer of
\* an older toast removes the one that is shown.)
ToastEnds ==
    toast # None => \E t \in timers : toast + t <= ToastTime

\* The console shows the latest entries, all of them and in order, and at most one
\* more than it keeps.
ConsoleIsRecent ==
    /\ Len(logs) <= Keep + 1
    /\ \A i \in DOMAIN logs : logs[i] = Len(logs) - i

\* An alert is only listed above a newer one of its tenant (stored and broadcast after
\* it) because one message brought both: never by a load, late or not, and never
\* because an old alert came late, however loads and messages overlap.
OlderAbove(rows) ==
    {p \in Alerts \X Alerts :
        /\ p[1] < p[2] /\ OwnerOf[p[1]] = OwnerOf[p[2]]
        /\ \E i, j \in DOMAIN rows : i < j /\ rows[i] = p[1] /\ rows[j] = p[2]
        /\ StoredBefore(p[1], p[2])}

OlderAboveOnlyInBatches ==
    [][list' # list => \A p \in OlderAbove(list') \ OlderAbove(list) :
           /\ p[1] \in (got + 1)..got' /\ p[2] \in (got + 1)..got'
           /\ {p[1], p[2]} \cap ToSet(list) = {}]_vars

\* What the user selected stays selected: apart from the user, only calls of fetchData
\* that began before anything was selected change it, and each of them only once.
SelectionIsKept ==
    [][selected # None /\ selected' # selected =>
           \/ blind' < blind
           \/ \E ip \in Ips : SelectFromLeaderboard(ip) \/ SelectFromSources(ip)]_vars
=============================================================================
