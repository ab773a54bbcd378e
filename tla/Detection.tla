----------------------------- MODULE Detection -----------------------------
(***************************************************************************)
(* The two detectors the workers run on every event: DetectBruteForce and  *)
(* DetectWebScan.  Each keeps, under its own mutex, one entry per key with *)
(* a counter and the time of the last attempt, and raises an alert when    *)
(* the counter reaches the threshold.  Time is the server's clock when the *)
(* event is analysed, not the timestamp in the event.                      *)
(*                                                                         *)
(* A key is the text  tenant ":" ip .  A text is modelled as the sequence  *)
(* of its parts between colons, so that joining two texts with a colon is  *)
(* concatenation.  An IPv6 address has several parts, and so may a tenant  *)
(* name have, as nothing is asked of it: two sources may share an entry.   *)
(***************************************************************************)
EXTENDS Integers, Sequences, FiniteSets, SequencesExt

CONSTANTS
    Words,       \* texts without a colon
    Tenants,     \* tenant names
    Addresses,   \* values of the ip_address field
    Types,       \* values of event_type
    Origins,     \* values of source
    Paths,       \* values of payload.path
    NoPath,      \* the payload has no path, or one that is not a string
    NoEntry,     \* the key is not in the map
    Threshold,   \* attempts that raise an alert: 5
    Window,      \* longest pause between two attempts of one attack: 1 minute
    MaxTime,     \* bound on the clock
    MaxSeen      \* bound on the attempts of all sources

\* Every text has a part, if an empty one.
Texts == Seq(Words) \ {<<>>}

ASSUME TextAssumption == Tenants \subseteq Texts /\ Addresses \subseteq Texts
ASSUME WordAssumption == "" \in Words /\ "unknown" \in Words
ASSUME ThresholdAssumption == Threshold \in Nat \ {0, 1}
ASSUME WindowAssumption == Window \in Nat
ASSUME BoundAssumption == MaxTime \in Nat /\ MaxSeen \in Nat

Empty == <<"">>
Unknown == <<"unknown">>

Events == [tenant : Tenants, ip : Addresses, type : Types, source : Origins,
           path : Paths \cup {NoPath}]

Sources == [tenant : Tenants, ip : Addresses \cup {Unknown}]

\* A plausible mistake: a key without the address.
KeyOfTenant(s) == s.tenant

Key(s) == s.tenant \o s.ip
Keys == {Key(s) : s \in Sources}

Detectors == {"BRUTE_FORCE", "WEB_SCAN"}

Entries == [count : 0..(Threshold - 1), last : Nat]
ASSUME NoEntryAssumption == NoEntry \notin Entries

VARIABLES
    now,        \* the clock
    tracker,    \* tracker["BRUTE_FORCE"] is failedLogins, tracker["WEB_SCAN"] scanMap
    seen,       \* history: seen[d][k] are the attempts counted under key k
    alerted     \* history: those of them, by their number, that raised an alert

vars == <<now, tracker, seen, alerted>>

\* Who made an attempt, and when.  An alert names the source of the attempt that
\* raised it.
Attempts == [by : Sources, at : Nat]

\* How many attempts were counted.
Seen == Cardinality(UNION {{<<d, k>>} \X DOMAIN seen[d][k] : d \in Detectors, k \in Keys})

TypeOK ==
    /\ now \in 0..MaxTime
    /\ tracker \in [Detectors -> [Keys -> Entries \cup {NoEntry}]]
    /\ seen \in [Detectors -> [Keys -> Seq(Attempts)]]
    /\ alerted \in [Detectors -> [Keys -> SUBSET Nat]]

Init ==
    /\ now = 0
    /\ tracker = [d \in Detectors |-> [k \in Keys |-> NoEntry]]
    /\ seen = [d \in Detectors |-> [k \in Keys |-> <<>>]]
    /\ alerted = [d \in Detectors |-> [k \in Keys |-> {}]]

-----------------------------------------------------------------------------
Tick ==
    /\ now < MaxTime
    /\ now' = now + 1
    /\ UNCHANGED <<tracker, seen, alerted>>

(* Plausible mistakes, not part of Next.                                    *)

\* The counter survives the alert it raised.
RecordWithoutReset(d, s, count, raises) ==
    /\ Seen < MaxSeen
    /\ tracker' = [tracker EXCEPT ![d][Key(s)] = [count |-> count, last |-> now]]
    /\ seen' = [seen EXCEPT ![d][Key(s)] = Append(@, [by |-> s, at |-> now])]
    /\ alerted' = [alerted EXCEPT ![d][Key(s)] =
           IF raises THEN @ \cup {Len(seen[d][Key(s)]) + 1} ELSE @]
    /\ UNCHANGED now

ExpiredAtWindow(entry) == now - entry.last >= Window

-----------------------------------------------------------------------------
\* Entry of the key: overwritten in full by every attempt that is counted.
Record(d, s, count, raises) ==
    /\ Seen < MaxSeen
    /\ tracker' = [tracker EXCEPT ![d][Key(s)] =
           [count |-> IF raises THEN 0 ELSE count, last |-> now]]
    /\ seen' = [seen EXCEPT ![d][Key(s)] = Append(@, [by |-> s, at |-> now])]
    /\ alerted' = [alerted EXCEPT ![d][Key(s)] =
           IF raises THEN @ \cup {Len(seen[d][Key(s)]) + 1} ELSE @]
    /\ UNCHANGED now

Expired(entry) == now - entry.last > Window

\* A pause starts the count again at one, without looking at the threshold.
DetectBruteForce(e) ==
    /\ e.type = "auth_failure"
    /\ e.ip \notin {Empty, Unknown}
    /\ LET s == [tenant |-> e.tenant, ip |-> e.ip]
           entry == tracker["BRUTE_FORCE"][Key(s)]
           first == entry = NoEntry \/ Expired(entry)
           count == IF first THEN 1 ELSE entry.count + 1
       IN Record("BRUTE_FORCE", s, count, ~first /\ count >= Threshold)

SuspiciousPaths == {"/admin", "/wp-admin", "/wp-login.php", "/phpmyadmin",
                    "/.env", "/.git/config", "/config.php", "/backup.zip"}

\* A pause resets the count to zero and the attempt is then counted as usual.
DetectWebScan(e) ==
    /\ e.source = "nginx"
    /\ e.path # NoPath /\ e.path \in SuspiciousPaths
    /\ LET s == [tenant |-> e.tenant, ip |-> IF e.ip = Empty THEN Unknown ELSE e.ip]
           entry == tracker["WEB_SCAN"][Key(s)]
           count == IF entry = NoEntry THEN 1
                    ELSE (IF Expired(entry) THEN 0 ELSE entry.count) + 1
       IN Record("WEB_SCAN", s, count, entry # NoEntry /\ count >= Threshold)

\* An event that a detector does not look at leaves everything unchanged.
Next == Tick \/ \E e \in Events : DetectBruteForce(e) \/ DetectWebScan(e)

Spec == Init /\ [][Next]_vars

-----------------------------------------------------------------------------
\* No pause longer than the window between attempts a to b of t.
Chained(t, a, b) == \A j \in a..(b - 1) : t[j + 1].at - t[j].at <= Window

\* Whether attempts of the sources r and s may count together: those of one source
\* do, and those of two whose tenant names are a name and the same name with a colon
\* and more after it, as "acme" and "acme:fe80" are.
MayShare(r, s) ==
    r = s \/ IsStrictPrefix(r.tenant, s.tenant) \/ IsStrictPrefix(s.tenant, r.tenant)

\* An alert is deserved: it rests on Threshold attempts without a pause, none of
\* which has served for an earlier alert.  They were made by the source that it
\* names, or by one that may share its entry.  So another address of the tenant
\* never helps, nor another tenant where no tenant name has a colon, however many
\* colons the addresses have.
AlertJustified ==
    \A d \in Detectors, k \in Keys : \A m \in alerted[d][k] :
        LET t == seen[d][k]
            rests == (m - Threshold + 1)..m
        IN  /\ m \in Threshold..Len(t)
            /\ Chained(t, m - Threshold + 1, m)
            /\ rests \cap alerted[d][k] = {m}
            /\ \A j \in rests : MayShare(t[j].by, t[m].by)

\* No attack goes unnoticed: among any Threshold successive attempts under one key
\* without a pause there is one that raised an alert, though it may name another
\* source of the key.
AttackNoticed ==
    \A d \in Detectors, k \in Keys : \A n \in Threshold..Len(seen[d][k]) :
        Chained(seen[d][k], n - Threshold + 1, n) =>
            \E j \in (n - Threshold + 1)..n : j \in alerted[d][k]

\* The last c of the attempts t are a stretch: no pause and no alert in it, and
\* it cannot be made longer, because an alert or a pause comes before it.
Stretch(c, t, raised) ==
    LET n == Len(t)
    IN /\ c \in 0..n /\ c < Threshold
       /\ Chained(t, n - c + 1, n)
       /\ \A j \in (n - c + 1)..n : j \notin raised
       /\ \/ n = c
          \/ n - c \in raised
          \/ c > 0 /\ t[n - c + 1].at - t[n - c].at > Window

\* An entry tells of the attempts under its key exactly the length of the last
\* stretch and the time of the last attempt.
EntryMeaning(entry, t, raised) ==
    IF entry = NoEntry THEN t = <<>> /\ raised = {}
    ELSE t # <<>> /\ entry.last = t[Len(t)].at /\ Stretch(entry.count, t, raised)

EntriesMeanAttempts ==
    \A d \in Detectors, k \in Keys :
        EntryMeaning(tracker[d][k], seen[d][k], alerted[d][k])
=============================================================================
