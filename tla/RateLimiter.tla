---------------------------- MODULE RateLimiter ----------------------------
(***************************************************************************)
(* middleware.RateLimit: one entry per r.RemoteAddr, with the time at which *)
(* its window began and the requests counted in it.  Handler goroutines    *)
(* share the map under one mutex that each request takes once, so that a   *)
(* request is one step.  Entries are never removed, and a restart empties  *)
(* the map, which is the initial state.                                    *)
(*                                                                         *)
(* RemoteAddr is host and port: an address is one TCP connection.          *)
(***************************************************************************)
EXTENDS Integers, Sequences, FiniteSets

CONSTANTS
    Addresses,    \* values of r.RemoteAddr
    Limit,        \* requests per window: 100
    Window,       \* length of a window: one minute
    NoEntry,      \* the address is not in the map
    MaxTime,      \* bound on the clock
    MaxRequests   \* bound on the counter of an entry

ASSUME LimitAssumption == Limit \in Nat \ {0} /\ Window \in Nat
ASSUME BoundAssumption == MaxTime \in Nat /\ MaxRequests \in Nat

Entries == [lastSeen : Nat, requests : Nat \ {0}]
ASSUME NoEntryAssumption == NoEntry \notin Entries

VARIABLES
    now,        \* the clock
    clients,    \* the map clients
    admitted,   \* history: admitted[a] are the times of the requests let through
    refused     \* history: refused[a] are times at which one was answered 429

vars == <<now, clients, admitted, refused>>

TypeOK ==
    /\ now \in 0..MaxTime
    /\ clients \in [Addresses -> Entries \cup {NoEntry}]
    /\ admitted \in [Addresses -> Seq(Nat)]
    /\ refused \in [Addresses -> SUBSET Nat]

Init ==
    /\ now = 0
    /\ clients = [a \in Addresses |-> NoEntry]
    /\ admitted = [a \in Addresses |-> <<>>]
    /\ refused = [a \in Addresses |-> {}]

Tick ==
    /\ now < MaxTime
    /\ now' = now + 1
    /\ UNCHANGED <<clients, admitted, refused>>

(* Plausible mistakes, not part of Next: the limit is passed by one, a      *)
(* window begins again with every request, a new window counts from zero.  *)
ExceedsByTwo(requests) == requests > Limit + 1
CountedFromLast(a) ==
    LET entry == clients[a]
    IN IF entry = NoEntry \/ now - entry.lastSeen > Window
       THEN [lastSeen |-> now, requests |-> 1]
       ELSE [lastSeen |-> now, requests |-> entry.requests + 1]
CountedFromZero(a) ==
    LET entry == clients[a]
    IN IF entry = NoEntry \/ now - entry.lastSeen > Window
       THEN [lastSeen |-> now, requests |-> 0]
       ELSE [entry EXCEPT !.requests = @ + 1]

\* The entry after a request of address a: the first one makes the entry, one
\* that comes more than a window after its beginning makes it begin again.
Counted(a) ==
    LET entry == clients[a]
    IN IF entry = NoEntry \/ now - entry.lastSeen > Window
       THEN [lastSeen |-> now, requests |-> 1]
       ELSE [entry EXCEPT !.requests = @ + 1]

Exceeds(requests) == requests > Limit

\* A request that is refused is counted as well.
Admit(a) ==
    /\ Counted(a).requests <= MaxRequests
    /\ ~Exceeds(Counted(a).requests)
    /\ clients' = [clients EXCEPT ![a] = Counted(a)]
    /\ admitted' = [admitted EXCEPT ![a] = Append(@, now)]
    /\ UNCHANGED <<now, refused>>

Refuse(a) ==
    /\ Counted(a).requests <= MaxRequests
    /\ Exceeds(Counted(a).requests)
    /\ clients' = [clients EXCEPT ![a] = Counted(a)]
    /\ refused' = [refused EXCEPT ![a] = @ \cup {now}]
    /\ UNCHANGED <<now, admitted>>

RateLimit(a) == Admit(a) \/ Refuse(a)

Next == Tick \/ \E a \in Addresses : RateLimit(a)

Spec == Init /\ [][Next]_vars

-----------------------------------------------------------------------------
\* Windows are fixed, so a minute may span two of them; but never does more than
\* twice the limit pass within one minute, wherever the minute begins.
BurstBounded ==
    \A a \in Addresses : \A i \in 1..(Len(admitted[a]) - 2 * Limit) :
        admitted[a][i + 2 * Limit] - admitted[a][i] > Window

\* A refusal is deserved: Limit requests of the same address were let through in
\* the minute before it.  Refused requests never prolong the refusal, and other
\* addresses have no part in it.
RefusedForAReason ==
    \A a \in Addresses : \A t \in refused[a] :
        \E i \in 0..(Len(admitted[a]) - Limit) : \A j \in (i + 1)..(i + Limit) :
            t - admitted[a][j] \in 0..Window
=============================================================================
