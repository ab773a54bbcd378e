----------------------------- MODULE AlertFeed -----------------------------
(***************************************************************************)
(* What the hub promises its dashboards, without a batch, a mutex or a     *)
(* write that may fail: a connection joins at a mark beyond everything     *)
(* that was handed to anyone so far, and is from then on handed the alerts *)
(* after its mark, in the order of their publication, until it leaves.     *)
(* When it is handed them, and how many at once, is left open.             *)
(***************************************************************************)
EXTENDS Integers, Sequences

CONSTANT Conns      \* the connections that are ever opened

VARIABLES
    count,          \* how many alerts were published
    members,        \* the connections that get them
    given,          \* given[c]: the alerts handed to c, in order
    mark            \* mark[c]: the last alert that member c no longer waits for

vars == <<count, members, given, mark>>

Init ==
    /\ count = 0 /\ members = {}
    /\ given = [c \in Conns |-> <<>>]
    /\ mark = [c \in Conns |-> 0]

Publish == count' = count + 1 /\ UNCHANGED <<members, given, mark>>

\* The alerts between two marks.
Between(m, n) == [i \in 1..(n - m) |-> m + i]

\* Who comes back is a connection of its own, to which nothing is handed again.
Join(c) ==
    /\ c \notin members /\ given[c] = <<>>
    /\ \E m \in 0..count :
           /\ \A d \in Conns : \A i \in 1..Len(given[d]) : given[d][i] <= m
           /\ mark' = [mark EXCEPT ![c] = m]
    /\ members' = members \cup {c}
    /\ UNCHANGED <<count, given>>

Give(c) ==
    /\ c \in members
    /\ \E n \in (mark[c] + 1)..count :
           /\ given' = [given EXCEPT ![c] = @ \o Between(mark[c], n)]
           /\ mark' = [mark EXCEPT ![c] = n]
    /\ UNCHANGED <<count, members>>

Leave(c) ==
    /\ c \in members
    /\ members' = members \ {c} /\ mark' = [mark EXCEPT ![c] = 0]
    /\ UNCHANGED <<count, given>>

Next == Publish \/ \E c \in Conns : Join(c) \/ Give(c) \/ Leave(c)

Spec == Init /\ [][Next]_vars
=============================================================================
