------------------------- MODULE RateLimiterProofs -------------------------
(***************************************************************************)
(* For every limit and window: never more than twice the limit passes in a *)
(* minute, and every refusal has its reason.  The invariant says what the  *)
(* entry of an address knows of the requests it let through; everything is *)
(* proved for the entry, the times and the refusals of one address first.  *)
(***************************************************************************)
EXTENDS RateLimiter, TLAPS

\* How many of the requests let through fall into the current window.
InWindow(entry) == IF entry.requests <= Limit THEN entry.requests ELSE Limit

\* Of the times t, the last m are those of the window that began at start, the
\* others are not later than start, and another window of Limit requests lies
\* between start and all that come Limit before it.
Windows(m, start, t, n) ==
    /\ m \in 1..Limit /\ m <= n /\ n = Len(t)
    /\ \A i \in (n - m + 1)..n : start <= t[i]
    /\ \A i \in 1..(n - m) : t[i] <= start
    /\ \A i \in 1..(n - m - Limit) : start - t[i] > Window

Bounded(t) == \A i \in 1..(Len(t) - 2 * Limit) : t[i + 2 * Limit] - t[i] > Window

Deserved(r, t) ==
    \A x \in r : \E i \in 0..(Len(t) - Limit) :
        \A j \in (i + 1)..(i + Limit) : x - t[j] \in 0..Window

EntryInv(entry, t, r) ==
    /\ entry \in Entries \cup {NoEntry}
    /\ t \in Seq(Nat) /\ r \in SUBSET Nat
    /\ \A i \in 1..Len(t) : t[i] <= now
    /\ Bounded(t) /\ Deserved(r, t)
    /\ IF entry = NoEntry THEN t = <<>>
       ELSE entry.lastSeen <= now /\ Windows(InWindow(entry), entry.lastSeen, t, Len(t))

IInv == TypeOK /\ \A a \in Addresses : EntryInv(clients[a], admitted[a], refused[a])

-----------------------------------------------------------------------------
LEMMA Sizes == /\ Limit \in Int /\ Limit >= 1 /\ Window \in Int /\ Window >= 0
               /\ MaxTime \in Int
  BY LimitAssumption, BoundAssumption

\* A request more, at time x: the bound on any minute survives if x is more than
\* a window later than the request 2 * Limit before it.
LEMMA BoundedAppend ==
    ASSUME NEW t \in Seq(Nat), NEW x \in Nat, Bounded(t),
           \A i \in 1..Len(t) : i + 2 * Limit = Len(t) + 1 => x - t[i] > Window
    PROVE  Bounded(Append(t, x))
<1>0. Len(t) \in Nat /\ Len(Append(t, x)) = Len(t) + 1
  OBVIOUS
<1> SUFFICES ASSUME NEW i \in 1..(Len(Append(t, x)) - 2 * Limit)
             PROVE  Append(t, x)[i + 2 * Limit] - Append(t, x)[i] > Window
  BY Zenon DEF Bounded
<1>1. i \in 1..Len(t) /\ Append(t, x)[i] = t[i]
  BY <1>0, Sizes
<1>2. CASE i + 2 * Limit = Len(t) + 1
  BY <1>1, <1>2
<1>3. CASE i + 2 * Limit <= Len(t)
  <2>1. i + 2 * Limit \in 1..Len(t)
    BY <1>1, <1>3, Sizes
  <2> QED
    BY <1>1, <2>1, <1>3, Sizes DEF Bounded
<1> QED
  BY <1>0, <1>2, <1>3, Sizes

\* Refusals stay deserved when more requests are let through.
LEMMA DeservedAppend ==
    ASSUME NEW t \in Seq(Nat), NEW x \in Nat, NEW r, Deserved(r, t)
    PROVE  Deserved(r, Append(t, x))
<1> SUFFICES ASSUME NEW y \in r
             PROVE  \E i \in 0..(Len(Append(t, x)) - Limit) :
                        \A j \in (i + 1)..(i + Limit) : y - Append(t, x)[j] \in 0..Window
  BY DEF Deserved
<1>1. PICK i \in 0..(Len(t) - Limit) :
          \A j \in (i + 1)..(i + Limit) : y - t[j] \in 0..Window
  BY DEF Deserved
<1>2. \A j \in (i + 1)..(i + Limit) : j \in 1..Len(t) /\ Append(t, x)[j] = t[j]
  BY Sizes
<1>3. i \in 0..(Len(Append(t, x)) - Limit)
  BY Sizes
<1> QED
  BY <1>1, <1>2, <1>3

\* A new window: x is more than a window later than the beginning of the last.
LEMMA NewWindow ==
    ASSUME NEW t \in Seq(Nat), NEW x \in Nat, NEW m \in Nat, NEW start \in Nat,
           Windows(m, start, t, Len(t)), x - start > Window,
           \A i \in 1..Len(t) : t[i] <= x
    PROVE  /\ Windows(1, x, Append(t, x), Len(t) + 1)
           /\ \A i \in 1..Len(t) : i + 2 * Limit = Len(t) + 1 => x - t[i] > Window
<1>1. ASSUME NEW i \in 1..Len(t), i <= Len(t) - Limit
      PROVE  x - t[i] > Window
  <2>1. i \in 1..(Len(t) - m) /\ t[i] \in Nat
    BY <1>1, Sizes DEF Windows
  <2>2. t[i] <= start
    BY <2>1 DEF Windows
  <2> QED
    BY <2>1, <2>2, Sizes
<1>2. \A i \in 1..Len(t) : Append(t, x)[i] = t[i]
  OBVIOUS
<1>3. Append(t, x)[Len(t) + 1] = x /\ Len(Append(t, x)) = Len(t) + 1
  OBVIOUS
<1>4. Windows(1, x, Append(t, x), Len(t) + 1)
  BY <1>1, <1>2, <1>3, Sizes DEF Windows
<1> QED
  BY <1>1, <1>4, Sizes

\* A request more in the same window.
LEMMA SameWindow ==
    ASSUME NEW t \in Seq(Nat), NEW x \in Nat, NEW m \in Nat, NEW start \in Nat,
           Windows(m, start, t, Len(t)), m < Limit, start <= x
    PROVE  /\ Windows(m + 1, start, Append(t, x), Len(t) + 1)
           /\ \A i \in 1..Len(t) : i + 2 * Limit = Len(t) + 1 => x - t[i] > Window
<1>1. \A i \in 1..Len(t) : Append(t, x)[i] = t[i]
  OBVIOUS
<1>2. Append(t, x)[Len(t) + 1] = x /\ Len(Append(t, x)) = Len(t) + 1
  OBVIOUS
<1>3. ASSUME NEW i \in (Len(t) - m + 1)..(Len(t) + 1)
      PROVE  start <= Append(t, x)[i]
  <2>1. CASE i = Len(t) + 1
    BY <2>1, <1>2
  <2>2. CASE i \in (Len(t) - m + 1)..Len(t)
    <3>1. i \in 1..Len(t)
      BY <2>2 DEF Windows
    <3> QED
      BY <2>2, <3>1, <1>1 DEF Windows
  <2>3. Len(t) \in Nat /\ m \in Int
    OBVIOUS
  <2>4. i \in Int /\ i >= Len(t) - m + 1 /\ i <= Len(t) + 1
    BY <2>3
  <2>5. i = Len(t) + 1 \/ i \in (Len(t) - m + 1)..Len(t)
    BY <2>3, <2>4
  <2> QED
    BY <2>1, <2>2, <2>5
<1>4. Windows(m + 1, start, Append(t, x), Len(t) + 1)
  <2>1. \A i \in 1..(Len(t) - m) : i \in 1..Len(t)
    OBVIOUS
  <2>2. \A i \in 1..(Len(t) - m - Limit) : i \in 1..Len(t)
    BY Sizes
  <2>3. /\ (Len(t) + 1) - (m + 1) = Len(t) - m
        /\ (Len(t) + 1) - (m + 1) + 1 = Len(t) - m + 1
        /\ (Len(t) + 1) - (m + 1) - Limit = Len(t) - m - Limit
    BY Sizes
  <2>4. m + 1 \in 1..Limit /\ m + 1 <= Len(t) + 1
    BY Sizes DEF Windows
  <2>5. \A i \in 1..(Len(t) - m) : Append(t, x)[i] <= start
    BY <1>1, <2>1 DEF Windows
  <2>6. \A i \in 1..(Len(t) - m - Limit) : start - Append(t, x)[i] > Window
    BY <1>1, <2>2 DEF Windows
  <2>7. \A i \in ((Len(t) + 1) - (m + 1) + 1)..(Len(t) + 1) : start <= Append(t, x)[i]
    BY <1>3, <2>3
  <2>8. \A i \in 1..((Len(t) + 1) - (m + 1)) : Append(t, x)[i] <= start
    BY <2>3, <2>5
  <2>9. \A i \in 1..((Len(t) + 1) - (m + 1) - Limit) : start - Append(t, x)[i] > Window
    BY <2>3, <2>6
  <2>10. Len(t) + 1 = Len(Append(t, x))
    BY <1>2
  <2> QED
    BY <2>4, <2>7, <2>8, <2>9, <2>10 DEF Windows
<1>5. ASSUME NEW i \in 1..Len(t), i + 2 * Limit = Len(t) + 1
      PROVE  x - t[i] > Window
  <2>1. i \in 1..(Len(t) - m - Limit) /\ t[i] \in Nat
    BY <1>5, Sizes
  <2>2. start - t[i] > Window
    BY <2>1 DEF Windows
  <2> QED
    BY <2>1, <2>2, Sizes
<1> QED
  BY <1>4, <1>5

-----------------------------------------------------------------------------
LEMMA InitIInv == Init => IInv
<1> SUFFICES ASSUME Init PROVE IInv
  OBVIOUS
<1>1. TypeOK
  BY BoundAssumption DEF Init, TypeOK
<1>2. ASSUME NEW a \in Addresses PROVE EntryInv(clients[a], admitted[a], refused[a])
  <2>1. clients[a] = NoEntry /\ admitted[a] = <<>> /\ refused[a] = {}
    BY DEF Init
  <2>2. Bounded(<<>>) /\ Deserved({}, <<>>)
    BY Sizes DEF Bounded, Deserved
  <2> QED
    BY <2>1, <2>2 DEF EntryInv
<1> QED
  BY <1>1, <1>2 DEF IInv

LEMMA CountedTyped ==
    ASSUME TypeOK, NEW a \in Addresses PROVE Counted(a) \in Entries
  BY BoundAssumption DEF TypeOK, Counted, Entries

LEMMA NextTyped == TypeOK /\ [Next]_vars => TypeOK'
<1> SUFFICES ASSUME TypeOK, [Next]_vars PROVE TypeOK'
  OBVIOUS
<1>1. CASE Tick
  BY <1>1, Sizes DEF TypeOK, Tick
<1>2. ASSUME NEW a \in Addresses, Admit(a) PROVE TypeOK'
  <2>1. now \in Nat
    BY Sizes DEF TypeOK
  <2> QED
    BY <1>2, <2>1, CountedTyped DEF TypeOK, Admit
<1>3. ASSUME NEW a \in Addresses, Refuse(a) PROVE TypeOK'
  <2>1. now \in Nat
    BY Sizes DEF TypeOK
  <2> QED
    BY <1>3, <2>1, CountedTyped DEF TypeOK, Refuse
<1>4. CASE UNCHANGED vars
  BY <1>4 DEF TypeOK, vars
<1> QED
  BY <1>1, <1>2, <1>3, <1>4 DEF Next, RateLimit

\* A request that is let through.
LEMMA AdmitOne ==
    ASSUME TypeOK, NEW a \in Addresses, ~Exceeds(Counted(a).requests),
           EntryInv(clients[a], admitted[a], refused[a])
    PROVE  EntryInv(Counted(a), Append(admitted[a], now), refused[a])
<1> DEFINE t == admitted[a]
<1>1. /\ t \in Seq(Nat) /\ now \in Nat /\ refused[a] \in SUBSET Nat
      /\ \A i \in 1..Len(t) : t[i] <= now
      /\ Bounded(t) /\ Deserved(refused[a], t)
  BY Sizes DEF TypeOK, EntryInv
<1>2. Counted(a) \in Entries /\ Counted(a) # NoEntry
  BY CountedTyped, NoEntryAssumption
<1>3. Append(t, now) \in Seq(Nat) /\ Len(Append(t, now)) = Len(t) + 1
  BY <1>1
<1>4. \A i \in 1..Len(Append(t, now)) : Append(t, now)[i] <= now
  BY <1>1
<1>5. /\ Counted(a).lastSeen <= now
      /\ Windows(InWindow(Counted(a)), Counted(a).lastSeen, Append(t, now), Len(t) + 1)
      /\ \A i \in 1..Len(t) : i + 2 * Limit = Len(t) + 1 => now - t[i] > Window
  <2>1. CASE clients[a] = NoEntry
    <3>1. t = <<>> /\ Counted(a).lastSeen = now /\ Counted(a).requests = 1
      BY <2>1 DEF EntryInv, Counted
    <3>2. Windows(1, now, Append(<<>>, now), 0 + 1)
      BY <1>1, Sizes DEF Windows
    <3>3. InWindow(Counted(a)) = 1
      BY <3>1, Sizes DEF InWindow
    <3> QED
      BY <3>1, <3>2, <3>3, <1>1
  <2>2. CASE clients[a] # NoEntry
    <3>1. /\ clients[a] \in Entries /\ clients[a].lastSeen \in Nat
          /\ clients[a].requests \in Nat \ {0} /\ clients[a].lastSeen <= now
          /\ InWindow(clients[a]) \in Nat
          /\ Windows(InWindow(clients[a]), clients[a].lastSeen, t, Len(t))
      BY <2>2, Sizes DEF EntryInv, Entries, InWindow
    <3>2. CASE now - clients[a].lastSeen > Window
      <4>1. Counted(a).lastSeen = now /\ Counted(a).requests = 1
        BY <3>2 DEF Counted
      <4>2. InWindow(Counted(a)) = 1
        BY <4>1, Sizes DEF InWindow
      <4>3. /\ Windows(1, now, Append(t, now), Len(t) + 1)
            /\ \A i \in 1..Len(t) : i + 2 * Limit = Len(t) + 1 => now - t[i] > Window
        BY <3>1, <3>2, <1>1, NewWindow
      <4> QED
        BY <4>1, <4>2, <4>3, <1>1
    <3>3. CASE ~(now - clients[a].lastSeen > Window)
      <4>1. /\ Counted(a).lastSeen = clients[a].lastSeen
            /\ Counted(a).requests = clients[a].requests + 1
        BY <2>2, <3>3, <3>1 DEF Counted, Entries
      <4>2. /\ InWindow(clients[a]) < Limit
            /\ InWindow(Counted(a)) = InWindow(clients[a]) + 1
        BY <4>1, <3>1, Sizes DEF InWindow, Exceeds
      <4> QED
        BY <4>1, <4>2, <3>1, <1>1, SameWindow
    <3> QED
      BY <3>2, <3>3
  <2> QED
    BY <2>1, <2>2
<1>6. Bounded(Append(t, now))
  BY <1>1, <1>5, BoundedAppend
<1>7. Deserved(refused[a], Append(t, now))
  BY <1>1, DeservedAppend
<1> QED
  BY <1>1, <1>2, <1>3, <1>4, <1>5, <1>6, <1>7 DEF EntryInv

\* A request that is refused.
LEMMA RefuseOne ==
    ASSUME TypeOK, NEW a \in Addresses, Exceeds(Counted(a).requests),
           EntryInv(clients[a], admitted[a], refused[a])
    PROVE  EntryInv(Counted(a), admitted[a], refused[a] \cup {now})
<1> DEFINE t == admitted[a]
<1>1. t \in Seq(Nat) /\ now \in Nat /\ \A i \in 1..Len(t) : t[i] <= now /\ t[i] \in Nat
  BY Sizes DEF TypeOK, EntryInv
<1>2. Counted(a) \in Entries /\ Counted(a) # NoEntry
  BY CountedTyped, NoEntryAssumption
<1>3. /\ clients[a] # NoEntry /\ ~(now - clients[a].lastSeen > Window)
  BY Sizes DEF Counted, Exceeds
<1>4. /\ clients[a] \in Entries /\ clients[a].lastSeen \in Nat
      /\ clients[a].requests \in Nat \ {0} /\ clients[a].lastSeen <= now
      /\ Windows(InWindow(clients[a]), clients[a].lastSeen, t, Len(t))
  BY <1>3 DEF EntryInv, Entries
<1>5. /\ Counted(a).lastSeen = clients[a].lastSeen
      /\ Counted(a).requests = clients[a].requests + 1
  BY <1>3, <1>4 DEF Counted, Entries
<1>6. InWindow(Counted(a)) = Limit /\ InWindow(clients[a]) = Limit
  BY <1>4, <1>5, Sizes DEF Exceeds, InWindow
<1>7. Deserved(refused[a] \cup {now}, t)
  <2>1. Limit <= Len(t) /\ Len(t) \in Nat
    BY <1>1, <1>4, <1>6 DEF Windows
  <2>2. \A j \in (Len(t) - Limit + 1)..Len(t) :
            j \in 1..Len(t) /\ now - t[j] \in 0..Window
    <3> SUFFICES ASSUME NEW j \in (Len(t) - Limit + 1)..Len(t)
                 PROVE  j \in 1..Len(t) /\ now - t[j] \in 0..Window
      OBVIOUS
    <3>1. j \in 1..Len(t)
      BY <2>1, Sizes
    <3>2. clients[a].lastSeen <= t[j]
      BY <1>4, <1>6 DEF Windows
    <3>3. t[j] \in Nat /\ t[j] <= now
      BY <3>1, <1>1
    <3>4. ~(now - clients[a].lastSeen > Window) /\ clients[a].lastSeen \in Nat
      BY <1>3, <1>4
    <3> HIDE DEF t
    <3>5. \A x \in Nat : clients[a].lastSeen <= x /\ x <= now => now - x \in 0..Window
      BY <3>4, <1>1, Sizes
    <3> QED
      BY <3>1, <3>2, <3>3, <3>5
  <2>3. \A j \in (Len(t) - Limit + 1)..(Len(t) - Limit + Limit) : now - t[j] \in 0..Window
    BY <2>1, <2>2, Sizes
  <2>4. Len(t) - Limit \in 0..(Len(t) - Limit)
    BY <2>1, Sizes
  <2>5. Deserved(refused[a], t)
    BY DEF EntryInv
  <2> QED
    BY <2>3, <2>4, <2>5 DEF Deserved
<1> QED
  BY <1>1, <1>2, <1>4, <1>5, <1>6, <1>7 DEF EntryInv

\* Time passes.
LEMMA LaterOne ==
    ASSUME TypeOK, TypeOK', now <= now', NEW entry, NEW t, NEW r, EntryInv(entry, t, r)
    PROVE  EntryInv(entry, t, r)'
<1>1. now \in Int /\ now' \in Int
  BY Sizes DEF TypeOK
<1>2. t \in Seq(Nat) /\ \A i \in 1..Len(t) : t[i] \in Nat /\ t[i] <= now
  BY DEF EntryInv
<1>3. \A i \in 1..Len(t) : t[i] <= now'
  BY <1>1, <1>2
<1>4. entry # NoEntry => entry.lastSeen \in Nat /\ entry.lastSeen <= now'
  BY <1>1 DEF EntryInv, Entries
<1> QED
  BY <1>2, <1>3, <1>4 DEF EntryInv

LEMMA NextIInv == IInv /\ [Next]_vars => IInv'
<1> SUFFICES ASSUME IInv, [Next]_vars PROVE IInv'
  OBVIOUS
<1>1. TypeOK /\ TypeOK'
  BY NextTyped DEF IInv
<1>2. \A a \in Addresses : EntryInv(clients[a], admitted[a], refused[a])
  BY DEF IInv
<1>3. ASSUME NEW b \in Addresses
      PROVE  EntryInv(clients[b], admitted[b], refused[b])'
  <2>1. CASE Tick \/ UNCHANGED vars
    <3>1. /\ now <= now' /\ clients'[b] = clients[b] /\ admitted'[b] = admitted[b]
          /\ refused'[b] = refused[b]
      BY <2>1, <1>1, Sizes DEF Tick, vars, TypeOK
    <3> QED
      BY <3>1, <1>1, <1>2, LaterOne DEF EntryInv
  <2>2. ASSUME NEW a \in Addresses, RateLimit(a), a # b
        PROVE  EntryInv(clients[b], admitted[b], refused[b])'
    <3>1. /\ now' = now /\ clients'[b] = clients[b] /\ admitted'[b] = admitted[b]
          /\ refused'[b] = refused[b]
      BY <2>2, <1>1 DEF RateLimit, Admit, Refuse, TypeOK
    <3> QED
      BY <3>1, <1>2 DEF EntryInv
  <2>3. CASE Admit(b)
    <3>1. /\ now' = now /\ clients'[b] = Counted(b) /\ refused'[b] = refused[b]
          /\ admitted'[b] = Append(admitted[b], now) /\ ~Exceeds(Counted(b).requests)
      BY <2>3, <1>1 DEF Admit, TypeOK
    <3>2. EntryInv(Counted(b), Append(admitted[b], now), refused[b])
      BY <3>1, <1>1, <1>2, AdmitOne
    <3> QED
      BY <3>1, <3>2 DEF EntryInv
  <2>4. CASE Refuse(b)
    <3>1. /\ now' = now /\ clients'[b] = Counted(b) /\ admitted'[b] = admitted[b]
          /\ refused'[b] = refused[b] \cup {now} /\ Exceeds(Counted(b).requests)
      BY <2>4, <1>1 DEF Refuse, TypeOK
    <3>2. EntryInv(Counted(b), admitted[b], refused[b] \cup {now})
      BY <3>1, <1>1, <1>2, RefuseOne
    <3> QED
      BY <3>1, <3>2 DEF EntryInv
  <2> QED
    BY <2>1, <2>2, <2>3, <2>4 DEF Next, RateLimit
<1> QED
  BY <1>1, <1>3 DEF IInv

\* The rate limiter has its types in every reachable state.
THEOREM LimiterTyped == Spec => []TypeOK
<1>1. IInv => TypeOK
  BY DEF IInv
<1> QED
  BY InitIInv, NextIInv, <1>1, PTL DEF Spec

\* RateLimit lets no address have more than twice Limit requests in any stretch
\* of time as long as Window.
THEOREM BurstsAreBounded == Spec => []BurstBounded
<1>1. IInv => BurstBounded
  BY DEF IInv, EntryInv, Bounded, BurstBounded
<1> QED
  BY InitIInv, NextIInv, <1>1, PTL DEF Spec

\* RateLimit answers 429 only to an address that had Limit requests let through
\* within the Window before.
THEOREM RefusalsAreDeserved == Spec => []RefusedForAReason
<1>1. IInv => RefusedForAReason
  BY DEF IInv, EntryInv, Deserved, RefusedForAReason
<1> QED
  BY InitIInv, NextIInv, <1>1, PTL DEF Spec
=============================================================================
