-------------------------- MODULE DetectionProofs --------------------------
(***************************************************************************)
(* The detectors raise an alert for every attack and for nothing else, for *)
(* every set of tenants and addresses, every threshold above one and every *)
(* window.                                                                 *)
(***************************************************************************)
EXTENDS Detection, SequenceTheorems, TLAPS

(***************************************************************************)
(* Keys.  Two sources share one only if the tenant name of the one is the  *)
(* beginning, up to a colon, of that of the other.                         *)
(***************************************************************************)
LEMMA SourceTexts ==
    ASSUME NEW s \in Sources
    PROVE  s.tenant \in Seq(Words) /\ s.ip \in Seq(Words)
<1>1. s.tenant \in Tenants /\ s.ip \in Addresses \cup {Unknown}
  BY DEF Sources
<1>2. Unknown \in Seq(Words)
  <2>1. "unknown" \in Words
    BY WordAssumption
  <2> QED BY <2>1 DEF Unknown
<1> QED BY <1>1, <1>2, TextAssumption DEF Texts

\* Two texts joined are the one and then the other, part by part.
LEMMA JoinedParts ==
    ASSUME NEW a \in Seq(Words), NEW b \in Seq(Words)
    PROVE  /\ Len(a) \in Nat /\ Len(b) \in Nat /\ Len(a \o b) = Len(a) + Len(b)
           /\ \A i \in 1..Len(a) : (a \o b)[i] = a[i]
           /\ \A i \in 1..Len(b) : (a \o b)[Len(a) + i] = b[i]
<1>1. Len(a) \in Nat /\ Len(b) \in Nat /\ Len(a \o b) = Len(a) + Len(b)
  OBVIOUS
<1>2. ASSUME NEW i \in 1..Len(a) PROVE (a \o b)[i] = a[i]
  OBVIOUS
<1>3. ASSUME NEW i \in 1..Len(b) PROVE (a \o b)[Len(a) + i] = b[i]
  OBVIOUS
<1> QED BY <1>1, <1>2, <1>3

\* Names of the same length: the joined texts are the same.
LEMMA SameLength ==
    ASSUME NEW a \in Seq(Words), NEW b \in Seq(Words), NEW c \in Seq(Words),
           NEW d \in Seq(Words), a \o b = c \o d, Len(a) = Len(c)
    PROVE  a = c /\ b = d
<1>1. Len(b) = Len(d)
  <2>1. Len(a \o b) = Len(a) + Len(b) /\ Len(c \o d) = Len(c) + Len(d)
    BY JoinedParts
  <2>2. Len(a) \in Nat /\ Len(b) \in Nat /\ Len(c) \in Nat /\ Len(d) \in Nat
    OBVIOUS
  <2> QED BY <2>1, <2>2
<1>2. a = c
  <2>1. \A i \in 1..Len(a) : a[i] = c[i]
    BY JoinedParts
  <2> QED BY <2>1, SeqEqual
<1>3. b = d
  <2>1. ASSUME NEW i \in 1..Len(b) PROVE b[i] = d[i]
    <3>1. (a \o b)[Len(a) + i] = b[i]
      BY JoinedParts
    <3>2. (c \o d)[Len(c) + i] = d[i]
      BY <1>1, JoinedParts
    <3> QED BY <3>1, <3>2
  <2> QED BY <1>1, <2>1, SeqEqual
<1> QED BY <1>2, <1>3

\* A shorter name is the beginning of the longer one.
LEMMA ShorterIsPrefix ==
    ASSUME NEW a \in Seq(Words), NEW b \in Seq(Words), NEW c \in Seq(Words),
           NEW d \in Seq(Words), a \o b = c \o d, Len(a) < Len(c)
    PROVE  IsStrictPrefix(a, c)
<1>1. Len(a) \in Nat /\ Len(c) \in Nat
  OBVIOUS
<1>2. \A i \in 1..Len(a) : a[i] = c[i]
  <2>1. ASSUME NEW i \in 1..Len(a) PROVE a[i] = c[i]
    <3>1. i \in 1..Len(c)
      BY <1>1
    <3>2. (a \o b)[i] = a[i]
      BY JoinedParts
    <3>3. (c \o d)[i] = c[i]
      BY <3>1, JoinedParts
    <3> QED BY <3>2, <3>3
  <2> QED BY <2>1
<1>3. SubSeq(a, 1, Len(a)) = SubSeq(c, 1, Len(a))
  BY <1>1, <1>2
<1>4. a # c
  BY <1>1
<1> QED BY <1>1, <1>3, <1>4 DEF IsStrictPrefix, IsPrefix

LEMMA SharedKey ==
    ASSUME NEW r \in Sources, NEW s \in Sources, Key(r) = Key(s)
    PROVE  MayShare(r, s)
<1>1. /\ r.tenant \in Seq(Words) /\ r.ip \in Seq(Words)
      /\ s.tenant \in Seq(Words) /\ s.ip \in Seq(Words)
  BY SourceTexts
<1>2. r.tenant \o r.ip = s.tenant \o s.ip
  BY DEF Key
<1>3. Len(r.tenant) \in Nat /\ Len(s.tenant) \in Nat
  BY <1>1
<1>4. CASE Len(r.tenant) = Len(s.tenant)
  <2>1. r.tenant = s.tenant /\ r.ip = s.ip
    BY <1>1, <1>2, <1>4, SameLength
  <2>2. r = s
    BY <2>1 DEF Sources
  <2> QED BY <2>2 DEF MayShare
<1>5. CASE Len(r.tenant) < Len(s.tenant)
  BY <1>1, <1>2, <1>5, ShorterIsPrefix DEF MayShare
<1>6. CASE Len(s.tenant) < Len(r.tenant)
  BY <1>1, <1>2, <1>6, ShorterIsPrefix DEF MayShare
<1> QED BY <1>3, <1>4, <1>5, <1>6

-----------------------------------------------------------------------------
(***************************************************************************)
(* The argument is about one key: the attempts t that were counted under   *)
(* it and the set raised of those that raised an alert.  One more attempt, *)
(* x, makes u of t.                                                        *)
(***************************************************************************)
Justified(t, raised) ==
    \A m \in raised :
        /\ m \in Threshold..Len(t)
        /\ Chained(t, m - Threshold + 1, m)
        /\ \A j \in (m - Threshold + 1)..(m - 1) : j \notin raised

Noticed(t, raised) ==
    \A n \in Threshold..Len(t) :
        Chained(t, n - Threshold + 1, n) =>
            \E j \in (n - Threshold + 1)..n : j \in raised

LEMMA Sizes == Threshold \in Int /\ Threshold >= 2 /\ Window \in Int
  BY ThresholdAssumption, WindowAssumption

LEMMA OneMore ==
    ASSUME NEW t \in Seq(Attempts), NEW x \in Attempts
    PROVE  /\ Len(t) \in Nat /\ Append(t, x) \in Seq(Attempts)
           /\ Len(Append(t, x)) = Len(t) + 1 /\ Append(t, x)[Len(t) + 1] = x
           /\ \A j \in 1..Len(t) : Append(t, x)[j] = t[j] /\ t[j].at \in Nat
           /\ x.at \in Nat
<1>1. /\ Len(t) \in Nat /\ Append(t, x) \in Seq(Attempts)
      /\ Len(Append(t, x)) = Len(t) + 1 /\ Append(t, x)[Len(t) + 1] = x
  OBVIOUS
<1>2. ASSUME NEW j \in 1..Len(t) PROVE Append(t, x)[j] = t[j] /\ t[j].at \in Nat
  <2>1. t[j] \in Attempts
    OBVIOUS
  <2>2. Append(t, x)[j] = t[j]
    OBVIOUS
  <2> QED BY <2>1, <2>2 DEF Attempts
<1>3. x.at \in Nat
  BY DEF Attempts
<1> QED BY <1>1, <1>2, <1>3

\* Chains and alerts of the past are not touched by a new attempt.
LEMMA ChainKept ==
    ASSUME NEW t \in Seq(Attempts), NEW x \in Attempts, NEW a \in 1..Len(t), NEW b \in 1..Len(t)
    PROVE  Chained(t, a, b) <=> Chained(Append(t, x), a, b)
<1>1. \A j \in a..(b - 1) : j \in 1..Len(t) /\ j + 1 \in 1..Len(t)
  BY OneMore
<1> QED BY <1>1, OneMore DEF Chained

LEMMA JustifiedKept ==
    ASSUME NEW t \in Seq(Attempts), NEW x \in Attempts, NEW raised, Justified(t, raised)
    PROVE  Justified(Append(t, x), raised)
<1> SUFFICES ASSUME NEW m \in raised
             PROVE  /\ m \in Threshold..Len(Append(t, x))
                    /\ Chained(Append(t, x), m - Threshold + 1, m)
                    /\ \A j \in (m - Threshold + 1)..(m - 1) : j \notin raised
  BY DEF Justified
<1>1. /\ m \in Threshold..Len(t) /\ Chained(t, m - Threshold + 1, m)
      /\ \A j \in (m - Threshold + 1)..(m - 1) : j \notin raised
  BY DEF Justified
<1>2. m \in Threshold..Len(Append(t, x)) /\ m \in 1..Len(t) /\ m - Threshold + 1 \in 1..Len(t)
  BY <1>1, Sizes, OneMore
<1>3. Chained(Append(t, x), m - Threshold + 1, m)
  BY <1>1, <1>2, ChainKept
<1> QED BY <1>1, <1>2, <1>3

LEMMA RaisedBound ==
    ASSUME NEW t \in Seq(Attempts), NEW raised, Justified(t, raised)
    PROVE  \A m \in raised : m \in 1..Len(t)
  BY Sizes DEF Justified

\* The first attempt, and one after a pause, start a stretch.
LEMMA StretchStarts ==
    ASSUME NEW t \in Seq(Attempts), NEW x \in Attempts, NEW raised, Justified(t, raised),
           t = <<>> \/ x.at - t[Len(t)].at > Window
    PROVE  Stretch(1, Append(t, x), raised)
<1> DEFINE n == Len(t)
           u == Append(t, x)
<1>1. /\ n \in Nat /\ Len(u) = n + 1 /\ u[n + 1] = x
      /\ \A j \in 1..n : u[j] = t[j] /\ t[j].at \in Nat
  BY OneMore
<1>2. \A j \in (n + 1)..(n + 1) : j \notin raised
  BY <1>1, RaisedBound
<1>3. Chained(u, n + 1, n + 1)
  BY <1>1 DEF Chained
<1>4. n + 1 = 1 \/ u[n + 1].at - u[n].at > Window
  <2>1. CASE t = <<>>
    BY <2>1
  <2>2. CASE t # <<>> /\ x.at - t[n].at > Window
    <3>1. n \in 1..n
      BY <1>1, <2>2
    <3> QED BY <1>1, <2>2, <3>1
  <2> QED BY <2>1, <2>2
<1>5. /\ 1 \in 0..(n + 1) /\ 1 < Threshold /\ 1 > 0
      /\ (n + 1) - 1 + 1 = n + 1 /\ (n + 1) - 1 = n
  BY <1>1, Sizes
<1> HIDE DEF n, u
<1> QED BY <1>1, <1>2, <1>3, <1>4, <1>5 DEF Stretch, u

\* An attempt without a pause makes the stretch one longer.
LEMMA ChainGrows ==
    ASSUME NEW t \in Seq(Attempts), t # <<>>, NEW x \in Attempts, x.at - t[Len(t)].at <= Window,
           NEW raised, NEW c \in Nat, Stretch(c, t, raised)
    PROVE  Chained(Append(t, x), Len(t) - c + 1, Len(t) + 1)
<1> DEFINE n == Len(t)
           u == Append(t, x)
<1>1. /\ n \in Nat /\ n > 0 /\ u[n + 1] = x
      /\ \A j \in 1..n : u[j] = t[j] /\ t[j].at \in Nat
  BY OneMore
<1>2. c <= n /\ Chained(t, n - c + 1, n)
  BY <1>1 DEF Stretch
<1> HIDE DEF n, u
<1>3. x.at - t[n].at <= Window
  BY DEF n
<1>4. ASSUME NEW j \in (n - c + 1)..n
      PROVE  u[j + 1].at - u[j].at <= Window
  <2>1. CASE j = n
    <3>1. n \in 1..n
      BY <1>1
    <3> QED BY <1>1, <1>3, <2>1, <3>1
  <2>2. CASE j # n
    <3>1. j \in (n - c + 1)..(n - 1) /\ j \in 1..n /\ j + 1 \in 1..n
      BY <1>1, <1>2, <2>2
    <3>2. t[j + 1].at - t[j].at <= Window
      BY <1>2, <3>1 DEF Chained
    <3> QED BY <1>1, <3>1, <3>2
  <2> QED BY <2>1, <2>2
<1>5. (n + 1) - 1 = n
  BY <1>1
<1>6. Chained(u, n - c + 1, n + 1)
  BY <1>4, <1>5 DEF Chained
<1> QED BY <1>6 DEF n, u

LEMMA StretchGrows ==
    ASSUME NEW t \in Seq(Attempts), t # <<>>, NEW x \in Attempts, x.at - t[Len(t)].at <= Window,
           NEW raised, Justified(t, raised),
           NEW c \in Nat, Stretch(c, t, raised), c + 1 < Threshold
    PROVE  Stretch(c + 1, Append(t, x), raised)
<1> DEFINE n == Len(t)
           u == Append(t, x)
<1>1. /\ n \in Nat /\ Len(u) = n + 1
      /\ \A j \in 1..n : u[j] = t[j] /\ t[j].at \in Nat
  BY OneMore
<1>2. /\ c <= n /\ \A j \in (n - c + 1)..n : j \notin raised
      /\ n = c \/ n - c \in raised \/ (c > 0 /\ t[n - c + 1].at - t[n - c].at > Window)
  BY <1>1 DEF Stretch
<1>3. Chained(u, n - c + 1, n + 1)
  BY ChainGrows
<1>4. n + 1 \notin raised
  BY <1>1, RaisedBound
<1> HIDE DEF n, u
<1>5. \A j \in (n - c + 1)..(n + 1) : j \notin raised
  BY <1>1, <1>2, <1>4
<1>6. n = c \/ n - c \in raised \/ u[n - c + 1].at - u[n - c].at > Window
  <2>1. CASE n # c /\ c > 0 /\ t[n - c + 1].at - t[n - c].at > Window
    <3>1. n - c \in 1..n /\ n - c + 1 \in 1..n
      BY <1>1, <1>2, <2>1
    <3> QED BY <1>1, <2>1, <3>1
  <2> QED BY <1>2, <2>1
<1>7. /\ c + 1 \in 0..(n + 1) /\ c + 1 > 0
      /\ (n + 1) - (c + 1) = n - c /\ (n = c => n + 1 = c + 1)
  BY <1>1, <1>2
<1> QED BY <1>1, <1>3, <1>5, <1>6, <1>7 DEF Stretch, u

\* The attempt that brings the count to the threshold raises a justified alert
\* and leaves an empty stretch behind.
LEMMA StretchAlerts ==
    ASSUME NEW t \in Seq(Attempts), t # <<>>, NEW x \in Attempts, x.at - t[Len(t)].at <= Window,
           NEW raised, Justified(t, raised),
           NEW c \in Nat, Stretch(c, t, raised), c + 1 >= Threshold
    PROVE  /\ Stretch(0, Append(t, x), raised \cup {Len(t) + 1})
           /\ Justified(Append(t, x), raised \cup {Len(t) + 1})
<1> DEFINE n == Len(t)
           u == Append(t, x)
           raised2 == raised \cup {n + 1}
<1>1. n \in Nat /\ Len(u) = n + 1
  BY OneMore
<1>2. /\ c <= n /\ c < Threshold /\ \A j \in (n - c + 1)..n : j \notin raised
  BY <1>1 DEF Stretch
<1>3. c + 1 = Threshold
  BY <1>2, Sizes
<1>4. Chained(u, n - c + 1, n + 1)
  BY ChainGrows
<1>5. Justified(u, raised)
  BY JustifiedKept
<1>6. \A m \in raised : m \in 1..n
  BY RaisedBound
<1> HIDE DEF n, u
<1>7. Stretch(0, u, raised2)
  <2>1. Chained(u, n + 1 - 0 + 1, n + 1)
    BY <1>1 DEF Chained
  <2>2. 0 \in 0..(n + 1) /\ 0 < Threshold /\ n + 1 - 0 \in raised2
    BY <1>1, Sizes
  <2>3. \A j \in (n + 1 - 0 + 1)..(n + 1) : j \notin raised2
    BY <1>1
  <2> HIDE DEF raised2
  <2> QED BY <1>1, <2>1, <2>2, <2>3 DEF Stretch
<1>8. Justified(u, raised2)
  <2> SUFFICES ASSUME NEW m \in raised2
               PROVE  /\ m \in Threshold..(n + 1)
                      /\ Chained(u, m - Threshold + 1, m)
                      /\ \A j \in (m - Threshold + 1)..(m - 1) : j \notin raised2
    BY <1>1 DEF Justified
  <2>1. CASE m \in raised
    <3>1. /\ m \in Threshold..(n + 1) /\ Chained(u, m - Threshold + 1, m)
          /\ \A j \in (m - Threshold + 1)..(m - 1) : j \notin raised
      BY <1>1, <1>5, <2>1 DEF Justified
    <3>2. \A j \in (m - Threshold + 1)..(m - 1) : j # n + 1
      BY <1>1, <1>6, <2>1, Sizes
    <3> QED BY <3>1, <3>2
  <2>2. CASE m = n + 1
    <3>1. m - Threshold + 1 = n - c + 1 /\ m - 1 = n /\ m \in Threshold..(n + 1)
      BY <1>1, <1>2, <1>3, <2>2, Sizes
    <3>2. \A j \in (n - c + 1)..n : j \notin raised2
      BY <1>1, <1>2
    <3> QED BY <1>4, <2>2, <3>1, <3>2
  <2> QED BY <2>1, <2>2
<1> QED BY <1>7, <1>8 DEF n, u

\* The count is below the threshold, so a pause or an alert is among the last
\* Threshold attempts: the last attempt did not complete an unnoticed attack.
LEMMA LastNoticed ==
    ASSUME NEW t \in Seq(Attempts), NEW raised, NEW c \in Nat, Stretch(c, t, raised),
           Len(t) >= Threshold, Chained(t, Len(t) - Threshold + 1, Len(t))
    PROVE  \E j \in (Len(t) - Threshold + 1)..Len(t) : j \in raised
<1> DEFINE n == Len(t)
<1>1. n \in Nat /\ c < Threshold /\ \A j \in 1..n : t[j].at \in Nat
  BY OneMore DEF Stretch
<1>2. n = c \/ n - c \in raised \/ (c > 0 /\ t[n - c + 1].at - t[n - c].at > Window)
  BY DEF Stretch
<1>3. n >= Threshold /\ Chained(t, n - Threshold + 1, n)
  OBVIOUS
<1> HIDE DEF n
<1>4. n - c \in (n - Threshold + 1)..n /\ n # c
  BY <1>1, <1>3, Sizes
<1>5. ~(c > 0 /\ t[n - c + 1].at - t[n - c].at > Window)
  <2> SUFFICES ASSUME c > 0 PROVE ~(t[n - c + 1].at - t[n - c].at > Window)
    OBVIOUS
  <2>1. /\ n - c \in (n - Threshold + 1)..(n - 1) /\ n - c \in 1..n
        /\ n - c + 1 \in 1..n
    BY <1>1, <1>3, <1>4, Sizes
  <2>2. t[n - c + 1].at - t[n - c].at <= Window /\ t[n - c + 1].at \in Nat /\ t[n - c].at \in Nat
    BY <1>1, <1>3, <2>1 DEF Chained
  <2> QED BY <2>2, Sizes
<1> QED BY <1>2, <1>4, <1>5 DEF n

LEMMA NoticedStep ==
    ASSUME NEW t \in Seq(Attempts), NEW x \in Attempts, NEW raised, Noticed(t, raised),
           NEW raised2, raised \subseteq raised2,
           NEW c \in Nat, Stretch(c, Append(t, x), raised2)
    PROVE  Noticed(Append(t, x), raised2)
<1> DEFINE u == Append(t, x)
<1>1. Len(t) \in Nat /\ u \in Seq(Attempts) /\ Len(u) = Len(t) + 1
  BY OneMore
<1> SUFFICES ASSUME NEW m \in Threshold..Len(u), Chained(u, m - Threshold + 1, m)
             PROVE  \E j \in (m - Threshold + 1)..m : j \in raised2
  BY DEF Noticed
<1>2. CASE m = Len(u)
  <2>1. Len(u) >= Threshold /\ Chained(u, Len(u) - Threshold + 1, Len(u))
    BY <1>2, Sizes, <1>1
  <2> HIDE DEF u
  <2> QED BY <1>1, <1>2, <2>1, LastNoticed DEF u
<1>3. CASE m # Len(u)
  <2>1. m \in Threshold..Len(t) /\ m \in 1..Len(t) /\ m - Threshold + 1 \in 1..Len(t)
    BY <1>1, <1>3, Sizes
  <2>2. Chained(t, m - Threshold + 1, m)
    BY <2>1, ChainKept
  <2> QED BY <2>1, <2>2 DEF Noticed
<1> QED BY <1>2, <1>3

-----------------------------------------------------------------------------
(***************************************************************************)
(* Back to the specification.  Record changes the entry, the attempts and  *)
(* the alerts of one key of one detector, and the attempt is of that key.  *)
(***************************************************************************)
KeyInv(entry, t, raised) ==
    EntryMeaning(entry, t, raised) /\ Justified(t, raised) /\ Noticed(t, raised)

\* The attempts t were made by sources of key k.
Under(k, t) == \A j \in 1..Len(t) : Key(t[j].by) = k

IInv ==
    /\ TypeOK
    /\ \A d \in Detectors, k \in Keys :
           KeyInv(tracker[d][k], seen[d][k], alerted[d][k]) /\ Under(k, seen[d][k])

\* What both detectors compute, in their different ways: a first attempt or one
\* after a pause counts one, any other one more than the entry; and an alert is
\* raised when the count reaches the threshold.
Count(entry) == IF entry = NoEntry \/ Expired(entry) THEN 1 ELSE entry.count + 1

LEMMA EntryStep ==
    ASSUME now \in Nat, NEW entry \in Entries \cup {NoEntry},
           NEW t \in Seq(Attempts), NEW raised, KeyInv(entry, t, raised),
           NEW x \in Attempts, x.at = now, NEW c, NEW raised2,
           \/ Count(entry) < Threshold /\ c = Count(entry) /\ raised2 = raised
           \/ Count(entry) >= Threshold /\ c = 0 /\ raised2 = raised \cup {Len(t) + 1}
    PROVE  /\ c \in 0..(Threshold - 1)
           /\ KeyInv([count |-> c, last |-> now], Append(t, x), raised2)
<1> DEFINE u == Append(t, x)
           new == [count |-> c, last |-> now]
<1>1. /\ c \in 0..(Threshold - 1) /\ c \in Nat
      /\ Stretch(c, u, raised2) /\ Justified(u, raised2)
  <2>1. CASE entry = NoEntry \/ Expired(entry)
    <3>1. Count(entry) = 1
      BY <2>1 DEF Count
    <3>2. c = 1 /\ raised2 = raised
      BY <3>1, Sizes
    <3>3. t = <<>> \/ now - t[Len(t)].at > Window
      BY <2>1 DEF KeyInv, EntryMeaning, Expired
    <3>4. Stretch(1, u, raised) /\ Justified(u, raised)
      BY <3>3, StretchStarts, JustifiedKept DEF KeyInv
    <3> QED BY <3>2, <3>4, Sizes
  <2>2. CASE entry # NoEntry /\ ~Expired(entry)
    <3>1. /\ entry.count \in Nat /\ t # <<>> /\ entry.last = t[Len(t)].at
          /\ Stretch(entry.count, t, raised) /\ Justified(t, raised)
      BY <2>2 DEF KeyInv, EntryMeaning, Entries
    <3>2. now - t[Len(t)].at <= Window
      <4>1. t[Len(t)].at \in Nat
        BY <3>1, OneMore
      <4> QED BY <2>2, <3>1, <4>1, Sizes DEF Expired
    <3>3. Count(entry) = entry.count + 1
      BY <2>2 DEF Count
    <3>4. CASE entry.count + 1 < Threshold
      <4>1. c = entry.count + 1 /\ raised2 = raised
        BY <3>1, <3>3, <3>4, Sizes
      <4>2. Stretch(entry.count + 1, u, raised) /\ Justified(u, raised)
        BY <3>1, <3>2, <3>4, StretchGrows, JustifiedKept
      <4> QED BY <3>1, <3>4, <4>1, <4>2, Sizes
    <3>5. CASE entry.count + 1 >= Threshold
      <4>1. c = 0 /\ raised2 = raised \cup {Len(t) + 1}
        BY <3>1, <3>3, <3>5, Sizes
      <4>2. /\ Stretch(0, u, raised \cup {Len(t) + 1})
            /\ Justified(u, raised \cup {Len(t) + 1})
        BY <3>1, <3>2, <3>5, StretchAlerts
      <4> QED BY <4>1, <4>2, Sizes
    <3> QED BY <3>1, <3>4, <3>5, Sizes
  <2> QED BY <2>1, <2>2
<1>2. Noticed(u, raised2)
  <2>1. raised \subseteq raised2
    OBVIOUS
  <2> QED BY <1>1, <2>1, NoticedStep DEF KeyInv
<1>3. EntryMeaning(new, u, raised2)
  <2>1. new \in Entries /\ new.count = c /\ new.last = now
    BY <1>1 DEF Entries
  <2>2. new # NoEntry
    BY <2>1, NoEntryAssumption
  <2>3. Len(u) = Len(t) + 1 /\ u[Len(u)].at = now /\ u # <<>>
    OBVIOUS
  <2> HIDE DEF new, u
  <2> QED BY <1>1, <2>1, <2>2, <2>3 DEF EntryMeaning
<1> QED BY <1>1, <1>2, <1>3 DEF KeyInv
LEMMA InitInv == Init => IInv
<1> SUFFICES ASSUME Init PROVE IInv
  OBVIOUS
<1>1. TypeOK
  BY BoundAssumption DEF Init, TypeOK
<1>2. ASSUME NEW d \in Detectors, NEW k \in Keys
      PROVE  KeyInv(tracker[d][k], seen[d][k], alerted[d][k]) /\ Under(k, seen[d][k])
  <2>1. tracker[d][k] = NoEntry /\ seen[d][k] = <<>> /\ alerted[d][k] = {}
    BY DEF Init
  <2>2. Justified(<<>>, {}) /\ EntryMeaning(NoEntry, <<>>, {})
    BY DEF Justified, EntryMeaning
  <2>3. Noticed(<<>>, {})
    BY Sizes DEF Noticed
  <2> QED BY <2>1, <2>2, <2>3 DEF KeyInv, Under
<1> QED BY <1>1, <1>2 DEF IInv

LEMMA RecordStep ==
    ASSUME IInv, NEW d \in Detectors, NEW s \in Sources, NEW count, NEW raises,
           count = Count(tracker[d][Key(s)]),
           raises <=> Count(tracker[d][Key(s)]) >= Threshold,
           Record(d, s, count, raises)
    PROVE  IInv'
<1> DEFINE k == Key(s)
           entry == tracker[d][k]
           c == IF raises THEN 0 ELSE count
           t == seen[d][k]
           x == [by |-> s, at |-> now]
           raised2 == IF raises THEN alerted[d][k] \cup {Len(t) + 1} ELSE alerted[d][k]
           new == [count |-> c, last |-> now]
<1>1. /\ now \in Nat /\ k \in Keys /\ entry \in Entries \cup {NoEntry}
      /\ t \in Seq(Attempts) /\ KeyInv(entry, t, alerted[d][k]) /\ Under(k, t)
      /\ x \in Attempts /\ x.at = now /\ Key(x.by) = k
  <2>1. now \in Nat /\ k \in Keys
    BY BoundAssumption DEF IInv, TypeOK, Keys
  <2>2. tracker[d][k] \in Entries \cup {NoEntry} /\ seen[d][k] \in Seq(Attempts)
    BY <2>1 DEF IInv, TypeOK
  <2> QED BY <2>1, <2>2 DEF IInv, Attempts
<1>2. \/ Count(entry) < Threshold /\ c = Count(entry) /\ raised2 = alerted[d][k]
      \/ Count(entry) >= Threshold /\ c = 0 /\ raised2 = alerted[d][k] \cup {Len(t) + 1}
  <2>1. Count(entry) \in Int
    BY <1>1 DEF Count, Entries
  <2>2. CASE raises
    BY <2>2
  <2>3. CASE ~raises
    BY <2>1, <2>3, Sizes
  <2> QED BY <2>2, <2>3
<1>3. tracker' = [tracker EXCEPT ![d][k] = new]
  BY DEF Record
<1>4. seen' = [seen EXCEPT ![d][k] = Append(t, x)]
  BY DEF Record
<1>5. alerted' = [alerted EXCEPT ![d][k] = raised2]
  BY DEF Record
<1>6. now' = now
  BY DEF Record
<1> HIDE DEF entry, c, t, raised2, k, x
<1>7. c \in 0..(Threshold - 1) /\ KeyInv(new, Append(t, x), raised2)
  BY <1>1, <1>2, EntryStep
<1>8. new \in Entries /\ Append(t, x) \in Seq(Attempts) /\ Under(k, Append(t, x))
  BY <1>1, <1>7, OneMore DEF Entries, Under
<1>9. raised2 \subseteq Nat
  <2>1. alerted[d][k] \subseteq Nat /\ Len(t) \in Nat
    BY <1>1 DEF IInv, TypeOK
  <2> QED BY <1>2, <2>1
<1> HIDE DEF new
<1>10. TypeOK'
  BY <1>1, <1>3, <1>4, <1>5, <1>6, <1>8, <1>9 DEF IInv, TypeOK
<1>11. ASSUME NEW d2 \in Detectors, NEW k2 \in Keys
       PROVE  /\ KeyInv(tracker'[d2][k2], seen'[d2][k2], alerted'[d2][k2])
              /\ Under(k2, seen'[d2][k2])
  <2>1. CASE d2 = d /\ k2 = k
    <3>1. /\ tracker'[d2][k2] = new /\ seen'[d2][k2] = Append(t, x)
          /\ alerted'[d2][k2] = raised2
      BY <1>1, <1>3, <1>4, <1>5, <2>1 DEF IInv, TypeOK
    <3> QED BY <1>7, <1>8, <2>1, <3>1
  <2>2. CASE ~(d2 = d /\ k2 = k)
    <3>1. /\ tracker'[d2][k2] = tracker[d2][k2] /\ seen'[d2][k2] = seen[d2][k2]
          /\ alerted'[d2][k2] = alerted[d2][k2]
      BY <1>1, <1>3, <1>4, <1>5, <2>2 DEF IInv, TypeOK
    <3> QED BY <3>1 DEF IInv
  <2> QED BY <2>1, <2>2
<1> QED BY <1>10, <1>11
       DEF IInv, KeyInv, EntryMeaning, Stretch, Justified, Noticed, Chained, Under

LEMMA NothingCounted ==
    ASSUME IInv, UNCHANGED <<tracker, seen, alerted>>, TypeOK'
    PROVE  IInv'
<1>1. ASSUME NEW d \in Detectors, NEW k \in Keys
      PROVE  /\ KeyInv(tracker'[d][k], seen'[d][k], alerted'[d][k])
             /\ Under(k, seen'[d][k])
  <2>1. KeyInv(tracker[d][k], seen[d][k], alerted[d][k]) /\ Under(k, seen[d][k])
    BY DEF IInv
  <2> QED BY <2>1
<1> QED BY <1>1
       DEF IInv, KeyInv, EntryMeaning, Stretch, Justified, Noticed, Chained, Under

LEMMA BruteForceStep ==
    ASSUME IInv, NEW e \in Events, DetectBruteForce(e)
    PROVE  IInv'
<1> DEFINE s == [tenant |-> e.tenant, ip |-> e.ip]
           entry == tracker["BRUTE_FORCE"][Key(s)]
           first == entry = NoEntry \/ Expired(entry)
           count == IF first THEN 1 ELSE entry.count + 1
<1>1. s \in Sources
  BY DEF Events, Sources
<1>2. count = Count(entry)
  BY DEF Count
<1>3. (~first /\ count >= Threshold) <=> Count(entry) >= Threshold
  BY <1>2, Sizes DEF Count
<1>4. Record("BRUTE_FORCE", s, count, ~first /\ count >= Threshold)
  BY DEF DetectBruteForce
<1> HIDE DEF s, first, count
<1> QED BY <1>1, <1>2, <1>3, <1>4, RecordStep DEF Detectors

LEMMA WebScanStep ==
    ASSUME IInv, NEW e \in Events, DetectWebScan(e)
    PROVE  IInv'
<1> DEFINE s == [tenant |-> e.tenant, ip |-> IF e.ip = Empty THEN Unknown ELSE e.ip]
           entry == tracker["WEB_SCAN"][Key(s)]
           count == IF entry = NoEntry THEN 1
                    ELSE (IF Expired(entry) THEN 0 ELSE entry.count) + 1
<1>1. s \in Sources
  BY DEF Events, Sources
<1>2. count = Count(entry)
  BY DEF Count
<1>3. (entry # NoEntry /\ count >= Threshold) <=> Count(entry) >= Threshold
  BY <1>2, Sizes DEF Count
<1>4. Record("WEB_SCAN", s, count, entry # NoEntry /\ count >= Threshold)
  BY DEF DetectWebScan
<1> HIDE DEF s, count
<1> QED BY <1>1, <1>2, <1>3, <1>4, RecordStep DEF Detectors

LEMMA NextInv == IInv /\ [Next]_vars => IInv'
<1> SUFFICES ASSUME IInv, [Next]_vars PROVE IInv'
  OBVIOUS
<1>1. CASE Tick
  <2>1. UNCHANGED <<tracker, seen, alerted>> /\ TypeOK'
    BY <1>1, BoundAssumption DEF Tick, IInv, TypeOK
  <2> QED BY <2>1, NothingCounted
<1>2. ASSUME NEW e \in Events, DetectBruteForce(e) \/ DetectWebScan(e)
      PROVE  IInv'
  BY <1>2, BruteForceStep, WebScanStep
<1>3. CASE UNCHANGED vars
  <2>1. UNCHANGED <<tracker, seen, alerted>> /\ TypeOK'
    BY <1>3 DEF vars, IInv, TypeOK
  <2> QED BY <2>1, NothingCounted
<1> QED BY <1>1, <1>2, <1>3 DEF Next

\* What the entries mean and who made the attempts say that alerts are deserved.
LEMMA Deserved == IInv => AlertJustified
<1> SUFFICES ASSUME IInv, NEW d \in Detectors, NEW k \in Keys, NEW m \in alerted[d][k]
             PROVE  LET t == seen[d][k]
                        rests == (m - Threshold + 1)..m
                    IN  /\ m \in Threshold..Len(t)
                        /\ Chained(t, m - Threshold + 1, m)
                        /\ rests \cap alerted[d][k] = {m}
                        /\ \A j \in rests : MayShare(t[j].by, t[m].by)
  BY DEF AlertJustified
<1> DEFINE t == seen[d][k]
<1>1. t \in Seq(Attempts) /\ Len(t) \in Nat
  BY DEF IInv, TypeOK
<1>2. /\ m \in Threshold..Len(t) /\ Chained(t, m - Threshold + 1, m)
      /\ \A j \in (m - Threshold + 1)..(m - 1) : j \notin alerted[d][k]
  BY DEF IInv, KeyInv, Justified
<1>3. m \in Int /\ m \in (m - Threshold + 1)..m
  BY <1>1, <1>2, Sizes
<1>4. ((m - Threshold + 1)..m) \cap alerted[d][k] = {m}
  BY <1>2, <1>3, Sizes
<1>5. ASSUME NEW j \in (m - Threshold + 1)..m PROVE MayShare(t[j].by, t[m].by)
  <2>1. j \in 1..Len(t) /\ m \in 1..Len(t)
    BY <1>1, <1>2, Sizes
  <2>2. Key(t[j].by) = k /\ Key(t[m].by) = k
    BY <2>1 DEF IInv, Under
  <2>3. t[j].by \in Sources /\ t[m].by \in Sources
    <3>1. t[j] \in Attempts /\ t[m] \in Attempts
      BY <1>1, <2>1
    <3> QED BY <3>1 DEF Attempts
  <2> QED BY <2>2, <2>3, SharedKey
<1> QED BY <1>2, <1>4, <1>5

\* The counters never reach the threshold between two events, and the maps hold
\* nothing but entries under the keys of sources.
THEOREM DetectionTyped == Spec => []TypeOK
<1>1. IInv => TypeOK
  BY DEF IInv
<1> QED BY <1>1, InitInv, NextInv, PTL DEF Spec

\* Each entry tells the truth about the attempts that were counted under its key:
\* the length of the last stretch without a pause or an alert, and when it ended.
THEOREM EntriesTellTheTruth == Spec => []EntriesMeanAttempts
<1>1. IInv => EntriesMeanAttempts
  BY DEF IInv, KeyInv, EntriesMeanAttempts
<1> QED BY <1>1, InitInv, NextInv, PTL DEF Spec

\* Every alert is deserved: it rests on Threshold attempts without a pause, none of
\* which served for another alert, made by the source that it names or by one whose
\* tenant name continues, or is continued by, that of the source after a colon.
\* Nothing is assumed of the names.
THEOREM AlertsAreJustified == Spec => []AlertJustified
  BY InitInv, NextInv, Deserved, PTL DEF Spec

\* Every attack is noticed: Threshold successive attempts under one key without a
\* pause contain one that raised an alert, whatever else shares the key.
THEOREM AttacksAreNoticed == Spec => []AttackNoticed
<1>1. IInv => AttackNoticed
  BY DEF IInv, KeyInv, Noticed, AttackNoticed
<1> QED BY <1>1, InitInv, NextInv, PTL DEF Spec
=============================================================================
